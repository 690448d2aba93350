-------------------------------- MODULE MCDram -------------------------------
(***************************************************************************)
(* The address mappings of the lpddr4 and lpddr5 presets of                *)
(* targets/hetero/dram_presets.py, for TLC.  The rest of a preset is in    *)
(* the configuration, in clocks, with a write queue of four bursts instead *)
(* of 32 and the watermarks scaled with it.                                *)
(***************************************************************************)
EXTENDS Dram

RoBaCo   == <<"Ro", "Ba", "Co">>
RoBaCoBg == <<"Ro", "Ba", "Co", "Bg">>
==============================================================================
