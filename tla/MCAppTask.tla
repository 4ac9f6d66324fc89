----------------------------- MODULE MCAppTask -----------------------------
(* AppTask for TLC.  A recording of two blocks has a first, a middle and a *)
(* last one; nothing else is counted.                                      *)
EXTENDS AppTask

MCMaxBlocks == 2
=============================================================================
