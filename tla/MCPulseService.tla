--------------------------- MODULE MCPulseService ---------------------------
(* Three concurrent updates of two sources, the facts of one of which are     *)
(* stored before they are validated.                                          *)
EXTENDS PulseService, TLC
CONSTANTS ha, device, u1, u2, u3
MCMaxAge == [s \in Sources |-> IF s = ha THEN 1 ELSE 0]
UpdateSymmetry == Permutations(Updates)
=============================================================================
