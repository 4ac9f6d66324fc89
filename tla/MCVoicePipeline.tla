--------------------------- MODULE MCVoicePipeline ---------------------------
(* Two recordings, a file the gateway refuses and one the device cannot send; *)
(* a listing holds two of the four.  The first recording is long enough for   *)
(* the gateway to read a part of it only.                                     *)
EXTENDS VoicePipeline
CONSTANTS c1, c2, bad, odd, v, w
MCWhole == [c \in Captures |-> IF c = c1 THEN 2 ELSE 1]
=============================================================================
