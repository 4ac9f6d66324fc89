----------------------------- MODULE MCJobStore -----------------------------
(* Three jobs of which two fill a manifest, one of them too large to be      *)
(* listed with another of its size.                                          *)
EXTENDS JobStore
MCSize == [j \in Jobs |-> IF j = 3 THEN 2 ELSE 1]
=============================================================================
