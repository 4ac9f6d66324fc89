---------------------------- MODULE MCWakeCycle ----------------------------
(* A minute of three seconds; a card that falls due inside a minute and      *)
(* expires in the next, and one that falls due a second after it, at the     *)
(* start of a minute.  That is what it takes to reach the bound on lateness. *)
EXTENDS WakeCycle
MCCards == {[display |-> 11, expires |-> 13], [display |-> 12, expires |-> 0]}
=============================================================================
