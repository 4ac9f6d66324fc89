---------------------------- MODULE MCPulsePages ----------------------------
(* One card, due after a while, and two pulse generations.  The gateway      *)
(* answers with the card and the one, with the other alone, or with neither. *)
(* Two cards at once are the matter of MCDelivery.                           *)
EXTENDS PulsePages
CONSTANTS a, p, q
Listed == <<[id |-> a, display |-> 2, expires |-> 0, displayed |-> FALSE]>>
MCOffered == {[jobs |-> Listed, pulse |-> p], [jobs |-> <<>>, pulse |-> q],
              [jobs |-> <<>>, pulse |-> None]}
=============================================================================
