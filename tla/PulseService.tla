---------------------------- MODULE PulseService ----------------------------
(***************************************************************************)
(* The gateway's Pulse updates (pulse_service.py, and the pulse tables of  *)
(* store.py).  An update stores the facts of its source, composes a view   *)
(* of what all sources have stored, renders it and activates the bundle.   *)
(* The handlers of app.py run each update in a thread of its own, so the   *)
(* steps of several updates interleave; a step here is one transaction or  *)
(* one locked read.                                                        *)
(*                                                                         *)
(* A fact stands for the payload of one update and carries its id.  What   *)
(* the assistant adds to the focus of another source, and the voice ideas, *)
(* are left out.                                                           *)
(***************************************************************************)
EXTENDS Integers

CONSTANTS
    Updates,       \* update requests
    Sources,       \* device, ha, mac, assistant
    Validated,     \* sources whose facts are validated before they are stored
    None,          \* no facts
    MaxAge,        \* for each source, how long its facts are fresh
    Skew,          \* how far in the future observed_at of fresh facts may lie
    MaxTime        \* bound: the clock and every observed_at stop here

ASSUME NoneIsNoUpdate == None \notin Updates
ASSUME ValidatedAreSources == Validated \subseteq Sources
ASSUME AgesAreNaturals == /\ MaxAge \in [Sources -> Nat]
                          /\ Skew \in Nat /\ MaxTime \in Nat \ {0}

VARIABLES
    now,       \* the gateway's time
    sources,   \* pulse_sources: the update whose facts each source last stored
    active,    \* the view the active generation shows
    pc,        \* how far each update has come
    request,   \* what each update carries
    view       \* the view each update has composed

vars == <<now, sources, active, pc, request, view>>

Times == 1..MaxTime

Request == [source : Sources, observed : Times, valid : BOOLEAN, accepted : Times]

ASSUME NoneIsNoRequest == None \notin Request

View == [Sources -> Updates \cup {None}]

EmptyView == [s \in Sources |-> None]

Init == /\ now = 1
        /\ sources = EmptyView
        /\ active = EmptyView
        /\ pc = [u \in Updates |-> "unsent"]
        /\ request = [u \in Updates |-> None]
        /\ view = [u \in Updates |-> EmptyView]

-----------------------------------------------------------------------------
Tick == /\ now < MaxTime
        /\ now' = now + 1
        /\ UNCHANGED <<sources, active, pc, request, view>>

\* SourceUpdate.from_mapping checks the facts of the device alone; the others
\* are checked in the composed view.
Send(u, source, observed, valid) ==
    /\ pc[u] = "unsent"
    /\ source \in Validated => valid
    /\ request' = [request EXCEPT ![u] = [source |-> source, observed |-> observed,
                                          valid |-> valid, accepted |-> now]]
    /\ pc' = [pc EXCEPT ![u] = "store"]
    /\ UNCHANGED <<now, sources, active, view>>

Observed(u) == request[u].observed

Older(u) ==
    LET stored == sources[request[u].source]
    IN  stored # None /\ Observed(u) < Observed(stored)

\* Mutants of Store: the age of the facts is not compared, or the first facts
\* of a source stay.
StoreUnordered(u) ==
    /\ pc[u] = "store"
    /\ sources' = [sources EXCEPT ![request[u].source] = u]
    /\ pc' = [pc EXCEPT ![u] = "compose"]
    /\ UNCHANGED <<now, active, request, view>>

StoreIfAbsent(u) ==
    /\ pc[u] = "store"
    /\ sources' = IF sources[request[u].source] # None THEN sources
                  ELSE [sources EXCEPT ![request[u].source] = u]
    /\ pc' = [pc EXCEPT ![u] = "compose"]
    /\ UNCHANGED <<now, active, request, view>>

\* upsert_pulse_source
Store(u) ==
    /\ pc[u] = "store"
    /\ IF Older(u)
       THEN pc' = [pc EXCEPT ![u] = "older"] /\ sources' = sources
       ELSE /\ sources' = [sources EXCEPT ![request[u].source] = u]
            /\ pc' = [pc EXCEPT ![u] = "compose"]
    /\ UNCHANGED <<now, active, request, view>>

\* _fresh
Fresh(fact, at) == /\ Observed(fact) <= at + Skew
                   /\ at - Observed(fact) <= MaxAge[request[fact].source]

Shown(s, at) ==
    IF sources[s] = None THEN None
    ELSE IF Fresh(sources[s], at) THEN sources[s] ELSE None

\* Mutant of Compose: the composed view is not validated.
ComposeUnchecked(u) ==
    /\ pc[u] = "compose"
    /\ view' = [view EXCEPT ![u] =
                   [s \in Sources |-> Shown(s, request[u].accepted)]]
    /\ pc' = [pc EXCEPT ![u] = "render"]
    /\ UNCHANGED <<now, sources, active, request>>

\* compose_view, at the time the update was accepted; PulseView.from_mapping
\* refuses the whole view when the facts of any source are invalid.
Compose(u) ==
    LET composed == [s \in Sources |-> Shown(s, request[u].accepted)]
        acceptable == \A s \in Sources :
                          composed[s] # None => request[composed[s]].valid
    IN  /\ pc[u] = "compose"
        /\ view' = [view EXCEPT ![u] = IF acceptable THEN composed ELSE @]
        /\ pc' = [pc EXCEPT ![u] = IF acceptable THEN "render" ELSE "invalid"]
        /\ UNCHANGED <<now, sources, active, request>>

RenderFails(u) ==
    /\ pc[u] = "render"
    /\ pc' = [pc EXCEPT ![u] = "failed"]
    /\ UNCHANGED <<now, sources, active, request, view>>

\* activate_pulse_bundle; its handler then answers 200.
Activate(u) ==
    /\ pc[u] = "render"
    /\ active' = view[u]
    /\ pc' = [pc EXCEPT ![u] = "answered"]
    /\ UNCHANGED <<now, sources, request, view>>

Running == {"store", "compose", "render"}

\* The threads are gone, the database stays.
Restart ==
    /\ \E u \in Updates : pc[u] \in Running
    /\ pc' = [u \in Updates |-> IF pc[u] \in Running THEN "lost" ELSE pc[u]]
    /\ UNCHANGED <<now, sources, active, request, view>>

Next ==
    \/ Tick
    \/ Restart
    \/ \E u \in Updates :
          \/ \E source \in Sources, observed \in Times, valid \in BOOLEAN :
                Send(u, source, observed, valid)
          \/ Store(u) \/ Compose(u) \/ RenderFails(u) \/ Activate(u)

Spec == Init /\ [][Next]_vars

-----------------------------------------------------------------------------
(* Properties *)

States == Running \cup {"unsent", "older", "invalid", "failed", "answered", "lost"}

\* Every variable stays in its type; only a request that was sent is stored.
TypeOK ==
    /\ now \in Times
    /\ {sources, active} \subseteq View
    /\ pc \in [Updates -> States]
    /\ request \in [Updates -> Request \cup {None}]
    /\ view \in [Updates -> View]
    /\ \A u \in Updates : pc[u] # "unsent" => request[u] # None
    /\ \A s \in Sources : sources[s] # None => pc[sources[s]] # "unsent"

\* No interleaving brings back older facts of a source: the check and the write
\* of an update are one transaction (store.py:496-510).
SourcesAdvance ==
    [][\A s \in Sources : sources[s] # None =>
          /\ sources'[s] # None
          /\ request'[sources'[s]].observed >= Observed(sources[s])]_vars

\* The generation an update answers with shows the facts of that update or
\* newer ones of the same source, or none that are still fresh, whatever other
\* updates do meanwhile (pulse_service.py:43-61).
OwnFactsIncluded ==
    \A u \in Updates : pc[u] \in {"render", "answered"} =>
        LET own == view[u][request[u].source]
        IN  IF own # None
            THEN Observed(own) >= Observed(u)
            ELSE \E v \in Updates : /\ request[v] # None
                                    /\ request[v].source = request[u].source
                                    /\ Observed(v) >= Observed(u)
                                    /\ ~Fresh(v, request[u].accepted)

\* The bundle on offer to devices was validated as a whole: it never shows
\* facts that the strict view refuses, although the store keeps such facts
\* (pulse_service.py:132-148).
ActiveIsValid ==
    \A s \in Sources : active[s] # None => request[active[s]].valid
=============================================================================
