------------------------- MODULE PulseServiceProofs -------------------------
(***************************************************************************)
(* PulseService for any updates and sources: stored facts never go back in *)
(* time, an answered generation has the facts of its update, and only      *)
(* valid views are published.                                              *)
(***************************************************************************)
EXTENDS PulseService, TLAPS

\* A request is there from the moment it is sent.
SentHaveRequests == \A u \in Updates : pc[u] = "unsent" => request[u] = None

\* What is stored under a source, or shown for it, is a request of that source;
\* a view holds valid facts only.
StoredUnderTheirSource ==
    \A s \in Sources : sources[s] # None => request[sources[s]].source = s

ShownAreSound(v) ==
    \A s \in Sources : v[s] # None => /\ request[v[s]] # None
                                      /\ request[v[s]].valid

ViewsAreSound == \A u \in Updates : ShownAreSound(view[u])
ActiveIsSound == ShownAreSound(active)

\* Once an update is past its store, its source has its facts or newer ones.
StoredAreAsNew ==
    \A u \in Updates : pc[u] = "compose" =>
        LET stored == sources[request[u].source]
        IN  stored # None /\ Observed(stored) >= Observed(u)

IInv == /\ TypeOK /\ SentHaveRequests /\ StoredUnderTheirSource
        /\ ViewsAreSound /\ ActiveIsSound /\ StoredAreAsNew /\ OwnFactsIncluded

\* The requests that were there are there unchanged, and sources go on.
GoesOn ==
    /\ \A u \in Updates : request[u] # None => request'[u] = request[u]
    /\ \A s \in Sources : sources[s] # None =>
          /\ sources'[s] # None
          /\ request'[sources'[s]].observed >= Observed(sources[s])

LEMMA InitEstablishes == Init => IInv
<1> SUFFICES ASSUME Init PROVE IInv
  OBVIOUS
<1> USE DEF Init
<1>1. EmptyView \in View
  BY DEF EmptyView, View
<1>2. TypeOK
  BY <1>1, AgesAreNaturals DEF TypeOK, Times, States, Running, EmptyView
<1>3. SentHaveRequests /\ StoredUnderTheirSource /\ StoredAreAsNew
  BY DEF SentHaveRequests, StoredUnderTheirSource, StoredAreAsNew, EmptyView
<1>4. ViewsAreSound /\ ActiveIsSound
  BY DEF ViewsAreSound, ActiveIsSound, ShownAreSound, EmptyView
<1>5. OwnFactsIncluded
  BY DEF OwnFactsIncluded
<1> QED
  BY <1>2, <1>3, <1>4, <1>5 DEF IInv

\* The types a request's numbers have.
LEMMA RequestTypes ==
    ASSUME TypeOK, NEW u \in Updates, request[u] # None
    PROVE  request[u] \in Request /\ Observed(u) \in Int
BY DEF TypeOK, Request, Observed, Times

LEMMA SentAreRequests ==
    ASSUME TypeOK, NEW s \in Sources, sources[s] # None
    PROVE  sources[s] \in Updates /\ request[sources[s]] # None
BY DEF TypeOK, View

\* Where requests, sources and the views of others stay, what was said of an
\* update that does not move stays true.
LEMMA OwnStays ==
    ASSUME IInv, NEW u \in Updates, pc[u] \in {"render", "answered"},
           view'[u] = view[u],
           \A v \in Updates : request[v] # None => request'[v] = request[v]
    PROVE  LET own == view'[u][request'[u].source]
           IN  IF own # None
               THEN request'[own].observed >= request'[u].observed
               ELSE \E v \in Updates :
                        /\ request'[v] # None
                        /\ request'[v].source = request'[u].source
                        /\ request'[v].observed >= request'[u].observed
                        /\ ~Fresh(v, request[u].accepted)'
<1>1. request[u] # None /\ request'[u] = request[u] /\ request[u].source \in Sources
  <2>1. request[u] # None
    BY DEF IInv, TypeOK
  <2> QED
    BY <2>1, RequestTypes DEF IInv, Request
<1> DEFINE own == view[u][request[u].source]
<1>2. CASE own # None
  <2>1. request[own] # None /\ own \in Updates
    BY <1>1, <1>2 DEF IInv, ViewsAreSound, ShownAreSound, TypeOK, View
  <2>2. Observed(own) >= Observed(u)
    BY <1>2 DEF IInv, OwnFactsIncluded
  <2> QED
    BY <1>1, <1>2, <2>1, <2>2 DEF Observed
<1>3. CASE own = None
  <2>1. PICK v \in Updates : /\ request[v] # None
                             /\ request[v].source = request[u].source
                             /\ Observed(v) >= Observed(u)
                             /\ ~Fresh(v, request[u].accepted)
    BY <1>3 DEF IInv, OwnFactsIncluded
  <2>2. request'[v] = request[v]
    BY <2>1
  <2>3. ~Fresh(v, request[u].accepted)'
    BY <1>1, <2>1, <2>2 DEF Fresh, Observed
  <2> QED
    BY <1>1, <1>3, <2>1, <2>2, <2>3 DEF Observed
<1> QED
  BY <1>2, <1>3

\* Restart, a failed rendering and an activation only end or move threads.
LEMMA ThreadStep ==
    ASSUME IInv, pc' \in [Updates -> States], now' \in Times,
           UNCHANGED <<sources, request, view>>, ActiveIsSound', active' \in View,
           \A u \in Updates :
               /\ pc'[u] = "unsent" <=> pc[u] = "unsent"
               /\ pc'[u] = "compose" => pc[u] = "compose"
               /\ pc'[u] \in {"render", "answered"} => pc[u] \in {"render", "answered"}
    PROVE  IInv'
<1>1. TypeOK'
  BY SentAreRequests DEF IInv, TypeOK
<1>2. (SentHaveRequests /\ StoredUnderTheirSource /\ ViewsAreSound)'
  BY DEF IInv, SentHaveRequests, StoredUnderTheirSource, ViewsAreSound, ShownAreSound
<1>3. StoredAreAsNew'
  BY DEF IInv, StoredAreAsNew, Observed
<1>4. OwnFactsIncluded'
  BY OwnStays DEF OwnFactsIncluded, Observed
<1> QED
  BY <1>1, <1>2, <1>3, <1>4 DEF IInv

LEMMA SendStep ==
    ASSUME IInv, NEW u \in Updates, NEW source \in Sources, NEW observed \in Times,
           NEW valid \in BOOLEAN, Send(u, source, observed, valid)
    PROVE  IInv' /\ GoesOn
<1> USE DEF Send
<1> DEFINE sent == [source |-> source, observed |-> observed,
                    valid |-> valid, accepted |-> now]
<1>1. sent \in Request /\ sent # None
  BY NoneIsNoRequest DEF IInv, TypeOK, Request
<1>2. request' = [request EXCEPT ![u] = sent] /\ request[u] = None
  BY DEF IInv, SentHaveRequests
<1>3. pc \in [Updates -> States] /\ request \in [Updates -> Request \cup {None}]
  BY DEF IInv, TypeOK
<1>4. \A v \in Updates : request[v] # None => request'[v] = request[v]
  BY <1>2, <1>3
<1>5. TypeOK'
  <2>1. request' \in [Updates -> Request \cup {None}]
    BY <1>1, <1>2, <1>3
  <2>2. pc' \in [Updates -> States]
    BY <1>3 DEF States, Running
  <2>3. \A v \in Updates : pc'[v] # "unsent" => request'[v] # None
    BY <1>1, <1>2, <1>3 DEF IInv, TypeOK
  <2>4. \A s \in Sources : sources'[s] # None => pc'[sources'[s]] # "unsent"
    BY <1>3 DEF IInv, TypeOK, View
  <2> QED
    BY <2>1, <2>2, <2>3, <2>4 DEF IInv, TypeOK
<1>6. SentHaveRequests'
  BY <1>2, <1>3 DEF IInv, SentHaveRequests
<1>7. StoredUnderTheirSource'
  BY <1>4, SentAreRequests DEF IInv, StoredUnderTheirSource
<1>8. ViewsAreSound' /\ ActiveIsSound'
  <2>1. ASSUME NEW v \in View, ShownAreSound(v)
        PROVE  \A s \in Sources : v[s] # None => /\ request'[v[s]] # None
                                                 /\ request'[v[s]].valid
    BY <1>4, <2>1 DEF ShownAreSound, View
  <2>2. \A v \in Updates : view[v] \in View /\ ShownAreSound(view[v])
    BY DEF IInv, TypeOK, ViewsAreSound
  <2>3. active \in View /\ ShownAreSound(active)
    BY DEF IInv, TypeOK, ActiveIsSound
  <2> QED
    BY <2>1, <2>2, <2>3 DEF ViewsAreSound, ActiveIsSound, ShownAreSound
<1>9. StoredAreAsNew'
  <2> SUFFICES ASSUME NEW v \in Updates, pc'[v] = "compose"
               PROVE  LET stored == sources[request'[v].source]
                      IN  stored # None /\ request'[stored].observed >= request'[v].observed
    BY DEF StoredAreAsNew, Observed
  <2>1. pc[v] = "compose" /\ v # u
    BY <1>3
  <2>2. request[v] # None /\ request'[v] = request[v] /\ request[v].source \in Sources
    BY <1>4, <2>1, RequestTypes DEF IInv, TypeOK, Request
  <2>3. LET stored == sources[request[v].source]
        IN  stored # None /\ Observed(stored) >= Observed(v)
    BY <2>1 DEF IInv, StoredAreAsNew
  <2> QED
    BY <1>4, <2>2, <2>3, SentAreRequests DEF IInv, Observed
<1>10. OwnFactsIncluded'
  <2> SUFFICES ASSUME NEW v \in Updates, pc'[v] \in {"render", "answered"}
               PROVE  (LET own == view[v][request[v].source]
                       IN  IF own # None
                           THEN Observed(own) >= Observed(v)
                           ELSE \E w \in Updates : /\ request[w] # None
                                                   /\ request[w].source = request[v].source
                                                   /\ Observed(w) >= Observed(v)
                                                   /\ ~Fresh(w, request[v].accepted))'
    BY DEF OwnFactsIncluded
  <2>1. pc[v] \in {"render", "answered"} /\ v # u
    BY <1>3
  <2>2. request'[v] = request[v]
    BY <1>4, <2>1 DEF IInv, TypeOK
  <2> QED
    BY <1>4, <2>1, <2>2, OwnStays DEF Observed
<1>11. GoesOn
  <2>1. \A s \in Sources : sources[s] # None =>
            request'[sources[s]].observed >= Observed(sources[s])
    BY <1>4, SentAreRequests, RequestTypes DEF IInv, Observed
  <2> QED
    BY <1>4, <2>1 DEF GoesOn
<1> QED
  BY <1>5, <1>6, <1>7, <1>8, <1>9, <1>10, <1>11 DEF IInv

LEMMA StoreStep ==
    ASSUME IInv, NEW u \in Updates, Store(u)
    PROVE  IInv' /\ GoesOn
<1> USE DEF Store
<1> DEFINE src == request[u].source
<1>1. /\ pc \in [Updates -> States] /\ sources \in View
      /\ request[u] # None /\ request[u] \in Request /\ src \in Sources
      /\ Observed(u) \in Int
  <2>1. request[u] # None
    BY DEF IInv, TypeOK
  <2> QED
    BY <2>1, RequestTypes DEF IInv, TypeOK, Request
<1>2. \A s \in Sources : sources[s] # None =>
          /\ sources[s] \in Updates /\ request[sources[s]] # None
          /\ Observed(sources[s]) \in Int
  BY SentAreRequests, RequestTypes DEF IInv
<1>3. CASE Older(u)
  <2>1. UNCHANGED <<now, sources, active, request, view>> /\ pc' = [pc EXCEPT ![u] = "older"]
    BY <1>3
  <2>2. pc' \in [Updates -> States]
    BY <1>1, <2>1 DEF States
  <2>3. IInv'
    BY <1>1, <2>1, <2>2, ThreadStep DEF IInv, TypeOK, ActiveIsSound, ShownAreSound
  <2> QED
    BY <1>2, <2>1, <2>3 DEF GoesOn, Observed
<1>4. CASE ~Older(u)
  <2>1. /\ sources' = [sources EXCEPT ![src] = u]
        /\ pc' = [pc EXCEPT ![u] = "compose"]
        /\ UNCHANGED <<now, active, request, view>>
    BY <1>4
  <2>2. \A s \in Sources : sources'[s] = IF s = src THEN u ELSE sources[s]
    BY <1>1, <2>1 DEF View
  <2>3. \A s \in Sources : sources[s] # None =>
            sources'[s] # None /\ Observed(sources'[s]) >= Observed(sources[s])
    BY <1>1, <1>2, <1>4, <2>2, NoneIsNoUpdate DEF Older
  <2>4. TypeOK'
    <3>1. sources' \in View
      BY <1>1, <2>1 DEF View
    <3>2. pc' \in [Updates -> States]
      BY <1>1, <2>1 DEF States, Running
    <3>3. \A s \in Sources : sources'[s] # None => pc'[sources'[s]] # "unsent"
      BY <1>1, <1>2, <2>1, <2>2 DEF IInv, TypeOK
    <3>4. \A v \in Updates : pc'[v] # "unsent" => request'[v] # None
      BY <1>1, <2>1 DEF IInv, TypeOK
    <3> QED
      BY <2>1, <3>1, <3>2, <3>3, <3>4 DEF IInv, TypeOK
  <2>5. (SentHaveRequests /\ StoredUnderTheirSource /\ ViewsAreSound /\ ActiveIsSound)'
    BY <1>1, <2>1, <2>2 DEF IInv, SentHaveRequests, StoredUnderTheirSource, ViewsAreSound,
                            ActiveIsSound, ShownAreSound
  <2>6. StoredAreAsNew'
    <3> SUFFICES ASSUME NEW v \in Updates, pc'[v] = "compose"
                 PROVE  LET stored == sources'[request[v].source]
                        IN  stored # None /\ Observed(stored) >= Observed(v)
      BY <2>1 DEF StoredAreAsNew, Observed
    <3>1. CASE v = u
      BY <1>1, <2>2, <3>1, NoneIsNoUpdate
    <3>2. CASE v # u
      <4>1. pc[v] = "compose"
        BY <1>1, <2>1, <3>2
      <4>2. request[v] # None /\ request[v].source \in Sources /\ Observed(v) \in Int
        BY <4>1, RequestTypes DEF IInv, TypeOK, Request
      <4>3. LET stored == sources[request[v].source]
            IN  stored # None /\ Observed(stored) >= Observed(v)
        BY <4>1 DEF IInv, StoredAreAsNew
      <4> QED
        BY <1>1, <1>2, <2>2, <2>3, <4>2, <4>3
    <3> QED
      BY <3>1, <3>2
  <2>7. OwnFactsIncluded'
    <3>1. \A v \in Updates : pc'[v] \in {"render", "answered"} => pc[v] \in {"render", "answered"}
      BY <1>1, <2>1
    <3> QED
      BY <2>1, <3>1, OwnStays DEF OwnFactsIncluded, Observed
  <2> QED
    BY <2>1, <2>3, <2>4, <2>5, <2>6, <2>7 DEF IInv, GoesOn, Observed
<1> QED
  BY <1>3, <1>4

LEMMA ComposeStep ==
    ASSUME IInv, NEW u \in Updates, Compose(u)
    PROVE  IInv'
<1> DEFINE src == request[u].source
           composed == [s \in Sources |-> Shown(s, request[u].accepted)]
           acceptable == \A s \in Sources : composed[s] # None => request[composed[s]].valid
<1>1. /\ pc[u] = "compose"
      /\ view' = [view EXCEPT ![u] = IF acceptable THEN composed ELSE @]
      /\ pc' = [pc EXCEPT ![u] = IF acceptable THEN "render" ELSE "invalid"]
      /\ UNCHANGED <<now, sources, active, request>>
  BY DEF Compose
<1>2. /\ pc \in [Updates -> States] /\ view \in [Updates -> View]
      /\ request[u] # None /\ src \in Sources
  <2>1. request[u] # None
    BY <1>1 DEF IInv, TypeOK
  <2> QED
    BY <2>1, RequestTypes DEF IInv, TypeOK, Request
<1>3. CASE ~acceptable
  <2>1. view' = view
    BY <1>1, <1>2, <1>3
  <2>2. pc' = [pc EXCEPT ![u] = "invalid"] /\ pc' \in [Updates -> States]
    BY <1>1, <1>2, <1>3 DEF States
  <2> QED
    BY <1>1, <1>2, <2>1, <2>2, ThreadStep DEF IInv, TypeOK, ActiveIsSound, ShownAreSound
<1>4. CASE acceptable
  <2>1. view' = [view EXCEPT ![u] = composed] /\ pc' = [pc EXCEPT ![u] = "render"]
    BY <1>1, <1>4
  <2>2. \A s \in Sources : composed[s] \in {None, sources[s]}
    BY DEF Shown
  <2>3. composed \in View
    BY <2>2 DEF IInv, TypeOK, View
  <2>4. ShownAreSound(composed)
    BY <1>4, <2>2, SentAreRequests DEF IInv, ShownAreSound
  <2>5. TypeOK'
    <3>1. view' \in [Updates -> View]
      BY <1>2, <2>1, <2>3
    <3>2. pc' \in [Updates -> States]
      BY <1>2, <2>1 DEF States, Running
    <3>3. \A v \in Updates : pc'[v] # "unsent" => request'[v] # None
      BY <1>1, <1>2, <2>1 DEF IInv, TypeOK
    <3>4. \A s \in Sources : sources'[s] # None => pc'[sources'[s]] # "unsent"
      BY <1>1, <1>2, <2>1, SentAreRequests DEF IInv, TypeOK
    <3> QED
      BY <1>1, <3>1, <3>2, <3>3, <3>4 DEF IInv, TypeOK
  <2>6. (SentHaveRequests /\ StoredUnderTheirSource /\ ActiveIsSound)'
    BY <1>1, <1>2, <2>1 DEF IInv, SentHaveRequests, StoredUnderTheirSource, ActiveIsSound,
                            ShownAreSound
  <2>7. ViewsAreSound'
    <3>1. \A v \in Updates : view'[v] = IF v = u THEN composed ELSE view[v]
      BY <1>2, <2>1
    <3>2. \A v \in Updates : ShownAreSound(view'[v])
      BY <2>4, <3>1 DEF IInv, ViewsAreSound
    <3> QED
      BY <1>1, <3>2 DEF ViewsAreSound, ShownAreSound
  <2>8. StoredAreAsNew'
    BY <1>1, <1>2, <2>1 DEF IInv, StoredAreAsNew, Observed
  <2>9. OwnFactsIncluded'
    <3> SUFFICES ASSUME NEW v \in Updates, pc'[v] \in {"render", "answered"}
                 PROVE  (LET own == view[v][request[v].source]
                         IN  IF own # None
                             THEN Observed(own) >= Observed(v)
                             ELSE \E w \in Updates :
                                     /\ request[w] # None
                                     /\ request[w].source = request[v].source
                                     /\ Observed(w) >= Observed(v)
                                     /\ ~Fresh(w, request[v].accepted))'
      BY DEF OwnFactsIncluded
    <3>1. CASE v # u
      <4>1. pc[v] \in {"render", "answered"} /\ view'[v] = view[v]
        BY <1>2, <2>1, <3>1
      <4> QED
        BY <1>1, <4>1, OwnStays DEF Observed
    <3>2. CASE v = u
      <4> DEFINE stored == sources[src]
      <4>1. stored # None /\ Observed(stored) >= Observed(u)
        BY <1>1 DEF IInv, StoredAreAsNew
      <4>2. /\ stored \in Updates /\ request[stored] # None
            /\ request[stored].source = src
        BY <1>2, <4>1, SentAreRequests DEF IInv, StoredUnderTheirSource
      <4>3. view'[u][src] = Shown(src, request[u].accepted)
        BY <1>2, <2>1
      <4>4. CASE Fresh(stored, request[u].accepted)
        <5>1. view'[u][src] = stored
          BY <4>1, <4>3, <4>4 DEF Shown
        <5> QED
          BY <1>1, <3>2, <4>1, <5>1 DEF Observed
      <4>5. CASE ~Fresh(stored, request[u].accepted)
        <5>1. view'[u][src] = None
          BY <4>3, <4>5 DEF Shown
        <5>2. ~Fresh(stored, request[u].accepted)'
          BY <1>1, <4>5 DEF Fresh, Observed
        <5> QED
          BY <1>1, <3>2, <4>1, <4>2, <5>1, <5>2 DEF Observed
      <4> QED
        BY <4>4, <4>5
    <3> QED
      BY <3>1, <3>2
  <2> QED
    BY <2>5, <2>6, <2>7, <2>8, <2>9 DEF IInv
<1> QED
  BY <1>3, <1>4

LEMMA NextPreserves == IInv /\ [Next]_vars => IInv' /\ GoesOn
<1> SUFFICES ASSUME IInv, [Next]_vars PROVE IInv' /\ GoesOn
  OBVIOUS
<1>1. UNCHANGED <<sources, request>> => GoesOn
  <2>1. \A s \in Sources : sources[s] # None => Observed(sources[s]) \in Int
    BY SentAreRequests, RequestTypes DEF IInv
  <2> QED
    BY <2>1 DEF GoesOn, Observed
<1>2. pc \in [Updates -> States] /\ now \in Times /\ active \in View
  BY DEF IInv, TypeOK
<1>3. UNCHANGED active /\ UNCHANGED request => ActiveIsSound'
  BY DEF IInv, ActiveIsSound, ShownAreSound
<1>4. CASE Tick
  <2>1. now' \in Times
    BY <1>2, <1>4, AgesAreNaturals DEF Tick, Times
  <2> QED
    BY <1>1, <1>2, <1>3, <1>4, <2>1, ThreadStep DEF Tick
<1>5. CASE Restart
  <2>1. pc' \in [Updates -> States]
    BY <1>2, <1>5 DEF Restart, States
  <2>2. \A u \in Updates : pc'[u] = IF pc[u] \in Running THEN "lost" ELSE pc[u]
    BY <1>2, <1>5 DEF Restart
  <2>3. \A u \in Updates :
               /\ pc'[u] = "unsent" <=> pc[u] = "unsent"
               /\ pc'[u] = "compose" => pc[u] = "compose"
               /\ pc'[u] \in {"render", "answered"} => pc[u] \in {"render", "answered"}
    BY <2>2 DEF Running
  <2> QED
    BY <1>1, <1>2, <1>3, <1>5, <2>1, <2>3, ThreadStep DEF Restart
<1>6. ASSUME NEW u \in Updates, RenderFails(u) PROVE IInv' /\ GoesOn
  <2>1. pc' \in [Updates -> States]
    BY <1>2, <1>6 DEF RenderFails, States
  <2> QED
    BY <1>1, <1>2, <1>3, <1>6, <2>1, ThreadStep DEF RenderFails
<1>7. ASSUME NEW u \in Updates, Activate(u) PROVE IInv' /\ GoesOn
  <2>1. pc' \in [Updates -> States]
    BY <1>2, <1>7 DEF Activate, States
  <2>2. active' \in View
    BY <1>7 DEF Activate, IInv, TypeOK
  <2>3. ActiveIsSound'
    BY <1>7 DEF Activate, IInv, ViewsAreSound, ActiveIsSound, ShownAreSound
  <2> QED
    BY <1>1, <1>2, <1>7, <2>1, <2>2, <2>3, ThreadStep DEF Activate
<1>8. ASSUME NEW u \in Updates, Compose(u) PROVE IInv' /\ GoesOn
  BY <1>1, <1>8, ComposeStep DEF Compose
<1>9. CASE UNCHANGED vars
  BY <1>1, <1>2, <1>3, <1>9, ThreadStep DEF vars
<1> QED
  BY <1>4, <1>5, <1>6, <1>7, <1>8, <1>9, SendStep, StoreStep DEF Next

LEMMA Inductive == Spec => []IInv
<1>1. IInv /\ [Next]_vars => IInv'
  BY NextPreserves
<1> QED
  BY InitEstablishes, <1>1, PTL DEF Spec

(* The generation an update answers with has its facts or newer ones, or   *)
(* none that are still fresh, however many updates interleave.             *)
THEOREM OwnFactsAreIncluded == Spec => []OwnFactsIncluded
<1>1. IInv => OwnFactsIncluded
  BY DEF IInv
<1> QED
  BY Inductive, <1>1, PTL

(* What is on offer was validated as a whole.                              *)
THEOREM PublishedIsValid == Spec => []ActiveIsValid
<1>1. IInv => ActiveIsValid
  BY DEF IInv, ActiveIsSound, ShownAreSound, ActiveIsValid
<1> QED
  BY Inductive, <1>1, PTL

(* No interleaving and no restart brings back older facts of a source.     *)
THEOREM FactsGoOn == Spec => SourcesAdvance
<1>1. IInv /\ [Next]_vars =>
          [\A s \in Sources : sources[s] # None =>
              /\ sources'[s] # None
              /\ request'[sources'[s]].observed >= Observed(sources[s])]_vars
  BY NextPreserves DEF GoesOn
<1> QED
  BY Inductive, <1>1, PTL DEF Spec, SourcesAdvance
=============================================================================
