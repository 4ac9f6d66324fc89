--------------------------- MODULE WifiLinkProofs ---------------------------
(***************************************************************************)
(* WifiLink for any networks and any number of requests and faults: what   *)
(* the settings page is told is about its own attempt.                     *)
(***************************************************************************)
EXTENDS WifiLink, SequenceTheorems, TLAPS

Nets == Networks \cup {None}
Links == [phase : {"idle", "trying", "joined", "up"}, net : Nets]
DriverEvents == [kind : {"connected", "disconnected", "got_ip"}, net : Nets]
Places == {"off", "begin", "done", "loop", "close", "station", "ready", "pause",
           "configure", "start", "wait", "scan", "disconnect"}

Typed ==
    /\ creds \in Nets /\ config \in Nets
    /\ station \in Links
    /\ events \in Seq(DriverEvents)
    /\ want \in [Callers -> Nets] /\ at \in [Callers -> Places]

\* The app task and the page begin when the boot is done.
BootFirst == at["boot"] # "done" => at["app"] = "off" /\ at["page"] = "off"

Attempting == at["page"] \in {"configure", "start", "wait"}

\* With nothing in its way, the page is alone with the driver from the pause
\* of the reconnection on.
PageAlone ==
    Attempting /\ excuse = {} =>
        paused /\ at["app"] \notin {"configure", "start"}

About(n) == /\ \A i \in 1..Len(events) : events[i].net = n
            /\ station.phase # "idle" => station.net = n

\* The driver has nothing of before under way once the events are delivered.
DriverFollows ==
    Attempting /\ excuse = {} =>
        IF at["page"] = "wait"
        THEN About(want["page"]) /\ config = want["page"]
        ELSE /\ station.phase = "idle"
             /\ at["page"] = "start" => config = want["page"]

IInv == Typed /\ BootFirst /\ PageAlone /\ DriverFollows /\ AnswersAreItsOwn

LEMMA InitEstablishes == Init => IInv
<1> SUFFICES ASSUME Init PROVE IInv
  OBVIOUS
<1>1. Typed
  BY DEF Init, Typed, Nets, Links, DriverEvents, Places, Idle, Callers
<1>2. at["page"] = "off" /\ at["app"] = "off"
  BY DEF Init, Callers
<1> QED
  BY <1>1, <1>2 DEF IInv, BootFirst, PageAlone, DriverFollows, AnswersAreItsOwn, Attempting

\* What the end of a link does: an event about it, after the others.
LEMMA DropKeeps ==
    ASSUME Typed, Dropped
    PROVE  /\ station' = Idle /\ station' \in Links
           /\ events' \in Seq(DriverEvents)
           /\ \A n : About(n) => About(n)'
<1>1. station' = Idle /\ station' \in Links
  BY DEF Dropped, Idle, Nets, Links
<1>2. CASE station.phase = "idle"
  BY <1>1, <1>2 DEF Dropped, About, Typed, Idle
<1>3. CASE station.phase # "idle"
  <2> DEFINE e == Event("disconnected", station.net)
  <2>1. e \in DriverEvents /\ e.net = station.net
    BY DEF Event, DriverEvents, Typed, Links
  <2>2. events' = Append(events, e)
    BY <1>3 DEF Dropped
  <2> HIDE DEF e
  <2>3. /\ events' \in Seq(DriverEvents) /\ Len(events') = Len(events) + 1
        /\ \A i \in 1..Len(events) : events'[i] = events[i]
        /\ events'[Len(events) + 1] = e
    BY <2>1, <2>2, AppendProperties DEF Typed
  <2>4. ASSUME NEW n, About(n) PROVE About(n)'
    <3>1. ASSUME NEW i \in 1..Len(events') PROVE events'[i].net = n
      <4>1. CASE i \in 1..Len(events)
        BY <2>3, <2>4, <4>1 DEF About
      <4>2. CASE i = Len(events) + 1
        BY <1>3, <2>1, <2>3, <2>4, <4>2 DEF About
      <4> QED
        BY <2>3, <4>1, <4>2 DEF Typed
    <3> QED
      BY <1>1, <3>1 DEF About, Idle
  <2> QED
    BY <1>1, <2>3, <2>4
<1> QED
  BY <1>2, <1>3

\* A step that leaves the callers, the configuration and the bits alone, and
\* the driver about what it was about, keeps the invariant.
LEMMA QuietStep ==
    ASSUME IInv, UNCHANGED <<creds, config, bits, paused, at, want, excuse>>,
           station' \in Links, events' \in Seq(DriverEvents),
           \A n : About(n) => About(n)',
           station.phase = "idle" => station'.phase = "idle"
    PROVE  IInv'
<1> USE DEF IInv
<1>1. Typed' /\ BootFirst' /\ PageAlone' /\ AnswersAreItsOwn'
  BY DEF Typed, BootFirst, PageAlone, Attempting, AnswersAreItsOwn
<1>2. PICK n : n = want["page"]
  OBVIOUS
<1>3. DriverFollows'
  BY <1>2 DEF DriverFollows, Attempting, About
<1> QED
  BY <1>1, <1>3

\* The driver's own steps.
LEMMA AirStep == IInv /\ (Air \/ NetworksChange) => IInv'
<1> SUFFICES ASSUME IInv, Air \/ NetworksChange PROVE IInv'
  OBVIOUS
<1> USE DEF IInv
<1>1. CASE NetworksChange
  <2>1. UNCHANGED <<creds, config, bits, paused, at, want, excuse, station, events>>
    BY <1>1 DEF NetworksChange, driver, flags
  <2>2. \A n : About(n) => About(n)'
    BY <2>1 DEF About
  <2> QED
    BY <2>1, <2>2, QuietStep DEF Typed
<1>2. CASE Air
  <2>1. UNCHANGED <<creds, config, bits, paused, at, want, excuse>>
    BY <1>2 DEF Air, flags
  <2>2. CASE Loses
    BY <2>1, <2>2, DropKeeps, QuietStep DEF Loses, Idle
  <2>3. ASSUME NEW phase \in {"joined", "up"}, NEW kind \in {"connected", "got_ip"},
               station.phase # "idle", station' = [station EXCEPT !.phase = phase],
               events' = Append(events, Event(kind, station.net))
        PROVE  IInv'
    <3> DEFINE e == Event(kind, station.net)
    <3>1. e \in DriverEvents /\ e.net = station.net
      BY DEF Event, DriverEvents, Typed, Links
    <3> HIDE DEF e
    <3>2. /\ events' \in Seq(DriverEvents) /\ Len(events') = Len(events) + 1
          /\ \A i \in 1..Len(events) : events'[i] = events[i]
          /\ events'[Len(events) + 1] = e
      BY <2>3, <3>1, AppendProperties DEF Typed, e
    <3>3. station' \in Links /\ station'.net = station.net
      BY <2>3 DEF Typed, Links
    <3>4. ASSUME NEW n, About(n) PROVE About(n)'
      <4>1. ASSUME NEW i \in 1..Len(events') PROVE events'[i].net = n
        <5>1. CASE i \in 1..Len(events)
          BY <3>2, <3>4, <5>1 DEF About
        <5>2. CASE i = Len(events) + 1
          BY <2>3, <3>1, <3>2, <3>4, <5>2 DEF About
        <5> QED
          BY <3>2, <5>1, <5>2 DEF Typed
      <4> QED
        BY <2>3, <3>3, <3>4, <4>1 DEF About
    <3> QED
      BY <2>1, <2>3, <3>2, <3>3, <3>4, QuietStep
  <2> QED
    BY <1>2, <2>2, <2>3 DEF Air, Enters, GetsAddress
<1> QED
  BY <1>1, <1>2

\* A delivered event sets the bits of the network it is about.
LEMMA EventStep == IInv /\ eventHandler => IInv'
<1> SUFFICES ASSUME IInv, eventHandler PROVE IInv'
  OBVIOUS
<1> USE DEF IInv
<1>1. UNCHANGED <<creds, config, station, paused, at, want, excuse>>
      /\ events # <<>> /\ events' = Tail(events)
  BY DEF eventHandler
<1>2. /\ events' \in Seq(DriverEvents) /\ Len(events') = Len(events) - 1
      /\ Len(events) \in Nat \ {0}
      /\ \A i \in 1..Len(events') : events'[i] = events[i + 1]
      /\ Head(events) = events[1]
  BY <1>1, HeadTailProperties, EmptySeq DEF Typed
<1>3. ASSUME NEW n, About(n) PROVE About(n)' /\ \A b \in bits' \ bits : b.net = n
  <2>1. About(n)'
    BY <1>1, <1>2, <1>3 DEF About
  <2>2. Head(events).net = n
    BY <1>2, <1>3 DEF About
  <2>3. \A b \in bits' \ bits : b.net = Head(events).net
    BY DEF eventHandler, Bit
  <2> QED
    BY <2>1, <2>2, <2>3
<1>4. Typed' /\ BootFirst' /\ PageAlone'
  BY <1>1, <1>2 DEF Typed, BootFirst, PageAlone, Attempting
<1>5. CASE Attempting /\ excuse = {} /\ at["page"] = "wait"
  <2>1. About(want["page"]) /\ config = want["page"] /\ \A b \in bits : b.net = want["page"]
    BY <1>5 DEF DriverFollows, AnswersAreItsOwn
  <2>2. PICK n : n = want["page"]
    OBVIOUS
  <2>3. About(n)' /\ \A b \in bits' : b.net = n
    BY <1>3, <2>1, <2>2
  <2> QED
    BY <1>1, <1>4, <1>5, <2>1, <2>2, <2>3 DEF DriverFollows, AnswersAreItsOwn, About
<1>6. CASE ~(Attempting /\ excuse = {} /\ at["page"] = "wait")
  BY <1>1, <1>4, <1>6 DEF DriverFollows, AnswersAreItsOwn, Attempting
<1> QED
  BY <1>5, <1>6

LEMMA ModeKeeps ==
    ASSUME Typed, NEW m, setMode(m)
    PROVE  /\ station' \in Links /\ events' \in Seq(DriverEvents)
           /\ \A n : About(n) => About(n)'
           /\ station.phase = "idle" => station'.phase = "idle"
<1>1. CASE UNCHANGED <<station, events>>
  BY <1>1 DEF Typed, About
<1>2. CASE Dropped
  BY <1>2, DropKeeps DEF Idle
<1> QED
  BY <1>1, <1>2 DEF setMode

\* Without the page at work, nothing is claimed.
LEMMA RestingPage ==
    ASSUME Typed', BootFirst', ~Attempting'
    PROVE  IInv'
BY DEF IInv, PageAlone, DriverFollows, AnswersAreItsOwn, Attempting

\* The two halves of connect, for each caller.
LEMMA ConnectStep ==
    ASSUME IInv, NEW c \in Callers, Connects(c) \/ Refuses(c)
    PROVE  IInv'
<1> USE DEF IInv
<1>1. at[c] \in {"configure", "start"} /\ c # "boot" => at["boot"] = "done"
  BY DEF Typed, BootFirst, Callers, Connects, Configures, Starts, Refuses
<1>2. CASE Refuses(c)
  <2>1. /\ config' = None /\ station' = Idle /\ events' = <<>> /\ creds' = creds
        /\ at' = [d \in Callers |-> IF d = "boot" THEN "begin" ELSE "off"]
        /\ want' = [d \in Callers |-> None]
    BY <1>2 DEF Refuses, Forgotten
  <2>2. Typed'
    BY <2>1 DEF Typed, Nets, Links, DriverEvents, Places, Idle, Callers
  <2>3. at'["page"] = "off" /\ at'["app"] = "off"
    BY <2>1 DEF Callers
  <2> QED
    BY <2>2, <2>3, RestingPage DEF BootFirst, Attempting
<1>3. CASE Configures(c)
  <2>1. /\ UNCHANGED <<creds, station, events, bits, paused, want, excuse>>
        /\ at[c] = "configure" /\ config' = want[c]
        /\ at' = [at EXCEPT ![c] = "start"]
    BY <1>3 DEF Configures, Went, flags
  <2>2. Typed'
    BY <2>1 DEF Typed, Places
  <2>3. \A d \in Callers : at'[d] = IF d = c THEN "start" ELSE at[d]
    BY <2>1 DEF Typed
  <2>4. BootFirst' /\ PageAlone'
    BY <1>1, <2>1, <2>3 DEF BootFirst, PageAlone, Attempting, Callers, Typed
  <2>5. CASE c = "page"
    <3>1. at'["page"] = "start" /\ at["page"] = "configure"
      BY <2>1, <2>3, <2>5
    <3> QED
      BY <2>1, <2>2, <2>4, <2>5, <3>1
      DEF DriverFollows, AnswersAreItsOwn, Attempting
  <2>6. CASE c = "boot"
    BY <2>1, <2>2, <2>3, <2>4, <2>6, RestingPage DEF BootFirst, Attempting, Callers
  <2>7. CASE c = "app"
    <3>1. at'["page"] = at["page"]
      BY <2>3, <2>7 DEF Callers
    <3>2. ~(Attempting /\ excuse = {})
      BY <2>1, <2>7 DEF PageAlone
    <3> QED
      BY <2>1, <2>2, <2>4, <3>1, <3>2 DEF DriverFollows, AnswersAreItsOwn, Attempting
  <2> QED
    BY <2>5, <2>6, <2>7 DEF Callers
<1>4. CASE Starts(c)
  <2>1. /\ UNCHANGED <<creds, config, events, paused>>
        /\ at[c] = "start" /\ bits' = {} /\ excuse' = excuse \cup LateEvents(c)
        /\ station' = IF station.phase = "idle"
                      THEN [phase |-> "trying", net |-> config] ELSE station
    BY <1>4 DEF Starts, Attempted
  <2>2. /\ want' \in [Callers -> Nets]
        /\ c # "app" => want' = want
        /\ at' = [at EXCEPT ![c] = IF c = "app" THEN "loop" ELSE "wait"]
    BY <1>4 DEF Starts, Went, Typed, Nets
  <2>3. Typed'
    BY <2>1, <2>2 DEF Typed, Links, Places
  <2>4. \A d \in Callers :
            at'[d] = IF d # c THEN at[d] ELSE IF c = "app" THEN "loop" ELSE "wait"
    BY <2>2 DEF Typed
  <2>5. BootFirst' /\ PageAlone'
    BY <1>1, <2>1, <2>4 DEF BootFirst, PageAlone, Attempting, Callers, Typed
  <2>6. CASE c = "page"
    <3>1. at["page"] = "start" /\ at'["page"] = "wait" /\ want' = want
      BY <2>1, <2>2, <2>4, <2>6
    <3>2. ASSUME excuse' = {}
          PROVE  About(want["page"])' /\ config' = want'["page"]
      <4>1. excuse = {} /\ LateEvents("page") = {}
        BY <2>1, <2>6, <3>2
      <4>2. events = <<>>
        BY <4>1 DEF LateEvents
      <4>3. station.phase = "idle" /\ config = want["page"]
        BY <3>1, <4>1 DEF DriverFollows, Attempting
      <4>4. station'.net = want["page"] /\ Len(events') = 0
        BY <2>1, <4>2, <4>3
      <4> QED
        BY <2>1, <3>1, <4>3, <4>4 DEF About
    <3> QED
      BY <2>1, <2>3, <2>5, <3>1, <3>2 DEF DriverFollows, AnswersAreItsOwn
  <2>7. CASE c = "boot"
    BY <2>1, <2>3, <2>4, <2>5, <2>7, RestingPage DEF BootFirst, Attempting, Callers
  <2>8. CASE c = "app"
    <3>1. at'["page"] = at["page"] /\ excuse' = excuse
      BY <2>1, <2>4, <2>8 DEF Callers, LateEvents
    <3>2. ~(Attempting /\ excuse = {})
      BY <2>1, <2>8 DEF PageAlone
    <3> QED
      BY <2>1, <2>3, <2>5, <3>1, <3>2 DEF DriverFollows, AnswersAreItsOwn, Attempting
  <2> QED
    BY <2>6, <2>7, <2>8 DEF Callers
<1> QED
  BY <1>2, <1>3, <1>4 DEF Connects

LEMMA BootStep == IInv /\ Boot => IInv'
<1> SUFFICES ASSUME IInv, Boot PROVE IInv'
  OBVIOUS
<1> USE DEF IInv
<1>1. at["boot"] # "done" /\ at["page"] = "off" /\ at["app"] = "off"
  BY DEF Boot, BootBegins, BootEnds, BootFirst
<1>2. creds' = creds /\ config' = config
  BY DEF Boot, BootBegins, BootEnds
<1>3. station' \in Links /\ events' \in Seq(DriverEvents)
  <2>1. (\E m : setMode(m)) \/ UNCHANGED <<station, events>>
    BY DEF Boot, BootBegins, BootEnds, ensure_apsta_started
  <2> QED
    BY <2>1, ModeKeeps DEF Typed
<1>4. /\ want' \in [Callers -> Nets]
      /\ \/ at' = [at EXCEPT !["boot"] = "done", !["app"] = "loop", !["page"] = "ready"]
         \/ at' = [at EXCEPT !["boot"] = "configure"]
  BY DEF Boot, BootBegins, BootEnds, Went, Typed, Nets
<1>5. Typed' /\ at'["page"] \in {"off", "ready"} /\ BootFirst'
  BY <1>1, <1>2, <1>3, <1>4 DEF Typed, Places, Callers, BootFirst
<1> QED
  BY <1>5, RestingPage DEF Attempting

\* The app task never reaches connect while the page has it paused.
LEMMA AppStep == IInv /\ (AppTurn \/ RetryIntervalPasses \/ LongPress) => IInv'
<1> SUFFICES ASSUME IInv, AppTurn \/ RetryIntervalPasses \/ LongPress PROVE IInv'
  OBVIOUS
<1> USE DEF IInv
<1>1. UNCHANGED <<creds, config, bits, paused, excuse>>
  BY DEF AppTurn, LooksAtAp, ClosesAp, LooksAtStation, RetryIntervalPasses, LongPress,
         driver, flags
<1>2. /\ station' \in Links /\ events' \in Seq(DriverEvents)
      /\ \A n : About(n) => About(n)'
      /\ station.phase = "idle" => station'.phase = "idle"
  <2>1. (\E m : setMode(m)) \/ UNCHANGED <<station, events>>
    BY DEF AppTurn, LooksAtAp, ClosesAp, LooksAtStation, RetryIntervalPasses, LongPress,
           driver, softAPdisconnect, ensure_apsta_started
  <2>2. CASE UNCHANGED <<station, events>>
    BY <2>2 DEF Typed, About
  <2> QED
    BY <2>1, <2>2, ModeKeeps
<1>3. CASE UNCHANGED <<at, want>>
  BY <1>1, <1>2, <1>3, QuietStep
<1>4. ASSUME NEW pc \in {"loop", "close", "station", "configure"},
             at' = [at EXCEPT !["app"] = pc], at["app"] # "off",
             want' \in [Callers -> Nets], want'["page"] = want["page"],
             pc = "configure" => ~paused
      PROVE  IInv'
  <2>1. at'["page"] = at["page"] /\ at'["boot"] = at["boot"] /\ at'["app"] = pc
    BY <1>4 DEF Typed, Callers
  <2>2. Typed' /\ BootFirst' /\ PageAlone' /\ AnswersAreItsOwn'
    BY <1>1, <1>2, <1>4, <2>1
    DEF Typed, Places, BootFirst, PageAlone, Attempting, AnswersAreItsOwn
  <2>3. PICK n : n = want["page"]
    OBVIOUS
  <2>4. DriverFollows'
    BY <1>1, <1>2, <1>4, <2>1, <2>3 DEF DriverFollows, Attempting, About
  <2> QED
    BY <2>2, <2>4
<1>5. CASE LooksAtAp \/ ClosesAp
  <2>1. \E pc \in {"close", "station"} : at' = [at EXCEPT !["app"] = pc]
    BY <1>5 DEF LooksAtAp, ClosesAp, Went
  <2>2. at["app"] # "off" /\ want' = want
    BY <1>5 DEF LooksAtAp, ClosesAp
  <2> QED
    BY <1>4, <2>1, <2>2 DEF Typed
<1>6. CASE LooksAtStation
  <2>1. at["app"] # "off"
    BY <1>6 DEF LooksAtStation
  <2>2. CASE MustReconnect /\ retryDue
    <3>1. at' = [at EXCEPT !["app"] = "configure"] /\ want' = [want EXCEPT !["app"] = creds]
      BY <1>6, <2>2 DEF LooksAtStation, Went
    <3>2. want' \in [Callers -> Nets] /\ want'["page"] = want["page"]
      BY <3>1 DEF Typed, Callers
    <3> QED
      BY <1>4, <2>1, <2>2, <3>1, <3>2 DEF MustReconnect
  <2>3. CASE ~(MustReconnect /\ retryDue)
    <3>1. at' = [at EXCEPT !["app"] = "loop"] /\ want' = want
      BY <1>6, <2>3 DEF LooksAtStation, Went
    <3> QED
      BY <1>4, <2>1, <3>1 DEF Typed
  <2> QED
    BY <2>2, <2>3
<1>7. CASE RetryIntervalPasses \/ LongPress
  BY <1>3, <1>7 DEF RetryIntervalPasses, LongPress
<1> QED
  BY <1>5, <1>6, <1>7 DEF AppTurn

\* The page's other steps: only the pause leads to an attempt.
LEMMA PageStep ==
    ASSUME IInv,
           PageGoesOn \/ ScanBegins \/ KeepAp \/ (\E n \in Networks : SaveCredentials(n))
    PROVE  IInv'
<1> USE DEF IInv
<1>1. at["page"] # "off"
  BY DEF PageGoesOn, PauseAndDisconnect, Answers, ScanEnds, DropsStation, ScanBegins,
         KeepAp, SaveCredentials
<1>2. at["boot"] = "done"
  BY <1>1 DEF BootFirst
<1>3. config' = config /\ bits' = bits
  BY DEF PageGoesOn, PauseAndDisconnect, Answers, ScanEnds, DropsStation, ScanBegins,
         KeepAp, SaveCredentials, driver, flags
<1>4. station' \in Links /\ events' \in Seq(DriverEvents)
  <2>1. Dropped \/ (\E m : setMode(m)) \/ UNCHANGED <<station, events>>
    BY DEF PageGoesOn, PauseAndDisconnect, Answers, ScanEnds, DropsStation, ScanBegins,
           KeepAp, SaveCredentials, driver, ensure_apsta_started, disconnect
  <2> QED
    BY <2>1, DropKeeps, ModeKeeps DEF Typed
<1>5. creds' \in Nets /\ want' \in [Callers -> Nets]
  BY DEF PageGoesOn, PauseAndDisconnect, Answers, ScanEnds, DropsStation, ScanBegins,
         KeepAp, SaveCredentials, Typed, Nets
<1>6. ASSUME NEW pc \in {"ready", "pause", "scan", "disconnect"},
             at' = [at EXCEPT !["page"] = pc]
      PROVE  IInv'
  <2>1. at'["page"] = pc /\ at'["boot"] = "done"
    BY <1>2, <1>6 DEF Typed, Callers
  <2>2. Typed'
    BY <1>3, <1>4, <1>5, <1>6 DEF Typed, Places
  <2> QED
    BY <2>1, <2>2, RestingPage DEF BootFirst, Attempting
<1>7. CASE PauseAndDisconnect
  <2>1. /\ paused' = TRUE /\ at' = [at EXCEPT !["page"] = "configure"]
        /\ excuse' = IF at["app"] \in {"configure", "start"} THEN {"raced"} ELSE {}
        /\ Dropped
    BY <1>7 DEF PauseAndDisconnect, Went, disconnect
  <2>2. at'["page"] = "configure" /\ at'["boot"] = "done" /\ at'["app"] = at["app"]
    BY <1>2, <2>1 DEF Typed, Callers
  <2>3. station'.phase = "idle"
    BY <2>1 DEF Dropped, Idle
  <2>4. Typed'
    BY <1>3, <1>4, <1>5, <2>1 DEF Typed, Places
  <2> QED
    BY <2>1, <2>2, <2>3, <2>4
    DEF BootFirst, PageAlone, DriverFollows, AnswersAreItsOwn, Attempting
<1>8. CASE Answers \/ ScanEnds \/ DropsStation \/ ScanBegins \/ KeepAp
  BY <1>6, <1>8 DEF Answers, ScanEnds, DropsStation, ScanBegins, KeepAp, Went
<1>9. ASSUME NEW n \in Networks, SaveCredentials(n) PROVE IInv'
  <2>1. CASE at' = at
    <3>1. at["page"] = "ready"
      BY <1>9 DEF SaveCredentials
    <3>2. Typed'
      BY <1>3, <1>4, <1>5, <2>1 DEF Typed
    <3> QED
      BY <1>2, <2>1, <3>1, <3>2, RestingPage DEF BootFirst, Attempting
  <2> QED
    BY <1>6, <1>9, <2>1 DEF SaveCredentials, Went
<1> QED
  BY <1>7, <1>8, <1>9 DEF PageGoesOn

LEMMA NextPreserves == IInv /\ [Next]_vars => IInv'
<1> SUFFICES ASSUME IInv, [Next]_vars PROVE IInv'
  OBVIOUS
<1>1. CASE UNCHANGED vars
  BY <1>1 DEF vars, IInv, Typed, BootFirst, PageAlone, DriverFollows, AnswersAreItsOwn,
              Attempting, About
<1>2. CASE Next
  BY <1>2, AirStep, EventStep, ConnectStep, BootStep, AppStep, PageStep DEF Next, Asked
<1> QED
  BY <1>1, <1>2

LEMMA Invariant == Spec => []IInv
BY InitEstablishes, NextPreserves, PTL DEF Spec

\* What the settings page reports of an attempt is about its own network, for
\* any sequence of requests, failures, restarts and reconnections
\* (hal_wifi.cpp:235-280, app_server.cpp:437-460).
THEOREM PageHearsItsOwn == Spec => []AnswersAreItsOwn
<1>1. IInv => AnswersAreItsOwn
  BY DEF IInv
<1> QED
  BY <1>1, Invariant, PTL

-----------------------------------------------------------------------------
(* The flags, the events on their way and the driver *)

\* How far the driver's link is, by what it has to report.
Stage == CASE station.phase = "up" -> 2 [] station.phase = "joined" -> 1 [] OTHER -> 0

\* How far the flags take it to be, and will once the first i events are delivered.
Told(i) ==
    IF i = 0 THEN IF ~connected THEN 0 ELSE IF gotIp THEN 2 ELSE 1
    ELSE CASE events[i].kind = "got_ip" -> 2
           [] events[i].kind = "connected" -> 1
           [] OTHER -> 0

\* The events lead from the flags to the driver: each reports the end of the link
\* or its next stage, and the last one the stage it has.
InStep ==
    /\ connected \in BOOLEAN /\ gotIp \in BOOLEAN
    /\ gotIp => connected
    /\ \A i \in 1..Len(events) : Told(i) = 0 \/ Told(i) = Told(i - 1) + 1
    /\ Told(Len(events)) = Stage

\* A step that reports the end of the link or its next stage, as the last event.
Reports(e) ==
    /\ events' = Append(events, e)
    /\ CASE e.kind = "disconnected" -> Stage' = 0
         [] e.kind = "connected" -> Stage = 0 /\ Stage' = 1
         [] e.kind = "got_ip" -> Stage = 1 /\ Stage' = 2

\* A step that reports nothing and leaves the flags alone.
LEMMA SilentStep ==
    ASSUME InStep, UNCHANGED <<events, connected, gotIp>>, Stage' = Stage
    PROVE  InStep'
<1>1. \A i : Told(i)' = Told(i)
  BY DEF Told
<1> QED
  BY <1>1 DEF InStep

LEMMA ReportStep ==
    ASSUME Typed, InStep, UNCHANGED <<connected, gotIp>>,
           NEW e \in DriverEvents, Reports(e)
    PROVE  InStep'
<1>1. /\ Len(events) \in Nat /\ Len(events') = Len(events) + 1
      /\ \A i \in 1..Len(events) : events'[i] = events[i]
      /\ events'[Len(events) + 1] = e
  BY AppendProperties, LenProperties DEF Typed, Reports
<1>2. PICK n \in Nat : n = Len(events)
  BY <1>1
<1>3. \A i \in 0..n : Told(i)' = Told(i)
  BY <1>1, <1>2 DEF Told
<1>4. Told(n) = Stage /\ \A i \in 1..n : Told(i) = 0 \/ Told(i) = Told(i - 1) + 1
  BY <1>2 DEF InStep
<1>5. Told(n + 1)' = Stage'
  <2>1. n + 1 # 0 /\ events'[n + 1] = e
    BY <1>1, <1>2
  <2> QED
    BY <2>1 DEF Told, Reports, DriverEvents
<1>6. \A i \in 1..n + 1 : Told(i)' = 0 \/ Told(i)' = Told(i - 1)' + 1
  <2> TAKE i \in 1..n + 1
  <2>1. CASE i \in 1..n
    BY <1>3, <1>4, <2>1
  <2>2. CASE i = n + 1
    <3>1. Told(i)' = Stage' /\ Told(i - 1)' = Stage
      BY <1>3, <1>4, <1>5, <2>2
    <3>2. e.kind \in {"connected", "disconnected", "got_ip"}
      BY DEF DriverEvents
    <3>3. Stage' = 0 \/ Stage' = Stage + 1
      <4>1. CASE e.kind = "disconnected"
        BY <4>1 DEF Reports
      <4>2. CASE e.kind = "connected"
        BY <4>2 DEF Reports
      <4>3. CASE e.kind = "got_ip"
        BY <4>3 DEF Reports
      <4> QED
        BY <3>2, <4>1, <4>2, <4>3
    <3> QED
      BY <3>1, <3>3
  <2> QED
    BY <2>1, <2>2
<1>7. Len(events') = n + 1
  BY <1>1, <1>2
<1> QED
  BY <1>5, <1>6, <1>7 DEF InStep

LEMMA DroppedStep ==
    ASSUME Typed, InStep, UNCHANGED <<connected, gotIp>>, Dropped
    PROVE  InStep'
<1>1. Stage' = 0
  BY DEF Dropped, Idle, Stage
<1>2. CASE station.phase = "idle"
  BY <1>1, <1>2, SilentStep DEF Dropped, Stage
<1>3. CASE station.phase # "idle"
  <2> DEFINE e == Event("disconnected", station.net)
  <2>1. e \in DriverEvents /\ e.kind = "disconnected" /\ events' = Append(events, e)
    BY <1>3 DEF Dropped, Event, DriverEvents, Typed, Links
  <2>2. Reports(e)
    BY <1>1, <2>1 DEF Reports
  <2> QED
    BY <2>1, <2>2, ReportStep, Zenon
<1> QED
  BY <1>2, <1>3

\* The first event is delivered.
LEMMA DeliveredStep ==
    ASSUME Typed, InStep, eventHandler
    PROVE  InStep'
<1>1. events # <<>> /\ events' = Tail(events) /\ station' = station
  BY DEF eventHandler
<1>2. /\ Len(events) \in Nat \ {0} /\ Len(events') = Len(events) - 1
      /\ \A i \in 1..Len(events') : events'[i] = events[i + 1]
      /\ Head(events) = events[1] /\ events[1] \in DriverEvents
  BY <1>1, HeadTailProperties, EmptySeq DEF Typed
<1>3. /\ connected' = CASE events[1].kind = "connected" -> TRUE
                        [] events[1].kind = "disconnected" -> FALSE
                        [] OTHER -> connected
      /\ gotIp' = CASE events[1].kind = "got_ip" -> TRUE
                    [] events[1].kind = "disconnected" -> FALSE
                    [] OTHER -> gotIp
  BY <1>2 DEF eventHandler
<1>4. Told(1) = 0 \/ Told(1) = Told(0) + 1
  BY <1>2 DEF InStep
<1>5. /\ connected' \in BOOLEAN /\ gotIp' \in BOOLEAN /\ (gotIp' => connected')
      /\ Told(0)' = Told(1)
  <2>1. CASE events[1].kind = "connected"
    BY <1>3, <1>4, <2>1 DEF InStep, Told
  <2>2. CASE events[1].kind = "got_ip"
    BY <1>3, <1>4, <2>2 DEF InStep, Told
  <2>3. CASE events[1].kind = "disconnected"
    BY <1>3, <1>4, <2>3 DEF InStep, Told
  <2> QED
    BY <1>2, <2>1, <2>2, <2>3 DEF DriverEvents
<1>6. PICK n \in Nat : Len(events') = n /\ Len(events) = n + 1
  BY <1>2
<1>7. \A i \in 0..n : Told(i)' = Told(i + 1)
  <2>1. \A i \in 1..n : Told(i)' = Told(i + 1)
    BY <1>2, <1>6 DEF Told
  <2> QED
    BY <2>1, <1>5
<1>8. \A i \in 1..n + 1 : Told(i) = 0 \/ Told(i) = Told(i - 1) + 1
  BY <1>6 DEF InStep
<1>9. \A i \in 1..n : Told(i)' = 0 \/ Told(i)' = Told(i - 1)' + 1
  BY <1>7, <1>8
<1>10. Told(n)' = Stage'
  <2>1. Told(n + 1) = Stage /\ Stage' = Stage
    BY <1>1, <1>6 DEF InStep, Stage
  <2> QED
    BY <2>1, <1>7
<1> QED
  BY <1>5, <1>6, <1>9, <1>10 DEF InStep

\* Beside the driver's own steps and the delivery, a step drops the link, begins
\* an attempt or restarts the device.
LEMMA InStepGoesOn ==
    ASSUME IInv, InStep, [Next]_vars
    PROVE  InStep'
<1>0. Typed
  BY DEF IInv
<1>1. CASE Air
  <2>1. connected' = connected /\ gotIp' = gotIp
    BY <1>1 DEF Air, flags
  <2>2. CASE Enters
    <3> DEFINE e == Event("connected", station.net)
    <3>1. e \in DriverEvents /\ e.kind = "connected" /\ events' = Append(events, e)
      BY <1>0, <2>2 DEF Enters, Event, DriverEvents, Typed, Links
    <3>2. Stage = 0 /\ Stage' = 1
      BY <1>0, <2>2 DEF Enters, Stage, Typed, Links
    <3>3. Reports(e)
      BY <3>1, <3>2 DEF Reports
    <3> QED
      BY <1>0, <2>1, <3>1, <3>3, ReportStep, Zenon
  <2>3. CASE GetsAddress
    <3> DEFINE e == Event("got_ip", station.net)
    <3>1. e \in DriverEvents /\ e.kind = "got_ip" /\ events' = Append(events, e)
      BY <1>0, <2>3 DEF GetsAddress, Event, DriverEvents, Typed, Links
    <3>2. Stage = 1 /\ Stage' = 2
      BY <1>0, <2>3 DEF GetsAddress, Stage, Typed, Links
    <3>3. Reports(e)
      BY <3>1, <3>2 DEF Reports
    <3> QED
      BY <1>0, <2>1, <3>1, <3>3, ReportStep, Zenon
  <2>4. CASE Loses
    BY <1>0, <2>1, <2>4, DroppedStep DEF Loses
  <2> QED
    BY <1>1, <2>2, <2>3, <2>4 DEF Air
<1>2. CASE eventHandler
  BY <1>0, <1>2, DeliveredStep
<1>3. CASE \E c \in Callers : Refuses(c)
  <2>1. events' = <<>> /\ station' = Idle /\ connected' = FALSE /\ gotIp' = FALSE
    BY <1>3 DEF Refuses, Forgotten
  <2>2. Len(events') = 0 /\ Told(0)' = 0 /\ Stage' = 0
    BY <2>1 DEF Idle, Told, Stage
  <2>3. connected' \in BOOLEAN /\ gotIp' \in BOOLEAN /\ ~gotIp'
    BY <2>1
  <2> QED
    BY <2>2, <2>3 DEF InStep
<1>4. CASE \E c \in Callers : Connects(c)
  <2>1. UNCHANGED <<events, connected, gotIp>>
    BY <1>4 DEF Connects, Configures, Starts, flags
  <2>2. station' = station \/ Attempted
    BY <1>4 DEF Connects, Configures, Starts
  <2>3. Stage' = Stage
    BY <2>2 DEF Attempted, Stage
  <2> QED
    BY <2>1, <2>3, SilentStep
<1>5. CASE Boot \/ AppTurn \/ PageGoesOn \/ Asked
  <2>1. UNCHANGED <<connected, gotIp>> /\ (Dropped \/ UNCHANGED <<station, events>>)
    BY <1>5 DEF Boot, BootBegins, BootEnds, AppTurn, LooksAtAp, ClosesAp, LooksAtStation,
       PageGoesOn, PauseAndDisconnect, Answers, ScanEnds, DropsStation, Asked,
       SaveCredentials, ScanBegins, KeepAp, LongPress, setMode, ensure_apsta_started,
       softAPdisconnect, disconnect, driver, flags
  <2>2. CASE Dropped
    BY <1>0, <2>1, <2>2, DroppedStep
  <2>3. CASE UNCHANGED <<station, events>>
    BY <2>1, <2>3, SilentStep DEF Stage
  <2> QED
    BY <2>1, <2>2, <2>3
<1>6. CASE NetworksChange \/ RetryIntervalPasses \/ UNCHANGED vars
  <2>1. UNCHANGED <<station, events, connected, gotIp>>
    BY <1>6 DEF NetworksChange, RetryIntervalPasses, vars, driver, flags
  <2> QED
    BY <2>1, SilentStep DEF Stage
<1> QED
  BY <1>1, <1>2, <1>3, <1>4, <1>5, <1>6 DEF Next

\* When no event is on its way the device thinks it is online exactly when it is,
\* after any sequence of attempts, drops, mode changes and restarts
\* (hal_wifi.cpp:123-198).
THEOREM FlagsAreRight == Spec => []FlagsFollow
<1>1. Init => InStep
  <2> SUFFICES ASSUME Init PROVE InStep
    OBVIOUS
  <2>1. events = <<>> /\ station = Idle /\ connected = FALSE /\ gotIp = FALSE
    BY DEF Init
  <2>2. Len(events) = 0 /\ Told(0) = 0 /\ Stage = 0
    BY <2>1 DEF Idle, Told, Stage
  <2>3. connected \in BOOLEAN /\ gotIp \in BOOLEAN /\ ~gotIp
    BY <2>1
  <2> QED
    BY <2>2, <2>3 DEF InStep
<1>2. InStep /\ Typed => FlagsFollow
  <2> SUFFICES ASSUME InStep, Typed, events = <<>>
               PROVE  isConnected <=> station.phase = "up"
    BY DEF FlagsFollow
  <2>1. Told(0) = Stage
    BY DEF InStep
  <2> QED
    BY <2>1 DEF InStep, Told, Stage, isConnected
<1>3. IInv /\ InStep /\ [Next]_vars => InStep'
  BY InStepGoesOn
<1>4. IInv => Typed
  BY DEF IInv
<1> QED
  BY <1>1, <1>2, <1>3, <1>4, Invariant, PTL DEF Spec
=============================================================================
