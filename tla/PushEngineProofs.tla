-------------------------- MODULE PushEngineProofs -------------------------
(***************************************************************************)
(* Three parts of the push engine.  WakeCycle, for any cards, any times    *)
(* and any constants that its assumptions allow: the alarm is in time and  *)
(* lateness has its bound.  PolicyLoops, for lists of any length and any   *)
(* times: the C++ loops compute what SchedulePolicy defines.  ManifestFile,*)
(* for every set of generations: the invariants, and that the file         *)
(* protocol implements the register of AtomicManifest.                     *)
(***************************************************************************)
EXTENDS WakeCycle, ManifestFile, PolicyLoops, FiniteSetTheorems,
        WellFoundedInduction, TLAPS

-----------------------------------------------------------------------------
(* Least elements, and loops *)

\* Every non-empty set of naturals has a least element.
LEMMA Least ==
    ASSUME NEW T \in SUBSET Nat, T # {}
    PROVE  \E x \in T : \A y \in T : x <= y
<1> DEFINE Below == {p \in Nat \X Nat : p[1] < p[2]}
<1>1. IsWellFoundedOn(Below, Nat)
  BY NatLessThanWellFounded DEF OpToRel
<1>2. PICK x \in T : \A y \in T : ~ (<<y, x>> \in Below)
  BY <1>1, WFMin, Zenon
<1>3. \A y \in T : <<y, x>> \in Nat \X Nat /\ <<y, x>>[1] = y /\ <<y, x>>[2] = x
  OBVIOUS
<1>4. \A y \in T : ~ (y < x)
  BY <1>2, <1>3
<1> QED
  BY <1>4

\* Some element is least by its first key and, among those, by its second.
LEMMA First ==
    ASSUME NEW I, I # {}, NEW d \in [I -> Nat], NEW e \in [I -> Nat]
    PROVE  \E i \in I : \A k \in I : d[i] < d[k] \/ (d[i] = d[k] /\ e[i] <= e[k])
<1>1. PICK x \in {d[i] : i \in I} : \A y \in {d[i] : i \in I} : x <= y
  <2>1. {d[i] : i \in I} \in SUBSET Nat /\ {d[i] : i \in I} # {}
    OBVIOUS
  <2> QED
    BY <2>1, Least
<1> DEFINE J == {i \in I : d[i] = x}
<1>2. PICK y \in {e[i] : i \in J} : \A z \in {e[i] : i \in J} : y <= z
  <2>1. {e[i] : i \in J} \in SUBSET Nat /\ {e[i] : i \in J} # {}
    BY <1>1
  <2> QED
    BY <2>1, Least
<1>3. PICK i \in J : e[i] = y
  BY <1>2
<1>4. \A k \in I : d[i] < d[k] \/ (d[i] = d[k] /\ e[i] <= e[k])
  <2> TAKE k \in I
  <2>1. d[i] <= d[k] /\ d[i] \in Nat /\ d[k] \in Nat
    BY <1>1, <1>3
  <2>2. CASE d[k] = x
    BY <1>2, <1>3, <2>2
  <2>3. CASE d[k] # x
    BY <1>3, <2>1, <2>3
  <2> QED
    BY <2>2, <2>3
<1> QED
  BY <1>3, <1>4

\* What holds of 0 and passes from each index to the next holds up to n.
LEMMA Induction ==
    ASSUME NEW n \in Nat, NEW T \in SUBSET (0..n), 0 \in T,
           \A i \in 1..n : i - 1 \in T => i \in T
    PROVE  T = 0..n
<1> SUFFICES ASSUME (0..n) \ T # {} PROVE FALSE
  OBVIOUS
<1>1. PICK x \in (0..n) \ T : \A y \in (0..n) \ T : x <= y
  <2>1. (0..n) \ T \in SUBSET Nat
    OBVIOUS
  <2> QED
    BY <2>1, Least
<1>2. x # 0 /\ x \in 1..n /\ x - 1 \in 0..n
  OBVIOUS
<1>3. x - 1 \in T
  BY <1>1, <1>2
<1> QED
  BY <1>2, <1>3

\* The values of a loop that starts with one of S and whose turns keep to S.
Values(S, start, n, turn, f) ==
    /\ f \in [0..n -> S]
    /\ f[0] = start
    /\ \A i \in 1..n : f[i] = turn[i][f[i - 1]]

LEMMA LoopRuns ==
    ASSUME NEW S, NEW start \in S, NEW n \in Nat, NEW turn \in [1..n -> [S -> S]]
    PROVE  \E f : Values(S, start, n, turn, f)
<1> DEFINE T == {m \in 0..n : \E f : Values(S, start, m, turn, f)}
<1>1. 0 \in T
  <2> DEFINE g == [i \in 0..0 |-> start]
  <2>1. Values(S, start, 0, turn, g)
    BY DEF Values
  <2> HIDE DEF g
  <2> QED
    BY <2>1
<1>2. ASSUME NEW m \in 1..n, m - 1 \in T PROVE m \in T
  <2>1. PICK f : Values(S, start, m - 1, turn, f)
    BY <1>2
  <2> DEFINE g == [i \in 0..m |-> IF i = m THEN turn[m][f[m - 1]] ELSE f[i]]
  <2>2. f \in [0..m - 1 -> S] /\ f[0] = start
        /\ \A i \in 1..m - 1 : f[i] = turn[i][f[i - 1]]
    BY <2>1 DEF Values
  <2>3. turn[m][f[m - 1]] \in S
    BY <2>2
  <2>4. g \in [0..m -> S] /\ g[0] = start
    BY <2>2, <2>3
  <2>5. \A i \in 1..m : g[i] = turn[i][g[i - 1]]
    BY <2>2
  <2> HIDE DEF g
  <2>6. Values(S, start, m, turn, g)
    BY <2>4, <2>5 DEF Values
  <2>7. m \in 0..n
    OBVIOUS
  <2> QED
    BY <2>6, <2>7
<1> HIDE DEF T
<1>3. T = 0..n
  <2>1. T \in SUBSET (0..n)
    BY DEF T
  <2> QED
    BY <1>1, <1>2, <2>1, Induction
<1>4. n \in 0..n
  OBVIOUS
<1> QED
  BY <1>3, <1>4 DEF T

-----------------------------------------------------------------------------
(* The operators of SchedulePolicy *)

\* std::remove_if leaves windows of the list.
LEMMA UnexpiredAreListed ==
    ASSUME NEW S, NEW l \in Seq(S), NEW t PROVE Unexpired(l, t) \in Seq(S)
<1> DEFINE next(i, x) == IF Live(l[i], t) THEN Append(x, l[i]) ELSE x
           turn == [i \in 1..Len(l) |-> [x \in Seq(S) |-> next(i, x)]]
           IsLoop(f) == f = [i \in 0..Len(l) |->
                               IF i = 0 THEN <<>>
                               ELSE IF Live(l[i], t) THEN Append(f[i - 1], l[i])
                               ELSE f[i - 1]]
           u == CHOOSE f : IsLoop(f)
<1>1. Len(l) \in Nat /\ <<>> \in Seq(S) /\ \A i \in 1..Len(l) : l[i] \in S
  OBVIOUS
<1>2. \A i \in 1..Len(l), x \in Seq(S) : next(i, x) \in Seq(S)
  BY <1>1
<1>3. turn \in [1..Len(l) -> [Seq(S) -> Seq(S)]]
  <2> HIDE DEF next
  <2> QED
    BY <1>2
<1>4. PICK f : Values(Seq(S), <<>>, Len(l), turn, f)
  <2> HIDE DEF turn
  <2> QED
    BY <1>1, <1>3, LoopRuns
<1>5. IsLoop(f)
  <2>1. /\ f \in [0..Len(l) -> Seq(S)] /\ f[0] = <<>>
        /\ \A i \in 1..Len(l) : f[i] = turn[i][f[i - 1]]
    BY <1>4 DEF Values
  <2>2. \A i \in 1..Len(l) : i \in 0..Len(l) /\ i - 1 \in 0..Len(l)
    BY <1>1
  <2>3. \A i \in 1..Len(l) : f[i] = next(i, f[i - 1])
    <3> HIDE DEF next
    <3> QED
      BY <2>1, <2>2
  <2>4. \A i \in 0..Len(l) : i # 0 => i \in 1..Len(l)
    BY <1>1
  <2> QED
    BY <2>1, <2>3, <2>4
<1>6. IsLoop(u)
  BY <1>5, Zenon
<1>7. Unexpired(l, t) = u[Len(l)]
  BY Zenon DEF Unexpired
<1> HIDE DEF u
<1>8. u[0] = <<>> /\ \A i \in 1..Len(l) : u[i] = next(i, u[i - 1])
  <2>1. \A i \in 1..Len(l) : i \in 0..Len(l) /\ i # 0
    BY <1>1
  <2>2. 0 \in 0..Len(l)
    BY <1>1
  <2> QED
    BY <2>1, <2>2, <1>6
<1> HIDE DEF next
<1> DEFINE T == {i \in 0..Len(l) : u[i] \in Seq(S)}
<1>9. T = 0..Len(l)
  <2>1. 0 \in T
    <3>1. 0 \in 0..Len(l)
      BY <1>1
    <3> QED
      BY <3>1, <1>1, <1>8
  <2>3. T \in SUBSET (0..Len(l))
    OBVIOUS
  <2>2. ASSUME NEW i \in 1..Len(l), i - 1 \in T PROVE i \in T
    BY <1>1, <1>2, <1>8, <2>2
  <2> HIDE DEF T
  <2> QED
    BY <1>1, <2>1, <2>2, <2>3, Induction
<1>10. Len(l) \in 0..Len(l)
  BY <1>1
<1> QED
  BY <1>7, <1>9, <1>10

\* select_due_job: without an answer nothing is due, and the answer is a due
\* window with the latest display time of those that are.
LEMMA LatestIsSelected ==
    ASSUME NEW l \in Seq(Windows), NEW t \in Nat
    PROVE  /\ SelectDue(l, t) = 0 => \A i \in DOMAIN l : ~Due(l[i], t)
           /\ SelectDue(l, t) # 0 =>
                 /\ SelectDue(l, t) \in DOMAIN l
                 /\ \A k \in DOMAIN l :
                       Due(l[k], t) => l[k].display <= l[SelectDue(l, t)].display
<1> DEFINE due == {i \in DOMAIN l : Due(l[i], t)}
           Best(i) == \A k \in due : \/ l[k].display < l[i].display
                                     \/ l[k].display = l[i].display /\ k <= i
<1>1. Len(l) \in Nat /\ DOMAIN l = 1..Len(l) /\ \A i \in DOMAIN l : l[i] \in Windows
  OBVIOUS
<1>2. CASE due = {}
  BY <1>2 DEF SelectDue
<1>3. CASE due # {}
  <2> DEFINE d == [i \in due |-> t - l[i].display]
             e == [i \in due |-> Len(l) - i]
  <2>1. \A i \in due : /\ l[i].display \in Nat /\ t - l[i].display \in Nat
                       /\ i \in Nat /\ Len(l) - i \in Nat
    BY <1>1 DEF Due, Windows
  <2>2. d \in [due -> Nat] /\ e \in [due -> Nat]
    BY <2>1
  <2>3. PICK i \in due : \A k \in due : d[i] < d[k] \/ (d[i] = d[k] /\ e[i] <= e[k])
    <3> HIDE DEF d, e, due
    <3> QED
      BY <1>3, <2>2, First
  <2>4. Best(i)
    <3> TAKE k \in due
    <3>1. d[i] = t - l[i].display /\ d[k] = t - l[k].display
          /\ e[i] = Len(l) - i /\ e[k] = Len(l) - k
      OBVIOUS
    <3>2. d[i] < d[k] \/ (d[i] = d[k] /\ e[i] <= e[k])
      BY <2>3
    <3>3. i \in due
      BY <2>3
    <3>4. /\ l[i].display \in Nat /\ l[k].display \in Nat /\ Len(l) \in Nat
          /\ i \in Nat /\ k \in Nat
      BY <1>1, <2>1, <3>3
    <3> HIDE DEF d, e, due
    <3>5. CASE d[i] < d[k]
      BY <3>1, <3>4, <3>5, SMTT(30)
    <3>6. CASE d[i] = d[k] /\ e[i] <= e[k]
      <4>1. t - l[i].display = t - l[k].display /\ Len(l) - i <= Len(l) - k
        BY <3>1, <3>6, Zenon
      <4>2. l[k].display = l[i].display
        BY <3>4, <4>1
      <4>3. k <= i
        BY <3>4, <4>1
      <4> QED
        BY <4>2, <4>3
    <3> QED
      BY <3>2, <3>5, <3>6
  <2>5. SelectDue(l, t) = CHOOSE j \in due : Best(j)
    BY <1>3, Zenon DEF SelectDue
  <2>6. SelectDue(l, t) \in due /\ Best(SelectDue(l, t))
    <3> HIDE DEF Best, due
    <3> QED
      BY <2>4, <2>5, Zenon
  <2>7. SelectDue(l, t) # 0
    BY <1>1, <2>6
  <2>8. PICK s : s = SelectDue(l, t)
    OBVIOUS
  <2>9. s \in DOMAIN l
    BY <2>6, <2>8
  <2>10. ASSUME NEW k \in DOMAIN l, Due(l[k], t) PROVE l[k].display <= l[s].display
    <3>1. k \in due
      BY <2>10
    <3>2. l[k].display < l[s].display \/ l[k].display = l[s].display
      BY <2>6, <2>8, <3>1
    <3>3. l[s].display \in Nat /\ l[k].display \in Nat
      BY <2>1, <2>6, <2>8, <3>1
    <3> QED
      BY <3>2, <3>3
  <2> QED
    BY <2>7, <2>8, <2>9, <2>10
<1> QED
  BY <1>2, <1>3

\* select_imminent_job: the answer is a window that falls due later.
LEMMA ImminentIsLater ==
    ASSUME NEW l \in Seq(Windows), NEW t \in Nat, NEW w \in Nat,
           SelectImminent(l, t, w) # 0
    PROVE  /\ SelectImminent(l, t, w) \in DOMAIN l
           /\ l[SelectImminent(l, t, w)].display > t
<1> DEFINE soon == {i \in DOMAIN l : Imminent(l[i], t, w)}
           Best(i) == \A k \in soon : \/ l[k].display > l[i].display
                                      \/ l[k].display = l[i].display /\ k >= i
<1>1. Len(l) \in Nat /\ DOMAIN l = 1..Len(l) /\ \A i \in DOMAIN l : l[i] \in Windows
  OBVIOUS
<1>2. soon # {}
  BY DEF SelectImminent
<1> DEFINE d == [i \in soon |-> l[i].display]
           e == [i \in soon |-> i]
<1>3. \A i \in soon : l[i].display \in Nat /\ i \in Nat
  BY <1>1 DEF Windows
<1>4. d \in [soon -> Nat] /\ e \in [soon -> Nat]
  BY <1>3
<1>5. PICK i \in soon : \A k \in soon : d[i] < d[k] \/ (d[i] = d[k] /\ e[i] <= e[k])
  <2> HIDE DEF d, e, soon
  <2> QED
    BY <1>2, <1>4, First
<1>6. Best(i)
  BY <1>3, <1>5
<1>7. SelectImminent(l, t, w) = CHOOSE j \in soon : Best(j)
  BY <1>2, Zenon DEF SelectImminent
<1>8. SelectImminent(l, t, w) \in soon
  <2> HIDE DEF Best, soon
  <2> QED
    BY <1>6, <1>7, Zenon
<1> QED
  BY <1>8 DEF Imminent

\* next_wake_epoch: later than now, for an overdue window no later than a retry
\* from now, and for one still to come no later than it.
LEMMA WakesForEach ==
    ASSUME NEW l \in Seq(Windows), NEW t \in Nat, NEW sync \in Nat, NEW lead \in Nat,
           NEW retry \in Nat \ {0}
    PROVE  LET wake == WakeEpoch(l, t, sync, lead, retry)
           IN  /\ wake \in Nat /\ wake > t
               /\ \A i \in DOMAIN l : ~l[i].displayed /\ Live(l[i], t) =>
                     /\ l[i].display > t => wake <= l[i].display
                     /\ l[i].display <= t => wake <= t + retry
<1> DEFINE waiting == {i \in DOMAIN l : /\ ~l[i].displayed /\ l[i].display > 0
                                        /\ Live(l[i], t)}
           times == {WakeFor(l[i], t, lead, retry) : i \in waiting}
                       \cup {u \in {sync} : u > t}
           least == Earliest(times)
<1>1. \A i \in DOMAIN l : l[i].display \in Nat \ {0}
  <2>1. \A i \in DOMAIN l : l[i] \in Windows
    OBVIOUS
  <2> QED
    BY <2>1 DEF Windows
<1>2. \A i \in DOMAIN l : /\ WakeFor(l[i], t, lead, retry) \in Nat
                          /\ WakeFor(l[i], t, lead, retry) > t
                          /\ l[i].display > t => WakeFor(l[i], t, lead, retry) <= l[i].display
                          /\ l[i].display <= t => WakeFor(l[i], t, lead, retry) <= t + retry
  BY <1>1 DEF WakeFor
<1>3. times \in SUBSET Nat /\ \A u \in times : u > t
  BY <1>2
<1>4. NextWake(l, t, sync, lead, retry) = IF times = {} THEN 0 ELSE least
  BY Zenon DEF NextWake
<1>5. CASE times = {}
  <2>1. NextWake(l, t, sync, lead, retry) = 0 /\ waiting = {}
    BY <1>4, <1>5
  <2>2. WakeEpoch(l, t, sync, lead, retry) = t + retry
    BY <2>1 DEF WakeEpoch
  <2> QED
    BY <1>1, <2>1, <2>2
<1>6. CASE times # {}
  <2>1. least \in times /\ \A u \in times : least <= u
    <3> HIDE DEF times
    <3> QED
      BY <1>3, <1>6, Least, Zenon DEF Earliest
  <2> HIDE DEF least
  <2>2. WakeEpoch(l, t, sync, lead, retry) = least
    BY <1>3, <1>4, <1>6, <2>1 DEF WakeEpoch
  <2>3. \A i \in waiting : least <= WakeFor(l[i], t, lead, retry)
    BY <2>1
  <2>4. least \in Nat /\ least > t
    BY <1>3, <2>1
  <2>5. \A i \in DOMAIN l : ~l[i].displayed /\ Live(l[i], t) => i \in waiting
    BY <1>1
  <2> HIDE DEF times, waiting
  <2> QED
    BY <1>1, <1>2, <2>2, <2>3, <2>4, <2>5
<1> QED
  BY <1>5, <1>6

\* select_calendar_alarm_epoch: the start of the target's minute, and ahead.
LEMMA AlarmIsNear ==
    ASSUME NEW t \in Nat, NEW target \in Nat, AlarmEpoch(t, target, Minute, Margin, Horizon) # 0
    PROVE  LET alarmAt == AlarmEpoch(t, target, Minute, Margin, Horizon)
           IN  /\ alarmAt \in Nat /\ alarmAt > t
               /\ alarmAt <= target /\ target < alarmAt + Minute
<1>1. Minute \in Nat \ {0} /\ Margin \in Nat
  BY TimesArePositive
<1>2. PICK r \in Nat : r = target % Minute /\ r < Minute
  BY <1>1
<1>3. AlarmEpoch(t, target, Minute, Margin, Horizon) = target - r
  BY <1>2 DEF AlarmEpoch
<1>4. target - r > t + Margin
  BY <1>2, <1>3, <1>1 DEF AlarmEpoch
<1> QED
  BY <1>1, <1>2, <1>3, <1>4

\* Settle marks the window that is shown and the older ones due with it, and
\* changes nothing else.
Settled(l, s, t) ==
    /\ DOMAIN l = DOMAIN jobs
    /\ \A i \in DOMAIN jobs :
          /\ l[i].display = jobs[i].display
          /\ l[i].expires = jobs[i].expires
          /\ l[i].arrived = jobs[i].arrived
          /\ l[i] \in Windows
          /\ l[i].displayed =
                \/ jobs[i].displayed \/ i = s
                \/ i # s /\ Due(jobs[i], t) /\ jobs[i].display <= jobs[s].display

LEMMA SettleFacts ==
    ASSUME jobs \in Seq(Windows), NEW s \in DOMAIN jobs, NEW t
    PROVE  Settle(s, t) \in Seq(Windows) /\ Settled(Settle(s, t), s, t)
<1> DEFINE flag(i) == \/ jobs[i].displayed
                      \/ i # s /\ Due(jobs[i], t) /\ jobs[i].display <= jobs[s].display
           older == SuppressOlder(jobs, s, t)
<1>1. PICK n \in Nat : DOMAIN jobs = 1..n
  <2>1. Len(jobs) \in Nat /\ DOMAIN jobs = 1..Len(jobs)
    OBVIOUS
  <2> QED
    BY <2>1
<1>2. \A i \in DOMAIN jobs : jobs[i] \in Windows
  OBVIOUS
<1>3. older = [i \in DOMAIN jobs |-> [jobs[i] EXCEPT !.displayed = flag(i)]]
  BY DEF SuppressOlder
<1>4. \A i \in DOMAIN jobs : flag(i) \in BOOLEAN
  BY <1>2 DEF Windows
<1>5. Settle(s, t) = [older EXCEPT ![s].displayed = TRUE]
  BY DEF Settle
<1> HIDE DEF flag, older
<1>6. /\ DOMAIN Settle(s, t) = DOMAIN jobs
      /\ \A i \in DOMAIN jobs :
            Settle(s, t)[i] = [jobs[i] EXCEPT !.displayed =
                                  IF i = s THEN TRUE ELSE flag(i)]
  <2>1. DOMAIN older = DOMAIN jobs
    BY <1>3
  <2>2. \A i \in DOMAIN jobs : older[i] = [jobs[i] EXCEPT !.displayed = flag(i)]
    BY <1>3
  <2>3. DOMAIN Settle(s, t) = DOMAIN jobs
    BY <1>5, <2>1
  <2>4. \A i \in DOMAIN jobs : i # s => Settle(s, t)[i] = older[i]
    BY <1>5, <2>1
  <2>5. Settle(s, t)[s] = [older[s] EXCEPT !.displayed = TRUE]
    BY <1>5, <2>1
  <2>6. [older[s] EXCEPT !.displayed = TRUE] = [jobs[s] EXCEPT !.displayed = TRUE]
    BY <1>2, <2>2 DEF Windows
  <2> QED
    BY <2>2, <2>3, <2>4, <2>5, <2>6
<1>7. \A i \in DOMAIN jobs :
         /\ Settle(s, t)[i] \in Windows
         /\ Settle(s, t)[i].display = jobs[i].display
         /\ Settle(s, t)[i].expires = jobs[i].expires
         /\ Settle(s, t)[i].arrived = jobs[i].arrived
         /\ Settle(s, t)[i].displayed = IF i = s THEN TRUE ELSE flag(i)
  <2> TAKE i \in DOMAIN jobs
  <2>1. jobs[i] \in Windows /\ flag(i) \in BOOLEAN
    BY <1>2, <1>4
  <2>2. PICK g \in BOOLEAN : g = IF i = s THEN TRUE ELSE flag(i)
    BY <2>1, Zenon
  <2>3. Settle(s, t)[i] = [jobs[i] EXCEPT !.displayed = g]
    BY <1>6, <2>2, Zenon
  <2>4. [jobs[i] EXCEPT !.displayed = g] \in Windows
    BY <2>1 DEF Windows
  <2>5. /\ Settle(s, t)[i].display = jobs[i].display
        /\ Settle(s, t)[i].expires = jobs[i].expires
        /\ Settle(s, t)[i].arrived = jobs[i].arrived
    BY <2>1, <2>3 DEF Windows
  <2>6. Settle(s, t)[i].displayed = g
    BY <2>1, <2>3 DEF Windows
  <2> QED
    BY <2>2, <2>3, <2>4, <2>5, <2>6, Zenon
<1>8. Settle(s, t) \in [1..n -> Windows]
  <2>1. Settle(s, t) = [i \in 1..n |-> Settle(s, t)[i]]
    BY <1>1, <1>5, <1>3
  <2> QED
    BY <1>1, <1>7, <2>1
<1>9. Settle(s, t) \in Seq(Windows)
  BY <1>8
<1>10. \A i \in DOMAIN jobs :
          (IF i = s THEN TRUE ELSE flag(i)) =
             (\/ jobs[i].displayed \/ i = s
              \/ i # s /\ Due(jobs[i], t) /\ jobs[i].display <= jobs[s].display)
  BY <1>2 DEF flag, Windows
<1>11. Settled(Settle(s, t), s, t)
  BY <1>6, <1>7, <1>10, Zenon DEF Settled
<1> QED
  BY <1>9, <1>11

\* Being late grows with the clock alone: on a list that stays as it is, by what
\* passes.
WaitingIn(l, t) == {i \in DOMAIN l : ~l[i].displayed /\ Live(l[i], t)}

Late(l, t, b) == \A i \in WaitingIn(l, t) : t - Since(l[i]) < b

LEMMA SinceIsNat == ASSUME NEW w \in Windows
                    PROVE  /\ Since(w) \in Nat
                           /\ Since(w) >= w.display /\ Since(w) >= w.arrived
  BY DEF Since, Windows

LEMMA WaitedBefore ==
    ASSUME NEW l \in Seq(Windows), NEW t \in Nat, NEW u \in Nat, t <= u
    PROVE  WaitingIn(l, u) \subseteq WaitingIn(l, t)
<1>1. \A i \in DOMAIN l : l[i] \in Windows
  OBVIOUS
<1>2. \A i \in DOMAIN l : l[i].expires \in Nat
  BY <1>1 DEF Windows
<1> QED
  BY <1>2 DEF WaitingIn, Live

LEMMA LaterByWhatPasses ==
    ASSUME NEW l \in Seq(Windows), NEW t \in Nat, NEW u \in Nat, NEW b \in Nat,
           NEW more \in Nat, t <= u, u <= t + more, Late(l, t, b)
    PROVE  Late(l, u, b + more)
<1>1. \A i \in DOMAIN l : Since(l[i]) \in Nat
  BY SinceIsNat
<1>2. \A i \in WaitingIn(l, u) : i \in WaitingIn(l, t) /\ i \in DOMAIN l
  BY WaitedBefore DEF WaitingIn
<1> QED
  BY <1>1, <1>2 DEF Late

-----------------------------------------------------------------------------
(* display_due_cached *)

\* The check returns a list with the same windows, of which none is waiting that
\* was due when the check began: what waits is late by the work at most.
LEMMA CheckSettles ==
    ASSUME jobs \in Seq(Windows), now \in Nat, NEW t \in Nat, t >= now, DisplayDue(t),
           rtcWake \in BOOLEAN
    PROVE  /\ jobs' \in Seq(Windows)
           /\ now' \in Nat /\ now' >= t /\ now' <= MaxTime
           /\ Late(jobs', now', MaxBusy)
<1> DEFINE at == CheckTime(t)
           s == SelectDue(jobs, at)
           soon == SelectImminent(jobs, t, Wait)
<1>1. MaxBusy \in Nat /\ Wait \in Nat /\ MaxTime \in Nat
  BY TimesArePositive
<1>2. \A i \in DOMAIN jobs : jobs[i] \in Windows /\ Since(jobs[i]) \in Nat
                             /\ Since(jobs[i]) >= jobs[i].display
                             /\ jobs[i].display \in Nat \ {0} /\ jobs[i].expires \in Nat
  <2>1. \A i \in DOMAIN jobs : jobs[i] \in Windows
    OBVIOUS
  <2> QED
    BY <2>1, SinceIsNat DEF Windows
<1>3. at \in Nat /\ at >= t
  <2>1. soon # 0 => soon \in DOMAIN jobs /\ jobs[soon].display > t
    BY <1>1, ImminentIsLater
  <2>2. at = IF SelectDue(jobs, t) = 0 /\ rtcWake /\ soon # 0
             THEN jobs[soon].display ELSE t
    BY DEF CheckTime
  <2> HIDE DEF at, soon
  <2> QED
    BY <1>2, <2>1, <2>2
<1>4. IF s = 0 THEN now' = at /\ at <= MaxTime /\ jobs' = jobs
      ELSE now' \in Busy(at) /\ jobs' = Settle(s, at)
  BY DEF DisplayDue
<1> HIDE DEF at
<1>5. /\ s = 0 => \A i \in DOMAIN jobs : ~Due(jobs[i], at)
      /\ s # 0 => /\ s \in DOMAIN jobs
                  /\ \A k \in DOMAIN jobs :
                        Due(jobs[k], at) => jobs[k].display <= jobs[s].display
  BY <1>3, LatestIsSelected
<1> HIDE DEF s
<1>6. \A i \in DOMAIN jobs : ~jobs[i].displayed /\ Live(jobs[i], at) /\ ~Due(jobs[i], at)
                             => jobs[i].display > at
  BY <1>2, <1>3 DEF Due
<1>7. CASE s = 0
  <2>1. now' = at /\ jobs' = jobs /\ at <= MaxTime
    BY <1>4, <1>7
  <2>2. \A i \in WaitingIn(jobs, at) : at - Since(jobs[i]) < MaxBusy
    BY <1>1, <1>2, <1>3, <1>5, <1>6, <1>7 DEF WaitingIn
  <2> QED
    BY <1>3, <2>1, <2>2 DEF Late
<1>8. CASE s # 0
  <2>1. /\ now' \in at..(at + MaxBusy) /\ now' <= MaxTime
        /\ jobs' = Settle(s, at)
    BY <1>4, <1>8 DEF Busy
  <2>2. now' \in Nat /\ now' >= at /\ now' <= at + MaxBusy
    BY <1>1, <1>3, <2>1
  <2>3. /\ DOMAIN jobs' = DOMAIN jobs
        /\ \A i \in DOMAIN jobs :
              /\ jobs'[i].display = jobs[i].display
              /\ jobs'[i].expires = jobs[i].expires
              /\ jobs'[i].arrived = jobs[i].arrived
              /\ jobs'[i] \in Windows
              /\ jobs'[i].displayed =
                    \/ jobs[i].displayed \/ i = s
                    \/ i # s /\ Due(jobs[i], at) /\ jobs[i].display <= jobs[s].display
    <3>1. s \in DOMAIN jobs
      BY <1>5, <1>8
    <3>2. PICK l : l = jobs' /\ l = Settle(s, at)
      BY <2>1
    <3>3. Settled(l, s, at)
      BY <3>1, <3>2, SettleFacts
    <3> QED
      BY <3>2, <3>3, Zenon DEF Settled
  <2>4. jobs' \in Seq(Windows)
    BY <1>8, <1>5, <2>1, SettleFacts
  <2>5. \A i \in DOMAIN jobs : Since(jobs'[i]) = Since(jobs[i])
    BY <2>3 DEF Since
  <2>6. ASSUME NEW i \in WaitingIn(jobs', now') PROVE now' - Since(jobs'[i]) < MaxBusy
    <3>1. i \in DOMAIN jobs /\ ~jobs'[i].displayed /\ Live(jobs'[i], now')
      BY <2>3 DEF WaitingIn
    <3>2. Live(jobs[i], at)
      <4>1. jobs'[i].expires = jobs[i].expires /\ jobs[i].expires \in Nat
        BY <1>2, <2>3, <3>1
      <4>2. jobs[i].expires = 0 \/ jobs[i].expires > now'
        BY <3>1, <4>1 DEF Live
      <4> QED
        BY <1>3, <2>2, <4>1, <4>2 DEF Live
    <3>3. ~jobs[i].displayed /\ i # s
          /\ ~(Due(jobs[i], at) /\ jobs[i].display <= jobs[s].display)
      BY <2>3, <3>1
    <3>4. ~Due(jobs[i], at)
      BY <1>5, <1>8, <3>1, <3>3
    <3>5. jobs[i].display > at
      BY <1>6, <3>1, <3>2, <3>3, <3>4
    <3> QED
      BY <1>1, <1>2, <1>3, <2>2, <2>5, <3>1, <3>5
  <2> QED
    BY <1>3, <2>1, <2>2, <2>4, <2>6 DEF Late
<1> QED
  BY <1>7, <1>8

-----------------------------------------------------------------------------
(* sync_now *)

\* What a sync installs are windows that were listed before, or that come now.
LEMMA MergedFacts ==
    ASSUME jobs \in Seq(Windows), NEW new \in SUBSET Cards, NEW t \in Nat,
           NEW l \in Merged(new, t)
    PROVE  /\ l \in Seq(Windows)
           /\ \A i \in DOMAIN l : \/ \E k \in DOMAIN jobs : l[i] = jobs[k]
                                  \/ l[i].arrived = t
<1> DEFINE S == Range(jobs) \cup {Window(card, t) : card \in new}
<1>1. S \subseteq Windows
  <2>1. \A i \in DOMAIN jobs : jobs[i] \in Windows
    OBVIOUS
  <2>2. \A card \in new : card.display \in Nat \ {0} /\ card.expires \in Nat
    BY CardsAreWindows
  <2>3. \A card \in new : Window(card, t) \in Windows
    BY <2>2 DEF Window, Windows
  <2> QED
    BY <2>1, <2>3 DEF Range
<1>2. IsFiniteSet(S)
  <2>1. IsFiniteSet(1..Len(jobs))
    <3>1. Len(jobs) \in Int /\ 1 \in Int
      OBVIOUS
    <3> QED
      BY <3>1, FS_Interval
  <2>2. IsFiniteSet(Range(jobs))
    <3>1. jobs \in Surjection(1..Len(jobs), Range(jobs))
      BY DEF Surjection, Range
    <3> QED
      BY <2>1, <3>1, FS_Surjection
  <2>4. IsFiniteSet(new)
    BY CardsAreWindows, FS_Subset
  <2>5. IsFiniteSet({Window(card, t) : card \in new})
    <3> DEFINE f == [card \in new |-> Window(card, t)]
               W == {Window(card, t) : card \in new}
    <3>1. f \in Surjection(new, W)
      BY DEF Surjection
    <3> HIDE DEF f, W
    <3>2. IsFiniteSet(W)
      BY <2>4, <3>1, FS_Surjection
    <3> QED
      BY <3>2 DEF W
  <2> QED
    BY <2>2, <2>5, FS_Union
<1>3. Cardinality(S) \in Nat
  BY <1>2, FS_CardinalityType
<1>4. PICK s : s \in Sorted(S) /\ l = Unexpired(s, t)
  BY DEF Merged
<1>5. \A i \in DOMAIN jobs : jobs[i] \in Range(jobs)
  BY DEF Range
<1>6. \A w \in S : (\E k \in DOMAIN jobs : w = jobs[k]) \/ w.arrived = t
  <2>1. \A card \in new : Window(card, t).arrived = t
    BY DEF Window
  <2> QED
    BY <2>1 DEF Range
<1> HIDE DEF S
<1>7. s \in Seq(S)
  BY <1>3, <1>4 DEF Sorted
<1>8. l \in Seq(S)
  BY <1>4, <1>7, UnexpiredAreListed
<1>9. l \in Seq(Windows)
  BY <1>1, <1>8
<1> QED
  BY <1>6, <1>8, <1>9

\* After a sync a window that was not listed is new, and the others are later by
\* what the sync took.
LEMMA SyncTakesItsTime ==
    ASSUME jobs \in Seq(Windows), now \in Nat, NEW b \in Nat, Late(jobs, now, b),
           NEW new \in SUBSET Cards, SyncInstalls(new)
    PROVE  /\ jobs' \in Seq(Windows)
           /\ now' \in Nat /\ now' >= now /\ now' <= MaxTime
           /\ {serverNext', nextSync'} \subseteq Nat
           /\ Late(jobs', now', b + MaxBusy + 1)
<1>1. MaxBusy \in Nat /\ MaxTime \in Nat /\ Grid \in Nat \ {0} /\ Poll \in Nat
  BY TimesArePositive
<1>2. now' \in now..(now + MaxBusy) /\ now' <= MaxTime
  BY DEF SyncInstalls, Busy
<1>3. now' \in Nat /\ now' >= now /\ now' <= now + MaxBusy
  BY <1>1, <1>2
<1>4. /\ jobs' \in Seq(Windows)
      /\ \A i \in DOMAIN jobs' : \/ \E k \in DOMAIN jobs : jobs'[i] = jobs[k]
                                 \/ jobs'[i].arrived = now'
  <2>1. jobs' \in Merged(new, now')
    BY DEF SyncInstalls
  <2>2. PICK t : t = now'
    OBVIOUS
  <2>3. PICK l : l = jobs'
    OBVIOUS
  <2>4. t \in Nat /\ l \in Merged(new, t)
    BY <1>3, <2>1, <2>2, <2>3
  <2>5. /\ l \in Seq(Windows)
        /\ \A i \in DOMAIN l : \/ \E k \in DOMAIN jobs : l[i] = jobs[k]
                               \/ l[i].arrived = t
    BY <2>4, MergedFacts
  <2> QED
    BY <2>2, <2>3, <2>5
<1>5. {serverNext', nextSync'} \subseteq Nat
  <2>0. PICK t \in Nat : t = now'
    BY <1>3
  <2>1. PICK q \in Nat : q = now' \div Grid
    <3>1. t \div Grid \in Nat
      BY <1>1
    <3> QED
      BY <2>0, <3>1
  <2>2. serverNext' = (q + 1) * Grid
    BY <2>1 DEF SyncInstalls, NextRegularSync
  <2>3. serverNext' \in Nat
    BY <1>1, <2>1, <2>2
  <2>4. nextSync' = NextSyncDeadline(now', serverNext', Poll)
    BY DEF SyncInstalls
  <2>5. nextSync' \in Nat
    <3>1. PICK u \in Nat : u = serverNext'
      BY <2>3
    <3>2. NextSyncDeadline(t, u, Poll) \in Nat
      BY <1>1 DEF NextSyncDeadline
    <3> QED
      BY <2>0, <2>4, <3>1, <3>2
  <2> QED
    BY <2>3, <2>5
<1>6. ASSUME NEW i \in WaitingIn(jobs', now')
      PROVE  now' - Since(jobs'[i]) < b + MaxBusy + 1
  <2>1. i \in DOMAIN jobs' /\ jobs'[i] \in Windows
    BY <1>4 DEF WaitingIn
  <2>2. Since(jobs'[i]) \in Nat /\ Since(jobs'[i]) >= jobs'[i].arrived
    BY <2>1, SinceIsNat
  <2>3. CASE jobs'[i].arrived = now'
    BY <1>1, <1>3, <2>2, <2>3
  <2>4. CASE \E k \in DOMAIN jobs : jobs'[i] = jobs[k]
    <3>1. PICK k \in DOMAIN jobs : jobs'[i] = jobs[k]
      BY <2>4
    <3>2. Late(jobs, now', b + MaxBusy)
      BY <1>1, <1>3, LaterByWhatPasses
    <3>3. k \in WaitingIn(jobs, now')
      BY <3>1 DEF WaitingIn
    <3>4. now' - Since(jobs[k]) < b + MaxBusy
      BY <3>2, <3>3 DEF Late
    <3> QED
      BY <1>1, <1>3, <2>2, <3>1, <3>4
  <2> QED
    BY <1>4, <2>1, <2>3, <2>4
<1> QED
  BY <1>2, <1>3, <1>4, <1>5, <1>6 DEF Late

-----------------------------------------------------------------------------
(* The inductive invariant *)

\* How late a waiting card may be where the firmware is: each stretch of work
\* since the last display check adds MaxBusy, the retry counts while the board
\* is off, and in the loop the time without a check counts as it passes.
InTime ==
    /\ mode = "boot" => Late(jobs, now, Retry + 3 * MaxBusy)
    /\ mode = "connect" => Late(jobs, now, MaxBusy)
    /\ mode = "synced" => Late(jobs, now, 2 * MaxBusy + 1)
    /\ mode \in {"decide", "off"} => Late(jobs, now, 2 * MaxBusy)
    /\ mode \in {"loop", "checked"} => Late(jobs, now, 2 * MaxBusy + held)
    /\ mode = "loop_synced" => Late(jobs, now, 3 * MaxBusy + 1 + held)
    /\ mode = "off" => \A i \in WaitingIn(jobs, now) :
                          alarm - Since(jobs[i]) < Retry + 2 * MaxBusy
    /\ mode \notin {"loop", "checked", "loop_synced"} => held = 0

IInv == TypeOK /\ InTime /\ NeverSleepsPast

LEMMA InitEstablishes == Init => IInv
<1> SUFFICES ASSUME Init PROVE IInv
  OBVIOUS
<1>1. MaxTime \in Nat \ {0} /\ jobs = <<>> /\ DOMAIN jobs = {}
  BY TimesArePositive DEF Init
<1>2. jobs \in Seq(Windows)
  BY <1>1
<1>3. TypeOK
  <2>1. now \in 0..MaxTime
    BY <1>1 DEF Init
  <2>2. {alarm, serverNext, nextSync} \subseteq Nat
    BY DEF Init
  <2>3. held \in 0..MaxHeld
    BY TimesArePositive DEF Init
  <2> QED
    BY <1>2, <2>1, <2>2, <2>3 DEF Init, TypeOK, Modes
<1>4. InTime
  BY <1>1 DEF Init, InTime, Late, WaitingIn
<1>5. NeverSleepsPast
  BY DEF Init, NeverSleepsPast
<1> QED
  BY <1>3, <1>4, <1>5 DEF IInv

\* The alarm, or the button before it: a card that waited is later by the time
\* until the alarm and by the boot.
LEMMA WakingKeeps == ASSUME IInv, AlarmWakes \/ ButtonWakes PROVE IInv'
<1>1. MaxBusy \in Nat /\ MaxTime \in Nat /\ Retry \in Nat
  BY TimesArePositive
<1>2. now \in Nat /\ alarm \in Nat /\ alarm > now /\ jobs \in Seq(Windows)
      /\ mode = "off" /\ mode' = "boot" /\ alarm' = 0 /\ jobs' = jobs
      /\ serverNext' = serverNext /\ nextSync' = nextSync /\ rtcWake' \in BOOLEAN
      /\ held' = held /\ held = 0
  <2>1. /\ mode = "off" /\ mode' = "boot" /\ alarm' = 0 /\ jobs' = jobs
        /\ serverNext' = serverNext /\ nextSync' = nextSync /\ rtcWake' \in BOOLEAN
        /\ held' = held
    BY DEF AlarmWakes, ButtonWakes
  <2>2. now \in Nat
    BY DEF IInv, TypeOK
  <2>3. alarm \in Nat /\ alarm > now /\ jobs \in Seq(Windows)
    BY <2>1 DEF IInv, TypeOK
  <2>4. held = 0
    BY <2>1 DEF IInv, InTime
  <2> QED
    BY <2>1, <2>2, <2>3, <2>4
<1>3. now' \in Nat /\ now' >= now /\ now' <= alarm + MaxBusy /\ now' <= MaxTime
  <2>1. CASE AlarmWakes
    BY <1>1, <1>2, <2>1 DEF AlarmWakes, Busy
  <2>2. CASE ButtonWakes
    <3>1. PICK pressed \in now..(alarm - 1) : now' \in Busy(pressed)
      BY <2>2 DEF ButtonWakes
    <3> QED
      BY <1>1, <1>2, <3>1 DEF Busy
  <2> QED
    BY <2>1, <2>2
<1>4. Late(jobs, now', Retry + 3 * MaxBusy)
  <2>1. \A i \in WaitingIn(jobs, now) : alarm - Since(jobs[i]) < Retry + 2 * MaxBusy
    BY <1>2 DEF IInv, InTime
  <2>2. ASSUME NEW i \in WaitingIn(jobs, now')
        PROVE  now' - Since(jobs[i]) < Retry + 3 * MaxBusy
    <3>1. i \in WaitingIn(jobs, now)
      BY <1>2, <1>3, WaitedBefore
    <3>2. Since(jobs[i]) \in Nat
      BY <1>2, <3>1, SinceIsNat DEF WaitingIn
    <3> QED
      BY <1>1, <1>2, <1>3, <2>1, <3>1, <3>2
  <2> QED
    BY <2>2 DEF Late
<1>5. TypeOK'
  <2>1. now' \in 0..MaxTime
    BY <1>1, <1>3
  <2> QED
    BY <1>2, <2>1 DEF IInv, TypeOK, Modes
<1>6. InTime'
  BY <1>2, <1>4 DEF InTime
<1>7. NeverSleepsPast'
  BY <1>2 DEF NeverSleepsPast
<1> QED
  BY <1>5, <1>6, <1>7 DEF IInv

\* A display check: at boot, at the end of a sync, in the loop.
LEMMA ShowingKeeps == ASSUME IInv, BootShows \/ SyncShows \/ LoopShows PROVE IInv'
<1>1. MaxBusy \in Nat /\ MaxTime \in Nat /\ Retry \in Nat
  BY TimesArePositive
<1>2. now \in Nat /\ jobs \in Seq(Windows) /\ rtcWake \in BOOLEAN
      /\ {alarm, serverNext, nextSync} \subseteq Nat
  BY DEF IInv, TypeOK
<1>3. /\ mode # "off" /\ mode' \in {"connect", "decide", "loop", "checked"}
      /\ alarm' = alarm /\ rtcWake' = rtcWake /\ serverNext' = serverNext
      /\ held' = 0
  BY DEF BootShows, SyncShows, LoopShows, DisplayDue
<1>4. alarm = 0
  BY <1>3 DEF IInv, TypeOK
<1>5. PICK t \in Nat : t >= now /\ DisplayDue(t)
  <2>1. DisplayDue(now) \/ DisplayDue(now + 1)
    BY DEF BootShows, SyncShows, LoopShows
  <2> QED
    BY <1>2, <2>1
<1>6. /\ jobs' \in Seq(Windows)
      /\ now' \in Nat /\ now' <= MaxTime
      /\ Late(jobs', now', MaxBusy)
  BY <1>2, <1>5, CheckSettles
<1>7. nextSync' \in Nat
  <2>1. nextSync' \in {0, nextSync, now' + Retry}
    BY DEF BootShows, SyncShows, LoopShows
  <2>2. nextSync \in Nat /\ now' + Retry \in Nat /\ 0 \in Nat
    <3>1. nextSync \in Nat
      BY <1>2
    <3>2. PICK u \in Nat : u = now'
      BY <1>6
    <3>3. u + Retry \in Nat /\ 0 \in Nat
      BY <1>1
    <3> QED
      BY <3>1, <3>2, <3>3, Zenon
  <2> QED
    BY <2>1, <2>2, Zenon
<1>8. TypeOK'
  <2>1. now' \in 0..MaxTime /\ held' \in 0..MaxHeld
    BY <1>1, <1>3, <1>6, TimesArePositive
  <2> QED
    BY <1>2, <1>3, <1>4, <1>6, <1>7, <2>1 DEF TypeOK, Modes
<1>9. Late(jobs', now', 2 * MaxBusy) /\ Late(jobs', now', 2 * MaxBusy + held')
  <2>1. \A i \in WaitingIn(jobs', now') : Since(jobs'[i]) \in Nat
    BY <1>6, SinceIsNat DEF WaitingIn
  <2> QED
    BY <1>1, <1>3, <1>6, <2>1 DEF Late
<1>10. InTime'
  BY <1>3, <1>6, <1>9 DEF InTime
<1>11. NeverSleepsPast'
  BY <1>3 DEF NeverSleepsPast
<1> QED
  BY <1>8, <1>10, <1>11 DEF IInv

\* A later time added to what has passed.
LEMMA Added ==
    \A h \in Nat, t \in Nat, u \in Nat :
        u >= t => h + (u - t) \in Nat /\ h + (u - t) >= h
OBVIOUS

LEMMA Passed == \A t \in Nat, u \in Nat : u >= t => u - t \in Nat /\ u <= t + (u - t)
OBVIOUS

LEMMA UpTo == \A h \in Nat, m \in Nat : h <= m => h \in 0..m
OBVIOUS

\* Time without a display check adds up.
LEMMA HeldAddsUp ==
    ASSUME Unchecked, held \in Nat, now \in Nat, now' \in Nat, now' >= now
    PROVE  held' \in 0..MaxHeld /\ held' >= held /\ held' = held + (now' - now)
<1>1. held' = held + (now' - now) /\ held' <= MaxHeld
  BY DEF Unchecked
<1>2. held + (now' - now) \in Nat /\ held + (now' - now) >= held
  BY Added, Zenon
<1>3. held' \in Nat /\ held' >= held
  BY <1>1, <1>2, Zenon
<1>4. MaxHeld \in Nat
  BY TimesArePositive
<1>5. held' \in 0..MaxHeld
  BY <1>1, <1>3, <1>4, UpTo, Zenon
<1> QED
  BY <1>1, <1>3, <1>5, Zenon

\* A sync that installs a manifest.
LEMMA SyncKeeps ==
    ASSUME IInv, NEW new \in SUBSET (Cards \ Listed), BootSyncs(new) \/ LoopSyncs(new)
    PROVE  IInv'
<1>1. MaxBusy \in Nat /\ MaxTime \in Nat
  BY TimesArePositive
<1>2. now \in Nat /\ jobs \in Seq(Windows) /\ rtcWake \in BOOLEAN /\ held \in 0..MaxHeld
  BY DEF IInv, TypeOK
<1>3. /\ SyncInstalls(new) /\ new \in SUBSET Cards
      /\ rtcWake' = rtcWake /\ alarm' = alarm
      /\ \/ mode = "connect" /\ mode' = "synced" /\ held' = held
         \/ mode = "checked" /\ mode' = "loop_synced" /\ Unchecked
  BY DEF BootSyncs, LoopSyncs
<1>4. alarm = 0
  BY <1>3 DEF IInv, TypeOK
<1>5. ASSUME NEW b \in Nat, Late(jobs, now, b)
      PROVE  /\ jobs' \in Seq(Windows)
             /\ now' \in Nat /\ now' >= now /\ now' <= MaxTime
             /\ {serverNext', nextSync'} \subseteq Nat
             /\ Late(jobs', now', b + MaxBusy + 1)
  BY <1>2, <1>3, <1>5, SyncTakesItsTime
<1>6. NeverSleepsPast'
  BY <1>3 DEF NeverSleepsPast
<1>7. CASE mode = "connect" /\ mode' = "synced" /\ held' = held
  <2>1. Late(jobs, now, MaxBusy) /\ held = 0
    BY <1>7 DEF IInv, InTime
  <2>2. MaxBusy + MaxBusy + 1 = 2 * MaxBusy + 1
    BY <1>1
  <2>3. /\ jobs' \in Seq(Windows) /\ now' \in Nat /\ now' <= MaxTime
        /\ {serverNext', nextSync'} \subseteq Nat
        /\ Late(jobs', now', 2 * MaxBusy + 1)
    BY <1>1, <1>5, <2>1, <2>2
  <2>4. now' \in 0..MaxTime
    BY <1>1, <2>3
  <2>5. TypeOK'
    BY <1>2, <1>3, <1>4, <1>7, <2>3, <2>4 DEF TypeOK, Modes
  <2>6. InTime'
    BY <1>7, <2>1, <2>3 DEF InTime
  <2> QED
    BY <1>6, <2>5, <2>6 DEF IInv
<1>8. CASE mode = "checked" /\ mode' = "loop_synced" /\ Unchecked
  <2>1. Late(jobs, now, 2 * MaxBusy + held)
    BY <1>8 DEF IInv, InTime
  <2>2. 2 * MaxBusy + held \in Nat /\ held \in Nat
    BY <1>1, <1>2
  <2>3. /\ jobs' \in Seq(Windows) /\ now' \in Nat /\ now' >= now /\ now' <= MaxTime
        /\ {serverNext', nextSync'} \subseteq Nat
        /\ Late(jobs', now', 2 * MaxBusy + held + MaxBusy + 1)
    BY <1>5, <2>1, <2>2
  <2>4. held' \in 0..MaxHeld /\ held' >= held
    BY <1>2, <1>8, <2>2, <2>3, HeldAddsUp
  <2>5. Late(jobs', now', 3 * MaxBusy + 1 + held')
    <3>1. \A i \in WaitingIn(jobs', now') : Since(jobs'[i]) \in Nat
      BY <2>3, SinceIsNat DEF WaitingIn
    <3>2. MaxHeld \in Nat
      BY TimesArePositive
    <3> QED
      BY <1>1, <2>2, <2>3, <2>4, <3>1, <3>2 DEF Late
  <2>6. now' \in 0..MaxTime
    BY <1>1, <2>3
  <2>7. TypeOK'
    BY <1>2, <1>3, <1>4, <1>8, <2>3, <2>4, <2>6 DEF TypeOK, Modes
  <2>8. InTime'
    BY <1>8, <2>5 DEF InTime
  <2> QED
    BY <1>6, <2>7, <2>8 DEF IInv
<1> QED
  BY <1>3, <1>7, <1>8

\* A sync of the boot that fails, or is not tried.
LEMMA BootFailingKeeps == ASSUME IInv, BootSyncFails PROVE IInv'
<1>1. MaxBusy \in Nat /\ MaxTime \in Nat /\ Retry \in Nat
  BY TimesArePositive
<1>2. now \in Nat /\ jobs \in Seq(Windows) /\ rtcWake \in BOOLEAN
      /\ {alarm, serverNext, nextSync} \subseteq Nat /\ held \in 0..MaxHeld
  BY DEF IInv, TypeOK
<1>3. /\ mode = "connect" /\ mode' = "decide" /\ held' = held
      /\ rtcWake' = rtcWake /\ alarm' = alarm /\ jobs' = jobs /\ serverNext' = serverNext
      /\ now' \in Busy(now) /\ nextSync' \in {nextSync, now + Retry}
  BY DEF BootSyncFails, SyncFails
<1>4. alarm = 0 /\ held = 0 /\ Late(jobs, now, MaxBusy)
  BY <1>3 DEF IInv, TypeOK, InTime
<1>5. now' \in Nat /\ now' >= now /\ now' <= now + MaxBusy /\ now' <= MaxTime
  BY <1>1, <1>2, <1>3 DEF Busy
<1>6. TypeOK'
  <2>1. now' \in 0..MaxTime /\ nextSync' \in Nat
    BY <1>1, <1>2, <1>3, <1>5
  <2> QED
    BY <1>2, <1>3, <1>4, <2>1 DEF TypeOK, Modes
<1>7. Late(jobs, now', MaxBusy + MaxBusy)
  BY <1>1, <1>2, <1>4, <1>5, LaterByWhatPasses
<1>8. InTime'
  <2>1. MaxBusy + MaxBusy = 2 * MaxBusy
    BY <1>1
  <2>2. Late(jobs, now', 2 * MaxBusy)
    BY <1>7, <2>1
  <2> QED
    BY <1>3, <1>4, <2>2 DEF InTime
<1>9. NeverSleepsPast'
  BY <1>3 DEF NeverSleepsPast
<1> QED
  BY <1>6, <1>8, <1>9 DEF IInv

\* The loop without a display check: a turn that is held off, a sync that fails.
LEMMA HoldingKeeps == ASSUME IInv, LoopIsHeld \/ LoopSyncFails PROVE IInv'
<1>1. MaxBusy \in Nat /\ MaxTime \in Nat /\ Retry \in Nat
  BY TimesArePositive
<1>2. now \in 0..MaxTime /\ now \in Nat /\ jobs \in Seq(Windows) /\ rtcWake \in BOOLEAN
      /\ {alarm, serverNext, nextSync} \subseteq Nat /\ held \in 0..MaxHeld
  BY DEF IInv, TypeOK
<1>3. /\ mode \in {"loop", "checked"} /\ mode' \in {"loop", "checked"} /\ Unchecked
      /\ rtcWake' = rtcWake /\ alarm' = alarm /\ jobs' = jobs /\ serverNext' = serverNext
      /\ nextSync' \in {nextSync, now + Retry}
  BY DEF LoopIsHeld, LoopSyncFails, SyncFails
<1>4. now' \in Nat /\ now' >= now /\ now' <= MaxTime
  <2>1. CASE LoopIsHeld
    BY <1>1, <1>2, <2>1 DEF LoopIsHeld
  <2>2. CASE LoopSyncFails
    <3>1. now' \in Busy(now)
      BY <2>2 DEF LoopSyncFails, SyncFails
    <3> QED
      BY <1>1, <1>2, <3>1 DEF Busy
  <2> QED
    BY <2>1, <2>2
<1>5. alarm = 0 /\ Late(jobs, now, 2 * MaxBusy + held)
  BY <1>3 DEF IInv, TypeOK, InTime
<1>6. held \in Nat /\ held' \in 0..MaxHeld /\ held' = held + (now' - now)
  <2>1. held \in Nat
    BY <1>2
  <2> QED
    BY <1>2, <1>3, <1>4, <2>1, HeldAddsUp
<1>7. TypeOK'
  <2>1. now' \in 0..MaxTime /\ nextSync' \in Nat
    BY <1>1, <1>2, <1>3, <1>4
  <2> QED
    BY <1>2, <1>3, <1>5, <1>6, <2>1 DEF TypeOK, Modes
<1>8. Late(jobs, now', 2 * MaxBusy + held')
  <2>1. PICK u \in Nat : u = now' /\ u >= now
    BY <1>4
  <2>2. u - now \in Nat /\ u <= now + (u - now) /\ 2 * MaxBusy + held \in Nat
    <3>1. u - now \in Nat /\ u <= now + (u - now)
      BY <1>2, <2>1, Passed, Zenon
    <3>2. 2 * MaxBusy + held \in Nat
      BY <1>1, <1>6
    <3> QED
      BY <3>1, <3>2, Zenon
  <2>3. Late(jobs, u, 2 * MaxBusy + held + (u - now))
    BY <1>2, <1>5, <2>1, <2>2, LaterByWhatPasses
  <2>4. 2 * MaxBusy + held + (u - now) = 2 * MaxBusy + held'
    BY <1>1, <1>2, <1>6, <2>1
  <2> QED
    BY <2>1, <2>3, <2>4
<1>9. InTime'
  BY <1>3, <1>8 DEF InTime
<1>10. NeverSleepsPast'
  BY <1>3 DEF NeverSleepsPast
<1> QED
  BY <1>7, <1>9, <1>10 DEF IInv

\* The board goes to sleep: the alarm is in the minute of a wake time that no
\* waiting card is before, and that is a retry away for an overdue one.
LEMMA PowerOffKeeps == ASSUME IInv, PowersOff PROVE IInv'
<1>1. /\ MaxBusy \in Nat /\ Retry \in Nat \ {0} /\ Poll \in Nat /\ Lead \in Nat
      /\ Minute \in Nat /\ Wait \in Nat
  BY TimesArePositive
<1>2. now \in Nat /\ jobs \in Seq(Windows) /\ rtcWake \in BOOLEAN
      /\ {alarm, serverNext, nextSync} \subseteq Nat /\ now \in 0..MaxTime
      /\ Late(jobs, now, 2 * MaxBusy) /\ held = 0 /\ held \in 0..MaxHeld
  BY DEF IInv, TypeOK, InTime, PowersOff
<1>3. /\ Armed # 0 /\ mode' = "off" /\ alarm' = Armed
      /\ now' = now /\ jobs' = jobs /\ rtcWake' = rtcWake
      /\ serverNext' = serverNext /\ nextSync' = nextSync /\ held' = held
  BY DEF PowersOff
<1>4. NextSyncDeadline(now, serverNext, Poll) \in Nat
  BY <1>1, <1>2 DEF NextSyncDeadline
<1>5. /\ Target \in Nat /\ Target > now
      /\ \A i \in WaitingIn(jobs, now) :
            /\ jobs[i].display > now => Target <= jobs[i].display
            /\ jobs[i].display <= now => Target <= now + Retry
  <2>1. PICK sync \in Nat : sync = NextSyncDeadline(now, serverNext, Poll)
    BY <1>4
  <2>2. Target = WakeEpoch(jobs, now, sync, Lead, Retry)
    BY <2>1 DEF Target
  <2> QED
    BY <1>1, <1>2, <2>2, WakesForEach DEF WaitingIn
<1>6. Armed \in Nat /\ Armed > now /\ Armed <= Target /\ Target < Armed + Minute
  BY <1>2, <1>3, <1>5, AlarmIsNear DEF Armed
<1>7. \A i \in WaitingIn(jobs, now) :
         /\ jobs[i].display \in Nat /\ Since(jobs[i]) \in Nat
         /\ Since(jobs[i]) >= jobs[i].display
  <2>1. \A i \in WaitingIn(jobs, now) : jobs[i] \in Windows
    BY <1>2 DEF WaitingIn
  <2> QED
    BY <2>1, SinceIsNat DEF Windows
<1>8. Target' = Target /\ Waiting' = WaitingIn(jobs, now)
  BY <1>3 DEF Target, Waiting, WaitingIn
<1>9. TypeOK'
  BY <1>2, <1>3, <1>6 DEF TypeOK, Modes
<1>10. NeverSleepsPast'
  <2>1. Target + Lead <= Armed + Wait
    BY <1>1, <1>5, <1>6, WaitCoversMinute
  <2>2. \A i \in WaitingIn(jobs, now) : jobs[i].display > now => Armed <= jobs[i].display
    BY <1>5, <1>6, <1>7
  <2> QED
    BY <1>3, <1>8, <2>1, <2>2 DEF NeverSleepsPast
<1>11. InTime'
  <2>1. ASSUME NEW i \in WaitingIn(jobs, now)
        PROVE  Armed - Since(jobs[i]) < Retry + 2 * MaxBusy
    <3> DEFINE display == jobs[i].display
               since == Since(jobs[i])
    <3>1. display \in Nat /\ since \in Nat /\ since >= display
      BY <1>7
    <3>2. /\ display > now => Target <= display
          /\ display <= now => Target <= now + Retry
      BY <1>5
    <3>3. now - since < 2 * MaxBusy
      BY <1>2 DEF Late
    <3>4. now \in Nat /\ Target \in Nat /\ Armed \in Nat /\ Armed <= Target
      BY <1>2, <1>5, <1>6
    <3>5. MaxBusy \in Nat /\ Retry \in Nat /\ Retry > 0
      BY <1>1
    <3> HIDE DEF display, since
    <3>6. Armed - since < Retry + 2 * MaxBusy
      <4>1. CASE display > now
        BY <3>1, <3>2, <3>4, <3>5, <4>1
      <4>2. CASE display <= now
        BY <3>1, <3>2, <3>3, <3>4, <3>5, <4>2
      <4> QED
        BY <3>1, <3>4, <4>1, <4>2
    <3> QED
      BY <3>6 DEF since
  <2> QED
    BY <1>2, <1>3, <2>1 DEF InTime
<1> QED
  BY <1>9, <1>10, <1>11 DEF IInv

LEMMA StayingOnKeeps == ASSUME IInv, StaysOn PROVE IInv'
<1>1. mode = "decide" /\ mode' = "loop"
      /\ UNCHANGED <<now, rtcWake, alarm, jobs, serverNext, nextSync, held>>
  BY DEF StaysOn
<1>2. TypeOK'
  BY <1>1 DEF IInv, TypeOK, Modes
<1>3. InTime'
  <2>1. held = 0 /\ Late(jobs, now, 2 * MaxBusy) /\ MaxBusy \in Nat
    BY <1>1, TimesArePositive DEF IInv, InTime
  <2>2. 2 * MaxBusy + held = 2 * MaxBusy
    BY <2>1
  <2>3. Late(jobs, now, 2 * MaxBusy + held)
    BY <2>1, <2>2
  <2> QED
    BY <1>1, <2>3 DEF InTime
<1>4. NeverSleepsPast'
  BY <1>1 DEF NeverSleepsPast
<1> QED
  BY <1>2, <1>3, <1>4 DEF IInv

LEMMA NextPreserves == IInv /\ [Next]_vars => IInv'
<1> SUFFICES ASSUME IInv, [Next]_vars PROVE IInv'
  OBVIOUS
<1>1. CASE AlarmWakes \/ ButtonWakes
  BY <1>1, WakingKeeps
<1>2. CASE BootShows \/ SyncShows \/ LoopShows
  BY <1>2, ShowingKeeps
<1>3. ASSUME NEW new \in SUBSET (Cards \ Listed), BootSyncs(new) \/ LoopSyncs(new)
      PROVE  IInv'
  BY <1>3, SyncKeeps
<1>4. CASE BootSyncFails
  BY <1>4, BootFailingKeeps
<1>5. CASE PowersOff
  BY <1>5, PowerOffKeeps
<1>6. CASE StaysOn
  BY <1>6, StayingOnKeeps
<1>7. CASE LoopIsHeld \/ LoopSyncFails
  BY <1>7, HoldingKeeps
<1>8. CASE UNCHANGED vars
  BY <1>8 DEF vars, IInv, TypeOK, InTime, NeverSleepsPast, Target, Waiting
<1> QED
  BY <1>1, <1>2, <1>3, <1>4, <1>5, <1>6, <1>7, <1>8 DEF Next

LEMMA Invariant == Spec => []IInv
  BY InitEstablishes, NextPreserves, PTL DEF Spec

-----------------------------------------------------------------------------
(* The theorems about the low-power cycle *)

\* Every variable stays in its type, and a board that is off has its alarm ahead:
\* what AlarmEpoch arms is never in the past.
THEOREM Typed == Spec => []TypeOK
<1>1. IInv => TypeOK
  BY DEF IInv
<1> QED
  BY <1>1, Invariant, PTL

\* Whatever cards the gateway hands out and however long the work takes, the
\* board never sleeps through the moment a cached card is to be shown.
THEOREM AlarmIsInTime == Spec => []NeverSleepsPast
<1>1. IInv => NeverSleepsPast
  BY DEF IInv
<1> QED
  BY <1>1, Invariant, PTL

\* A card is late by one retry and three stretches of work at most, and by the
\* time the loop has gone without a display check, in every interleaving of
\* checks, syncs, failures, held-off turns, power-offs and wakes.
THEOREM LatenessIsBounded == Spec => []BoundedLateness
<1>1. ASSUME IInv, NEW i \in Waiting
      PROVE  Lateness(i) < Retry + 3 * MaxBusy + held
  <2>1. MaxBusy \in Nat /\ Retry \in Nat \ {0}
    BY TimesArePositive
  <2>2. now \in Nat /\ jobs \in Seq(Windows) /\ mode \in Modes /\ held \in Nat
    BY <1>1 DEF IInv, TypeOK
  <2>3. i \in WaitingIn(jobs, now) /\ Lateness(i) = now - Since(jobs[i])
    BY DEF Waiting, WaitingIn, Lateness
  <2>4. Since(jobs[i]) \in Nat
    BY <2>2, <2>3, SinceIsNat DEF WaitingIn
  <2>5. \/ now - Since(jobs[i]) < Retry + 3 * MaxBusy
        \/ now - Since(jobs[i]) < MaxBusy
        \/ now - Since(jobs[i]) < 2 * MaxBusy + 1
        \/ now - Since(jobs[i]) < 2 * MaxBusy
        \/ now - Since(jobs[i]) < 2 * MaxBusy + held
        \/ now - Since(jobs[i]) < 3 * MaxBusy + 1 + held
    BY <1>1, <2>2, <2>3 DEF IInv, InTime, Late, Modes
  <2> QED
    BY <2>1, <2>2, <2>3, <2>4, <2>5
<1>2. IInv => BoundedLateness
  BY <1>1 DEF BoundedLateness
<1> QED
  BY <1>2, Invariant, PTL

-----------------------------------------------------------------------------
(* The loops of the policy *)

LoopTypes == ws \in Seq(LoopWindows) /\ moment \in Moments

LEMMA LoopFacts ==
    ASSUME LoopTypes
    PROVE  /\ Len(ws) \in Nat /\ DOMAIN ws = 1..Len(ws) /\ moment \in Nat
           /\ \A i \in DOMAIN ws : /\ i \in Nat /\ ws[i] \in LoopWindows
                                   /\ ws[i].display \in Nat /\ ws[i].expires \in Nat
                                   /\ ws[i].displayed \in BOOLEAN
<1>1. MaxMoment \in Nat
  BY MaxMomentIsNat
<1>2. Len(ws) \in Nat /\ DOMAIN ws = 1..Len(ws) /\ moment \in Nat
      /\ \A i \in DOMAIN ws : ws[i] \in LoopWindows
  BY <1>1 DEF LoopTypes, Moments
<1>3. \A w \in LoopWindows : /\ w.display \in Nat /\ w.expires \in Nat
                             /\ w.displayed \in BOOLEAN
  BY <1>1 DEF LoopWindows, Moments
<1> QED
  BY <1>2, <1>3

\* The loops that select an index or a time: what is selected after each turn.
Turns(f, start, turn) ==
    f = [n \in 0..Len(ws) |-> IF n = 0 THEN start ELSE turn[n][f[n - 1]]]

LEMMA TurnsExist ==
    ASSUME LoopTypes, NEW start \in Nat, NEW turn \in [1..Len(ws) -> [Nat -> Nat]]
    PROVE  \E f \in [0..Len(ws) -> Nat] : Turns(f, start, turn)
<1>1. Len(ws) \in Nat
  BY LoopFacts
<1>2. PICK f : Values(Nat, start, Len(ws), turn, f)
  BY <1>1, LoopRuns
<1>3. /\ f \in [0..Len(ws) -> Nat] /\ f[0] = start
      /\ \A i \in 1..Len(ws) : f[i] = turn[i][f[i - 1]]
  BY <1>2 DEF Values
<1>4. \A i \in 0..Len(ws) : i # 0 => i \in 1..Len(ws)
  BY <1>1
<1>5. Turns(f, start, turn)
  BY <1>3, <1>4 DEF Turns
<1> QED
  BY <1>3, <1>5

-----------------------------------------------------------------------------
(* select_due_job *)

\* After n turns: the latest of the due windows among the first n.
LatestOf(s, n) ==
    IF s = 0 THEN \A k \in DOMAIN ws : Due(ws[k], moment) => k > n
    ELSE /\ s \in DOMAIN ws /\ s <= n /\ Due(ws[s], moment)
         /\ \A k \in DOMAIN ws : Due(ws[k], moment) /\ k <= n =>
               \/ ws[k].display < ws[s].display
               \/ ws[k].display = ws[s].display /\ k <= s

LEMMA DueTurnTakesLatest ==
    ASSUME LoopTypes, NEW n \in DOMAIN ws, NEW s \in Nat, LatestOf(s, n - 1)
    PROVE  LatestOf(DueTurn(s, n), n)
<1>1. /\ moment \in Nat /\ DOMAIN ws = 1..Len(ws) /\ n \in Nat /\ n # 0
      /\ \A i \in DOMAIN ws : /\ i \in Nat /\ ws[i].display \in Nat
                              /\ ws[i].expires \in Nat
  BY LoopFacts
<1>2. CASE ~Due(ws[n], moment)
  <2>1. DueTurn(s, n) = s
    BY <1>1, <1>2 DEF DueTurn, Due, Live
  <2> QED
    BY <1>1, <1>2, <2>1 DEF LatestOf
<1>3. CASE Due(ws[n], moment)
  <2>1. DueTurn(s, n) = IF s = 0 THEN n
                        ELSE IF ws[n].display >= ws[s].display THEN n ELSE s
    BY <1>1, <1>3 DEF DueTurn, Due, Live
  <2>2. CASE s = 0
    BY <1>1, <1>3, <2>1, <2>2 DEF LatestOf
  <2>3. CASE s # 0
    BY <1>1, <1>3, <2>1, <2>3, SMTT(30) DEF LatestOf
  <2> QED
    BY <2>2, <2>3
<1> QED
  BY <1>2, <1>3

LEMMA DueLoopTakesLatest ==
    ASSUME LoopTypes PROVE DueLoop \in Nat /\ LatestOf(DueLoop, Len(ws))
<1> DEFINE L == Len(ws)
           IsLoop(f) == f = [n \in 0..Len(ws) |->
                               IF n = 0 THEN 0 ELSE DueTurn(f[n - 1], n)]
           u == CHOOSE f : IsLoop(f)
           turn == [n \in 1..L |-> [x \in Nat |-> DueTurn(x, n)]]
<1>1. L \in Nat /\ DOMAIN ws = 1..L
  BY LoopFacts
<1>2. \A n \in 1..L, x \in Nat : DueTurn(x, n) \in Nat
  BY <1>1 DEF DueTurn
<1>3. PICK f \in [0..L -> Nat] : Turns(f, 0, turn)
  <2>1. turn \in [1..L -> [Nat -> Nat]]
    BY <1>2
  <2> HIDE DEF turn
  <2> QED
    BY <2>1, TurnsExist
<1>4. IsLoop(f)
  <2>1. \A n \in 0..L : n # 0 => n \in 1..L /\ n - 1 \in 0..L
    BY <1>1
  <2>2. \A n \in 1..L, x \in Nat : turn[n][x] = DueTurn(x, n)
    OBVIOUS
  <2>3. \A n \in 0..L : n # 0 => f[n - 1] \in Nat
    BY <1>3, <2>1
  <2> HIDE DEF turn
  <2> QED
    BY <1>3, <2>1, <2>2, <2>3 DEF Turns
<1>5. IsLoop(u)
  BY <1>4, Zenon
<1>6. DueLoop = u[L]
  BY Zenon DEF DueLoop, Loop
<1> HIDE DEF u
<1>7. u[0] = 0 /\ \A n \in 1..L : u[n] = DueTurn(u[n - 1], n)
  <2>1. 0 \in 0..L /\ \A n \in 1..L : n \in 0..L /\ n # 0
    BY <1>1
  <2> QED
    BY <1>5, <2>1
<1> DEFINE T == {n \in 0..L : u[n] \in Nat /\ LatestOf(u[n], n)}
<1>8. T = 0..L
  <2>1. 0 \in T
    <3>1. LatestOf(0, 0)
      BY <1>1 DEF LatestOf
    <3> QED
      BY <1>1, <1>7, <3>1
  <2>2. ASSUME NEW n \in 1..L, n - 1 \in T PROVE n \in T
    <3>1. u[n - 1] \in Nat /\ LatestOf(u[n - 1], n - 1) /\ n \in 0..L
      BY <1>1, <2>2
    <3>2. LatestOf(DueTurn(u[n - 1], n), n)
      BY <1>1, <3>1, DueTurnTakesLatest
    <3> QED
      BY <1>2, <1>7, <3>1, <3>2
  <2>3. T \in SUBSET (0..L)
    OBVIOUS
  <2> HIDE DEF T
  <2> QED
    BY <1>1, <2>1, <2>2, <2>3, Induction
<1>9. L \in 0..L
  BY <1>1
<1> QED
  BY <1>6, <1>8, <1>9

\* The loop returns what SelectDue says.
LEMMA DueLoopSelects == ASSUME LoopTypes PROVE DueLoop = SelectDue(ws, moment)
<1> DEFINE due == {i \in DOMAIN ws : Due(ws[i], moment)}
           Best(i) == \A k \in due : \/ ws[k].display < ws[i].display
                                     \/ ws[k].display = ws[i].display /\ k <= i
<1>1. PICK s \in Nat : s = DueLoop /\ LatestOf(s, Len(ws))
  BY DueLoopTakesLatest
<1>2. /\ DOMAIN ws = 1..Len(ws) /\ Len(ws) \in Nat
      /\ \A i \in DOMAIN ws : i \in Nat /\ i # 0 /\ i <= Len(ws) /\ ws[i].display \in Nat
  BY LoopFacts
<1>3. CASE s = 0
  <2>1. due = {}
    BY <1>1, <1>2, <1>3 DEF LatestOf
  <2>2. SelectDue(ws, moment) = 0
    BY <2>1 DEF SelectDue
  <2> QED
    BY <1>1, <1>3, <2>2
<1>4. CASE s # 0
  <2>1. s \in due /\ Best(s)
    BY <1>1, <1>2, <1>4 DEF LatestOf
  <2>2. \A i \in due : Best(i) => i = s
    <3> TAKE i \in due
    <3> HAVE Best(i)
    <3>1. ws[s].display < ws[i].display \/ (ws[s].display = ws[i].display /\ s <= i)
      BY <2>1
    <3>2. ws[i].display < ws[s].display \/ (ws[i].display = ws[s].display /\ i <= s)
      BY <2>1
    <3>3. i \in DOMAIN ws /\ s \in DOMAIN ws
      BY <2>1
    <3> QED
      BY <1>2, <3>1, <3>2, <3>3
  <2>3. SelectDue(ws, moment) = CHOOSE i \in due : Best(i)
    <3>1. due # {}
      BY <2>1
    <3> QED
      BY <3>1, Zenon DEF SelectDue
  <2> HIDE DEF due, Best
  <2>4. SelectDue(ws, moment) = s
    BY <2>1, <2>2, <2>3, Zenon
  <2> QED
    BY <1>1, <2>4
<1> QED
  BY <1>3, <1>4

-----------------------------------------------------------------------------
(* select_imminent_job *)

\* After n turns: the first of the imminent windows among the first n.
FirstOf(s, n, wait) ==
    IF s = 0 THEN \A k \in DOMAIN ws : Imminent(ws[k], moment, wait) => k > n
    ELSE /\ s \in DOMAIN ws /\ s <= n /\ Imminent(ws[s], moment, wait)
         /\ \A k \in DOMAIN ws : Imminent(ws[k], moment, wait) /\ k <= n =>
               \/ ws[k].display > ws[s].display
               \/ ws[k].display = ws[s].display /\ k >= s

LEMMA ImminentTurnTakesFirst ==
    ASSUME LoopTypes, NEW wait \in Nat, NEW n \in DOMAIN ws, NEW s \in Nat,
           FirstOf(s, n - 1, wait)
    PROVE  FirstOf(ImminentTurn(wait, s, n), n, wait)
<1>1. /\ moment \in Nat /\ DOMAIN ws = 1..Len(ws) /\ n \in Nat /\ n # 0
      /\ \A i \in DOMAIN ws : /\ i \in Nat /\ ws[i].display \in Nat
                              /\ ws[i].expires \in Nat
  BY LoopFacts
<1>2. CASE ~Imminent(ws[n], moment, wait)
  <2>1. ImminentTurn(wait, s, n) = s
    BY <1>1, <1>2 DEF ImminentTurn, Imminent
  <2> QED
    BY <1>1, <1>2, <2>1 DEF FirstOf
<1>3. CASE Imminent(ws[n], moment, wait)
  <2>1. ImminentTurn(wait, s, n) = IF s = 0 THEN n
                                   ELSE IF ws[n].display < ws[s].display THEN n ELSE s
    BY <1>1, <1>3 DEF ImminentTurn, Imminent
  <2>2. CASE s = 0
    BY <1>1, <1>3, <2>1, <2>2 DEF FirstOf
  <2>3. CASE s # 0
    <3>1. /\ s \in DOMAIN ws /\ s <= n - 1 /\ Imminent(ws[s], moment, wait)
          /\ \A k \in DOMAIN ws : Imminent(ws[k], moment, wait) /\ k <= n - 1 =>
                \/ ws[k].display > ws[s].display
                \/ ws[k].display = ws[s].display /\ k >= s
      BY <2>3 DEF FirstOf
    <3>2. \A k \in DOMAIN ws : k <= n => k <= n - 1 \/ k = n
      BY <1>1
    <3>3. CASE ws[n].display < ws[s].display
      <4>1. ImminentTurn(wait, s, n) = n
        BY <2>1, <2>3, <3>3
      <4>2. \A k \in DOMAIN ws : Imminent(ws[k], moment, wait) /\ k <= n - 1 =>
               ws[k].display > ws[n].display
        BY <1>1, <3>1, <3>3
      <4> QED
        BY <1>1, <1>3, <3>2, <4>1, <4>2 DEF FirstOf
    <3>4. CASE ~(ws[n].display < ws[s].display)
      <4>1. ImminentTurn(wait, s, n) = s
        BY <2>1, <2>3, <3>4
      <4>2. s <= n /\ (ws[n].display > ws[s].display
                      \/ (ws[n].display = ws[s].display /\ n >= s))
        BY <1>1, <3>1, <3>4
      <4> QED
        BY <2>3, <3>1, <3>2, <4>1, <4>2 DEF FirstOf
    <3> QED
      BY <3>3, <3>4
  <2> QED
    BY <2>2, <2>3
<1> QED
  BY <1>2, <1>3

LEMMA ImminentLoopTakesFirst ==
    ASSUME LoopTypes, NEW wait \in Nat
    PROVE  ImminentLoop(wait) \in Nat /\ FirstOf(ImminentLoop(wait), Len(ws), wait)
<1> DEFINE L == Len(ws)
           IsLoop(f) == f = [n \in 0..Len(ws) |->
                               IF n = 0 THEN 0 ELSE ImminentTurn(wait, f[n - 1], n)]
           u == CHOOSE f : IsLoop(f)
           turn == [n \in 1..L |-> [x \in Nat |-> ImminentTurn(wait, x, n)]]
<1>1. L \in Nat /\ DOMAIN ws = 1..L
  BY LoopFacts
<1>2. \A n \in 1..L, x \in Nat : ImminentTurn(wait, x, n) \in Nat
  BY <1>1 DEF ImminentTurn
<1>3. PICK f \in [0..L -> Nat] : Turns(f, 0, turn)
  <2>1. turn \in [1..L -> [Nat -> Nat]]
    BY <1>2
  <2> HIDE DEF turn
  <2> QED
    BY <2>1, TurnsExist
<1>4. IsLoop(f)
  <2>1. \A n \in 0..L : n # 0 => n \in 1..L /\ n - 1 \in 0..L
    BY <1>1
  <2>2. \A n \in 1..L, x \in Nat : turn[n][x] = ImminentTurn(wait, x, n)
    OBVIOUS
  <2>3. \A n \in 0..L : n # 0 => f[n - 1] \in Nat
    BY <1>3, <2>1
  <2> HIDE DEF turn
  <2> QED
    BY <1>3, <2>1, <2>2, <2>3 DEF Turns
<1>5. IsLoop(u)
  BY <1>4, Zenon
<1>6. ImminentLoop(wait) = u[L]
  BY Zenon DEF ImminentLoop, Loop
<1> HIDE DEF u
<1>7. u[0] = 0 /\ \A n \in 1..L : u[n] = ImminentTurn(wait, u[n - 1], n)
  <2>1. 0 \in 0..L /\ \A n \in 1..L : n \in 0..L /\ n # 0
    BY <1>1
  <2> QED
    BY <1>5, <2>1
<1> DEFINE T == {n \in 0..L : u[n] \in Nat /\ FirstOf(u[n], n, wait)}
<1>8. T = 0..L
  <2>1. 0 \in T
    <3>1. FirstOf(0, 0, wait)
      BY <1>1 DEF FirstOf
    <3> QED
      BY <1>1, <1>7, <3>1
  <2>2. ASSUME NEW n \in 1..L, n - 1 \in T PROVE n \in T
    <3>1. u[n - 1] \in Nat /\ FirstOf(u[n - 1], n - 1, wait) /\ n \in 0..L
      BY <1>1, <2>2
    <3>2. FirstOf(ImminentTurn(wait, u[n - 1], n), n, wait)
      BY <1>1, <3>1, ImminentTurnTakesFirst
    <3> QED
      BY <1>2, <1>7, <3>1, <3>2
  <2>3. T \in SUBSET (0..L)
    OBVIOUS
  <2> HIDE DEF T
  <2> QED
    BY <1>1, <2>1, <2>2, <2>3, Induction
<1>9. L \in 0..L
  BY <1>1
<1> QED
  BY <1>6, <1>8, <1>9

LEMMA ImminentLoopSelects ==
    ASSUME LoopTypes, NEW wait \in Nat
    PROVE  ImminentLoop(wait) = SelectImminent(ws, moment, wait)
<1> DEFINE soon == {i \in DOMAIN ws : Imminent(ws[i], moment, wait)}
           Best(i) == \A k \in soon : \/ ws[k].display > ws[i].display
                                      \/ ws[k].display = ws[i].display /\ k >= i
<1>1. PICK s \in Nat : s = ImminentLoop(wait) /\ FirstOf(s, Len(ws), wait)
  BY ImminentLoopTakesFirst
<1>2. /\ DOMAIN ws = 1..Len(ws) /\ Len(ws) \in Nat
      /\ \A i \in DOMAIN ws : i \in Nat /\ i # 0 /\ i <= Len(ws) /\ ws[i].display \in Nat
  BY LoopFacts
<1>3. CASE s = 0
  <2>1. soon = {}
    BY <1>1, <1>2, <1>3 DEF FirstOf
  <2>2. SelectImminent(ws, moment, wait) = 0
    BY <2>1 DEF SelectImminent
  <2> QED
    BY <1>1, <1>3, <2>2
<1>4. CASE s # 0
  <2>1. s \in soon /\ Best(s)
    BY <1>1, <1>2, <1>4 DEF FirstOf
  <2>2. \A i \in soon : Best(i) => i = s
    <3> TAKE i \in soon
    <3> HAVE Best(i)
    <3>1. ws[s].display > ws[i].display \/ (ws[s].display = ws[i].display /\ s >= i)
      BY <2>1
    <3>2. ws[i].display > ws[s].display \/ (ws[i].display = ws[s].display /\ i >= s)
      BY <2>1
    <3>3. i \in DOMAIN ws /\ s \in DOMAIN ws
      BY <2>1
    <3> QED
      BY <1>2, <3>1, <3>2, <3>3
  <2>3. SelectImminent(ws, moment, wait) = CHOOSE i \in soon : Best(i)
    <3>1. soon # {}
      BY <2>1
    <3> QED
      BY <3>1, Zenon DEF SelectImminent
  <2> HIDE DEF soon, Best
  <2>4. SelectImminent(ws, moment, wait) = s
    BY <2>1, <2>2, <2>3, Zenon
  <2> QED
    BY <1>1, <2>4
<1> QED
  BY <1>3, <1>4

-----------------------------------------------------------------------------
(* suppress_older_due_jobs *)

\* After n turns: the first n windows are as SuppressOlder leaves them.
SettledUpTo(selected, n) ==
    [i \in DOMAIN ws |-> IF i <= n THEN SuppressOlder(ws, selected, moment)[i] ELSE ws[i]]

\* A turn settles its window, whatever the turns before it did to theirs.
LEMMA SuppressTurnSettles ==
    ASSUME LoopTypes, NEW s \in DOMAIN ws, NEW n \in DOMAIN ws
    PROVE  SuppressTurn(s, SettledUpTo(s, n - 1), n) = SettledUpTo(s, n)
<1> DEFINE jobs0 == SettledUpTo(s, n - 1)
           older == SuppressOlder(ws, s, moment)
           suppressed == n # s /\ Due(ws[n], moment) /\ ws[n].display <= ws[s].display
<1>1. /\ moment \in Nat /\ DOMAIN ws = 1..Len(ws) /\ n \in Nat
      /\ \A i \in DOMAIN ws : /\ i \in Nat /\ ws[i].display \in Nat /\ ws[i].expires \in Nat
                              /\ ws[i].displayed \in BOOLEAN /\ ws[i] \in LoopWindows
  BY LoopFacts
<1>2. DOMAIN jobs0 = DOMAIN ws /\ jobs0[n] = ws[n]
  BY <1>1 DEF SettledUpTo
<1>3. older[n] = [ws[n] EXCEPT !.displayed = @ \/ suppressed]
  BY DEF SuppressOlder
<1>4. \A i \in DOMAIN ws : i <= n <=> i <= n - 1 \/ i = n
  BY <1>1
<1>5. SettledUpTo(s, n) = [jobs0 EXCEPT ![n] = older[n]]
  <2>1. SettledUpTo(s, n) = [i \in DOMAIN ws |-> IF i <= n THEN older[i] ELSE ws[i]]
    BY Zenon DEF SettledUpTo
  <2>2. jobs0 = [i \in DOMAIN ws |-> IF i <= n - 1 THEN older[i] ELSE ws[i]]
    BY Zenon DEF SettledUpTo
  <2> HIDE DEF jobs0, older
  <2> QED
    BY <1>1, <1>4, <2>1, <2>2
<1> HIDE DEF jobs0, older
<1>6. CASE suppressed
  <2>1. ~ws[n].displayed
    BY <1>6 DEF Due
  <2>2. SuppressTurn(s, jobs0, n) = [jobs0 EXCEPT ![n].displayed = TRUE]
    BY <1>1, <1>2, <1>6 DEF SuppressTurn, Due, Live
  <2>3. older[n] = [ws[n] EXCEPT !.displayed = TRUE]
    BY <1>3, <1>6
  <2> QED
    BY <1>2, <1>5, <2>2, <2>3 DEF jobs0
<1>7. CASE ~suppressed
  <2>1. SuppressTurn(s, jobs0, n) = jobs0
    BY <1>1, <1>2, <1>7 DEF SuppressTurn, Due, Live
  <2>2. older[n] = ws[n]
    <3>1. older[n] = [ws[n] EXCEPT !.displayed = ws[n].displayed]
      BY <1>1, <1>3, <1>7
    <3> QED
      BY <1>1, <3>1 DEF LoopWindows
  <2>3. [jobs0 EXCEPT ![n] = jobs0[n]] = jobs0
    BY DEF jobs0, SettledUpTo
  <2> QED
    BY <1>2, <1>5, <2>1, <2>2, <2>3 DEF jobs0
<1> QED
  BY <1>6, <1>7 DEF jobs0

LEMMA SuppressLoopSettles ==
    ASSUME LoopTypes, NEW s \in DOMAIN ws
    PROVE  SuppressLoop(s) = SuppressOlder(ws, s, moment)
<1> DEFINE L == Len(ws)
           IsLoop(f) == f = [n \in 0..Len(ws) |->
                               IF n = 0 THEN ws ELSE SuppressTurn(s, f[n - 1], n)]
           u == CHOOSE f : IsLoop(f)
           g == [n \in 0..L |-> SettledUpTo(s, n)]
<1>1. /\ L \in Nat /\ DOMAIN ws = 1..L /\ ws = [i \in DOMAIN ws |-> ws[i]]
      /\ \A i \in DOMAIN ws : i \in Nat /\ i > 0 /\ i <= L
  BY LoopFacts DEF LoopTypes
<1>2. SettledUpTo(s, 0) = ws
  <2>1. SettledUpTo(s, 0) = [i \in DOMAIN ws |-> ws[i]]
    BY <1>1 DEF SettledUpTo
  <2> QED
    BY <1>1, <2>1
<1>3. SettledUpTo(s, L) = SuppressOlder(ws, s, moment)
  BY <1>1 DEF SettledUpTo, SuppressOlder
<1>4. \A n \in 1..L : SettledUpTo(s, n) = SuppressTurn(s, SettledUpTo(s, n - 1), n)
  BY <1>1, SuppressTurnSettles
<1>5. IsLoop(g)
  <2>1. \A n \in 0..L : n # 0 => n \in 1..L /\ n - 1 \in 0..L
    BY <1>1
  <2> QED
    BY <1>2, <1>4, <2>1
<1>6. IsLoop(u)
  <2> HIDE DEF g
  <2> QED
    BY <1>5, Zenon
<1>7. SuppressLoop(s) = u[L]
  BY Zenon DEF SuppressLoop, Loop
<1> HIDE DEF u
<1>8. u[0] = ws /\ \A n \in 1..L : u[n] = SuppressTurn(s, u[n - 1], n)
  <2>1. 0 \in 0..L /\ \A n \in 1..L : n \in 0..L /\ n # 0
    BY <1>1
  <2> QED
    BY <1>6, <2>1
<1> DEFINE T == {n \in 0..L : u[n] = SettledUpTo(s, n)}
<1>9. T = 0..L
  <2>1. 0 \in T
    BY <1>1, <1>2, <1>8
  <2>2. ASSUME NEW n \in 1..L, n - 1 \in T PROVE n \in T
    <3>1. u[n - 1] = SettledUpTo(s, n - 1) /\ n \in 0..L
      BY <1>1, <2>2
    <3> QED
      BY <1>4, <1>8, <3>1
  <2>3. T \in SUBSET (0..L)
    OBVIOUS
  <2> HIDE DEF T
  <2> QED
    BY <1>1, <2>1, <2>2, <2>3, Induction
<1>10. L \in 0..L
  BY <1>1
<1> QED
  BY <1>3, <1>7, <1>9, <1>10

-----------------------------------------------------------------------------
(* select_next_wake *)

\* The wake times that the first n windows and the next sync ask for.
Wishes(n, sync, lead, retry) ==
    {WakeFor(ws[i], moment, lead, retry) :
        i \in {i \in DOMAIN ws : /\ ~ws[i].displayed /\ ws[i].display > 0
                                 /\ Live(ws[i], moment) /\ i <= n}}
      \cup {t \in {sync} : t > moment}

EarliestOf(x, n, sync, lead, retry) ==
    IF x = 0 THEN Wishes(n, sync, lead, retry) = {}
    ELSE /\ x \in Wishes(n, sync, lead, retry)
         /\ \A t \in Wishes(n, sync, lead, retry) : x <= t

\* Every wake time is ahead.
LEMMA WakeForIsAhead ==
    ASSUME LoopTypes, NEW i \in DOMAIN ws, NEW lead \in Nat, NEW retry \in Nat
    PROVE  /\ WakeFor(ws[i], moment, lead, retry) \in Nat
           /\ WakeFor(ws[i], moment, lead, retry) > moment
<1>1. moment \in Nat /\ ws[i].display \in Nat
  BY LoopFacts
<1> QED
  BY <1>1 DEF WakeFor

LEMMA WishesAreAhead ==
    ASSUME LoopTypes, NEW n, NEW sync \in Nat, NEW lead \in Nat, NEW retry \in Nat
    PROVE  \A t \in Wishes(n, sync, lead, retry) : t \in Nat /\ t > moment /\ t # 0
<1>1. moment \in Nat
  BY LoopFacts
<1>2. \A i \in DOMAIN ws : /\ WakeFor(ws[i], moment, lead, retry) \in Nat
                           /\ WakeFor(ws[i], moment, lead, retry) > moment
  BY WakeForIsAhead
<1>3. \A t \in Wishes(n, sync, lead, retry) : t \in Nat /\ t > moment
  BY <1>2 DEF Wishes
<1> QED
  BY <1>1, <1>3

LEMMA WakeTurnTakesEarliest ==
    ASSUME LoopTypes, NEW sync \in Nat, NEW lead \in Nat, NEW retry \in Nat,
           NEW n \in DOMAIN ws, NEW x \in Nat, EarliestOf(x, n - 1, sync, lead, retry)
    PROVE  EarliestOf(WakeTurn(lead, retry, x, n), n, sync, lead, retry)
<1> DEFINE w == WakeFor(ws[n], moment, lead, retry)
           before == Wishes(n - 1, sync, lead, retry)
           after == Wishes(n, sync, lead, retry)
           waits == ~ws[n].displayed /\ ws[n].display > 0 /\ Live(ws[n], moment)
<1>1. /\ moment \in Nat /\ DOMAIN ws = 1..Len(ws) /\ n \in Nat
      /\ \A i \in DOMAIN ws : /\ i \in Nat /\ ws[i].display \in Nat
                              /\ ws[i].expires \in Nat
  BY LoopFacts
<1>2. w \in Nat /\ w > moment /\ w # 0
  <2>1. w \in Nat /\ w > moment
    BY WakeForIsAhead
  <2> HIDE DEF w
  <2> QED
    BY <1>1, <2>1
<1>3. \A t \in before : t \in Nat /\ t # 0
  BY WishesAreAhead
<1>4. \A i \in DOMAIN ws : i <= n <=> i <= n - 1 \/ i = n
  BY <1>1
<1>5. WakeTurn(lead, retry, x, n) = IF ~waits THEN x
                                    ELSE IF x = 0 \/ w < x THEN w ELSE x
  BY <1>1, SMTT(30) DEF WakeTurn, WakeFor, Live
<1>6. after = IF waits THEN before \cup {w} ELSE before
  <2>1. CASE waits
    <3>1. \A t : t \in after <=> t \in before \/ t = w
      BY <1>1, <1>4, <2>1 DEF Wishes
    <3> HIDE DEF after, before, w
    <3> QED
      BY <2>1, <3>1
  <2>2. CASE ~waits
    <3>1. \A i \in DOMAIN ws : ~ws[i].displayed /\ ws[i].display > 0 /\ Live(ws[i], moment)
                               => (i <= n <=> i <= n - 1)
      BY <1>4, <2>2
    <3>2. \A t : t \in after <=> t \in before
      BY <3>1 DEF Wishes
    <3> HIDE DEF after, before
    <3> QED
      BY <2>2, <3>2
  <2> QED
    BY <2>1, <2>2
<1>7. IF x = 0 THEN before = {} ELSE x \in before /\ \A t \in before : x <= t
  BY DEF EarliestOf
<1>8. EarliestOf(WakeTurn(lead, retry, x, n), n, sync, lead, retry)
        = (IF WakeTurn(lead, retry, x, n) = 0 THEN after = {}
           ELSE /\ WakeTurn(lead, retry, x, n) \in after
                /\ \A t \in after : WakeTurn(lead, retry, x, n) <= t)
  BY DEF EarliestOf
<1> HIDE DEF w, before, after, waits
<1>9. CASE ~waits
  BY <1>5, <1>6, <1>7, <1>8, <1>9
<1>10. CASE waits /\ (x = 0 \/ w < x)
  <2>1. WakeTurn(lead, retry, x, n) = w /\ after = before \cup {w}
    BY <1>5, <1>6, <1>10
  <2>2. \A t \in before : w <= t
    BY <1>2, <1>3, <1>7, <1>10
  <2> QED
    BY <1>2, <1>8, <2>1, <2>2
<1>11. CASE waits /\ ~(x = 0 \/ w < x)
  <2>1. WakeTurn(lead, retry, x, n) = x /\ after = before \cup {w} /\ x <= w
    BY <1>2, <1>5, <1>6, <1>11
  <2> QED
    BY <1>7, <1>8, <1>11, <2>1
<1> QED
  BY <1>9, <1>10, <1>11

LEMMA WakeLoopTakesEarliest ==
    ASSUME LoopTypes, NEW sync \in Nat, NEW lead \in Nat, NEW retry \in Nat
    PROVE  /\ WakeLoop(sync, lead, retry) \in Nat
           /\ EarliestOf(WakeLoop(sync, lead, retry), Len(ws), sync, lead, retry)
<1> DEFINE L == Len(ws)
           IsLoop(f) == f = [n \in 0..Len(ws) |->
                               IF n = 0 THEN (IF sync > moment THEN sync ELSE 0)
                               ELSE WakeTurn(lead, retry, f[n - 1], n)]
           u == CHOOSE f : IsLoop(f)
           turn == [n \in 1..L |-> [x \in Nat |-> WakeTurn(lead, retry, x, n)]]
<1> DEFINE start == IF sync > moment THEN sync ELSE 0
<1>1. L \in Nat /\ DOMAIN ws = 1..L /\ moment \in Nat
      /\ \A i \in DOMAIN ws : ws[i].display \in Nat
  BY LoopFacts
<1>2. start \in Nat /\ \A n \in 1..L, x \in Nat : WakeTurn(lead, retry, x, n) \in Nat
  BY <1>1 DEF WakeTurn
<1>3. PICK f \in [0..L -> Nat] : Turns(f, start, turn)
  <2>1. turn \in [1..L -> [Nat -> Nat]]
    BY <1>2
  <2> HIDE DEF turn, start
  <2> QED
    BY <1>2, <2>1, TurnsExist
<1>4. IsLoop(f)
  <2>1. \A n \in 0..L : n # 0 => n \in 1..L /\ n - 1 \in 0..L
    BY <1>1
  <2>2. \A n \in 1..L, x \in Nat : turn[n][x] = WakeTurn(lead, retry, x, n)
    OBVIOUS
  <2>3. \A n \in 0..L : n # 0 => f[n - 1] \in Nat
    BY <1>3, <2>1
  <2> HIDE DEF turn
  <2> QED
    BY <1>3, <2>1, <2>2, <2>3 DEF Turns
<1>5. IsLoop(u)
  BY <1>4, Zenon
<1>6. WakeLoop(sync, lead, retry) = u[L]
  BY Zenon DEF WakeLoop, Loop
<1> HIDE DEF u
<1>7. u[0] = start /\ \A n \in 1..L : u[n] = WakeTurn(lead, retry, u[n - 1], n)
  <2>1. 0 \in 0..L /\ \A n \in 1..L : n \in 0..L /\ n # 0
    BY <1>1
  <2> QED
    BY <1>5, <2>1
<1> DEFINE T == {n \in 0..L : u[n] \in Nat /\ EarliestOf(u[n], n, sync, lead, retry)}
<1>8. T = 0..L
  <2>1. 0 \in T
    <3>1. Wishes(0, sync, lead, retry) = {t \in {sync} : t > moment}
      BY <1>1 DEF Wishes
    <3>2. EarliestOf(start, 0, sync, lead, retry)
      BY <1>1, <3>1 DEF EarliestOf
    <3> HIDE DEF start
    <3> QED
      BY <1>1, <1>2, <1>7, <3>2
  <2>2. ASSUME NEW n \in 1..L, n - 1 \in T PROVE n \in T
    <3>1. u[n - 1] \in Nat /\ EarliestOf(u[n - 1], n - 1, sync, lead, retry) /\ n \in 0..L
      BY <1>1, <2>2
    <3>2. EarliestOf(WakeTurn(lead, retry, u[n - 1], n), n, sync, lead, retry)
      BY <1>1, <3>1, WakeTurnTakesEarliest
    <3> HIDE DEF start
    <3> QED
      BY <1>2, <1>7, <3>1, <3>2
  <2>3. T \in SUBSET (0..L)
    OBVIOUS
  <2> HIDE DEF T
  <2> QED
    BY <1>1, <2>1, <2>2, <2>3, Induction
<1>9. L \in 0..L
  BY <1>1
<1> QED
  BY <1>6, <1>8, <1>9

LEMMA WakeLoopSelects ==
    ASSUME LoopTypes, NEW sync \in Nat, NEW lead \in Nat, NEW retry \in Nat
    PROVE  WakeLoop(sync, lead, retry) = NextWake(ws, moment, sync, lead, retry)
<1> DEFINE all == Wishes(Len(ws), sync, lead, retry)
<1>1. PICK x \in Nat : /\ x = WakeLoop(sync, lead, retry)
                       /\ EarliestOf(x, Len(ws), sync, lead, retry)
  BY WakeLoopTakesEarliest
<1>2. \A i \in DOMAIN ws : i <= Len(ws)
  BY LoopFacts
<1>3. all = {WakeFor(ws[i], moment, lead, retry) :
               i \in {i \in DOMAIN ws : /\ ~ws[i].displayed /\ ws[i].display > 0
                                        /\ Live(ws[i], moment)}}
              \cup {t \in {sync} : t > moment}
  <2>1. {i \in DOMAIN ws : /\ ~ws[i].displayed /\ ws[i].display > 0
                           /\ Live(ws[i], moment) /\ i <= Len(ws)}
          = {i \in DOMAIN ws : ~ws[i].displayed /\ ws[i].display > 0 /\ Live(ws[i], moment)}
    BY <1>2
  <2> QED
    BY <2>1, Zenon DEF Wishes
<1> HIDE DEF all
<1>4. NextWake(ws, moment, sync, lead, retry) = IF all = {} THEN 0 ELSE Earliest(all)
  BY <1>3, Zenon DEF NextWake
<1>5. IF x = 0 THEN all = {} ELSE x \in all /\ \A t \in all : x <= t
  BY <1>1 DEF EarliestOf, all
<1>6. \A t \in all : t \in Nat
  BY WishesAreAhead DEF all
<1>7. x # 0 => Earliest(all) = x
  <2> HAVE x # 0
  <2>1. x \in all /\ \A t \in all : x <= t
    BY <1>5
  <2>2. \A y \in all : (\A t \in all : y <= t) => y = x
    BY <1>6, <2>1
  <2> QED
    BY <2>1, <2>2, Zenon DEF Earliest
<1> QED
  BY <1>1, <1>4, <1>5, <1>7

-----------------------------------------------------------------------------
(* The theorems about the loops *)

LEMMA LoopInvariant == LoopsSpec => []LoopTypes
<1>1. LoopsInit => LoopTypes
  <2>1. 0 \in Moments /\ <<>> \in Seq(LoopWindows)
    BY MaxMomentIsNat DEF Moments
  <2> QED
    BY <2>1 DEF LoopsInit, LoopTypes
<1>2. LoopTypes /\ [LoopsNext]_loopVars => LoopTypes'
  <2> SUFFICES ASSUME LoopTypes, [LoopsNext]_loopVars PROVE LoopTypes'
    OBVIOUS
  <2>1. CASE Extend
    BY <2>1 DEF Extend, LoopTypes
  <2>2. CASE Tick
    BY <2>2, MaxMomentIsNat DEF Tick, LoopTypes, Moments
  <2>3. CASE UNCHANGED loopVars
    BY <2>3 DEF loopVars, LoopTypes
  <2> QED
    BY <2>1, <2>2, <2>3 DEF LoopsNext
<1> QED
  BY <1>1, <1>2, PTL DEF LoopsSpec

\* For manifests of any length and any times, each loop of
\* scheduled_push_policy.h returns what SchedulePolicy says.
THEOREM LoopsCompute == LoopsSpec => []LoopsAgree
<1>1. ASSUME LoopTypes PROVE LoopsAgree
  <2>1. Moments \subseteq Nat /\ Lengths \subseteq Nat
    BY MaxMomentIsNat DEF Moments, Lengths
  <2>2. DueLoop = SelectDue(ws, moment)
    BY <1>1, DueLoopSelects
  <2>3. \A wait \in Lengths : ImminentLoop(wait) = SelectImminent(ws, moment, wait)
    BY <1>1, <2>1, ImminentLoopSelects
  <2>4. \A i \in DOMAIN ws : SuppressLoop(i) = SuppressOlder(ws, i, moment)
    BY <1>1, SuppressLoopSettles
  <2>5. \A sync \in Moments, lead, retry \in Lengths :
           WakeLoop(sync, lead, retry) = NextWake(ws, moment, sync, lead, retry)
    BY <1>1, <2>1, WakeLoopSelects
  <2> QED
    BY <2>2, <2>3, <2>4, <2>5 DEF LoopsAgree
<1> QED
  BY <1>1, LoopInvariant, PTL

\* Whatever was due together, showing the card the loops choose settles it all.
THEOREM BacklogIsSettled == LoopsSpec => []BacklogSettled
<1>1. ASSUME LoopTypes PROVE BacklogSettled
  <2>1. PICK s \in Nat : s = DueLoop /\ LatestOf(s, Len(ws))
    BY <1>1, DueLoopTakesLatest
  <2>2. /\ DOMAIN ws = 1..Len(ws) /\ Len(ws) \in Nat /\ moment \in Nat
        /\ \A i \in DOMAIN ws : /\ i <= Len(ws) /\ ws[i] \in LoopWindows
                                /\ ws[i].display \in Nat /\ ws[i].displayed \in BOOLEAN
    BY <1>1, LoopFacts
  <2>3. ASSUME s # 0
        PROVE  SelectDue([SuppressLoop(s) EXCEPT ![s].displayed = TRUE], moment) = 0
    <3> DEFINE older == SuppressOlder(ws, s, moment)
               after == [older EXCEPT ![s].displayed = TRUE]
    <3>1. s \in DOMAIN ws /\ \A k \in DOMAIN ws :
             Due(ws[k], moment) => ws[k].display <= ws[s].display
      BY <2>1, <2>2, <2>3 DEF LatestOf
    <3>2. SuppressLoop(s) = older
      BY <1>1, <3>1, SuppressLoopSettles
    <3>3. DOMAIN older = DOMAIN ws
      BY DEF SuppressOlder
    <3>4. \A i \in DOMAIN ws : older[i] = [ws[i] EXCEPT !.displayed =
                @ \/ (i # s /\ Due(ws[i], moment) /\ ws[i].display <= ws[s].display)]
      BY DEF SuppressOlder
    <3>5. \A i \in DOMAIN ws : ~Due(after[i], moment)
      <4> TAKE i \in DOMAIN ws
      <4> HIDE DEF older
      <4>1. CASE i = s
        <5>1. after[s] = [older[s] EXCEPT !.displayed = TRUE]
          BY <3>1, <3>3
        <5>2. older[s] = [ws[s] EXCEPT !.displayed = ws[s].displayed]
          BY <2>2, <3>1, <3>4
        <5>3. after[s].displayed
          BY <2>2, <3>1, <5>1, <5>2 DEF LoopWindows
        <5> QED
          BY <4>1, <5>3 DEF Due
      <4>2. CASE i # s /\ Due(ws[i], moment)
        <5>1. after[i] = older[i]
          BY <3>3, <4>2
        <5>2. older[i] = [ws[i] EXCEPT !.displayed = TRUE]
          BY <3>1, <3>4, <4>2
        <5>3. after[i].displayed
          BY <2>2, <5>1, <5>2 DEF LoopWindows
        <5> QED
          BY <5>3 DEF Due
      <4>3. CASE i # s /\ ~Due(ws[i], moment)
        <5>1. after[i] = older[i]
          BY <3>3, <4>3
        <5>2. older[i] = [ws[i] EXCEPT !.displayed = ws[i].displayed]
          BY <2>2, <3>4, <4>3
        <5>3. after[i] = ws[i]
          BY <2>2, <5>1, <5>2 DEF LoopWindows
        <5> QED
          BY <4>3, <5>3
      <4> QED
        BY <4>1, <4>2, <4>3
    <3>6. DOMAIN after = DOMAIN ws
      BY <3>3
    <3> HIDE DEF older, after
    <3>7. SelectDue(after, moment) = 0
      BY <3>5, <3>6 DEF SelectDue
    <3> QED
      BY <3>2, <3>7 DEF after
  <2> QED
    BY <2>1, <2>3 DEF BacklogSettled
<1> QED
  BY <1>1, LoopInvariant, PTL

\* The loop's wake time is ahead, and never after a waiting window's.
THEOREM LoopWakesInTime == LoopsSpec => []WakesInTime
<1>1. ASSUME LoopTypes PROVE WakesInTime
  <2> SUFFICES ASSUME NEW sync \in Moments, NEW retry \in Lengths \ {0}
               PROVE  LET wake == WakeLoop(sync, 0, retry)
                      IN  /\ wake = 0 \/ wake > moment
                          /\ \A i \in DOMAIN ws :
                                (~ws[i].displayed /\ ws[i].display > moment
                                   /\ Live(ws[i], moment))
                                  => wake # 0 /\ wake <= ws[i].display
                          /\ (sync = 0 /\ \A i \in DOMAIN ws : ws[i].displayed) => wake = 0
    BY Zenon DEF WakesInTime
  <2>1. sync \in Nat /\ retry \in Nat /\ 0 \in Nat
    BY MaxMomentIsNat DEF Moments, Lengths
  <2> DEFINE all == Wishes(Len(ws), sync, 0, retry)
  <2>2. PICK x \in Nat : x = WakeLoop(sync, 0, retry)
                         /\ EarliestOf(x, Len(ws), sync, 0, retry)
    BY <1>1, <2>1, WakeLoopTakesEarliest
  <2>3. IF x = 0 THEN all = {} ELSE x \in all /\ \A t \in all : x <= t
    BY <2>2 DEF EarliestOf
  <2>4. \A t \in all : t \in Nat /\ t > moment
    BY <1>1, <2>1, WishesAreAhead
  <2>5. moment \in Nat /\ \A i \in DOMAIN ws : i <= Len(ws) /\ ws[i].display \in Nat
    BY <1>1, LoopFacts
  <2>6. ASSUME NEW i \in DOMAIN ws, ~ws[i].displayed, ws[i].display > moment,
               Live(ws[i], moment)
        PROVE  ws[i].display \in all
    <3>1. WakeFor(ws[i], moment, 0, retry) = ws[i].display
      BY <2>1, <2>5, <2>6 DEF WakeFor
    <3>2. ws[i].display > 0 /\ i <= Len(ws)
      BY <2>5, <2>6
    <3> QED
      BY <2>6, <3>1, <3>2 DEF Wishes
  <2>7. sync = 0 /\ (\A i \in DOMAIN ws : ws[i].displayed) => all = {}
    BY <2>5 DEF Wishes
  <2> HIDE DEF all
  <2> QED
    BY <2>2, <2>3, <2>4, <2>5, <2>6, <2>7
<1> QED
  BY <1>1, LoopInvariant, PTL

-----------------------------------------------------------------------------
(* The manifest file on the SD card *)

FileInv == FileTypeOK /\ NoTornGeneration /\ StepFacts

USE DEF Content, LoadSteps, WriteSteps, Valid, files

\* The initial state satisfies the inductive invariant.
LEMMA FileInitHolds == ASSUME FileInit PROVE FileInv
  BY SentinelsAreDistinct
     DEF FileInit, FileInv, FileTypeOK, NoTornGeneration, StepFacts

\* Every file operation, successful or not, and every power loss preserves it.
LEMMA FileNextKeeps == ASSUME FileInv, [FileNext]_fileVars PROVE FileInv'
<1> USE SentinelsAreDistinct
    DEF FileInv, FileTypeOK, NoTornGeneration, StepFacts
<1>1. CASE LoadActive
  BY <1>1 DEF LoadActive
<1>2. CASE LoadBackup
  BY <1>2 DEF LoadBackup
<1>3. CASE RestoreRemovesActive
  BY <1>3 DEF RestoreRemovesActive
<1>4. CASE RestoreRenamesBackup
  BY <1>4 DEF RestoreRenamesBackup
<1>5. ASSUME NEW m \in Manifests, OpenTemp(m) PROVE FileInv'
  BY <1>5 DEF OpenTemp
<1>6. CASE WriteTemp
  BY <1>6 DEF WriteTemp
<1>7. CASE RemoveBackup
  BY <1>7 DEF RemoveBackup
<1>8. CASE ShelveActive
  BY <1>8 DEF ShelveActive
<1>9. CASE Publish
  BY <1>9 DEF Publish, Done
<1>10. CASE PublishFails
  BY <1>10 DEF PublishFails
<1>11. CASE Rollback
  BY <1>11 DEF Rollback
<1>12. CASE DiscardTemp
  BY <1>12 DEF DiscardTemp, Done
<1>13. CASE PowerLoss
  BY <1>13 DEF PowerLoss
<1>14. CASE UNCHANGED fileVars
  BY <1>14 DEF fileVars
<1>15. QED
  BY <1>1, <1>2, <1>3, <1>4, <1>5, <1>6, <1>7, <1>8, <1>9, <1>10, <1>11,
     <1>12, <1>13, <1>14 DEF FileNext, Load, Write

LEMMA FileInvariant == FileSpec => []FileInv
<1>1. FileInit => FileInv
  BY FileInitHolds
<1>2. FileInv /\ [FileNext]_fileVars => FileInv'
  BY FileNextKeeps
<1> QED
  BY <1>1, <1>2, PTL DEF FileSpec

\* Types hold in every reachable state.
THEOREM FileTyped == FileSpec => []FileTypeOK
<1>1. FileInv => FileTypeOK
  BY DEF FileInv
<1>2. FileSpec => []FileInv
  BY FileInvariant
<1> QED
  BY <1>1, <1>2, PTL

\* A torn file never carries the active or the backup name.
THEOREM NeverTorn == FileSpec => []NoTornGeneration
<1>1. FileInv => NoTornGeneration
  BY DEF FileInv
<1>2. FileSpec => []FileInv
  BY FileInvariant
<1> QED
  BY <1>1, <1>2, PTL

-----------------------------------------------------------------------------
(* Refinement of the atomic register *)

\* The empty card is the empty register.
LEMMA InitRefines == ASSUME FileInit PROVE Register!AInit
  BY SentinelsAreDistinct DEF FileInit, Register!AInit, Recovered, Older

\* Each file operation is a step of the register or leaves it alone.
LEMMA StepRefines ==
    ASSUME FileInv, [FileNext]_fileVars
    PROVE  [Register!ANext]_(Register!avars)
<1> SUFFICES Register!ANext \/ UNCHANGED Register!avars
  OBVIOUS
<1> USE SentinelsAreDistinct
    DEF FileInv, FileTypeOK, NoTornGeneration, StepFacts,
        Recovered, Older, Register!avars
<1>1. CASE LoadActive
  <2>1. CASE Valid(active) /\ pc' = "idle"
    BY <1>1, <2>1 DEF LoadActive, Register!ANext, Register!ALoad
  <2>2. CASE Valid(active) /\ pc' = "load_backup"
    BY <1>1, <2>2 DEF LoadActive, Register!ANext, Register!AMisread
  <2>3. CASE ~Valid(active)
    BY <1>1, <2>3 DEF LoadActive
  <2>4. QED BY <1>1, <2>1, <2>2, <2>3 DEF LoadActive
<1>2. CASE LoadBackup
  <2>1. CASE pc' = "remove_active"
    BY <1>2, <2>1 DEF LoadBackup
  <2>2. CASE pc' = "idle"
    BY <1>2, <2>2 DEF LoadBackup, Register!ANext, Register!ALoad
  <2>3. QED BY <1>2, <2>1, <2>2 DEF LoadBackup
<1>3. CASE RestoreRemovesActive
  <2>1. CASE active # Absent /\ active' = Absent
    BY <1>3, <2>1 DEF RestoreRemovesActive, Register!ANext, Register!ARollBack
  <2>2. CASE active' = active
    BY <1>3, <2>2 DEF RestoreRemovesActive
  <2>3. QED BY <1>3, <2>1, <2>2 DEF RestoreRemovesActive
<1>4. CASE RestoreRenamesBackup
  BY <1>4 DEF RestoreRenamesBackup, Register!ANext, Register!ALoad
<1>5. ASSUME NEW m \in Manifests, OpenTemp(m) PROVE Register!ANext
  BY <1>5 DEF OpenTemp, Register!ANext, Register!ABegin
<1>6. CASE WriteTemp
  BY <1>6 DEF WriteTemp
<1>7. CASE RemoveBackup
  BY <1>7 DEF RemoveBackup, Register!ANext, Register!AForget
<1>8. CASE ShelveActive
  <2>1. CASE active' = active /\ backup' = backup
    BY <1>8, <2>1 DEF ShelveActive
  <2>2. CASE active' = Absent /\ backup' = active
    BY <1>8, <2>2 DEF ShelveActive, Register!ANext, Register!AForget
  <2>3. QED BY <1>8, <2>1, <2>2 DEF ShelveActive
<1>9. CASE Publish
  BY <1>9 DEF Publish, Done, Register!ANext, Register!ACommit
<1>10. CASE PublishFails
  BY <1>10 DEF PublishFails
<1>11. CASE Rollback
  BY <1>11 DEF Rollback
<1>12. CASE DiscardTemp
  BY <1>12 DEF DiscardTemp, Done, Register!ANext, Register!AAbort
<1>13. CASE PowerLoss
  BY <1>13 DEF PowerLoss, Register!ANext, Register!APowerLoss
<1>14. CASE UNCHANGED fileVars
  BY <1>14 DEF fileVars
<1>15. QED
  BY <1>1, <1>2, <1>3, <1>4, <1>5, <1>6, <1>7, <1>8, <1>9, <1>10, <1>11,
     <1>12, <1>13, <1>14 DEF FileNext, Load, Write

\* The file protocol implements the register of generations, failing reads
\* included.
THEOREM WriteIsAtomic == FileSpec => AtomicWrite
<1>1. FileInit => Register!AInit
  BY InitRefines
<1>2. FileInv /\ [FileNext]_fileVars => [Register!ANext]_(Register!avars)
  BY StepRefines
<1>3. FileSpec => []FileInv
  BY FileInvariant
<1> QED
  BY <1>1, <1>2, <1>3, PTL DEF FileSpec, AtomicWrite, Register!ASpec
=============================================================================
