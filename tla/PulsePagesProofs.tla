-------------------------- MODULE PulsePagesProofs --------------------------
(***************************************************************************)
(* ScheduledPush and PulsePages, for any cards, generations, manifests,    *)
(* times and number of factory resets: what their run checks.              *)
(***************************************************************************)
EXTENDS PulsePages, SequenceTheorems, WellFoundedInduction, TLAPS

-----------------------------------------------------------------------------
(* Going through a sequence: induction by the least counterexample *)

\* Every non-empty set of naturals has a least element.
LEMMA Least ==
    ASSUME NEW T \in SUBSET Nat, T # {}
    PROVE  \E x \in T : \A y \in T : x <= y
<1> DEFINE Below == {p \in Nat \X Nat : p[1] < p[2]}
<1>1. IsWellFoundedOn(Below, Nat)
  BY NatLessThanWellFounded DEF OpToRel
<1>2. PICK x \in T : \A y \in T : ~ (<<y, x>> \in Below)
  BY <1>1, WFMin, Zenon
<1>3. \A y \in T : <<y, x>> \in Nat \X Nat /\ <<y, x>>[1] = y /\ <<y, x>>[2] = x
  OBVIOUS
<1>4. \A y \in T : ~ (y < x)
  BY <1>2, <1>3
<1> QED
  BY <1>4

\* What holds of 0 and passes from each index to the next holds up to n.
LEMMA Induction ==
    ASSUME NEW n \in Nat, NEW T \in SUBSET (0..n), 0 \in T,
           \A i \in 1..n : i - 1 \in T => i \in T
    PROVE  T = 0..n
<1> SUFFICES ASSUME (0..n) \ T # {} PROVE FALSE
  OBVIOUS
<1>1. PICK x \in (0..n) \ T : \A y \in (0..n) \ T : x <= y
  <2>1. (0..n) \ T \in SUBSET Nat
    OBVIOUS
  <2> QED
    BY <2>1, Least
<1>2. x # 0 /\ x \in 1..n /\ x - 1 \in 0..n
  OBVIOUS
<1>3. x - 1 \in T
  BY <1>1, <1>2
<1> QED
  BY <1>2, <1>3

\* A loop of n turns has a value after each of them.
LEMMA LoopValues ==
    ASSUME NEW S, NEW start \in S, NEW n \in Nat, NEW turn \in [1..n -> [S -> S]]
    PROVE  \E f \in [0..n -> S] : /\ f[0] = start
                                  /\ \A i \in 1..n : f[i] = turn[i][f[i - 1]]
<1> DEFINE T == {m \in 0..n : \E f \in [0..m -> S] :
                    f[0] = start /\ \A i \in 1..m : f[i] = turn[i][f[i - 1]]}
<1>1. 0 \in T
  <2> DEFINE g == [i \in 0..0 |-> start]
  <2>1. g \in [0..0 -> S] /\ g[0] = start /\ \A i \in 1..0 : g[i] = turn[i][g[i - 1]]
    OBVIOUS
  <2>2. \E f \in [0..0 -> S] :
           f[0] = start /\ \A i \in 1..0 : f[i] = turn[i][f[i - 1]]
    BY <2>1, Zenon
  <2> QED
    BY <2>2
<1>2. ASSUME NEW m \in 1..n, m - 1 \in T PROVE m \in T
  <2>1. PICK f \in [0..m - 1 -> S] :
           f[0] = start /\ \A i \in 1..m - 1 : f[i] = turn[i][f[i - 1]]
    BY <1>2
  <2> DEFINE g == [i \in 0..m |-> IF i = m THEN turn[m][f[m - 1]] ELSE f[i]]
  <2>2. turn[m][f[m - 1]] \in S
    OBVIOUS
  <2>3. g \in [0..m -> S]
    BY <2>2
  <2>4. g[0] = start
    BY <2>1
  <2>5. \A i \in 1..m : g[i] = turn[i][g[i - 1]]
    BY <2>1
  <2> HIDE DEF g
  <2>6. \E h \in [0..m -> S] :
           h[0] = start /\ \A i \in 1..m : h[i] = turn[i][h[i - 1]]
    BY <2>3, <2>4, <2>5, Zenon
  <2>7. m \in 0..n
    OBVIOUS
  <2> QED
    BY <2>6, <2>7, Zenon
<1> HIDE DEF T
<1>3. T \in SUBSET (0..n)
  BY DEF T
<1>4. T = 0..n
  BY <1>1, <1>2, <1>3, Induction
<1> QED
  BY <1>4, SMTT(30) DEF T

-----------------------------------------------------------------------------
(* Lemmas about the operators of SchedulePolicy *)

\* The loop in Unexpired goes through every window: its value after each turn.
LEMMA UnexpiredTurns ==
    ASSUME NEW S, NEW ws \in Seq(S), NEW t
    PROVE  \E f : /\ Unexpired(ws, t) = f[Len(ws)]
                  /\ f[0] = <<>>
                  /\ \A i \in 1..Len(ws) :
                        f[i] = IF Live(ws[i], t) THEN Append(f[i - 1], ws[i])
                                                 ELSE f[i - 1]
<1> DEFINE next(i, x) == IF Live(ws[i], t) THEN Append(x, ws[i]) ELSE x
           turn == [i \in 1..Len(ws) |-> [x \in Seq(S) |-> next(i, x)]]
           Q == Seq(S)
           n == Len(ws)
           e == <<>>
           IsLoop(f) == f = [i \in 0..Len(ws) |->
                               IF i = 0 THEN <<>>
                               ELSE IF Live(ws[i], t) THEN Append(f[i - 1], ws[i])
                               ELSE f[i - 1]]
           u == CHOOSE f : IsLoop(f)
<1>1. Len(ws) \in Nat /\ \A i \in 1..Len(ws) : ws[i] \in S
  OBVIOUS
<1>2. \A i \in 1..Len(ws), x \in Seq(S) : next(i, x) \in Seq(S)
  BY <1>1
<1> HIDE DEF next
<1>3. turn \in [1..Len(ws) -> [Seq(S) -> Seq(S)]]
  BY <1>2
<1>4. \A i \in 1..Len(ws), x \in Seq(S) : turn[i][x] = next(i, x)
  OBVIOUS
<1> HIDE DEF turn
<1>5. \E f \in [0..n -> Q] : f[0] = e /\ \A i \in 1..n : f[i] = turn[i][f[i - 1]]
  <2>1. e \in Q /\ n \in Nat /\ turn \in [1..n -> [Q -> Q]]
    BY <1>1, <1>3
  <2> HIDE DEF Q, n, e
  <2> QED
    BY <2>1, LoopValues
<1>6. PICK f \in [0..Len(ws) -> Seq(S)] :
         f[0] = <<>> /\ \A i \in 1..Len(ws) : f[i] = turn[i][f[i - 1]]
  BY <1>5
<1>7. \A i \in 1..Len(ws) : f[i] = next(i, f[i - 1])
  BY <1>4, <1>6, SMTT(30)
<1>8. IsLoop(f)
  <2>1. \A i \in 1..Len(ws) : f[i] = IF Live(ws[i], t) THEN Append(f[i - 1], ws[i])
                                                       ELSE f[i - 1]
    BY <1>7 DEF next
  <2>2. \A i \in 0..Len(ws) :
           f[i] = IF i = 0 THEN <<>>
                  ELSE IF Live(ws[i], t) THEN Append(f[i - 1], ws[i])
                  ELSE f[i - 1]
    <3> TAKE i \in 0..Len(ws)
    <3>1. CASE i = 0
      BY <3>1, <1>6
    <3>2. CASE i # 0
      <4>1. i \in 1..Len(ws)
        BY <3>2, <1>1
      <4> QED
        BY <4>1, <3>2, <2>1
    <3> QED
      BY <3>1, <3>2
  <2> QED
    BY <2>2
<1>9. IsLoop(u)
  BY <1>8, Zenon
<1>10. Unexpired(ws, t) = u[Len(ws)]
  BY Zenon DEF Unexpired
<1> HIDE DEF u
<1>11. u[0] = <<>>
  BY <1>1, <1>9
<1>12. \A i \in 1..Len(ws) : u[i] = IF Live(ws[i], t) THEN Append(u[i - 1], ws[i])
                                                      ELSE u[i - 1]
  <2>1. \A i \in 1..Len(ws) : i \in 0..Len(ws) /\ i # 0
    BY <1>1
  <2> QED
    BY <2>1, <1>9
<1> QED
  BY <1>10, <1>11, <1>12

\* What is left are windows of the sequence, live and in their order.
LEMMA UnexpiredAreLive ==
    ASSUME NEW S, NEW ws \in Seq(S), NEW t
    PROVE  /\ Unexpired(ws, t) \in Seq(S)
           /\ \A k \in DOMAIN Unexpired(ws, t) :
                 \E i \in DOMAIN ws : Unexpired(ws, t)[k] = ws[i] /\ Live(ws[i], t)
           /\ \A k, l \in DOMAIN Unexpired(ws, t) : k < l =>
                 \E i, j \in DOMAIN ws : i < j /\ Unexpired(ws, t)[k] = ws[i]
                                               /\ Unexpired(ws, t)[l] = ws[j]
<1> DEFINE Kept(s, n) == \A k \in DOMAIN s : \E i \in 1..n : s[k] = ws[i] /\ Live(ws[i], t)
           Ordered(s, n) == \A k, l \in DOMAIN s : k < l =>
                 \E i, j \in 1..n : i < j /\ s[k] = ws[i] /\ s[l] = ws[j]
           Good(s, n) == s \in Seq(S) /\ Kept(s, n) /\ Ordered(s, n)
<1>1. PICK f : /\ Unexpired(ws, t) = f[Len(ws)]
               /\ f[0] = <<>>
               /\ \A i \in 1..Len(ws) :
                     f[i] = IF Live(ws[i], t) THEN Append(f[i - 1], ws[i])
                                              ELSE f[i - 1]
  BY UnexpiredTurns
<1>2. Len(ws) \in Nat /\ DOMAIN ws = 1..Len(ws) /\ \A i \in 1..Len(ws) : ws[i] \in S
  OBVIOUS
<1>3. Good(<<>>, 0)
  OBVIOUS
<1>4. ASSUME NEW s, NEW n \in 1..Len(ws), Good(s, n - 1), Live(ws[n], t)
      PROVE  Good(Append(s, ws[n]), n)
  <2> DEFINE more == Append(s, ws[n])
  <2>1. /\ more \in Seq(S)
        /\ DOMAIN more = 1..(Len(s) + 1)
        /\ \A k \in 1..Len(s) : more[k] = s[k]
        /\ more[Len(s) + 1] = ws[n]
    BY <1>2, <1>4, AppendProperties, LenProperties
  <2>2. Len(s) \in Nat /\ DOMAIN s = 1..Len(s)
    BY <1>4, LenProperties
  <2>3. \A i \in 1..n - 1 : i \in 1..n /\ i < n
    BY <1>2
  <2> HIDE DEF more
  <2>4. Kept(more, n)
    <3> TAKE k \in DOMAIN more
    <3>1. CASE k \in 1..Len(s)
      <4>1. PICK i \in 1..n - 1 : s[k] = ws[i] /\ Live(ws[i], t)
        BY <3>1, <2>2, <1>4
      <4> QED
        BY <3>1, <4>1, <2>1, <2>3
    <3>2. CASE k = Len(s) + 1
      BY <3>2, <2>1, <1>2, <1>4
    <3> QED
      BY <2>1, <2>2, <3>1, <3>2
  <2>5. Ordered(more, n)
    <3> SUFFICES ASSUME NEW k \in DOMAIN more, NEW l \in DOMAIN more, k < l
                 PROVE  \E i, j \in 1..n : i < j /\ more[k] = ws[i] /\ more[l] = ws[j]
      OBVIOUS
    <3>1. k \in 1..Len(s)
      BY <2>1, <2>2
    <3>2. CASE l \in 1..Len(s)
      BY <3>1, <3>2, <2>1, <2>2, <2>3, <1>4, SMTT(30)
    <3>3. CASE l = Len(s) + 1
      <4>1. PICK i \in 1..n - 1 : more[k] = ws[i]
        BY <3>1, <2>1, <2>2, <1>4
      <4>2. more[l] = ws[n] /\ n \in 1..n
        BY <3>3, <2>1, <1>2
      <4> QED
        BY <4>1, <4>2, <2>3
    <3> QED
      BY <2>1, <2>2, <3>2, <3>3
  <2> QED
    BY <2>1, <2>4, <2>5 DEF more
<1>5. ASSUME NEW s, NEW n \in 1..Len(ws), Good(s, n - 1) PROVE Good(s, n)
  <2>1. \A i \in 1..n - 1 : i \in 1..n
    BY <1>2
  <2> QED
    BY <1>5, <2>1
<1> HIDE DEF Good
<1> DEFINE T == {i \in 0..Len(ws) : Good(f[i], i)}
<1>6. T = 0..Len(ws)
  <2>1. 0 \in T
    BY <1>1, <1>2, <1>3
  <2>2. ASSUME NEW i \in 1..Len(ws), i - 1 \in T PROVE i \in T
    <3>1. Good(f[i - 1], i - 1)
      BY <2>2
    <3>2. CASE Live(ws[i], t)
      BY <3>1, <3>2, <1>1, <1>2, <1>4
    <3>3. CASE ~Live(ws[i], t)
      BY <3>1, <3>3, <1>1, <1>2, <1>5
    <3> QED
      BY <3>2, <3>3
  <2>3. T \in SUBSET (0..Len(ws))
    OBVIOUS
  <2> HIDE DEF T
  <2> QED
    BY <2>1, <2>2, <2>3, <1>2, Induction
<1>7. Good(Unexpired(ws, t), Len(ws))
  BY <1>1, <1>2, <1>6
<1> DEFINE U == Unexpired(ws, t)
<1>8. U \in Seq(S) /\ Kept(U, Len(ws)) /\ Ordered(U, Len(ws))
  BY <1>7 DEF Good
<1> HIDE DEF U
<1>9. \A k \in DOMAIN U : \E i \in DOMAIN ws : U[k] = ws[i] /\ Live(ws[i], t)
  BY <1>2, <1>8
<1>10. \A k, l \in DOMAIN U : k < l =>
          \E i, j \in DOMAIN ws : i < j /\ U[k] = ws[i] /\ U[l] = ws[j]
  <2> SUFFICES ASSUME NEW k \in DOMAIN U, NEW l \in DOMAIN U, k < l
               PROVE  \E i, j \in DOMAIN ws : i < j /\ U[k] = ws[i] /\ U[l] = ws[j]
    OBVIOUS
  <2>1. \E i, j \in 1..Len(ws) : i < j /\ U[k] = ws[i] /\ U[l] = ws[j]
    BY <1>8, Zenon
  <2> QED
    BY <2>1, <1>2, Zenon
<1> QED
  BY <1>8, <1>9, <1>10 DEF U

\* Among the indexes of values that are bounded there is the last of those with
\* the greatest value.
LEMMA LastGreatest ==
    ASSUME NEW n \in Nat, NEW I \in SUBSET (1..n), I # {},
           NEW d, \A i \in I : d[i] \in Int, NEW b \in Int, \A i \in I : d[i] <= b
    PROVE  \E i \in I : \A k \in I : d[k] < d[i] \/ (d[k] = d[i] /\ k <= i)
<1> DEFINE Gaps == {b - d[i] : i \in I}
<1>1. PICK gap \in Gaps : \A other \in Gaps : gap <= other
  <2>1. \A i \in I : b - d[i] \in Nat
    OBVIOUS
  <2>2. Gaps \in SUBSET Nat /\ Gaps # {}
    BY <2>1, Zenon
  <2> HIDE DEF Gaps
  <2> QED
    BY <2>2, Least
<1>2. PICK best \in I : gap = b - d[best]
  OBVIOUS
<1>3. \A k \in I : d[k] <= d[best]
  <2> TAKE k \in I
  <2>1. gap <= b - d[k]
    BY <1>1
  <2> QED
    BY <2>1, <1>2
<1> DEFINE Ties == {i \in I : d[i] = d[best]}
           Backwards == {n - i : i \in Ties}
<1>4. PICK back \in Backwards : \A other \in Backwards : back <= other
  <2>1. best \in Ties /\ \A i \in Ties : n - i \in Nat
    OBVIOUS
  <2> HIDE DEF Ties
  <2>2. Backwards \in SUBSET Nat /\ Backwards # {}
    BY <2>1, Zenon
  <2> HIDE DEF Backwards
  <2> QED
    BY <2>2, Least
<1>5. PICK last \in Ties : back = n - last
  OBVIOUS
<1>6. \A k \in Ties : k <= last
  <2> TAKE k \in Ties
  <2>1. n - k \in Backwards
    OBVIOUS
  <2>2. n - last <= n - k
    BY <2>1, <1>4, <1>5
  <2>3. \A x, y, z \in Int : x - y <= x - z => z <= y
    OBVIOUS
  <2>4. n \in Int /\ last \in Int /\ k \in Int
    OBVIOUS
  <2> QED
    BY <2>2, <2>3, <2>4, Zenon
<1> QED
  BY <1>3, <1>5, <1>6

\* select_due_job answers with the index of a due window, if it has one.
LEMMA SelectedIsDue ==
    ASSUME NEW ws \in Seq(Windows), NEW t \in Int, SelectDue(ws, t) # 0
    PROVE  SelectDue(ws, t) \in DOMAIN ws /\ Due(ws[SelectDue(ws, t)], t)
<1> DEFINE ready == {i \in DOMAIN ws : Due(ws[i], t)}
           Best(i) == \A k \in ready : \/ ws[k].display < ws[i].display
                                       \/ ws[k].display = ws[i].display /\ k <= i
<1>1. ready # {}
  BY DEF SelectDue
<1>2. SelectDue(ws, t) = CHOOSE i \in ready : Best(i)
  BY <1>1 DEF SelectDue
<1>3. \E i \in ready : Best(i)
  <2> DEFINE d == [i \in DOMAIN ws |-> ws[i].display]
  <2>1. Len(ws) \in Nat /\ DOMAIN ws = 1..Len(ws) /\ ready \in SUBSET (1..Len(ws))
    OBVIOUS
  <2>2. \A i \in ready : d[i] = ws[i].display /\ d[i] \in Int /\ d[i] <= t
    <3> TAKE i \in ready
    <3>1. ws[i] \in Windows /\ Due(ws[i], t)
      OBVIOUS
    <3> QED
      BY <3>1 DEF Windows, Due
  <2>3. \A i \in ready : d[i] \in Int /\ d[i] <= t
    BY <2>2
  <2> HIDE DEF ready, d
  <2>4. \E i \in ready : \A k \in ready : d[k] < d[i] \/ (d[k] = d[i] /\ k <= i)
    BY <1>1, <2>1, <2>3, LastGreatest
  <2> QED
    BY <2>2, <2>4
<1>4. (CHOOSE i \in ready : Best(i)) \in ready
  BY <1>3, Zenon
<1> QED
  BY <1>2, <1>4

\* The same window, whatever its flag.
SameWindow(v, w) == v.id = w.id /\ v.display = w.display /\ v.expires = w.expires

\* suppress_older_due_jobs sets flags and changes nothing else.
LEMMA SuppressOlderFacts ==
    ASSUME NEW ws \in Seq(Windows), NEW selected, NEW t \in Int
    PROVE  /\ SuppressOlder(ws, selected, t) \in Seq(Windows)
           /\ DOMAIN SuppressOlder(ws, selected, t) = DOMAIN ws
           /\ \A i \in DOMAIN ws :
                 /\ SameWindow(SuppressOlder(ws, selected, t)[i], ws[i])
                 /\ ws[i].displayed => SuppressOlder(ws, selected, t)[i].displayed
<1>1. Len(ws) \in Nat /\ DOMAIN ws = 1..Len(ws) /\ \A i \in 1..Len(ws) : ws[i] \in Windows
  OBVIOUS
<1> DEFINE flag(i) == ws[i].displayed \/ (i # selected /\ Due(ws[i], t)
                         /\ ws[i].display <= ws[selected].display)
           marked(i) == [ws[i] EXCEPT !.displayed = flag(i)]
<1>2. SuppressOlder(ws, selected, t) = [i \in 1..Len(ws) |-> marked(i)]
  BY <1>1 DEF SuppressOlder
<1>3. \A i \in 1..Len(ws) : flag(i) \in BOOLEAN
  BY <1>1 DEF Windows
<1>4. \A i \in 1..Len(ws) : /\ marked(i) \in Windows /\ SameWindow(marked(i), ws[i])
                            /\ ws[i].displayed => marked(i).displayed
  <2> HIDE DEF flag
  <2>1. \A i \in 1..Len(ws) : marked(i).displayed = flag(i) /\ SameWindow(marked(i), ws[i])
    BY <1>1, <1>3 DEF Windows, SameWindow
  <2>2. \A i \in 1..Len(ws) : ws[i].displayed => flag(i)
    BY DEF flag
  <2> QED
    BY <1>1, <1>3, <2>1, <2>2 DEF Windows
<1> HIDE DEF marked
<1> QED
  BY <1>1, <1>2, <1>4

-----------------------------------------------------------------------------
(* Lemmas about the manifests of ScheduledPush *)

\* parse_manifest keeps the ids, and every flag that is set for them in RAM.
LEMMA CarriedFacts ==
    ASSUME NEW jobs \in Seq(Windows), ram \in Manifest
    PROVE  /\ Carried(jobs) \in Seq(Windows) /\ DOMAIN Carried(jobs) = DOMAIN jobs
           /\ \A i \in DOMAIN jobs :
                 /\ SameWindow(Carried(jobs)[i], jobs[i])
                 /\ Carried(jobs)[i].id \in Settled(ram) => Carried(jobs)[i].displayed
<1>1. Len(jobs) \in Nat /\ DOMAIN jobs = 1..Len(jobs)
      /\ \A i \in 1..Len(jobs) : jobs[i] \in Windows
  OBVIOUS
<1> DEFINE flag(i) == \E k \in DOMAIN ram.jobs : /\ ram.jobs[k].id = jobs[i].id
                                                 /\ ram.jobs[k].displayed
           carried(i) == [jobs[i] EXCEPT !.displayed = flag(i)]
<1>2. Carried(jobs) = [i \in 1..Len(jobs) |-> carried(i)]
  BY <1>1 DEF Carried
<1>3. \A i \in 1..Len(jobs) : jobs[i].id \in Settled(ram) => flag(i)
  BY DEF Settled
<1>4. \A i \in 1..Len(jobs) : flag(i) \in BOOLEAN
  OBVIOUS
<1> HIDE DEF flag
<1>5. \A i \in 1..Len(jobs) : /\ carried(i) \in Windows /\ SameWindow(carried(i), jobs[i])
                              /\ carried(i).displayed = flag(i)
  BY <1>1, <1>4 DEF Windows, SameWindow
<1> HIDE DEF carried
<1> QED
  BY <1>1, <1>2, <1>3, <1>5 DEF SameWindow

\* No card twice.
OnceEach(m) == \A i, k \in DOMAIN m.jobs : m.jobs[i].id = m.jobs[k].id => i = k

\* What sync_now goes on with are windows of the answer, each once if it was so
\* there, with the flags of the manifest in RAM.
LEMMA FetchedFacts ==
    ASSUME NEW m \in Manifest, ram \in Manifest, now \in Int
    PROVE  LET i == [m EXCEPT !.jobs = Unexpired(Carried(@), now)]
           IN  /\ i \in Manifest
               /\ Settled(ram) \cap Ids(i.jobs) \subseteq Settled(i)
               /\ \A k \in DOMAIN i.jobs : \E j \in DOMAIN m.jobs :
                     SameWindow(i.jobs[k], m.jobs[j])
               /\ OnceEach(m) => OnceEach(i)
<1> DEFINE carried == Carried(m.jobs)
           kept == Unexpired(carried, now)
           i == [m EXCEPT !.jobs = kept]
<1>1. m.jobs \in Seq(Windows)
  BY DEF Manifest
<1>2. /\ carried \in Seq(Windows) /\ DOMAIN carried = DOMAIN m.jobs
      /\ \A k \in DOMAIN m.jobs :
            /\ SameWindow(carried[k], m.jobs[k])
            /\ carried[k].id \in Settled(ram) => carried[k].displayed
  BY <1>1, CarriedFacts
<1> HIDE DEF carried
<1>3. /\ kept \in Seq(Windows)
      /\ \A k \in DOMAIN kept : \E j \in DOMAIN carried : kept[k] = carried[j]
      /\ \A k, l \in DOMAIN kept : k < l =>
            \E x, y \in DOMAIN carried : x < y /\ kept[k] = carried[x] /\ kept[l] = carried[y]
  BY <1>2, UnexpiredAreLive
<1> HIDE DEF kept
<1>4. i \in Manifest /\ i.jobs = kept
  BY <1>3 DEF Manifest
<1> HIDE DEF i
<1>5. Settled(ram) \cap Ids(i.jobs) \subseteq Settled(i)
  <2> SUFFICES ASSUME NEW k \in DOMAIN kept, kept[k].id \in Settled(ram)
               PROVE  kept[k].displayed
    BY <1>4 DEF Ids, Settled
  <2> QED
    BY <1>2, <1>3
<1>6. \A k \in DOMAIN i.jobs : \E j \in DOMAIN m.jobs : SameWindow(i.jobs[k], m.jobs[j])
  BY <1>2, <1>3, <1>4
<1>7. ASSUME OnceEach(m) PROVE OnceEach(i)
  <2>1. \A x, y \in DOMAIN m.jobs : carried[x].id = carried[y].id => x = y
    BY <1>2, <1>7 DEF OnceEach, SameWindow
  <2>2. \A x \in DOMAIN m.jobs : x \in Nat
    BY <1>1
  <2>3. \A k, l \in DOMAIN kept : k < l => kept[k].id # kept[l].id
    BY <1>2, <1>3, <2>1, <2>2
  <2>4. \A k \in DOMAIN kept : k \in Nat
    BY <1>3
  <2> QED
    BY <1>4, <2>3, <2>4 DEF OnceEach
<1> QED
  BY <1>4, <1>5, <1>6, <1>7 DEF i, kept, carried

\* A card shown or suppressed gets its flag; the manifest stays what it was.
LEMMA ShownFacts ==
    ASSUME NEW m \in Manifest, NEW t \in Int, NEW selected \in DOMAIN m.jobs
    PROVE  LET s == [m EXCEPT !.jobs =
                        [SuppressOlder(@, selected, t) EXCEPT
                            ![selected].displayed = TRUE]]
           IN  /\ s \in Manifest /\ s.pulse = m.pulse
               /\ DOMAIN s.jobs = DOMAIN m.jobs
               /\ \A i \in DOMAIN m.jobs : SameWindow(s.jobs[i], m.jobs[i])
               /\ Ids(s.jobs) = Ids(m.jobs) /\ Assets(s) = Assets(m)
               /\ Settled(m) \subseteq Settled(s) /\ m.jobs[selected].id \in Settled(s)
<1> DEFINE marked == SuppressOlder(m.jobs, selected, t)
           after == [marked EXCEPT ![selected].displayed = TRUE]
           s == [m EXCEPT !.jobs = after]
<1>1. m.jobs \in Seq(Windows) /\ Len(m.jobs) \in Nat /\ DOMAIN m.jobs = 1..Len(m.jobs)
  BY DEF Manifest
<1>2. /\ marked \in Seq(Windows) /\ DOMAIN marked = DOMAIN m.jobs
      /\ \A i \in DOMAIN m.jobs : /\ SameWindow(marked[i], m.jobs[i])
                                  /\ m.jobs[i].displayed => marked[i].displayed
  BY <1>1, SuppressOlderFacts
<1> HIDE DEF marked
<1>3. Len(marked) = Len(m.jobs) /\ marked[selected] \in Windows
  BY <1>1, <1>2
<1> DEFINE w == [marked[selected] EXCEPT !.displayed = TRUE]
<1>4. w \in Windows /\ SameWindow(w, marked[selected]) /\ w.displayed = TRUE
  BY <1>3 DEF Windows, SameWindow
<1>5. after = [marked EXCEPT ![selected] = w]
  BY <1>2
<1> HIDE DEF w, after
<1>6. /\ after \in Seq(Windows) /\ DOMAIN after = DOMAIN m.jobs
      /\ after[selected].displayed = TRUE
      /\ \A i \in DOMAIN m.jobs : /\ SameWindow(after[i], m.jobs[i])
                                  /\ m.jobs[i].displayed => after[i].displayed
  BY <1>1, <1>2, <1>3, <1>4, <1>5 DEF SameWindow
<1>7. s \in Manifest /\ s.jobs = after /\ s.pulse = m.pulse
  BY <1>6 DEF Manifest
<1> HIDE DEF s
<1>8. /\ Ids(s.jobs) = Ids(m.jobs) /\ Settled(m) \subseteq Settled(s)
      /\ m.jobs[selected].id \in Settled(s)
  BY <1>6, <1>7 DEF Ids, Settled, SameWindow
<1> QED
  BY <1>6, <1>7, <1>8 DEF s, after, marked, Assets

-----------------------------------------------------------------------------
(* The inductive invariant *)

SyncSteps == {"first_ack", "fetch", "download", "cleanup", "show_pulse", "final_ack"}

\* sync_now's local variables live while it runs; the panel shows the card that
\* is being persisted and acknowledged.
StepFacts ==
    /\ pc \in SyncSteps => syncing
    /\ pc \in {"off", "idle"} => ~syncing
    /\ changed => syncing
    /\ pc = "show_pulse" => changed
    /\ pc \in {"persist", "save_ack"} => screen \in Cards

\* A reset tears the cache and runs while there is power; what sync_now found
\* before it counts until the sync or the reset is over.
ResetFacts ==
    /\ reset # "no" => torn
    /\ reset \in {"files", "ack", "ram"} => pc # "off"
    /\ reset = "ended" => pc = "off"
    /\ had # {} => reset \in {"files", "ack", "ram"}

\* How far a reset has come that nobody ran beside.
ForgottenSoFar ==
    reset # "no" /\ ~beside =>
        /\ pc \in {"off", "idle"}
        /\ "files" \notin failed => disk = NoManifest /\ older = NoManifest /\ cache = {}
        /\ reset # "files" /\ "ack" \notin failed => slot = None

\* Without a reset or an unreadable manifest the one in RAM is the persisted one
\* but for flags that were set since, and the one being installed has all its
\* flags.
FlagsCarried ==
    reset = "no" /\ ~reverted /\ pc # "off" =>
        /\ Assets(ram) = Assets(disk)
        /\ Settled(disk) \subseteq Settled(ram)
        /\ pc = "download" =>
              Settled(ram) \cap Ids(incoming.jobs) \subseteq Settled(incoming)

DiskKept == torn \/ reverted \/ Assets(disk) \subseteq cache

\* sync_now has installed a generation and will come to show it.
WillShow ==
    changed /\ pc \in {"cleanup", "select", "await", "select_again", "refresh",
                          "show_pulse"}

\* The generation on the panel is the one in RAM and the one on the card, as
\* far as there is one and it was read; a reset only removes them.
OneGeneration ==
    /\ reverted => missed
    /\ ~reverted /\ pc # "off" /\ ram.pulse # None /\ disk.pulse # None => ram.pulse = disk.pulse
    /\ screen \in Pulses /\ ~missed =>
          /\ disk.pulse # None => screen = disk.pulse \/ WillShow
          /\ pc # "off" /\ ram.pulse # None => screen = ram.pulse \/ WillShow

StateFacts == /\ StepFacts /\ ResetFacts /\ ForgottenSoFar
              /\ FlagsCarried /\ DiskKept /\ OneGeneration

IInv == PagesTypeOK /\ StateFacts

LEMMA NoManifestFacts ==
    /\ NoManifest \in Manifest /\ NoManifest.pulse = None
    /\ Assets(NoManifest) = {} /\ Settled(NoManifest) = {}
<1>1. <<>> \in Seq(Windows) /\ DOMAIN <<>> = {}
  OBVIOUS
<1>2. NoManifest \in Manifest /\ NoManifest.jobs = <<>> /\ NoManifest.pulse = None
  BY <1>1 DEF NoManifest, Manifest
<1> QED
  BY <1>1, <1>2 DEF Assets, Ids, Settled

\* The initial state satisfies it.
LEMMA InitEstablishes == PagesInit => IInv
<1> SUFFICES ASSUME PagesInit PROVE IInv
  OBVIOUS
<1>1. PagesTypeOK
  <2>1. {rtcWake, deferred, changed, syncing, loaded, missed, beside, torn, reverted}
          \subseteq BOOLEAN
    BY DEF PagesInit, Init
  <2>2. TypeOK
    BY <2>1, NoneIsNothing, NoneIsNoManifest, NoneIsNotPicked, NoManifestFacts
       DEF PagesInit, Init, TypeOK, Steps
  <2>3. page \in 0..PageCount - 1
    BY DEF PagesInit, PageCount
  <2> QED
    BY <2>1, <2>2, <2>3, ResetsAreCounted DEF PagesInit, PagesTypeOK
<1>2. StateFacts
  BY NoManifestFacts
     DEF PagesInit, Init, StateFacts, StepFacts, SyncSteps, ResetFacts, ForgottenSoFar,
         FlagsCarried, DiskKept, OneGeneration
<1> QED
  BY <1>1, <1>2 DEF IInv

-----------------------------------------------------------------------------
(* Steps of the app task *)

\* What Engine does to the variables of PulsePages keeps their types.
LEMMA FrameTypes ==
    ASSUME PagesTypeOK, Engine(TRUE), TypeOK' PROVE PagesTypeOK'
<1>1. page' \in 0..PageCount - 1 /\ had' \subseteq Cards \cup Pulses
  BY DEF PagesTypeOK, Engine, PageCount
<1>2. {loaded', missed', beside', torn', reverted'} \subseteq BOOLEAN
  BY DEF PagesTypeOK, Engine, Missed
<1> QED
  BY <1>1, <1>2 DEF PagesTypeOK, Engine

\* Power comes: the manifest on the card is read.
LEMMA BootKeeps ==
    ASSUME IInv, Engine(TRUE), NEW byRtc \in BOOLEAN, Boot(byRtc), reset = "no"
    PROVE  IInv'
<1>1. TypeOK'
  BY NoneIsNoManifest DEF IInv, PagesTypeOK, TypeOK, Steps, Boot, Starts, Load
<1>2. PagesTypeOK'
  BY <1>1, FrameTypes DEF IInv
<1>3. StateFacts'
  BY NoneIsNothing DEF IInv, StateFacts, PagesTypeOK, TypeOK, Steps,
     StepFacts, SyncSteps, ResetFacts, ForgottenSoFar, FlagsCarried,
     DiskKept, WillShow, OneGeneration, Missed, Engine, Installs, Boot, Starts, Load
<1> QED
  BY <1>2, <1>3 DEF IInv

\* Power comes and the manifest on the card cannot be read.
LEMMA BootMisreadsKeeps ==
    ASSUME IInv, Engine(TRUE), NEW byRtc \in BOOLEAN, BootMisreads(byRtc), reset = "no"
    PROVE  IInv'
<1>1. TypeOK'
  BY NoneIsNoManifest, NoManifestFacts DEF IInv, PagesTypeOK, TypeOK, Steps,
     BootMisreads, Starts, LoadMisreads
<1>2. PagesTypeOK'
  BY <1>1, FrameTypes DEF IInv
<1>3. StateFacts'
  <2>1. CASE Load
    BY <2>1, NoneIsNothing DEF IInv, StateFacts, PagesTypeOK, TypeOK, Steps,
       StepFacts, SyncSteps, ResetFacts, ForgottenSoFar, FlagsCarried,
       DiskKept, WillShow, OneGeneration, Missed, Engine, Installs, BootMisreads,
       Starts, Load
  <2>2. CASE ~Load
    <3>1. reverted' /\ missed'
      BY <2>2 DEF Engine, Missed, BootMisreads, Starts
    <3> QED
      BY <3>1 DEF IInv, StateFacts, PagesTypeOK, TypeOK, Steps,
         StepFacts, SyncSteps, ResetFacts, ForgottenSoFar, FlagsCarried,
         DiskKept, OneGeneration, Engine, BootMisreads, Starts
  <2> QED
    BY <2>1, <2>2
<1> QED
  BY <1>2, <1>3 DEF IInv

\* display_due_cached begins.
LEMMA CheckDueKeeps ==
    ASSUME IInv, Engine(TRUE), CheckDue
    PROVE  IInv'
<1>1. TypeOK'
  BY DEF IInv, PagesTypeOK, TypeOK, Steps, CheckDue
<1>2. PagesTypeOK'
  BY <1>1, FrameTypes DEF IInv
<1>3. StateFacts'
  BY NoneIsNothing DEF IInv, StateFacts, PagesTypeOK, TypeOK, Steps,
     StepFacts, SyncSteps, ResetFacts, ForgottenSoFar, FlagsCarried,
     DiskKept, WillShow, OneGeneration, Missed, Engine, Installs, CheckDue
<1> QED
  BY <1>2, <1>3 DEF IInv

\* Nothing is due: sync_now goes on, with the new pages if there are any.
LEMMA NothingDueKeeps ==
    ASSUME IInv, Engine(TRUE), NothingDue
    PROVE  IInv'
<1>1. TypeOK'
  BY DEF IInv, PagesTypeOK, TypeOK, Steps, NothingDue, ReturnNothingShown
<1>2. PagesTypeOK'
  BY <1>1, FrameTypes DEF IInv
<1>3. StateFacts'
  BY NoneIsNothing DEF IInv, StateFacts, PagesTypeOK, TypeOK, Steps,
     StepFacts, SyncSteps, ResetFacts, ForgottenSoFar, FlagsCarried,
     DiskKept, WillShow, OneGeneration, Missed, Engine, Installs, NothingDue,
     ReturnNothingShown
<1> QED
  BY <1>2, <1>3 DEF IInv

\* A card is near.
LEMMA AwaitImminentKeeps ==
    ASSUME IInv, Engine(TRUE), AwaitImminent
    PROVE  IInv'
<1>1. TypeOK'
  BY DEF IInv, PagesTypeOK, TypeOK, Steps, AwaitImminent
<1>2. PagesTypeOK'
  BY <1>1, FrameTypes DEF IInv
<1>3. StateFacts'
  BY NoneIsNothing DEF IInv, StateFacts, PagesTypeOK, TypeOK, Steps,
     StepFacts, SyncSteps, ResetFacts, ForgottenSoFar, FlagsCarried,
     DiskKept, WillShow, OneGeneration, Missed, Engine, Installs,
     AwaitImminent
<1> QED
  BY <1>2, <1>3 DEF IInv

\* The wait for it is over.
LEMMA WaitOverKeeps ==
    ASSUME IInv, Engine(TRUE), WaitOver
    PROVE  IInv'
<1>1. TypeOK'
  BY DEF IInv, PagesTypeOK, TypeOK, Steps, WaitOver
<1>2. PagesTypeOK'
  BY <1>1, FrameTypes DEF IInv
<1>3. StateFacts'
  BY NoneIsNothing DEF IInv, StateFacts, PagesTypeOK, TypeOK, Steps,
     StepFacts, SyncSteps, ResetFacts, ForgottenSoFar, FlagsCarried,
     DiskKept, WillShow, OneGeneration, Missed, Engine, Installs, WaitOver
<1> QED
  BY <1>2, <1>3 DEF IInv

\* A card is due.
LEMMA FindDueKeeps ==
    ASSUME IInv, Engine(TRUE), FindDue
    PROVE  IInv'
<1>1. due' \in Picked /\ due' # None
  <2> DEFINE selected == SelectDue(ram.jobs, now)
  <2>1. ram.jobs \in Seq(Windows) /\ now \in Int /\ selected # 0
    BY DEF IInv, PagesTypeOK, TypeOK, FindDue, Manifest
  <2>2. selected \in DOMAIN ram.jobs
    BY <2>1, SelectedIsDue
  <2>3. due' = [card |-> ram.jobs[selected].id, at |-> now]
    BY DEF FindDue
  <2> HIDE DEF selected
  <2>4. ram.jobs[selected] \in Windows
    BY <2>1, <2>2
  <2>5. ram.jobs[selected].id \in Cards
    BY <2>4 DEF Windows
  <2> QED
    BY <2>1, <2>3, <2>5, NoneIsNotPicked DEF Picked
<1>2. TypeOK'
  BY <1>1 DEF IInv, PagesTypeOK, TypeOK, Steps, FindDue
<1>3. PagesTypeOK'
  BY <1>2, FrameTypes DEF IInv
<1>4. StateFacts'
  BY NoneIsNothing DEF IInv, StateFacts, PagesTypeOK, TypeOK, Steps,
     StepFacts, SyncSteps, ResetFacts, ForgottenSoFar, FlagsCarried,
     DiskKept, WillShow, OneGeneration, Missed, Engine, Installs, FindDue
<1> QED
  BY <1>3, <1>4 DEF IInv

\* The due card cannot be drawn.
LEMMA ShowFailsKeeps ==
    ASSUME IInv, Engine(TRUE), ShowFails
    PROVE  IInv'
<1>1. TypeOK'
  BY DEF IInv, PagesTypeOK, TypeOK, Steps, ShowFails, ReturnNothingShown
<1>2. PagesTypeOK'
  BY <1>1, FrameTypes DEF IInv
<1>3. StateFacts'
  BY NoneIsNothing DEF IInv, StateFacts, PagesTypeOK, TypeOK, Steps,
     StepFacts, SyncSteps, ResetFacts, ForgottenSoFar, FlagsCarried,
     DiskKept, WillShow, OneGeneration, Missed, Engine, Installs, ShowFails,
     ReturnNothingShown
<1> QED
  BY <1>2, <1>3 DEF IInv

\* The flags are persisted, or not.
LEMMA PersistDisplayedKeeps ==
    ASSUME IInv, Engine(TRUE), NEW ok \in BOOLEAN, PersistDisplayed(ok)
    PROVE  IInv'
<1>1. TypeOK'
  BY NoManifestFacts DEF IInv, PagesTypeOK, TypeOK, Steps, PersistDisplayed, Write,
     WriteFails
<1>2. PagesTypeOK'
  BY <1>1, FrameTypes DEF IInv
<1>3. StateFacts'
  BY NoneIsNothing DEF IInv, StateFacts, PagesTypeOK, TypeOK, Steps,
     StepFacts, SyncSteps, ResetFacts, ForgottenSoFar, FlagsCarried,
     DiskKept, WillShow, OneGeneration, Missed, Engine, Installs,
     PersistDisplayed, Write, WriteFails
<1> QED
  BY <1>2, <1>3 DEF IInv

\* The card on the panel is to be acknowledged.
LEMMA SaveAckKeeps ==
    ASSUME IInv, Engine(TRUE), NEW ok \in BOOLEAN, SaveAck(ok)
    PROVE  IInv'
<1>1. TypeOK'
  BY DEF IInv, PagesTypeOK, TypeOK, Steps, StateFacts, StepFacts, SaveAck,
     ReturnDisplayed
<1>2. PagesTypeOK'
  BY <1>1, FrameTypes DEF IInv
<1>3. StateFacts'
  BY NoneIsNothing DEF IInv, StateFacts, PagesTypeOK, TypeOK, Steps,
     StepFacts, SyncSteps, ResetFacts, ForgottenSoFar, FlagsCarried,
     DiskKept, WillShow, OneGeneration, Missed, Engine, Installs, SaveAck,
     ReturnDisplayed
<1> QED
  BY <1>2, <1>3 DEF IInv

\* The next attempt is allowed.
LEMMA RetryElapsedKeeps ==
    ASSUME IInv, Engine(TRUE), RetryElapsed
    PROVE  IInv'
<1>1. TypeOK'
  BY DEF IInv, PagesTypeOK, TypeOK, Steps, RetryElapsed
<1>2. PagesTypeOK'
  BY <1>1, FrameTypes DEF IInv
<1>3. StateFacts'
  BY NoneIsNothing DEF IInv, StateFacts, PagesTypeOK, TypeOK, Steps,
     StepFacts, SyncSteps, ResetFacts, ForgottenSoFar, FlagsCarried,
     DiskKept, WillShow, OneGeneration, Missed, Engine, Installs,
     RetryElapsed
<1> QED
  BY <1>2, <1>3 DEF IInv

\* sync_now begins.
LEMMA StartSyncKeeps ==
    ASSUME IInv, Engine(TRUE), StartSync
    PROVE  IInv'
<1>1. TypeOK'
  BY DEF IInv, PagesTypeOK, TypeOK, Steps, StartSync
<1>2. PagesTypeOK'
  BY <1>1, FrameTypes DEF IInv
<1>3. StateFacts'
  BY NoneIsNothing DEF IInv, StateFacts, PagesTypeOK, TypeOK, Steps,
     StepFacts, SyncSteps, ResetFacts, ForgottenSoFar, FlagsCarried,
     DiskKept, WillShow, OneGeneration, Missed, Engine, Installs, StartSync
<1> QED
  BY <1>2, <1>3 DEF IInv

\* The first acknowledgement of a sync, or the last, which ends it.
LEMMA SendAckKeeps ==
    ASSUME IInv, Engine(TRUE), NEW accepted \in BOOLEAN, SendAck(accepted)
    PROVE  IInv'
<1>1. TypeOK'
  BY NoneIsNoManifest DEF IInv, PagesTypeOK, TypeOK, Steps, SendAck,
     EndSync
<1>2. PagesTypeOK'
  BY <1>1, FrameTypes DEF IInv
<1>3. StateFacts'
  BY NoneIsNothing DEF IInv, StateFacts, PagesTypeOK, TypeOK, Steps,
     StepFacts, SyncSteps, ResetFacts, ForgottenSoFar, FlagsCarried,
     DiskKept, WillShow, OneGeneration, Missed, Engine, Installs, SendAck,
     EndSync
<1> QED
  BY <1>2, <1>3 DEF IInv

\* No manifest arrived.
LEMMA FetchFailsKeeps ==
    ASSUME IInv, Engine(TRUE), FetchFails
    PROVE  IInv'
<1>1. TypeOK'
  BY NoneIsNoManifest DEF IInv, PagesTypeOK, TypeOK, Steps, FetchFails,
     EndSync
<1>2. PagesTypeOK'
  BY <1>1, FrameTypes DEF IInv
<1>3. StateFacts'
  BY NoneIsNothing DEF IInv, StateFacts, PagesTypeOK, TypeOK, Steps,
     StepFacts, SyncSteps, ResetFacts, ForgottenSoFar, FlagsCarried,
     DiskKept, WillShow, OneGeneration, Missed, Engine, Installs, FetchFails,
     EndSync
<1> QED
  BY <1>2, <1>3 DEF IInv

\* An asset arrived.
LEMMA DownloadKeeps ==
    ASSUME IInv, Engine(TRUE), NEW asset \in Cards \cup Pulses, Download(asset)
    PROVE  IInv'
<1>1. TypeOK'
  BY NoneIsNoManifest DEF IInv, PagesTypeOK, TypeOK, Steps, Download
<1>2. PagesTypeOK'
  BY <1>1, FrameTypes DEF IInv
<1>3. StateFacts'
  BY NoneIsNothing DEF IInv, StateFacts, PagesTypeOK, TypeOK, Steps,
     StepFacts, SyncSteps, ResetFacts, ForgottenSoFar, FlagsCarried,
     DiskKept, WillShow, OneGeneration, Missed, Engine, Installs, Download
<1> QED
  BY <1>2, <1>3 DEF IInv

\* An asset did not arrive.
LEMMA DownloadFailsKeeps ==
    ASSUME IInv, Engine(TRUE), DownloadFails
    PROVE  IInv'
<1>1. TypeOK'
  BY NoneIsNoManifest DEF IInv, PagesTypeOK, TypeOK, Steps, DownloadFails,
     EndSync
<1>2. PagesTypeOK'
  BY <1>1, FrameTypes DEF IInv
<1>3. StateFacts'
  BY NoneIsNothing DEF IInv, StateFacts, PagesTypeOK, TypeOK, Steps,
     StepFacts, SyncSteps, ResetFacts, ForgottenSoFar, FlagsCarried,
     DiskKept, WillShow, OneGeneration, Missed, Engine, Installs,
     DownloadFails, EndSync
<1> QED
  BY <1>2, <1>3 DEF IInv

\* The manifest could not be written.
LEMMA InstallFailsKeeps ==
    ASSUME IInv, Engine(TRUE), InstallFails
    PROVE  IInv'
<1>1. TypeOK'
  BY NoneIsNoManifest, NoManifestFacts DEF IInv, PagesTypeOK, TypeOK, Steps, InstallFails,
     EndSync, WriteFails
<1>2. PagesTypeOK'
  BY <1>1, FrameTypes DEF IInv
<1>3. StateFacts'
  BY NoneIsNothing, NoManifestFacts DEF IInv, StateFacts, PagesTypeOK, TypeOK, Steps,
     StepFacts, SyncSteps, ResetFacts, ForgottenSoFar, FlagsCarried,
     DiskKept, WillShow, OneGeneration, Missed, Engine, Installs,
     InstallFails, EndSync, WriteFails
<1> QED
  BY <1>2, <1>3 DEF IInv

\* The cleanup spares what the manifest refers to.
LEMMA CleanupKeeps ==
    ASSUME IInv, Engine(TRUE), NEW removed \in SUBSET cache, Cleanup(removed)
    PROVE  IInv'
<1>1. TypeOK'
  BY DEF IInv, PagesTypeOK, TypeOK, Steps, Cleanup
<1>2. PagesTypeOK'
  BY <1>1, FrameTypes DEF IInv
<1>3. StateFacts'
  BY NoneIsNothing DEF IInv, StateFacts, PagesTypeOK, TypeOK, Steps,
     StepFacts, SyncSteps, ResetFacts, ForgottenSoFar, FlagsCarried,
     DiskKept, WillShow, OneGeneration, Missed, Engine, Installs, Cleanup
<1> QED
  BY <1>2, <1>3 DEF IInv

\* The new pages are drawn, or missed.
LEMMA ShowPulseKeeps ==
    ASSUME IInv, Engine(TRUE), NEW ok \in BOOLEAN, ShowPulse(ok)
    PROVE  IInv'
<1>1. TypeOK'
  BY DEF IInv, PagesTypeOK, TypeOK, Steps, ShowPulse
<1>2. PagesTypeOK'
  BY <1>1, FrameTypes DEF IInv
<1>3. StateFacts'
  BY NoneIsNothing DEF IInv, StateFacts, PagesTypeOK, TypeOK, Steps,
     StepFacts, SyncSteps, ResetFacts, ForgottenSoFar, FlagsCarried,
     DiskKept, WillShow, OneGeneration, Missed, Engine, Installs, ShowPulse
<1> QED
  BY <1>2, <1>3 DEF IInv

\* The manifest was fetched: the lemma FetchedFacts.
LEMMA FetchedKeeps ==
    ASSUME IInv, Engine(TRUE), NEW m \in Offered, Fetched(m)
    PROVE  IInv'
<1>1. ram \in Manifest /\ m \in Manifest /\ now \in Int
  BY OfferedAreManifests DEF IInv, PagesTypeOK, TypeOK, Fetched
<1>2. incoming' \in Manifest /\ Settled(ram) \cap Ids(incoming'.jobs) \subseteq Settled(incoming')
  BY <1>1, FetchedFacts DEF Fetched
<1>3. TypeOK'
  BY <1>2, NoneIsNoManifest DEF IInv, PagesTypeOK, TypeOK, Steps, Fetched
<1>4. PagesTypeOK'
  BY <1>3, FrameTypes DEF IInv
<1>5. FlagsCarried'
  BY <1>2 DEF IInv, StateFacts, FlagsCarried, Engine, Installs, Fetched
<1>6. StepFacts' /\ ResetFacts' /\ ForgottenSoFar' /\ DiskKept' /\ OneGeneration'
  BY DEF IInv, StateFacts, PagesTypeOK, TypeOK, StepFacts, SyncSteps, ResetFacts,
         ForgottenSoFar, DiskKept, WillShow, OneGeneration, Missed, Engine, Installs,
         Fetched
<1> QED
  BY <1>4, <1>5, <1>6 DEF IInv, StateFacts

\* A card is drawn and settled, the older due ones with it: the lemma ShownFacts.
LEMMA ShowCardKeeps ==
    ASSUME IInv, Engine(TRUE), ShowCard
    PROVE  IInv'
<1> DEFINE selected == SelectDue(ram.jobs, due.at)
<1>1. ram \in Manifest /\ ram.jobs \in Seq(Windows) /\ due \in Picked
  BY NoneIsNotPicked DEF IInv, PagesTypeOK, TypeOK, ShowCard, Manifest
<1>2. due.at \in Int /\ due.card \in Cards
  BY <1>1 DEF Picked
<1>3. screen' \in Cards
  BY <1>2 DEF ShowCard
<1>4. /\ ram' \in Manifest /\ ram'.pulse = ram.pulse
      /\ Assets(ram') = Assets(ram) /\ Settled(ram) \subseteq Settled(ram')
  <2>1. CASE selected = 0
    BY <2>1, <1>1 DEF ShowCard
  <2>2. CASE selected # 0
    <3>1. selected \in DOMAIN ram.jobs
      BY <1>1, <1>2, <2>2, SelectedIsDue
    <3>2. ram' = [ram EXCEPT !.jobs = [SuppressOlder(@, selected, due.at) EXCEPT
                                          ![selected].displayed = TRUE]]
      BY <2>2 DEF ShowCard
    <3> HIDE DEF selected
    <3> QED
      BY <1>1, <1>2, <3>1, <3>2, ShownFacts
  <2> QED
    BY <2>1, <2>2
<1>5. TypeOK'
  BY <1>3, <1>4, NoneIsNoManifest DEF IInv, PagesTypeOK, TypeOK, Steps, ShowCard
<1>6. PagesTypeOK'
  BY <1>5, FrameTypes DEF IInv
<1>7. FlagsCarried'
  BY <1>4 DEF IInv, StateFacts, FlagsCarried, Engine, Installs, ShowCard
<1>8. StepFacts' /\ ResetFacts' /\ ForgottenSoFar' /\ DiskKept'
  BY <1>3 DEF IInv, StateFacts, StepFacts, SyncSteps, ResetFacts, ForgottenSoFar, DiskKept,
              Engine, Installs, ShowCard
<1>9. OneGeneration'
  BY <1>3, <1>4, AssetNamesDiffer
     DEF IInv, StateFacts, OneGeneration, Engine, Installs, Missed, ShowCard
<1> QED
  BY <1>6, <1>7, <1>8, <1>9 DEF IInv, StateFacts

\* The manifest is installed: all it refers to is on the SD card, it has the
\* flags of the one it replaces, and what it shows is drawn later in this sync.
LEMMA InstallKeeps ==
    ASSUME IInv, Engine(TRUE), Install
    PROVE  IInv'
<1>1. /\ disk' = incoming /\ ram' = incoming /\ incoming \in Manifest
      /\ Assets(incoming) \subseteq cache'
      /\ pc = "download" /\ pc' = "cleanup" /\ syncing' = syncing
  BY DEF IInv, PagesTypeOK, TypeOK, Install, Write, Missing
<1>2. TypeOK'
  BY <1>1, NoneIsNoManifest DEF IInv, PagesTypeOK, TypeOK, Steps, Install,
     Write
<1>3. PagesTypeOK'
  BY <1>2, FrameTypes DEF IInv
<1>4. StepFacts'
  BY <1>1 DEF IInv, StateFacts, StepFacts, SyncSteps, Install
<1>5. ResetFacts' /\ ForgottenSoFar'
  BY <1>1 DEF IInv, StateFacts, ResetFacts, ForgottenSoFar, Engine, Installs, Install,
     Write
<1>6. FlagsCarried' /\ DiskKept'
  BY <1>1 DEF FlagsCarried, DiskKept
<1>7. OneGeneration'
  <2>1. changed' = (incoming.pulse # ram.pulse) /\ screen' = screen
    BY DEF Install
  <2> ~reverted'
    BY <1>1 DEF Engine, Installs
  <2>2. CASE changed'
    BY <2>2, <1>1 DEF OneGeneration, WillShow
  <2>3. CASE ~changed'
    <3>1. incoming.pulse = ram.pulse /\ (~missed' => ~missed)
      BY <2>1, <2>3, <1>1 DEF Engine, Missed
    <3>2. screen \in Pulses /\ ~missed /\ ram.pulse # None => screen = ram.pulse
      BY <1>1 DEF IInv, StateFacts, OneGeneration, WillShow
    <3> QED
      BY <1>1, <2>1, <3>1, <3>2 DEF OneGeneration
  <2> QED
    BY <2>2, <2>3
<1> QED
  BY <1>3, <1>4, <1>5, <1>6, <1>7 DEF IInv, StateFacts

\* The manifest is installed although a reset removed what it refers to.
LEMMA InstallUnawareKeeps ==
    ASSUME IInv, InstallUnaware
    PROVE  IInv'
<1>1. TypeOK'
  BY NoneIsNoManifest DEF IInv, PagesTypeOK, TypeOK, Steps, Engine,
     InstallUnaware, Write, Missing
<1>2. PagesTypeOK'
  <2>1. Engine(TRUE)
    BY DEF InstallUnaware, Engine
  <2> QED
    BY <1>1, <2>1, FrameTypes DEF IInv
<1>3. StateFacts'
  BY NoneIsNothing DEF IInv, StateFacts, PagesTypeOK, TypeOK, Steps,
     StepFacts, SyncSteps, ResetFacts, ForgottenSoFar, FlagsCarried,
     DiskKept, WillShow, OneGeneration, Missed, Engine, Installs,
     InstallUnaware, Write, Missing
<1> QED
  BY <1>2, <1>3 DEF IInv

\* A step of the app task is one of these.
LEMMA StepKeeps == ASSUME IInv, Step PROVE IInv'
<1>1. Engine(TRUE) /\ (pc = "idle" => loaded) /\ (reset = "no" \/ pc # "off")
  BY DEF Step, Engine
<1>2. CASE Progress
  <2>1. \A byRtc \in BOOLEAN : Boot(byRtc) => reset = "no"
    BY <1>1 DEF Boot, Starts
  <2> QED
    BY <1>1, <1>2, <2>1, BootKeeps, CheckDueKeeps, NothingDueKeeps, AwaitImminentKeeps,
       WaitOverKeeps, FindDueKeeps, ShowCardKeeps, ShowFailsKeeps, PersistDisplayedKeeps, SaveAckKeeps, RetryElapsedKeeps,
       StartSyncKeeps, DownloadKeeps, InstallKeeps, CleanupKeeps, ShowPulseKeeps
       DEF Progress, AssetMissing
<1>3. CASE Failure
  <2>1. \A byRtc \in BOOLEAN : BootMisreads(byRtc) => reset = "no"
    BY <1>1 DEF BootMisreads, Starts
  <2> QED
    BY <1>1, <1>3, <2>1, BootMisreadsKeeps, ShowFailsKeeps, PersistDisplayedKeeps,
       SaveAckKeeps, DownloadFailsKeeps, InstallFailsKeeps, ShowPulseKeeps, CleanupKeeps
       DEF Failure
<1>4. CASE Environment
  BY <1>1, <1>4, FetchFailsKeeps, FetchedKeeps, SendAckKeeps DEF Environment
<1> QED
  BY <1>2, <1>3, <1>4 DEF Step, Engine

-----------------------------------------------------------------------------
(* The other steps *)

\* A dropped manifest is read again.
LEMMA ReloadKeeps ==
    ASSUME IInv, Reload
    PROVE  IInv'
<1>1. TypeOK'
  BY NoneIsNoManifest, NoManifestFacts DEF IInv, PagesTypeOK, TypeOK, Steps, Reload,
     Load, LoadMisreads
<1>2. PagesTypeOK'
  <2>1. {loaded', missed', beside', torn', reverted'} \subseteq BOOLEAN
    BY DEF IInv, PagesTypeOK, Reload, Missed, Load
  <2> QED
    BY <1>1, <2>1, ResetsAreCounted DEF IInv, PagesTypeOK, PageCount, Reload
<1>3. CASE Load
  BY <1>2, <1>3, NoneIsNothing, NoManifestFacts DEF IInv, StateFacts, PagesTypeOK,
     TypeOK, Steps, StepFacts, SyncSteps, ResetFacts, ForgottenSoFar,
     FlagsCarried, DiskKept, WillShow, OneGeneration, Missed, Reload, Load
<1>4. CASE ~Load
  <2>1. reverted' /\ missed'
    BY <1>4 DEF Reload, Missed
  <2> QED
    BY <1>2, <2>1, NoManifestFacts DEF IInv, StateFacts, PagesTypeOK, TypeOK, Steps,
       StepFacts, SyncSteps, ResetFacts, ForgottenSoFar, FlagsCarried, DiskKept,
       OneGeneration, Reload, Load, LoadMisreads
<1> QED
  BY <1>3, <1>4

\* A button turns the page.
LEMMA TurnPageKeeps ==
    ASSUME IInv, NEW step \in {1, PageCount - 1}, TurnPage(step)
    PROVE  IInv'
<1>1. TypeOK'
  BY DEF IInv, PagesTypeOK, TypeOK, Steps, TurnPage
<1>2. PagesTypeOK'
  <2>1. page' \in 0..PageCount - 1 /\ had' \subseteq Cards \cup Pulses
    BY DEF IInv, PagesTypeOK, TypeOK, PageCount, TurnPage
  <2>2. {loaded', missed', beside', torn', reverted'} \subseteq BOOLEAN
    BY DEF IInv, PagesTypeOK, TurnPage
  <2> QED
    BY <1>1, <2>1, <2>2, ResetsAreCounted DEF IInv, PagesTypeOK, TurnPage
<1>3. StateFacts'
  BY NoneIsNothing DEF IInv, StateFacts, PagesTypeOK, TypeOK, Steps,
     StepFacts, SyncSteps, ResetFacts, ForgottenSoFar, FlagsCarried,
     DiskKept, WillShow, OneGeneration, Missed, TurnPage
<1> QED
  BY <1>2, <1>3 DEF IInv

\* The power goes.
LEMMA CutKeeps ==
    ASSUME IInv, Cut
    PROVE  IInv'
<1>1. TypeOK'
  BY NoneIsNoManifest DEF IInv, PagesTypeOK, TypeOK, Steps, Cut, PowerLoss
<1>2. PagesTypeOK'
  <2>1. page' \in 0..PageCount - 1 /\ had' \subseteq Cards \cup Pulses
    BY DEF IInv, PagesTypeOK, TypeOK, PageCount, Cut, PowerLoss
  <2>2. {loaded', missed', beside', torn', reverted'} \subseteq BOOLEAN
    BY DEF IInv, PagesTypeOK, Cut, PowerLoss, Missed
  <2> QED
    BY <1>1, <2>1, <2>2, ResetsAreCounted DEF IInv, PagesTypeOK, Cut,
       PowerLoss
<1>3. StateFacts'
  BY NoneIsNothing DEF IInv, StateFacts, PagesTypeOK, TypeOK, Steps,
     StepFacts, SyncSteps, ResetFacts, ForgottenSoFar, FlagsCarried,
     DiskKept, WillShow, OneGeneration, Missed, Cut, PowerLoss
<1> QED
  BY <1>2, <1>3 DEF IInv

\* A second passes.
LEMMA TimePassesKeeps ==
    ASSUME IInv, TimePasses
    PROVE  IInv'
<1>1. TypeOK'
  BY DEF IInv, PagesTypeOK, TypeOK, Steps, TimePasses, Tick, task, history
<1>2. PagesTypeOK'
  BY <1>1, ResetsAreCounted DEF IInv, PagesTypeOK, PageCount, TimePasses,
     Tick, task, history
<1>3. StateFacts'
  BY NoneIsNothing DEF IInv, StateFacts, PagesTypeOK, TypeOK, Steps,
     StepFacts, SyncSteps, ResetFacts, ForgottenSoFar, FlagsCarried,
     DiskKept, WillShow, OneGeneration, Missed, TimePasses, Tick, task,
     history
<1> QED
  BY <1>2, <1>3 DEF IInv

\* The reset removes the files.
LEMMA RemoveFilesKeeps ==
    ASSUME IInv, NEW ok \in BOOLEAN, RemoveFiles(ok)
    PROVE  IInv'
<1>1. TypeOK'
  BY NoManifestFacts DEF IInv, PagesTypeOK, TypeOK, Steps, RemoveFiles, PartlyRemoved
<1>2. PagesTypeOK'
  <2>1. page' \in 0..PageCount - 1 /\ had' \subseteq Cards \cup Pulses
    BY DEF IInv, PagesTypeOK, TypeOK, PageCount, RemoveFiles, PartlyRemoved
  <2>2. {loaded', missed', beside', torn', reverted'} \subseteq BOOLEAN
    BY DEF IInv, PagesTypeOK, RemoveFiles, PartlyRemoved, Busy
  <2> QED
    BY <1>1, <2>1, <2>2, ResetsAreCounted DEF IInv, PagesTypeOK,
       RemoveFiles, PartlyRemoved
<1>3. StateFacts'
  BY NoManifestFacts DEF IInv, StateFacts, PagesTypeOK, TypeOK, Steps,
     StepFacts, SyncSteps, ResetFacts, ForgottenSoFar, FlagsCarried,
     DiskKept, WillShow, OneGeneration, Missed, Busy, RemoveFiles, PartlyRemoved
<1> QED
  BY <1>2, <1>3 DEF IInv

\* The power goes while it removes them.
LEMMA CutWhileRemovingKeeps ==
    ASSUME IInv, CutWhileRemoving
    PROVE  IInv'
<1>1. TypeOK'
  BY NoManifestFacts DEF IInv, PagesTypeOK, TypeOK, Steps,
     CutWhileRemoving, PartlyRemoved
<1>2. PagesTypeOK'
  <2>1. page' \in 0..PageCount - 1 /\ had' \subseteq Cards \cup Pulses
    BY DEF IInv, PagesTypeOK, TypeOK, PageCount, CutWhileRemoving, PartlyRemoved
  <2>2. {loaded', missed', beside', torn', reverted'} \subseteq BOOLEAN
    BY DEF IInv, PagesTypeOK, CutWhileRemoving, PartlyRemoved
  <2> QED
    BY <1>1, <2>1, <2>2, ResetsAreCounted DEF IInv, PagesTypeOK,
       CutWhileRemoving, PartlyRemoved
<1>3. StateFacts'
  BY NoneIsNothing, NoManifestFacts DEF IInv, StateFacts, PagesTypeOK,
     TypeOK, Steps, StepFacts, SyncSteps, ResetFacts, ForgottenSoFar,
     FlagsCarried, DiskKept, WillShow, OneGeneration, Missed,
     CutWhileRemoving, PartlyRemoved
<1> QED
  BY <1>2, <1>3 DEF IInv

\* The reset erases the acknowledgement.
LEMMA EraseAckKeeps ==
    ASSUME IInv, NEW ok \in BOOLEAN, EraseAck(ok)
    PROVE  IInv'
<1>1. TypeOK'
  BY DEF IInv, PagesTypeOK, TypeOK, Steps, EraseAck, task
<1>2. PagesTypeOK'
  BY <1>1, ResetsAreCounted DEF IInv, PagesTypeOK, PageCount, EraseAck, task
<1>3. StateFacts'
  BY NoneIsNothing DEF IInv, StateFacts, PagesTypeOK, TypeOK, Steps,
     StepFacts, SyncSteps, ResetFacts, ForgottenSoFar, FlagsCarried,
     DiskKept, WillShow, OneGeneration, Missed, EraseAck, task
<1> QED
  BY <1>2, <1>3 DEF IInv

\* It drops the manifest in RAM.
LEMMA ClearRamKeeps ==
    ASSUME IInv, ClearRam
    PROVE  IInv'
<1>1. TypeOK'
  BY NoneIsNoManifest, NoManifestFacts DEF IInv, PagesTypeOK, TypeOK,
     Steps, StateFacts, ResetFacts, ClearRam, history
<1>2. PagesTypeOK'
  <2>1. page' \in 0..PageCount - 1 /\ had' \subseteq Cards \cup Pulses
    BY DEF IInv, PagesTypeOK, TypeOK, PageCount, ClearRam
  <2>2. {loaded', missed', beside', torn', reverted'} \subseteq BOOLEAN
    BY DEF IInv, PagesTypeOK, ClearRam, history
  <2> QED
    BY <1>1, <2>1, <2>2, ResetsAreCounted DEF IInv, PagesTypeOK, ClearRam,
       history
<1>3. StateFacts'
  BY NoManifestFacts DEF IInv, StateFacts, PagesTypeOK, TypeOK, Steps,
     StepFacts, SyncSteps, ResetFacts, ForgottenSoFar, FlagsCarried,
     DiskKept, WillShow, OneGeneration, Missed, ClearRam, history
<1> QED
  BY <1>2, <1>3 DEF IInv

\* It ends with the power off.
LEMMA ResetEndsKeeps ==
    ASSUME IInv, ResetEnds
    PROVE  IInv'
<1>1. TypeOK'
  BY DEF IInv, PagesTypeOK, TypeOK, Steps, ResetEnds
<1>2. PagesTypeOK'
  <2>1. page' \in 0..PageCount - 1 /\ had' \subseteq Cards \cup Pulses
    BY DEF IInv, PagesTypeOK, TypeOK, PageCount, ResetEnds
  <2>2. {loaded', missed', beside', torn', reverted'} \subseteq BOOLEAN
    BY DEF IInv, PagesTypeOK, ResetEnds
  <2> QED
    BY <1>1, <2>1, <2>2, ResetsAreCounted DEF IInv, PagesTypeOK, ResetEnds
<1>3. StateFacts'
  BY NoneIsNothing DEF IInv, StateFacts, PagesTypeOK, TypeOK, Steps,
     StepFacts, SyncSteps, ResetFacts, ForgottenSoFar, FlagsCarried,
     DiskKept, WillShow, OneGeneration, Missed, ResetEnds
<1> QED
  BY <1>2, <1>3 DEF IInv

\* The device is set up again.
LEMMA SetUpKeeps ==
    ASSUME IInv, SetUp
    PROVE  IInv'
<1>1. TypeOK'
  BY DEF IInv, PagesTypeOK, TypeOK, Steps, SetUp, vars, task, history
<1>2. PagesTypeOK'
  BY <1>1, ResetsAreCounted DEF IInv, PagesTypeOK, PageCount, SetUp, vars,
     task, history
<1>3. StateFacts'
  BY NoneIsNothing DEF IInv, StateFacts, PagesTypeOK, TypeOK, Steps,
     StepFacts, SyncSteps, ResetFacts, ForgottenSoFar, FlagsCarried,
     DiskKept, WillShow, OneGeneration, Missed, SetUp, vars, task, history
<1> QED
  BY <1>2, <1>3 DEF IInv

\* Nothing changes.
LEMMA StutterKeeps ==
    ASSUME IInv, UNCHANGED pagesVars
    PROVE  IInv'
<1>1. TypeOK'
  BY DEF IInv, PagesTypeOK, TypeOK, Steps, pagesVars, vars, task, history
<1>2. PagesTypeOK'
  BY <1>1, ResetsAreCounted DEF IInv, PagesTypeOK, PageCount, pagesVars,
     vars, task, history
<1>3. StateFacts'
  BY NoneIsNothing DEF IInv, StateFacts, PagesTypeOK, TypeOK, Steps,
     StepFacts, SyncSteps, ResetFacts, ForgottenSoFar, FlagsCarried,
     DiskKept, WillShow, OneGeneration, Missed, pagesVars, vars, task,
     history
<1> QED
  BY <1>2, <1>3 DEF IInv

\* Every step keeps the invariant.
LEMMA NextPreserves == IInv /\ [PagesNext]_pagesVars => IInv'
<1> SUFFICES ASSUME IInv, [PagesNext]_pagesVars PROVE IInv'
  OBVIOUS
<1>1. CASE ResetStep
  BY <1>1, RemoveFilesKeeps, CutWhileRemovingKeeps, EraseAckKeeps, ClearRamKeeps,
     ResetEndsKeeps, SetUpKeeps DEF ResetStep
<1>2. CASE UNCHANGED pagesVars
  BY <1>2, StutterKeeps
<1> QED
  BY <1>1, <1>2, StepKeeps, InstallUnawareKeeps, ReloadKeeps, TurnPageKeeps, CutKeeps,
     TimePassesKeeps DEF PagesNext

LEMMA Invariant == PagesSpec => []IInv
<1> QED
  BY InitEstablishes, NextPreserves, PTL DEF PagesSpec

-----------------------------------------------------------------------------
(* The theorems *)

\* Every variable of the push engine, the pages and the reset stays in its type,
\* and g_manifest is loaded while the task runs.
THEOREM Typed == PagesSpec => []PagesTypeOK
<1>1. IInv => PagesTypeOK
  BY DEF IInv
<1> QED
  BY <1>1, Invariant, PTL

\* Whatever is written or downloaded in vain and wherever power goes, every asset
\* of the persisted manifest and of the one in RAM is on the SD card, until a factory
\* reset removes files or the newest manifest cannot be read.
THEOREM AssetsAreKept == PagesSpec => []AssetsKept
<1>1. IInv => AssetsKept
  <2> SUFFICES ASSUME IInv, ~torn, ~reverted PROVE AssetsPresent
    BY DEF AssetsKept
  <2>1. Assets(disk) \subseteq cache
    BY DEF IInv, StateFacts, DiskKept
  <2>2. pc # "off" => Assets(ram) = Assets(disk)
    BY DEF IInv, StateFacts, ResetFacts, FlagsCarried
  <2> QED
    BY <2>1, <2>2 DEF IInv, PagesTypeOK, TypeOK, AssetsPresent
<1> QED
  BY <1>1, Invariant, PTL

\* While the device idles with a generation installed the panel shows no other,
\* unless that one could not be drawn when it was installed, or not be read since.
THEOREM ScreenIsCurrent == PagesSpec => []ScreenKeepsUp
<1>1. IInv => ScreenKeepsUp
  BY DEF IInv, StateFacts, OneGeneration, WillShow, ScreenKeepsUp
<1> QED
  BY <1>1, Invariant, PTL

\* A factory reset that nothing ran beside leaves no card, page or manifest of the
\* former gateway but where a file could not be removed, and no acknowledgement but
\* where NVS did not open.
THEOREM ResetLeavesNothing == PagesSpec => []ResetForgets
<1>1. IInv => ResetForgets
  BY DEF IInv, StateFacts, ForgottenSoFar, ResetForgets
<1> QED
  BY <1>1, Invariant, PTL

\* What a step may do to the persisted manifest.
LEMMA DiskSteps ==
    ASSUME IInv, [PagesNext]_pagesVars
    PROVE  \/ disk' = disk \/ torn' \/ reverted'
           \/ pc # "off" /\ reset = "no" /\ disk' = ram
           \/ pc = "download" /\ reset = "no" /\ disk' = incoming
<1>1. CASE Step
  <2>1. torn' \/ reset = "no"
    BY <1>1 DEF IInv, StateFacts, ResetFacts, Step, Engine
  <2>2. CASE Progress
    BY <2>1, <2>2 DEF Progress, Boot, Starts, Load, CheckDue, NothingDue, AwaitImminent,
       WaitOver, FindDue, ShowCard, AssetMissing, ShowFails, Write, PersistDisplayed, SaveAck, RetryElapsed, StartSync, Download, Install,
       Cleanup, ShowPulse
  <2>3. CASE Failure
    BY <1>1, <2>1, <2>3 DEF Step, Engine, Failure, BootMisreads, Starts, Load, Write,
       WriteFails, ShowFails, PersistDisplayed, SaveAck, DownloadFails,
       InstallFails, ShowPulse, Cleanup
  <2>4. CASE Environment
    BY <2>4 DEF Environment, FetchFails, Fetched, SendAck
  <2> QED
    BY <1>1, <2>2, <2>3, <2>4 DEF Step, Engine
<1>2. CASE InstallUnaware
  BY <1>2 DEF IInv, StateFacts, ResetFacts, InstallUnaware, Engine
<1>3. CASE ResetStep
  BY <1>3 DEF ResetStep, RemoveFiles, CutWhileRemoving, EraseAck, ClearRam,
     ResetEnds, SetUp, vars
<1>4. CASE Reload \/ (\E step \in {1, PageCount - 1} : TurnPage(step)) \/ Cut \/ TimePasses
  BY <1>4 DEF Reload, Load, TurnPage, Cut, PowerLoss, TimePasses, Tick
<1>5. CASE UNCHANGED pagesVars
  BY <1>5 DEF pagesVars, vars
<1> QED
  BY <1>1, <1>2, <1>3, <1>4, <1>5 DEF PagesNext

\* From one persisted manifest to the next a card that was shown or suppressed
\* keeps its flag while the gateway lists it, unless a reset or an unreadable
\* manifest took it away.
THEOREM SettledStay == PagesSpec => SettledKept
<1>1. ASSUME IInv, [PagesNext]_pagesVars
      PROVE  torn' \/ reverted \/ reverted'
                \/ Settled(disk) \cap Ids(disk'.jobs) \subseteq Settled(disk')
  BY <1>1, DiskSteps DEF IInv, StateFacts, FlagsCarried
<1>2. IInv /\ [PagesNext]_pagesVars
        => [torn' \/ reverted \/ reverted'
              \/ Settled(disk) \cap Ids(disk'.jobs) \subseteq Settled(disk')]_pagesVars
  BY <1>1
<1> QED
  BY <1>2, Invariant, PTL DEF PagesSpec, SettledKept

=============================================================================
