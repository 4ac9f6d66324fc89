--------------------------- MODULE DeliveryProofs ---------------------------
(***************************************************************************)
(* JobStore and Delivery, for any number of jobs, any sizes, limits, times *)
(* and faults: what their runs check of the jobs and acknowledgements      *)
(* tables, of the manifest, and of the cards on the screen.                *)
(***************************************************************************)
EXTENDS Delivery, FiniteSetTheorems, SequenceTheorems, TLAPS

\* A call in progress carries an id of its own.
CallsAreNew ==
    /\ \A c \in calls : c.id \notin DOMAIN jobs
    /\ \A c, d \in calls : c.id = d.id => c = d

AcksAreOfJobs == \A j \in Jobs, s \in Terminal : <<j, s>> \in acks => j \in DOMAIN jobs

UniqueImmediate == \A j, k \in Pending(jobs, TRUE) : j = k

IInv == TypeOK /\ CallsAreNew /\ AcksAreOfJobs /\ UniqueImmediate /\ AcksMatchStates

\* At most one element and finite, for the cardinality that OneImmediate states.
LEMMA AtMostOne ==
    ASSUME NEW S, \A x, y \in S : x = y
    PROVE  Cardinality(S) <= 1
<1>1. CASE S = {}
  BY <1>1, FS_EmptySet
<1>2. CASE S # {}
  <2>1. PICK x : x \in S
    BY <1>2
  <2>2. S = {x}
    BY <2>1
  <2> QED
    BY <2>2, FS_Singleton
<1> QED
  BY <1>1, <1>2

\* What create_job stores is a well-formed pending job.
LEMMA NewJobType ==
    ASSUME NEW c \in Call
    PROVE  NewJob(c) \in JobRecord /\ NewJob(c).status = "pending"
  BY DEF NewJob, JobRecord, Call, Statuses

\* Superseding keeps the record and changes pending immediate jobs alone.
LEMMA SupersededType ==
    ASSUME NEW job \in JobRecord
    PROVE  /\ Superseded(job) \in JobRecord
           /\ Superseded(job).immediate = job.immediate
           /\ \/ Superseded(job).status = job.status
              \/ job.status = "pending" /\ Superseded(job).status = "superseded"
           /\ job.immediate => Superseded(job).status # "pending"
  BY DEF Superseded, JobRecord, Statuses

\* The tables start empty.
LEMMA InitEstablishes == Init => IInv
<1> SUFFICES ASSUME Init PROVE IInv
  OBVIOUS
<1>1. DOMAIN jobs = {}
  BY DEF Init
<1>2. TypeOK
  BY <1>1, BoundsAreNaturals DEF Init, TypeOK, Times
<1> QED
  BY <1>1, <1>2 DEF Init, IInv, CallsAreNew, AcksAreOfJobs, UniqueImmediate,
                    Pending, AcksMatchStates

\* However it is answered, a call that ends takes its id with it; a stored job
\* gets that id and has not been acknowledged.
LEMMA CreateKeeps == ASSUME IInv, NEW c \in calls, CreateJob(c) PROVE IInv'
<1> USE DEF IInv
<1>1. c \in Call /\ c.id \in Jobs /\ c.id \notin DOMAIN jobs
  BY DEF TypeOK, Call, CallsAreNew
<1>2. /\ DOMAIN jobs' = DOMAIN jobs \cup {c.id}
      /\ jobs'[c.id] = NewJob(c)
      /\ \A j \in DOMAIN jobs :
            jobs'[j] = IF c.display = 0 THEN Superseded(jobs[j]) ELSE jobs[j]
  BY <1>1 DEF CreateJob
<1>3. /\ NewJob(c) \in JobRecord /\ NewJob(c).status = "pending"
      /\ NewJob(c).immediate = (c.display = 0)
  BY <1>1, NewJobType DEF NewJob
<1>4. \A j \in DOMAIN jobs :
         /\ jobs'[j] \in JobRecord
         /\ jobs'[j].immediate = jobs[j].immediate
         /\ \/ jobs'[j].status = jobs[j].status
            \/ jobs[j].status = "pending" /\ jobs'[j].status = "superseded"
         /\ c.display = 0 /\ jobs[j].immediate => jobs'[j].status # "pending"
  BY <1>2, SupersededType DEF TypeOK
<1>5. calls' \subseteq calls /\ c \notin calls' /\ acks' = acks
  BY DEF CreateJob
<1>6. TypeOK'
  BY <1>1, <1>2, <1>3, <1>4 DEF TypeOK, CreateJob
<1>7. CallsAreNew'
  BY <1>2, <1>5 DEF CallsAreNew
<1>8. AcksAreOfJobs'
  BY <1>2, <1>5 DEF AcksAreOfJobs
<1>9. UniqueImmediate'
  <2> SUFFICES ASSUME NEW j \in Pending(jobs, TRUE)', NEW k \in Pending(jobs, TRUE)'
               PROVE  j = k
    BY DEF UniqueImmediate
  <2>1. CASE c.display = 0
    BY <2>1, <1>2, <1>4 DEF Pending
  <2>2. CASE c.display # 0
    <3>1. NewJob(c).immediate = FALSE
      BY <2>2, <1>3
    <3>2. j # c.id /\ k # c.id
      BY <3>1, <1>2, Zenon DEF Pending
    <3>3. j \in Pending(jobs, TRUE) /\ k \in Pending(jobs, TRUE)
      BY <3>2, <1>2, <1>4 DEF Pending
    <3> QED
      BY <3>3 DEF UniqueImmediate
  <2> QED
    BY <2>1, <2>2
<1>10. AcksMatchStates'
  <2> SUFFICES ASSUME NEW j \in DOMAIN jobs'
               PROVE  {s \in Terminal : <<j, s>> \in acks} =
                        (IF jobs'[j].status \in Terminal THEN {jobs'[j].status} ELSE {})
    BY <1>5 DEF AcksMatchStates
  <2>1. CASE j = c.id
    BY <2>1, <1>1, <1>2, <1>3 DEF AcksAreOfJobs, Terminal
  <2>2. CASE j \in DOMAIN jobs
    BY <2>2, <1>4 DEF AcksMatchStates, Terminal
  <2> QED
    BY <2>1, <2>2, <1>2
<1> QED
  BY <1>6, <1>7, <1>8, <1>9, <1>10

\* Expiry changes pending jobs alone.
LEMMA ExpiryKeeps == ASSUME IInv, BuildManifest PROVE IInv'
<1> USE DEF IInv
<1>1. /\ DOMAIN jobs' = DOMAIN jobs
      /\ calls' = calls /\ acks' = acks /\ clock' = clock
  BY DEF BuildManifest, AfterExpiry
<1>2. \A j \in DOMAIN jobs :
         jobs'[j] = IF Expires(jobs[j]) THEN [jobs[j] EXCEPT !.status = "expired"]
                                        ELSE jobs[j]
  BY DEF BuildManifest, AfterExpiry
<1>3. \A j \in DOMAIN jobs :
         /\ jobs'[j] \in JobRecord
         /\ jobs'[j].immediate = jobs[j].immediate
         /\ \/ jobs'[j].status = jobs[j].status
            \/ jobs[j].status = "pending" /\ jobs'[j].status = "expired"
  <2> SUFFICES ASSUME NEW j \in DOMAIN jobs
               PROVE  /\ jobs'[j] \in JobRecord
                      /\ jobs'[j].immediate = jobs[j].immediate
                      /\ \/ jobs'[j].status = jobs[j].status
                         \/ jobs[j].status = "pending" /\ jobs'[j].status = "expired"
    OBVIOUS
  <2>1. jobs[j] \in JobRecord
    BY DEF TypeOK
  <2>2. CASE Expires(jobs[j])
    BY <2>1, <2>2, <1>2 DEF JobRecord, Statuses, Expires
  <2>3. CASE ~Expires(jobs[j])
    BY <2>1, <2>3, <1>2
  <2> QED
    BY <2>2, <2>3
<1>4. TypeOK'
  BY <1>1, <1>3 DEF TypeOK, BuildManifest
<1>5. CallsAreNew' /\ AcksAreOfJobs'
  BY <1>1 DEF CallsAreNew, AcksAreOfJobs
<1>6. UniqueImmediate'
  BY <1>1, <1>3 DEF UniqueImmediate, Pending
<1>7. AcksMatchStates'
  BY <1>1, <1>3 DEF AcksMatchStates, Terminal
<1> QED
  BY <1>4, <1>5, <1>6, <1>7

\* A recorded acknowledgement is the first of its job.
LEMMA AcknowledgeKeeps ==
    ASSUME IInv, NEW j \in Jobs, NEW state \in Terminal, Acknowledge(j, state)
    PROVE  IInv'
<1> USE DEF IInv
<1>1. CASE AckAnswer(j, state) # "recorded"
  <2>1. UNCHANGED vars
    BY <1>1 DEF Acknowledge, vars
  <2> QED
    BY <2>1 DEF vars, TypeOK, CallsAreNew, AcksAreOfJobs, UniqueImmediate, Pending,
                AcksMatchStates
<1>2. CASE AckAnswer(j, state) = "recorded"
  <2>1. /\ j \in DOMAIN jobs /\ <<j, state>> \notin acks
        /\ jobs[j].status \notin Terminal \cup {"expired"}
    BY <1>2 DEF AckAnswer
  <2>2. /\ DOMAIN jobs' = DOMAIN jobs
        /\ acks' = acks \cup {<<j, state>>}
        /\ version' = version + 1 /\ clock' = clock /\ calls' = calls
        /\ \A k \in DOMAIN jobs : k # j => jobs'[k] = jobs[k]
        /\ jobs'[j] = [jobs[j] EXCEPT !.status = state]
    BY <1>2, <2>1 DEF Acknowledge
  <2>3. /\ jobs'[j] \in JobRecord /\ jobs'[j].status = state
        /\ jobs'[j].immediate = jobs[j].immediate
    BY <2>1, <2>2 DEF TypeOK, JobRecord, Statuses, Terminal
  <2>4. TypeOK'
    BY <2>2, <2>3 DEF TypeOK
  <2>5. CallsAreNew' /\ AcksAreOfJobs'
    BY <2>1, <2>2 DEF CallsAreNew, AcksAreOfJobs
  <2>6. UniqueImmediate'
    <3>1. j \notin Pending(jobs, TRUE)'
      BY <2>3 DEF Pending, Terminal
    <3>2. Pending(jobs, TRUE)' \subseteq Pending(jobs, TRUE)
      BY <3>1, <2>2 DEF Pending
    <3> QED
      BY <3>2 DEF UniqueImmediate
  <2>7. AcksMatchStates'
    <3> SUFFICES ASSUME NEW k \in DOMAIN jobs
                 PROVE  {s \in Terminal : <<k, s>> \in acks'} =
                          (IF jobs'[k].status \in Terminal THEN {jobs'[k].status} ELSE {})
      BY <2>2 DEF AcksMatchStates
    <3>1. CASE k = j
      BY <3>1, <2>1, <2>2, <2>3 DEF AcksMatchStates
    <3>2. CASE k # j
      BY <3>2, <2>2 DEF AcksMatchStates
    <3> QED
      BY <3>1, <3>2
  <2> QED
    BY <2>4, <2>5, <2>6, <2>7
<1> QED
  BY <1>1, <1>2

\* A call is accepted, dropped, or time passes: the tables stay.
LEMMA CallsKeep ==
    ASSUME IInv, UNCHANGED <<jobs, acks>>, TypeOK', CallsAreNew'
    PROVE  IInv'
  BY DEF IInv, AcksAreOfJobs, UniqueImmediate, Pending, AcksMatchStates

\* Every action preserves the invariant.
LEMMA NextPreserves == IInv /\ [Next]_vars => IInv'
<1> SUFFICES ASSUME IInv, [Next]_vars PROVE IInv'
  OBVIOUS
<1>1. CASE Tick
  <2>1. TypeOK'
    BY <1>1, BoundsAreNaturals DEF IInv, TypeOK, Tick, Times
  <2> QED
    BY <1>1, <2>1, CallsKeep DEF Tick, IInv, CallsAreNew
<1>2. ASSUME NEW id \in Jobs, NEW display \in Times, NEW expires \in Times,
             AcceptCard(id, display, expires)
      PROVE  IInv'
  <2>1. TypeOK'
    BY <1>2 DEF IInv, TypeOK, AcceptCard, Call
  <2>2. CallsAreNew'
    BY <1>2 DEF IInv, CallsAreNew, AcceptCard
  <2> QED
    BY <1>2, <2>1, <2>2, CallsKeep DEF AcceptCard
<1>3. ASSUME NEW c \in calls, DropCall(c) PROVE IInv'
  <2>1. TypeOK' /\ CallsAreNew'
    BY <1>3 DEF IInv, TypeOK, DropCall, CallsAreNew
  <2> QED
    BY <1>3, <2>1, CallsKeep DEF DropCall
<1>4. ASSUME NEW c \in calls, CreateJob(c) PROVE IInv'
  BY <1>4, CreateKeeps
<1>5. CASE BuildManifest
  BY <1>5, ExpiryKeeps
<1>6. ASSUME NEW j \in Jobs, NEW state \in Terminal, Acknowledge(j, state) PROVE IInv'
  BY <1>6, AcknowledgeKeeps
<1>7. CASE UNCHANGED vars
  <2>1. TypeOK' /\ CallsAreNew'
    BY <1>7 DEF IInv, TypeOK, vars, CallsAreNew
  <2> QED
    BY <1>7, <2>1, CallsKeep DEF vars
<1> QED
  BY <1>1, <1>2, <1>3, <1>4, <1>5, <1>6, <1>7 DEF Next

LEMMA Inductive == Spec => []IInv
  BY InitEstablishes, NextPreserves, PTL DEF Spec

\* Every variable stays in its type, whatever calls, acknowledgements and
\* manifest requests arrive (store.py's tables).
THEOREM Typed == Spec => []TypeOK
<1>1. IInv => TypeOK
  BY DEF IInv
<1> QED
  BY <1>1, Inductive, PTL

\* At most one immediate card is pending, for any number of overlapping
\* show_card calls: create_job supersedes the others in its own transaction.
THEOREM OneAtATime == Spec => []OneImmediate
<1>1. IInv => OneImmediate
  BY AtMostOne DEF IInv, UniqueImmediate, OneImmediate
<1> QED
  BY <1>1, Inductive, PTL

\* The acknowledgements table and the states in the jobs table never disagree:
\* acknowledge writes both or neither, and no other statement leaves a state
\* that was acknowledged.
THEOREM AcksAgree == Spec => []AcksMatchStates
<1>1. IInv => AcksMatchStates
  BY DEF IInv
<1> QED
  BY <1>1, Inductive, PTL

\* What FinalStates asks of one step, as a formula of its own.
JobsGoOn ==
    \A j \in DOMAIN jobs :
        /\ j \in DOMAIN jobs'
        /\ jobs[j].status \in Terminal \cup {"expired"}
              => jobs'[j].status = jobs[j].status
        /\ jobs[j].status = "superseded"
              => jobs'[j].status \in Terminal \cup {"superseded"}

\* Storing and expiring change pending jobs alone; an acknowledgement of a
\* terminal or expired job is not recorded.
LEMMA StepGoesOn == ASSUME IInv, [Next]_vars PROVE JobsGoOn
<1>1. CASE UNCHANGED <<jobs>>
  BY <1>1 DEF JobsGoOn
<1>2. ASSUME NEW c \in calls, CreateJob(c) PROVE JobsGoOn
  <2> SUFFICES ASSUME NEW j \in DOMAIN jobs
               PROVE  /\ j \in DOMAIN jobs'
                      /\ jobs[j].status # "pending" => jobs'[j].status = jobs[j].status
    BY DEF JobsGoOn, Terminal
  <2>1. j # c.id
    BY DEF IInv, CallsAreNew
  <2>2. /\ j \in DOMAIN jobs'
        /\ jobs'[j] = IF c.display = 0 THEN Superseded(jobs[j]) ELSE jobs[j]
    BY <1>2, <2>1 DEF CreateJob
  <2>3. jobs[j] \in JobRecord
    BY DEF IInv, TypeOK
  <2> QED
    BY <2>2, <2>3, SupersededType
<1>3. CASE BuildManifest
  BY <1>3 DEF BuildManifest, AfterExpiry, Expires, JobsGoOn, Terminal
<1>4. ASSUME NEW j \in Jobs, NEW state \in Terminal, Acknowledge(j, state)
      PROVE  JobsGoOn
  <2>1. CASE AckAnswer(j, state) = "recorded"
    <3>1. j \in DOMAIN jobs /\ jobs[j].status \notin Terminal \cup {"expired"}
      BY <2>1 DEF AckAnswer
    <3>2. /\ DOMAIN jobs' = DOMAIN jobs
          /\ \A k \in DOMAIN jobs : k # j => jobs'[k] = jobs[k]
          /\ jobs'[j] = [jobs[j] EXCEPT !.status = state]
      BY <1>4, <2>1, <3>1 DEF Acknowledge
    <3>3. jobs'[j].status = state
      BY <3>1, <3>2 DEF IInv, TypeOK, JobRecord
    <3> QED
      BY <3>1, <3>2, <3>3 DEF JobsGoOn
  <2>2. CASE AckAnswer(j, state) # "recorded"
    BY <1>1, <1>4, <2>2 DEF Acknowledge
  <2> QED
    BY <2>1, <2>2
<1> QED
  BY <1>1, <1>2, <1>3, <1>4 DEF Next, Tick, AcceptCard, DropCall, vars

\* No later call, acknowledgement or expiry takes a job out of a state it ended
\* in: the conflict answer of acknowledge and the status conditions of the
\* updates guard every job, for any number of them.
THEOREM StatesAreFinal == Spec => FinalStates
<1>1. IInv /\ [Next]_vars => [JobsGoOn]_vars
  BY StepGoesOn
<1>2. Spec => [][JobsGoOn]_vars
  BY <1>1, Inductive, PTL DEF Spec
<1> QED
  BY <1>2 DEF FinalStates, JobsGoOn

-----------------------------------------------------------------------------
(* Lists and loops *)

\* The lemmas of PulsePagesProofs hold of the device that Delivery composes: they
\* are about manifests and about one step, so what is constant there is free.
Pages == INSTANCE PulsePagesProofs
    WITH now <- clock, Cards <- Jobs, Pulses <- {}, Offered <- {}, MaxResets <- 0,
         page <- 0, loaded <- TRUE, had <- {}, reset <- "no", resets <- 0,
         missed <- FALSE, beside <- FALSE, torn <- FALSE, failed <- {}, reverted <- FALSE

\* Its assumptions, for these values.
LEMMA PagesApply == /\ None \notin Jobs \cup {} /\ Jobs \cap {} = {}
                    /\ None \notin Pages!Manifest /\ {} \subseteq Pages!Manifest
                    /\ None \notin Pages!Picked /\ 0 \in Nat
<1>1. Device!Manifest = Pages!Manifest
  BY Zenon DEF Device!Manifest, Pages!Manifest, Device!Windows, Pages!Windows
<1>2. Device!Picked = Pages!Picked
  BY Zenon DEF Device!Picked, Pages!Picked
<1> QED
  BY <1>1, <1>2, NoneIsNoJob, NoneIsNoManifest, NoneIsNotPicked

\* What holds of 0 and passes from each index to the next holds up to n.
LEMMA Induction ==
    ASSUME NEW n \in Nat, NEW T \in SUBSET (0..n), 0 \in T,
           \A i \in 1..n : i - 1 \in T => i \in T
    PROVE  T = 0..n
  BY PagesApply, Pages!Induction

\* A loop of n turns has a value after each of them.
HasValues(S, start, n, turn) ==
    \E f \in [0..n -> S] : /\ f[0] = start
                           /\ \A i \in 1..n : f[i] = turn[i][f[i - 1]]

LEMMA LoopValues ==
    ASSUME NEW S, NEW start \in S, NEW n \in Nat, NEW turn \in [1..n -> [S -> S]]
    PROVE  HasValues(S, start, n, turn)
  BY PagesApply, Pages!LoopValues DEF HasValues

\* What is ordered by the elements that come before each is listed once, and
\* nothing else is: on n elements no two have as many before them, so each of
\* 0..n-1 is the number of some element.
LEMMA InOrderLists ==
    ASSUME NEW S, IsFiniteSet(S), NEW before \in [S -> SUBSET S],
           \A x \in S : x \notin before[x],
           \A x, y \in S : x = y \/ x \in before[y] \/ y \in before[x],
           \A x, y \in S : x \in before[y] => before[x] \subseteq before[y]
    PROVE  /\ Cardinality(S) \in Nat
           /\ InOrder(S, before) \in [1..Cardinality(S) -> S]
           /\ IsInjective(InOrder(S, before))
           /\ \A i, k \in 1..Cardinality(S) :
                 i < k => InOrder(S, before)[i] \in before[InOrder(S, before)[k]]
<1> DEFINE n == Cardinality(S)
           rank == [x \in S |-> Cardinality(before[x])]
<1>1. n \in Nat
  BY FS_CardinalityType
<1>2. \A x \in S : /\ IsFiniteSet(before[x]) /\ Cardinality(before[x]) \in Nat
                   /\ Cardinality(before[x]) < n
  <2> TAKE x \in S
  <2>1. before[x] \in SUBSET S /\ before[x] # S
    OBVIOUS
  <2>2. IsFiniteSet(before[x]) /\ Cardinality(before[x]) <= n /\ Cardinality(before[x]) # n
    BY <2>1, FS_Subset
  <2>3. Cardinality(before[x]) \in Nat
    BY <2>2, FS_CardinalityType
  <2> QED
    BY <1>1, <2>2, <2>3
<1>3. \A x, y \in S : x \in before[y] => rank[x] # rank[y]
  <2> TAKE x, y \in S
  <2> HAVE x \in before[y]
  <2>1. before[x] \in SUBSET before[y] /\ before[x] # before[y]
    OBVIOUS
  <2> QED
    BY <1>2, <2>1, FS_Subset
<1>4. rank \in Injection(S, 0..(n - 1))
  <2>1. rank \in [S -> 0..(n - 1)]
    BY <1>1, <1>2
  <2>2. IsInjective(rank)
    BY <1>3 DEF IsInjective
  <2> QED
    BY <2>1, <2>2 DEF Injection
<1>5. IsFiniteSet(0..(n - 1)) /\ Cardinality(0..(n - 1)) = n
  <2>1. 0 \in Int /\ n - 1 \in Int /\ (0 > n - 1 => n = 0)
    BY <1>1
  <2>2. IsFiniteSet(0..(n - 1)) /\ Cardinality(0..(n - 1)) = IF 0 > n - 1 THEN 0 ELSE n - 1 - 0 + 1
    BY <2>1, FS_Interval
  <2> QED
    BY <1>1, <2>1, <2>2
<1>6. rank \in Surjection(S, 0..(n - 1))
  BY <1>4, <1>5, FS_Injection
<1> DEFINE at(i) == CHOOSE x \in S : Cardinality(before[x]) = i - 1
<1>7. \A i \in 1..n : at(i) \in S /\ rank[at(i)] = i - 1
  <2> TAKE i \in 1..n
  <2>1. i - 1 \in 0..(n - 1)
    BY <1>1
  <2>2. \E x \in S : rank[x] = i - 1
    BY <1>6, <2>1 DEF Surjection
  <2>3. \E x \in S : Cardinality(before[x]) = i - 1
    BY <2>2
  <2>4. at(i) \in S /\ Cardinality(before[at(i)]) = i - 1
    BY <2>3, Zenon
  <2> QED
    BY <2>4
<1>8. InOrder(S, before) = [i \in 1..n |-> at(i)]
  BY DEF InOrder
<1> HIDE DEF at
<1>11. \A x, y \in S : x \in before[y] => rank[x] <= rank[y]
  <2> TAKE x, y \in S
  <2> HAVE x \in before[y]
  <2>1. before[x] \in SUBSET before[y]
    OBVIOUS
  <2> QED
    BY <1>2, <2>1, FS_Subset
<1> HIDE DEF n, rank
<1>12. ASSUME NEW i \in 1..n, NEW k \in 1..n, i < k PROVE at(i) \in before[at(k)]
  <2>1. at(i) \in S /\ at(k) \in S /\ rank[at(i)] = i - 1 /\ rank[at(k)] = k - 1
    BY <1>7
  <2>2. ~(rank[at(k)] <= rank[at(i)]) /\ at(i) # at(k)
    BY <1>1, <1>12, <2>1
  <2>3. at(k) \notin before[at(i)]
    BY <1>11, <2>1, <2>2, Zenon
  <2> QED
    BY <2>1, <2>2, <2>3, Zenon
<1>9. InOrder(S, before) \in [1..n -> S]
  BY <1>7, <1>8
<1>10. IsInjective(InOrder(S, before))
  <2> SUFFICES ASSUME NEW i \in 1..n, NEW k \in 1..n, at(i) = at(k) PROVE i = k
    BY <1>8 DEF IsInjective
  <2>1. i - 1 = k - 1
    BY <1>7
  <2> QED
    BY <1>1, <2>1
<1>13. \A i, k \in 1..n : i < k => InOrder(S, before)[i] \in before[InOrder(S, before)[k]]
  BY <1>8, <1>12
<1> QED
  BY <1>1, <1>9, <1>10, <1>13 DEF n

LEMMA BytesTurns ==
    ASSUME NEW rows \in Seq(Jobs)
    PROVE  \E f : /\ f \in [0..Len(rows) -> Nat]
                 /\ Bytes(rows) = f[Len(rows)]
                 /\ f[0] = 0
                 /\ \A i \in 1..Len(rows) : f[i] = f[i - 1] + Size[rows[i]]
<1> DEFINE turn == [i \in 1..Len(rows) |-> [x \in Nat |-> x + Size[rows[i]]]]
           n == Len(rows)
           IsLoop(f) == f = [i \in 0..Len(rows) |->
                               IF i = 0 THEN 0 ELSE f[i - 1] + Size[rows[i]]]
           u == CHOOSE f : IsLoop(f)
<1>1. n \in Nat /\ \A i \in 1..n : rows[i] \in Jobs
  OBVIOUS
<1>2. turn \in [1..n -> [Nat -> Nat]]
  BY <1>1, AssetsFitAlone
<1>3. \A i \in 1..n, x \in Nat : turn[i][x] = x + Size[rows[i]]
  OBVIOUS
<1> HIDE DEF turn, n
<1>4. PICK f \in [0..n -> Nat] : f[0] = 0 /\ \A i \in 1..n : f[i] = turn[i][f[i - 1]]
  <2> DEFINE Q == Nat
             zero == 0
  <2>1. zero \in Q /\ n \in Nat /\ turn \in [1..n -> [Q -> Q]]
    BY <1>1, <1>2
  <2>2. zero = 0 /\ Q = Nat
    OBVIOUS
  <2> HIDE DEF Q, zero
  <2>3. HasValues(Q, zero, n, turn)
    BY <2>1, LoopValues
  <2> QED
    BY <2>2, <2>3 DEF HasValues
<1>5. \A i \in 1..n : f[i] = f[i - 1] + Size[rows[i]]
  <2> TAKE i \in 1..n
  <2>1. f[i - 1] \in Nat
    BY <1>1
  <2> QED
    BY <1>3, <1>4, <2>1
<1>6. IsLoop(f)
  <2>1. \A i \in 0..n : f[i] = IF i = 0 THEN 0 ELSE f[i - 1] + Size[rows[i]]
    <3> TAKE i \in 0..n
    <3>1. CASE i = 0
      BY <3>1, <1>4
    <3>2. CASE i # 0
      <4>1. i \in 1..n
        BY <3>2, <1>1
      <4> QED
        BY <4>1, <3>2, <1>5
    <3> QED
      BY <3>1, <3>2
  <2> QED
    BY <2>1 DEF n
<1>7. IsLoop(u)
  BY <1>6, Zenon
<1>8. Bytes(rows) = u[n]
  BY Zenon DEF Bytes, n
<1> HIDE DEF u
<1>9. u[0] = 0 /\ \A i \in 1..n : u[i] = u[i - 1] + Size[rows[i]]
  <2>1. 0 \in 0..n /\ \A i \in 1..n : i \in 0..n /\ i # 0
    BY <1>1
  <2> QED
    BY <2>1, <1>7 DEF n
<1> DEFINE T == {i \in 0..n : u[i] = f[i]}
<1>10. T = 0..n
  <2>1. 0 \in T
    BY <1>1, <1>4, <1>9
  <2>2. ASSUME NEW i \in 1..n, i - 1 \in T PROVE i \in T
    BY <2>2, <1>1, <1>5, <1>9
  <2>3. T \in SUBSET (0..n)
    OBVIOUS
  <2> HIDE DEF T
  <2> QED
    BY <2>1, <2>2, <2>3, <1>1, Induction
<1>11. Bytes(rows) = f[n]
  BY <1>1, <1>8, <1>10
<1> QED
  BY <1>4, <1>5, <1>11 DEF n

\* One row more is its size more.
LEMMA BytesAppend ==
    /\ Bytes(<<>>) = 0
    /\ \A rows \in Seq(Jobs) : Bytes(rows) \in Nat
    /\ \A rows \in Seq(Jobs), j \in Jobs : Bytes(Append(rows, j)) = Bytes(rows) + Size[j]
<1>1. \A rows \in Seq(Jobs) : Bytes(rows) \in Nat
  <2> TAKE rows \in Seq(Jobs)
  <2>1. PICK f : f \in [0..Len(rows) -> Nat] /\ Bytes(rows) = f[Len(rows)]
    BY BytesTurns
  <2>2. Len(rows) \in 0..Len(rows)
    BY LenProperties
  <2> QED
    BY <2>1, <2>2
<1>2. Bytes(<<>>) = 0
  <2>1. <<>> \in Seq(Jobs) /\ Len(<<>>) = 0
    OBVIOUS
  <2>2. PICK f : Bytes(<<>>) = f[Len(<<>>)] /\ f[0] = 0
    BY <2>1, BytesTurns
  <2> QED
    BY <2>1, <2>2
<1>3. ASSUME NEW rows \in Seq(Jobs), NEW j \in Jobs
      PROVE  Bytes(Append(rows, j)) = Bytes(rows) + Size[j]
  <2> DEFINE more == Append(rows, j)
  <2>1. PICK n \in Nat : n = Len(rows)
    BY LenProperties
  <2>2. more \in Seq(Jobs) /\ Len(more) = n + 1 /\ more[n + 1] = j
        /\ \A i \in 1..n : more[i] = rows[i]
    BY <2>1, AppendProperties
  <2> HIDE DEF more
  <2>3. PICK f : /\ Bytes(rows) = f[n] /\ f[0] = 0
                 /\ \A i \in 1..n : f[i] = f[i - 1] + Size[rows[i]]
    BY <2>1, BytesTurns
  <2>4. PICK g : /\ Bytes(more) = g[n + 1] /\ g[0] = 0
                 /\ \A i \in 1..n + 1 : g[i] = g[i - 1] + Size[more[i]]
    <3>1. \E g : /\ Bytes(more) = g[Len(more)] /\ g[0] = 0
                 /\ \A i \in 1..Len(more) : g[i] = g[i - 1] + Size[more[i]]
      <4>1. more \in Seq(Jobs)
        BY <2>2
      <4>2. \E g : /\ g \in [0..Len(more) -> Nat]
                   /\ Bytes(more) = g[Len(more)] /\ g[0] = 0
                   /\ \A i \in 1..Len(more) : g[i] = g[i - 1] + Size[more[i]]
        BY <4>1, BytesTurns, Zenon
      <4> QED
        BY <4>2, Zenon
    <3> QED
      BY <2>2, <3>1
  <2> DEFINE T == {i \in 0..n : f[i] = g[i]}
  <2>5. T = 0..n
    <3>1. 0 \in T
      BY <2>3, <2>4
    <3>2. ASSUME NEW i \in 1..n, i - 1 \in T PROVE i \in T
      <4>1. i \in 1..n + 1 /\ i \in 0..n
        OBVIOUS
      <4>2. f[i - 1] = g[i - 1]
        BY <3>2
      <4>3. f[i] = f[i - 1] + Size[more[i]] /\ g[i] = g[i - 1] + Size[more[i]]
        BY <4>1, <2>2, <2>3, <2>4
      <4> QED
        BY <4>1, <4>2, <4>3
    <3>3. T \in SUBSET (0..n)
      OBVIOUS
    <3> HIDE DEF T
    <3> QED
      BY <3>1, <3>2, <3>3, Induction
  <2>6. f[n] = g[n] /\ n + 1 \in 1..n + 1 /\ n + 1 - 1 = n
    BY <2>5
  <2> QED
    BY <2>2, <2>3, <2>4, <2>6 DEF more
<1> QED
  BY <1>1, <1>2, <1>3

-----------------------------------------------------------------------------
(* The manifest *)

\* A table as the database may hold it: finitely many jobs, of which at most one
\* immediate one is pending.
Proper(table) ==
    /\ DOMAIN table \subseteq Jobs /\ IsFiniteSet(DOMAIN table)
    /\ \A j \in DOMAIN table : table[j] \in JobRecord
    /\ \A j, k \in Pending(table, TRUE) : j = k

LEMMA ScheduledFacts ==
    ASSUME NEW table, Proper(table), NEW now
    PROVE  /\ ScheduledRows(table, now) \in Seq(Jobs)
           /\ IsInjective(ScheduledRows(table, now))
           /\ \A i \in 1..Len(ScheduledRows(table, now)) :
                 /\ ScheduledRows(table, now)[i] \in Pending(table, FALSE)
                 /\ table[ScheduledRows(table, now)[i]].display <= now + Horizon
           /\ \A i, k \in 1..Len(ScheduledRows(table, now)) :
                 i < k => Earlier(table, ScheduledRows(table, now)[i],
                                         ScheduledRows(table, now)[k])
<1> DEFINE waiting == {j \in Pending(table, FALSE) : table[j].display <= now + Horizon}
           before == [j \in waiting |-> {k \in waiting : Earlier(table, k, j)}]
<1>1. waiting \subseteq DOMAIN table /\ waiting \subseteq Jobs
  BY DEF Proper, Pending
<1>2. IsFiniteSet(waiting)
  BY <1>1, FS_Subset DEF Proper
<1>3. \A j \in waiting : /\ j \in Nat /\ table[j].display \in Nat /\ table[j].created \in Nat
  <2> HIDE DEF waiting
  <2> TAKE j \in waiting
  <2>1. j \in Nat /\ table[j] \in JobRecord
    BY <1>1, JobsAreNaturals DEF Proper
  <2>2. \A t \in Times : t \in Nat
    BY BoundsAreNaturals DEF Times
  <2> QED
    BY <2>1, <2>2 DEF JobRecord
<1>4. \A x \in waiting : x \notin before[x]
  <2> HIDE DEF waiting
  <2> QED
    BY <1>3 DEF Earlier
<1>5. \A x, y \in waiting : x = y \/ x \in before[y] \/ y \in before[x]
  <2> HIDE DEF waiting
  <2> QED
    BY <1>3 DEF Earlier
<1>6. \A x, y \in waiting : x \in before[y] => before[x] \subseteq before[y]
  <2> SUFFICES ASSUME NEW x \in waiting, NEW y \in waiting, NEW z \in waiting,
                      Earlier(table, x, y), Earlier(table, z, x)
               PROVE  Earlier(table, z, y)
    OBVIOUS
  <2> HIDE DEF waiting
  <2> QED
    BY <1>3 DEF Earlier
<1>7. before \in [waiting -> SUBSET waiting]
  OBVIOUS
<1>8. ScheduledRows(table, now) = InOrder(waiting, before)
  BY DEF ScheduledRows
<1>13. \A x, y \in waiting : x \in before[y] => Earlier(table, x, y)
  OBVIOUS
<1> HIDE DEF before, waiting
<1>9. /\ Cardinality(waiting) \in Nat /\ InOrder(waiting, before) \in [1..Cardinality(waiting) -> waiting]
      /\ IsInjective(InOrder(waiting, before))
      /\ \A i, k \in 1..Cardinality(waiting) :
            i < k => InOrder(waiting, before)[i] \in before[InOrder(waiting, before)[k]]
  BY <1>2, <1>4, <1>5, <1>6, <1>7, InOrderLists
<1>10. InOrder(waiting, before) \in Seq(waiting)
  BY <1>9
<1> DEFINE rows == InOrder(waiting, before)
<1>11. rows \in Seq(waiting) /\ Len(rows) = Cardinality(waiting)
       /\ \A i, k \in 1..Cardinality(waiting) : i < k => rows[i] \in before[rows[k]]
  BY <1>9, <1>10
<1> HIDE DEF rows
<1>12. rows \in Seq(Jobs) /\ \A i \in 1..Len(rows) : rows[i] \in waiting
  BY <1>1, <1>11
<1>14. \A i, k \in 1..Len(rows) : i < k => Earlier(table, rows[i], rows[k])
  BY <1>11, <1>12, <1>13
<1> QED
  BY <1>8, <1>9, <1>12, <1>14 DEF waiting, rows

\* The immediate card first, then rows in the order of the first i scheduled.
OrderedFrom(table, scheduled, i, rows) ==
    \A a, b \in 1..Len(rows) : a < b =>
        /\ rows[b] \in Pending(table, FALSE)
        /\ \/ rows[a] \in Pending(table, TRUE)
           \/ \E m, l \in 1..i : m < l /\ rows[a] = scheduled[m] /\ rows[b] = scheduled[l]

\* What a list of the manifest has after some of the scheduled rows.
Fitting(table, scheduled, i, rows) ==
    /\ rows \in Seq(Jobs)
    /\ IsInjective(rows)
    /\ Len(rows) <= Limit
    /\ Bytes(rows) <= MaxBytes
    /\ Pending(table, TRUE) \subseteq ToSet(rows)
    /\ \A k \in 1..Len(rows) : \/ rows[k] \in Pending(table, TRUE)
                               \/ \E m \in 1..i : rows[k] = scheduled[m]
    /\ OrderedFrom(table, scheduled, i, rows)

LEMMA FirstFits ==
    ASSUME NEW table, Proper(table), NEW scheduled
    PROVE  Fitting(table, scheduled, 0, SetToSeq(NewestImmediate(table)))
<1> DEFINE rows == SetToSeq(NewestImmediate(table))
<1>1. NewestImmediate(table) = Pending(table, TRUE) /\ Pending(table, TRUE) \subseteq Jobs
  <2>1. Pending(table, TRUE) \subseteq Jobs
    BY DEF Proper, Pending
  <2>2. \A j, k \in Pending(table, TRUE) : j = k /\ k <= j
    <3>1. \A j, k \in Pending(table, TRUE) : j = k
      BY DEF Proper
    <3>2. \A j \in Jobs : j <= j
      BY JobsAreNaturals
    <3>3. \A j \in Pending(table, TRUE) : j <= j
      BY <2>1, <3>2, Zenon
    <3> QED
      BY <3>1, <3>3, Zenon
  <2> QED
    BY <2>1, <2>2 DEF NewestImmediate
<1>2. Limit \in Nat /\ Limit >= 1 /\ MaxBytes \in Nat
  BY BoundsAreNaturals
<1>3. CASE Pending(table, TRUE) = {}
  <2>1. rows = CHOOSE f \in [1..0 -> {}] : IsInjective(f)
    BY <1>1, <1>3, FS_EmptySet DEF SetToSeq
  <2>2. \E f \in [1..0 -> {}] : IsInjective(f)
    <3>1. [i \in 1..0 |-> i] \in [1..0 -> {}] /\ IsInjective([i \in 1..0 |-> i])
      BY DEF IsInjective
    <3> QED
      BY <3>1, Zenon
  <2>3. rows \in [1..0 -> {}] /\ IsInjective(rows)
    BY <2>1, <2>2, Zenon
  <2>4. rows = <<>>
    BY <2>3
  <2> HIDE DEF rows
  <2>5. rows \in Seq(Jobs) /\ Len(rows) = 0 /\ Bytes(rows) = 0 /\ 1..Len(rows) = {}
    BY <2>4, BytesAppend
  <2>6. Fitting(table, scheduled, 0, rows)
    <3>1. Len(rows) <= Limit /\ Bytes(rows) <= MaxBytes
      BY <1>2, <2>5
    <3>2. Pending(table, TRUE) \subseteq ToSet(rows)
      BY <1>3
    <3>3. OrderedFrom(table, scheduled, 0, rows)
      BY <2>5 DEF OrderedFrom
    <3> QED
      BY <2>3, <2>5, <3>1, <3>2, <3>3 DEF Fitting
  <2> QED
    BY <2>6 DEF rows
<1>4. CASE Pending(table, TRUE) # {}
  <2>1. PICK x : x \in Pending(table, TRUE)
    BY <1>4
  <2>2. Pending(table, TRUE) = {x} /\ x \in Jobs
    BY <1>1, <2>1 DEF Proper
  <2>3. rows = CHOOSE f \in [1..1 -> {x}] : IsInjective(f)
    BY <1>1, <2>2, FS_Singleton DEF SetToSeq
  <2>4. \E f \in [1..1 -> {x}] : IsInjective(f)
    <3>1. [i \in 1..1 |-> x] \in [1..1 -> {x}] /\ IsInjective([i \in 1..1 |-> x])
      BY DEF IsInjective
    <3> QED
      BY <3>1, Zenon
  <2>5. rows \in [1..1 -> {x}] /\ IsInjective(rows)
    BY <2>3, <2>4, Zenon
  <2> HIDE DEF rows
  <2>6. rows \in Seq(Jobs) /\ Len(rows) = 1 /\ rows[1] = x /\ DOMAIN rows = 1..1
    <3>1. rows \in Seq({x})
      <4>1. rows = [i \in 1..1 |-> x]
        BY <2>5
      <4> QED
        BY <4>1
    <3>2. rows \in Seq(Jobs)
      BY <2>2, <3>1, SeqMonotonic
    <3> QED
      BY <2>5, <3>2
  <2>7. rows = Append(<<>>, x)
    BY <2>6
  <2>8. Bytes(rows) <= MaxBytes
    <3>1. <<>> \in Seq(Jobs)
      OBVIOUS
    <3>2. Bytes(rows) = 0 + Size[x]
      BY <2>2, <2>7, <3>1, BytesAppend
    <3> QED
      BY <1>2, <2>2, <3>2, AssetsFitAlone
  <2>9. {x} \subseteq ToSet(rows)
    BY <2>6 DEF ToSet
  <2>11. OrderedFrom(table, scheduled, 0, rows)
    BY <2>6 DEF OrderedFrom
  <2>10. Fitting(table, scheduled, 0, rows)
    BY <1>2, <2>2, <2>5, <2>6, <2>8, <2>9, <2>11 DEF Fitting
  <2> QED
    BY <2>10 DEF rows
<1> QED
  BY <1>3, <1>4

LEMMA MoreRows ==
    ASSUME NEW table, NEW scheduled, NEW i, NEW k, 1..i \subseteq 1..k,
           NEW rows, OrderedFrom(table, scheduled, i, rows)
    PROVE  OrderedFrom(table, scheduled, k, rows)
<1> SUFFICES ASSUME NEW a \in 1..Len(rows), NEW b \in 1..Len(rows), a < b
             PROVE  /\ rows[b] \in Pending(table, FALSE)
                    /\ \/ rows[a] \in Pending(table, TRUE)
                       \/ \E m, l \in 1..k :
                             m < l /\ rows[a] = scheduled[m] /\ rows[b] = scheduled[l]
  BY Zenon DEF OrderedFrom
<1>1. /\ rows[b] \in Pending(table, FALSE)
      /\ \/ rows[a] \in Pending(table, TRUE)
         \/ \E m, l \in 1..i : m < l /\ rows[a] = scheduled[m] /\ rows[b] = scheduled[l]
  BY Zenon DEF OrderedFrom
<1>2. \A m \in 1..i : m \in 1..k
  OBVIOUS
<1> QED
  BY <1>1, <1>2, Zenon

\* The next row is in none of the places before it.
LEMMA AddFits ==
    ASSUME NEW table, NEW scheduled \in Seq(Jobs), IsInjective(scheduled),
           \A m \in 1..Len(scheduled) : scheduled[m] \in Pending(table, FALSE),
           NEW i \in 1..Len(scheduled),
           NEW rows, Fitting(table, scheduled, i - 1, rows)
    PROVE  Fitting(table, scheduled, i, AddRow(rows, scheduled[i]))
<1> DEFINE j == scheduled[i]
<1>1. j \in Jobs /\ DOMAIN scheduled = 1..Len(scheduled) /\ i \in Nat /\ i >= 1
  OBVIOUS
<1>2. PICK n \in Nat : n = Len(rows)
  BY DEF Fitting
<1>3. \A k \in 1..n : rows[k] # j
  <2> SUFFICES ASSUME NEW k \in 1..n, rows[k] = j PROVE FALSE
    OBVIOUS
  <2>1. CASE rows[k] \in Pending(table, TRUE)
    BY <2>1 DEF Pending
  <2>2. CASE \E m \in 1..i - 1 : rows[k] = scheduled[m]
    <3>1. PICK m \in 1..i - 1 : scheduled[i] = scheduled[m]
      BY <2>2
    <3>2. m \in DOMAIN scheduled /\ i \in DOMAIN scheduled /\ m # i
      BY <1>1
    <3> QED
      BY <3>1, <3>2 DEF IsInjective
  <2> QED
    BY <1>2, <2>1, <2>2 DEF Fitting
<1>4. CASE Len(rows) >= Limit \/ Bytes(rows) + Size[j] > MaxBytes
  <2>1. AddRow(rows, j) = rows
    BY <1>4 DEF AddRow
  <2>2. \A m \in 1..i - 1 : m \in 1..i
    OBVIOUS
  <2>3. OrderedFrom(table, scheduled, i - 1, rows)
    BY DEF Fitting
  <2>4. OrderedFrom(table, scheduled, i, rows)
    BY <2>2, <2>3, MoreRows
  <2> QED
    BY <2>1, <2>2, <2>4 DEF Fitting
<1>5. CASE ~ (Len(rows) >= Limit \/ Bytes(rows) + Size[j] > MaxBytes)
  <2> DEFINE more == Append(rows, j)
  <2>1. AddRow(rows, j) = more
    BY <1>5 DEF AddRow
  <2>2. rows \in Seq(Jobs) /\ DOMAIN rows = 1..n
    BY <1>2 DEF Fitting
  <2>3. more \in Seq(Jobs) /\ Len(more) = n + 1 /\ more[n + 1] = j /\ DOMAIN more = 1..n + 1
        /\ \A k \in 1..n : more[k] = rows[k]
    BY <1>1, <1>2, <2>2, AppendProperties
  <2>4. Bytes(more) = Bytes(rows) + Size[j] /\ Bytes(rows) \in Nat
    BY <1>1, <2>2, BytesAppend
  <2> HIDE DEF j, more
  <2>5. IsInjective(more)
    <3> SUFFICES ASSUME NEW a \in 1..n + 1, NEW b \in 1..n + 1, more[a] = more[b]
                 PROVE  a = b
      BY <2>3 DEF IsInjective
    <3>1. CASE a \in 1..n /\ b \in 1..n
      BY <3>1, <2>2, <2>3 DEF Fitting, IsInjective
    <3>2. CASE a = n + 1 /\ b \in 1..n
      BY <3>2, <1>3, <2>3
    <3>3. CASE b = n + 1 /\ a \in 1..n
      BY <3>3, <1>3, <2>3
    <3> QED
      BY <3>1, <3>2, <3>3
  <2>6. Len(more) <= Limit /\ Bytes(more) <= MaxBytes
    BY <1>1, <1>2, <1>5, <2>3, <2>4, BoundsAreNaturals, AssetsFitAlone, SMTT(30)
  <2>7. ToSet(rows) \subseteq ToSet(more)
    BY <2>2, <2>3 DEF ToSet
  <2>8. \A k \in 1..n + 1 : \/ more[k] \in Pending(table, TRUE)
                          \/ \E m \in 1..i : more[k] = scheduled[m]
    <3> TAKE k \in 1..n + 1
    <3>1. CASE k = n + 1
      <4>1. more[k] = scheduled[i] /\ i \in 1..i
        BY <3>1, <1>1, <2>3 DEF j
      <4> QED
        BY <4>1
    <3>2. CASE k \in 1..n
      <4>1. \A m \in 1..i - 1 : m \in 1..i
        OBVIOUS
      <4> QED
        BY <3>2, <4>1, <1>2, <2>3 DEF Fitting
    <3>3. k = n + 1 \/ k \in 1..n
      OBVIOUS
    <3> QED
      BY <3>1, <3>2, <3>3, Zenon
  <2>10. ASSUME NEW a \in 1..n + 1, NEW b \in 1..n + 1, a < b
         PROVE  /\ more[b] \in Pending(table, FALSE)
                /\ \/ more[a] \in Pending(table, TRUE)
                   \/ \E m, l \in 1..i :
                         m < l /\ more[a] = scheduled[m] /\ more[b] = scheduled[l]
    <3>1. a \in 1..n /\ more[a] = rows[a] /\ (b = n + 1 \/ b \in 1..n)
      BY <2>3, <2>10
    <3>2. CASE b \in 1..n
      <4>1. /\ rows[b] \in Pending(table, FALSE)
            /\ \/ rows[a] \in Pending(table, TRUE)
               \/ \E m, l \in 1..i - 1 :
                     m < l /\ rows[a] = scheduled[m] /\ rows[b] = scheduled[l]
        <5>1. OrderedFrom(table, scheduled, i - 1, rows)
          BY DEF Fitting
        <5> QED
          BY <1>2, <2>10, <3>1, <3>2, <5>1 DEF OrderedFrom
      <4>2. \A m \in 1..i - 1 : m \in 1..i
        OBVIOUS
      <4>3. more[b] = rows[b]
        BY <2>3, <3>2
      <4> QED
        BY <3>1, <4>1, <4>2, <4>3, Zenon
    <3>3. CASE b = n + 1
      <4>1. more[b] = scheduled[i] /\ scheduled[i] \in Pending(table, FALSE)
            /\ i \in 1..i /\ \A m \in 1..i - 1 : m \in 1..i /\ m < i
        <5>1. (\A m \in 1..i - 1 : m \in 1..i /\ m < i) /\ i \in 1..i
          BY <1>1
        <5>2. more[b] = scheduled[i]
          BY <3>3, <2>3 DEF j
        <5>3. scheduled[i] \in Pending(table, FALSE)
          BY Zenon
        <5> QED
          BY <5>1, <5>2, <5>3
      <4>2. rows[a] \in Pending(table, TRUE) \/ \E m \in 1..i - 1 : rows[a] = scheduled[m]
        BY <1>2, <3>1 DEF Fitting
      <4> QED
        BY <3>1, <4>1, <4>2, Zenon
    <3> QED
      BY <3>1, <3>2, <3>3, Zenon
  <2>9. Fitting(table, scheduled, i, more)
    <3>1. OrderedFrom(table, scheduled, i, more)
      <4>1. \A a, b \in 1..n + 1 : a < b =>
               /\ more[b] \in Pending(table, FALSE)
               /\ \/ more[a] \in Pending(table, TRUE)
                  \/ \E m, l \in 1..i :
                        m < l /\ more[a] = scheduled[m] /\ more[b] = scheduled[l]
        BY <2>10, Zenon
      <4>2. \A a \in 1..Len(more) : a \in 1..n + 1
        BY <2>3
      <4>3. \A a, b \in 1..Len(more) : a < b =>
               /\ more[b] \in Pending(table, FALSE)
               /\ \/ more[a] \in Pending(table, TRUE)
                  \/ \E m, l \in 1..i :
                        m < l /\ more[a] = scheduled[m] /\ more[b] = scheduled[l]
        BY <4>1, <4>2, Zenon
      <4> QED
        BY <4>3 DEF OrderedFrom
    <3> QED
      BY <2>3, <2>5, <2>6, <2>7, <2>8, <3>1 DEF Fitting
  <2> QED
    BY <2>1, <2>9 DEF j
<1> QED
  BY <1>4, <1>5

\* Lists that grow by one row after the other.
LEMMA AddTurns ==
    ASSUME NEW first \in Seq(Jobs), NEW rows \in Seq(Jobs)
    PROVE  \E f \in [0..Len(rows) -> Seq(Jobs)] :
              /\ f[0] = first
              /\ \A i \in 1..Len(rows) : f[i] = AddRow(f[i - 1], rows[i])
<1> DEFINE n == Len(rows)
           Q == Seq(Jobs)
           turn == [i \in 1..n |-> [x \in Q |-> AddRow(x, rows[i])]]
<1>1. n \in Nat /\ \A i \in 1..n : rows[i] \in Jobs
  OBVIOUS
<1> HIDE DEF n
<1>2. \A i \in 1..n, x \in Q : AddRow(x, rows[i]) \in Q
  BY <1>1 DEF AddRow
<1>3. first \in Q
  OBVIOUS
<1> HIDE DEF Q
<1>4. turn \in [1..n -> [Q -> Q]]
  BY <1>2
<1>5. \A i \in 1..n, x \in Q : turn[i][x] = AddRow(x, rows[i])
  OBVIOUS
<1> HIDE DEF turn
<1>6. HasValues(Q, first, n, turn)
  BY <1>1, <1>3, <1>4, LoopValues
<1>7. PICK f \in [0..n -> Q] : f[0] = first /\ \A i \in 1..n : f[i] = turn[i][f[i - 1]]
  BY <1>6, Zenon DEF HasValues
<1>8. \A i \in 1..n : f[i] = AddRow(f[i - 1], rows[i])
  <2> TAKE i \in 1..n
  <2>1. f[i - 1] \in Q
    BY <1>1
  <2> QED
    BY <1>5, <1>7, <2>1
<1> QED
  BY <1>7, <1>8, Zenon DEF n, Q

\* The loop of build_manifest has a value after each of its rows.
LEMMA ManifestTurns ==
    ASSUME NEW table, NEW now, ScheduledRows(table, now) \in Seq(Jobs),
           SetToSeq(NewestImmediate(table)) \in Seq(Jobs)
    PROVE  \E f : /\ ManifestRows(table, now) = f[Len(ScheduledRows(table, now))]
                 /\ f[0] = SetToSeq(NewestImmediate(table))
                 /\ \A i \in 1..Len(ScheduledRows(table, now)) :
                       f[i] = AddRow(f[i - 1], ScheduledRows(table, now)[i])
<1> DEFINE first == SetToSeq(NewestImmediate(table))
           rows == ScheduledRows(table, now)
           n == Len(rows)
           IsLoop(f) == f = [i \in 0..n |->
                               IF i = 0 THEN first ELSE AddRow(f[i - 1], rows[i])]
           u == CHOOSE f : IsLoop(f)
<1>1. n \in Nat /\ \A i \in 1..n : rows[i] \in Jobs
  OBVIOUS
<1>2. ManifestRows(table, now) = u[n]
  BY Zenon DEF ManifestRows
<1> HIDE DEF rows, n, first
<1>3. PICK f \in [0..n -> Seq(Jobs)] :
         f[0] = first /\ \A i \in 1..n : f[i] = AddRow(f[i - 1], rows[i])
  <2>1. first \in Seq(Jobs) /\ rows \in Seq(Jobs)
    BY DEF first, rows
  <2>2. \E f \in [0..Len(rows) -> Seq(Jobs)] :
           f[0] = first /\ \A i \in 1..Len(rows) : f[i] = AddRow(f[i - 1], rows[i])
    BY <2>1, AddTurns
  <2> QED
    BY <2>2, Zenon DEF n
<1>4. IsLoop(f)
  <2>1. \A i \in 0..n : f[i] = IF i = 0 THEN first ELSE AddRow(f[i - 1], rows[i])
    <3> TAKE i \in 0..n
    <3>1. CASE i = 0
      BY <3>1, <1>3
    <3>2. CASE i # 0
      <4>1. i \in 1..n
        BY <3>2, <1>1
      <4> QED
        BY <4>1, <3>2, <1>3
    <3> QED
      BY <3>1, <3>2
  <2> QED
    BY <2>1
<1>5. IsLoop(u)
  BY <1>4, Zenon
<1> HIDE DEF u
<1>6. u[0] = first /\ \A i \in 1..n : u[i] = AddRow(u[i - 1], rows[i])
  <2>1. 0 \in 0..n /\ \A i \in 1..n : i \in 0..n /\ i # 0
    BY <1>1
  <2> QED
    BY <2>1, <1>5
<1> QED
  BY <1>2, <1>6, Zenon DEF first, rows, n

\* Whatever the sizes, the list keeps both limits, repeats nothing and has the
\* pending immediate card.
LEMMA ManifestFits ==
    ASSUME NEW table, Proper(table), NEW now
    PROVE  Fitting(table, ScheduledRows(table, now), Len(ScheduledRows(table, now)),
                   ManifestRows(table, now))
<1> DEFINE rows == ScheduledRows(table, now)
           first == SetToSeq(NewestImmediate(table))
<1>1. /\ rows \in Seq(Jobs) /\ IsInjective(rows)
      /\ \A i \in 1..Len(rows) : rows[i] \in Pending(table, FALSE)
  BY ScheduledFacts
<1>2. Fitting(table, rows, 0, first)
  BY FirstFits
<1>3. PICK f : /\ ManifestRows(table, now) = f[Len(rows)] /\ f[0] = first
               /\ \A i \in 1..Len(rows) : f[i] = AddRow(f[i - 1], rows[i])
  <2>1. first \in Seq(Jobs)
    BY <1>2 DEF Fitting
  <2> QED
    BY <1>1, <2>1, ManifestTurns
<1>4. PICK n \in Nat : n = Len(rows)
  BY <1>1
<1> HIDE DEF rows, first
<1> DEFINE T == {i \in 0..n : Fitting(table, rows, i, f[i])}
<1>5. T = 0..n
  <2>1. 0 \in T
    BY <1>2, <1>3
  <2>2. ASSUME NEW i \in 1..n, i - 1 \in T PROVE i \in T
    <3>1. Fitting(table, rows, i - 1, f[i - 1])
      BY <2>2
    <3>2. Fitting(table, rows, i, AddRow(f[i - 1], rows[i]))
      BY <1>1, <1>4, <3>1, AddFits
    <3> QED
      BY <1>3, <1>4, <3>2
  <2>3. T \in SUBSET (0..n)
    OBVIOUS
  <2> HIDE DEF T
  <2> QED
    BY <2>1, <2>2, <2>3, Induction
<1>6. Fitting(table, rows, n, f[n])
  BY <1>5
<1> QED
  BY <1>3, <1>4, <1>6 DEF rows

LEMMA StepStaysFinite ==
    IsFiniteSet(DOMAIN jobs) /\ [Next]_vars => IsFiniteSet(DOMAIN jobs)'
<1> SUFFICES ASSUME IsFiniteSet(DOMAIN jobs), [Next]_vars PROVE IsFiniteSet(DOMAIN jobs')
  OBVIOUS
<1>1. DOMAIN jobs' = DOMAIN jobs \/ \E x : DOMAIN jobs' = DOMAIN jobs \cup {x}
  <2>1. ASSUME NEW c \in calls, CreateJob(c)
        PROVE  \E x : DOMAIN jobs' = DOMAIN jobs \cup {x}
    <3>1. DOMAIN jobs' = DOMAIN jobs \cup {c.id}
      BY <2>1 DEF CreateJob
    <3> QED
      BY <3>1
  <2>2. CASE BuildManifest
    BY <2>2 DEF BuildManifest, AfterExpiry
  <2>3. ASSUME NEW j, NEW state, Acknowledge(j, state) PROVE DOMAIN jobs' = DOMAIN jobs
    BY <2>3 DEF Acknowledge
  <2> QED
    BY <2>1, <2>2, <2>3 DEF Next, Tick, AcceptCard, DropCall, vars
<1> QED
  BY <1>1, FS_AddElement

LEMMA StaysFinite == Spec => []IsFiniteSet(DOMAIN jobs)
<1>1. Init => IsFiniteSet(DOMAIN jobs)
  BY FS_EmptySet DEF Init
<1> QED
  BY <1>1, StepStaysFinite, PTL DEF Spec

\* Expiry leaves a proper table, in which a pending job was pending and has not
\* expired.
LEMMA ExpiredIsProper ==
    ASSUME IInv, IsFiniteSet(DOMAIN jobs)
    PROVE  /\ Proper(AfterExpiry) /\ DOMAIN AfterExpiry = DOMAIN jobs
           /\ \A j \in DOMAIN jobs :
                 /\ AfterExpiry[j].display = jobs[j].display
                 /\ AfterExpiry[j].expires = jobs[j].expires
                 /\ AfterExpiry[j].created = jobs[j].created
                 /\ AfterExpiry[j].immediate = jobs[j].immediate
                 /\ AfterExpiry[j].status = "pending" =>
                        jobs[j].status = "pending" /\ ~Expires(jobs[j])
<1>1. DOMAIN AfterExpiry = DOMAIN jobs
  BY DEF AfterExpiry
<1>2. \A j \in DOMAIN jobs :
         /\ AfterExpiry[j] \in JobRecord
         /\ AfterExpiry[j].immediate = jobs[j].immediate
         /\ AfterExpiry[j].display = jobs[j].display
         /\ AfterExpiry[j].expires = jobs[j].expires
         /\ AfterExpiry[j].created = jobs[j].created
         /\ AfterExpiry[j].status = "pending" =>
               jobs[j].status = "pending" /\ ~Expires(jobs[j])
  <2> TAKE j \in DOMAIN jobs
  <2>1. jobs[j] \in JobRecord
    BY DEF IInv, TypeOK
  <2>2. AfterExpiry[j] = IF Expires(jobs[j]) THEN [jobs[j] EXCEPT !.status = "expired"]
                                             ELSE jobs[j]
    BY DEF AfterExpiry
  <2>3. CASE Expires(jobs[j])
    BY <2>1, <2>2, <2>3 DEF JobRecord, Statuses
  <2>4. CASE ~Expires(jobs[j])
    BY <2>1, <2>2, <2>4
  <2> QED
    BY <2>3, <2>4
<1>3. Pending(AfterExpiry, TRUE) \subseteq Pending(jobs, TRUE)
  BY <1>1, <1>2 DEF Pending
<1>4. Proper(AfterExpiry)
  BY <1>1, <1>2, <1>3 DEF IInv, TypeOK, UniqueImmediate, Proper
<1> QED
  BY <1>1, <1>2, <1>4

\* An immediate card is to be displayed at the time its call was accepted.
CallsAreOfThePast ==
    /\ clock \in Nat
    /\ \A c \in calls : c.accepted <= clock
    /\ \A j \in DOMAIN jobs : jobs[j].immediate => jobs[j].display <= clock

LEMMA StaysPast == Spec => []CallsAreOfThePast
<1>1. Init => CallsAreOfThePast
  BY DEF Init, CallsAreOfThePast
<1>2. IInv /\ CallsAreOfThePast /\ [Next]_vars => CallsAreOfThePast'
  <2> SUFFICES ASSUME IInv, CallsAreOfThePast, [Next]_vars PROVE CallsAreOfThePast'
    OBVIOUS
  <2>1. /\ \A c \in calls : c.accepted \in Nat /\ c.display \in Nat
        /\ \A j \in DOMAIN jobs : jobs[j] \in JobRecord /\ jobs[j].display \in Nat
    BY BoundsAreNaturals DEF IInv, TypeOK, Call, JobRecord, Times
  <2>2. CASE Tick
    BY <2>1, <2>2 DEF Tick, CallsAreOfThePast
  <2>3. ASSUME NEW id, NEW display, NEW expires, AcceptCard(id, display, expires)
        PROVE  CallsAreOfThePast'
    BY <2>3 DEF AcceptCard, CallsAreOfThePast
  <2>4. ASSUME NEW c \in calls, DropCall(c) PROVE CallsAreOfThePast'
    BY <2>4 DEF DropCall, CallsAreOfThePast
  <2>5. ASSUME NEW c \in calls, CreateJob(c) PROVE CallsAreOfThePast'
    <3>1. /\ NewJob(c).immediate => NewJob(c).display = c.accepted
          /\ \A job \in JobRecord : /\ Superseded(job).immediate = job.immediate
                                    /\ Superseded(job).display = job.display
      BY DEF NewJob, Superseded, JobRecord
    <3>2. \A j \in DOMAIN jobs' :
             \/ j = c.id /\ jobs'[j] = NewJob(c)
             \/ j \in DOMAIN jobs /\ (jobs'[j] = jobs[j] \/ jobs'[j] = Superseded(jobs[j]))
      BY <2>5 DEF CreateJob
    <3> QED
      BY <2>1, <2>5, <3>1, <3>2 DEF CreateJob, CallsAreOfThePast
  <2>6. CASE BuildManifest
    BY <2>1, <2>6 DEF BuildManifest, AfterExpiry, CallsAreOfThePast, JobRecord
  <2>7. ASSUME NEW j, NEW state, Acknowledge(j, state) PROVE CallsAreOfThePast'
    BY <2>1, <2>7 DEF Acknowledge, CallsAreOfThePast, JobRecord
  <2>8. CASE UNCHANGED vars
    BY <2>8 DEF vars, CallsAreOfThePast
  <2> QED
    BY <2>2, <2>3, <2>4, <2>5, <2>6, <2>7, <2>8 DEF Next
<1> QED
  BY <1>1, <1>2, Inductive, PTL DEF Spec

\* For any number of jobs, any sizes and any limits: a manifest lists nothing
\* twice, has the immediate card before the scheduled ones and those in order,
\* keeps both limits, lists only pending jobs that have not expired and are near
\* enough, and always has the pending immediate card (store.py:682-719).
THEOREM ManifestIsSound == Spec => []ManifestSound
<1>1. ASSUME IInv, IsFiniteSet(DOMAIN jobs), CallsAreOfThePast PROVE ManifestSound
  <2> DEFINE rows == ScheduledRows(AfterExpiry, clock)
  <2>1. Fitting(AfterExpiry, rows, Len(rows), Listed)
    BY <1>1, ExpiredIsProper, ManifestFits DEF Listed
  <2>2. PICK n \in Nat : n = Len(Listed) /\ DOMAIN Listed = 1..n
    BY <2>1 DEF Fitting
  <2>3. \A m \in 1..Len(rows) : /\ rows[m] \in Pending(AfterExpiry, FALSE)
                                /\ AfterExpiry[rows[m]].display <= clock + Horizon
    BY <1>1, ExpiredIsProper, ScheduledFacts
  <2>4. \A j \in Pending(AfterExpiry, TRUE) : AfterExpiry[j].display <= clock + Horizon
    <3> TAKE j \in Pending(AfterExpiry, TRUE)
    <3>1. j \in DOMAIN jobs /\ jobs[j].immediate /\ jobs[j].display \in Nat
          /\ AfterExpiry[j].display = jobs[j].display
      BY <1>1, ExpiredIsProper, BoundsAreNaturals DEF AfterExpiry, Pending, IInv, TypeOK, JobRecord, Times
    <3> QED
      BY <1>1, <3>1, BoundsAreNaturals DEF CallsAreOfThePast
  <2>5. \A k \in 1..n : /\ Listed[k] \in DOMAIN jobs
                        /\ AfterExpiry[Listed[k]].status = "pending"
                        /\ AfterExpiry[Listed[k]].display <= clock + Horizon
    BY <1>1, <2>1, <2>2, <2>3, <2>4, ExpiredIsProper DEF Fitting, Pending
  <2>6. \A j \in ToSet(Listed) : /\ jobs[j].status = "pending" /\ ~Expires(jobs[j])
                                 /\ jobs[j].display <= clock + Horizon
    BY <1>1, <2>2, <2>5, ExpiredIsProper DEF ToSet
  <2>7. \A a, b \in 1..n : a < b =>
           /\ Listed[b] \in Pending(AfterExpiry, FALSE)
           /\ \/ Listed[a] \in Pending(AfterExpiry, TRUE)
              \/ \E m, l \in 1..Len(rows) :
                    m < l /\ Listed[a] = rows[m] /\ Listed[b] = rows[l]
    BY <2>1, <2>2 DEF Fitting, OrderedFrom
  <2>8. \A m, l \in 1..Len(rows) : m < l => Earlier(AfterExpiry, rows[m], rows[l])
    BY <1>1, ExpiredIsProper, ScheduledFacts
  <2>9. \A a, b \in 1..n : a < b =>
           /\ Listed[b] \in Pending(AfterExpiry, FALSE)
           /\ \/ Listed[a] \in Pending(AfterExpiry, TRUE)
              \/ Earlier(AfterExpiry, Listed[a], Listed[b])
    BY <2>7, <2>8
  <2>10. \A j, k \in DOMAIN jobs : Earlier(AfterExpiry, j, k) => Earlier(jobs, j, k)
    BY <1>1, ExpiredIsProper DEF Earlier
  <2>11. \A j \in DOMAIN jobs : AfterExpiry[j].immediate = jobs[j].immediate
    BY <1>1, ExpiredIsProper
  <2>12. InServedOrder
    BY <2>2, <2>5, <2>9, <2>10, <2>11 DEF InServedOrder, Pending
  <2> QED
    BY <2>1, <2>6, <2>12 DEF ManifestSound, Fitting
<1>2. IInv /\ IsFiniteSet(DOMAIN jobs) /\ CallsAreOfThePast => ManifestSound
  BY <1>1
<1> QED
  BY <1>2, Inductive, StaysFinite, StaysPast, PTL

-----------------------------------------------------------------------------
(* The device's operators, from PulsePagesProofs *)

LEMMA SameTypes ==
    /\ Device!Windows = Pages!Windows /\ Device!Manifest = Pages!Manifest
    /\ \A m : Device!Settled(m) = Pages!Settled(m)
    /\ \A l : Device!Ids(l) = Pages!Ids(l)
  BY Zenon DEF Device!Manifest, Pages!Manifest, Device!Windows, Pages!Windows,
     Device!Settled, Pages!Settled, Device!Ids, Pages!Ids

\* select_due_job answers with the index of a due window, if it has one.
LEMMA SelectedIsDue ==
    ASSUME NEW l \in Seq(Device!Windows), NEW t \in Int, Device!SelectDue(l, t) # 0
    PROVE  /\ Device!SelectDue(l, t) \in DOMAIN l
           /\ Device!Due(l[Device!SelectDue(l, t)], t)
<1>1. Device!SelectDue(l, t) = Pages!SelectDue(l, t)
  BY Zenon DEF Device!SelectDue, Pages!SelectDue, Device!Due, Pages!Due,
     Device!Live, Pages!Live
<1>2. \A w : Device!Due(w, t) <=> Pages!Due(w, t)
  BY Zenon DEF Device!Due, Pages!Due, Device!Live, Pages!Live
<1>3. Pages!SelectDue(l, t) \in DOMAIN l /\ Pages!Due(l[Pages!SelectDue(l, t)], t)
  BY <1>1, PagesApply, SameTypes, Pages!SelectedIsDue
<1> QED
  BY <1>1, <1>2, <1>3

SameWindow(v, w) == v.id = w.id /\ v.display = w.display /\ v.expires = w.expires

\* No card twice.
OnceEach(m) == \A i, k \in DOMAIN m.jobs : m.jobs[i].id = m.jobs[k].id => i = k

\* What showing a card makes of the manifest in RAM.
LEMMA ShownFacts ==
    ASSUME NEW m \in Device!Manifest, NEW t \in Int, NEW selected \in DOMAIN m.jobs
    PROVE  LET s == [m EXCEPT !.jobs =
                        [Device!SuppressOlder(@, selected, t) EXCEPT
                            ![selected].displayed = TRUE]]
           IN  /\ s \in Device!Manifest
               /\ DOMAIN s.jobs = DOMAIN m.jobs
               /\ \A i \in DOMAIN m.jobs : SameWindow(s.jobs[i], m.jobs[i])
               /\ Device!Ids(s.jobs) = Device!Ids(m.jobs)
               /\ Device!Settled(m) \subseteq Device!Settled(s)
               /\ m.jobs[selected].id \in Device!Settled(s)
<1>1. Device!SuppressOlder(m.jobs, selected, t) = Pages!SuppressOlder(m.jobs, selected, t)
  BY Zenon DEF Device!SuppressOlder, Pages!SuppressOlder, Device!Due, Pages!Due,
     Device!Live, Pages!Live
<1>2. \A v, w : Pages!SameWindow(v, w) <=> SameWindow(v, w)
  BY DEF Pages!SameWindow, SameWindow
<1> QED
  BY <1>1, <1>2, PagesApply, SameTypes, Pages!ShownFacts

\* What sync_now makes of an answer.
LEMMA FetchedFacts ==
    ASSUME NEW m \in Device!Manifest, ram \in Device!Manifest, clock \in Int
    PROVE  LET i == [m EXCEPT !.jobs = Device!Unexpired(Device!Carried(@), clock)]
           IN  /\ i \in Device!Manifest
               /\ Device!Settled(ram) \cap Device!Ids(i.jobs) \subseteq Device!Settled(i)
               /\ \A k \in DOMAIN i.jobs : \E j \in DOMAIN m.jobs :
                     SameWindow(i.jobs[k], m.jobs[j])
               /\ OnceEach(m) => OnceEach(i)
<1>1. \A l : Device!Unexpired(l, clock) = Pages!Unexpired(l, clock)
  BY Zenon DEF Device!Unexpired, Pages!Unexpired, Device!Live, Pages!Live
<1>2. \A l : Device!Carried(l) = Pages!Carried(l)
  BY Zenon DEF Device!Carried, Pages!Carried
<1>3. \A v, w : Pages!SameWindow(v, w) <=> SameWindow(v, w)
  BY DEF Pages!SameWindow, SameWindow
<1>4. \A n : Pages!OnceEach(n) <=> OnceEach(n)
  BY DEF Pages!OnceEach, OnceEach
<1> QED
  BY <1>1, <1>2, <1>3, <1>4, PagesApply, SameTypes, Pages!FetchedFacts

-----------------------------------------------------------------------------
(* The inductive invariant of Delivery *)

\* The manifests the device may use: on the card, in RAM and being installed.
Held == {disk, ram, incoming} \ {None}

\* And the one it may fall back on.
Kept == Held \cup {older}

OfJobs(m) == \A i \in DOMAIN m.jobs :
    /\ m.jobs[i].id \in DOMAIN jobs
    /\ m.jobs[i].display = jobs[m.jobs[i].id].display
    /\ m.jobs[i].expires = jobs[m.jobs[i].id].expires

\* The device's windows are the gateway's, each card once in a manifest.
WindowsAgree == \A m \in Kept : OfJobs(m) /\ OnceEach(m)

\* Whatever the device or the gateway takes for shown has been on the screen.
ShownOnly ==
    /\ shown \subseteq DOMAIN jobs
    /\ slot # None => slot \in shown
    /\ screen # None => screen \in shown
    /\ pc \in {"persist", "save_ack"} => screen # None
    /\ pc = "persist" => screen \in Device!Settled(ram)
    /\ \A j \in DOMAIN jobs : /\ jobs[j].status = "displayed" => j \in shown
                              /\ jobs[j].status # "failed"

\* The card that is just being persisted will be settled on the SD card, or a
\* fault happens.
Returning == {j \in shown : /\ pc = "persist" => j # screen
                            /\ \E m \in Held : Returns(j, m)}

\* Every fault and every card left out pays for one repeat, past or to come.
PaidFor == /\ {faults, repeats, forgotten} \subseteq Nat
           /\ repeats + Cardinality(Returning) <= faults + forgotten

\* The card being drawn is the one that select_due_job chose by the time it read.
DuePicked ==
    pc = "refresh" =>
        LET selected == Device!SelectDue(ram.jobs, due.at)
        IN  /\ selected # 0 /\ ram.jobs[selected].id = due.card
            /\ due.at <= clock

DInv == Device!TypeOK /\ WindowsAgree /\ ShownOnly /\ PaidFor /\ DuePicked

\* What the jobs keep in any step.
JobsKeep ==
    \A j \in DOMAIN jobs :
        /\ j \in DOMAIN jobs'
        /\ jobs'[j].display = jobs[j].display /\ jobs'[j].expires = jobs[j].expires
        /\ jobs'[j].status = "pending" => jobs[j].status = "pending"

\* A card is reported only by an acknowledgement of the one in the slot.
ReportsSlot ==
    \A j \in DOMAIN jobs' : jobs'[j].status \in Terminal =>
        \/ j \in DOMAIN jobs /\ jobs[j].status = jobs'[j].status
        \/ j = slot /\ jobs'[j].status = "displayed"

\* What the gateway does in a step of Delivery.
StoreStep == \/ Tick \/ BuildManifest
             \/ \E id \in Jobs, display \in Times, expires \in Times :
                   AcceptCard(id, display, expires)
             \/ \E c \in calls : DropCall(c) \/ CreateJob(c)
             \/ slot \in Jobs /\ Acknowledge(slot, "displayed")
             \/ UNCHANGED gatewayVars

\* The clock of both never goes back.
LEMMA ClockGoesOn == ASSUME IInv, StoreStep PROVE clock' >= clock
<1>1. clock \in Int
  BY BoundsAreNaturals DEF IInv, TypeOK, Times
<1>2. CASE Tick
  BY <1>1, <1>2 DEF Tick
<1>3. clock' = clock => clock' >= clock
  BY <1>1
<1>4. ASSUME ~Tick PROVE clock' = clock
  BY <1>4 DEF StoreStep, BuildManifest, AcceptCard, DropCall, CreateJob, Acknowledge,
     gatewayVars
<1> QED
  BY <1>2, <1>3, <1>4

LEMMA StoreStepFacts == ASSUME IInv, StoreStep PROVE JobsKeep /\ ReportsSlot
<1>1. \A j \in DOMAIN jobs : jobs[j] \in JobRecord
  BY DEF IInv, TypeOK
<1>2. CASE UNCHANGED jobs
  BY <1>2 DEF JobsKeep, ReportsSlot
<1>3. ASSUME NEW c \in calls, CreateJob(c) PROVE JobsKeep /\ ReportsSlot
  <2>1. /\ DOMAIN jobs' = DOMAIN jobs \cup {c.id} /\ c.id \notin DOMAIN jobs
        /\ jobs'[c.id] = NewJob(c) /\ NewJob(c).status = "pending"
        /\ \A j \in DOMAIN jobs : jobs'[j] = Superseded(jobs[j]) \/ jobs'[j] = jobs[j]
    <3>1. c \in Call /\ c.id \notin DOMAIN jobs
      BY DEF IInv, TypeOK, CallsAreNew
    <3>2. jobs' = [j \in DOMAIN jobs \cup {c.id} |->
                      IF j = c.id THEN NewJob(c)
                      ELSE IF c.display = 0 THEN Superseded(jobs[j]) ELSE jobs[j]]
      BY <1>3 DEF CreateJob
    <3>3. NewJob(c).status = "pending"
      BY <3>1, NewJobType
    <3> QED
      BY <3>1, <3>2, <3>3
  <2>2. \A job \in JobRecord :
           /\ Superseded(job).display = job.display /\ Superseded(job).expires = job.expires
           /\ Superseded(job).status = "pending" => job.status = "pending"
           /\ Superseded(job).status \in Terminal => Superseded(job).status = job.status
    BY DEF Superseded, JobRecord, Statuses, Terminal
  <2>3. JobsKeep
    BY <1>1, <2>1, <2>2 DEF JobsKeep
  <2>4. ReportsSlot
    BY <1>1, <2>1, <2>2 DEF ReportsSlot, Terminal
  <2> QED
    BY <2>3, <2>4
<1>4. CASE BuildManifest
  <2>1. \A job \in JobRecord :
           LET gone == [job EXCEPT !.status = "expired"]
           IN  /\ gone.display = job.display /\ gone.expires = job.expires
               /\ gone.status = "expired"
    BY DEF JobRecord
  <2> QED
    BY <1>1, <1>4, <2>1 DEF BuildManifest, AfterExpiry, JobsKeep, ReportsSlot, Terminal
<1>5. CASE slot \in Jobs /\ Acknowledge(slot, "displayed")
  <2>1. CASE AckAnswer(slot, "displayed") = "recorded"
    <3>1. slot \in DOMAIN jobs
      BY <2>1 DEF AckAnswer
    <3>2. jobs' = [jobs EXCEPT ![slot].status = "displayed"]
      BY <1>5, <2>1 DEF Acknowledge
    <3>3. /\ jobs'[slot].status = "displayed" /\ jobs'[slot].display = jobs[slot].display
          /\ jobs'[slot].expires = jobs[slot].expires
          /\ DOMAIN jobs' = DOMAIN jobs
          /\ \A j \in DOMAIN jobs : j # slot => jobs'[j] = jobs[j]
      BY <1>1, <3>1, <3>2 DEF JobRecord
    <3> QED
      BY <3>1, <3>3 DEF JobsKeep, ReportsSlot
  <2> QED
    BY <1>2, <1>5, <2>1 DEF Acknowledge
<1> QED
  BY <1>2, <1>3, <1>4, <1>5
     DEF StoreStep, Tick, AcceptCard, DropCall, gatewayVars

\* What a step of the device does that neither shows a card nor takes a manifest.
QuietMove ==
    /\ screen' = screen
    /\ \/ slot' \in {slot, None}
       \/ pc = "save_ack" /\ slot' = screen
    /\ disk' \in {disk, ram, incoming} /\ ram' \in {disk, ram, incoming, None}
    /\ incoming' \in {incoming, None} /\ older' \in {older, disk, Device!NoManifest}
    /\ pc' = "refresh" => /\ ram' = ram
                          /\ \/ pc = "refresh" /\ due' = due
                             \/ Device!FindDue
    /\ pc' \in {"persist", "save_ack"} => pc \in {"persist", "save_ack"}
    /\ pc' = "persist" => pc = "persist" /\ ram' = ram
    /\ pc' = "download" => pc = "download"

Quiet == \/ \E byRtc \in BOOLEAN : Device!Boot(byRtc)
         \/ Device!PowerLoss
         \/ Device!CheckDue \/ Device!NothingDue \/ Device!AwaitImminent \/ Device!WaitOver
         \/ Device!FindDue \/ Device!ShowFails \/ Device!RetryElapsed \/ Device!StartSync
         \/ \E ok \in BOOLEAN : \/ Device!PersistDisplayed(ok) \/ Device!SaveAck(ok)
                                \/ Device!ShowPulse(ok) \/ Device!SendAck(ok)
         \/ \E asset \in Jobs : Device!Download(asset)
         \/ Device!DownloadFails \/ Device!FetchFails \/ Device!Install \/ Device!InstallFails
         \/ \E removed \in SUBSET cache : Device!Cleanup(removed)
         \/ UNCHANGED deviceVars

LEMMA NoManifestFacts ==
    /\ Device!NoManifest \in Device!Manifest
    /\ Device!NoManifest.jobs = <<>> /\ Device!Ids(Device!NoManifest.jobs) = {}
    /\ OfJobs(Device!NoManifest) /\ OnceEach(Device!NoManifest)
<1>1. <<>> \in Seq(Device!Windows) /\ DOMAIN <<>> = {}
  OBVIOUS
<1>2. Device!NoManifest \in Device!Manifest /\ Device!NoManifest.jobs = <<>>
  BY <1>1 DEF Device!NoManifest, Device!Manifest
<1> QED
  BY <1>1, <1>2 DEF Device!Ids, OfJobs, OnceEach

\* What is found due is a card and a time.
LEMMA FoundFacts ==
    ASSUME Device!TypeOK, Device!FindDue
    PROVE  due' \in Device!Picked /\ due' # None
<1> DEFINE selected == Device!SelectDue(ram.jobs, clock)
<1>1. ram \in Device!Manifest /\ clock \in Int /\ selected # 0
  BY DEF Device!TypeOK, Device!FindDue
<1>2. ram.jobs \in Seq(Device!Windows)
  BY <1>1 DEF Device!Manifest
<1>3. selected \in DOMAIN ram.jobs
  BY <1>1, <1>2, SelectedIsDue
<1>4. due' = [card |-> ram.jobs[selected].id, at |-> clock]
  BY DEF Device!FindDue
<1> HIDE DEF selected
<1>5. ram.jobs[selected] \in Device!Windows
  BY <1>2, <1>3
<1>6. ram.jobs[selected].id \in Jobs
  BY <1>5 DEF Device!Windows
<1> QED
  BY <1>1, <1>4, <1>6, NoneIsNotPicked DEF Device!Picked

LEMMA QuietTypes ==
    ASSUME Device!TypeOK, ShownOnly, clock' \in Int, Quiet
    PROVE  Device!TypeOK'
<1> USE NoneIsNoManifest DEF Device!TypeOK, Device!Steps
<1>1. screen \in Jobs \cup {None} /\ cache \subseteq Jobs
      /\ (pc \in {"persist", "save_ack"} => screen \in Jobs)
  BY DEF ShownOnly
<1>2. ASSUME NEW byRtc \in BOOLEAN, Device!Boot(byRtc) PROVE Device!TypeOK'
  BY <1>2 DEF Device!Boot, Device!Starts, Device!Load
<1>3. CASE Device!PowerLoss
  BY <1>3 DEF Device!PowerLoss
<1>4. CASE Device!CheckDue
  BY <1>4 DEF Device!CheckDue
<1>5. CASE Device!NothingDue
  BY <1>5 DEF Device!NothingDue, Device!ReturnNothingShown
<1>6. CASE Device!AwaitImminent
  BY <1>6 DEF Device!AwaitImminent
<1>7. CASE Device!WaitOver
  BY <1>7 DEF Device!WaitOver
<1>8. CASE Device!ShowFails
  BY <1>8 DEF Device!ShowFails, Device!ReturnNothingShown
<1>9. CASE Device!RetryElapsed
  BY <1>9 DEF Device!RetryElapsed
<1>10. CASE Device!StartSync
  BY <1>10 DEF Device!StartSync
<1>11. ASSUME NEW ok \in BOOLEAN, Device!PersistDisplayed(ok)
       PROVE  Device!TypeOK'
  BY <1>11, NoManifestFacts DEF Device!PersistDisplayed, Device!Write, Device!WriteFails
<1>12. ASSUME NEW ok \in BOOLEAN, Device!SaveAck(ok) PROVE Device!TypeOK'
  BY <1>1, <1>12 DEF Device!SaveAck, Device!ReturnDisplayed
<1>13. ASSUME NEW ok \in BOOLEAN, Device!ShowPulse(ok) PROVE Device!TypeOK'
  <2>1. ram.pulse \notin cache
    BY <1>1, <1>13, NoneIsNoJob DEF Device!ShowPulse, Device!Manifest
  <2> QED
    BY <1>1, <1>13, <2>1 DEF Device!ShowPulse
<1>14. ASSUME NEW ok \in BOOLEAN, Device!SendAck(ok) PROVE Device!TypeOK'
  BY <1>14 DEF Device!SendAck, Device!EndSync
<1>15. ASSUME NEW asset \in Jobs, Device!Download(asset) PROVE Device!TypeOK'
  BY <1>15 DEF Device!Download
<1>16. CASE Device!DownloadFails
  BY <1>16 DEF Device!DownloadFails, Device!EndSync
<1>17. CASE Device!FetchFails
  BY <1>17 DEF Device!FetchFails, Device!EndSync
<1>18. CASE Device!Install
  BY <1>18 DEF Device!Install, Device!Write
<1>19. CASE Device!InstallFails
  BY <1>19, NoManifestFacts DEF Device!InstallFails, Device!EndSync, Device!WriteFails
<1>20. ASSUME NEW removed \in SUBSET cache, Device!Cleanup(removed)
       PROVE  Device!TypeOK'
  BY <1>20 DEF Device!Cleanup
<1>21. CASE UNCHANGED deviceVars
  BY <1>21 DEF deviceVars
<1>22. CASE Device!FindDue
  <2>1. due' \in Device!Picked /\ due' # None
    BY <1>22, FoundFacts
  <2> QED
    BY <1>22, <2>1 DEF Device!FindDue
<1> QED
  BY <1>2, <1>3, <1>4, <1>5, <1>6, <1>7, <1>8, <1>9, <1>10, <1>11, <1>12, <1>13,
     <1>14, <1>15, <1>16, <1>17, <1>18, <1>19, <1>20, <1>21, <1>22 DEF Quiet

LEMMA QuietMoves ==
    ASSUME Device!TypeOK, ShownOnly, Quiet
    PROVE  QuietMove
<1> USE NoneIsNoManifest DEF Device!TypeOK, Device!Steps, QuietMove
<1>1. screen \in Jobs \cup {None} /\ cache \subseteq Jobs
      /\ (pc \in {"persist", "save_ack"} => screen \in Jobs)
  BY DEF ShownOnly
<1>2. ASSUME NEW byRtc \in BOOLEAN, Device!Boot(byRtc) PROVE QuietMove
  BY <1>2 DEF Device!Boot, Device!Starts, Device!Load
<1>3. CASE Device!PowerLoss
  BY <1>3 DEF Device!PowerLoss
<1>4. CASE Device!CheckDue
  BY <1>4 DEF Device!CheckDue
<1>5. CASE Device!NothingDue
  BY <1>5 DEF Device!NothingDue, Device!ReturnNothingShown
<1>6. CASE Device!AwaitImminent
  BY <1>6 DEF Device!AwaitImminent
<1>7. CASE Device!WaitOver
  BY <1>7 DEF Device!WaitOver
<1>8. CASE Device!ShowFails
  BY <1>8 DEF Device!ShowFails, Device!ReturnNothingShown
<1>9. CASE Device!RetryElapsed
  BY <1>9 DEF Device!RetryElapsed
<1>10. CASE Device!StartSync
  BY <1>10 DEF Device!StartSync
<1>11. ASSUME NEW ok \in BOOLEAN, Device!PersistDisplayed(ok)
       PROVE  QuietMove
  BY <1>11, NoManifestFacts DEF Device!PersistDisplayed, Device!Write, Device!WriteFails
<1>12. ASSUME NEW ok \in BOOLEAN, Device!SaveAck(ok) PROVE QuietMove
  BY <1>1, <1>12 DEF Device!SaveAck, Device!ReturnDisplayed
<1>13. ASSUME NEW ok \in BOOLEAN, Device!ShowPulse(ok) PROVE QuietMove
  <2>1. ram.pulse \notin cache
    BY <1>1, <1>13, NoneIsNoJob DEF Device!ShowPulse, Device!Manifest
  <2> QED
    BY <1>1, <1>13, <2>1 DEF Device!ShowPulse
<1>14. ASSUME NEW ok \in BOOLEAN, Device!SendAck(ok) PROVE QuietMove
  BY <1>14 DEF Device!SendAck, Device!EndSync
<1>15. ASSUME NEW asset \in Jobs, Device!Download(asset) PROVE QuietMove
  BY <1>15 DEF Device!Download
<1>16. CASE Device!DownloadFails
  BY <1>16 DEF Device!DownloadFails, Device!EndSync
<1>17. CASE Device!FetchFails
  BY <1>17 DEF Device!FetchFails, Device!EndSync
<1>18. CASE Device!Install
  BY <1>18 DEF Device!Install, Device!Write
<1>19. CASE Device!InstallFails
  BY <1>19, NoManifestFacts DEF Device!InstallFails, Device!EndSync, Device!WriteFails
<1>20. ASSUME NEW removed \in SUBSET cache, Device!Cleanup(removed)
       PROVE  QuietMove
  BY <1>20 DEF Device!Cleanup
<1>21. CASE UNCHANGED deviceVars
  BY <1>21 DEF deviceVars
<1>22. CASE Device!FindDue
  BY <1>22 DEF Device!FindDue
<1> QED
  BY <1>2, <1>3, <1>4, <1>5, <1>6, <1>7, <1>8, <1>9, <1>10, <1>11, <1>12, <1>13,
     <1>14, <1>15, <1>16, <1>17, <1>18, <1>19, <1>20, <1>21, <1>22 DEF Quiet

\* What was on the screen counts; nothing else does.
Unmarked == shown' = shown /\ repeats' = repeats /\ forgotten' = forgotten

\* The device starts with what is on the card.
LEMMA QuietBoots ==
    ASSUME Device!TypeOK, Quiet, pc = "off", pc' = "idle" PROVE ram' = disk
  BY DEF Quiet, Device!Boot, Device!Starts, Device!Load, Device!PowerLoss,
     Device!CheckDue, Device!NothingDue, Device!AwaitImminent, Device!WaitOver,
     Device!FindDue, Device!ShowFails, Device!RetryElapsed, Device!StartSync,
     Device!PersistDisplayed, Device!SaveAck, Device!ShowPulse, Device!SendAck,
     Device!Download, Device!DownloadFails, Device!FetchFails, Device!Install,
     Device!InstallFails, Device!Cleanup, deviceVars

\* The panel shows no new card: what can return in the end could return before,
\* but for the card whose flag did not reach the SD card.
LEMMA QuietKeeps ==
    ASSUME IInv, IInv', DInv, IsFiniteSet(DOMAIN jobs), StoreStep, Quiet,
           History \/ Unmarked, faults' \in Nat, faults' >= faults,
           pc = "persist" /\ pc' # "persist" => Held' \subseteq {ram} \/ faults' >= faults + 1
    PROVE  DInv'
<1>1. Device!TypeOK'
  <2>1. clock' \in Int
    BY BoundsAreNaturals DEF IInv, TypeOK, Times
  <2> QED
    BY <2>1, QuietTypes DEF DInv
<1>2. QuietMove
  BY QuietMoves DEF DInv
<1>3. JobsKeep /\ ReportsSlot
  BY StoreStepFacts
<1>4. Held' \subseteq Held
  BY <1>1, <1>2, NoneIsNoManifest DEF QuietMove, Held, Device!TypeOK
<1>5. Unmarked
  <2>1. screen' # None => screen' \in shown
    BY <1>2 DEF QuietMove, DInv, ShownOnly
  <2>2. ASSUME pc = "off", pc' = "idle"
        PROVE  /\ forgotten + Cardinality({j \in shown : /\ Returns(j, ram')
                                                         /\ ~Returns(j, disk)})
                     = forgotten
    <3>1. ram' = disk
      BY <2>2, QuietBoots DEF DInv
    <3>2. {j \in shown : Returns(j, ram') /\ ~Returns(j, disk)} = {}
      BY <3>1
    <3>3. forgotten \in Nat
      BY DEF DInv, PaidFor
    <3> QED
      BY <3>2, <3>3, FS_EmptySet
  <2> QED
    BY <1>2, <2>1, <2>2 DEF History, Unmarked, QuietMove
<1>6. WindowsAgree'
  <2> SUFFICES ASSUME NEW m \in Kept' PROVE OfJobs(m)' /\ OnceEach(m)'
    BY DEF WindowsAgree
  <2>1. OfJobs(m) /\ OnceEach(m)
    <3>1. disk \in Held
      BY NoneIsNoManifest DEF Held, DInv, Device!TypeOK
    <3>2. m \in Held \cup {older, Device!NoManifest}
      BY <1>2, <1>4, <3>1 DEF Kept, QuietMove
    <3> QED
      BY <3>2, NoManifestFacts DEF DInv, WindowsAgree, Kept
  <2> QED
    BY <1>3, <2>1 DEF OfJobs, OnceEach, JobsKeep
<1>7. ShownOnly'
  <2>1. \A j \in DOMAIN jobs' : j \in Jobs /\ j # None
    BY NoneIsNoJob DEF IInv, TypeOK
  <2>2. shown' \subseteq DOMAIN jobs'
    BY <1>3, <1>5 DEF DInv, ShownOnly, Unmarked, JobsKeep
  <2>3. /\ slot' # None => slot' \in shown'
        /\ screen' # None => screen' \in shown'
        /\ pc' \in {"persist", "save_ack"} => screen' # None
    BY <1>2, <1>5 DEF DInv, ShownOnly, Unmarked, QuietMove
  <2>4. pc' = "persist" => screen' \in Device!Settled(ram')
    BY <1>2 DEF DInv, ShownOnly, QuietMove
  <2>5. ASSUME NEW j \in DOMAIN jobs'
        PROVE  /\ jobs'[j].status = "displayed" => j \in shown'
               /\ jobs'[j].status # "failed"
    BY <1>3, <1>5, <2>1 DEF DInv, ShownOnly, Unmarked, ReportsSlot, Terminal
  <2> QED
    BY <2>2, <2>3, <2>4, <2>5 DEF ShownOnly
<1>8. PaidFor'
  <2>1. IsFiniteSet(shown)
    BY FS_Subset DEF DInv, ShownOnly
  <2>2. IsFiniteSet(Returning) /\ Cardinality(Returning) \in Nat
    <3>1. Returning \subseteq shown
      BY DEF Returning
    <3> QED
      BY <2>1, <3>1, FS_Subset, FS_CardinalityType
  <2>3. \A j \in shown, m \in Held' : Returns(j, m)' => Returns(j, m)
    BY <1>3, <1>4 DEF Returns, JobsKeep, DInv, ShownOnly
  <2>4. \A j \in Returning' : j \in Returning \/ (j = screen /\ pc = "persist" /\ pc' # "persist")
    BY <1>2, <1>4, <1>5, <2>3 DEF Returning, Unmarked, QuietMove
  <2>5. CASE Returning' \subseteq Returning
    <3>1. Cardinality(Returning') <= Cardinality(Returning) /\ Cardinality(Returning') \in Nat
      BY <2>2, <2>5, FS_Subset, FS_CardinalityType
    <3> QED
      BY <1>5, <2>2, <3>1 DEF DInv, PaidFor, Unmarked
  <2>6. CASE ~ (Returning' \subseteq Returning)
    <3>1. pc = "persist" /\ pc' # "persist" /\ screen \in Returning'
      BY <2>4, <2>6
    <3>2. ~ (Held' \subseteq {ram})
      <4>1. PICK j : j = screen
        OBVIOUS
      <4>2. PICK m \in Held' : Returns(j, m)'
        BY <3>1, <4>1 DEF Returning
      <4>3. j \notin Device!Settled(m) /\ j \in Device!Settled(ram)
        BY <3>1, <4>1, <4>2 DEF Returns, DInv, ShownOnly
      <4> QED
        BY <4>2, <4>3
    <3>3. faults' >= faults + 1
      BY <3>1, <3>2
    <3>4. Returning' \subseteq Returning \cup {screen}
      BY <2>4
    <3>5. /\ IsFiniteSet(Returning \cup {screen})
          /\ Cardinality(Returning \cup {screen}) <= Cardinality(Returning) + 1
          /\ Cardinality(Returning \cup {screen}) \in Nat
      <4>1. /\ IsFiniteSet(Returning \cup {screen})
            /\ \/ Cardinality(Returning \cup {screen}) = Cardinality(Returning)
               \/ Cardinality(Returning \cup {screen}) = Cardinality(Returning) + 1
        BY <2>2, FS_AddElement, Zenon
      <4> QED
        BY <2>2, <4>1
    <3>6. Cardinality(Returning') <= Cardinality(Returning \cup {screen})
          /\ Cardinality(Returning') \in Nat
      BY <3>4, <3>5, FS_Subset, FS_CardinalityType
    <3> QED
      BY <1>5, <2>2, <3>3, <3>5, <3>6 DEF DInv, PaidFor, Unmarked
  <2> QED
    BY <2>5, <2>6
<1>9. DuePicked'
  <2>1. clock' >= clock /\ clock \in Int /\ clock' \in Int
    BY ClockGoesOn, BoundsAreNaturals DEF IInv, TypeOK, Times
  <2>2. CASE pc = "refresh" /\ due' = due /\ ram' = ram
    <3>1. due \in Device!Picked
      BY <2>2 DEF DInv, Device!TypeOK
    <3> QED
      BY <2>1, <2>2, <3>1 DEF DInv, DuePicked, Device!Picked
  <2>3. CASE Device!FindDue
    BY <2>1, <2>3 DEF DuePicked, Device!FindDue
  <2> QED
    BY <1>2, <2>2, <2>3 DEF QuietMove, DuePicked
<1> QED
  BY <1>1, <1>6, <1>7, <1>8, <1>9 DEF DInv

\* What is sent of the listed jobs: the windows of the gateway, each job once.
LEMMA SentFacts ==
    ASSUME NEW table, Proper(table), NEW rows \in Seq(Jobs), IsInjective(rows),
           \A k \in 1..Len(rows) : rows[k] \in DOMAIN table
    PROVE  /\ ManifestOf(table, rows) \in Device!Manifest
           /\ OnceEach(ManifestOf(table, rows))
           /\ \A i \in DOMAIN ManifestOf(table, rows).jobs :
                 LET w == ManifestOf(table, rows).jobs[i]
                 IN  /\ \E k \in 1..Len(rows) : w.id = rows[k]
                     /\ w.display = table[w.id].display /\ w.expires = table[w.id].expires
<1> DEFINE D == DOMAIN rows
           before == [k \in D |-> {i \in D :
                        \/ table[rows[i]].display < table[rows[k]].display
                        \/ /\ table[rows[i]].display = table[rows[k]].display
                           /\ i < k}]
           order == InOrder(D, before)
           window(j) == [id |-> j, display |-> table[j].display,
                         expires |-> table[j].expires, displayed |-> FALSE]
           sent == [n \in DOMAIN order |-> window(rows[order[n]])]
<1>1. PICK n \in Nat : n = Len(rows) /\ D = 1..n
  OBVIOUS
<1>2. \A k \in D : /\ k \in Nat /\ rows[k] \in Jobs /\ rows[k] \in DOMAIN table
                   /\ table[rows[k]].display \in Nat /\ table[rows[k]].expires \in Nat
  BY <1>1, BoundsAreNaturals DEF Proper, JobRecord, Times
<1>3. IsFiniteSet(D)
  BY <1>1, FS_Interval
<1> HIDE DEF D
<1>4. before \in [D -> SUBSET D]
  OBVIOUS
<1>5. /\ \A x \in D : x \notin before[x]
      /\ \A x, y \in D : x = y \/ x \in before[y] \/ y \in before[x]
  BY <1>2
<1>6. \A x, y \in D : x \in before[y] => before[x] \subseteq before[y]
  <2> SUFFICES ASSUME NEW x \in D, NEW y \in D, x \in before[y],
                      NEW z \in D, z \in before[x]
               PROVE  z \in before[y]
    BY <1>4
  <2> QED
    BY <1>2
<1> HIDE DEF before
<1>7. PICK c \in Nat : order \in [1..c -> D] /\ IsInjective(order)
  <2>1. Cardinality(D) \in Nat /\ order \in [1..Cardinality(D) -> D] /\ IsInjective(order)
    BY <1>3, <1>4, <1>5, <1>6, InOrderLists
  <2> QED
    BY <2>1
<1> HIDE DEF order
<1>8. \A i \in 1..c : order[i] \in D
  BY <1>7
<1>9. \A j : /\ window(j).id = j /\ window(j).display = table[j].display
             /\ window(j).expires = table[j].expires
  OBVIOUS
<1>10. \A k \in D : window(rows[k]) \in Device!Windows
  BY <1>2 DEF Device!Windows
<1> HIDE DEF window
<1>11. DOMAIN sent = 1..c /\ \A i \in 1..c : sent[i] = window(rows[order[i]])
  BY <1>7
<1>12. sent \in Seq(Device!Windows)
  BY <1>7, <1>8, <1>10
<1> DEFINE m == [jobs |-> sent, pulse |-> None]
<1>13. ManifestOf(table, rows) = m
  BY Zenon DEF ManifestOf, m, sent, window, order, before, D
<1> HIDE DEF sent
<1>14. m \in Device!Manifest /\ m.jobs = sent
  BY <1>12 DEF Device!Manifest
<1> HIDE DEF m
<1>15. OnceEach(m)
  <2> SUFFICES ASSUME NEW i \in 1..c, NEW k \in 1..c, sent[i].id = sent[k].id
               PROVE  i = k
    BY <1>11, <1>14 DEF OnceEach
  <2>1. rows[order[i]] = rows[order[k]]
    BY <1>9, <1>11
  <2>2. order[i] = order[k]
    BY <1>8, <2>1 DEF IsInjective, D
  <2>3. DOMAIN order = 1..c
    BY <1>7
  <2> QED
    BY <1>7, <2>2, <2>3 DEF IsInjective
<1>16. \A i \in DOMAIN m.jobs :
          /\ \E k \in 1..Len(rows) : m.jobs[i].id = rows[k]
          /\ m.jobs[i].display = table[m.jobs[i].id].display
          /\ m.jobs[i].expires = table[m.jobs[i].id].expires
  <2> SUFFICES ASSUME NEW i \in 1..c
               PROVE  /\ \E k \in 1..Len(rows) : sent[i].id = rows[k]
                      /\ sent[i].display = table[sent[i].id].display
                      /\ sent[i].expires = table[sent[i].id].expires
    BY <1>11, <1>14
  <2>1. sent[i] = window(rows[order[i]]) /\ order[i] \in 1..Len(rows)
    BY <1>1, <1>8, <1>11
  <2> QED
    BY <1>9, <2>1
<1> QED
  BY <1>13, <1>14, <1>15, <1>16

\* What sync_now takes from an answered manifest: windows of pending jobs of the
\* gateway, each once, with the flags of the manifest in RAM.
LEMMA AnswerFacts ==
    ASSUME IInv, DInv, IsFiniteSet(DOMAIN jobs), ManifestAnswered
    PROVE  /\ pc = "fetch" /\ pc' = "download" /\ jobs' = AfterExpiry
           /\ UNCHANGED <<clock, disk, older, ram, cache, slot, screen, rtcWake, deferred,
                          changed, syncing, due, faults>>
           /\ incoming' \in Device!Manifest
           /\ OfJobs(incoming') /\ OnceEach(incoming')
           /\ Device!Settled(ram) \cap Device!Ids(incoming'.jobs)
                 \subseteq Device!Settled(incoming')
           /\ \A j \in Device!Ids(incoming'.jobs) : jobs'[j].status = "pending"
<1> DEFINE rows == ManifestRows(jobs', clock)
           m == ManifestOf(jobs', rows)
           i == [m EXCEPT !.jobs = Device!Unexpired(Device!Carried(@), clock)]
<1>1. /\ jobs' = AfterExpiry /\ faults' = faults
      /\ Device!Fetched(m)
  BY DEF ManifestAnswered, BuildManifest
<1>2. /\ pc = "fetch" /\ pc' = "download" /\ incoming' = i
      /\ UNCHANGED <<clock, disk, older, ram, cache, slot, screen, rtcWake, deferred,
                     changed, syncing, due>>
  BY <1>1 DEF Device!Fetched
<1>3. /\ Proper(jobs') /\ DOMAIN jobs' = DOMAIN jobs
      /\ \A j \in DOMAIN jobs : /\ jobs'[j].display = jobs[j].display
                                /\ jobs'[j].expires = jobs[j].expires
  BY <1>1, ExpiredIsProper
<1>4. /\ rows \in Seq(Jobs) /\ IsInjective(rows)
      /\ \A k \in 1..Len(rows) : rows[k] \in DOMAIN jobs' /\ jobs'[rows[k]].status = "pending"
  <2> DEFINE scheduled == ScheduledRows(jobs', clock)
  <2>1. Fitting(jobs', scheduled, Len(scheduled), rows)
    BY <1>3, ManifestFits
  <2>2. \A k \in 1..Len(scheduled) : scheduled[k] \in Pending(jobs', FALSE)
    BY <1>3, ScheduledFacts
  <2> HIDE DEF rows, scheduled
  <2> QED
    BY <2>1, <2>2 DEF Fitting, Pending
<1> HIDE DEF rows
<1>5. /\ m \in Device!Manifest /\ OnceEach(m)
      /\ \A n \in DOMAIN m.jobs :
            /\ \E k \in 1..Len(rows) : m.jobs[n].id = rows[k]
            /\ m.jobs[n].display = jobs'[m.jobs[n].id].display
            /\ m.jobs[n].expires = jobs'[m.jobs[n].id].expires
  BY <1>3, <1>4, SentFacts
<1> HIDE DEF m
<1>6. ram \in Device!Manifest /\ clock \in Int
  BY <1>2, BoundsAreNaturals DEF DInv, Device!TypeOK, IInv, TypeOK, Times
<1>7. /\ i \in Device!Manifest
      /\ Device!Settled(ram) \cap Device!Ids(i.jobs) \subseteq Device!Settled(i)
      /\ \A k \in DOMAIN i.jobs : \E n \in DOMAIN m.jobs : SameWindow(i.jobs[k], m.jobs[n])
      /\ OnceEach(i)
  BY <1>5, <1>6, FetchedFacts
<1> HIDE DEF i
<1>8. \A k \in DOMAIN i.jobs : /\ i.jobs[k].id \in DOMAIN jobs
                               /\ jobs'[i.jobs[k].id].status = "pending"
                               /\ i.jobs[k].display = jobs[i.jobs[k].id].display
                               /\ i.jobs[k].expires = jobs[i.jobs[k].id].expires
  <2> TAKE k \in DOMAIN i.jobs
  <2>1. PICK n \in DOMAIN m.jobs : SameWindow(i.jobs[k], m.jobs[n])
    BY <1>7
  <2> QED
    BY <1>3, <1>4, <1>5, <2>1 DEF SameWindow
<1>9. OfJobs(i) /\ \A j \in Device!Ids(i.jobs) : jobs'[j].status = "pending"
  BY <1>8 DEF OfJobs, Device!Ids
<1> QED
  BY <1>1, <1>2, <1>7, <1>9

\* What ShownInItsWindow asks of a step that shows a card.
InItsWindow == /\ screen' \in DOMAIN jobs
               /\ jobs[screen'].display <= due.at /\ due.at <= clock
               /\ jobs[screen'].expires = 0 \/ jobs[screen'].expires > due.at

\* A due card is drawn: if it was drawn before, it was one that could return, and
\* now it is settled.
LEMMA ShowKeeps ==
    ASSUME IInv, DInv, IsFiniteSet(DOMAIN jobs), Device!ShowCard, History,
           UNCHANGED <<calls, jobs, acks, version, faults>>
    PROVE  DInv' /\ InItsWindow
<1> DEFINE selected == Device!SelectDue(ram.jobs, due.at)
           card == ram.jobs[selected].id
           after == [ram EXCEPT !.jobs =
                        [Device!SuppressOlder(@, selected, due.at) EXCEPT
                            ![selected].displayed = TRUE]]
<1>1. /\ pc = "refresh" /\ selected # 0 /\ due.at <= clock /\ due' = None
      /\ card \in cache /\ screen' = card /\ ram' = after /\ pc' = "persist"
      /\ UNCHANGED <<clock, disk, older, incoming, cache, slot, rtcWake, deferred,
                     changed, syncing>>
  BY DEF Device!ShowCard, DInv, DuePicked
<1>2. clock \in Int /\ due.at \in Int
  <2>1. due \in Device!Picked
    BY <1>1 DEF DInv, Device!TypeOK
  <2> QED
    BY <2>1, BoundsAreNaturals DEF IInv, TypeOK, Times, Device!Picked
<1>3. ram \in Device!Manifest /\ ram # None /\ ram.jobs \in Seq(Device!Windows)
      /\ incoming = None /\ disk \in Device!Manifest
  BY <1>1, NoneIsNoManifest DEF DInv, Device!TypeOK, Device!Manifest
<1>4. selected \in DOMAIN ram.jobs /\ Device!Due(ram.jobs[selected], due.at)
  BY <1>1, <1>2, <1>3, SelectedIsDue
<1> DEFINE w == ram.jobs[selected]
<1>6. /\ after \in Device!Manifest /\ DOMAIN after.jobs = DOMAIN ram.jobs
      /\ \A i \in DOMAIN ram.jobs : SameWindow(after.jobs[i], ram.jobs[i])
      /\ Device!Ids(after.jobs) = Device!Ids(ram.jobs)
      /\ Device!Settled(ram) \subseteq Device!Settled(after)
      /\ card \in Device!Settled(after)
  BY <1>2, <1>3, <1>4, ShownFacts
<1> HIDE DEF after, selected
<1>7. \A m \in {disk, ram, older} : OfJobs(m) /\ OnceEach(m)
  <2>1. ram \in Held /\ disk \in Held
    BY <1>3, NoneIsNoManifest DEF Held
  <2> QED
    BY <2>1 DEF DInv, WindowsAgree, Kept
<1>8. card \in DOMAIN jobs /\ card \in Jobs /\ card # None
      /\ w.display = jobs[card].display /\ w.expires = jobs[card].expires
  BY <1>4, <1>7, NoneIsNoJob DEF OfJobs, IInv, TypeOK
<1>9. InItsWindow
  BY <1>1, <1>4, <1>8 DEF Device!Due, Device!Live, InItsWindow
<1>10. card \notin Device!Settled(ram) /\ card \in Device!Ids(ram.jobs)
  <2>1. ~ w.displayed
    BY <1>4 DEF Device!Due
  <2> QED
    BY <1>4, <1>7, <2>1 DEF OnceEach, Device!Settled, Device!Ids
<1> HIDE DEF card, w
<1>11. Device!TypeOK'
  BY <1>1, <1>2, <1>3, <1>6, <1>8, NoneIsNoManifest DEF DInv, Device!TypeOK, Device!Steps
<1>12. Held' = {disk, after}
  BY <1>1, <1>3, <1>6, NoneIsNoManifest DEF Held
<1>13. WindowsAgree'
  <2>1. OfJobs(after) /\ OnceEach(after)
    BY <1>6, <1>7 DEF OfJobs, OnceEach, SameWindow
  <2> SUFFICES ASSUME NEW m \in {disk, after, older} PROVE OfJobs(m)' /\ OnceEach(m)'
    BY <1>1, <1>12 DEF WindowsAgree, Kept
  <2> QED
    BY <1>7, <2>1 DEF OfJobs, OnceEach
<1>14. shown' = shown \cup {card} /\ forgotten' = forgotten
       /\ repeats' = IF card \in shown THEN repeats + 1 ELSE repeats
  BY <1>1, <1>8 DEF History
<1>15. ShownOnly'
  BY <1>1, <1>6, <1>8, <1>14 DEF DInv, ShownOnly
<1>16. PaidFor'
  <2>1. IsFiniteSet(Returning) /\ Cardinality(Returning) \in Nat
    <3>1. Returning \subseteq shown /\ IsFiniteSet(shown)
      BY FS_Subset DEF Returning, DInv, ShownOnly
    <3> QED
      BY <3>1, FS_Subset, FS_CardinalityType
  <2>2. Returning' \subseteq Returning \ {card}
    <3> SUFFICES ASSUME NEW j \in Returning' PROVE j \in Returning /\ j # card
      OBVIOUS
    <3>1. j # card /\ j \in shown
      BY <1>1, <1>14 DEF Returning
    <3>2. PICK m \in {disk, after} : Returns(j, m)'
      BY <1>12 DEF Returning
    <3>3. Returns(j, m)
      BY <3>2 DEF Returns
    <3>4. Returns(j, disk) \/ Returns(j, ram)
      BY <1>6, <3>3 DEF Returns
    <3>5. ram \in Held /\ disk \in Held
      BY <1>3, NoneIsNoManifest DEF Held
    <3>6. j \in Returning
      BY <1>1, <3>1, <3>4, <3>5 DEF Returning
    <3> QED
      BY <3>1, <3>6
  <2>3. IsFiniteSet(Returning \ {card}) /\ Cardinality(Returning \ {card}) \in Nat
        /\ Cardinality(Returning') <= Cardinality(Returning \ {card})
        /\ Cardinality(Returning') \in Nat
    BY <2>1, <2>2, FS_Subset, FS_CardinalityType
  <2>4. Cardinality(Returning \ {card}) =
           IF card \in Returning THEN Cardinality(Returning) - 1 ELSE Cardinality(Returning)
    BY <2>1, FS_RemoveElement
  <2>5. card \in shown => card \in Returning
    <3>1. ram \in Held /\ Returns(card, ram)
      BY <1>3, <1>10 DEF Held, Returns
    <3> QED
      BY <1>1, <3>1 DEF Returning
  <2> QED
    BY <1>14, <2>1, <2>3, <2>4, <2>5 DEF DInv, PaidFor
<1>17. DuePicked'
  BY <1>1 DEF DuePicked
<1> QED
  BY <1>9, <1>11, <1>13, <1>15, <1>16, <1>17 DEF DInv

LEMMA UnionIsSmall ==
    ASSUME NEW A, NEW B, IsFiniteSet(A), IsFiniteSet(B)
    PROVE  /\ IsFiniteSet(A \cup B) /\ Cardinality(A \cup B) \in Nat
           /\ Cardinality(A \cup B) <= Cardinality(A) + Cardinality(B)
<1>1. IsFiniteSet(A \cup B) /\ Cardinality(A \cup B) \in Nat
      /\ Cardinality(A) \in Nat /\ Cardinality(B) \in Nat
  BY FS_Union, FS_CardinalityType
<1>2. Cardinality(A \cup B) = Cardinality(A) + Cardinality(B) - Cardinality(A \cap B)
  BY FS_Union
<1>3. Cardinality(A \cap B) \in Nat
  BY FS_Intersection, FS_CardinalityType
<1> QED
  BY <1>1, <1>2, <1>3

\* A manifest is taken: what can return could return before, or is left out now.
LEMMA AnswerKeeps ==
    ASSUME IInv, IInv', DInv, IsFiniteSet(DOMAIN jobs), ManifestAnswered, History
    PROVE  DInv'
<1>1. /\ pc = "fetch" /\ pc' = "download" /\ jobs' = AfterExpiry
      /\ UNCHANGED <<clock, disk, older, ram, cache, slot, screen, rtcWake, deferred,
                     changed, syncing, due, faults>>
      /\ incoming' \in Device!Manifest
      /\ OfJobs(incoming') /\ OnceEach(incoming')
      /\ Device!Settled(ram) \cap Device!Ids(incoming'.jobs) \subseteq Device!Settled(incoming')
      /\ \A j \in Device!Ids(incoming'.jobs) : jobs'[j].status = "pending"
  BY AnswerFacts
<1>2. JobsKeep /\ ReportsSlot
  <2>1. StoreStep
    BY DEF StoreStep, ManifestAnswered
  <2> QED
    BY <2>1, StoreStepFacts
<1>3. clock \in Int
  BY BoundsAreNaturals DEF IInv, TypeOK, Times
<1>4. Device!TypeOK'
  BY <1>1, <1>3, NoneIsNoManifest DEF DInv, Device!TypeOK, Device!Steps
<1>5. /\ disk \in Device!Manifest /\ ram \in Device!Manifest /\ incoming = None
      /\ Held' = {disk, ram, incoming'} /\ Held = {disk, ram}
  BY <1>1, NoneIsNoManifest DEF DInv, Device!TypeOK, Held
<1>6. WindowsAgree'
  <2> SUFFICES ASSUME NEW m \in {disk, ram, incoming', older} PROVE OfJobs(m)' /\ OnceEach(m)'
    BY <1>1, <1>5 DEF WindowsAgree, Kept
  <2>1. OfJobs(m) /\ OnceEach(m)
    BY <1>1, <1>5 DEF DInv, WindowsAgree, Kept
  <2> QED
    BY <1>2, <2>1 DEF OfJobs, OnceEach, JobsKeep
<1> DEFINE left == {j \in shown : jobs'[j].status = "pending"} \ Device!Ids(incoming'.jobs)
<1>7. /\ shown' = shown /\ repeats' = repeats
      /\ forgotten' = forgotten + Cardinality(left)
  <2>1. screen # None => screen \in shown
    BY DEF DInv, ShownOnly
  <2> QED
    BY <1>1, <2>1 DEF History
<1>8. ShownOnly'
  <2>1. \A j \in DOMAIN jobs' : j \in Jobs /\ j # None
    BY NoneIsNoJob DEF IInv, TypeOK
  <2>2. shown \subseteq DOMAIN jobs'
    BY <1>2 DEF DInv, ShownOnly, JobsKeep
  <2>3. ASSUME NEW j \in DOMAIN jobs'
        PROVE  /\ jobs'[j].status = "displayed" => j \in shown
               /\ jobs'[j].status # "failed"
    BY <1>2, <2>1 DEF DInv, ShownOnly, ReportsSlot, Terminal
  <2> QED
    BY <1>1, <1>7, <2>2, <2>3 DEF DInv, ShownOnly
<1>9. PaidFor'
  <2>1. /\ IsFiniteSet(shown)
        /\ IsFiniteSet(Returning) /\ Cardinality(Returning) \in Nat
        /\ IsFiniteSet(left) /\ Cardinality(left) \in Nat
    <3>1. IsFiniteSet(shown) /\ Returning \subseteq shown /\ left \subseteq shown
      BY FS_Subset DEF DInv, ShownOnly, Returning
    <3> QED
      BY <3>1, FS_Subset, FS_CardinalityType
  <2>2. Returning' \subseteq Returning \cup left
    <3> SUFFICES ASSUME NEW j \in Returning', j \notin left PROVE j \in Returning
      OBVIOUS
    <3>1. j \in shown
      BY <1>7 DEF Returning
    <3>2. PICK m \in {disk, ram, incoming'} : Returns(j, m)'
      BY <1>5 DEF Returning
    <3>3. jobs'[j].status = "pending" => jobs[j].status = "pending"
      BY <1>2, <3>1 DEF JobsKeep, DInv, ShownOnly
    <3>4. CASE m \in {disk, ram}
      <4>1. Returns(j, m)
        BY <3>2, <3>3 DEF Returns
      <4> QED
        BY <1>1, <1>5, <3>1, <3>4, <4>1 DEF Returning
    <3>5. CASE m = incoming'
      <4>1. j \notin Device!Settled(incoming') /\ j \in Device!Ids(incoming'.jobs)
        BY <3>1, <3>2, <3>5 DEF Returns
      <4>2. Returns(j, ram)
        BY <1>1, <3>3, <4>1 DEF Returns
      <4> QED
        BY <1>1, <1>5, <3>1, <4>2 DEF Returning
    <3> QED
      BY <3>2, <3>4, <3>5
  <2> HIDE DEF left
  <2>3. /\ IsFiniteSet(Returning \cup left)
        /\ Cardinality(Returning \cup left) \in Nat
        /\ Cardinality(Returning \cup left) <= Cardinality(Returning) + Cardinality(left)
    BY <2>1, UnionIsSmall
  <2>4. Cardinality(Returning') <= Cardinality(Returning \cup left)
        /\ Cardinality(Returning') \in Nat
    BY <2>2, <2>3, FS_Subset, FS_CardinalityType
  <2> QED
    BY <1>1, <1>7, <2>1, <2>3, <2>4 DEF DInv, PaidFor
<1>10. DuePicked'
  BY <1>1 DEF DuePicked
<1> QED
  BY <1>4, <1>6, <1>8, <1>9, <1>10 DEF DInv

\* A start that cannot read the manifest on the card: what can return then could
\* return before, or its flag is forgotten now.
LEMMA MisreadKeeps ==
    ASSUME IInv, DInv, IsFiniteSet(DOMAIN jobs), NEW byRtc \in BOOLEAN,
           Device!BootMisreads(byRtc), UNCHANGED <<calls, jobs, acks, version>>,
           History, faults' \in Nat, faults' >= faults
    PROVE  DInv'
<1>1. /\ pc = "off" /\ pc' = "idle" /\ rtcWake' = byRtc /\ deferred' = FALSE
      /\ UNCHANGED <<clock, incoming, cache, slot, screen, changed, syncing, due, jobs>>
      /\ {disk', older', ram'} \subseteq {disk, older, Device!NoManifest}
      /\ disk' \in {disk, ram'}
  BY DEF Device!BootMisreads, Device!Starts, Device!LoadMisreads
<1>2. clock \in Int
  BY BoundsAreNaturals DEF IInv, TypeOK, Times
<1>3. Device!TypeOK'
  BY <1>1, <1>2, NoneIsNoManifest, NoManifestFacts DEF DInv, Device!TypeOK, Device!Steps
<1>4. /\ disk \in Device!Manifest /\ disk # None /\ ram = None /\ incoming = None
      /\ Held = {disk} /\ Held' = {disk', ram'}
  BY <1>1, <1>3, NoneIsNoManifest DEF DInv, Device!TypeOK, Held
<1>5. WindowsAgree'
  <2> SUFFICES ASSUME NEW m \in {disk, older, Device!NoManifest}
               PROVE  OfJobs(m)' /\ OnceEach(m)'
    BY <1>1, <1>4 DEF WindowsAgree, Kept
  <2>1. OfJobs(m) /\ OnceEach(m)
    BY <1>4, NoManifestFacts DEF DInv, WindowsAgree, Kept
  <2> QED
    BY <1>1, <2>1 DEF OfJobs, OnceEach
<1> DEFINE lost == {j \in shown : Returns(j, ram') /\ ~Returns(j, disk)}
<1>6. shown' = shown /\ repeats' = repeats /\ forgotten' = forgotten + Cardinality(lost)
  <2>1. screen # None => screen \in shown
    BY DEF DInv, ShownOnly
  <2> QED
    BY <1>1, <2>1 DEF History
<1>7. ShownOnly'
  BY <1>1, <1>6 DEF DInv, ShownOnly
<1>8. PaidFor'
  <2>1. /\ IsFiniteSet(Returning) /\ Cardinality(Returning) \in Nat
        /\ IsFiniteSet(lost) /\ Cardinality(lost) \in Nat
    <3>1. IsFiniteSet(shown) /\ Returning \subseteq shown /\ lost \subseteq shown
      BY FS_Subset DEF DInv, ShownOnly, Returning
    <3> QED
      BY <3>1, FS_Subset, FS_CardinalityType
  <2>2. Returning' \subseteq Returning \cup lost
    <3> SUFFICES ASSUME NEW j \in Returning', j \notin lost PROVE j \in Returning
      OBVIOUS
    <3>1. j \in shown
      BY <1>6 DEF Returning
    <3>2. PICK m \in {disk', ram'} : Returns(j, m)'
      BY <1>4 DEF Returning
    <3>3. Returns(j, m)
      BY <1>1, <3>2 DEF Returns
    <3>4. Returns(j, disk)
      BY <1>1, <3>1, <3>3
    <3> QED
      BY <1>1, <1>4, <3>1, <3>4 DEF Returning
  <2> HIDE DEF lost
  <2>3. /\ IsFiniteSet(Returning \cup lost)
        /\ Cardinality(Returning \cup lost) \in Nat
        /\ Cardinality(Returning \cup lost) <= Cardinality(Returning) + Cardinality(lost)
    BY <2>1, UnionIsSmall
  <2>4. Cardinality(Returning') <= Cardinality(Returning \cup lost)
        /\ Cardinality(Returning') \in Nat
    BY <2>2, <2>3, FS_Subset, FS_CardinalityType
  <2> QED
    BY <1>6, <2>1, <2>3, <2>4 DEF DInv, PaidFor
<1>9. DuePicked'
  BY <1>1 DEF DuePicked
<1> QED
  BY <1>3, <1>5, <1>7, <1>8, <1>9 DEF DInv

-----------------------------------------------------------------------------
(* The steps of Delivery *)

\* The app task's own steps, when nothing fails.
LEMMA ProgressKinds ==
    ASSUME Device!TypeOK, Device!Progress
    PROVE  /\ clock' = clock /\ (Quiet \/ Device!ShowCard)
           /\ pc = "persist" => Held' \subseteq {ram}
<1>1. CASE Device!ShowCard
  BY <1>1 DEF Device!ShowCard
<1>2. CASE Device!PersistDisplayed(TRUE)
  <2>1. Quiet /\ clock' = clock
    BY <1>2 DEF Quiet, Device!PersistDisplayed
  <2>2. disk' = ram /\ ram' = ram /\ incoming' = incoming /\ pc = "persist"
    BY <1>2 DEF Device!PersistDisplayed, Device!Write
  <2>3. incoming = None
    BY <2>2 DEF Device!TypeOK
  <2> QED
    BY <2>1, <2>2, <2>3 DEF Held
<1>3. CASE \/ \E byRtc \in BOOLEAN : Device!Boot(byRtc)
           \/ Device!CheckDue \/ Device!NothingDue \/ Device!AwaitImminent
           \/ Device!WaitOver \/ Device!FindDue \/ Device!AssetMissing
           \/ Device!RetryElapsed \/ Device!StartSync
  BY <1>3 DEF Quiet, Device!Boot, Device!Starts, Device!CheckDue, Device!NothingDue,
     Device!AwaitImminent, Device!WaitOver, Device!FindDue, Device!AssetMissing,
     Device!ShowFails, Device!RetryElapsed, Device!StartSync
<1>4. CASE Device!SaveAck(TRUE) \/ Device!Install \/ Device!ShowPulse(TRUE)
  BY <1>4 DEF Quiet, Device!SaveAck, Device!Install, Device!ShowPulse
<1>5. ASSUME NEW asset \in Jobs \cup {}, Device!Download(asset)
      PROVE  Quiet /\ clock' = clock /\ pc # "persist"
  BY <1>5 DEF Quiet, Device!Download
<1>6. ASSUME Device!Cleanup(cache \ Device!Assets(ram))
      PROVE  Quiet /\ clock' = clock /\ pc # "persist"
  <2>1. cache \ Device!Assets(ram) \in SUBSET cache
    OBVIOUS
  <2>2. clock' = clock /\ pc # "persist"
    BY <1>6 DEF Device!Cleanup
  <2> QED
    BY <1>6, <2>1, <2>2 DEF Quiet
<1> QED
  BY <1>1, <1>2, <1>3, <1>4, <1>5, <1>6 DEF Device!Progress

\* Its steps when something does, and the loss of power.
LEMMA FailureKinds ==
    ASSUME Device!Failure \/ Device!PowerLoss
    PROVE  clock' = clock /\ (Quiet \/ \E byRtc \in BOOLEAN : Device!BootMisreads(byRtc))
<1>1. CASE Device!ShowFails \/ Device!DownloadFails \/ Device!InstallFails \/ Device!PowerLoss
  BY <1>1 DEF Quiet, Device!ShowFails, Device!DownloadFails, Device!InstallFails,
     Device!PowerLoss
<1>2. CASE Device!PersistDisplayed(FALSE) \/ Device!SaveAck(FALSE) \/ Device!ShowPulse(FALSE)
  BY <1>2 DEF Quiet, Device!PersistDisplayed, Device!SaveAck, Device!ShowPulse
<1>3. ASSUME NEW removed \in SUBSET cache, Device!Cleanup(removed)
      PROVE  clock' = clock /\ Quiet
  BY <1>3 DEF Quiet, Device!Cleanup
<1>4. ASSUME NEW byRtc \in BOOLEAN, Device!BootMisreads(byRtc) PROVE clock' = clock
  BY <1>4 DEF Device!BootMisreads, Device!Starts
<1> QED
  BY <1>1, <1>2, <1>3, <1>4 DEF Device!Failure

\* An acknowledgement is sent: the answer says yes or no.
LEMMA AckKinds ==
    ASSUME NEW accepted, Device!SendAck(accepted) PROVE clock' = clock /\ Quiet /\ pc # "persist"
<1>1. clock' = clock /\ pc \in {"first_ack", "final_ack"}
  BY DEF Device!SendAck
<1>2. \E ok \in BOOLEAN : Device!SendAck(ok)
  <2>1. CASE accepted
    <3>1. Device!SendAck(TRUE)
      BY <2>1 DEF Device!SendAck
    <3> QED
      BY <3>1
  <2>2. CASE ~accepted
    <3>1. Device!SendAck(FALSE)
      BY <2>2 DEF Device!SendAck
    <3> QED
      BY <3>1
  <2> QED
    BY <2>1, <2>2
<1> QED
  BY <1>1, <1>2 DEF Quiet

Unhurt == faults' \in Nat /\ faults' >= faults

\* Every step of Delivery is a step of the gateway, or leaves the gateway alone,
\* and one of the four kinds for the device.
LEMMA Kinds ==
    ASSUME Device!TypeOK, faults \in Nat, DeliveryNext
    PROVE  /\ StoreStep /\ Unhurt
           /\ \/ /\ Quiet
                 /\ pc = "persist" /\ pc' # "persist" =>
                       Held' \subseteq {ram} \/ faults' >= faults + 1
              \/ Device!ShowCard /\ UNCHANGED <<calls, jobs, acks, version, faults>>
              \/ ManifestAnswered
              \/ /\ \E byRtc \in BOOLEAN : Device!BootMisreads(byRtc)
                 /\ UNCHANGED <<calls, jobs, acks, version>>
<1> USE DEF Unhurt
<1>1. slot # None => slot \in Jobs
  BY DEF Device!TypeOK
<1>2. CASE TimePasses \/ GatewayStep
  <2>1. UNCHANGED deviceVars /\ faults' = faults /\ StoreStep
    BY <1>2 DEF TimePasses, GatewayStep, StoreStep
  <2>2. Quiet /\ pc' = pc
    BY <2>1 DEF Quiet, deviceVars
  <2> QED
    BY <2>1, <2>2
<1>3. CASE DeviceStep
  BY <1>3, ProgressKinds DEF DeviceStep, StoreStep, gatewayVars
<1>4. CASE DeviceFailure \/ PowerCut
  BY <1>4, FailureKinds DEF DeviceFailure, PowerCut, Fault, StoreStep, gatewayVars
<1>5. CASE PowerOff
  <2>1. Quiet /\ pc # "persist"
    BY <1>5 DEF PowerOff, Quiet
  <2> QED
    BY <1>5, <2>1, FailureKinds DEF PowerOff, StoreStep, gatewayVars
<1>6. CASE NoAckPending
  <2>1. Device!SendAck(TRUE) /\ StoreStep /\ faults' = faults
    BY <1>6 DEF NoAckPending, StoreStep, gatewayVars
  <2>2. Quiet /\ pc # "persist"
    BY <2>1, AckKinds
  <2> QED
    BY <2>1, <2>2
<1>7. CASE AckAnswered
  BY <1>1, <1>7, AckKinds DEF AckAnswered, StoreStep
<1>8. CASE AckLost
  <2>1. Unhurt
    BY <1>8 DEF AckLost, Fault
  <2>2. StoreStep
    BY <1>1, <1>8 DEF AckLost, StoreStep
  <2>3. Device!SendAck(FALSE)
    BY <1>8 DEF AckLost
  <2>4. Quiet /\ pc # "persist"
    BY <2>3, AckKinds
  <2> QED
    BY <2>1, <2>2, <2>4
<1>9. CASE ManifestAnswered
  BY <1>9 DEF ManifestAnswered, StoreStep
<1>10. CASE ManifestLost
  <2>1. StoreStep /\ Device!FetchFails /\ Unhurt
    BY <1>10 DEF ManifestLost, Fault, StoreStep
  <2>2. Quiet /\ pc # "persist"
    BY <2>1 DEF Quiet, Device!FetchFails
  <2> QED
    BY <2>1, <2>2
<1> QED
  BY <1>2, <1>3, <1>4, <1>5, <1>6, <1>7, <1>8, <1>9, <1>10
     DEF DeliveryNext, Request, LostRequest

\* So the gateway of Delivery is JobStore.
LEMMA StoreStepIsNext == ASSUME StoreStep PROVE [Next]_vars
  BY DEF StoreStep, Next, Terminal, gatewayVars, vars

LEMMA DeliveryInitEstablishes == DeliveryInit => DInv
<1> SUFFICES ASSUME DeliveryInit PROVE DInv
  OBVIOUS
<1>1. /\ clock = 1 /\ jobs = [j \in {} |-> 0]
      /\ pc = "off" /\ disk = Device!NoManifest /\ older = Device!NoManifest
      /\ ram = None /\ incoming = None /\ due = None
      /\ cache = {} /\ slot = None /\ screen = None
      /\ rtcWake = FALSE /\ deferred = FALSE /\ changed = FALSE /\ syncing = FALSE
      /\ faults = 0 /\ shown = {} /\ repeats = 0 /\ forgotten = 0
  BY DEF DeliveryInit, Init, Device!Init
<1>3. Device!TypeOK
  <2>1. {rtcWake, deferred, changed, syncing} \subseteq BOOLEAN
    BY <1>1
  <2> QED
    BY <1>1, <2>1, NoManifestFacts, NoneIsNoManifest, NoneIsNotPicked
       DEF Device!TypeOK, Device!Steps
<1>4. WindowsAgree
  BY <1>1, NoManifestFacts DEF WindowsAgree, Held, Kept
<1>5. ShownOnly
  BY <1>1 DEF ShownOnly
<1>6. PaidFor
  <2>1. Returning = {}
    BY <1>1 DEF Returning
  <2> QED
    BY <1>1, <2>1, FS_EmptySet DEF PaidFor
<1>7. DuePicked
  BY <1>1 DEF DuePicked
<1> QED
  BY <1>3, <1>4, <1>5, <1>6, <1>7 DEF DInv

LEMMA DeliveryStepKeeps ==
    ASSUME IInv, DInv, IsFiniteSet(DOMAIN jobs), [DeliveryNext]_deliveryVars
    PROVE  DInv' /\ [Next]_vars /\ (pc # "persist" /\ pc' = "persist" => InItsWindow)
<1>1. CASE DeliveryNext
  <2>1. History
    BY <1>1 DEF DeliveryNext
  <2>2. Device!TypeOK /\ faults \in Nat
    BY DEF DInv, PaidFor
  <2>3. StoreStep /\ Unhurt
    BY <1>1, <2>2, Kinds
  <2>4. [Next]_vars /\ IInv'
    BY <2>3, StoreStepIsNext, NextPreserves
  <2>5. CASE Quiet /\ (pc = "persist" /\ pc' # "persist" =>
                          Held' \subseteq {ram} \/ faults' >= faults + 1)
    <3>1. QuietMove
      BY <2>5, QuietMoves DEF DInv
    <3>2. DInv'
      BY <2>1, <2>3, <2>4, <2>5, QuietKeeps DEF Unhurt
    <3> QED
      BY <2>4, <3>1, <3>2 DEF QuietMove
  <2>6. CASE Device!ShowCard /\ UNCHANGED <<calls, jobs, acks, version, faults>>
    BY <2>1, <2>4, <2>6, ShowKeeps
  <2>7. CASE ManifestAnswered
    <3>1. pc' # "persist"
      BY <2>7, AnswerFacts
    <3> QED
      BY <2>1, <2>4, <2>7, <3>1, AnswerKeeps
  <2>8. CASE /\ \E byRtc \in BOOLEAN : Device!BootMisreads(byRtc)
             /\ UNCHANGED <<calls, jobs, acks, version>>
    <3>1. pc' # "persist"
      BY <2>8 DEF Device!BootMisreads, Device!Starts
    <3> QED
      BY <2>1, <2>3, <2>4, <2>8, <3>1, MisreadKeeps DEF Unhurt
  <2> QED
    BY <1>1, <2>2, <2>5, <2>6, <2>7, <2>8, Kinds
<1>2. CASE UNCHANGED deliveryVars
  <2>1. UNCHANGED <<vars, deviceVars, faults>> /\ Unmarked
    BY <1>2 DEF deliveryVars, gatewayVars, vars, Unmarked
  <2>2. StoreStep /\ Quiet /\ [Next]_vars /\ pc' = pc
    BY <2>1 DEF StoreStep, Quiet, gatewayVars, vars, deviceVars
  <2>3. IInv' /\ faults' = faults /\ faults \in Nat
    BY <2>1, <2>2, NextPreserves DEF DInv, PaidFor
  <2> QED
    BY <2>1, <2>2, <2>3, QuietKeeps
<1> QED
  BY <1>1, <1>2

\* Delivery's gateway is JobStore, so what JobStore's theorems say holds of it.
LEMMA DeliveryInductive ==
    DeliverySpec => Spec /\ [](IInv /\ IsFiniteSet(DOMAIN jobs) /\ DInv)
<1>1. DeliveryInit => Init /\ IInv /\ IsFiniteSet(DOMAIN jobs) /\ DInv
  <2>1. DeliveryInit => Init
    BY DEF DeliveryInit
  <2>2. Init => IsFiniteSet(DOMAIN jobs)
    BY FS_EmptySet DEF Init
  <2> QED
    BY <2>1, <2>2, InitEstablishes, DeliveryInitEstablishes
<1>2. IInv /\ IsFiniteSet(DOMAIN jobs) /\ DInv /\ [DeliveryNext]_deliveryVars
         => (IInv /\ IsFiniteSet(DOMAIN jobs) /\ DInv)' /\ [Next]_vars
  BY DeliveryStepKeeps, NextPreserves, StepStaysFinite
<1> QED
  BY <1>1, <1>2, PTL DEF DeliverySpec, Spec

\* For any number of cards and faults, any limits, sizes and times: the gateway
\* reports only cards that were on the screen, whatever answers are lost, retried
\* or overtaken (store.py:786-835, scheduled_push.cpp:931).
THEOREM ReportsAreTrue == DeliverySpec => []DisplayedWasShown
<1>1. DInv => DisplayedWasShown
  BY DEF DInv, ShownOnly, DisplayedWasShown
<1> QED
  BY <1>1, DeliveryInductive, PTL

\* The acknowledgement in the slot is refused only when its card has expired at
\* the gateway: a card that is displayed there was acknowledged, and nothing
\* makes one fail.
THEOREM AcksAreTaken == DeliverySpec => []RefusedOnlyWhenExpired
<1>1. ASSUME IInv, DInv PROVE RefusedOnlyWhenExpired
  <2> SUFFICES ASSUME slot # None, jobs[slot].status # "expired"
               PROVE  AckAnswer(slot, "displayed") \in {"recorded", "duplicate"}
    BY DEF RefusedOnlyWhenExpired
  <2>1. slot \in DOMAIN jobs /\ jobs[slot].status # "failed"
    BY <1>1 DEF DInv, ShownOnly
  <2>2. CASE jobs[slot].status = "displayed"
    <3>1. {s \in Terminal : <<slot, s>> \in acks} = {"displayed"}
      BY <1>1, <2>1, <2>2 DEF IInv, AcksMatchStates, Terminal
    <3>2. <<slot, "displayed">> \in acks
      BY <3>1
    <3> QED
      BY <2>1, <3>2 DEF AckAnswer
  <2>3. CASE jobs[slot].status # "displayed"
    BY <2>1, <2>3 DEF AckAnswer, Terminal
  <2> QED
    BY <2>2, <2>3
<1>2. IInv /\ DInv => RefusedOnlyWhenExpired
  BY <1>1
<1> QED
  BY <1>2, DeliveryInductive, PTL

\* Every card that comes on the screen was chosen within its window by the gateway's
\* record: the windows the device holds, the fallback manifest included, are the
\* gateway's, and no step from the choice to the refresh changes either.
THEOREM CardsKeepTheirWindows == DeliverySpec => ShownInItsWindow
<1>1. IInv /\ IsFiniteSet(DOMAIN jobs) /\ DInv /\ [DeliveryNext]_deliveryVars
         => [pc # "persist" /\ pc' = "persist" => InItsWindow]_deliveryVars
  BY DeliveryStepKeeps
<1>2. DeliverySpec => [][pc # "persist" /\ pc' = "persist" => InItsWindow]_deliveryVars
  BY <1>1, DeliveryInductive, PTL DEF DeliverySpec
<1> QED
  BY <1>2 DEF ShownInItsWindow, InItsWindow

\* For every interleaving of refresh, flash writes, acknowledgements, manifests
\* and power cuts: each repeat has its own fault, or its own card that a manifest
\* left out or an unreadable manifest lost.
THEOREM RepeatsArePaidFor == DeliverySpec => []RepeatsNeedFaults
<1>1. ASSUME DInv, IsFiniteSet(DOMAIN jobs) PROVE RepeatsNeedFaults
  <2>1. Returning \subseteq shown /\ shown \subseteq DOMAIN jobs
    BY <1>1 DEF DInv, ShownOnly, Returning
  <2>2. Cardinality(Returning) \in Nat
    BY <1>1, <2>1, FS_Subset, FS_CardinalityType
  <2> QED
    BY <1>1, <2>2 DEF DInv, PaidFor, RepeatsNeedFaults
<1>2. DInv /\ IsFiniteSet(DOMAIN jobs) => RepeatsNeedFaults
  BY <1>1
<1> QED
  BY <1>2, DeliveryInductive, PTL
=============================================================================
