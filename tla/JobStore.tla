------------------------------ MODULE JobStore ------------------------------
(***************************************************************************)
(* The gateway's card jobs (gateway/src/papercolor_gateway/store.py) and   *)
(* the show_card tool call that makes them (app.py).                       *)
(*                                                                         *)
(* A tool call is accepted, its image is fetched and its card rendered     *)
(* (both awaited, so other calls are served meanwhile), and only then is   *)
(* the job stored, under the acceptance time.  All jobs are stored, served *)
(* and acknowledged on the event loop thread, each handler without an      *)
(* await in it, so each is one step here.                                  *)
(***************************************************************************)
EXTENDS Integers, FiniteSets, SequencesExt

CONSTANTS
    Jobs,        \* job ids: uuid4 strings, ordered as SQLite orders them
    Size,        \* bytes of each job's rendered card
    Horizon,     \* MANIFEST_HORIZON_SECONDS
    Limit,       \* MAX_MANIFEST_JOBS
    MaxBytes,    \* MAX_MANIFEST_ASSET_BYTES
    MaxTime      \* bound: the clock and every requested time stop here

ASSUME JobsAreNaturals == Jobs \subseteq Nat
ASSUME AssetsFitAlone ==      \* put_asset refuses a larger card
    Size \in [Jobs -> Nat] /\ \A j \in Jobs : Size[j] <= MaxBytes
ASSUME BoundsAreNaturals == /\ {Horizon, MaxBytes} \subseteq Nat
                            /\ {Limit, MaxTime} \subseteq Nat \ {0}

VARIABLES
    clock,       \* the gateway's time
    calls,       \* accepted show_card calls that are still fetching or rendering
    jobs,        \* the jobs table: a function on the ids stored so far
    acks,        \* the acknowledgements table of the one registered device
    version      \* metadata.manifest_version

vars == <<clock, calls, jobs, acks, version>>

Statuses == {"pending", "superseded", "displayed", "failed", "expired"}
Terminal == {"displayed", "failed"}
Times == 0..MaxTime

JobRecord == [created : Times, display : Times, expires : Times,
              immediate : BOOLEAN, status : Statuses]

\* display 0 stands for a call without display_at, expires 0 for no expires_at.
Call == [id : Jobs, accepted : Times, display : Times, expires : Times]

Init == /\ clock = 1
        /\ calls = {}
        /\ jobs = [j \in {} |-> 0]
        /\ acks = {}
        /\ version = 0

-----------------------------------------------------------------------------
(* papercolor_show_card *)

Tick == /\ clock < MaxTime
        /\ clock' = clock + 1
        /\ UNCHANGED <<calls, jobs, acks, version>>

Max2(a, b) == IF a > b THEN a ELSE b

\* CardRequest.from_mapping: display_at lies in the future and expires_at after
\* both.  The id is drawn when the job is stored; no two calls draw the same.
AcceptCard(id, display, expires) ==
    /\ id \notin DOMAIN jobs /\ \A c \in calls : c.id # id
    /\ display = 0 \/ display > clock
    /\ expires = 0 \/ expires > Max2(clock, display)
    /\ calls' = calls \cup {[id |-> id, accepted |-> clock,
                             display |-> display, expires |-> expires]}
    /\ UNCHANGED <<clock, jobs, acks, version>>

\* The fetch or the render fails, the client goes away, or the gateway restarts.
DropCall(c) ==
    /\ calls' = calls \ {c}
    /\ UNCHANGED <<clock, jobs, acks, version>>

\* Mutant of NewJob: expires_at is taken for a duration.
NewJobDuration(c) == [created |-> c.accepted,
                      display |-> IF c.display = 0 THEN c.accepted ELSE c.display,
                      expires |-> c.accepted + c.expires,
                      immediate |-> c.display = 0,
                      status |-> "pending"]

NewJob(c) == [created |-> c.accepted,
              display |-> IF c.display = 0 THEN c.accepted ELSE c.display,
              expires |-> c.expires,
              immediate |-> c.display = 0,
              status |-> "pending"]

\* Mutant of Superseded: pending immediate cards stay pending.
NotSuperseded(job) == job

Superseded(job) ==
    IF job.immediate /\ job.status = "pending"
    THEN [job EXCEPT !.status = "superseded"] ELSE job

\* create_job: a new immediate card supersedes the pending ones.
CreateJob(c) ==
    /\ jobs' = [j \in DOMAIN jobs \cup {c.id} |->
                   IF j = c.id THEN NewJob(c)
                   ELSE IF c.display = 0 THEN Superseded(jobs[j]) ELSE jobs[j]]
    /\ calls' = calls \ {c}
    /\ version' = version + 1
    /\ UNCHANGED <<clock, acks>>

-----------------------------------------------------------------------------
(* build_manifest *)

Expires(job) == /\ job.status = "pending"
                /\ job.expires # 0 /\ job.expires <= clock

\* _expire_jobs, which build_manifest runs before it selects anything.
AfterExpiry ==
    [j \in DOMAIN jobs |->
        IF Expires(jobs[j]) THEN [jobs[j] EXCEPT !.status = "expired"]
                            ELSE jobs[j]]

Pending(table, immediate) ==
    {j \in DOMAIN table : table[j].status = "pending"
                          /\ table[j].immediate = immediate}

\* ORDER BY created_at DESC, id DESC LIMIT 1
NewestImmediate(table) ==
    LET pending == Pending(table, TRUE)
    IN  {j \in pending : \A k \in pending :
            \/ table[k].created < table[j].created
            \/ table[k].created = table[j].created /\ k <= j}

\* ORDER BY display_at ASC, created_at ASC, id ASC
Earlier(table, j, k) ==
    \/ table[j].display < table[k].display
    \/ /\ table[j].display = table[k].display
       /\ \/ table[j].created < table[k].created
          \/ table[j].created = table[k].created /\ j < k

\* The elements of S in the order given by those that come before each.
InOrder(S, before) ==
    [i \in 1..Cardinality(S) |-> CHOOSE x \in S : Cardinality(before[x]) = i - 1]

ScheduledRows(table, now) ==
    LET due == {j \in Pending(table, FALSE) : table[j].display <= now + Horizon}
    IN  InOrder(due, [j \in due |-> {k \in due : Earlier(table, k, j)}])

Bytes(rows) ==
    LET upTo[n \in 0..Len(rows)] == IF n = 0 THEN 0 ELSE upTo[n - 1] + Size[rows[n]]
    IN  upTo[Len(rows)]

\* Mutant of AddRow: the byte limit is not enforced.
AddRowOfAnySize(rows, j) == IF Len(rows) >= Limit THEN rows ELSE Append(rows, j)

\* A row that would exceed the byte limit is skipped; a full list ends the loop.
AddRow(rows, j) ==
    IF Len(rows) >= Limit \/ Bytes(rows) + Size[j] > MaxBytes
    THEN rows ELSE Append(rows, j)

\* The ids of the jobs a manifest built from the table lists, in its order.
ManifestRows(table, now) ==
    LET scheduled == ScheduledRows(table, now)
        upTo[n \in 0..Len(scheduled)] ==
            IF n = 0 THEN SetToSeq(NewestImmediate(table))
                     ELSE AddRow(upTo[n - 1], scheduled[n])
    IN  upTo[Len(scheduled)]

BuildManifest ==
    /\ jobs' = AfterExpiry
    /\ version' = IF AfterExpiry # jobs THEN version + 1 ELSE version
    /\ UNCHANGED <<clock, calls, acks>>

-----------------------------------------------------------------------------
(* acknowledge *)

\* Mutants of AckAnswer: a job that is already terminal is not refused, an
\* expired one is not, a superseded one is, and a repeated acknowledgement is
\* not recognised.
AckTerminalAgain(j, state) ==
    IF j \notin DOMAIN jobs THEN "not_found"
    ELSE IF <<j, state>> \in acks THEN "duplicate"
    ELSE IF jobs[j].status = "expired" THEN "conflict"
    ELSE "recorded"

AckExpired(j, state) ==
    IF j \notin DOMAIN jobs THEN "not_found"
    ELSE IF <<j, state>> \in acks THEN "duplicate"
    ELSE IF jobs[j].status \in Terminal THEN "conflict"
    ELSE "recorded"

RefuseSuperseded(j, state) ==
    IF j \notin DOMAIN jobs THEN "not_found"
    ELSE IF <<j, state>> \in acks THEN "duplicate"
    ELSE IF jobs[j].status # "pending" THEN "conflict"
    ELSE "recorded"

RefuseDuplicate(j, state) ==
    IF j \notin DOMAIN jobs THEN "not_found"
    ELSE IF jobs[j].status \in Terminal \cup {"expired"} THEN "conflict"
    ELSE "recorded"

\* The answer to an acknowledgement: 200 (recorded or a duplicate), 409 or 404.
AckAnswer(j, state) ==
    IF j \notin DOMAIN jobs THEN "not_found"
    ELSE IF <<j, state>> \in acks THEN "duplicate"
    ELSE IF jobs[j].status \in Terminal \cup {"expired"} THEN "conflict"
    ELSE "recorded"

\* Mutant of Acknowledge: the update does not name the job.
AcknowledgeAll(j, state) ==
    /\ IF AckAnswer(j, state) = "recorded"
       THEN /\ acks' = acks \cup {<<j, state>>}
            /\ jobs' = [k \in DOMAIN jobs |-> [jobs[k] EXCEPT !.status = state]]
            /\ version' = version + 1
       ELSE UNCHANGED <<acks, jobs, version>>
    /\ UNCHANGED <<clock, calls>>

Acknowledge(j, state) ==
    /\ IF AckAnswer(j, state) = "recorded"
       THEN /\ acks' = acks \cup {<<j, state>>}
            /\ jobs' = [jobs EXCEPT ![j].status = state]
            /\ version' = version + 1
       ELSE UNCHANGED <<acks, jobs, version>>
    /\ UNCHANGED <<clock, calls>>

-----------------------------------------------------------------------------
Next == \/ Tick
        \/ \E id \in Jobs, display \in Times, expires \in Times :
              AcceptCard(id, display, expires)
        \/ \E c \in calls : DropCall(c) \/ CreateJob(c)
        \/ BuildManifest
        \/ \E j \in Jobs, state \in Terminal : Acknowledge(j, state)

Spec == Init /\ [][Next]_vars

-----------------------------------------------------------------------------
(* Properties *)

\* Every variable stays in its type.
TypeOK == /\ clock \in Times
          /\ calls \subseteq Call
          /\ DOMAIN jobs \subseteq Jobs
          /\ \A j \in DOMAIN jobs : jobs[j] \in JobRecord
          /\ acks \subseteq Jobs \X Terminal
          /\ version \in Nat

\* However the calls overlap, at most one immediate card is pending: the device
\* is never handed two cards to show at once (store.py:605-611).
OneImmediate == Cardinality(Pending(jobs, TRUE)) <= 1

\* The acknowledgements and the job states tell one story: a job is in a
\* terminal state exactly when that state was acknowledged, and it was
\* acknowledged in one state only (store.py:786-835).
AcksMatchStates ==
    \A j \in DOMAIN jobs :
        {s \in Terminal : <<j, s>> \in acks} =
            (IF jobs[j].status \in Terminal THEN {jobs[j].status} ELSE {})

\* A job that reached the screen, failed or expired stays so; a superseded one
\* can only still be acknowledged.
FinalStates ==
    [][\A j \in DOMAIN jobs :
          /\ j \in DOMAIN jobs'
          /\ jobs[j].status \in Terminal \cup {"expired"}
                => jobs'[j].status = jobs[j].status
          /\ jobs[j].status = "superseded"
                => jobs'[j].status \in Terminal \cup {"superseded"}]_vars

\* What the manifest would list now.
Listed == ManifestRows(AfterExpiry, clock)

\* The immediate card comes first, then the scheduled ones in the order of the
\* query.
InServedOrder ==
    \A i, k \in DOMAIN Listed : i < k =>
        /\ ~jobs[Listed[k]].immediate
        /\ jobs[Listed[i]].immediate \/ Earlier(jobs, Listed[i], Listed[k])

\* The manifest a device would be served lists a job once and in order, keeps
\* both limits, lists only pending jobs that have not expired at that moment and
\* are due within the horizon, and never leaves out the pending immediate card
\* (store.py:682-718).
ManifestSound ==
    /\ IsInjective(Listed)
    /\ InServedOrder
    /\ Len(Listed) <= Limit
    /\ Bytes(Listed) <= MaxBytes
    /\ \A j \in ToSet(Listed) :
          /\ jobs[j].status = "pending" /\ ~Expires(jobs[j])
          /\ jobs[j].display <= clock + Horizon
    /\ Pending(AfterExpiry, TRUE) \subseteq ToSet(Listed)
=============================================================================
