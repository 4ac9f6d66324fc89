--------------------------- MODULE VoicePipeline ---------------------------
(***************************************************************************)
(* A recording on its way to text: the outbox on the SD card and the       *)
(* upload loop of a sync (scheduled_push.cpp), the gateway's capture table *)
(* and voice directory (store.py), and the transcribing processes          *)
(* (voice_processor.py) that share the database with the gateway.          *)
(*                                                                         *)
(* The device gives a request up without knowing what became of it, and    *)
(* the gateway may handle it later still.  The device, the gateway and     *)
(* every transcriber may stop between two steps.                           *)
(*                                                                         *)
(* The gateway's handler reads the body once and takes what has come so    *)
(* far for the recording (request.content.read): the file, the row's       *)
(* digest and the answer are about that part, and a repeated request may   *)
(* be read to another part.                                                *)
(*                                                                         *)
(* Left out: the name and size checks that both sides repeat, several      *)
(* devices (a row under another device's token answers 409), the temporary *)
(* file beside the final one, and what the text says.                      *)
(***************************************************************************)
EXTENDS Naturals, SequencesExt

CONSTANTS
    Captures,    \* capture ids: the names of the WAV files
    Unsendable,  \* files of the outbox the device cannot read or will not send
    Refused,     \* files the device sends and the gateway answers with 4xx
    Batch,       \* the files one listing takes from the outbox
    Whole,       \* Whole[c]: the parts of c's body; a reader gets the first 1..Whole[c]
    Workers,     \* transcribing processes
    MaxFaults,   \* bound: failed calls, lost answers, crashes
    None         \* no capture

ASSUME BadFilesAreCaptures == Unsendable \cup Refused \subseteq Captures
ASSUME BatchTakesFiles == Batch \in Nat \ {0}
ASSUME BodiesHaveParts == Whole \in [Captures -> Nat \ {0}]
ASSUME FaultsAreCounted == MaxFaults \in Nat
ASSUME NoneIsNoCapture == None \notin Captures

VARIABLES
    outbox,      \* VOICE_OUTBOX_DIR, in the order readdir gives
    archive,     \* VOICE_ARCHIVE_DIR
    pc,          \* upload_pending_voice_captures: "idle", "next", "waiting", "archive"
    pending,     \* the ids it has listed and not yet dealt with
    requests,    \* the PUTs under way; the device waits for the live one only
    placing,     \* the capture of the transaction store_voice_capture is in
    files,       \* the part in the gateway's voice directory, 0 without a file
    rows,        \* the state of each capture's row, "none" without one
    digest,      \* the part the row's sha256 and size are of
    arrived,     \* the captures with a row, oldest first
    work,        \* the capture each worker has claimed
    faults,      \* failures so far, at most MaxFaults
    acked,       \* history: the part of the request last answered with success
    clashed,     \* history: the captures refused for an earlier part
    orphaned     \* history: the captures whose transcriber died over them

vars == <<outbox, archive, pc, pending, requests, placing, files, rows, digest,
          arrived, work, faults, acked, clashed, orphaned>>

device == <<outbox, archive, pc, pending>>
gateway == <<requests, placing>>
table == <<files, rows, digest, arrived>>
workers == <<work, orphaned>>
answers == <<acked, clashed>>

\* A request; part is what the handler has read of its body, 0 before it does.
Put(c) == [capture |-> c, live |-> TRUE, part |-> 0]

Abandoned == {[r EXCEPT !.live = FALSE] : r \in requests}

Init ==
    /\ outbox = <<>> /\ archive = {}
    /\ pc = "idle" /\ pending = <<>>
    /\ requests = {} /\ placing = None
    /\ files = [c \in Captures |-> 0]
    /\ rows = [c \in Captures |-> "none"]
    /\ digest = [c \in Captures |-> 0]
    /\ arrived = <<>>
    /\ work = [w \in Workers |-> None]
    /\ faults = 0
    /\ acked = [c \in Captures |-> 0] /\ clashed = {} /\ orphaned = {}

Fault == faults < MaxFaults /\ faults' = faults + 1

-----------------------------------------------------------------------------
(* The device *)

\* finalize_capture, or a copy over USB: the file takes a free directory entry,
\* before or after the others.
Saved(c) ==
    /\ pc = "idle"
    /\ c \notin ToSet(outbox) \cup archive
    /\ \E i \in 1..(Len(outbox) + 1) : outbox' = InsertAt(outbox, i, c)
    /\ UNCHANGED <<archive, pc, pending, gateway, table, workers, answers, faults>>

\* The listing stops at Batch files.
ListOutbox ==
    /\ pc = "idle" /\ outbox # <<>>
    /\ pending' = SubSeq(outbox, 1, IF Len(outbox) < Batch THEN Len(outbox) ELSE Batch)
    /\ pc' = "next"
    /\ UNCHANGED <<outbox, archive, gateway, table, workers, answers, faults>>

\* The first failure ends the loop, whatever is still pending.
LoopBreaks == pending' = <<>> /\ pc' = "idle"

LoopGoesOn == /\ pending' = Tail(pending)
              /\ pc' = IF Len(pending) = 1 THEN "idle" ELSE "next"

\* upload_voice_file from the open connection on: the body goes out piece by
\* piece, and the gateway may begin on what has come.
Send ==
    /\ pc = "next"
    /\ Head(pending) \notin Unsendable
    /\ requests' = requests \cup {Put(Head(pending))}
    /\ pc' = "waiting"
    /\ UNCHANGED <<outbox, archive, pending, placing, table, workers, answers, faults>>

\* The file cannot be opened, has a wrong size, or no connection comes up.
SendFails ==
    /\ pc = "next"
    /\ IF Head(pending) \in Unsendable THEN UNCHANGED faults ELSE Fault
    /\ LoopBreaks
    /\ UNCHANGED <<outbox, archive, gateway, table, workers, answers>>

\* A write fails, the connection breaks or 45 seconds pass; the gateway may
\* have all of the body or a part of it.
GiveUp ==
    /\ Fault
    /\ pc = "waiting"
    /\ LoopBreaks
    /\ requests' = Abandoned
    /\ UNCHANGED <<outbox, archive, placing, table, workers, answers>>

\* The 2xx answer moves the file out of the outbox.
Archive ==
    /\ pc = "archive"
    /\ \E i \in DOMAIN outbox :
           outbox[i] = Head(pending) /\ outbox' = RemoveAt(outbox, i)
    /\ archive' = archive \cup {Head(pending)}
    /\ LoopGoesOn
    /\ UNCHANGED <<gateway, table, workers, answers, faults>>

\* mkdir or rename fails: the gateway has the capture, the outbox too.
ArchiveFails ==
    /\ Fault
    /\ pc = "archive"
    /\ LoopBreaks
    /\ UNCHANGED <<outbox, archive, gateway, table, workers, answers>>

DevicePowerLoss ==
    /\ Fault
    /\ pc # "idle"
    /\ LoopBreaks
    /\ requests' = Abandoned
    /\ UNCHANGED <<outbox, archive, placing, table, workers, answers>>

-----------------------------------------------------------------------------
(* The gateway: PUT /device/v1/voice-captures *)

\* An answer reaches the device if it still waits for it.
Accept(r, n) ==
    /\ requests' = requests \ {r}
    /\ IF r.live THEN pc' = "archive" /\ acked' = [acked EXCEPT ![r.capture] = n]
                 ELSE UNCHANGED <<pc, acked>>
    /\ UNCHANGED pending

Reject(r) ==
    /\ requests' = requests \ {r}
    /\ IF r.live THEN LoopBreaks ELSE UNCHANGED <<pc, pending>>

Refuse(r) ==
    /\ r.capture \in Refused
    /\ placing = None
    /\ Reject(r)
    /\ UNCHANGED <<outbox, archive, placing, table, workers, answers, faults>>

\* The part that has come is no WAV file yet, or the database is busy.
TurnedAway(r) ==
    /\ Fault
    /\ placing = None
    /\ Reject(r)
    /\ UNCHANGED <<outbox, archive, placing, table, workers, answers>>

\* Mutant of Duplicate: the digests are not compared.
DuplicateUnchecked(r) ==
    /\ r.capture \notin Refused
    /\ placing = None
    /\ rows[r.capture] # "none"
    /\ \E n \in 1..Whole[r.capture] : Accept(r, n)
    /\ UNCHANGED <<outbox, archive, placing, table, workers, clashed, faults>>

\* An earlier request stored the same part.
Duplicate(r) ==
    /\ r.capture \notin Refused
    /\ placing = None
    /\ rows[r.capture] # "none"
    /\ Accept(r, digest[r.capture])
    /\ UNCHANGED <<outbox, archive, placing, table, workers, clashed, faults>>

\* An earlier request stored another part: 409.
Conflict(r) ==
    /\ r.capture \notin Refused
    /\ placing = None
    /\ rows[r.capture] # "none"
    /\ \E n \in 1..Whole[r.capture] : n # digest[r.capture]
    /\ Reject(r)
    /\ clashed' = clashed \cup {r.capture}
    /\ UNCHANGED <<outbox, archive, placing, table, workers, acked, faults>>

\* Within the transaction what has been read is written, synced and put in
\* place, over the file a rolled back transaction may have left.
PlaceFile(r) ==
    /\ r.capture \notin Refused
    /\ placing = None
    /\ rows[r.capture] = "none"
    /\ \E n \in 1..Whole[r.capture] :
          /\ files' = [files EXCEPT ![r.capture] = n]
          /\ requests' = (requests \ {r}) \cup {[r EXCEPT !.part = n]}
    /\ placing' = r.capture
    /\ UNCHANGED <<device, rows, digest, arrived, workers, answers, faults>>

\* The row is inserted and the transaction committed.
CommitRow(r) ==
    /\ placing = r.capture /\ r.part # 0
    /\ rows' = [rows EXCEPT ![placing] = "pending"]
    /\ digest' = [digest EXCEPT ![placing] = r.part]
    /\ arrived' = Append(arrived, placing)
    /\ placing' = None
    /\ Accept(r, r.part)
    /\ UNCHANGED <<outbox, archive, files, workers, clashed, faults>>

\* The INSERT fails and the file is removed, or the COMMIT does and the file
\* stays; the answer is a 500.
InsertFails(r) ==
    /\ Fault
    /\ placing = r.capture /\ r.part # 0
    /\ files' \in {files, [files EXCEPT ![placing] = 0]}
    /\ placing' = None
    /\ Reject(r)
    /\ UNCHANGED <<outbox, archive, rows, digest, arrived, workers, answers>>

\* An open transaction is rolled back at the next start; its file stays.
GatewayCrash ==
    /\ Fault
    /\ requests # {}
    /\ requests' = {} /\ placing' = None
    /\ IF pc = "waiting" THEN LoopBreaks ELSE UNCHANGED <<pc, pending>>
    /\ UNCHANGED <<outbox, archive, table, workers, answers>>

-----------------------------------------------------------------------------
(* The transcribing processes *)

\* Mutant of Claimable: the state is read outside the transaction.
ClaimableStale == {i \in DOMAIN arrived : rows[arrived[i]] \in {"pending", "processing"}}

Claimable == {i \in DOMAIN arrived : rows[arrived[i]] = "pending"}

\* claim_pending_voice_capture: the oldest pending row, in one transaction.
Claim(w) ==
    /\ work[w] = None /\ placing = None
    /\ \E i \in Claimable :
          /\ \A k \in Claimable : i <= k
          /\ rows' = [rows EXCEPT ![arrived[i]] = "processing"]
          /\ work' = [work EXCEPT ![w] = arrived[i]]
    /\ UNCHANGED <<device, gateway, files, digest, arrived, answers, faults, orphaned>>

\* finish_voice_capture, which updates a row in processing only.
Finish(w, state) ==
    /\ work[w] # None /\ placing = None
    /\ rows[work[w]] = "processing"
    /\ rows' = [rows EXCEPT ![work[w]] = state]
    /\ work' = [work EXCEPT ![w] = None]
    /\ UNCHANGED <<device, gateway, files, digest, arrived, answers, faults, orphaned>>

Transcribed(w) == Finish(w, "completed")

\* Mutant of TranscriptionFails: the exception is only logged.
TranscriptionSkipped(w) ==
    /\ work[w] # None
    /\ work' = [work EXCEPT ![w] = None]
    /\ UNCHANGED <<device, gateway, table, answers, faults, orphaned>>

\* The transcriber raises, or the update of the row does.  An exception with
\* an empty message gives an empty error, which reads as success.
TranscriptionFails(w) ==
    \E state \in {"failed", "completed"} : Finish(w, state)

\* The process is killed, or the update of the row fails twice.
WorkerDies(w) ==
    /\ Fault
    /\ work[w] # None
    /\ work' = [work EXCEPT ![w] = None]
    /\ orphaned' = orphaned \cup {work[w]}
    /\ UNCHANGED <<device, gateway, table, answers>>

-----------------------------------------------------------------------------

DeviceGoesOn ==
    \/ ListOutbox \/ Send \/ Archive
    \/ SendFails /\ Head(pending) \in Unsendable

GatewayGoesOn ==
    \E r \in requests :
        Refuse(r) \/ Duplicate(r) \/ Conflict(r) \/ PlaceFile(r) \/ CommitRow(r)

WorkerGoesOn(w) == Claim(w) \/ Transcribed(w) \/ TranscriptionFails(w)

Fails ==
    \/ SendFails \/ GiveUp \/ ArchiveFails \/ DevicePowerLoss
    \/ \E r \in requests : TurnedAway(r) \/ InsertFails(r)
    \/ GatewayCrash
    \/ \E w \in Workers : WorkerDies(w)

Next ==
    \/ \E c \in Captures : Saved(c)
    \/ DeviceGoesOn \/ GatewayGoesOn
    \/ \E w \in Workers : WorkerGoesOn(w)
    \/ Fails

Spec == Init /\ [][Next]_vars

\* The device syncs again and again, the gateway answers, the workers run.
FairSpec == /\ Spec
            /\ WF_vars(DeviceGoesOn) /\ WF_vars(GatewayGoesOn)
            /\ \A w \in Workers : WF_vars(WorkerGoesOn(w))

-----------------------------------------------------------------------------
(* Properties *)

RowStates == {"none", "pending", "processing", "completed", "failed"}

\* Every variable stays in its type; the device waits for one request at most.
TypeOK ==
    /\ outbox \in Seq(Captures)
    /\ archive \subseteq Captures
    /\ pc \in {"idle", "next", "waiting", "archive"}
    /\ pending \in Seq(Captures) /\ (pending = <<>> <=> pc = "idle")
    /\ requests \subseteq [capture : Captures, live : BOOLEAN, part : Nat]
    /\ \A r \in requests : r.live => pc = "waiting" /\ r.capture = Head(pending)
    /\ placing \in Captures \cup {None}
    /\ files \in [Captures -> Nat] /\ rows \in [Captures -> RowStates]
    /\ digest \in [Captures -> Nat] /\ acked \in [Captures -> Nat]
    /\ arrived \in Seq(Captures)
    /\ work \in [Workers -> Captures \cup {None}]
    /\ faults \in 0..MaxFaults /\ clashed \subseteq Captures /\ orphaned \subseteq Captures

\* A recording that has left the outbox is kept at the gateway as the request
\* that was answered with success carried it, whatever was lost, repeated,
\* delayed or read to another part on the way: its row is there and has the
\* digest of that part.  And no row ever stands without the very file its
\* digest is of, which a transcriber would open.  The property does not say
\* that the part is the whole recording, which the handler does not make sure
\* of (scheduled_push.cpp:254-270, app.py:297, store.py:240-290).
NothingLost ==
    /\ \A c \in archive : rows[c] # "none" /\ digest[c] = acked[c]
    /\ \A c \in Captures : rows[c] # "none" => files[c] = digest[c] /\ files[c] # 0

\* Two processes never work on one capture, nor on a row that is settled
\* (store.py:302-345).
OneTranscriber ==
    \A v, w \in Workers :
        work[w] # None =>
            /\ rows[work[w]] = "processing"
            /\ v # w => work[v] # work[w]

Bad == Unsendable \cup Refused

\* With syncs that go on and failures that come to an end, a recording
\* in the outbox reaches a final state, unless a transcriber died over it or
\* the outbox holds a file that ends the upload loop: a bad one, or one whose
\* repeated upload was read to another part than the first and refused
\* (scheduled_push.cpp:300-302, store.py:249-255, voice_processor.py:30-50).
RecordingsSettle ==
    \A c \in Captures \ Bad :
        c \in ToSet(outbox) ~>
            \/ rows[c] \in {"completed", "failed"}
            \/ c \in orphaned
            \/ (Bad \cup clashed) \cap ToSet(outbox) # {}
=============================================================================
