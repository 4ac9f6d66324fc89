------------------------ MODULE VoicePipelineProofs ------------------------
(***************************************************************************)
(* VoicePipeline for any captures, any transcribers and any number of      *)
(* faults: nothing that left the outbox is lost, and no two transcribers   *)
(* work on one capture.                                                    *)
(***************************************************************************)
EXTENDS VoicePipeline, SequenceTheorems, TLAPS

\* A request that has been read is the one whose transaction is under way: it
\* has put its file in place and has no row yet.  The device waits for one
\* request only.
RequestsInOrder ==
    /\ placing # None => rows[placing] = "none"
    /\ \A r \in requests : r.part # 0 => r.capture = placing /\ r.part = files[placing]
    /\ \A q, r \in requests : (q.part # 0 /\ r.part # 0) \/ (q.live /\ r.live) => q = r

\* What the device moves out of the outbox has its row, of the part it sent.
ArchivingIsStored ==
    pc = "archive" => /\ rows[Head(pending)] # "none"
                      /\ acked[Head(pending)] = digest[Head(pending)]

IInv == /\ TypeOK /\ NothingLost /\ OneTranscriber
        /\ RequestsInOrder /\ ArchivingIsStored

\* What a sequence of captures still is after the outbox's and the list's
\* operations.
LEMMA CapturesOnly ==
    ASSUME NEW s \in Seq(Captures)
    PROVE  /\ \A c \in Captures, i \in 1..(Len(s) + 1) : InsertAt(s, i, c) \in Seq(Captures)
           /\ \A i \in DOMAIN s : RemoveAt(s, i) \in Seq(Captures)
           /\ s # <<>> => Head(s) \in Captures /\ Tail(s) \in Seq(Captures)
           /\ s # <<>> => (Tail(s) = <<>> <=> Len(s) = 1)
<1>1. ASSUME NEW c \in Captures, NEW i \in 1..(Len(s) + 1)
      PROVE  InsertAt(s, i, c) \in Seq(Captures)
  <2>1. SubSeq(s, 1, i - 1) \in Seq(Captures) /\ SubSeq(s, i, Len(s)) \in Seq(Captures)
    OBVIOUS
  <2> QED
    BY <2>1 DEF InsertAt
<1>2. ASSUME NEW i \in DOMAIN s
      PROVE  RemoveAt(s, i) \in Seq(Captures)
  <2>1. SubSeq(s, 1, i - 1) \in Seq(Captures) /\ SubSeq(s, i + 1, Len(s)) \in Seq(Captures)
    OBVIOUS
  <2> QED
    BY <2>1 DEF RemoveAt
<1>3. ASSUME s # <<>>
      PROVE  Head(s) \in Captures /\ Tail(s) \in Seq(Captures)
  BY <1>3
<1>4. ASSUME s # <<>>
      PROVE  Tail(s) = <<>> <=> Len(s) = 1
  <2>1. Len(s) \in Nat \ {0} /\ Len(Tail(s)) = Len(s) - 1 /\ Tail(s) \in Seq(Captures)
    BY <1>4, HeadTailProperties, EmptySeq
  <2>2. Tail(s) = <<>> <=> Len(Tail(s)) = 0
    BY <2>1, EmptySeq
  <2> QED
    BY <2>1, <2>2
<1> QED
  BY <1>1, <1>2, <1>3, <1>4

LEMMA InitEstablishes == Init => IInv
<1> SUFFICES ASSUME Init PROVE IInv
  OBVIOUS
<1>1. TypeOK
  BY FaultsAreCounted DEF Init, TypeOK, RowStates
<1>2. NothingLost /\ OneTranscriber
  BY NoneIsNoCapture DEF Init, NothingLost, OneTranscriber
<1>3. RequestsInOrder /\ ArchivingIsStored
  BY NoneIsNoCapture DEF Init, RequestsInOrder, ArchivingIsStored
<1> QED
  BY <1>1, <1>2, <1>3 DEF IInv

\* Requests given up stay what they are, but for the device that waited.
LEMMA AbandonedKeeps ==
    ASSUME TypeOK, RequestsInOrder, requests' = Abandoned, files' = files, placing' = placing
    PROVE  /\ requests' \subseteq [capture : Captures, live : BOOLEAN, part : Nat]
           /\ \A r \in requests' : ~r.live
           /\ \A r \in requests' : r.part # 0 => r.capture = placing' /\ r.part = files'[placing']
           /\ \A q, r \in requests' : q.part # 0 /\ r.part # 0 => q = r
<1> DEFINE dead(r) == [r EXCEPT !.live = FALSE]
<1>1. \A r \in requests : /\ dead(r) \in [capture : Captures, live : BOOLEAN, part : Nat]
                          /\ dead(r).capture = r.capture /\ dead(r).part = r.part
                          /\ dead(r).live = FALSE
  BY DEF TypeOK
<1>2. requests' = {dead(r) : r \in requests}
  BY DEF Abandoned
<1>3. \A q \in requests' : \E r \in requests : q = dead(r)
  BY <1>2
<1> HIDE DEF dead
<1> QED
  BY <1>1, <1>2, <1>3 DEF RequestsInOrder

\* The device: the gateway's tables and the transcribers stay as they are.
LEMMA DeviceStep ==
    ASSUME IInv,
           \/ \E c \in Captures : Saved(c)
           \/ ListOutbox \/ Send \/ SendFails \/ GiveUp
           \/ ArchiveFails \/ DevicePowerLoss \/ Archive
    PROVE  IInv'
<1> USE DEF IInv
<1>1. UNCHANGED <<table, placing, workers, answers>>
  BY DEF Saved, ListOutbox, Send, SendFails, GiveUp, ArchiveFails, DevicePowerLoss,
         Archive, device, gateway, table, workers
<1>2. OneTranscriber' /\ (requests' = requests => RequestsInOrder')
  BY <1>1 DEF OneTranscriber, RequestsInOrder, table, workers
<1>3. faults' \in 0..MaxFaults
  <2>1. faults' = faults \/ Fault
    BY DEF Saved, ListOutbox, Send, SendFails, GiveUp, ArchiveFails, DevicePowerLoss, Archive
  <2>2. faults \in 0..MaxFaults
    BY DEF TypeOK
  <2> QED
    BY <2>1, <2>2, FaultsAreCounted DEF Fault
<1>4. (/\ files \in [Captures -> Nat] /\ rows \in [Captures -> RowStates]
       /\ digest \in [Captures -> Nat] /\ acked \in [Captures -> Nat]
       /\ arrived \in Seq(Captures) /\ placing \in Captures \cup {None}
       /\ work \in [Workers -> Captures \cup {None}]
       /\ clashed \subseteq Captures /\ orphaned \subseteq Captures)'
  BY <1>1 DEF TypeOK, table, workers, answers
<1>5. ASSUME pc' = "idle", pending' = <<>>, outbox' = outbox, archive' = archive,
             \/ requests' = requests /\ pc # "waiting"
             \/ requests' = Abandoned
      PROVE  IInv'
  <2>1. /\ (/\ requests \subseteq [capture : Captures, live : BOOLEAN, part : Nat]
            /\ \A r \in requests : ~r.live)'
        /\ RequestsInOrder'
    <3>1. CASE requests' = requests /\ pc # "waiting"
      BY <1>2, <3>1 DEF TypeOK
    <3>2. CASE requests' = Abandoned
      BY <1>1, <3>2, AbandonedKeeps DEF RequestsInOrder, table
    <3> QED
      BY <1>5, <3>1, <3>2
  <2>2. pending' \in Seq(Captures)
    BY <1>5
  <2>3. TypeOK'
    BY <1>3, <1>4, <1>5, <2>1, <2>2 DEF TypeOK
  <2> QED
    BY <1>1, <1>2, <1>5, <2>1, <2>3 DEF NothingLost, ArchivingIsStored, table, answers
<1>6. ASSUME NEW c \in Captures, Saved(c) PROVE IInv'
  <2>1. outbox' \in Seq(Captures)
    BY <1>6, CapturesOnly DEF Saved, TypeOK
  <2>2. TypeOK'
    BY <1>3, <1>4, <1>6, <2>1 DEF Saved, TypeOK, gateway
  <2> QED
    BY <1>1, <1>2, <1>6, <2>2
    DEF Saved, NothingLost, ArchivingIsStored, gateway, table, answers
<1>7. CASE ListOutbox
  <2> DEFINE n == IF Len(outbox) < Batch THEN Len(outbox) ELSE Batch
  <2>1. n \in 1..Len(outbox)
    BY <1>7, BatchTakesFiles DEF ListOutbox, TypeOK
  <2>2. pending' \in Seq(Captures) /\ pending' # <<>>
    <3>1. pending' = SubSeq(outbox, 1, n)
      BY <1>7 DEF ListOutbox
    <3>2. SubSeq(outbox, 1, n) \in Seq(Captures) /\ Len(SubSeq(outbox, 1, n)) = n
      <4>1. outbox \in Seq(Captures)
        BY DEF TypeOK
      <4>2. 1 \in 1..(Len(outbox) + 1) /\ n \in 0..Len(outbox)
        BY <2>1, <4>1
      <4>3. \A i \in 1..n : SubSeq(outbox, 1, n)[i] = outbox[i]
        BY <4>1, <4>2
      <4> QED
        BY <2>1, <4>1, <4>2
    <3> QED
      BY <2>1, <3>1, <3>2
  <2>3. TypeOK'
    BY <1>3, <1>4, <1>7, <2>2 DEF ListOutbox, TypeOK, gateway
  <2> QED
    BY <1>1, <1>2, <1>7, <2>3
    DEF ListOutbox, NothingLost, ArchivingIsStored, gateway, table, answers
<1>8. CASE Send
  <2>1. Head(pending) \in Captures
    BY <1>8, CapturesOnly DEF Send, TypeOK
  <2>2. /\ (/\ requests \subseteq [capture : Captures, live : BOOLEAN, part : Nat]
            /\ \A r \in requests : r.live => pc = "waiting" /\ r.capture = Head(pending))'
        /\ RequestsInOrder'
    <3> DEFINE put == Put(Head(pending))
    <3>1. /\ put \in [capture : Captures, live : BOOLEAN, part : Nat]
          /\ put.capture = Head(pending) /\ put.part = 0
      BY <2>1 DEF Put
    <3>2. requests' = requests \cup {put} /\ pc' = "waiting" /\ pending' = pending
      BY <1>8 DEF Send
    <3>3. \A r \in requests : ~r.live
      BY <1>8 DEF Send, TypeOK
    <3> HIDE DEF put
    <3> QED
      BY <1>1, <3>1, <3>2, <3>3 DEF TypeOK, RequestsInOrder, table
  <2>3. TypeOK'
    BY <1>3, <1>4, <1>8, <2>2 DEF Send, TypeOK
  <2> QED
    BY <1>1, <1>2, <1>8, <2>2, <2>3
    DEF Send, NothingLost, ArchivingIsStored, table, answers
<1>9. CASE SendFails
  BY <1>5, <1>9 DEF SendFails, LoopBreaks, gateway
<1>10. CASE GiveUp
  BY <1>5, <1>10 DEF GiveUp, LoopBreaks
<1>11. CASE ArchiveFails
  BY <1>5, <1>11 DEF ArchiveFails, LoopBreaks, gateway
<1>12. CASE DevicePowerLoss
  BY <1>5, <1>12 DEF DevicePowerLoss, LoopBreaks
<1>13. CASE Archive
  <2>1. Head(pending) \in Captures /\ rows[Head(pending)] # "none"
        /\ acked[Head(pending)] = digest[Head(pending)]
    BY <1>13, CapturesOnly DEF Archive, TypeOK, ArchivingIsStored
  <2>2. outbox' \in Seq(Captures) /\ archive' \subseteq Captures
    BY <1>13, <2>1, CapturesOnly DEF Archive, TypeOK
  <2>3. (/\ pc \in {"idle", "next"}
         /\ pending \in Seq(Captures) /\ (pending = <<>> <=> pc = "idle"))'
    BY <1>13, CapturesOnly DEF Archive, LoopGoesOn, TypeOK
  <2>4. requests' = requests /\ \A r \in requests : ~r.live
    BY <1>13 DEF Archive, TypeOK, gateway
  <2>5. TypeOK'
    BY <1>3, <1>4, <2>2, <2>3, <2>4 DEF TypeOK
  <2>6. NothingLost'
    BY <1>1, <1>13, <2>1 DEF Archive, NothingLost, table, answers
  <2> QED
    BY <1>2, <2>3, <2>4, <2>5, <2>6 DEF ArchivingIsStored
<1> QED
  BY <1>6, <1>7, <1>8, <1>9, <1>10, <1>11, <1>12, <1>13

\* An answer leaves the device in order, whatever it says; one that reports
\* success is about a capture with a row of the part the request carried.
LEMMA AnswerKeeps ==
    ASSUME IInv, NEW r \in requests, NEW n \in Nat,
           \/ Accept(r, n) /\ rows'[r.capture] # "none" /\ digest'[r.capture] = n
           \/ Reject(r) /\ acked' = acked,
           UNCHANGED <<outbox, archive, work, orphaned>>,
           (/\ files \in [Captures -> Nat] /\ digest \in [Captures -> Nat]
            /\ rows \in [Captures -> RowStates] /\ arrived \in Seq(Captures)
            /\ placing \in Captures \cup {None}
            /\ faults \in 0..MaxFaults /\ clashed \subseteq Captures)',
           \A c \in Captures : rows[c] # "none" =>
               rows'[c] # "none" /\ digest'[c] = digest[c]
    PROVE  /\ TypeOK' /\ ArchivingIsStored'
           /\ requests' = requests \ {r}
           /\ \A c \in archive : digest'[c] = acked'[c]
<1> USE DEF IInv
<1>1. r \in [capture : Captures, live : BOOLEAN, part : Nat] /\ r.capture \in Captures
  BY DEF TypeOK
<1>2. requests' = requests \ {r}
  BY DEF Accept, Reject
<1>3. \A c \in Captures : acked'[c] = acked[c] \/ (c = r.capture /\ acked'[c] = digest'[c])
  <2>1. acked \in [Captures -> Nat]
    BY DEF TypeOK
  <2>2. \/ acked' = acked
        \/ digest'[r.capture] = n /\ acked' = [acked EXCEPT ![r.capture] = n]
    <3>1. CASE Accept(r, n) /\ digest'[r.capture] = n
      BY <3>1 DEF Accept
    <3>2. CASE acked' = acked
      BY <3>2
    <3> QED
      BY <3>1, <3>2
  <2>3. CASE acked' = acked
    BY <2>3
  <2>4. CASE digest'[r.capture] = n /\ acked' = [acked EXCEPT ![r.capture] = n]
    <3>1. \A c \in Captures : acked'[c] = IF c = r.capture THEN n ELSE acked[c]
      BY <2>1, <2>4
    <3> QED
      BY <2>4, <3>1
  <2> QED
    BY <2>2, <2>3, <2>4
<1>4. acked' \in [Captures -> Nat] /\ orphaned' \subseteq Captures
  BY <1>1 DEF Accept, TypeOK
<1>5. \A c \in archive : digest'[c] = acked'[c]
  BY <1>3 DEF NothingLost, TypeOK
<1>6. CASE ~r.live
  <2>1. pc' = pc /\ pending' = pending /\ acked' = acked
    BY <1>6 DEF Accept, Reject
  <2>2. TypeOK'
    BY <1>2, <1>4, <2>1 DEF TypeOK
  <2>3. pc = "archive" => Head(pending) \in Captures
    BY CapturesOnly DEF TypeOK
  <2> QED
    BY <1>2, <1>5, <2>1, <2>2, <2>3 DEF ArchivingIsStored
<1>7. CASE r.live
  <2>1. pc = "waiting" /\ r.capture = Head(pending)
    BY <1>7 DEF TypeOK
  <2>2. \A q \in requests' : q \in requests /\ (q.live => q.capture = r.capture)
    BY <1>2, <2>1 DEF TypeOK
  <2>3. ASSUME Accept(r, n), rows'[r.capture] # "none", digest'[r.capture] = n,
               \A q \in requests' : ~q.live
        PROVE  TypeOK' /\ ArchivingIsStored'
    <3>1. pc' = "archive" /\ pending' = pending /\ acked'[r.capture] = n
      BY <1>1, <1>7, <2>3 DEF Accept, TypeOK
    <3>2. TypeOK'
      BY <1>2, <1>4, <2>1, <2>3, <3>1 DEF TypeOK
    <3> QED
      BY <2>1, <2>3, <3>1, <3>2 DEF ArchivingIsStored
  <2>4. ASSUME Reject(r), \A q \in requests' : ~q.live
        PROVE  TypeOK' /\ ArchivingIsStored'
    <3>1. pc' = "idle" /\ pending' = <<>>
      BY <1>7, <2>4 DEF Reject, LoopBreaks
    <3>2. pending' \in Seq(Captures) /\ pending' = <<>> /\ pc' = "idle"
      BY <3>1
    <3>3. requests' \subseteq [capture : Captures, live : BOOLEAN, part : Nat]
      BY <1>2 DEF TypeOK
    <3>4. TypeOK'
      BY <1>4, <2>4, <3>2, <3>3 DEF TypeOK
    <3> QED
      BY <3>1, <3>4 DEF ArchivingIsStored
  <2>5. \A q \in requests' : ~q.live
    BY <1>2, <1>7 DEF RequestsInOrder
  <2> QED
    BY <1>2, <1>5, <2>3, <2>4, <2>5
<1> QED
  BY <1>6, <1>7

LEMMA GatewayStep ==
    ASSUME IInv,
           \/ \E r \in requests : \/ Refuse(r) \/ TurnedAway(r) \/ Duplicate(r) \/ Conflict(r)
                                  \/ PlaceFile(r) \/ CommitRow(r) \/ InsertFails(r)
           \/ GatewayCrash
    PROVE  IInv'
<1> USE DEF IInv
<1>1. UNCHANGED <<outbox, archive, work, orphaned>>
  BY DEF Refuse, TurnedAway, Duplicate, Conflict, PlaceFile, CommitRow, InsertFails,
         GatewayCrash, device, workers
<1>2. faults' \in 0..MaxFaults
  <2>1. faults' = faults \/ Fault
    BY DEF Refuse, TurnedAway, Duplicate, Conflict, PlaceFile, CommitRow, InsertFails,
           GatewayCrash
  <2>2. faults \in 0..MaxFaults
    BY DEF TypeOK
  <2> QED
    BY <2>1, <2>2, FaultsAreCounted DEF Fault
<1>3. ASSUME NEW r \in requests,
             Refuse(r) \/ TurnedAway(r) \/ Duplicate(r) \/ Conflict(r)
      PROVE  IInv'
  <2>1. UNCHANGED <<table, placing>> /\ r.capture \in Captures
    BY <1>3 DEF Refuse, TurnedAway, Duplicate, Conflict, TypeOK
  <2>2. \E n \in Nat :
          \/ Accept(r, n) /\ rows[r.capture] # "none" /\ digest[r.capture] = n
          \/ Reject(r) /\ acked' = acked
    <3>1. digest[r.capture] \in Nat
      BY <2>1 DEF TypeOK
    <3>2. CASE Duplicate(r)
      BY <3>1, <3>2 DEF Duplicate
    <3>3. CASE Refuse(r) \/ TurnedAway(r) \/ Conflict(r)
      <4>1. Reject(r) /\ acked' = acked
        BY <3>3 DEF Refuse, TurnedAway, Conflict, answers
      <4>2. 0 \in Nat
        OBVIOUS
      <4> QED
        BY <4>1, <4>2
    <3> QED
      BY <1>3, <3>2, <3>3
  <2>3. clashed' \subseteq Captures
    BY <1>3, <2>1 DEF Refuse, TurnedAway, Duplicate, Conflict, answers, TypeOK
  <2>4. /\ TypeOK' /\ ArchivingIsStored' /\ requests' = requests \ {r}
        /\ \A c \in archive : digest'[c] = acked'[c]
    <3>1. (/\ files \in [Captures -> Nat] /\ digest \in [Captures -> Nat]
           /\ rows \in [Captures -> RowStates] /\ arrived \in Seq(Captures)
           /\ placing \in Captures \cup {None}
           /\ faults \in 0..MaxFaults /\ clashed \subseteq Captures)'
      BY <1>2, <2>1, <2>3 DEF TypeOK, table
    <3>2. rows' = rows /\ digest' = digest
      BY <2>1 DEF table
    <3> QED
      BY <1>1, <2>2, <3>1, <3>2, AnswerKeeps
  <2> QED
    BY <1>1, <2>1, <2>4 DEF NothingLost, OneTranscriber, RequestsInOrder, table
<1>4. ASSUME NEW r \in requests, PlaceFile(r) PROVE IInv'
  <2>1. r.capture \in Captures /\ r \in [capture : Captures, live : BOOLEAN, part : Nat]
        /\ placing = None /\ rows[r.capture] = "none"
    BY <1>4 DEF PlaceFile, TypeOK
  <2>2. PICK n \in 1..Whole[r.capture] :
               /\ files' = [files EXCEPT ![r.capture] = n]
               /\ requests' = (requests \ {r}) \cup {[r EXCEPT !.part = n]}
    BY <1>4 DEF PlaceFile
  <2> DEFINE read == [r EXCEPT !.part = n]
  <2>3. n \in Nat /\ n # 0
    BY <2>1, BodiesHaveParts
  <2>4. /\ read \in [capture : Captures, live : BOOLEAN, part : Nat]
        /\ read.capture = r.capture /\ read.live = r.live /\ read.part = n
    BY <2>1, <2>3
  <2>5. requests' = (requests \ {r}) \cup {read}
    BY <2>2
  <2>6. \A q \in requests : q.part = 0
    BY <2>1, NoneIsNoCapture DEF RequestsInOrder, TypeOK
  <2> HIDE DEF read
  <2>7. /\ files' \in [Captures -> Nat] /\ files'[r.capture] = n
        /\ \A c \in Captures \ {r.capture} : files'[c] = files[c]
    BY <2>1, <2>2, <2>3 DEF TypeOK
  <2>8. UNCHANGED <<pc, pending, rows, digest, arrived, acked, clashed>>
        /\ placing' = r.capture
    BY <1>4 DEF PlaceFile, device, answers
  <2>9. TypeOK'
    BY <1>1, <1>2, <2>1, <2>4, <2>5, <2>7, <2>8 DEF TypeOK
  <2>10. RequestsInOrder'
    BY <2>1, <2>4, <2>5, <2>6, <2>7, <2>8 DEF RequestsInOrder
  <2>11. NothingLost'
    BY <1>1, <2>1, <2>7, <2>8 DEF NothingLost
  <2> QED
    BY <1>1, <2>8, <2>9, <2>10, <2>11 DEF OneTranscriber, ArchivingIsStored
<1>5. ASSUME NEW r \in requests, CommitRow(r) PROVE IInv'
  <2>1. r.capture \in Captures /\ placing = r.capture /\ placing # None
        /\ r.part # 0 /\ r.part \in Nat
    BY <1>5, NoneIsNoCapture DEF CommitRow, TypeOK
  <2>2. files[placing] = r.part /\ rows[placing] = "none"
        /\ \A q \in requests \ {r} : q.part = 0
    BY <2>1 DEF RequestsInOrder
  <2>3. /\ files' = files
        /\ rows' \in [Captures -> RowStates] /\ digest' \in [Captures -> Nat]
        /\ \A c \in Captures : /\ rows'[c] = IF c = placing THEN "pending" ELSE rows[c]
                              /\ digest'[c] = IF c = placing THEN r.part ELSE digest[c]
    BY <1>5, <2>1 DEF CommitRow, TypeOK, RowStates
  <2>4. /\ TypeOK' /\ ArchivingIsStored' /\ requests' = requests \ {r}
        /\ \A c \in archive : digest'[c] = acked'[c]
    <3>1. (/\ files \in [Captures -> Nat] /\ digest \in [Captures -> Nat] /\ arrived \in Seq(Captures)
           /\ placing \in Captures \cup {None} /\ clashed \subseteq Captures)'
      BY <1>5, <2>1, <2>3 DEF CommitRow, TypeOK
    <3>2. Accept(r, r.part)
      BY <1>5 DEF CommitRow
    <3>3. \A c \in Captures : rows[c] # "none" => rows'[c] # "none" /\ digest'[c] = digest[c]
      BY <2>2, <2>3
    <3>4. rows'[r.capture] # "none" /\ digest'[r.capture] = r.part
      BY <2>1, <2>3
    <3> QED
      BY <1>1, <1>2, <2>1, <2>3, <3>1, <3>2, <3>3, <3>4, AnswerKeeps
  <2>5. NothingLost'
    BY <1>1, <2>1, <2>2, <2>3, <2>4 DEF NothingLost, TypeOK
  <2>6. OneTranscriber'
    <3>1. \A w \in Workers : work[w] # None => work[w] \in Captures /\ work[w] # placing
      BY <2>2 DEF OneTranscriber, TypeOK
    <3> QED
      BY <1>1, <2>3, <3>1 DEF OneTranscriber
  <2>7. RequestsInOrder'
    BY <1>5, <2>2, <2>4 DEF CommitRow, RequestsInOrder
  <2> QED
    BY <2>4, <2>5, <2>6, <2>7
<1>6. ASSUME NEW r \in requests, InsertFails(r) PROVE IInv'
  <2>1. r.capture \in Captures /\ placing = r.capture /\ placing # None /\ r.part # 0
        /\ placing' = None
    BY <1>6, NoneIsNoCapture DEF InsertFails, TypeOK
  <2>2. /\ rows' = rows /\ digest' = digest /\ acked' = acked
        /\ rows[placing] = "none" /\ \A q \in requests \ {r} : q.part = 0
        /\ files' \in [Captures -> Nat]
        /\ \A c \in Captures \ {placing} : files'[c] = files[c]
    <3>1. /\ rows' = rows /\ digest' = digest /\ acked' = acked
          /\ files' = files \/ files' = [files EXCEPT ![placing] = 0]
      BY <1>6 DEF InsertFails, answers
    <3>2. files \in [Captures -> Nat]
      BY DEF TypeOK
    <3>3. rows[placing] = "none" /\ \A q \in requests \ {r} : q.part = 0
      BY <2>1 DEF RequestsInOrder
    <3> QED
      BY <2>1, <3>1, <3>2, <3>3
  <2>3. TypeOK' /\ ArchivingIsStored' /\ requests' = requests \ {r}
    <3>1. (/\ files \in [Captures -> Nat] /\ digest \in [Captures -> Nat]
           /\ rows \in [Captures -> RowStates] /\ arrived \in Seq(Captures)
           /\ placing \in Captures \cup {None}
           /\ faults \in 0..MaxFaults /\ clashed \subseteq Captures)'
      <4>1. UNCHANGED <<arrived, clashed>> /\ rows' = rows /\ digest' = digest
            /\ placing' = None
        BY <1>6 DEF InsertFails, answers
      <4> QED
        BY <1>2, <2>2, <4>1 DEF TypeOK
    <3>2. Reject(r) /\ acked' = acked
      BY <1>6 DEF InsertFails, answers
    <3>3. 0 \in Nat
      OBVIOUS
    <3> QED
      BY <1>1, <2>2, <3>1, <3>2, <3>3, AnswerKeeps
  <2>4. NothingLost'
    BY <1>1, <2>2 DEF NothingLost
  <2>5. RequestsInOrder'
    BY <2>1, <2>2, <2>3 DEF RequestsInOrder
  <2> QED
    BY <1>1, <2>2, <2>3, <2>4, <2>5 DEF OneTranscriber
<1>7. CASE GatewayCrash
  <2>1. UNCHANGED <<table, answers>> /\ requests' = {} /\ placing' = None
    BY <1>7 DEF GatewayCrash
  <2>2. \/ pc = "waiting" /\ pc' = "idle" /\ pending' = <<>>
        \/ pc # "waiting" /\ pc' = pc /\ pending' = pending
    BY <1>7 DEF GatewayCrash, LoopBreaks
  <2>3. (/\ pc \in {"idle", "next", "waiting", "archive"}
         /\ pending \in Seq(Captures) /\ (pending = <<>> <=> pc = "idle"))'
    <3>1. CASE pc = "waiting" /\ pc' = "idle" /\ pending' = <<>>
      BY <3>1
    <3>2. CASE pc # "waiting" /\ pc' = pc /\ pending' = pending
      BY <3>2 DEF TypeOK
    <3> QED
      BY <2>2, <3>1, <3>2
  <2>4. TypeOK'
    BY <1>1, <1>2, <2>1, <2>3 DEF TypeOK, table, answers
  <2>5. RequestsInOrder'
    BY <2>1, NoneIsNoCapture DEF RequestsInOrder
  <2> QED
    BY <1>1, <2>1, <2>2, <2>4, <2>5
    DEF NothingLost, OneTranscriber, ArchivingIsStored, table, answers
<1> QED
  BY <1>3, <1>4, <1>5, <1>6, <1>7

LEMMA WorkerStep ==
    ASSUME IInv, NEW w \in Workers,
           Claim(w) \/ (\E state \in {"failed", "completed"} : Finish(w, state))
             \/ WorkerDies(w)
    PROVE  IInv'
<1> USE DEF IInv
<1>1. UNCHANGED <<device, gateway, files, digest, arrived, answers>>
  BY DEF Claim, Finish, WorkerDies, table
<1>2. faults' \in 0..MaxFaults
  <2>1. faults' = faults \/ Fault
    BY DEF Claim, Finish, WorkerDies
  <2>2. faults \in 0..MaxFaults
    BY DEF TypeOK
  <2> QED
    BY <2>1, <2>2, FaultsAreCounted DEF Fault
\* Claim and Finish: one row changes, from one state with a row to another.
<1>3. ASSUME NEW c \in Captures, NEW state \in RowStates \ {"none"}, rows[c] # "none",
             NEW claimed \in Captures \cup {None},
             rows' = [rows EXCEPT ![c] = state], work' = [work EXCEPT ![w] = claimed],
             placing = None, orphaned' = orphaned, OneTranscriber'
      PROVE  IInv'
  <2>1. rows' \in [Captures -> RowStates] /\ work' \in [Workers -> Captures \cup {None}]
    BY <1>3 DEF TypeOK
  <2>2. \A d \in Captures : rows'[d] # "none" <=> rows[d] # "none"
    BY <1>3 DEF TypeOK
  <2>3. TypeOK'
    BY <1>1, <1>2, <1>3, <2>1 DEF TypeOK, device, gateway, answers
  <2>4. NothingLost'
    BY <1>1, <2>2 DEF NothingLost, TypeOK, device, answers
  <2>5. pc = "archive" => Head(pending) \in Captures
    BY CapturesOnly DEF TypeOK
  <2> QED
    BY <1>1, <1>3, <2>2, <2>3, <2>4, <2>5
    DEF RequestsInOrder, ArchivingIsStored, device, gateway, answers
<1>4. CASE Claim(w)
  <2>1. PICK i \in Claimable : /\ rows' = [rows EXCEPT ![arrived[i]] = "processing"]
                                /\ work' = [work EXCEPT ![w] = arrived[i]]
    BY <1>4 DEF Claim
  <2> DEFINE c == arrived[i]
  <2>2. c \in Captures /\ rows[c] = "pending"
    BY <2>1 DEF Claimable, TypeOK
  <2>3. \A v \in Workers : work[v] # None => work[v] # c
    BY <2>2 DEF OneTranscriber
  <2> HIDE DEF c
  <2>4. OneTranscriber'
    <3>1. \A v \in Workers : work'[v] = IF v = w THEN c ELSE work[v]
      BY <2>1 DEF TypeOK, c
    <3>2. \A d \in Captures : rows'[d] = IF d = c THEN "processing" ELSE rows[d]
      BY <2>1 DEF TypeOK, c
    <3>3. \A v \in Workers : work[v] # None => work[v] \in Captures
      BY DEF TypeOK
    <3> QED
      BY <2>2, <2>3, <3>1, <3>2, <3>3, NoneIsNoCapture DEF OneTranscriber
  <2>5. placing = None /\ orphaned' = orphaned
    BY <1>4 DEF Claim
  <2>6. rows' = [rows EXCEPT ![c] = "processing"] /\ work' = [work EXCEPT ![w] = c]
    BY <2>1 DEF c
  <2>7. "processing" \in RowStates \ {"none"} /\ rows[c] # "none"
    BY <2>2 DEF RowStates
  <2> QED
    BY <1>3, <2>2, <2>4, <2>5, <2>6, <2>7
<1>5. ASSUME NEW state \in {"failed", "completed"}, Finish(w, state) PROVE IInv'
  <2>1. /\ work[w] \in Captures /\ rows[work[w]] = "processing"
        /\ placing = None /\ orphaned' = orphaned
        /\ rows' = [rows EXCEPT ![work[w]] = state]
        /\ work' = [work EXCEPT ![w] = None]
    BY <1>5 DEF Finish, TypeOK
  <2>2. OneTranscriber'
    <3>1. \A v \in Workers : work'[v] = IF v = w THEN None ELSE work[v]
      BY <2>1 DEF TypeOK
    <3>2. \A v \in Workers \ {w} : work[v] # None =>
              work[v] \in Captures /\ rows'[work[v]] = rows[work[v]]
      BY <2>1 DEF TypeOK, OneTranscriber
    <3> QED
      BY <3>1, <3>2 DEF OneTranscriber
  <2>3. state \in RowStates \ {"none"}
    BY DEF RowStates
  <2> QED
    BY <1>3, <2>1, <2>2, <2>3
<1>6. CASE WorkerDies(w)
  <2>1. rows' = rows /\ work' = [work EXCEPT ![w] = None]
        /\ orphaned' = orphaned \cup {work[w]} /\ work[w] \in Captures
    BY <1>6 DEF WorkerDies, table, TypeOK
  <2>2. TypeOK'
    BY <1>1, <1>2, <2>1 DEF TypeOK, device, gateway, answers
  <2>3. \A v \in Workers : work'[v] = IF v = w THEN None ELSE work[v]
    BY <2>1 DEF TypeOK
  <2>4. OneTranscriber'
    BY <2>1, <2>3 DEF OneTranscriber
  <2> QED
    BY <1>1, <2>1, <2>2, <2>4
    DEF NothingLost, RequestsInOrder, ArchivingIsStored, device, gateway, answers
<1> QED
  BY <1>4, <1>5, <1>6

LEMMA NextPreserves == IInv /\ [Next]_vars => IInv'
<1> SUFFICES ASSUME IInv, [Next]_vars PROVE IInv'
  OBVIOUS
<1>1. CASE UNCHANGED vars
  BY <1>1 DEF vars, IInv, TypeOK, NothingLost, OneTranscriber, RequestsInOrder,
              ArchivingIsStored
<1>2. CASE Next
  <2>1. ASSUME NEW c \in Captures, Saved(c) PROVE IInv'
    BY <2>1, DeviceStep
  <2>2. CASE DeviceGoesOn
    BY <2>2, DeviceStep DEF DeviceGoesOn
  <2>3. CASE GatewayGoesOn
    BY <2>3, GatewayStep DEF GatewayGoesOn
  <2>4. ASSUME NEW w \in Workers, WorkerGoesOn(w) PROVE IInv'
    BY <2>4, WorkerStep DEF WorkerGoesOn, Transcribed, TranscriptionFails
  <2>5. CASE Fails
    BY <2>5, DeviceStep, GatewayStep, WorkerStep DEF Fails
  <2> QED
    BY <1>2, <2>1, <2>2, <2>3, <2>4, <2>5 DEF Next
<1> QED
  BY <1>1, <1>2

LEMMA Inductive == Spec => []IInv
BY InitEstablishes, NextPreserves, PTL DEF Spec

\* The types of the outbox, of the requests under way and of the gateway's
\* tables (scheduled_push.cpp:276-304, store.py:225-345).
THEOREM TypeCorrect == Spec => []TypeOK
BY Inductive, PTL DEF IInv

\* A recording moved to the archive has its row and its file at the gateway,
\* of the part that the request answered with success carried, which may be
\* less than the whole recording (scheduled_push.cpp:254-270, app.py:297,
\* store.py:225-299).
THEOREM RecordingsAreKept == Spec => []NothingLost
BY Inductive, PTL DEF IInv

\* One capture, one transcriber, for any number of processes on the database
\* (store.py:302-345).
THEOREM TranscribersExclude == Spec => []OneTranscriber
BY Inductive, PTL DEF IInv
=============================================================================
