--------------------------- MODULE AppTaskProofs ---------------------------
(***************************************************************************)
(* AppTask for a recording of any length: what its run checks of the       *)
(* storage lock, the operation counter and the idle power-off.             *)
(***************************************************************************)
EXTENDS AppTask, TLAPS

\* The recorder's variables and app_task's flag say the same.
RecorderAgrees ==
    /\ voiceOp <=> voice.state # "Idle"
    /\ voice.state = "Idle" => voice = Silent
    /\ voice.state # "Idle" => voice.written < MaxBlocks /\ voice.block # "none"

\* app_task is in a section only where the loop uses the storage, and never
\* during a recording; it begins a recording only when there is none, and powers
\* off only without one.
LoopAgrees ==
    /\ inside # "out" => at \in DOMAIN After \cup {"begin"}
    /\ inside \in {"holding", "refreshing"} => voice.state = "Idle"
    /\ at = "begin" => voice.state = "Idle" /\ inside \in {"waiting", "holding"}
    /\ at = "poweroff" => voice.state = "Idle"

\* Between two requests the HTTP task is in no section.
RequestAgrees == web.kind = "none" => web = NoRequest

IInv ==
    /\ TypeOK /\ LockAccounted /\ OperationsBalanced
    /\ RecorderAgrees /\ LoopAgrees /\ RequestAgrees

LEMMA InitEstablishes == Init => IInv
<1> SUFFICES ASSUME Init PROVE IInv
  OBVIOUS
<1> USE MaxBlocksIsPositive DEF Init, Silent, NoRequest
<1>1. TypeOK
  <2>1. refresh \in BOOLEAN /\ voiceOp \in BOOLEAN
    BY Zenon
  <2>2. voice \in [state : {"Idle", "Recording", "Stopping"},
                   block : {"none", "filling", "full"}, written : 0..MaxBlocks]
    OBVIOUS
  <2>3. web \in [kind : Kinds, section : Section]
    BY DEF Kinds, Section
  <2>4. operations \in 0..2 /\ activity \in {"unset", "recent", "stale"}
    OBVIOUS
  <2>5. /\ power \in {"on", "off", "reset"}
        /\ at \in Places /\ inside \in Section
        /\ lock \in {"free", "app", "web"}
    BY DEF Places, Section
  <2> QED
    BY <2>1, <2>2, <2>3, <2>4, <2>5, Zenon DEF TypeOK
<1>2. LockAccounted /\ OperationsBalanced
  BY DEF LockAccounted, OperationsBalanced
<1>3. RecorderAgrees
  BY DEF RecorderAgrees
<1>4. LoopAgrees /\ RequestAgrees
  BY DEF LoopAgrees, RequestAgrees
<1> QED
  BY <1>1, <1>2, <1>3, <1>4 DEF IInv

\* A block is written only while there is room: after it the recording is at
\* most as long as the limit.
LEMMA WrittenFits ==
  ASSUME IInv, voice.state # "Idle"
  PROVE  /\ Written \in [state : {"Idle", "Recording", "Stopping"},
                         block : {"none", "filling", "full"}, written : 0..MaxBlocks]
         /\ Written.state = voice.state /\ Written.block \in {"none", "filling"}
         /\ Written.block # "none" => Written.written < MaxBlocks
<1>1. /\ voice \in [state : {"Idle", "Recording", "Stopping"},
                    block : {"none", "filling", "full"}, written : 0..MaxBlocks]
      /\ voice.written < MaxBlocks /\ voice.block # "none"
  BY DEF IInv, TypeOK, RecorderAgrees
<1>2. CASE voice.block = "full"
  <2>1. Written = [voice EXCEPT !.block = "none", !.written = voice.written + 1]
    BY <1>2 DEF Written
  <2>2. voice.written + 1 \in 0..MaxBlocks
    BY <1>1, MaxBlocksIsPositive
  <2> QED
    BY <1>1, <2>1, <2>2
<1>3. CASE voice.block # "full"
  <2>1. Written = voice
    BY <1>3 DEF Written
  <2> QED
    BY <1>1, <1>3, <2>1
<1> QED
  BY <1>2, <1>3

LEMMA NextPreserves ==
  ASSUME IInv, [Next]_vars
  PROVE  IInv'
<1> USE MaxBlocksIsPositive DEF IInv, TypeOK, LockAccounted, OperationsBalanced, RecorderAgrees,
     LoopAgrees, RequestAgrees, Silent, NoRequest, Places, Section, Kinds, Syncs, After, shared, recorder
<1>1. CASE TakeLock
  BY <1>1 DEF TakeLock
<1>2. CASE StartRefresh
  BY <1>2 DEF StartRefresh
<1>3. CASE EndRefresh
  <2>1. TypeOK'
    <3>1. refresh' \in BOOLEAN /\ voiceOp' \in BOOLEAN
      BY <1>3, Zenon DEF EndRefresh
    <3>2. /\ power' \in {"on", "off", "reset"}
          /\ at' \in Places /\ inside' \in Section
          /\ web' \in [kind : Kinds, section : Section]
          /\ lock' \in {"free", "app", "web"}
      BY <1>3 DEF EndRefresh
    <3>3. operations' \in 0..2 /\ activity' \in {"unset", "recent", "stale"}
      BY <1>3 DEF EndRefresh
    <3>4. voice' \in [state : {"Idle", "Recording", "Stopping"},
                     block : {"none", "filling", "full"}, written : 0..MaxBlocks]
      BY <1>3 DEF EndRefresh
    <3> QED
      BY <3>1, <3>2, <3>3, <3>4, Zenon
  <2>2. LockAccounted'
    BY <1>3 DEF EndRefresh
  <2>3. OperationsBalanced'
    BY <1>3 DEF EndRefresh
  <2>4. RecorderAgrees'
    BY <1>3 DEF EndRefresh
  <2>5. LoopAgrees'
    BY <1>3 DEF EndRefresh
  <2>6. RequestAgrees'
    BY <1>3 DEF EndRefresh
  <2> QED
    BY <2>1, <2>2, <2>3, <2>4, <2>5, <2>6
<1>4. CASE GiveLock
  BY <1>4 DEF GiveLock
<1>5. CASE DisplayCheck
  BY <1>5 DEF DisplayCheck
<1>6. CASE PowerOff
  BY <1>6 DEF PowerOff
<1>7. CASE StayOn
  BY <1>7 DEF StayOn
<1>8. CASE VoiceIdle
  BY <1>8 DEF VoiceIdle
<1>9. CASE VoiceBegins
  BY <1>9 DEF VoiceBegins
<1>10. CASE VoiceStarts
  BY <1>10 DEF VoiceStarts
<1>11. CASE VoiceCannotStart
  BY <1>11 DEF VoiceCannotStart, VoiceEnds, FailCapture, Ended
<1>12. ASSUME NEW click \in BOOLEAN, VoiceNotRenamed(click) \/ VoiceFails(click)
      PROVE  IInv'
  <2>1. TypeOK'
    <3>1. refresh' \in BOOLEAN /\ voiceOp' \in BOOLEAN
      BY <1>12, Zenon DEF VoiceNotRenamed, VoiceFails, Finalizing, FailCapture, VoiceEnds, Ended
    <3>2. /\ power' \in {"on", "off", "reset"}
          /\ at' \in Places /\ inside' \in Section
          /\ web' \in [kind : Kinds, section : Section]
          /\ lock' \in {"free", "app", "web"}
      BY <1>12 DEF VoiceNotRenamed, VoiceFails, Finalizing, FailCapture, VoiceEnds, Ended
    <3>3. operations' \in 0..2 /\ activity' \in {"unset", "recent", "stale"}
      BY <1>12 DEF VoiceNotRenamed, VoiceFails, Finalizing, FailCapture, VoiceEnds, Ended
    <3>4. voice' \in [state : {"Idle", "Recording", "Stopping"},
                     block : {"none", "filling", "full"}, written : 0..MaxBlocks]
      BY <1>12 DEF VoiceNotRenamed, VoiceFails, Finalizing, FailCapture, VoiceEnds, Ended
    <3> QED
      BY <3>1, <3>2, <3>3, <3>4, Zenon
  <2>2. LockAccounted'
    BY <1>12 DEF VoiceNotRenamed, VoiceFails, Finalizing, FailCapture, VoiceEnds, Ended
  <2>3. OperationsBalanced'
    BY <1>12 DEF VoiceNotRenamed, VoiceFails, Finalizing, FailCapture, VoiceEnds, Ended
  <2>4. RecorderAgrees'
    BY <1>12 DEF VoiceNotRenamed, VoiceFails, Finalizing, FailCapture, VoiceEnds, Ended
  <2>5. LoopAgrees'
    BY <1>12 DEF VoiceNotRenamed, VoiceFails, Finalizing, FailCapture, VoiceEnds, Ended
  <2>6. RequestAgrees'
    BY <1>12 DEF VoiceNotRenamed, VoiceFails, Finalizing, FailCapture, VoiceEnds, Ended
  <2> QED
    BY <2>1, <2>2, <2>3, <2>4, <2>5, <2>6
<1>13. CASE DoubleClick
  BY <1>13 DEF DoubleClick
<1>14. CASE PeriodicSync
  BY <1>14 DEF PeriodicSync
<1>15. CASE CallGoesOn
  BY <1>15 DEF CallGoesOn
<1>16. ASSUME NEW lowPower \in BOOLEAN, NEW disturbed \in BOOLEAN, IdleCheck(lowPower, disturbed)
      PROVE  IInv'
  BY <1>16 DEF IdleCheck
<1>17. ASSUME NEW click \in BOOLEAN, VoiceGoesOn(click)
      PROVE  IInv'
  <2>1. /\ voice.state \in {"Recording", "Stopping"}
        /\ Written \in [state : {"Idle", "Recording", "Stopping"},
                        block : {"none", "filling", "full"}, written : 0..MaxBlocks]
        /\ Written.state = voice.state /\ Written.block \in {"none", "filling"}
        /\ Written.block # "none" => Written.written < MaxBlocks
    BY <1>17, WrittenFits DEF VoiceGoesOn
  <2>2. /\ voice' \in [state : {"Idle", "Recording", "Stopping"},
                       block : {"none", "filling", "full"}, written : 0..MaxBlocks]
        /\ voice'.state # "Idle"
        /\ voice'.written < MaxBlocks /\ voice'.block # "none"
    <3>1. CASE Stopping(click)
      BY <1>17, <2>1, <3>1 DEF VoiceGoesOn
    <3>2. CASE ~Stopping(click)
      <4>1. Written.written < MaxBlocks
        BY <2>1, <3>2 DEF Stopping
      <4> QED
        BY <1>17, <2>1, <3>2, <4>1 DEF VoiceGoesOn
    <3> QED
      BY <3>1, <3>2
  <2>3. TypeOK'
    <3>1. refresh' \in BOOLEAN /\ voiceOp' \in BOOLEAN
      BY <1>17, Zenon DEF VoiceGoesOn
    <3>2. /\ power' \in {"on", "off", "reset"}
          /\ at' \in Places /\ inside' \in Section
          /\ web' \in [kind : Kinds, section : Section]
          /\ lock' \in {"free", "app", "web"}
          /\ operations' \in 0..2 /\ activity' \in {"unset", "recent", "stale"}
      BY <1>17 DEF VoiceGoesOn
    <3> QED
      BY <2>2, <3>1, <3>2, Zenon
  <2>4. LockAccounted' /\ OperationsBalanced'
    BY <1>17, <2>1, <2>2 DEF VoiceGoesOn
  <2>5. RecorderAgrees'
    <3>1. voiceOp' <=> voice'.state # "Idle"
      BY <1>17, <2>1, <2>2, Zenon DEF VoiceGoesOn
    <3> QED
      BY <2>2, <3>1
  <2>6. LoopAgrees' /\ RequestAgrees'
    BY <1>17, <2>1, <2>2 DEF VoiceGoesOn
  <2> QED
    BY <2>3, <2>4, <2>5, <2>6
<1>18. ASSUME NEW click \in BOOLEAN, VoiceSaved(click)
      PROVE  IInv'
  <2>1. TypeOK'
    <3>1. refresh' \in BOOLEAN /\ voiceOp' \in BOOLEAN
      BY <1>18, Zenon DEF VoiceSaved, Finalizing, VoiceEnds, Ended
    <3>2. /\ power' \in {"on", "off", "reset"}
          /\ at' \in Places /\ inside' \in Section
          /\ web' \in [kind : Kinds, section : Section]
          /\ lock' \in {"free", "app", "web"}
      BY <1>18 DEF VoiceSaved, Finalizing, VoiceEnds, Ended
    <3>3. operations' \in 0..2 /\ activity' \in {"unset", "recent", "stale"}
      BY <1>18 DEF VoiceSaved, Finalizing, VoiceEnds, Ended
    <3>4. voice' \in [state : {"Idle", "Recording", "Stopping"},
                     block : {"none", "filling", "full"}, written : 0..MaxBlocks]
      BY <1>18 DEF VoiceSaved, Finalizing, VoiceEnds, Ended
    <3> QED
      BY <3>1, <3>2, <3>3, <3>4, Zenon
  <2>2. LockAccounted'
    BY <1>18 DEF VoiceSaved, Finalizing, VoiceEnds, Ended
  <2>3. OperationsBalanced'
    BY <1>18 DEF VoiceSaved, Finalizing, VoiceEnds, Ended
  <2>4. RecorderAgrees'
    BY <1>18 DEF VoiceSaved, Finalizing, VoiceEnds, Ended
  <2>5. LoopAgrees'
    BY <1>18 DEF VoiceSaved, Finalizing, VoiceEnds, Ended
  <2>6. RequestAgrees'
    BY <1>18 DEF VoiceSaved, Finalizing, VoiceEnds, Ended
  <2> QED
    BY <2>1, <2>2, <2>3, <2>4, <2>5, <2>6
<1>19. ASSUME NEW kind \in Kinds \ {"none"}, RequestBegins(kind)
      PROVE  IInv'
  <2>1. TypeOK'
    BY <1>19 DEF RequestBegins
  <2>2. LockAccounted'
    BY <1>19 DEF RequestBegins
  <2>3. OperationsBalanced'
    BY <1>19 DEF RequestBegins
  <2>4. RecorderAgrees'
    BY <1>19 DEF RequestBegins
  <2>5. LoopAgrees'
    BY <1>19 DEF RequestBegins
  <2>6. RequestAgrees'
    BY <1>19 DEF RequestBegins
  <2> QED
    BY <2>1, <2>2, <2>3, <2>4, <2>5, <2>6
<1>20. CASE RequestWaits
  BY <1>20 DEF RequestWaits
<1>21. CASE RequestLocks
  BY <1>21 DEF RequestLocks
<1>22. CASE RequestRefreshes
  BY <1>22 DEF RequestRefreshes
<1>23. CASE RequestRefreshed
  <2>1. TypeOK'
    <3>1. refresh' \in BOOLEAN /\ voiceOp' \in BOOLEAN
      BY <1>23, Zenon DEF RequestRefreshed, recorder
    <3>2. /\ power' \in {"on", "off", "reset"}
          /\ at' \in Places /\ inside' \in Section
          /\ web' \in [kind : Kinds, section : Section]
          /\ lock' \in {"free", "app", "web"}
          /\ operations' \in 0..2 /\ activity' \in {"unset", "recent", "stale"}
          /\ voice' \in [state : {"Idle", "Recording", "Stopping"},
                         block : {"none", "filling", "full"}, written : 0..MaxBlocks]
      BY <1>23 DEF RequestRefreshed
    <3> QED
      BY <3>1, <3>2, Zenon
  <2>2. LockAccounted'
    BY <1>23 DEF RequestRefreshed
  <2>3. OperationsBalanced'
    BY <1>23 DEF RequestRefreshed
  <2>4. RecorderAgrees'
    BY <1>23 DEF RequestRefreshed
  <2>5. LoopAgrees'
    BY <1>23 DEF RequestRefreshed
  <2>6. RequestAgrees'
    BY <1>23 DEF RequestRefreshed
  <2> QED
    BY <2>1, <2>2, <2>3, <2>4, <2>5, <2>6
<1>24. CASE RequestUnlocks
  BY <1>24 DEF RequestUnlocks
<1>25. CASE RequestEnds
  BY <1>25 DEF RequestEnds, Ended
<1>26. CASE FactoryReset
  BY <1>26 DEF FactoryReset
<1>27. CASE BlockFills
  BY <1>27 DEF BlockFills
<1>28. CASE TimePasses
  BY <1>28 DEF TimePasses
<1>29. CASE Boot
  <2>1. TypeOK'
    <3>1. refresh' \in BOOLEAN /\ voiceOp' \in BOOLEAN
      BY <1>29, Zenon DEF Boot
    <3>2. /\ power' \in {"on", "off", "reset"}
          /\ at' \in Places /\ inside' \in Section
          /\ web' \in [kind : Kinds, section : Section]
          /\ lock' \in {"free", "app", "web"}
      BY <1>29 DEF Boot
    <3>3. operations' \in 0..2 /\ activity' \in {"unset", "recent", "stale"}
      BY <1>29 DEF Boot
    <3>4. voice' \in [state : {"Idle", "Recording", "Stopping"},
                     block : {"none", "filling", "full"}, written : 0..MaxBlocks]
      BY <1>29 DEF Boot
    <3> QED
      BY <3>1, <3>2, <3>3, <3>4, Zenon
  <2>2. LockAccounted'
    BY <1>29 DEF Boot
  <2>3. OperationsBalanced'
    BY <1>29 DEF Boot
  <2>4. RecorderAgrees'
    BY <1>29 DEF Boot
  <2>5. LoopAgrees'
    BY <1>29 DEF Boot
  <2>6. RequestAgrees'
    BY <1>29 DEF Boot
  <2> QED
    BY <2>1, <2>2, <2>3, <2>4, <2>5, <2>6
<1>31. CASE VoiceNoDirectory \/ VoiceNoFile
  BY <1>31 DEF VoiceNoDirectory, VoiceNoFile, VoiceEnds, Ended
<1>30. CASE UNCHANGED vars
  BY <1>30 DEF vars
<1> QED
  BY <1>1, <1>2, <1>3, <1>4, <1>5, <1>6, <1>7, <1>8, <1>9, <1>10, <1>11, <1>12,
     <1>13, <1>14, <1>15, <1>16, <1>17, <1>18, <1>19, <1>20, <1>21, <1>22, <1>23,
     <1>24, <1>25, <1>26, <1>27, <1>28, <1>29, <1>30, <1>31
     DEF Next, AppStep, RequestStep, Request

LEMMA Inductive == Spec => []IInv
  BY InitEstablishes, NextPreserves, PTL DEF Spec

-----------------------------------------------------------------------------
\* Every variable stays in its type: in particular a recording is cut off at
\* MAX_SAMPLES, and the counter of operations never exceeds one per task.
THEOREM Typed == Spec => []TypeOK
<1>1. IInv => TypeOK
  BY DEF IInv
<1> QED
  BY <1>1, Inductive, PTL

\* hal_storage_lock and hal_storage_unlock are paired on every path of the
\* recorder and of both tasks' sections.
THEOREM LocksArePaired == Spec => []LockAccounted
<1>1. IInv => LockAccounted
  BY DEF IInv
<1> QED
  BY <1>1, Inductive, PTL

\* operation_begin and operation_end are paired on every path, and the counter
\* never stays up after the last operation.
THEOREM OperationsArePaired == Spec => []OperationsBalanced
<1>1. IInv => OperationsBalanced
  BY DEF IInv
<1> QED
  BY <1>1, Inductive, PTL

\* Idling never cuts the power during a recording: the loop reaches the power-off
\* only past a check of the counter, which a recording holds above zero, and it
\* begins no recording in between.
THEOREM NoRecordingIsCut == Spec => NoRecordingCut
<1>1. ASSUME IInv, [Next]_vars, power = "on", power' = "off"
      PROVE  voice.state = "Idle" /\ inside = "out" /\ lock # "app"
  <2>1. PowerOff
    BY <1>1 DEF Next, AppStep, RequestStep, Request, vars, shared, recorder, TakeLock,
       StartRefresh, EndRefresh, GiveLock, DisplayCheck, IdleCheck, StayOn, VoiceIdle,
       VoiceBegins, VoiceStarts, VoiceNoDirectory, VoiceNoFile, VoiceCannotStart,
       VoiceNotRenamed, VoiceFails, VoiceGoesOn, VoiceSaved,
       DoubleClick, PeriodicSync, CallGoesOn, RequestBegins, RequestWaits, RequestLocks,
       RequestRefreshes, RequestRefreshed, RequestUnlocks, RequestEnds, FactoryReset,
       BlockFills, TimePasses, Boot
  <2>2. voice.state = "Idle" /\ inside = "out"
    BY <1>1, <2>1 DEF PowerOff, IInv, LoopAgrees, After
  <2> QED
    BY <1>1, <2>2 DEF IInv, LockAccounted
<1>2. IInv /\ [Next]_vars =>
        [power = "on" /\ power' = "off" =>
           voice.state = "Idle" /\ inside = "out" /\ lock # "app"]_vars
  BY <1>1
<1> QED
  BY <1>2, Inductive, PTL DEF Spec, NoRecordingCut
=============================================================================
