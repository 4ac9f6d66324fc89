------------------------------ MODULE AppTask ------------------------------
(***************************************************************************)
(* The device when it stays on: the loop of app_task (app_manager.cpp),    *)
(* the voice recording it drives (voice_capture.cpp), and the HTTP         *)
(* server's task (app_server.cpp), which handles one request at a time.    *)
(* The two tasks share the storage lock (hal_storage.cpp), the counter of  *)
(* active operations, the refresh flag and the time of the last activity.  *)
(*                                                                         *)
(* What is done with the files is left out.  A section is one stretch of   *)
(* code from hal_storage_lock to hal_storage_unlock; a panel refresh of    *)
(* the slideshow happens inside one.                                       *)
(***************************************************************************)
EXTENDS Naturals

CONSTANT MaxBlocks    \* MAX_SAMPLES, in blocks of BLOCK_SAMPLES

ASSUME MaxBlocksIsPositive == MaxBlocks \in Nat \ {0}

VARIABLES
    power,        \* "on", "off" (asleep until the alarm), "reset" (shut down)
    at,           \* where app_task's loop is
    inside,       \* app_task and the section of that place
    web,          \* the HTTP task: the kind of its request and its section
    lock,         \* the holder of s_storage_lock
    refresh,      \* g_refresh_in_progress
    operations,   \* g_active_operations
    activity,     \* g_low_power_last_activity_ms: unset, recent or 60 s old
    voice,        \* voice_capture's state, its queued block, samples_written
    voiceOp       \* s_voice_operation_active

vars == <<power, at, inside, web, lock, refresh, operations, activity, voice, voiceOp>>
shared == <<lock, refresh, operations, activity>>
recorder == <<voice, voiceOp>>

Syncs == {"sync_saved", "sync_double", "sync_periodic"}
Places == {"display", "due", "idle", "poweroff", "voice", "begin", "double", "periodic",
           "slideshow"} \cup Syncs
Section == {"out", "waiting", "holding", "refreshing"}
Kinds == {"none", "guarded", "plain", "reset"}

Silent == [state |-> "Idle", block |-> "none", written |-> 0]

NoRequest == [kind |-> "none", section |-> "out"]

Init == /\ power = "on"
        /\ at = "display" /\ inside = "out"
        /\ web = NoRequest
        /\ lock = "free" /\ refresh = FALSE
        /\ operations = 0 /\ activity = "unset"
        /\ voice = Silent /\ voiceOp = FALSE

-----------------------------------------------------------------------------
(* operation_begin, operation_end, mark_activity *)

\* app_manager_operation_end counts down to zero and no further.
Ended(n) == IF n > 0 THEN n - 1 ELSE 0

-----------------------------------------------------------------------------
(* Sections of app_task *)

\* hal_storage_lock blocks until the mutex is free.  It is not recursive: its
\* holder waits like any other task.
TakeLock ==
    /\ inside = "waiting" /\ lock = "free"
    /\ inside' = "holding" /\ lock' = "app"
    /\ UNCHANGED <<power, at, web, refresh, operations, activity, recorder>>

\* renderPhotoPath sets the refresh flag around pushSprite.
StartRefresh ==
    /\ inside = "holding" /\ at # "begin"
    /\ inside' = "refreshing" /\ refresh' = TRUE
    /\ UNCHANGED <<power, at, web, lock, operations, activity, recorder>>

EndRefresh ==
    /\ inside = "refreshing"
    /\ inside' = "holding" /\ refresh' = FALSE
    /\ UNCHANGED <<power, at, web, lock, operations, activity, recorder>>

GiveLock ==
    /\ inside = "holding" /\ at # "begin"
    /\ inside' = "out" /\ lock' = "free"
    /\ UNCHANGED <<power, at, web, refresh, operations, activity, recorder>>

-----------------------------------------------------------------------------
(* The loop *)

\* display_due_cached, or nothing: the gateway is not enabled, a refresh or an
\* operation is in progress, or the last check is less than a second ago.
DisplayCheck ==
    /\ at = "display"
    /\ \/ at' = "idle" /\ inside' = inside
       \/ /\ ~refresh /\ operations = 0
          /\ at' = "due" /\ inside' = "waiting"
    /\ UNCHANGED <<power, web, shared, recorder>>

\* should_idle_power_off_in_low_power_mode.  lowPower and disturbed stand for
\* the settings with the power supply, and for buttons with AP clients.
IdleCheck(lowPower, disturbed) ==
    LET busy == refresh \/ operations > 0
    IN  /\ at = "idle"
        /\ at' = IF lowPower /\ ~disturbed /\ ~busy /\ activity = "stale"
                 THEN "poweroff" ELSE "voice"
        /\ activity' = IF ~lowPower THEN "unset"
                       ELSE IF disturbed \/ (~busy /\ activity = "unset")
                            THEN "recent" ELSE activity
        /\ refresh' = (refresh /\ lowPower)
        /\ UNCHANGED <<power, inside, web, lock, operations, recorder>>

\* shutdown_after_low_power_cycle arms the alarm, then the PMIC cuts the power.
PowerOff ==
    /\ at = "poweroff"
    /\ power' = "off"
    /\ UNCHANGED <<at, inside, web, shared, recorder>>

\* The alarm could not be armed or the PMIC refuses.
StayOn ==
    /\ at = "poweroff"
    /\ at' = "voice"
    /\ UNCHANGED <<power, inside, web, shared, recorder>>

\* periodic_sync_due, WiFi connected, and no refresh in progress.
PeriodicSync ==
    /\ at = "periodic"
    /\ \/ at' = "slideshow" /\ inside' = inside
       \/ ~refresh /\ at' = "sync_periodic" /\ inside' = "waiting"
    /\ UNCHANGED <<power, web, shared, recorder>>

\* A double click on the top button synchronises unless a recording is active.
DoubleClick ==
    /\ at = "double"
    /\ \/ at' = "periodic" /\ UNCHANGED <<inside, activity>>
       \/ /\ voice.state = "Idle"
          /\ activity' = "recent"
          /\ \/ at' = "sync_double" /\ inside' = "waiting"
             \/ at' = "periodic" /\ UNCHANGED inside     \* WiFi is offline
    /\ UNCHANGED <<power, web, lock, refresh, operations, recorder>>

\* Where the loop goes on after a call that uses the storage.
After == [due |-> "idle", sync_saved |-> "double", sync_double |-> "periodic",
          sync_periodic |-> "slideshow", slideshow |-> "display"]

\* display_due_cached, sync_now and PhotoSlideshow::update go through any number
\* of sections.  sync_now enters the first at once: the manifest is loaded or
\* the outbox is listed.
CallGoesOn ==
    /\ at \in DOMAIN After /\ inside = "out"
    /\ \/ inside' = "waiting" /\ at' = at
       \/ inside' = inside /\ at' = After[at]
    /\ UNCHANGED <<power, web, shared, recorder>>

-----------------------------------------------------------------------------
(* voice_capture *)

\* No click, or a click without a card in the slot: begin_capture returns before
\* it takes the lock.
VoiceIdle ==
    /\ at = "voice" /\ voice.state = "Idle"
    /\ at' = "double"
    /\ UNCHANGED <<power, inside, web, shared, recorder>>

\* begin_capture takes the lock and keeps it for as long as the file is open.
VoiceBegins ==
    /\ at = "voice" /\ voice.state = "Idle"
    /\ at' = "begin" /\ inside' = "waiting"
    /\ UNCHANGED <<power, web, shared, recorder>>

\* Mutant of VoiceStarts: app_task does not count the recording as an operation.
VoiceUncounted ==
    /\ at = "begin" /\ inside = "holding"
    /\ voice' = [state |-> "Recording", block |-> "filling", written |-> 0]
    /\ voiceOp' = TRUE /\ activity' = "recent"
    /\ inside' = "out" /\ at' = "double"
    /\ UNCHANGED <<power, web, lock, refresh, operations>>

VoiceStarts ==
    /\ at = "begin" /\ inside = "holding"
    /\ voice' = [state |-> "Recording", block |-> "filling", written |-> 0]
    /\ operations' = operations + 1 /\ voiceOp' = TRUE /\ activity' = "recent"
    /\ inside' = "out" /\ at' = "double"
    /\ UNCHANGED <<power, web, lock, refresh>>

\* Mutant of VoiceEnds: the operation is taken back although none was begun.
VoiceEndsAlways ==
    /\ voiceOp' = FALSE
    /\ operations' = Ended(operations) /\ activity' = "recent"

\* Event::Failed and Event::Saved: the operation of the recording, if one was
\* begun, has ended.
VoiceEnds ==
    /\ voiceOp' = FALSE
    /\ IF voiceOp THEN operations' = Ended(operations) /\ activity' = "recent"
                  ELSE UNCHANGED <<operations, activity>>

\* fail_capture, on every path but the four that unlock by themselves.
FailCapture == lock' = "free" /\ voice' = Silent

\* One of the two directories cannot be made.
VoiceNoDirectory ==
    /\ at = "begin" /\ inside = "holding"
    /\ lock' = "free"
    /\ VoiceEnds
    /\ inside' = "out" /\ at' = "double"
    /\ UNCHANGED <<power, web, refresh, voice>>

\* The temporary file cannot be opened.
VoiceNoFile ==
    /\ at = "begin" /\ inside = "holding"
    /\ lock' = "free"
    /\ VoiceEnds
    /\ inside' = "out" /\ at' = "double"
    /\ UNCHANGED <<power, web, refresh, voice>>

\* The header, the microphone, its warm-up or the first block fails.
VoiceCannotStart ==
    /\ at = "begin" /\ inside = "holding"
    /\ FailCapture
    /\ VoiceEnds
    /\ inside' = "out" /\ at' = "double"
    /\ UNCHANGED <<power, web, refresh>>

\* The microphone has filled the block that was queued.
BlockFills ==
    /\ power = "on" /\ voice.block = "filling"
    /\ voice' = [voice EXCEPT !.block = "full"]
    /\ UNCHANGED <<power, at, inside, web, shared, voiceOp>>

\* A full block has been written to the card.
Written == IF voice.block = "full"
           THEN [voice EXCEPT !.block = "none", !.written = voice.written + 1]
           ELSE voice

\* Mutant of Stopping: no limit to the length of a recording.
StoppingByClick(click) == voice.state = "Stopping" \/ click

\* The recording stops at the second click, or when it is one minute long.  A
\* click within STOP_GUARD_US is no click here.
Stopping(click) ==
    \/ voice.state = "Stopping"
    \/ click
    \/ Written.written >= MaxBlocks

\* update while a recording is active and nothing fails.
VoiceGoesOn(click) ==
    /\ at = "voice" /\ voice.state # "Idle"
    /\ IF Stopping(click)
       THEN /\ Written.block # "none"
            /\ voice' = [Written EXCEPT !.state = "Stopping"]
       ELSE voice' = [Written EXCEPT !.block = IF Written.block = "none" THEN "filling"
                                                                       ELSE Written.block]
    /\ at' = "double"
    /\ UNCHANGED <<power, inside, web, shared, voiceOp>>

\* update reaches finalize_capture.
Finalizing(click) ==
    /\ at = "voice" /\ voice.state # "Idle"
    /\ Stopping(click) /\ Written.block = "none"

\* finalize_capture renames the file; a synchronisation follows when the frame
\* is online.
VoiceSaved(click) ==
    /\ Finalizing(click) /\ Written.written > 0
    /\ lock' = "free" /\ voice' = Silent
    /\ VoiceEnds
    /\ \/ at' = "sync_saved" /\ inside' = "waiting"
       \/ at' = "double" /\ UNCHANGED inside
    /\ UNCHANGED <<power, web, refresh>>

\* Mutant of VoiceNotRenamed: the failure does not release the storage lock.
VoiceNotRenamedLocked(click) ==
    /\ Finalizing(click)
    /\ voice' = Silent
    /\ VoiceEnds
    /\ at' = "double"
    /\ UNCHANGED <<power, inside, web, lock, refresh>>

\* The recording is empty or cannot be renamed.
VoiceNotRenamed(click) ==
    /\ Finalizing(click)
    /\ lock' = "free" /\ voice' = Silent
    /\ VoiceEnds
    /\ at' = "double"
    /\ UNCHANGED <<power, inside, web, refresh>>

\* fail_capture in a recording: a full block is not written, the next one is not
\* queued, or finalize_capture cannot write the header, flush or close.
VoiceFails(click) ==
    /\ at = "voice" /\ voice.state # "Idle"
    /\ \/ voice.block = "full"
       \/ ~Stopping(click) /\ Written.block = "none"
       \/ Finalizing(click)
    /\ FailCapture
    /\ VoiceEnds
    /\ at' = "double"
    /\ UNCHANGED <<power, inside, web, refresh>>

-----------------------------------------------------------------------------
(* The HTTP server's task *)

\* Uploads, deletions and displays begin with an AppOperationGuard; the photo
\* list and file downloads have none, nor has the factory reset.
RequestBegins(kind) ==
    /\ web.kind = "none"
    /\ web' = [kind |-> kind, section |-> "out"]
    /\ IF kind = "guarded"
       THEN operations' = operations + 1 /\ activity' = "recent"
       ELSE UNCHANGED <<operations, activity>>
    /\ UNCHANGED <<power, at, inside, lock, refresh, recorder>>

RequestWaits ==
    /\ web.kind # "none" /\ web.section = "out"
    /\ web' = [web EXCEPT !.section = "waiting"]
    /\ UNCHANGED <<power, at, inside, shared, recorder>>

RequestLocks ==
    /\ web.section = "waiting" /\ lock = "free"
    /\ web' = [web EXCEPT !.section = "holding"] /\ lock' = "web"
    /\ UNCHANGED <<power, at, inside, refresh, operations, activity, recorder>>

\* displayPhotoByPath is called by guarded handlers only.
RequestRefreshes ==
    /\ web.kind = "guarded" /\ web.section = "holding"
    /\ web' = [web EXCEPT !.section = "refreshing"] /\ refresh' = TRUE
    /\ UNCHANGED <<power, at, inside, lock, operations, activity, recorder>>

RequestRefreshed ==
    /\ web.section = "refreshing"
    /\ web' = [web EXCEPT !.section = "holding"] /\ refresh' = FALSE
    /\ UNCHANGED <<power, at, inside, lock, operations, activity, recorder>>

RequestUnlocks ==
    /\ web.section = "holding"
    /\ web' = [web EXCEPT !.section = "out"] /\ lock' = "free"
    /\ UNCHANGED <<power, at, inside, refresh, operations, activity, recorder>>

\* Every return of a handler runs the guard's destructor; a JSON answer marks
\* activity, an error answer does not.
RequestEnds ==
    /\ web.kind \in {"guarded", "plain"} /\ web.section = "out"
    /\ web' = NoRequest
    /\ IF web.kind = "guarded"
       THEN operations' = Ended(operations) /\ activity' = "recent"
       ELSE operations' = operations /\ activity' \in {activity, "recent"}
    /\ UNCHANGED <<power, at, inside, lock, refresh, recorder>>

\* app_manager_factory_reset_machine, on this task: after reset_state and the
\* settings it shuts the board down.
FactoryReset ==
    /\ web.kind = "reset" /\ web.section = "out"
    /\ power' = "reset"
    /\ UNCHANGED <<at, inside, web, shared, recorder>>

-----------------------------------------------------------------------------
\* LOW_POWER_IDLE_SHUTDOWN_MS pass without activity.
TimePasses ==
    /\ power = "on" /\ activity = "recent"
    /\ activity' = "stale"
    /\ UNCHANGED <<power, at, inside, web, lock, refresh, operations, recorder>>

\* The alarm or the power button.
Boot ==
    /\ power # "on"
    /\ power' = "on"
    /\ at' = "display" /\ inside' = "out"
    /\ web' = NoRequest
    /\ lock' = "free" /\ refresh' = FALSE
    /\ operations' = 0 /\ activity' = "unset"
    /\ voice' = Silent /\ voiceOp' = FALSE

AppStep ==
    /\ power = "on"
    /\ \/ TakeLock \/ StartRefresh \/ EndRefresh \/ GiveLock
       \/ DisplayCheck
       \/ \E lowPower, disturbed \in BOOLEAN : IdleCheck(lowPower, disturbed)
       \/ PowerOff \/ StayOn
       \/ VoiceIdle \/ VoiceBegins \/ VoiceStarts
       \/ VoiceNoDirectory \/ VoiceNoFile \/ VoiceCannotStart
       \/ \E click \in BOOLEAN : \/ VoiceGoesOn(click) \/ VoiceSaved(click)
                                \/ VoiceNotRenamed(click) \/ VoiceFails(click)
       \/ DoubleClick \/ PeriodicSync \/ CallGoesOn

\* The HTTP task goes on with the request it has.
RequestStep ==
    /\ power = "on"
    /\ \/ RequestWaits \/ RequestLocks \/ RequestRefreshes \/ RequestRefreshed
       \/ RequestUnlocks \/ RequestEnds \/ FactoryReset

Request == power = "on" /\ \E kind \in Kinds \ {"none"} : RequestBegins(kind)

Next == AppStep \/ RequestStep \/ Request \/ BlockFills \/ TimePasses \/ Boot

Spec == Init /\ [][Next]_vars

\* The scheduler runs both tasks, and the microphone delivers.
FairSpec == Spec /\ WF_vars(AppStep) /\ WF_vars(RequestStep) /\ WF_vars(BlockFills)

-----------------------------------------------------------------------------
(* Properties *)

\* Every variable stays in its type; a recording is never longer than a minute.
TypeOK ==
    /\ power \in {"on", "off", "reset"}
    /\ at \in Places /\ inside \in Section
    /\ web \in [kind : Kinds, section : Section]
    /\ lock \in {"free", "app", "web"} /\ refresh \in BOOLEAN
    /\ operations \in 0..2 /\ activity \in {"unset", "recent", "stale"}
    /\ voice \in [state : {"Idle", "Recording", "Stopping"},
                  block : {"none", "filling", "full"}, written : 0..MaxBlocks]
    /\ voiceOp \in BOOLEAN

\* Each lock is paired with one unlock on every path of the recorder and of the
\* handlers, the failing ones included: the lock is held exactly while a
\* recording is active or its holder is in a section (voice_capture.cpp:84-163).
LockAccounted ==
    /\ lock = "app" <=> voice.state # "Idle" \/ inside \in {"holding", "refreshing"}
    /\ lock = "web" <=> web.section \in {"holding", "refreshing"}

\* The counter is the number of guarded requests and recordings in progress,
\* whichever task changes it and however they end (app_manager.cpp:202-214,
\* 607-625): were it to leak, the frame would never sleep again.
OperationsBalanced ==
    operations = (IF voice.state # "Idle" THEN 1 ELSE 0)
                 + (IF web.kind = "guarded" THEN 1 ELSE 0)

\* The idle timeout never cuts the power during a recording, however long it is,
\* nor while app_task is in a section (app_manager.cpp:256, 607).
NoRecordingCut ==
    [][power = "on" /\ power' = "off" =>
          voice.state = "Idle" /\ inside = "out" /\ lock # "app"]_vars

\* A recording that was started is saved or fails, unless the power goes
\* (README.md:215).
RecordingEnds == (voice.state # "Idle") ~> (voice.state = "Idle" \/ power # "on")
=============================================================================
