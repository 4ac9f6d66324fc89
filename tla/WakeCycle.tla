----------------------------- MODULE WakeCycle -----------------------------
(***************************************************************************)
(* The low-power cycle of a device that runs on battery with the gateway   *)
(* enabled: app_manager_start, the parts of app_task and scheduled_push    *)
(* that decide when the board is on, and the calendar alarm that wakes it. *)
(* Time is the RTC's, in whole seconds; every blocking piece of work (boot,*)
(* WiFi connect, the HTTP calls of a sync, a panel refresh) takes some     *)
(* time up to MaxBusy.                                                     *)
(*                                                                         *)
(* A turn of the loop skips its display check while a recording or an HTTP *)
(* operation is under way, and does other work after it; held counts the   *)
(* time without a check.                                                   *)
(*                                                                         *)
(* Left out: failures of the panel and the SD card (ScheduledPush), an RTC *)
(* that was never set, the correction a sync makes to one that was (time   *)
(* here is what the RTC shows, without a jump), the setup access point,    *)
(* PMIC calls that fail, and syncs asked for by a button.                  *)
(***************************************************************************)
EXTENDS SchedulePolicy, FiniteSets, Functions

CONSTANTS
    Cards,       \* the cards the gateway may hand out: records of display and expires
    Lead,        \* DISPLAY_WAKE_LEAD_SECONDS
    Wait,        \* DISPLAY_WAKE_WAIT_SECONDS
    Retry,       \* RETRY_SECONDS
    Poll,        \* gateway_poll_minutes, in seconds
    Grid,        \* the gateway's DEFAULT_POLL_INTERVAL_SECONDS
    Minute,      \* the resolution of the calendar alarm
    Margin,      \* kRtcAlarmArmingMarginSeconds
    Horizon,     \* kRtcAlarmMaxHorizonSeconds
    MaxBusy,     \* bound: the longest one blocking piece of work takes
    MaxHeld,     \* bound: the longest the loop goes without a display check
    MaxTime      \* bound: the clock stops here

ASSUME TimesArePositive ==
    /\ {Poll, Retry, Grid, Minute, Horizon, MaxTime} \subseteq Nat \ {0}
    /\ {Lead, Wait, Margin, MaxBusy, MaxHeld} \subseteq Nat
ASSUME CardsAreWindows == /\ Cards \subseteq [display : Nat \ {0}, expires : Nat]
                          /\ IsFiniteSet(Cards)
ASSUME WaitCoversMinute == Lead + Minute <= Wait + 1

VARIABLES
    now,         \* the RTC
    mode,        \* where the firmware is
    rtcWake,     \* isRtcWakeBoot
    alarm,       \* the alarm a board that is off waits for, 0 while it is on
    jobs,        \* g_manifest.jobs, each with the time it arrived
    serverNext,  \* g_manifest.next_sync_at
    nextSync,    \* g_next_sync_ms on the RTC's scale
    held         \* seconds since the loop's last display check, 0 before it

vars == <<now, mode, rtcWake, alarm, jobs, serverNext, nextSync, held>>

Modes == {"off", "boot", "connect", "synced", "decide", "loop", "checked", "loop_synced"}

Init == /\ now = 1
        /\ mode = "boot"
        /\ rtcWake = FALSE
        /\ alarm = 0
        /\ jobs = <<>>
        /\ serverNext = 0
        /\ nextSync = 0
        /\ held = 0

\* A blocking call returns at a later time within the bound.
Busy(from) == {t \in from..(from + MaxBusy) : t <= MaxTime}

-----------------------------------------------------------------------------
(* display_due_cached *)

\* After an RTC wake the task sleeps until an imminent card is due.
CheckTime(t) ==
    LET soon == SelectImminent(jobs, t, Wait)
    IN  IF SelectDue(jobs, t) = 0 /\ rtcWake /\ soon # 0
        THEN jobs[soon].display ELSE t

Settle(selected, t) ==
    [SuppressOlder(jobs, selected, t) EXCEPT ![selected].displayed = TRUE]

\* The check starts at time t; a card that is shown keeps the task busy.
DisplayDue(t) ==
    LET at == CheckTime(t)
        selected == SelectDue(jobs, at)
    IN  /\ IF selected = 0 THEN now' = at /\ at <= MaxTime /\ jobs' = jobs
           ELSE now' \in Busy(at) /\ jobs' = Settle(selected, at)
        /\ held' = 0

-----------------------------------------------------------------------------
(* Waking *)

\* From the alarm to app_manager_start.
AlarmWakes ==
    /\ mode = "off"
    /\ now' \in Busy(alarm)
    /\ mode' = "boot" /\ rtcWake' = TRUE /\ alarm' = 0
    /\ UNCHANGED <<jobs, serverNext, nextSync, held>>

\* The power button, at any moment before the alarm.
ButtonWakes ==
    /\ mode = "off"
    /\ \E pressed \in now..(alarm - 1) : now' \in Busy(pressed)
    /\ mode' = "boot" /\ rtcWake' = FALSE /\ alarm' = 0
    /\ UNCHANGED <<jobs, serverNext, nextSync, held>>

\* The first thing a boot does is show what is due.
BootShows ==
    /\ mode = "boot"
    /\ DisplayDue(now)
    /\ mode' = "connect"
    /\ nextSync' = 0
    /\ UNCHANGED <<rtcWake, alarm, serverNext>>

-----------------------------------------------------------------------------
(* sync_now *)

Window(card, t) == [display |-> card.display, expires |-> card.expires,
                    displayed |-> FALSE, arrived |-> t]

Listed == {[display |-> jobs[i].display, expires |-> jobs[i].expires] :
              i \in DOMAIN jobs}

\* std::sort: windows with one display time come in any order.
Sorted(S) ==
    {s \in [1..Cardinality(S) -> S] :
        IsInjective(s) /\ \A i, k \in DOMAIN s : i < k => s[i].display <= s[k].display}

\* The jobs known so far and the new ones, without those that have expired.
Merged(new, t) ==
    {Unexpired(s, t) : s \in Sorted(Range(jobs) \cup {Window(card, t) : card \in new})}

\* A sync that installs a manifest, whatever the gateway accepted meanwhile.
SyncInstalls(new) ==
    /\ now' \in Busy(now)
    /\ jobs' \in Merged(new, now')
    /\ serverNext' = NextRegularSync(now', Grid)
    /\ nextSync' = NextSyncDeadline(now', serverNext', Poll)

\* Whatever fails on the way to the manifest, setting the RTC included.
SyncFails ==
    /\ now' \in Busy(now)
    /\ nextSync' = now + Retry
    /\ UNCHANGED <<jobs, serverNext>>

BootSyncs(new) ==
    /\ mode = "connect"
    /\ SyncInstalls(new)
    /\ mode' = "synced"
    /\ UNCHANGED <<rtcWake, alarm, held>>

\* WiFi does not come up (no sync is tried, so g_next_sync_ms keeps its zero),
\* or the sync fails.
BootSyncFails ==
    /\ mode = "connect"
    /\ \/ SyncFails
       \/ now' \in Busy(now) /\ UNCHANGED <<jobs, serverNext, nextSync>>
    /\ mode' = "decide"
    /\ UNCHANGED <<rtcWake, alarm, held>>

\* sync_now ends with display_due_cached and the acknowledgement, which may fail.
SyncShows ==
    /\ mode \in {"synced", "loop_synced"}
    /\ DisplayDue(now)
    /\ mode' = IF mode = "synced" THEN "decide" ELSE "loop"
    /\ nextSync' \in {nextSync, now' + Retry}
    /\ UNCHANGED <<rtcWake, alarm, serverNext>>

-----------------------------------------------------------------------------
(* shutdown_after_low_power_cycle, and the loop of app_task *)

Target ==
    WakeEpoch(jobs, now, NextSyncDeadline(now, serverNext, Poll), Lead, Retry)

Armed == AlarmEpoch(now, Target, Minute, Margin, Horizon)

\* An alarm that cannot be armed keeps the board on.
PowersOff ==
    /\ mode = "decide"
    /\ Armed # 0
    /\ mode' = "off" /\ alarm' = Armed
    /\ UNCHANGED <<now, rtcWake, jobs, serverNext, nextSync, held>>

\* The same, or external power is there.
StaysOn ==
    /\ mode = "decide"
    /\ mode' = "loop"
    /\ UNCHANGED <<now, rtcWake, alarm, jobs, serverNext, nextSync, held>>

\* One second of the loop; its idle time-out may follow the display check.
LoopShows ==
    /\ mode \in {"loop", "checked"}
    /\ DisplayDue(now + 1)
    /\ mode' \in {"checked", "decide"}
    /\ UNCHANGED <<rtcWake, alarm, serverNext, nextSync>>

Unchecked == held' = held + (now' - now) /\ held' <= MaxHeld

\* A second goes by in which no display check is made: a recording or an HTTP
\* operation holds it off, or the turn is busy with a button, a photo or a WiFi
\* attempt.  A sync that falls due is not held off.
LoopIsHeld ==
    /\ mode \in {"loop", "checked"}
    /\ now < MaxTime
    /\ now' = now + 1
    /\ Unchecked
    /\ mode' = "checked"
    /\ UNCHANGED <<rtcWake, alarm, jobs, serverNext, nextSync>>

\* A sync that falls due comes later in the turn than the display check.
LoopSyncs(new) ==
    /\ mode = "checked" /\ nextSync <= now
    /\ SyncInstalls(new)
    /\ Unchecked
    /\ mode' = "loop_synced"
    /\ UNCHANGED <<rtcWake, alarm>>

LoopSyncFails ==
    /\ mode = "checked" /\ nextSync <= now
    /\ SyncFails
    /\ Unchecked
    /\ mode' = "loop"
    /\ UNCHANGED <<rtcWake, alarm>>

Next == \/ AlarmWakes \/ ButtonWakes \/ BootShows
        \/ \E new \in SUBSET (Cards \ Listed) : BootSyncs(new) \/ LoopSyncs(new)
        \/ BootSyncFails \/ SyncShows
        \/ PowersOff \/ StaysOn \/ LoopShows \/ LoopIsHeld \/ LoopSyncFails

Spec == Init /\ [][Next]_vars

-----------------------------------------------------------------------------
(* Properties *)

Windows == [display : Nat \ {0}, expires : Nat, displayed : BOOLEAN, arrived : Nat]

\* Every variable stays in its type, and a board that is off has an alarm ahead.
TypeOK == /\ now \in 0..MaxTime
          /\ mode \in Modes
          /\ rtcWake \in BOOLEAN
          /\ {alarm, serverNext, nextSync} \subseteq Nat
          /\ jobs \in Seq(Windows)
          /\ held \in 0..MaxHeld
          /\ IF mode = "off" THEN alarm > now ELSE alarm = 0

\* The cards still to be shown.
Waiting == {i \in DOMAIN jobs : ~jobs[i].displayed /\ Live(jobs[i], now)}

\* When a window could first be on the screen.
Since(w) == IF w.display > w.arrived THEN w.display ELSE w.arrived

Lateness(i) == now - Since(jobs[i])

\* The board never sleeps through the moment a cached card is to be shown: the
\* whole-minute alarm comes no later than it, and close enough before it that
\* the wake waits for the card (scheduled_push.cpp:1032-1069, hal.cpp:305-319).
NeverSleepsPast ==
    mode = "off" =>
        /\ \A i \in Waiting : jobs[i].display > now => alarm <= jobs[i].display
        /\ Target + Lead <= alarm + Wait

\* With a panel that works, a cached card is late by one overdue retry and the
\* work around it at most (a card shown before it, a connection that fails, the
\* power-off until the retry, and the boot), and by the time since the loop's
\* last display check, which nothing in the code bounds: a recording of any
\* length, an HTTP operation, or the recording that never ends hold the check
\* off (scheduled_push.cpp:875-938, app_manager.cpp:573-577).
BoundedLateness ==
    \A i \in Waiting : Lateness(i) < Retry + 3 * MaxBusy + held
=============================================================================
