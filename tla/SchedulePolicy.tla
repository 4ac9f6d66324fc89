--------------------------- MODULE SchedulePolicy ---------------------------
(***************************************************************************)
(* The pure decisions of the push engine: which cached card to show, which *)
(* to suppress, when to sync again and when to wake                        *)
(* (scheduled_push_policy.h, rtc_alarm_policy.h), and the gateway's        *)
(* regular sync grid (schedule.py).                                        *)
(*                                                                         *)
(* A window is a record with the fields display, expires (0 for never) and *)
(* displayed.  Windows come in a sequence; the C++ index -1 is 0 here.     *)
(* Times are whole seconds and fit the code's int64_t.                     *)
(***************************************************************************)
EXTENDS Integers, Sequences

\* Mutant of Live: a card lives through the second of its expiry.
LiveOneMore(w, now) == w.expires = 0 \/ w.expires >= now

Live(w, now) == w.expires = 0 \/ w.expires > now

Due(w, now) == /\ ~w.displayed
               /\ w.display > 0 /\ w.display <= now
               /\ Live(w, now)

Imminent(w, now, wait) == /\ ~w.displayed
                          /\ w.display > now /\ w.display <= now + wait
                          /\ w.expires = 0 \/ w.expires > w.display

\* The due window with the latest display time, the last of them on a tie.
SelectDue(ws, now) ==
    LET due == {i \in DOMAIN ws : Due(ws[i], now)}
    IN  IF due = {} THEN 0
        ELSE CHOOSE i \in due : \A k \in due :
                \/ ws[k].display < ws[i].display
                \/ ws[k].display = ws[i].display /\ k <= i

\* The window that falls due first within the wait, the first on a tie.
SelectImminent(ws, now, wait) ==
    LET soon == {i \in DOMAIN ws : Imminent(ws[i], now, wait)}
    IN  IF soon = {} THEN 0
        ELSE CHOOSE i \in soon : \A k \in soon :
                \/ ws[k].display > ws[i].display
                \/ ws[k].display = ws[i].display /\ k >= i

\* std::remove_if: the windows that have not expired, in their order.
Unexpired(ws, now) ==
    LET upTo[n \in 0..Len(ws)] ==
          IF n = 0 THEN <<>>
          ELSE IF Live(ws[n], now) THEN Append(upTo[n - 1], ws[n])
          ELSE upTo[n - 1]
    IN  upTo[Len(ws)]

\* Showing one card settles every older card that was due with it.
SuppressOlder(ws, selected, now) ==
    [i \in DOMAIN ws |->
        [ws[i] EXCEPT !.displayed =
            @ \/ (i # selected /\ Due(ws[i], now)
                  /\ ws[i].display <= ws[selected].display)]]

\* The local poll interval is a ceiling on the server's next sync time.
NextSyncDeadline(now, serverNextSync, pollSeconds) ==
    LET local == now + pollSeconds
    IN  IF serverNextSync > now /\ serverNextSync < local THEN serverNextSync
                                                          ELSE local

\* When one window wants the device awake.
WakeFor(w, now, lead, retry) ==
    LET wanted == IF w.display <= now THEN now + retry ELSE w.display - lead
    IN  IF wanted <= now THEN now + 1 ELSE wanted

Earliest(times) == CHOOSE t \in times : \A u \in times : t <= u

\* Mutant of NextWake: an overdue window is not retried.
NextWakeForgetsOverdue(ws, now, nextSync, lead, retry) ==
    LET waiting == {i \in DOMAIN ws : /\ ~ws[i].displayed /\ ws[i].display > now
                                      /\ Live(ws[i], now)}
        times == {WakeFor(ws[i], now, lead, retry) : i \in waiting}
                   \cup {t \in {nextSync} : t > now}
    IN  IF times = {} THEN 0 ELSE Earliest(times)

\* The earliest of the next sync and of every window still to be shown; 0 when
\* there is neither.
NextWake(ws, now, nextSync, lead, retry) ==
    LET waiting == {i \in DOMAIN ws : /\ ~ws[i].displayed /\ ws[i].display > 0
                                      /\ Live(ws[i], now)}
        times == {WakeFor(ws[i], now, lead, retry) : i \in waiting}
                   \cup {t \in {nextSync} : t > now}
    IN  IF times = {} THEN 0 ELSE Earliest(times)

\* next_wake_epoch never hands the alarm a time that has passed.
WakeEpoch(ws, now, nextSync, lead, retry) ==
    LET selected == NextWake(ws, now, nextSync, lead, retry)
    IN  IF selected > now THEN selected ELSE now + retry

\* Mutant of AlarmEpoch: the target is rounded up to the next minute.
AlarmEpochRoundedUp(now, target, minute, margin, horizon) ==
    LET alarm == target + ((minute - (target % minute)) % minute)
    IN  IF now <= 0 \/ target <= now \/ target - now > horizon
           \/ alarm <= now + margin
        THEN 0 ELSE alarm

\* The calendar alarm fires on whole minutes: the start of the minute the target
\* falls in, or 0 when that is too near (or too far) to arm.
AlarmEpoch(now, target, minute, margin, horizon) ==
    LET alarm == target - (target % minute)
    IN  IF now <= 0 \/ target <= now \/ target - now > horizon
           \/ alarm <= now + margin
        THEN 0 ELSE alarm

\* The gateway's sync grid: the next multiple of the interval.
NextRegularSync(now, interval) == ((now \div interval) + 1) * interval
=============================================================================
