---------------------------- MODULE PolicyLoops ----------------------------
(***************************************************************************)
(* The loops of scheduled_push_policy.h, turn by turn, against the         *)
(* definitions of SchedulePolicy that the other modules use.  A behaviour  *)
(* grows a manifest window by window while time passes; every manifest and *)
(* every moment it reaches is an input of the comparison.                  *)
(***************************************************************************)
EXTENDS SchedulePolicy

CONSTANTS
    MaxMoment,   \* bound: the latest time in a window and of the clock
    MaxWindows   \* bound: the windows of a manifest

ASSUME MaxMomentIsNat == MaxMoment \in Nat

VARIABLES
    ws,          \* the windows handed to the functions
    moment       \* the clock

loopVars == <<ws, moment>>

Moments == 0..MaxMoment

LoopWindows == [display : Moments, expires : Moments, displayed : BOOLEAN]

LoopsInit == ws = <<>> /\ moment = 0

Extend == /\ Len(ws) < MaxWindows
          /\ \E w \in LoopWindows : ws' = Append(ws, w)
          /\ moment' = moment

Tick == moment < MaxMoment /\ moment' = moment + 1 /\ ws' = ws

LoopsNext == Extend \/ Tick

LoopsSpec == LoopsInit /\ [][LoopsNext]_loopVars

-----------------------------------------------------------------------------
(* The loops: a turn takes what is selected so far and an index; a continue *)
(* statement returns what was selected.                                     *)

\* What a loop over the windows makes of its start, turn after turn.
Loop(start, Turn(_, _)) ==
    LET after[n \in 0..Len(ws)] == IF n = 0 THEN start ELSE Turn(after[n - 1], n)
    IN  after[Len(ws)]

\* Mutant of DueTurn: the first of two cards with one display time wins.
DueTurnFirst(selected, i) ==
    IF \/ ws[i].displayed \/ ws[i].display <= 0 \/ ws[i].display > moment
       \/ ws[i].expires > 0 /\ ws[i].expires <= moment
    THEN selected
    ELSE IF selected = 0 THEN i
    ELSE IF ws[i].display > ws[selected].display THEN i ELSE selected

DueTurn(selected, i) ==
    IF \/ ws[i].displayed \/ ws[i].display <= 0 \/ ws[i].display > moment
       \/ ws[i].expires > 0 /\ ws[i].expires <= moment
    THEN selected
    ELSE IF selected = 0 THEN i
    ELSE IF ws[i].display >= ws[selected].display THEN i ELSE selected

DueLoop == Loop(0, DueTurn)

ImminentTurn(wait, selected, i) ==
    IF \/ ws[i].displayed
       \/ ws[i].display <= moment \/ ws[i].display > moment + wait
       \/ ws[i].expires > 0 /\ ws[i].expires <= ws[i].display
    THEN selected
    ELSE IF selected = 0 THEN i
    ELSE IF ws[i].display < ws[selected].display THEN i ELSE selected

ImminentLoop(wait) ==
    Loop(0, LAMBDA selected, i : ImminentTurn(wait, selected, i))

\* Mutant of SuppressTurn: a card with the same display time is spared.
SuppressTurnStrict(selected, jobs, i) ==
    IF \/ i = selected \/ jobs[i].displayed
       \/ jobs[i].display <= 0 \/ jobs[i].display > moment
       \/ jobs[i].display >= ws[selected].display
       \/ jobs[i].expires > 0 /\ jobs[i].expires <= moment
    THEN jobs
    ELSE [jobs EXCEPT ![i].displayed = TRUE]

SuppressTurn(selected, jobs, i) ==
    IF \/ i = selected \/ jobs[i].displayed
       \/ jobs[i].display <= 0 \/ jobs[i].display > moment
       \/ jobs[i].display > ws[selected].display
       \/ jobs[i].expires > 0 /\ jobs[i].expires <= moment
    THEN jobs
    ELSE [jobs EXCEPT ![i].displayed = TRUE]

SuppressLoop(selected) ==
    Loop(ws, LAMBDA jobs, i : SuppressTurn(selected, jobs, i))

\* Mutant of WakeTurn: the latest candidate wins.
WakeTurnLatest(lead, retry, nextWake, i) ==
    LET wanted == IF ws[i].display <= moment THEN moment + retry
                                          ELSE ws[i].display - lead
        candidate == IF wanted <= moment THEN moment + 1 ELSE wanted
    IN  IF \/ ws[i].displayed \/ ws[i].display <= 0
           \/ ws[i].expires > 0 /\ ws[i].expires <= moment
        THEN nextWake
        ELSE IF nextWake = 0 \/ candidate > nextWake THEN candidate ELSE nextWake

WakeTurn(lead, retry, nextWake, i) ==
    LET wanted == IF ws[i].display <= moment THEN moment + retry
                                          ELSE ws[i].display - lead
        candidate == IF wanted <= moment THEN moment + 1 ELSE wanted
    IN  IF \/ ws[i].displayed \/ ws[i].display <= 0
           \/ ws[i].expires > 0 /\ ws[i].expires <= moment
        THEN nextWake
        ELSE IF nextWake = 0 \/ candidate < nextWake THEN candidate ELSE nextWake

WakeLoop(nextSync, lead, retry) ==
    Loop(IF nextSync > moment THEN nextSync ELSE 0,
         LAMBDA nextWake, i : WakeTurn(lead, retry, nextWake, i))

-----------------------------------------------------------------------------
(* Properties *)

Lengths == {0, 1, MaxMoment}   \* of a lead, a wait or a retry

\* Every loop returns what the definitions of SchedulePolicy say, ties and
\* expired, displayed and timeless windows included (scheduled_push_policy.h:14-81).
LoopsAgree ==
    /\ DueLoop = SelectDue(ws, moment)
    /\ \A wait \in Lengths :
          ImminentLoop(wait) = SelectImminent(ws, moment, wait)
    /\ \A i \in DOMAIN ws : SuppressLoop(i) = SuppressOlder(ws, i, moment)
    /\ \A sync \in Moments, lead, retry \in Lengths :
          WakeLoop(sync, lead, retry) = NextWake(ws, moment, sync, lead, retry)

\* Showing the due card works off the whole backlog: afterwards nothing is due
\* before time passes, whatever was due with it (scheduled_push.cpp:917-924).
BacklogSettled ==
    LET selected == DueLoop
    IN  selected # 0 =>
            SelectDue([SuppressLoop(selected) EXCEPT ![selected].displayed = TRUE],
                      moment) = 0

\* The alarm is never armed for a card that is settled, never after the moment
\* a waiting card falls due, and never in the past (scheduled_push_policy.h:67-81).
WakesInTime ==
    \A sync \in Moments, retry \in Lengths \ {0} :
        LET wake == WakeLoop(sync, 0, retry)
        IN  /\ wake = 0 \/ wake > moment
            /\ \A i \in DOMAIN ws :
                  (~ws[i].displayed /\ ws[i].display > moment /\ Live(ws[i], moment))
                      => wake # 0 /\ wake <= ws[i].display
            /\ (sync = 0 /\ \A i \in DOMAIN ws : ws[i].displayed) => wake = 0
=============================================================================
