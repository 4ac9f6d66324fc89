---------------------------- MODULE LocalPhotos ----------------------------
(***************************************************************************)
(* The local photo slideshow (local_photo_slideshow.cpp) over the device's *)
(* storage: the choice between SD card and flash, the list of photos and   *)
(* the indices into it, as two tasks use them.  The app task runs update   *)
(* in its loop; the HTTP server's handlers add, remove and display photos. *)
(* Neither the list nor the indices have a lock.                           *)
(*                                                                         *)
(* A scan clears the list, fills it under the storage lock, and sorts it   *)
(* and wraps the indices after the unlock; what follows reads them again.  *)
(* An index out of range is undefined behaviour: the device panics, or the *)
(* read does no harm and the code goes on.                                 *)
(*                                                                         *)
(* Left out: MAX_PHOTOS, files the decoder rejects, rotation, and who may  *)
(* hold the storage lock for how long (AppTask).                           *)
(***************************************************************************)
EXTENDS StorageMedia, Sequences, FiniteSets, SequencesExt

CONSTANTS
    Photos,      \* paths of photos, as the numbers that order them
    Stored,      \* the photos each medium starts with
    MaxChanges,  \* bound: what people do to cards, files, buttons and power
    MaxFaults    \* bound: calls the storage drivers fail

Tasks == {"app", "http"}
NoPhoto == 65535
Page == 0          \* no photo: a pulse page or a card, drawn over it

ASSUME PhotosAreOrdered == Photos \subseteq Nat \ {Page} /\ IsFiniteSet(Photos)
ASSUME StoredIsPhotos == Stored \in [Media -> SUBSET Photos]
ASSUME BoundsAreNat == MaxChanges \in Nat /\ MaxFaults \in Nat

VARIABLES
    storage,    \* s_ctx of hal_storage.cpp
    card,       \* what the card slot holds
    seated,     \* whether that card is the one the SD driver was opened on
    album,      \* the photos on each medium
    lastSd,     \* _last_sd_inserted
    locked,     \* _sd_fallback_locked
    list,       \* _photo_list
    current,    \* _current_index
    pending,    \* _pending_index
    needs,      \* _needs_refresh
    rtc,        \* the index in the RTC's RAM, which outlives a power-off
    scan,       \* for each task: where it is in a scan, and what it wants it for
    power,      \* whether the device runs
    screen,     \* what the e-paper shows
    touched,    \* history: HTTP touched the list since the app task's scan began
    failed,     \* history: a switch failed since the slot was last seen empty
    changes, faults

slot == <<card, seated>>
media == <<lastSd, locked, failed>>
indices == <<current, pending, needs, rtc>>
photos == <<list, indices, scan, touched>>
counts == <<changes, faults>>
vars == <<storage, slot, album, media, photos, power, screen, counts>>

Idle == [pc |-> "idle", for |-> "none", path |-> Page, opened |-> FALSE]
Scanning(t) == scan[t].pc \in {"fill", "sort"}

Change == changes < MaxChanges /\ changes' = changes + 1
Inserted == card # "none"

Visible(s) == /\ s.disk # NoDisk /\ s.mount = "app"
              /\ s.disk = "sd" => seated /\ Mountable("sd", card)

Shown(s) == IF Visible(s) THEN album[s.disk] ELSE {}

Init ==
    /\ storage = Fresh
    /\ card \in Cards /\ seated = FALSE
    /\ album = Stored
    /\ lastSd = FALSE /\ locked = FALSE /\ failed = FALSE
    /\ list = <<>> /\ current = NoPhoto /\ pending = NoPhoto /\ needs = FALSE
    /\ rtc = 0
    /\ scan = [t \in Tasks |-> Idle]
    /\ power = "off" /\ screen = Page /\ touched = FALSE
    /\ changes = 0 /\ faults = 0

-----------------------------------------------------------------------------
(* Which medium: an outcome adds to the storage's whether the lock on the  *)
(* fallback is set and whether the index state was reset.                  *)

Choice(o, lock, reset, n) ==
    [storage |-> o.storage, locked |-> lock, reset |-> reset,
     ok |-> o.ok, failures |-> o.failures + n]

\* selectStorageMedia
Selected ==
    IF ~Inserted
    THEN {Choice(o, FALSE, FALSE, 0) : o \in Initialised(Fresh, "flash", card)}
    ELSE LET sd == Initialised(Fresh, "sd", card)
         IN  {Choice(o, FALSE, FALSE, 0) : o \in {x \in sd : x.ok}} \cup
             UNION {{Choice(f, TRUE, FALSE, o.failures) :
                        f \in Initialised(o.storage, "flash", card)} :
                    o \in {x \in sd : ~x.ok}}

\* Mutant of FreshLock: the lock on the flash outlives the card it was set for.
FreshLockKept == locked

\* ensureStorageMedia
FreshLock == locked /\ Inserted /\ lastSd
Target == IF Inserted /\ ~FreshLock THEN "sd" ELSE "flash"

FallenBack(o) ==
    IF o.storage.media = "flash"
    THEN {Choice(o, TRUE, TRUE, 0)}
    ELSE {Choice(f, TRUE, f.ok, o.failures) : f \in Switched(o.storage, "flash", card)}

Ensured ==
    IF storage.media = Target
    THEN {Choice(Outcome(storage, TRUE, 0), FreshLock, FALSE, 0)}
    ELSE UNION {IF o.ok THEN {Choice(o, FreshLock, TRUE, 0)}
                ELSE IF Inserted THEN FallenBack(o)
                ELSE {Choice(o, FreshLock, FALSE, 0)} :
                o \in Switched(storage, Target, card)}

Within(n) == faults + n <= MaxFaults /\ faults' = faults + n

\* The driver is opened on the card that is in the slot.
TakesCard(s) == seated' = (s.disk = "sd" /\ (seated \/ storage.disk # "sd"))

-----------------------------------------------------------------------------
(* A scan *)

Starts(t, what, path) ==
    /\ list' = <<>>
    /\ scan' = [scan EXCEPT ![t] = [pc |-> "fill", for |-> what, path |-> path,
                                   opened |-> FALSE]]
    /\ touched' = (t = "http" \/ Scanning("http"))

\* std::sort: the element at a place is the one with fewer smaller ones before it
\* and, with its likes, enough up to there.
Sorted(l) ==
    [i \in DOMAIN l |->
        CHOOSE v \in Range(l) : /\ Cardinality({k \in DOMAIN l : l[k] < v}) < i
                                /\ Cardinality({k \in DOMAIN l : l[k] <= v}) >= i]

InOrder(S) ==
    [i \in 1..Cardinality(S) |->
        CHOOSE p \in S : Cardinality({q \in S : q < p}) = i - 1]

\* The directory gives the photos in some order: here, the last first.
Fill(t) ==
    LET s == MountedToApp(storage, card)
    IN  /\ scan[t].pc = "fill"
        /\ storage' = s
        /\ list' = list \o Reverse(InOrder(Shown(s)))
        /\ scan' = [scan EXCEPT ![t].pc = "sort", ![t].opened = Visible(s)]
        /\ UNCHANGED <<slot, album, media, indices, power, screen, touched, counts>>

\* Mutant of Wrapped: the indices are not clamped to the new list.
WrappedNot(i, n) == i

Wrapped(i, n) == IF i = NoPhoto \/ n = 0 THEN i ELSE i % n

\* scanPhotos' end and clampIndices.  Without photos a refresh that waited is
\* cancelled; displayPhotoByPath looks for its path all the same.
Sort(t) ==
    LET sorted == IF scan[t].opened THEN Sorted(list) ELSE list
        has == scan[t].opened /\ list # <<>>
    IN  /\ scan[t].pc = "sort"
        /\ list' = sorted
        /\ current' = Wrapped(current, Len(list))
        /\ pending' = Wrapped(pending, Len(list))
        /\ scan' = [scan EXCEPT ![t] = IF has \/ t = "http" THEN [@ EXCEPT !.pc = "use"]
                                                            ELSE Idle]
        /\ needs' = (needs /\ (has \/ scan[t].for # "settle"))
        /\ UNCHANGED <<storage, slot, album, media, rtc, power, screen, touched, counts>>

\* renderPhotoPath draws a file that can be read.
Render(p) ==
    LET s == MountedToApp(storage, card)
    IN  /\ storage' = s
        /\ screen' = IF p \in Shown(s) THEN p ELSE screen

DisplayPhoto(i) ==
    IF i < Len(list) THEN Render(list[i + 1]) ELSE UNCHANGED <<storage, screen>>

-----------------------------------------------------------------------------
(* The app task: one pass of update, up to the scan that ends it *)

Wants(op) ==
    CASE op = "settle" -> needs /\ UNCHANGED changes
      [] op = "auto"   -> ~needs /\ UNCHANGED changes
      [] OTHER         -> Change            \* a button

Pass(op) ==
    /\ power = "on" /\ scan["app"].pc = "idle"
    /\ \E o \in Ensured :
        /\ Within(o.failures)
        /\ storage' = o.storage
        /\ TakesCard(o.storage)
        /\ locked' = o.locked
        /\ failed' = (Inserted /\ (failed \/ ~o.ok \/ o.locked # FreshLock))
        /\ pending' = IF o.reset THEN NoPhoto ELSE pending
        /\ rtc' = IF o.reset THEN 0 ELSE rtc
    /\ lastSd' = Inserted
    /\ IF op = "none" THEN UNCHANGED <<list, scan, touched, changes>>
                      ELSE Wants(op) /\ Starts("app", op, Page)
    /\ UNCHANGED <<card, album, current, needs, power, screen>>

\* display_pulse_page or display_due_cached: by a path that is not in the list.
ShowPage ==
    /\ power = "on" /\ scan["app"].pc = "idle"
    /\ Change
    /\ storage' = MountedToApp(storage, card)
    /\ Visible(storage')
    /\ screen' = Page
    /\ Starts("app", "page", Page)
    /\ UNCHANGED <<slot, album, media, indices, power, faults>>

\* Mutant of IndexFor: the automatic page change and a button press stay on the
\* photo they start from.
IndexForStuck(op) ==
    LET n == Len(list)
    IN  CASE op = "next"   -> IF pending = NoPhoto THEN 0 ELSE (pending + 1) % n
          [] op = "prev"   -> IF pending = NoPhoto THEN 0 ELSE pending
          [] op = "auto"   -> IF current = NoPhoto THEN 0 ELSE current % n
          [] op = "settle" -> pending

\* The index the code computes, and whether it divides by the size to do so.
IndexFor(op) ==
    LET n == Len(list)
    IN  CASE op = "next"   -> IF pending = NoPhoto THEN 0 ELSE (pending + 1) % n
          [] op = "prev"   -> IF pending = NoPhoto THEN 0
                              ELSE IF pending = 0 THEN (n - 1) % 65536 ELSE pending - 1
          [] op = "auto"   -> IF current = NoPhoto THEN 0 ELSE (current + 1) % n
          [] op = "settle" -> pending

DividesByZero(op) ==
    Len(list) = 0 /\ \/ op = "next" /\ pending # NoPhoto
                     \/ op = "auto" /\ current # NoPhoto

Unchanged(i) == i = current /\ current # NoPhoto

\* requestRefresh cancels before it reads the list, update before it draws.
InRange(op) ==
    /\ ~DividesByZero(op)
    /\ \/ op # "auto" /\ Unchanged(IndexFor(op))
       \/ IndexFor(op) < Len(list)

Using(op) ==
    /\ scan["app"].pc = "use" /\ scan["app"].for = op
    /\ scan' = [scan EXCEPT !["app"] = Idle]
    /\ UNCHANGED <<list, touched, slot, album, media, power, counts>>

Turn(op) ==
    /\ Using(op) /\ ~DividesByZero(op)
    /\ pending' = IndexFor(op)
    /\ needs' = ~Unchanged(IndexFor(op))
    /\ rtc' = IF needs' THEN IndexFor(op) ELSE rtc
    /\ UNCHANGED <<current, storage, screen>>

Settle ==
    /\ Using("settle")
    /\ needs' = FALSE
    /\ current' = pending
    /\ IF Unchanged(pending) THEN UNCHANGED <<storage, screen>> ELSE DisplayPhoto(pending)
    /\ UNCHANGED <<pending, rtc>>

AutoAdvance ==
    /\ Using("auto") /\ ~DividesByZero("auto")
    /\ current' = IndexFor("auto")
    /\ pending' = IndexFor("auto")
    /\ DisplayPhoto(IndexFor("auto"))
    /\ UNCHANGED <<needs, rtc>>

PageShown == Using("page") /\ UNCHANGED <<indices, storage, screen>>

-----------------------------------------------------------------------------
(* The HTTP server's task *)

Serving == power = "on" /\ scan["http"].pc = "idle"

\* h_photos_upload of a new name, h_photos_delete of an old one.
AddOrDelete(p) ==
    /\ Serving /\ Change
    /\ storage' = MountedToApp(storage, card)
    /\ Visible(storage')
    /\ album' = [album EXCEPT ![storage.disk] = IF p \in @ THEN @ \ {p} ELSE @ \cup {p}]
    /\ UNCHANGED <<slot, media, photos, power, screen, faults>>

\* h_photos_display, and the end of upload_display and of h_push_display.
Display(p) ==
    /\ Serving /\ Change
    /\ Render(p)
    /\ p \in Shown(storage')
    /\ Starts("http", "path", p)
    /\ UNCHANGED <<slot, album, media, indices, power, faults>>

\* The loop of displayPhotoByPath reads the size again before every element.
FindPath ==
    LET p == scan["http"].path
        found == {i \in 1..Len(list) : list[i] = p}
    IN  /\ scan["http"].pc = "use"
        /\ IF found = {} THEN UNCHANGED <<current, pending>>
           ELSE /\ current' = Min(found) - 1
                /\ pending' = Min(found) - 1
        /\ scan' = [scan EXCEPT !["http"] = Idle]
        /\ UNCHANGED <<storage, slot, album, media, list, needs, rtc, power, screen,
                       touched, counts>>

-----------------------------------------------------------------------------
(* Power *)

\* init and start, before the tasks run.
Boot ==
    /\ power = "off" /\ Change
    /\ power' = "on"
    /\ \E o \in Selected :
        /\ Within(o.failures)
        /\ storage' = o.storage
        /\ seated' = (o.storage.disk = "sd")
        /\ locked' = o.locked /\ failed' = (o.locked \/ ~o.ok)
        /\ list' = IF o.storage.disk = NoDisk THEN <<>>
                   ELSE InOrder(album[o.storage.disk])
    /\ lastSd' = Inserted
    /\ pending' = IF list' = <<>> THEN NoPhoto ELSE rtc
    /\ UNCHANGED <<card, album, current, needs, rtc, scan, screen, touched>>

\* An RTC wake: init, runOneShotRefresh and the power-off after it.
WakeShow ==
    /\ power = "off"
    /\ \E o \in Selected :
        /\ Within(o.failures)
        /\ LET photosThere == IF o.storage.disk = NoDisk THEN <<>>
                              ELSE InOrder(album[o.storage.disk])
               n == Len(photosThere)
           IN  IF n = 0 THEN UNCHANGED <<rtc, screen>>
               ELSE LET next == (Wrapped(rtc, n) + 1) % n
                    IN  rtc' = next /\ screen' = photosThere[next + 1]
    /\ UNCHANGED <<storage, slot, album, media, list, current, pending, needs, scan,
                   power, touched, changes>>

RamLost ==
    /\ power' = "off"
    /\ storage' = Fresh /\ seated' = FALSE
    /\ lastSd' = FALSE /\ locked' = FALSE /\ failed' = FALSE
    /\ list' = <<>> /\ current' = NoPhoto /\ pending' = NoPhoto /\ needs' = FALSE
    /\ scan' = [t \in Tasks |-> Idle] /\ touched' = FALSE
    /\ UNCHANGED <<card, album, rtc, screen, faults>>

PowerOff == power = "on" /\ Change /\ RamLost

\* What an index out of range may do, and two tasks inside one vector.
Misread == /\ scan["app"].pc = "use" /\ scan["app"].for # "page"
           /\ ~InRange(scan["app"].for)
Racing == \A t \in Tasks : scan[t].pc # "idle"

Panic == (Misread \/ Racing) /\ RamLost /\ UNCHANGED changes

-----------------------------------------------------------------------------
(* The world: the card slot and a USB host *)

CardChanges(c) ==
    /\ Change
    /\ c # card /\ "none" \in {c, card}
    /\ card' = c /\ seated' = FALSE
    /\ UNCHANGED <<storage, album, media, photos, power, screen, faults>>

HostMounts ==
    /\ Change
    /\ storage.driver /\ storage.mount = "app"
    /\ storage' = MountedByHost(storage)
    /\ UNCHANGED <<slot, album, media, photos, power, screen, faults>>

HostSuspends ==
    /\ storage.driver /\ storage.mount = "usb"
    /\ storage' = MountedToApp(storage, card)
    /\ UNCHANGED <<slot, album, media, photos, power, screen, counts>>

Buttons == {"next", "prev"}

Next ==
    \/ \E op \in Buttons \cup {"settle", "auto", "none"} : Pass(op)
    \/ ShowPage
    \/ \E t \in Tasks : Fill(t) \/ Sort(t)
    \/ \E op \in Buttons : Turn(op)
    \/ Settle \/ AutoAdvance \/ PageShown
    \/ \E p \in Photos : AddOrDelete(p) \/ Display(p)
    \/ FindPath
    \/ Boot \/ WakeShow \/ PowerOff \/ Panic
    \/ \E c \in Cards : CardChanges(c)
    \/ HostMounts \/ HostSuspends

(* The loop passes again and again, RTC alarms fire, the interval elapses, *)
(* and a scan that has begun ends.                                         *)
Fairness ==
    /\ \A op \in {"settle", "auto", "none"} : WF_vars(Pass(op))
    /\ \A t \in Tasks : WF_vars(Fill(t) \/ Sort(t))
    /\ WF_vars((\E op \in Buttons : Turn(op)) \/ Settle \/ AutoAdvance \/ PageShown
               \/ (Misread /\ Panic))
    /\ WF_vars(FindPath)
    /\ WF_vars(WakeShow)

Spec == Init /\ [][Next]_vars
FairSpec == Spec /\ Fairness

-----------------------------------------------------------------------------
(* Type correctness: an index is NoPhoto or what sixteen bits hold. *)
TypeOK ==
    /\ storage \in Contexts /\ card \in Cards
    /\ {seated, lastSd, locked, failed, needs, touched} \subseteq BOOLEAN
    /\ album \in [Media -> SUBSET Photos]
    /\ list \in Seq(Photos)
    /\ {current, pending, rtc} \subseteq 0..65535
    /\ \A t \in Tasks : scan[t].pc \in {"idle", "fill", "sort", "use"}
    /\ power \in {"on", "off"} /\ screen \in Photos \cup {Page}
    /\ changes \in 0..MaxChanges /\ faults \in 0..MaxFaults

(* However a start or a switch of the storage ended (hal_storage.cpp), the *)
(* only medium whose driver is up is the one behind the TinyUSB object, and *)
(* that is the one the slideshow is told of.                               *)
NoDriverLeft ==
    /\ storage.open = {storage.disk} \ {NoDisk}
    /\ storage.disk # NoDisk => storage.media = storage.disk
    /\ InUse(storage) => storage.disk # NoDisk

(* The app task reads _photo_list within its bounds and never divides by a *)
(* size of zero (the comment at local_photo_slideshow.cpp:172), unless the *)
(* HTTP server touched the list since the scan, or a change of medium reset *)
(* the pending index under a refresh that was waiting.                     *)
ListReadInRange ==
    Misread => \/ touched
               \/ scan["app"].for = "settle" /\ pending = NoPhoto

(* ensureStorageMedia follows the slot: without a card the flash comes to   *)
(* serve, with a good card the card, unless a switch failed since the slot  *)
(* was last seen empty, or a failed start left nothing mounted under the    *)
(* very medium that is wanted, which is never tried again.                 *)
Home == [none |-> "flash", good |-> "sd"]
GivenUp(c) == storage.disk = NoDisk /\ storage.media = Home[c]

FollowsTheCard ==
    \A c \in {"none", "good"} :
        power = "on" /\ card = c ~>
            \/ storage.disk = Home[c] \/ GivenUp(c)
            \/ power = "off" \/ card # c \/ failed

(* Left alone, the slideshow and the low-power wakes go round: a photo that *)
(* stays on the medium in use is shown again and again, whatever buttons,   *)
(* requests and changes of medium came before.                             *)
OnDisplay(p) ==
    IF power = "on" THEN p \in Shown(MountedToApp(storage, card))
    ELSE p \in album[IF card = "good" THEN "sd" ELSE "flash"]

EveryPhotoShown == \A p \in Photos : <>[]OnDisplay(p) => []<>(screen = p)
=============================================================================
