--------------------------- MODULE ScheduledPush ---------------------------
(***************************************************************************)
(* The device's push engine (main/apps/scheduled_push/scheduled_push.cpp): *)
(* sync_now, display_due_cached and what they keep on the SD card and in   *)
(* NVS.  One task runs them; a step here ends at a network call, a write   *)
(* to flash or a refresh of the panel, and power may go between any two    *)
(* steps.  The manifest file is the register with the generation before it *)
(* that ManifestFile implements; a missing file counts as a manifest with  *)
(* nothing in it.                                                          *)
(*                                                                         *)
(* The gateway's part is a parameter: an action takes what the gateway     *)
(* answered.  Environment below answers anything; Delivery composes this   *)
(* module with JobStore.                                                   *)
(***************************************************************************)
EXTENDS SchedulePolicy

CONSTANTS
    Cards,       \* job ids; a card's asset is named by its id
    Pulses,      \* pulse generations; one stands for its three page assets
    None,        \* no card, no generation, an empty screen, an unloaded manifest
    Wait,        \* DISPLAY_WAKE_WAIT_SECONDS
    Offered,     \* the manifests the gateway may answer with
    MaxTime      \* bound: the RTC stops here

ASSUME NoneIsNothing == None \notin Cards \cup Pulses
ASSUME AssetNamesDiffer == Cards \cap Pulses = {}

VARIABLES
    now,         \* the RTC, which a sync sets from the gateway's time
    pc,          \* where the app task is, "off" without power
    disk,        \* the manifest a power cycle brings back
    older,       \* the one before it, in the backup file
    ram,         \* g_manifest, None when not loaded
    incoming,    \* the manifest being installed by sync_now
    cache,       \* the assets on the SD card that match their digest
    slot,        \* the pending acknowledgement in NVS (gw_ack_id), or None
    screen,      \* the card or generation the panel shows
    rtcWake,     \* isRtcWakeBoot
    deferred,    \* g_next_display_attempt_ms lies in the future
    changed,     \* pulse_changed of the running sync_now
    syncing,     \* display_due_cached was called by sync_now
    due          \* the job display_due_cached selected, and when, or None

vars == <<now, pc, disk, older, ram, incoming, cache, slot, screen, rtcWake,
          deferred, changed, syncing, due>>

Windows == [id : Cards, display : Int, expires : Int, displayed : BOOLEAN]

Manifest == [jobs : Seq(Windows), pulse : Pulses \cup {None}]

Picked == [card : Cards, at : Int]

ASSUME NoneIsNoManifest == None \notin Manifest
ASSUME NoneIsNotPicked == None \notin Picked
ASSUME OfferedAreManifests == Offered \subseteq Manifest

NoManifest == [jobs |-> <<>>, pulse |-> None]

Ids(jobs) == {jobs[i].id : i \in DOMAIN jobs}

\* The assets a manifest refers to.
Assets(m) == Ids(m.jobs) \cup ({m.pulse} \ {None})

Init ==
    /\ now = 1
    /\ pc = "off"
    /\ disk = NoManifest /\ older = NoManifest /\ ram = None /\ incoming = None
    /\ cache = {}
    /\ slot = None /\ screen = None
    /\ rtcWake = FALSE /\ deferred = FALSE /\ changed = FALSE /\ syncing = FALSE
    /\ due = None

\* write_manifest moves the manifest on the card to the backup.
Write(m) == disk' = m /\ older' = disk

WriteFails == disk' = disk /\ older' \in {older, NoManifest}

\* load_manifest when the card can be read.
Load == ram' = disk /\ UNCHANGED <<disk, older>>

\* A good file cannot be read: the backup is used, and put in the place of the
\* newer manifest if the card lets it, or nothing is loaded.
LoadMisreads ==
    \/ ram' = older /\ disk' = older /\ older' = NoManifest
    \/ ram' \in {older, NoManifest} /\ UNCHANGED <<disk, older>>

-----------------------------------------------------------------------------
(* Power *)

Starts(byRtc) ==
    /\ pc = "off"
    /\ pc' = "idle"
    /\ rtcWake' = byRtc
    /\ deferred' = FALSE
    /\ UNCHANGED <<now, incoming, cache, slot, screen, changed, syncing, due>>

Boot(byRtc) == Starts(byRtc) /\ Load

BootMisreads(byRtc) == Starts(byRtc) /\ LoadMisreads

\* schedule_next_wake_and_power_off at the end of a cycle, or the battery goes.
PowerLoss ==
    /\ pc # "off"
    /\ pc' = "off"
    /\ ram' = None /\ incoming' = None /\ due' = None
    /\ changed' = FALSE /\ syncing' = FALSE /\ deferred' = FALSE
    /\ UNCHANGED <<now, disk, older, cache, slot, screen, rtcWake>>

-----------------------------------------------------------------------------
(* display_due_cached *)

\* Its caller goes on: sync_now with the pulse page or its last acknowledgement,
\* the app task with its loop.
ReturnDisplayed == pc' = IF syncing THEN "final_ack" ELSE "idle"

\* Mutant: sync_now forgets the new pages.
ReturnForgetting == pc' = IF syncing THEN "final_ack" ELSE "idle"

ReturnNothingShown ==
    pc' = IF ~syncing THEN "idle" ELSE IF changed THEN "show_pulse" ELSE "final_ack"

\* The app task's own call.
CheckDue ==
    /\ pc = "idle"
    /\ ~deferred
    /\ pc' = "select"
    /\ UNCHANGED <<now, disk, older, ram, incoming, cache, slot, screen, rtcWake,
                   deferred, changed, syncing, due>>

\* Nothing is due, and no card that this alarm woke the device for is near.
NothingDue ==
    /\ pc \in {"select", "select_again"}
    /\ SelectDue(ram.jobs, now) = 0
    /\ \/ pc = "select_again" \/ ~rtcWake
       \/ SelectImminent(ram.jobs, now, Wait) = 0
    /\ ReturnNothingShown
    /\ UNCHANGED <<now, disk, older, ram, incoming, cache, slot, screen, rtcWake,
                   deferred, changed, syncing, due>>

\* After an RTC wake the task sleeps until the imminent card is due.
AwaitImminent ==
    /\ pc = "select" /\ rtcWake
    /\ SelectDue(ram.jobs, now) = 0
    /\ SelectImminent(ram.jobs, now, Wait) # 0
    /\ pc' = "await"
    /\ UNCHANGED <<now, disk, older, ram, incoming, cache, slot, screen, rtcWake,
                   deferred, changed, syncing, due>>

WaitOver ==
    /\ pc = "await"
    /\ SelectDue(ram.jobs, now) # 0 \/ SelectImminent(ram.jobs, now, Wait) = 0
    /\ pc' = "select_again"
    /\ UNCHANGED <<now, disk, older, ram, incoming, cache, slot, screen, rtcWake,
                   deferred, changed, syncing, due>>

\* The due card is chosen by the time read now.
FindDue ==
    LET selected == SelectDue(ram.jobs, now)
    IN  /\ pc \in {"select", "select_again"}
        /\ selected # 0
        /\ due' = [card |-> ram.jobs[selected].id, at |-> now]
        /\ pc' = "refresh"
        /\ UNCHANGED <<now, disk, older, ram, incoming, cache, slot, screen, rtcWake,
                       deferred, changed, syncing>>

\* The digest of the asset is checked, the storage lock awaited and the panel
\* refreshed, which takes its time; then the card and the older ones that were
\* due with it are settled in RAM.
ShowCard ==
    LET selected == SelectDue(ram.jobs, due.at)
    IN  /\ pc = "refresh"
        /\ due.card \in cache
        /\ screen' = due.card
        /\ ram' = IF selected = 0 THEN ram
                  ELSE [ram EXCEPT !.jobs =
                           [SuppressOlder(@, selected, due.at) EXCEPT
                               ![selected].displayed = TRUE]]
        /\ due' = None
        /\ pc' = "persist"
        /\ UNCHANGED <<now, disk, older, incoming, cache, slot, rtcWake, deferred,
                       changed, syncing>>

\* The cached asset is unavailable or the panel refuses it.
ShowFails ==
    /\ pc = "refresh"
    /\ due' = None
    /\ deferred' = TRUE
    /\ ReturnNothingShown
    /\ UNCHANGED <<now, disk, older, ram, incoming, cache, slot, screen, rtcWake,
                   changed, syncing>>

AssetMissing == pc = "refresh" /\ due.card \notin cache /\ ShowFails

\* write_manifest; a failure leaves the flags in RAM only.
PersistDisplayed(ok) ==
    /\ pc = "persist"
    /\ IF ok THEN Write(ram) ELSE WriteFails
    /\ pc' = "save_ack"
    /\ deferred' = FALSE
    /\ UNCHANGED <<now, ram, incoming, cache, slot, screen, rtcWake, changed,
                   syncing, due>>

\* The one slot is overwritten.
SaveAck(ok) ==
    /\ pc = "save_ack"
    /\ slot' = IF ok THEN screen ELSE slot
    /\ ReturnDisplayed
    /\ UNCHANGED <<now, disk, older, ram, incoming, cache, screen, rtcWake, deferred,
                   changed, syncing, due>>

RetryElapsed ==
    /\ deferred /\ pc = "idle"
    /\ deferred' = FALSE
    /\ UNCHANGED <<now, pc, disk, older, ram, incoming, cache, slot, screen, rtcWake,
                   changed, syncing, due>>

-----------------------------------------------------------------------------
(* sync_now *)

StartSync ==
    /\ pc = "idle"
    /\ pc' = "first_ack"
    /\ syncing' = TRUE
    /\ UNCHANGED <<now, disk, older, ram, incoming, cache, slot, screen, rtcWake,
                   deferred, changed, due>>

EndSync == /\ pc' = "idle" /\ syncing' = FALSE /\ changed' = FALSE
           /\ incoming' = None

\* send_pending_ack, called first and last.  Only a 2xx answer empties the slot;
\* the first call's result is ignored.
SendAck(accepted) ==
    /\ pc \in {"first_ack", "final_ack"}
    /\ slot' = IF accepted THEN None ELSE slot
    /\ IF pc = "first_ack"
       THEN pc' = "fetch" /\ UNCHANGED <<incoming, changed, syncing>>
       ELSE EndSync
    /\ UNCHANGED <<now, disk, older, ram, cache, screen, rtcWake, deferred, due>>

\* No manifest, one that parse_manifest rejects, one larger than the device
\* takes among them, or an RTC that cannot be set.
FetchFails ==
    /\ pc = "fetch"
    /\ EndSync
    /\ UNCHANGED <<now, disk, older, ram, cache, slot, screen, rtcWake, deferred, due>>

\* Mutants of Carried: the flags are not carried over, or by position.
CarriedNot(jobs) == jobs

CarriedByPosition(jobs) ==
    [i \in DOMAIN jobs |->
        [jobs[i] EXCEPT !.displayed =
            i \in DOMAIN ram.jobs /\ ram.jobs[i].displayed]]

\* parse_manifest keeps the displayed flags of the jobs it already knew.
Carried(jobs) ==
    [i \in DOMAIN jobs |->
        [jobs[i] EXCEPT !.displayed =
            \E k \in DOMAIN ram.jobs : /\ ram.jobs[k].id = jobs[i].id
                                       /\ ram.jobs[k].displayed]]

SortedByDisplay(jobs) ==
    \A i, k \in DOMAIN jobs : i < k => jobs[i].display <= jobs[k].display

\* The answer's jobs, sorted by display time, without those already expired.
Fetched(m) ==
    /\ pc = "fetch"
    /\ SortedByDisplay(m.jobs)
    /\ incoming' = [m EXCEPT !.jobs = Unexpired(Carried(@), now)]
    /\ pc' = "download"
    /\ UNCHANGED <<now, disk, older, ram, cache, slot, screen, rtcWake, deferred, changed,
                   syncing, due>>

\* Mutant of Missing: the pulse pages are not downloaded.
MissingCards == Ids(incoming.jobs) \ cache

Missing == Assets(incoming) \ cache

Download(asset) ==
    /\ pc = "download"
    /\ asset \in Missing
    /\ cache' = cache \cup {asset}
    /\ UNCHANGED <<now, pc, disk, older, ram, incoming, slot, screen, rtcWake, deferred,
                   changed, syncing, due>>

DownloadFails ==
    /\ pc = "download"
    /\ Missing # {}
    /\ EndSync
    /\ UNCHANGED <<now, disk, older, ram, cache, slot, screen, rtcWake, deferred, due>>

\* write_manifest(incoming), then the swap of g_manifest.
Install ==
    /\ pc = "download"
    /\ Missing = {}
    /\ Write(incoming) /\ ram' = incoming
    /\ changed' = (incoming.pulse # ram.pulse)
    /\ incoming' = None
    /\ pc' = "cleanup"
    /\ UNCHANGED <<now, cache, slot, screen, rtcWake, deferred, syncing, due>>

InstallFails ==
    /\ pc = "download"
    /\ Missing = {}
    /\ WriteFails
    /\ EndSync
    /\ UNCHANGED <<now, ram, cache, slot, screen, rtcWake, deferred, due>>

\* cleanup_unreferenced_assets: a remove may fail.
Cleanup(removed) ==
    /\ pc = "cleanup"
    /\ removed \subseteq cache \ Assets(ram)
    /\ cache' = cache \ removed
    /\ deferred' = FALSE
    /\ pc' = "select"
    /\ UNCHANGED <<now, disk, older, ram, incoming, slot, screen, rtcWake, changed,
                   syncing, due>>

\* show_current_pulse, only when no card was shown and the pages changed.
ShowPulse(ok) ==
    /\ pc = "show_pulse"
    /\ screen' = IF ok /\ ram.pulse \in cache THEN ram.pulse ELSE screen
    /\ pc' = "final_ack"
    /\ UNCHANGED <<now, disk, older, ram, incoming, cache, slot, rtcWake, deferred,
                   changed, syncing, due>>

-----------------------------------------------------------------------------
\* The steps of the task that need no answer from the gateway, when the panel,
\* the SD card and NVS do what they are told.
Progress ==
    \/ \E byRtc \in BOOLEAN : Boot(byRtc)
    \/ CheckDue \/ NothingDue \/ AwaitImminent \/ WaitOver
    \/ FindDue \/ ShowCard \/ AssetMissing \/ PersistDisplayed(TRUE) \/ SaveAck(TRUE)
    \/ RetryElapsed \/ StartSync
    \/ \E asset \in Cards \cup Pulses : Download(asset)
    \/ Install \/ Cleanup(cache \ Assets(ram)) \/ ShowPulse(TRUE)

\* One of them refuses, or a download does not arrive.
Failure ==
    \/ \E byRtc \in BOOLEAN : BootMisreads(byRtc)
    \/ ShowFails \/ PersistDisplayed(FALSE) \/ SaveAck(FALSE)
    \/ DownloadFails \/ InstallFails \/ ShowPulse(FALSE)
    \/ \E removed \in SUBSET cache : Cleanup(removed)

Tick == /\ now < MaxTime
        /\ now' = now + 1
        /\ UNCHANGED <<pc, disk, older, ram, incoming, cache, slot, screen, rtcWake, deferred,
                       changed, syncing, due>>

\* A gateway that answers anything, or nothing.
Environment ==
    \/ FetchFails
    \/ \E m \in Offered : Fetched(m)
    \/ \E accepted \in BOOLEAN : SendAck(accepted)

Next == Progress \/ Failure \/ PowerLoss \/ Tick \/ Environment

Spec == Init /\ [][Next]_vars

-----------------------------------------------------------------------------
(* Properties *)

Steps == {"off", "idle", "select", "await", "select_again", "refresh",
          "persist", "save_ack", "first_ack", "fetch", "download", "cleanup",
          "show_pulse", "final_ack"}

\* Every variable stays in its type, and g_manifest is loaded while the task runs.
TypeOK ==
    /\ now \in Int
    /\ pc \in Steps
    /\ {disk, older} \subseteq Manifest
    /\ ram \in Manifest \cup {None} /\ (ram = None <=> pc = "off")
    /\ incoming \in Manifest \cup {None} /\ (incoming # None <=> pc = "download")
    /\ cache \subseteq Cards \cup Pulses
    /\ slot \in Cards \cup {None}
    /\ screen \in Cards \cup Pulses \cup {None}
    /\ {rtcWake, deferred, changed, syncing} \subseteq BOOLEAN
    /\ due \in Picked \cup {None} /\ (due # None <=> pc = "refresh")

\* Every asset that the persisted manifest or the one in RAM refers to is on
\* the SD card.
AssetsPresent ==
    /\ Assets(disk) \subseteq cache
    /\ ram # None => Assets(ram) \subseteq cache

Settled(m) == {m.jobs[i].id : i \in {k \in DOMAIN m.jobs : m.jobs[k].displayed}}
=============================================================================
