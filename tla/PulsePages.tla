----------------------------- MODULE PulsePages -----------------------------
(***************************************************************************)
(* ScheduledPush with the two things other hands do to its state: the      *)
(* buttons that turn the three pages of a pulse generation, between two    *)
(* steps of the app task's loop, and the factory reset of the HTTP         *)
(* server's task (app_manager_factory_reset_machine, reset_state), which   *)
(* runs beside whatever the app task is doing and takes no lock but the    *)
(* storage's.                                                              *)
(*                                                                         *)
(* The reset ends with the power off; the device is then set up again, for *)
(* a gateway that may answer anything.  A page that cannot be shown turns  *)
(* the button to the next local photo (LocalPhotos).                       *)
(*                                                                         *)
(* Left out: what else than its old content the memory of the jobs may     *)
(* hold once the reset has freed them, while display_due_cached still      *)
(* refers to one.                                                          *)
(***************************************************************************)
EXTENDS ScheduledPush

CONSTANT MaxResets   \* bound

ASSUME ResetsAreCounted == MaxResets \in Nat

VARIABLES
    page,      \* g_pulse_page_index
    loaded,    \* g_manifest_loaded
    had,       \* assets that sync_now found or fetched before a reset removed them
    reset,     \* the last step of a factory reset under way
    resets,    \* how many were begun, at most MaxResets
    failed,    \* what the reset under way failed to remove, "files" or "ack"
    missed,    \* history: a new generation was installed and could not be drawn
    beside,    \* history: the app task was in the push engine during that reset
    torn,      \* history: files were removed since a manifest was last installed
    reverted   \* history: the newest manifest was passed over since then

task == <<page, loaded, had>>
history == <<failed, missed, beside, torn, reverted>>
pagesVars == <<vars, task, reset, resets, history>>

PageCount == 3

Busy == pc \notin {"off", "idle"}

PagesInit ==
    /\ Init
    /\ page = 0 /\ loaded = FALSE /\ had = {}
    /\ reset = "no" /\ resets = 0
    /\ failed = {}
    /\ missed = FALSE /\ beside = FALSE /\ torn = FALSE /\ reverted = FALSE

-----------------------------------------------------------------------------
(* The app task *)

\* A new generation is missed when its turn, or the power, ends without it on
\* the panel, or when the newest manifest is passed over, until something else
\* is drawn.
Missed == \/ reverted'
          \/ missed /\ screen' = screen /\ pc # "show_pulse"
          \/ changed /\ (pc = "show_pulse" \/ pc' = "off") /\ screen' # ram.pulse

Installs == pc = "download" /\ pc' = "cleanup"

\* An installed generation that differs starts at its first page, as does a
\* device that starts.
Engine(step) ==
    /\ step
    /\ page' = IF pc = "off" \/ (Installs /\ changed') THEN 0 ELSE page
    /\ loaded' = (loaded \/ pc = "off" \/ Installs)
    /\ had' = IF pc' = "download" THEN had ELSE {}
    /\ beside' = (beside \/ (reset # "no" /\ pc' \notin {"off", "idle"}))
    /\ torn' = (torn /\ ~(Installs /\ reset = "no"))
    /\ reverted' = \/ reverted /\ ~Installs
                   \/ pc = "off" /\ ~Load
    /\ missed' = Missed
    /\ UNCHANGED <<reset, resets, failed>>

\* display_due_cached and sync_now begin with ensure_manifest_loaded.
Step == Engine(/\ pc = "idle" => loaded
               /\ reset = "no" \/ pc # "off"
               /\ Progress \/ Failure \/ Environment)

\* sync_now does not look again at an asset that it found or fetched.
InstallUnaware ==
    Engine(/\ pc = "download" /\ Missing # {}
           /\ Missing \subseteq had
           /\ Write(incoming) /\ ram' = incoming
           /\ changed' = (incoming.pulse # ram.pulse)
           /\ incoming' = None
           /\ pc' = "cleanup"
           /\ UNCHANGED <<now, cache, slot, screen, rtcWake, deferred, syncing, due>>)

\* A manifest that a reset dropped is read from the card at the next call, which
\* display_due_cached and show_current_pulse make within a sync as well.
Reload ==
    /\ pc \in {"idle", "select", "show_pulse"} /\ ~loaded
    /\ Load \/ LoadMisreads
    /\ loaded' = TRUE
    /\ reverted' = (reverted \/ ~Load)
    /\ UNCHANGED <<now, pc, incoming, cache, slot, screen, rtcWake, deferred, changed,
                   syncing, due, page, had, reset, resets, failed, beside, torn>>
    /\ missed' = Missed

\* show_next_pulse and show_previous_pulse: the index moves when the page has
\* been drawn.
TurnPage(step) ==
    /\ pc = "idle" /\ loaded
    /\ ram.pulse # None /\ ram.pulse \in cache
    /\ screen' = ram.pulse
    /\ page' = (page + step) % PageCount
    /\ missed' = reverted
    /\ UNCHANGED <<now, pc, disk, older, ram, incoming, cache, slot, rtcWake, deferred,
                   changed, syncing, due, loaded, had, reset, resets, failed, beside,
                   torn, reverted>>

Cut ==
    /\ PowerLoss
    /\ page' = 0 /\ loaded' = FALSE /\ had' = {}
    /\ reset' = "no" /\ failed' = {} /\ beside' = FALSE
    /\ UNCHANGED <<resets, torn, reverted>>
    /\ missed' = Missed

TimePasses == Tick /\ UNCHANGED <<task, reset, resets, history>>

-----------------------------------------------------------------------------
(* The factory reset *)

\* What removing the files of CACHE_DIR one by one leaves when some of them, the
\* manifest and its backup among them, cannot be removed, or are not yet.
PartlyRemoved ==
    /\ cache' \in SUBSET cache
    /\ \/ disk' \in {disk, NoManifest} /\ older' \in {older, NoManifest}
       \/ disk' = older /\ older' = NoManifest
    /\ reverted' = (reverted \/ disk' \notin {disk, NoManifest})

\* They are removed under the storage lock; a directory that does not open and
\* a file that stays are passed over.
RemoveFiles(ok) ==
    /\ pc # "off" /\ reset = "no" /\ resets < MaxResets
    /\ reset' = "files" /\ resets' = resets + 1
    /\ IF ok THEN /\ cache' = {} /\ disk' = NoManifest /\ older' = NoManifest
                  /\ reverted' = reverted
             ELSE PartlyRemoved
    /\ failed' = IF ok THEN {} ELSE {"files"}
    /\ had' = IF pc = "download" THEN cache ELSE {}
    /\ beside' = Busy
    /\ torn' = TRUE
    /\ missed' = (missed \/ reverted')
    /\ UNCHANGED <<now, pc, ram, incoming, slot, screen, rtcWake, deferred, changed,
                   syncing, due, page, loaded>>

\* Power is lost before the last file is removed.
CutWhileRemoving ==
    /\ pc # "off" /\ reset = "no" /\ resets < MaxResets
    /\ resets' = resets + 1
    /\ PartlyRemoved
    /\ pc' = "off"
    /\ ram' = None /\ incoming' = None /\ due' = None
    /\ changed' = FALSE /\ syncing' = FALSE /\ deferred' = FALSE
    /\ page' = 0 /\ loaded' = FALSE /\ had' = {}
    /\ missed' = (missed \/ reverted' \/ (changed /\ screen # ram.pulse))
    /\ torn' = TRUE
    /\ UNCHANGED <<now, slot, screen, rtcWake, reset, failed, beside>>

\* Mutant: the erased keys are not committed.
EraseAckUncommitted(ok) ==
    /\ reset = "files"
    /\ reset' = "ack"
    /\ failed' = IF ok THEN failed ELSE failed \cup {"ack"}
    /\ UNCHANGED <<vars, task, resets, missed, beside, torn, reverted>>

\* Skipped when NVS does not open.
EraseAck(ok) ==
    /\ reset = "files"
    /\ reset' = "ack"
    /\ slot' = IF ok THEN None ELSE slot
    /\ failed' = IF ok THEN failed ELSE failed \cup {"ack"}
    /\ UNCHANGED <<now, pc, disk, older, ram, incoming, cache, screen, rtcWake, deferred,
                   changed, syncing, due, task, resets, missed, beside, torn, reverted>>

ClearRam ==
    /\ reset = "ack"
    /\ reset' = "ram"
    /\ ram' = NoManifest /\ loaded' = FALSE /\ page' = 0
    /\ deferred' = FALSE
    /\ UNCHANGED <<now, pc, disk, older, incoming, cache, slot, screen, rtcWake, changed,
                   syncing, due, had, resets, history>>

\* The settings are saved, the boot guide is drawn and the power goes off.
ResetEnds ==
    /\ reset = "ram"
    /\ reset' = "ended"
    /\ pc' = "off"
    /\ ram' = None /\ incoming' = None /\ due' = None
    /\ changed' = FALSE /\ syncing' = FALSE /\ deferred' = FALSE
    /\ screen' = None
    /\ page' = 0 /\ loaded' = FALSE /\ had' = {}
    /\ missed' = reverted
    /\ UNCHANGED <<now, disk, older, cache, slot, rtcWake, resets, failed, beside, torn,
                   reverted>>

\* Somebody sets the device up again.
SetUp ==
    /\ reset = "ended"
    /\ reset' = "no" /\ failed' = {} /\ beside' = FALSE
    /\ UNCHANGED <<vars, task, resets, missed, torn, reverted>>

ResetStep ==
    \/ \E ok \in BOOLEAN : RemoveFiles(ok) \/ EraseAck(ok)
    \/ CutWhileRemoving \/ ClearRam \/ ResetEnds \/ SetUp

PagesNext ==
    \/ Step \/ InstallUnaware \/ Reload
    \/ \E step \in {1, PageCount - 1} : TurnPage(step)
    \/ Cut \/ TimePasses
    \/ ResetStep

PagesSpec == PagesInit /\ [][PagesNext]_pagesVars

-----------------------------------------------------------------------------
(* Properties *)

\* Every variable stays in its type, the page among the three.
PagesTypeOK ==
    /\ TypeOK
    /\ page \in 0..PageCount - 1
    /\ had \subseteq Cards \cup Pulses
    /\ reset \in {"no", "files", "ack", "ram", "ended"}
    /\ resets \in 0..MaxResets
    /\ failed \subseteq {"files", "ack"}
    /\ {loaded, missed, beside, torn, reverted} \subseteq BOOLEAN

\* Whatever is written or downloaded in vain and wherever power goes, every asset
\* that the persisted manifest or the one in RAM refers to is on the SD card, so
\* that it can be shown without the network: a generation is installed only after
\* its downloads and the cleanup spares it (scheduled_push.cpp:970-1000).  Only a
\* factory reset, or a load that cannot read the newest manifest and takes the one
\* before it (679-708), may break this, until the next installation.
AssetsKept == torn \/ reverted \/ AssetsPresent

\* A card shown or suppressed is not forgotten while the gateway still lists
\* it: from one persisted manifest to the next its flag stays, although the
\* gateway's answer carries no flags and was parsed before the downloads
\* (scheduled_push.cpp:612-615, 962, 1000), unless a reset or an unreadable
\* manifest took the flag away.
SettledKept ==
    [][torn' \/ reverted \/ reverted'
         \/ Settled(disk) \cap Ids(disk'.jobs) \subseteq Settled(disk')]_pagesVars

\* While the device idles with a generation installed the panel shows no other,
\* through buttons, cards, restarts and resets cut short or not, unless the
\* generation could not be drawn when it was installed, or its manifest could not
\* be read (scheduled_push.cpp:985-1008).
ScreenKeepsUp ==
    pc = "idle" /\ screen \in Pulses /\ ram.pulse # None =>
        screen = ram.pulse \/ missed

\* A factory reset that ended left nothing of the former gateway's cards and
\* pages for the next owner, unless a file could not be removed, and nothing of
\* its acknowledgements, unless NVS did not open; each part is done whether or
\* not the other failed.  Only an app task that was displaying or synchronizing
\* meanwhile may bring some of it back (scheduled_push.cpp:817-843).
ResetForgets ==
    reset = "ended" /\ ~beside =>
        /\ "files" \in failed \/ (disk = NoManifest /\ older = NoManifest /\ cache = {})
        /\ "ack" \in failed \/ slot = None
=============================================================================
