# PaperColor Pulse: TLA+ models, checks and proofs

PaperColor Pulse is an e-paper frame (ESP32-S3 firmware under `main/`) that pulls
cards and status pages from a self-hosted gateway (Python under `gateway/`).  The
device spends most of its life powered off: an RTC alarm wakes it, it shows what is
due, synchronises over WiFi and switches itself off again.  The hard parts are not
the pixels but the protocol: what survives a power cut between two file renames,
which of two cards is shown when, what the gateway believes was shown, and whether
a sleeping board wakes in time.  That is what this directory models.

Paths below are relative to the repository root (`main/...`, `gateway/...`); in
`PROJECT.json` and in comments line numbers refer to the same files.

## 1. Inventory

| Component | State it keeps | Operations | Interacts through | Hard behaviour | What makes it correct |
|---|---|---|---|---|---|
| Scheduling policy (`scheduled_push_policy.h`, `rtc_alarm_policy.h`, `schedule.py`) | none | select due / imminent card, suppress older, next sync, next wake, alarm minute | called by the push engine | ties, expiry boundaries, rounding to minutes | the backlog is worked off; no alarm after a card is due |
| Manifest file (`scheduled_push.cpp:459-708`) | `manifest.json`, `.bak`, `.tmp` | `write_manifest`, `load_manifest`, `restore_manifest_backup` | SD card, storage lock | power loss and failing file operations, reads included | a write is atomic; a load gives the newest generation up only if it cannot be read |
| Push engine (`scheduled_push.cpp`) | `g_manifest`, asset cache, acknowledgement slot in NVS, retry deadlines | `sync_now`, `display_due_cached`, page buttons, `reset_state` | HTTP to the gateway, panel, SD, NVS, RTC | crash between display, persist and acknowledge; failed downloads; a refresh that takes longer than the card's window | assets before manifest; a settled card stays settled |
| Card jobs (`store.py`, `app.py`, `models.py`) | tables `jobs`, `acknowledgements`, `metadata` | `show_card`, `build_manifest`, `acknowledge` | MCP calls, device requests | overlapping calls, expiry, idempotence | one immediate card; acknowledgements agree with states; bounded manifests |
| Low-power cycle (`app_manager.cpp`, `hal.cpp`) | RTC alarm, wake source, next sync | boot, sync, power off, stay on | push engine, PMIC | real time: work in progress while cards fall due | never sleeps past a cached card |
| Pulse updates (`pulse_service.py`, `pulse_models.py`, `store.py`) | tables `pulse_sources`, `pulse_generations` | update of a source, compose, render, activate | threads of the HTTP handlers | interleaved updates; facts stored before they are validated | newest facts published; sources isolated |
| App task (`app_manager.cpp:552-768`) | operation counter, refresh flag, button and voice state | one loop over display check, idle check, voice, buttons, sync, slideshow | HTTP server task, storage lock | check-then-act on the counter | operations balanced; no power-off in the middle of one |
| Storage lock and media (`hal_storage.cpp`) | mutex, `s_ctx`: medium, TinyUSB object, drivers | lock, unlock, init, switch, mount to app, lend to a USB host | every file user, slideshow, USB | a non-recursive lock held across loop iterations by a recording; a switch that fails half way | lock always released; the driver that is up is the one in use |
| Voice capture (`voice_capture.cpp`) | recording state, SD outbox | start, stream, stop, fail; upload and archive inside a sync | storage lock, microphone, gateway | self-deadlock; a bad file ends the upload loop | every recording ends; none leaves the outbox before the gateway has it |
| Voice pipeline (`store.py:228-329`, `app.py:284-320`, `voice_processor.py`) | table `voice_captures`, WAV files | store, claim, finish | device upload, transcribing processes on the same database | late and repeated requests; a body read in part; crash between file and row; a process that dies after its claim | no row without its file; what was answered for is kept; one transcriber per capture; captures settle |
| Pulse pages (`scheduled_push.cpp:786-873`, `pulse_page_policy.h`) | page index, `g_manifest.pulse` | next, previous, current page; `reset_state` | buttons, sync, factory reset on the HTTP task | a generation or a reset that replaces the pages under the index | the screen shows no former generation; a reset leaves nothing |
| Local slideshow (`local_photo_slideshow.cpp`) | `_photo_list`, current and pending index, index in the RTC's RAM, `_sd_fallback_locked` | `update`, buttons, `displayPhotoByPath`, choice of medium, one-shot refresh of a wake | app task and HTTP task without a lock, storage, card slot, USB host | two tasks in one vector; indices that outlive the list; cards pulled and inserted | list read in range; the card is followed; every photo has its turn |
| WiFi manager (`hal_wifi.cpp`, callers in `app_manager.cpp` and `app_server.cpp`) | mode, `_sta_connected`, `_sta_got_ip`, event bits; reconnection paused flag, AP timer | `connect`, `disconnect`, `setMode`, event handler; boot, reconnection, AP auto-off, settings page | driver events, one configuration and one event group for three callers | events that answer another caller's attempt; check-then-act on the paused flag; a mode change that drops the link | an answer is about its own attempt; back on the network in the end |
| Device web server (`app_server.cpp`) | handlers, connection state | photos, settings, WiFi, reset | app task, storage, slideshow, WiFi manager | runs beside `app_task` | guards balanced (AppTask); see the two rows above |
| Fetcher, renderers, configuration, Cloudflare worker, DNS server, board registers, tools | none that matters | - | - | - | - |

`PROJECT.json` lists the same components with their status, and the hazards
each at the line where it bites.

## 2. Modules

    SchedulePolicy          pure decisions, shared by all device modules
      PolicyLoops           the C++ loops, compared with SchedulePolicy
      ScheduledPush         sync_now / display_due_cached, crash by crash
        PulsePages          + page buttons, + the factory reset beside it
          PulsePagesProofs  TLAPS (ScheduledPush and PulsePages)
      WakeCycle             the same decisions in real time, with the alarm
    AtomicManifest          what the manifest cache promises
      ManifestFile          three files and renames, implements it
    PushEngineProofs        TLAPS (PolicyLoops, WakeCycle and ManifestFile)
    JobStore                the gateway's cards
      Delivery              JobStore + ScheduledPush + lossy requests
        DeliveryProofs      TLAPS (JobStore and Delivery)
    AppTask                 app_task's loop, recordings, HTTP task, lock, counter
      AppTaskProofs         TLAPS
    PulseService            concurrent Pulse updates
      PulseServiceProofs    TLAPS
    VoicePipeline           outbox, upload, table, transcribing processes
      VoicePipelineProofs   TLAPS
    StorageMedia            outcomes of init, switch and mount of the storage
      LocalPhotos           the slideshow of two tasks over it
        LocalPhotosProofs   TLAPS
    WifiLink                one driver, its late events, three callers
      WifiLinkProofs        TLAPS

`MC*.tla` give constants their values for TLC.  Operators named in a comment
`Mutant of X` are wrong variants of the definition after them; no
specification uses them.  They document, for each property, an error in the
code that the property would reveal.

**AtomicManifest, ManifestFile.** The abstract side is a register (`value`) with the
generation before it behind (`older`).  The file side has one step per file
operation: `OpenTemp` (`fopen` truncates), `WriteTemp` (`fwrite`, `fflush`, `fsync`),
`RemoveBackup`, `ShelveActive`, `Publish`, `Rollback`, `DiscardTemp`, and the steps of
`load_manifest`.  Each may fail; `PowerLoss` is enabled between any two.  A file's
content is a generation, `Torn` (exists, does not parse) or `Absent`.  A good file
that cannot be opened, buffered or read to its end is taken for a missing one, as
`read_file` and `load_manifest` do: then the backup is used and put in its place
(`misread` remembers it, `ARollBack` is what it comes to).  Within one file operation
the file system is assumed atomic for `rename` and `remove`, as the code itself
assumes.

**ScheduledPush.** One task runs the engine; a step ends at a network call, a
flash write or a panel refresh, and power may go between any two steps.  `disk` and
`older` are the register that ManifestFile implements, `ram` is `g_manifest`,
`slot` the acknowledgement in NVS, `cache` the assets whose digest matches.  A start
reads the manifest (`Load`) or fails to (`LoadMisreads`); a missing file counts as an
empty manifest, so that the model may fall back to an empty one more often than the
code.  A card is chosen by the time read then (`FindDue`, which notes it in `due`) and
is on the panel later (`ShowCard`, after the digest, the storage lock and the refresh),
with any other step that can happen in between.  `FetchFails` stands for every
failure before `incoming` is filled: no answer, an answer that does not parse or is too
large, an RTC that cannot be set.  The gateway is a parameter: `Environment` answers
anything, `Delivery` puts `JobStore` there.  Left out: the telemetry inside `sync_now`,
whose result is ignored there; the voice upload is `VoicePipeline`.

**PulsePages.** Extends ScheduledPush by what other hands do to its state.
`TurnPage` is a page button, in the app task between two steps of its loop.  The
factory reset runs on the HTTP task beside any step of the engine, in the order of
`reset_state`: the files under the storage lock (`RemoveFiles`), the acknowledgement in
NVS (`EraseAck`), the variables in RAM, and then the power.  A directory that does not
open, a file that stays and an NVS that does not open are passed over, as in the code;
`failed` remembers which of the two parts that hit.  Power may be lost between two
steps, and between two files.  `loaded` is `g_manifest_loaded`: a reset in RAM makes
the next call read the card again.  `InstallUnaware` is the sync whose downloads a
reset removed behind it; it does not look again.  `reverted` remembers that the newest
manifest was passed over by a load.  Left out: what the memory of the jobs holds after
the reset has freed it under a running `display_due_cached`.

**JobStore.** A `show_card` call is accepted, awaits fetch and render, and is then
stored under its acceptance time; other handlers run in between.  Every store
method runs on the event-loop thread without an await, hence one step each.

**Delivery.** `Device == INSTANCE ScheduledPush` with the gateway's clock and job
ids.  An acknowledgement or a manifest request is answered, lost on the way out
(gateway unchanged) or lost on the way back (gateway changed).  `forgotten` counts the
shown cards whose flag the device lost: a manifest left the card out, or a start fell
back from the manifest that held it.  Left out: a manifest that the device refuses for
its size at every sync.

**WakeCycle.** Blocking work takes an arbitrary time up to `MaxBusy`.  Modes are
the places where the firmware can be: off, boot (display check), connect (WiFi and
sync), synced (display check inside the sync), decide (power off or not), and the
app task's loop.  A turn of the loop checks the display before it syncs (`checked`),
unless a recording or an operation of the HTTP task holds the check off
(`LoopIsHeld`); the later parts of a turn, the sync and all the work between two
checks count as time without a check too, which `held` adds up.  `MaxHeld` bounds it in
the model only: in the code nothing does.  The correction that a sync makes to the RTC
is left out; times are what the RTC shows.
The alarm rounds down to a whole minute and needs a margin.  `Merged` is what a sync
installs: the cards in an order of `std::sort`, which for cards with one display
time is any order, without those that have expired.  A sync whose acknowledgement
fails is tried again after the retry time.

**PolicyLoops.** `Loop` runs a turn for each window; `DueTurn` and the other turns
are the bodies of the four C++ loops.  A behaviour grows the list and lets time
pass, so that every list and moment is an input.

**AppTask.** Two tasks, the loop of `app_task` and the HTTP server's, share the
storage lock, the operation counter, the refresh flag and the time of the last
activity.  `at` is the call the loop is at and `inside` its section: out of the
lock, waiting for it, holding it, or refreshing the panel under it.  What a
section does to files is left out; the other modules have it.  A recording is
driven by the loop, one block per turn, and keeps the lock from `begin_capture`
to `finalize_capture` or `fail_capture`; the returns of `begin_capture` and
`finalize_capture` that unlock by themselves are steps of their own, those through
`fail_capture` share one.  `MaxBlocks` is the limit of one
minute.  A click within `STOP_GUARD_US` of the start is one the model does not
take.  The request kinds tell apart handlers with an `AppOperationGuard`,
without one, and the factory reset, after which the board shuts down.  The access
point's long press and auto-off and the reconnection touch none of this state and
are in WifiLink; the boot path before `app_task` starts is in WakeCycle.

**PulseService.** Each update runs in a thread: store its facts (one transaction),
compose the view of all sources (one locked read), render, activate (one
transaction).  `Restart` kills the threads and keeps the tables.

**VoicePipeline.** The device lists up to `Batch` files of its outbox (four in the
code) in directory order, sends each, and moves it to the archive at a 2xx answer;
the first failure ends the loop.  It may give a request up that the gateway handles
later still (`live` is FALSE then).  The handler reads the body once
(`request.content.read`, which returns what has come so far), so a request is handled
with some part of the recording: `Whole[c]` is how many parts it can be cut to, `part`
what was read, `digest` what the row is about, and a repeated request may be read to
another part, which the gateway answers 409 (`Conflict`).  The answer may come before
the device has sent everything; `GiveUp` covers a device whose write fails then.
`PlaceFile` and `CommitRow` are the two halves
of `store_voice_capture`, the rename into the voice directory and the commit; while
the write transaction is open (`placing`) no other one runs.  Transcribers claim
the oldest pending row in one transaction.  `Unsendable` and `Refused` files stand
for what people copy into the outbox over USB.  An error with an empty text settles
a capture as completed, as `finish_voice_capture` decides by the text.

**StorageMedia.** Each call of `hal_storage.cpp` holds the lock from its first to
its last line, so it is one step; the module gives the set of its outcomes: the
context it leaves (medium, TinyUSB object, mount point, drivers that are up),
whether it returned `ESP_OK`, and how many driver failures that takes.  A card that
cannot be read or mounted fails for nothing.  It has no variables; LocalPhotos uses
its operators.

**LocalPhotos.** `update` of the app task and `displayPhotoByPath` of the HTTP task
share `_photo_list` and the indices without a lock.  A scan is three steps: clear,
fill (under the storage lock), sort and clamp; then the list is used.  Indices are
kept as sixteen-bit numbers with `NO_PHOTO` = 65535.  An index out of range, and
two tasks inside the vector at once, are undefined: the device panics, or goes on.
The card slot, a USB host, power and the RTC wakes are actions of the world.

**WifiLink.** The driver is a link with a phase and a queue of events that one task
delivers in order; `connect` is two steps (configure, then clear the bits and
start) and a wait.  Three callers use it: the boot, the app task's reconnection, and
the settings page.  A network stands for a name with its password.  Each bit
remembers, as history, the network of the attempt it came from; that is what
`AnswersAreItsOwn` looks at.

## 3. Runs

| Run | Question | Bounds | Distinct states |
|---|---|---|---|
| `manifest_file` | can a crash or a failing file operation tear or lose the manifest? | 3 generations: active, backup and temporary can all differ | 4 353 |
| `job_store` | do overlapping calls, expiry and acknowledgements keep the tables consistent and the manifest within its limits? | 3 jobs, 2 rows, one job too large to share a manifest with its like, times 0..3 | 201 399 |
| `scheduled_push` | does an installed manifest always have its assets, is a settled card ever forgotten, does the screen keep up with the generation, what does a reset leave? | 1 card falling due after a while, 2 page generations, 3 manifests, times 0..2, one reset | 2 530 112 |
| `delivery` | does the gateway's record match what was on the screen, under faults, and do cards and acknowledgements get through? | 2 cards with any times in 0..2, one fault, a manifest with room for both | 158 774 |
| `wake_cycle` | does the board ever sleep past a cached card, and how late can a card be? | seconds scaled down (below), 2 cards that fall due one second apart (one expires), clock 0..25, 3 seconds without a check | 569 403 |
| `policy_loops` | do the C++ loops compute what the other modules assume? | every list of up to 3 windows with times 0..2, all flags | 18 525 |
| `pulse_service` | do interleaved updates keep the newest facts and publish valid views only? | 3 updates, 2 sources (one validated early), times 1..2 | 263 115 |
| `app_task` | are the lock and the operation counter balanced on every path, and does idling ever cut a recording? | a limit of 2 blocks: a first, a middle and a last one | 2 359 |
| `recording_ends` | does a recording that was started end? | as above | violated |
| `voice_pipeline` | is what the gateway took ever lost, transcribed twice at a time, or left behind? | 2 recordings (one of 2 parts), a file the gateway refuses, one the device cannot send; 2 transcribers, 2 faults, 2 files a listing | 281 271 |
| `local_photos` | do storage, list and indices of two tasks stay sound, and does every photo get its turn? | 3 photos on the card, 1 on the flash, 3 changes by people, 1 driver failure | 124 511 |
| `wifi_link` | is an answer about its own attempt, do the flags follow the driver, does the device get back online? | 2 networks, 1 request, 1 fault | 630 827 |

Why the bounds are enough.  Cards interact in pairs (suppression, ties, overwriting the
acknowledgement slot, limits of the manifest), so two or three of them reach every case
of the code's comparisons; times are compared with each other and with the clock only,
so three or four moments give every order.  A fault is any lost message, failed write or
power cut; one suffices to separate what RepeatsNeedFaults counts, and `scheduled_push`
has no bound on faults.  It has one card, since two at once are what `delivery` is
about.  `voice_pipeline` needs two faults: one to make a request late and one to crash the
gateway under its repetition.  A listing of two out of four files has a first, a last
and a file that must wait for the next sync; one recording of two parts gives a body
that is read in part and repeated in whole, and the other way round.  In `local_photos`
three changes are an insertion, a removal and a button or a request between them, and
three photos tell the next one from the previous one.  In `wifi_link` one request beside
boot, reconnection and AP closing gives every pair of callers, and one fault a failed
attempt, a lost link or a network that goes away. In WakeCycle the constants keep the
order of the code's: margin 1 < minute 3 <= wait 3 < retry 6 < poll 12, grid 13 (code: 5
s < 60 s <= 65 s < 300 s < poll interval, 900 s), lead 0; `WaitCoversMinute` states the
relation that the properties rest on.  The clock bound is why the runs do not check for
deadlock: when the clock stops, and every job or update is used up, the model stops.
AppTask has no clock, but the system it models really stops: that is what
`recording_ends` shows.  ManifestFile, PulsePages, LocalPhotos and WifiLink never stop
and are checked for deadlock; VoicePipeline stops when every recording is settled and
the faults are used up.

Every counter and clock with a bound names it: `MaxTime`, `MaxFaults`, `MaxBusy`,
`MaxHeld`, `MaxWindows`, `MaxResets`, `MaxChanges`, `MaxRequests`; `Batch`, `MaxBlocks`,
`Limit` and `MaxBytes` are limits of the code itself, made small, and `Whole` the size
of a recording in parts.

Every module that has behaviours states the types of its variables (`TypeOK`,
`PagesTypeOK`, `FileTypeOK`; of WifiLink, LocalPhotos and PolicyLoops their proofs
do).  They are checked by a run where no other property would notice them broken
(`manifest_file`, `job_store` and `app_task`), and proved everywhere.

### Fairness

* `delivery`: weak fairness of `DeviceStep \/ Request`: one FreeRTOS task runs the
  engine and its HTTP calls time out, so it always goes on.  Strong fairness of
  `BeginSync`: the device comes back to its idle loop over and over, also across
  power cycles, and there a sync falls due periodically.  Weak fairness of time.
  Faults are bounded, which stands for an outage that ends; without that nothing can
  be promised.  Nothing is assumed of users, of the gateway's clients or of
  rendering calls.
* `recording_ends`: weak fairness of `app_task`, of the HTTP task's work on a
  request it has, and of the microphone; none of buttons, of new requests or of
  time.
* `voice_pipeline`: weak fairness of the device's loop (periodic syncs), of the
  gateway's handling of requests and of each transcriber's loop; none of recordings
  and of failures.  The bad files' failures belong to the loop and need no fault.
* `local_photos`: weak fairness of the passes of `update` (its loop runs every
  10 ms and the interval elapses), of a scan going on, of what follows it, and of
  RTC wakes while the power is off; none of people, cards, USB or power.
* `wifi_link`: weak fairness of the driver settling an attempt, of event delivery,
  of each caller going on, and of the reconnect interval; none of requests or
  changes around the device.

### What the violated run shows

* `recording_ends`: the recorder holds the storage lock while the loop of the same
  task goes on.  A periodic sync, a page button or the slideshow takes the lock
  again; it is not recursive, so `app_task` waits for itself, and the HTTP task
  stops at its next file.

### Limits that the properties name

What a property excuses is a behaviour the code has; each is found by TLC when the
excuse is taken away, and stands as a hazard with a note in `PROJECT.json`.

* `CardsReachScreen` is checked with a manifest that has room for every card.  With
  `Limit = 1` it fails: `display_due_cached` settles the older due cards in its own
  manifest and acknowledges only the one it shows, so the gateway keeps the others
  `pending`, first in order, and without an expiry time they keep their row.
* `AtomicWrite`: a load that cannot read a good file takes the generation before it and
  puts that in its place, so the newest one is gone although nothing is torn.
* `BoundedLateness` allows a cached card to be late by `RETRY_SECONDS` and three
  pieces of work, each as long as the longest call may take.  TLC shows the bound
  reached: the boot shows another card while this one falls due, the connection
  fails, the board powers off until the retry, and the boot takes its time.  (With
  two pieces of work, which an earlier version of the model claimed, the attempt to
  prove it failed at `SyncKeeps`, and TLC found the behaviour for cards that fall due
  within one refresh.)  To this comes the time since the loop's last display check
  (`held`).  It has no bound in the code: the recording of `recording_ends`, which blocks
  the app task, keeps a card from the screen for ever.
* `RepeatsNeedFaults`, `forgotten`: a card that was shown comes back on the screen only
  after a fault, after a manifest that had no room for it (`build_manifest` fills the
  manifest in order, and the device drops the flags of a card that is not in it), or
  after a start that fell back from the manifest with its flag.  With three cards and
  room for fewer TLC refutes `repeats <= faults`; the theorem below has both.
* `ShownInItsWindow` is about the moment the card is chosen.  Digest, storage lock and
  refresh take their time, and the code does not look again: the card may appear after
  it has expired.
* `AssetsKept` and `SettledKept`, `reverted`: after the fallback the manifest is an older
  one, whose assets the cleanup may have removed and which lacks the latest flags.
* `ScreenKeepsUp`, `missed`: a generation that was installed and could not be drawn
  then (a failed refresh, a cut) is not drawn by itself later; the next sync sees no
  change.  The same holds for a generation that a load falls back to.
* `ResetForgets`, `beside`: a reset beside a sync may be followed by the
  installation of the manifest that the sync had fetched, for the former owner.
  `failed`: a file that cannot be removed, or an acknowledgement in an NVS that does not
  open, stays, and `reset_state` answers as if it had not.  A job whose reference
  `display_due_cached` holds is freed under it.
* `NothingLost` is about what the gateway took.  That this is the whole recording is not
  claimed, because `app.py:297` may read the beginning of a body only, and neither its
  length nor the WAV header is compared: the row, the file and the answer 201 are then
  about that beginning, and the whole recording stays in the archive of the SD card.
* `RecordingsSettle`, `orphaned`, bad files and `clashed`: nothing puts a row back to
  `pending` whose transcriber died; a file the gateway refuses ends the upload loop at
  every sync; and so does a recording whose repeated upload is read to another part than
  the first, which is answered 409.
* `ListReadInRange`, `touched` and the waiting refresh: the list has no lock, and a
  change of medium resets the pending index under a refresh that waits.
* `FollowsTheCard`, `failed` and `GivenUp`: a failed switch away from the flash can
  leave nothing mounted under the medium that is wanted, which is not tried again.
* `AnswersAreItsOwn` and `BackOnline`, `raced` and `late`: a reconnection that
  looked at the paused flag before the page set it, and an event that took longer
  than the 200 ms the page waits.

Three more are known from reading and have no property.  The device refuses an asset
over 768 KiB and a manifest over 4 MiB with its pulse pages (`scheduled_push.cpp:600-614`,
`659-662`), while the gateway counts the cards only (`store.py:716`): a manifest between
the two is refused at every sync.  The idle check reads the
operation counter once; a request that begins between that and the PMIC's command
loses the power half way.  Compose and activate of a Pulse update are separate
steps of concurrent threads, so an older view can be activated last and hide, until
the next update, facts whose update was answered 200.

## 4. Proofs

Every safety property of a passing run, invariant or action property, and the
refinement of `AtomicManifest` are also proved by
TLAPS for every value of the constants; TLC has checked each inductive invariant on
the run's instance first.  The assumptions are the `ASSUME`s of the modules, which
TLC evaluates with the constants of each run.

`PushEngineProofs` has three parts.  The first proves of WakeCycle, for any cards and
any times:

* `Typed`: `Spec => []TypeOK`;
* `AlarmIsInTime`: `Spec => []NeverSleepsPast`;
* `LatenessIsBounded`: `Spec => []BoundedLateness`.

`AlarmIsInTime` rests on two lemmas about the policy, `WakesForEach` (the wake time is
no later than any waiting card, or a retry from now for an overdue one) and
`AlarmIsNear` (the calendar alarm lies in the minute of that time), and on the
assumption `WaitCoversMinute`, lead + minute <= wait + 1, which the constants of the
code satisfy (`DISPLAY_WAKE_LEAD_SECONDS`, `DISPLAY_WAKE_WAIT_SECONDS`).  Lateness is
not inductive by itself: `InTime` says for each mode how late a card can be there, and
what the alarm adds to it while the board is off.  The display check brings it down
again (`CheckSettles`): after it only cards wait that fell due during it; a turn without
a check adds to `held` what it adds to the lateness.  What `std::sort` and `remove_if`
do to the list enters through `MergedFacts`: what a sync installs was listed before or
arrives now.

The second part proves of PolicyLoops, for lists of any length:

* `LoopsCompute`: `LoopsSpec => []LoopsAgree`;
* `BacklogIsSettled`: `LoopsSpec => []BacklogSettled`;
* `LoopWakesInTime`: `LoopsSpec => []WakesInTime`.

Each loop has its loop invariant (`LatestOf`, `FirstOf`, `SettledUpTo`,
`EarliestOf`): what is selected after n turns is what the definition says of the
first n windows.  The induction over the turns is `Induction`, by the least index
that fails; that the recursive function exists at all is `LoopRuns`.

The third part proves of ManifestFile, for every set of generations:

* `FileTyped`: `FileSpec => []FileTypeOK`;
* `NeverTorn`: `FileSpec => []NoTornGeneration`;
* `WriteIsAtomic`: `FileSpec => AtomicWrite`, the refinement of `AtomicManifest`
  under the mapping `value <- Recovered, older <- Older`: a write replaces the newest
  generation in one step or not at all, and nothing but a load that could not read a
  good file (`misread`) gives it up for the one before.

The only assumption is that the marker values differ from each other and from
the generations (`SentinelsAreDistinct`).  `NoTornGeneration` is not inductive:
that the active file is not torn after `Publish` depends on the temporary file
having been written completely, which is known at that step only because
`write_manifest` gets there no other way.  `StepFacts` records, for each program
counter, what the function has established about the three files.  The
refinement then goes action by action: `Publish` is the commit, `OpenTemp` the
beginning, `DiscardTemp` the abort, `RemoveBackup` forgets the generation before, a
failing read is `AMisread` or ends the load, `RestoreRemovesActive` after one is
`ARollBack`, and every other step, the shelving of the active file included, leaves
`Recovered` and `Older` as they are.

`PulsePagesProofs` proves of the push engine with its pages and the reset, for any
cards, generations, manifests offered, times and number of resets:

* `Typed`: `PagesSpec => []PagesTypeOK`;
* `AssetsAreKept`: `PagesSpec => []AssetsKept`;
* `ScreenIsCurrent`: `PagesSpec => []ScreenKeepsUp`;
* `ResetLeavesNothing`: `PagesSpec => []ResetForgets`;
* `SettledStay`: `PagesSpec => SettledKept`.

The invariant `IInv` joins the types with `StateFacts`: what `sync_now`'s local
variables are where (`StepFacts`), how far a reset has come (`ResetFacts`,
`ForgottenSoFar`), that the flags of the manifest on the card are carried to RAM and
those in RAM to the manifest being installed (`FlagsCarried`: without it a settled card
would be forgotten by the next write), that the cache covers the persisted manifest
(`DiskKept`), and that panel, RAM and card agree on the generation (`OneGeneration`). 
What a load that falls back may break of these is excused by `reverted` until the next
installation.  The assumptions tell the marker from cards, pages, manifests and choices
(`NoneIsNothing`, `NoneIsNoManifest`, `NoneIsNotPicked`), cards from pages
(`AssetNamesDiffer`) and the gateway's answers from anything that is no manifest
(`OfferedAreManifests`); resets are counted (`ResetsAreCounted`).  What `SuppressOlder`
and the copying of flags do to a list is proved by its least counterexample.

`DeliveryProofs` proves of JobStore, for any number of jobs, sizes, limits and times:

* `Typed`: `Spec => []TypeOK`;
* `OneAtATime`: `Spec => []OneImmediate`;
* `AcksAgree`: `Spec => []AcksMatchStates`;
* `StatesAreFinal`: `Spec => FinalStates`;
* `ManifestIsSound`: `Spec => []ManifestSound`;

and of Delivery, the gateway and the device together, for any number of faults:

* `ReportsAreTrue`: `DeliverySpec => []DisplayedWasShown`;
* `RepeatsArePaidFor`: `DeliverySpec => []RepeatsNeedFaults`;
* `AcksAreTaken`: `DeliverySpec => []RefusedOnlyWhenExpired`;
* `CardsKeepTheirWindows`: `DeliverySpec => ShownInItsWindow`.

The assumptions are the bounds of the constants, that every card fits a manifest alone
(`AssetsFitAlone`), and that the markers are no jobs and no manifests.  In JobStore a
call that is stored adds an acknowledgement-free pending job only if its id is in
neither table, so `IInv` adds `CallsAreNew` (the id of a call in progress belongs to no
job and to no other call) and `AcksAreOfJobs`.  `UniqueImmediate` states `OneImmediate`
without cardinalities; it is preserved because `create_job` supersedes and inserts in
one transaction.  `ManifestSound` needs the loop invariant of `build_manifest`
(`Fitting`: what has been taken fits) and that sorting a finite set of jobs has a
result at all, by the rank of each job (`InOrderLists`), and that no stored call is of
the future (`CallsAreOfThePast`).  Its order, the immediate card first and the others by
display time, creation and id, comes from the same ranks: the loop takes rows in their
order and leaves some out.

In Delivery every step is one of four kinds: a step that neither shows a card nor
answers a manifest (`Quiet`), a card on the screen, a manifest's answer, and a start
that misreads the card; `StoreStep` says which steps of the gateway come with each.
`DInv` has the device's types, which are cited from `PulsePagesProofs`' lemmas about
ScheduledPush, `WindowsAgree` (every manifest the device keeps, the one to fall back to
included, has the gateway's windows, each card once), `DuePicked` (the card being drawn
was in its window at the time it was chosen, which is not ahead), `ShownOnly` (what
either side takes for shown was shown), and `PaidFor`: the repeats so far, and the shown
cards that may yet come back, are no more than the faults and what was forgotten.  The
bound on repeats alone is not inductive: a fault is paid for long before the repeat it
causes.

`AppTaskProofs` proves, for recordings of any length:

* `Typed`: `Spec => []TypeOK`;
* `LocksArePaired`: `Spec => []LockAccounted`;
* `OperationsArePaired`: `Spec => []OperationsBalanced`;
* `NoRecordingIsCut`: `Spec => NoRecordingCut`.

The only assumption is that a recording has at least one block
(`MaxBlocksIsPositive`).  The invariants need each other: the counter is right
after a recording only if `app_task`'s flag `voiceOp` agrees with the recorder
(`RecorderAgrees`), and the lock is released to the right task only if the loop is
in no section while it records (`LoopAgrees`: the second section of a recording
cannot begin, which is the deadlock of `recording_ends` seen from the safe
side).  `NoRecordingIsCut` follows because the loop gets to the power-off only
from a check that saw the counter at zero, and starts no recording in between.

`VoicePipelineProofs` proves, for any recordings, transcribers, batch and number of
failures:

* `TypeCorrect`: `Spec => []TypeOK`;
* `RecordingsAreKept`: `Spec => []NothingLost`;
* `TranscribersExclude`: `Spec => []OneTranscriber`.

`NothingLost` is not inductive: that an archived recording has its row, of the part
that was answered for, rests on the device archiving only after an answer
(`ArchivingIsStored`: at the archive step the head of the list has a row with that
digest), and that a row has its file on the file being in place
before the commit (`PlacingIsNew`, which also says that no row exists yet, so that
removing the file of a failed insert takes nothing from a row).  `OneTranscriber`
holds because a claim takes a row from `pending` to `processing` in one
transaction and `finish` needs `processing`.  The assumptions are the five of the
module: bad files are captures, a batch takes at least one file, a body has at least
one part, faults are counted and `None` is no capture.

`PulseServiceProofs` proves, for any updates, sources and ages:

* `OwnFactsAreIncluded`: `Spec => []OwnFactsIncluded`;
* `PublishedIsValid`: `Spec => []ActiveIsValid`;
* `FactsGoOn`: `Spec => SourcesAdvance`.

An update composes after its store, and others may store in between; the invariant
that carries over is `StoredAreAsNew`: while an update is about to compose, its
source has its facts or newer ones.  It is preserved by the stores of others because
the check and the write are one transaction.  `ViewsAreSound` says that a composed
view has valid facts only, which a later activation needs.  `GoesOn`, that requests
stay and sources advance, is the step property from which `SourcesAdvance` follows.
The assumptions are the bounds of the constants and that `None` is no update and no
request.

`LocalPhotosProofs` proves, for any photos:

* `NoDriverIsLeft`: `Spec => []NoDriverLeft`;
* `ListIsReadInRange`: `Spec => []ListReadInRange`.

The first is inductive with the type of the context (`Sound`); the work is in the
lemmas, one per call of `StorageMedia`: the failing paths of `_bringup`, the three
early returns of `hal_storage_switch`, and the slideshow's choices and fallbacks
composed of them.  The second needs `LInv`: what a list is made of (`Listed`), where the
app task's scan is and that nobody else is in the list unless `touched` says so
(`AppScans`, `AppAlone`), and that the indices were clamped to the list that is used
(`IndicesFit`).

`WifiLinkProofs` proves, for any networks and any numbers of requests and faults:

* `PageHearsItsOwn`: `Spec => []AnswersAreItsOwn`;
* `FlagsAreRight`: `Spec => []FlagsFollow`.

The inductive invariant of the first adds that the boot is alone before it is done
(`BootFirst`); that while the page attempts, the reconnection is either paused or
excused and the app task nowhere in `connect` (`PageAlone`); and that once the page has
started, every event in the queue and the driver's own attempt are about the page's
network (`DriverFollows`).  The step that matters is `Starts`, which clears the bits:
everything set after it comes from what `DriverFollows` describes.  The second rests on
`InStep`: the events in the queue lead from the flags to the driver's stage, each one
the end of the link or one stage further.

Only model-checked is what needs fairness, for which the prover has no support:
`CardsReachScreen` and `AckLeavesSlot` (`delivery`), `RecordingsSettle`
(`voice_pipeline`), `FollowsTheCard` and `EveryPhotoShown` (`local_photos`),
`BackOnline` (`wifi_link`), and `RecordingEnds`, which the run `recording_ends` refutes.

## 5. Not modelled, and why

* Pixel layout (`renderer.py`, `pulse_renderer.py`, the QR code screens): a function
  of its input without state.  Its callers see a call that takes time and may fail.
* `fetcher.py`: network I/O with checks of addresses and sizes; `show_card` sees it
  as such a call.
* `config.py` and the entry points: read once, interact with nothing.  The
  Cloudflare worker: a stateless proxy that authenticates and forwards.
* The captive DNS server, the audio tones and the image codec: no protocol state.
  `assets/boot_sfx.h` is sampled sound, 17 239 lines of numbers, which is more than
  half of what counts as implementation here.
* `hal.cpp`: registers of the PMIC, RTC, sensors and LED, and settings copied to and
  from NVS.  What the models need of them (the alarm, the wake source, the NVS slot,
  the card slot) is in WakeCycle, ScheduledPush and LocalPhotos.  The creation of the
  storage lock happens at boot, in one task.
* Of the slideshow: rotation, `goTo` (no caller), the settings of the interval.  Of
  the web server: static pages, status answers and settings that only copy a value.
  Of the WiFi manager: scan results, hidden networks, `IP_EVENT_STA_LOST_IP`, `end`
  (not called on a running device).  Of the Pulse updates: the assistant's focus
  summary and the drawing of pages.
* `ezdata_photo_push.cpp`: `main/CMakeLists.txt` does not compile it.
* The host's flash and provisioning scripts.

Worth proving next: that Delivery's gateway, seen from the device, implements the
environment of ScheduledPush (`OfferedAreManifests` as a step-by-step refinement), and
the invariants that the liveness properties rest on.
