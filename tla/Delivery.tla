------------------------------ MODULE Delivery ------------------------------
(***************************************************************************)
(* Card delivery end to end: the gateway's JobStore and the device's       *)
(* ScheduledPush, joined by the three requests of the device protocol.     *)
(* Requests and answers get lost, flash writes fail and power goes; the    *)
(* device retries at its next sync.                                        *)
(*                                                                         *)
(* The device reads the gateway's clock: it sets its RTC from every        *)
(* manifest, and drift between two syncs is not modelled.  Pulse pages are *)
(* left to PulsePages.                                                     *)
(*                                                                         *)
(* Left out: a manifest that the device refuses at every sync because its  *)
(* assets, pulse pages included, are larger than the device takes, which   *)
(* the gateway does not check.                                             *)
(***************************************************************************)
EXTENDS JobStore

CONSTANTS
    None,        \* no card
    Wait,        \* DISPLAY_WAKE_WAIT_SECONDS
    MaxFaults    \* bound: lost messages, failed writes and power cuts

ASSUME NoneIsNoJob == None \notin Jobs

VARIABLES
    pc, disk, older, ram, incoming, cache, slot, screen, rtcWake, deferred, changed,
    syncing, due,  \* the device's variables, see ScheduledPush
    faults,      \* how many faults have happened
    shown,       \* history: the cards that have been on the screen
    repeats,     \* history: how often a card came on the screen again
    forgotten    \* history: shown cards that a manifest left out, or an unreadable
                 \* one lost, before the device could report them or forget them

deviceVars == <<pc, disk, older, ram, incoming, cache, slot, screen, rtcWake,
                deferred, changed, syncing, due>>
gatewayVars == <<clock, calls, jobs, acks, version>>
deliveryVars == <<gatewayVars, deviceVars, faults, shown, repeats, forgotten>>

Device == INSTANCE ScheduledPush
    WITH now <- clock, Cards <- Jobs, Pulses <- {}, Offered <- {}

ASSUME NoneIsNoManifest == None \notin Device!Manifest
ASSUME NoneIsNotPicked == None \notin Device!Picked

DeliveryInit == /\ Init
                /\ Device!Init
                /\ faults = 0 /\ shown = {} /\ repeats = 0 /\ forgotten = 0

-----------------------------------------------------------------------------
\* The device's manifest holds what _manifest_job sends, stably sorted by
\* display time.
ManifestOf(table, rows) ==
    LET order == InOrder(DOMAIN rows, [k \in DOMAIN rows |-> {i \in DOMAIN rows :
                    \/ table[rows[i]].display < table[rows[k]].display
                    \/ /\ table[rows[i]].display = table[rows[k]].display
                       /\ i < k}])
    IN  [jobs |-> [n \in DOMAIN order |->
                      LET j == rows[order[n]] IN
                      [id |-> j, display |-> table[j].display,
                       expires |-> table[j].expires, displayed |-> FALSE]],
         pulse |-> None]

\* With m the device takes the card for new, now or when the gateway sends it.
Returns(j, m) == /\ j \notin Device!Settled(m)
                 /\ j \in Device!Ids(m.jobs) \/ jobs[j].status = "pending"

History ==
    /\ shown' = IF screen' = None THEN shown ELSE shown \cup {screen'}
    /\ repeats' = IF pc # "persist" /\ pc' = "persist" /\ screen' \in shown
                  THEN repeats + 1 ELSE repeats
    /\ forgotten' =
          IF pc = "fetch" /\ pc' = "download"
          THEN forgotten + Cardinality({j \in shown : jobs'[j].status = "pending"}
                                         \ Device!Ids(incoming'.jobs))
          ELSE IF pc = "off" /\ pc' = "idle"
          THEN forgotten + Cardinality({j \in shown : /\ Returns(j, ram')
                                                     /\ ~Returns(j, disk)})
          ELSE forgotten

Fault == faults < MaxFaults /\ faults' = faults + 1

-----------------------------------------------------------------------------
(* The gateway on its own *)

TimePasses == Tick /\ UNCHANGED <<deviceVars, faults>>

GatewayStep ==
    /\ \/ \E id \in Jobs, display \in Times, expires \in Times :
             AcceptCard(id, display, expires)
       \/ \E c \in calls : DropCall(c) \/ CreateJob(c)
    /\ UNCHANGED <<deviceVars, faults>>

(* The device on its own *)

BeginSync == Device!StartSync /\ UNCHANGED <<calls, jobs, acks, version, faults>>

DeviceStep == Device!Progress /\ UNCHANGED <<calls, jobs, acks, version, faults>>

DeviceFailure == Device!Failure /\ Fault /\ UNCHANGED <<calls, jobs, acks, version>>

\* The end of a wake cycle, or a user switching an idle device off.
PowerOff == /\ pc = "idle" /\ Device!PowerLoss
            /\ UNCHANGED <<calls, jobs, acks, version, faults>>

PowerCut == /\ pc # "idle" /\ Device!PowerLoss /\ Fault
            /\ UNCHANGED <<calls, jobs, acks, version>>

(* The requests *)

NoAckPending ==
    /\ slot = None
    /\ Device!SendAck(TRUE)
    /\ UNCHANGED <<gatewayVars, faults>>

AckAnswered ==
    /\ slot # None
    /\ Device!SendAck(AckAnswer(slot, "displayed") \in {"recorded", "duplicate"})
    /\ Acknowledge(slot, "displayed")
    /\ UNCHANGED faults

AckLost ==
    /\ slot # None
    /\ Device!SendAck(FALSE)
    /\ Fault
    /\ Acknowledge(slot, "displayed") \/ UNCHANGED gatewayVars

ManifestAnswered ==
    /\ BuildManifest
    /\ \E rows \in {ManifestRows(jobs', clock)} : Device!Fetched(ManifestOf(jobs', rows))
    /\ UNCHANGED faults

\* Among the reasons: the device refuses it, or its RTC cannot be set.
ManifestLost ==
    /\ Device!FetchFails
    /\ Fault
    /\ BuildManifest \/ UNCHANGED gatewayVars

Request == NoAckPending \/ AckAnswered \/ ManifestAnswered

LostRequest == AckLost \/ ManifestLost

DeliveryNext ==
    /\ \/ TimePasses \/ GatewayStep \/ DeviceStep \/ DeviceFailure \/ PowerOff \/ PowerCut
       \/ Request \/ LostRequest
    /\ History

DeliverySpec == DeliveryInit /\ [][DeliveryNext]_deliveryVars

\* The app task and its HTTP calls finish, time passes, and a device that comes
\* round to its idle loop again and again syncs again and again: the periodic
\* sync, and every wake cycle, call sync_now.
DeliveryFairness ==
    /\ WF_deliveryVars((DeviceStep \/ Request) /\ History)
    /\ SF_deliveryVars(BeginSync /\ History)
    /\ WF_deliveryVars(TimePasses /\ History)

FairDelivery == DeliverySpec /\ DeliveryFairness

-----------------------------------------------------------------------------
(* Properties *)

\* The gateway reports a card as displayed only if it was on the panel, across
\* lost answers, retries, overwritten acknowledgements and power cuts
\* (store.py:786-835, scheduled_push.cpp:931).
DisplayedWasShown ==
    \A j \in DOMAIN jobs : jobs[j].status = "displayed" => j \in shown

\* A card comes on the screen a second time only through a fault, or because the
\* device forgot it: a manifest had no room for it before its acknowledgement came
\* through, or the manifest that held its flag could not be read at a start.  Each
\* of them accounts for one repeat at most, however the panel refresh, the manifest
\* write, the acknowledgement and the next manifests interleave
\* (scheduled_push.cpp:917-935, 616-619, 696-708; store.py:713-719).
RepeatsNeedFaults == repeats <= faults + forgotten

\* The device's pending acknowledgement is one the gateway will take, whatever
\* was superseded meanwhile; only a card that expired at the gateway before the
\* acknowledgement came through is refused, at every retry (store.py:820).
RefusedOnlyWhenExpired ==
    slot # None =>
        \/ AckAnswer(slot, "displayed") \in {"recorded", "duplicate"}
        \/ jobs[slot].status = "expired"

\* A card that comes on the screen was neither early nor out of date when the
\* device chose it, by the gateway's own record of it, whatever restarts, failed
\* writes and unreadable manifests came before (scheduled_push_policy.h:14,
\* scheduled_push.cpp:884-913).  The refresh itself may end after its expiry.
ShownInItsWindow ==
    [][pc # "persist" /\ pc' = "persist" =>
          /\ screen' \in DOMAIN jobs
          /\ jobs[screen'].display <= due.at /\ due.at <= clock
          /\ jobs[screen'].expires = 0 \/ jobs[screen'].expires > due.at]_deliveryVars

Lasting(j) == j \in DOMAIN jobs /\ jobs[j].expires = 0

\* Shown, or settled by the device because a card no older than it was shown.
SettledOnDevice(j) ==
    \/ j \in shown
    \/ /\ ram # None /\ j \in Device!Settled(ram)
       /\ \E k \in shown : jobs[k].display >= jobs[j].display

SettledAtGateway(j) == j \in DOMAIN jobs /\ jobs[j].status # "pending"

\* Every card without an expiry time that the gateway has stored reaches the
\* screen, unless it is superseded or a newer card was due with it
\* (README.en.md:46).
CardsReachScreen ==
    \A j \in Jobs : Lasting(j) ~> (SettledOnDevice(j) \/ SettledAtGateway(j))

\* A pending acknowledgement of a card without an expiry time does not stay
\* pending, however often its answers get lost.
AckLeavesSlot ==
    \A j \in Jobs : slot = j /\ Lasting(j) ~> slot # j
=============================================================================
