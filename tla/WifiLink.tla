------------------------------ MODULE WifiLink ------------------------------
(***************************************************************************)
(* The WiFi manager (hal_wifi.cpp) and its callers: the boot, the app task *)
(* with its reconnection and its closing of the setup access point         *)
(* (app_manager.cpp), and the settings page (app_server.cpp).              *)
(*                                                                         *)
(* The driver answers later, by events that one task delivers in order.    *)
(* The callers share the configured network and the bits the events set,   *)
(* with no lock between them.                                              *)
(*                                                                         *)
(* A network stands for a name with its password: one that does not let    *)
(* the device in is simply not in `air`.  Timers may expire at any time.   *)
(* Left out: the results of a scan, hidden networks, addresses and signal  *)
(* strengths, and WiFiManager::end, which nothing calls on a running       *)
(* device.                                                                 *)
(***************************************************************************)
EXTENDS Naturals, Sequences

CONSTANTS
    Networks,    \* what a user may enter
    Around,      \* the networks that let the device in when it is first switched on
    MaxRequests, \* bound: requests, button presses
    MaxFaults,   \* bound: failed attempts, refused settings, changes around the device
    None         \* no network

ASSUME AroundAreNetworks == Around \subseteq Networks
ASSUME BoundsAreCounts == MaxRequests \in Nat /\ MaxFaults \in Nat
ASSUME NoneIsNoNetwork == None \notin Networks

VARIABLES
    air,         \* the networks that let the device in now
    creds,       \* hal.settings.wifi_ssid, wifi_password: kept over a restart
    mode,        \* _mode: "off", "sta" or "apsta"
    config,      \* the driver's station configuration
    station,     \* the driver's link: [phase, net]
    events,      \* driver events not yet delivered
    connected,   \* _sta_connected
    gotIp,       \* _sta_got_ip
    bits,        \* BIT_FAIL and BIT_GOT_IP, with the network of the attempt (history)
    paused,      \* g_wifi_reconnect_paused
    retryDue,    \* the reconnect interval is over, or no attempt counts
    closing,     \* g_ap_auto_off_timer_running
    at,          \* where each caller is
    want,        \* the network each caller is connecting to
    requests,    \* at most MaxRequests
    faults,      \* at most MaxFaults
    excuse       \* history: what crossed the page's request, "raced" or "late"

vars == <<air, creds, mode, config, station, events, connected, gotIp, bits,
          paused, retryDue, closing, at, want, requests, faults, excuse>>

driver == <<mode, config, station, events>>
flags == <<connected, gotIp, bits>>
timers == <<retryDue, closing>>
bounds == <<requests, faults>>

Callers == {"boot", "app", "page"}

Idle == [phase |-> "idle", net |-> None]

\* What a restart forgets.
Forgotten ==
    /\ mode' = "off" /\ config' = None /\ station' = Idle /\ events' = <<>>
    /\ connected' = FALSE /\ gotIp' = FALSE /\ bits' = {}
    /\ paused' = FALSE /\ retryDue' = TRUE /\ closing' = FALSE
    /\ at' = [c \in Callers |-> IF c = "boot" THEN "begin" ELSE "off"]
    /\ want' = [c \in Callers |-> None]
    /\ excuse' = {}

Init ==
    /\ air = Around
    /\ creds \in Networks \cup {None}
    /\ mode = "off" /\ config = None /\ station = Idle /\ events = <<>>
    /\ connected = FALSE /\ gotIp = FALSE /\ bits = {}
    /\ paused = FALSE /\ retryDue = TRUE /\ closing = FALSE
    /\ at = [c \in Callers |-> IF c = "boot" THEN "begin" ELSE "off"]
    /\ want = [c \in Callers |-> None]
    /\ excuse = {}
    /\ requests = 0 /\ faults = 0

Fault == faults < MaxFaults /\ faults' = faults + 1
Request == requests < MaxRequests /\ requests' = requests + 1

isConnected == connected /\ gotIp

-----------------------------------------------------------------------------
(* The driver and its events: external, as the manager uses it *)

Event(kind, net) == [kind |-> kind, net |-> net]

\* A station that is connecting or connected and is told to stop says so.
Dropped ==
    /\ station' = Idle
    /\ events' = IF station.phase = "idle" THEN events
                 ELSE Append(events, Event("disconnected", station.net))

\* esp_wifi_connect starts an attempt unless there is a link or one under way.
Attempted ==
    station' = IF station.phase = "idle"
               THEN [phase |-> "trying", net |-> config] ELSE station

Enters ==
    /\ station.phase = "trying" /\ station.net \in air
    /\ station' = [station EXCEPT !.phase = "joined"]
    /\ events' = Append(events, Event("connected", station.net))
    /\ UNCHANGED faults

GetsAddress ==
    /\ station.phase = "joined" /\ station.net \in air
    /\ station' = [station EXCEPT !.phase = "up"]
    /\ events' = Append(events, Event("got_ip", station.net))
    /\ UNCHANGED faults

\* The network is not there, or an attempt or a link fails all the same.
Loses ==
    /\ station.phase # "idle"
    /\ IF station.net \in air THEN Fault ELSE UNCHANGED faults
    /\ Dropped

Air ==
    /\ Enters \/ GetsAddress \/ Loses
    /\ UNCHANGED <<air, creds, mode, config, flags, paused, timers, at, want,
                   requests, excuse>>

NetworksChange ==
    /\ Fault
    /\ \E n \in Networks :
           air' = IF n \in air THEN air \ {n} ELSE air \cup {n}
    /\ UNCHANGED <<creds, driver, flags, paused, timers, at, want,
                   requests, excuse>>

-----------------------------------------------------------------------------
(* WiFiManager *)

Bit(name, net) == [bit |-> name, net |-> net]

\* Mutant of eventHandler: the end of a link leaves the address standing.
HandlerKeepsIp ==
    /\ events # <<>>
    /\ LET e == Head(events) IN
       /\ connected' = CASE e.kind = "connected" -> TRUE
                         [] e.kind = "disconnected" -> FALSE
                         [] OTHER -> connected
       /\ gotIp' = (gotIp \/ e.kind = "got_ip")
       /\ UNCHANGED bits
    /\ events' = Tail(events)
    /\ UNCHANGED <<air, creds, mode, config, station, paused, timers, at, want,
                   bounds, excuse>>

eventHandler ==
    /\ events # <<>>
    /\ LET e == Head(events) IN
       /\ connected' = CASE e.kind = "connected" -> TRUE
                         [] e.kind = "disconnected" -> FALSE
                         [] OTHER -> connected
       /\ gotIp' = CASE e.kind = "got_ip" -> TRUE
                     [] e.kind = "disconnected" -> FALSE
                     [] OTHER -> gotIp
       /\ bits' = CASE e.kind = "got_ip" -> bits \cup {Bit("got_ip", e.net)}
                    [] e.kind = "disconnected" -> bits \cup {Bit("fail", e.net)}
                    [] OTHER -> bits
    /\ events' = Tail(events)
    /\ UNCHANGED <<air, creds, mode, config, station, paused, timers, at, want,
                   bounds, excuse>>

\* A change of mode stops the driver and starts it again: the link is gone.
setMode(m) ==
    /\ mode' = m
    /\ IF m = mode THEN UNCHANGED <<station, events>> ELSE Dropped

\* softAP afterwards finds the mode it wants and leaves the station alone.
ensure_apsta_started == setMode("apsta")

softAPdisconnect ==
    IF mode = "apsta" THEN setMode("sta") ELSE UNCHANGED <<mode, station, events>>

disconnect == Dropped

Went(c, pc) == at' = [at EXCEPT ![c] = pc]

\* The first half of connect, up to the driver's configuration, which the
\* driver may refuse while an attempt is under way: ESP_ERROR_CHECK then
\* restarts the device.
Configures(c) ==
    /\ at[c] = "configure"
    /\ mode' = IF mode = "off" THEN "sta" ELSE mode
    /\ config' = want[c]
    /\ Went(c, "start")
    /\ UNCHANGED <<air, creds, station, events, flags, paused, timers, want,
                   bounds, excuse>>

Refuses(c) ==
    /\ at[c] = "configure" /\ station.phase = "trying"
    /\ Fault
    /\ Forgotten
    /\ UNCHANGED <<air, creds, requests>>

\* What is still on its way when the page clears the bits is taken for an
\* answer to its own attempt: after 200 ms there should be nothing.
LateEvents(c) == IF c = "page" /\ events # <<>> THEN {"late"} ELSE {}

\* Mutant of Starts: connect does not clear the bits of the attempt before.
StartsUncleared(c) ==
    /\ at[c] = "start"
    /\ Attempted
    /\ excuse' = excuse \cup LateEvents(c)
    /\ Went(c, IF c = "app" THEN "loop" ELSE "wait")
    /\ UNCHANGED <<air, creds, mode, config, events, connected, gotIp, bits, paused,
                   timers, want, bounds>>

\* The second half: the reconnection goes on at once, the others wait.
Starts(c) ==
    /\ at[c] = "start"
    /\ bits' = {}
    /\ Attempted
    /\ excuse' = excuse \cup LateEvents(c)
    /\ IF c = "app" THEN /\ Went(c, "loop")
                         /\ want' = [want EXCEPT ![c] = None]
                    ELSE Went(c, "wait") /\ UNCHANGED want
    /\ UNCHANGED <<air, creds, mode, config, events, connected, gotIp, paused,
                   timers, bounds>>

Seen(name) == \E b \in bits : b.bit = name

\* An address wins over a failure; without either the wait ends by its timeout.
Outcome == IF Seen("got_ip") THEN "ok"
           ELSE IF Seen("fail") THEN "failed" ELSE "timeout"

-----------------------------------------------------------------------------
(* Boot *)

BootBegins ==
    /\ at["boot"] = "begin"
    /\ IF creds = None
       THEN /\ setMode("apsta")
            /\ at' = [at EXCEPT !["boot"] = "done", !["app"] = "loop", !["page"] = "ready"]
            /\ UNCHANGED want
       ELSE /\ setMode("sta")
            /\ Went("boot", "configure")
            /\ want' = [want EXCEPT !["boot"] = creds]
    /\ UNCHANGED <<air, creds, config, flags, paused, timers, bounds, excuse>>

\* Without a link the access point opens, except with a gateway, where the
\* device stays as it is and tries again later.
BootEnds ==
    /\ at["boot"] = "wait"
    /\ \E gateway \in BOOLEAN :
           IF Outcome = "ok" \/ gateway THEN UNCHANGED <<mode, station, events>>
                                        ELSE ensure_apsta_started
    /\ want' = [want EXCEPT !["boot"] = None]
    /\ at' = [at EXCEPT !["boot"] = "done", !["app"] = "loop", !["page"] = "ready"]
    /\ UNCHANGED <<air, creds, config, flags, paused, timers, bounds, excuse>>

-----------------------------------------------------------------------------
(* The app task: one turn looks at the access point, then at the station *)

LooksAtAp ==
    /\ at["app"] = "loop"
    /\ \E clients \in BOOLEAN :
         IF mode = "apsta" /\ isConnected /\ ~clients
         THEN /\ closing' = TRUE
              /\ \/ closing /\ Went("app", "close")
                 \/ Went("app", "station")
         ELSE closing' = FALSE /\ Went("app", "station")
    /\ UNCHANGED <<air, creds, driver, flags, paused, retryDue, want, bounds, excuse>>

ClosesAp ==
    /\ at["app"] = "close"
    /\ softAPdisconnect
    /\ closing' = FALSE
    /\ Went("app", "station")
    /\ UNCHANGED <<air, creds, config, flags, paused, retryDue, want, bounds, excuse>>

MustReconnect == creds # None /\ ~isConnected /\ ~paused

LooksAtStation ==
    /\ at["app"] = "station"
    /\ IF MustReconnect /\ retryDue
       THEN /\ retryDue' = FALSE
            /\ want' = [want EXCEPT !["app"] = creds]
            /\ Went("app", "configure")
       ELSE /\ retryDue' = (retryDue \/ ~MustReconnect)
            /\ Went("app", "loop")
            /\ UNCHANGED want
    /\ UNCHANGED <<air, creds, driver, flags, paused, closing, bounds, excuse>>

\* Ten seconds: no event is on its way that long.
RetryIntervalPasses ==
    /\ ~retryDue /\ events = <<>>
    /\ retryDue' = TRUE
    /\ UNCHANGED <<air, creds, driver, flags, paused, closing, at, want, bounds, excuse>>

\* Five seconds on button A.
LongPress ==
    /\ at["app"] = "loop" /\ Request
    /\ ensure_apsta_started
    /\ UNCHANGED <<air, creds, config, flags, paused, timers, at, want, faults, excuse>>

-----------------------------------------------------------------------------
(* The settings page: one request at a time *)

\* h_wifi_config keeps what was entered before it tries it.
SaveCredentials(n) ==
    /\ at["page"] = "ready" /\ Request
    /\ creds' = n
    /\ IF isConnected /\ creds = n
       THEN UNCHANGED <<at, want>>
       ELSE /\ want' = [want EXCEPT !["page"] = n]
            /\ Went("page", "pause")
    /\ UNCHANGED <<air, driver, flags, paused, timers, faults, excuse>>

\* The app task may be past its look at the flag.
PauseAndDisconnect ==
    /\ at["page"] = "pause"
    /\ paused' = TRUE
    /\ disconnect
    /\ excuse' = IF at["app"] \in {"configure", "start"} THEN {"raced"} ELSE {}
    /\ Went("page", "configure")
    /\ UNCHANGED <<air, creds, mode, config, flags, timers, want, bounds>>

\* Mutant of Answers: a failed attempt answers without resuming the reconnection.
AnswersPaused ==
    /\ at["page"] = "wait"
    /\ paused' = (Outcome # "ok")
    /\ want' = [want EXCEPT !["page"] = None]
    /\ excuse' = excuse \ {"late"}
    /\ Went("page", "ready")
    /\ UNCHANGED <<air, creds, driver, flags, timers, bounds>>

Answers ==
    /\ at["page"] = "wait"
    /\ paused' = FALSE
    /\ want' = [want EXCEPT !["page"] = None]
    /\ excuse' = excuse \ {"late"}
    /\ Went("page", "ready")
    /\ UNCHANGED <<air, creds, driver, flags, timers, bounds>>

\* A scan only keeps the reconnection away while it lasts.
ScanBegins ==
    /\ at["page"] = "ready" /\ Request
    /\ paused' = TRUE /\ Went("page", "scan")
    /\ UNCHANGED <<air, creds, driver, flags, timers, want, faults, excuse>>

ScanEnds ==
    /\ at["page"] = "scan"
    /\ paused' = FALSE /\ Went("page", "ready")
    /\ UNCHANGED <<air, creds, driver, flags, timers, want, bounds, excuse>>

\* h_wifi_disconnect: the access point first, then the station; the
\* reconnection is not paused.
KeepAp ==
    /\ at["page"] = "ready" /\ Request
    /\ retryDue' = TRUE /\ closing' = FALSE
    /\ ensure_apsta_started
    /\ Went("page", "disconnect")
    /\ UNCHANGED <<air, creds, config, flags, paused, want, faults, excuse>>

DropsStation ==
    /\ at["page"] = "disconnect"
    /\ disconnect
    /\ Went("page", "ready")
    /\ UNCHANGED <<air, creds, mode, config, flags, paused, timers, want, bounds, excuse>>

-----------------------------------------------------------------------------
Boot == BootBegins \/ BootEnds
AppTurn == LooksAtAp \/ ClosesAp \/ LooksAtStation
PageGoesOn == PauseAndDisconnect \/ Answers \/ ScanEnds \/ DropsStation
Connects(c) == Configures(c) \/ Starts(c)
Asked == \/ \E n \in Networks : SaveCredentials(n)
         \/ ScanBegins \/ KeepAp \/ LongPress

Next ==
    \/ Air \/ NetworksChange \/ eventHandler
    \/ \E c \in Callers : Connects(c) \/ Refuses(c)
    \/ Boot \/ AppTurn \/ PageGoesOn \/ Asked
    \/ RetryIntervalPasses

Spec == Init /\ [][Next]_vars

\* Every task runs, the driver settles an attempt and delivers its events, and
\* the reconnect interval passes.  Nobody has to press or ask for anything.
FairSpec ==
    /\ Spec
    /\ WF_vars(Air) /\ WF_vars(eventHandler) /\ WF_vars(RetryIntervalPasses)
    /\ WF_vars(Boot) /\ WF_vars(AppTurn) /\ WF_vars(PageGoesOn)
    /\ \A c \in Callers : WF_vars(Connects(c))

-----------------------------------------------------------------------------
(* Properties *)

\* What the settings page reports of its attempt to connect is the fate of
\* that attempt and of no other network, although old links end, reconnections
\* run and the bits are shared (hal_wifi.cpp:272-287, app_server.cpp:439-461).
\* Excused: a reconnection that was past the flag when the page paused it, and
\* an event that took longer than the 200 ms the page allows.
AnswersAreItsOwn ==
    at["page"] = "wait" /\ excuse = {} => \A b \in bits : b.net = want["page"]

\* The flags follow the driver: when no event is on its way the device thinks
\* it is online exactly when it is (hal_wifi.cpp:123-198).
FlagsFollow ==
    events = <<>> => (isConnected <=> station.phase = "up")

\* A device whose network takes it in ends up on that network and stays there,
\* after failures, restarts, requests and the closing of the access point
\* (app_manager.cpp:703-757, 832-866), with the same reconnection excused.
BackOnline ==
    <>[](creds \in air) =>
        <>[]((isConnected /\ station.net = creds) \/ "raced" \in excuse)
=============================================================================
