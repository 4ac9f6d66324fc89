---------------------------- MODULE StorageMedia ----------------------------
(***************************************************************************)
(* The device's one storage (hal_storage.cpp): the SPI flash partition or  *)
(* the SD card, handed to TinyUSB as a mass storage object that is mounted *)
(* to the application or lent to a USB host.                               *)
(*                                                                         *)
(* A call holds the storage lock from its first line to its last, so each  *)
(* is one step; an operator below gives the set of its outcomes.  An       *)
(* outcome says how the context ends, whether the call returned ESP_OK and *)
(* how many failures of the drivers it took: a card that cannot be read or *)
(* mounted fails for nothing.  A failure during a clean-up is only logged  *)
(* by the code and is left out.                                            *)
(***************************************************************************)
EXTENDS Naturals

Media == {"flash", "sd"}
NoDisk == "none"

\* What the card slot holds.
Cards == {"none", "good", "unreadable", "unformatted"}

Readable(m, card) == m = "flash" \/ card \in {"good", "unformatted"}
Mountable(m, card) == m = "flash" \/ card = "good"

(* s_ctx: media is what hal_storage_get_media answers, disk the medium     *)
(* behind the TinyUSB object (storage_created, storage_hdl), open the      *)
(* media whose own driver is up (wl_handle; sd_card and its SPI device).   *)
Contexts == [driver : BOOLEAN, media : Media, disk : Media \cup {NoDisk},
             mount : {"app", "usb"}, open : SUBSET Media]

Fresh == [driver |-> FALSE, media |-> "flash", disk |-> NoDisk,
          mount |-> "usb", open |-> {}]

Outcome(s, ok, n) == [storage |-> s, ok |-> ok, failures |-> n]

-----------------------------------------------------------------------------
(* The calls of a switch, in their order *)

Uninstalled(s) == [s EXCEPT !.driver = FALSE]
Lent(s)        == [s EXCEPT !.mount = "usb"]
Deleted(s)     == [s EXCEPT !.disk = NoDisk]
Closed(s, m)   == [s EXCEPT !.open = @ \ {m}]
Opened(s, m)   == [s EXCEPT !.open = @ \cup {m}]
Created(s, m)  == [s EXCEPT !.disk = m, !.media = m]
Installed(s)   == [s EXCEPT !.mount = "app", !.driver = TRUE]

\* One of the first three fails: what came before it stays done.
TeardownFailures(s) ==
    LET off == Uninstalled(s)
    IN  {Outcome(t, FALSE, 1) :
            t \in {u \in {s, off, Lent(off)} :
                     \/ u = s /\ s.driver
                     \/ u = off /\ s.disk # NoDisk /\ s.mount = "app"
                     \/ u = Lent(off) /\ s.disk # NoDisk}}

TornDown(s) == Closed(Deleted(Lent(Uninstalled(s))), s.media)

\* Mutant of NotMounted: the driver stays installed.
NotMountedLeft(s, m) == Deleted(Created(Opened(s, m), m))

\* The driver or the new object fails; the mount or the USB driver fails, with
\* media naming the medium already; or all is up.
NotOpened(s, m) == Closed(Opened(s, m), m)
NotMounted(s, m) == Closed(Deleted(Created(Opened(s, m), m)), m)

BringUp(s, m, card) ==
    LET readable == Readable(m, card)
        mountable == Mountable(m, card)
    IN  {o \in {Outcome(NotOpened(s, m), FALSE, IF readable THEN 1 ELSE 0),
                Outcome(NotMounted(s, m), FALSE, IF mountable THEN 1 ELSE 0),
                Outcome(Installed(Created(Opened(s, m), m)), TRUE, 0)} :
            /\ o.storage.media = m /\ s.media # m => readable
            /\ o.ok => mountable}

-----------------------------------------------------------------------------
InUse(s) == s.driver \/ s.disk # NoDisk

\* hal_storage_init
Initialised(s, m, card) ==
    IF InUse(s) THEN {Outcome(s, FALSE, 0)} ELSE BringUp(s, m, card)

\* hal_storage_switch
Switched(s, m, card) ==
    IF InUse(s) /\ s.media = m
    THEN {Outcome(s, TRUE, 0)}
    ELSE TeardownFailures(s) \cup BringUp(TornDown(s), m, card)

\* storage_mount_to_app: what the host held comes back, if it can be mounted.
MountedToApp(s, card) ==
    IF s.disk # NoDisk /\ Mountable(s.disk, card) THEN [s EXCEPT !.mount = "app"] ELSE s

\* A USB host mounts the disk.  External: TinyUSB's storage class.
MountedByHost(s) == IF s.disk # NoDisk THEN Lent(s) ELSE s
=============================================================================
