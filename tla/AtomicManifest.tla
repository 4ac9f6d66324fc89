--------------------------- MODULE AtomicManifest ---------------------------
(***************************************************************************)
(* What the device's manifest cache promises its user, with no files in    *)
(* it: a register holding the manifest generation that a power cycle       *)
(* brings back, with the generation before it behind.  A write replaces    *)
(* the register in one indivisible step or leaves it alone, a power loss   *)
(* at any moment leaves it alone, and loading returns exactly what it      *)
(* holds as long as the card can be read.  A card that cannot be read      *)
(* costs at most one generation at a load, or the cached manifest in RAM.  *)
(*                                                                         *)
(* ManifestFile implements it with three files and renames.                *)
(***************************************************************************)
CONSTANTS
    Manifests,   \* the manifest generations the gateway may hand out
    Empty,       \* Manifest{}, the value loaded when nothing is cached
    NotLoaded    \* g_manifest_loaded is false

VARIABLES
    value,       \* the generation a power cycle would bring back
    older,       \* the generation before it, Empty once it is given up
    ram,         \* g_manifest as the last load left it, or NotLoaded
    writing,     \* the generation a write in progress was given, or Empty
    misread      \* the card could not be read during this load

avars == <<value, older, ram, writing, misread>>

AInit == /\ value = Empty
         /\ older = Empty
         /\ ram = NotLoaded
         /\ writing = Empty
         /\ misread = FALSE

\* A read fails during the load.
AMisread == /\ ram = NotLoaded
            /\ misread' = TRUE
            /\ UNCHANGED <<value, older, ram, writing>>

\* A load that could not read the newest generation replaces it.
ARollBack == /\ ram = NotLoaded
             /\ misread
             /\ older # Empty
             /\ value' = older
             /\ older' = Empty
             /\ UNCHANGED <<ram, writing, misread>>

ALoad == /\ ram = NotLoaded
         /\ misread' \in {misread, TRUE}
         /\ \/ ram' = value
            \/ misread' /\ ram' \in {older, Empty}
         /\ UNCHANGED <<value, older, writing>>

ABegin(m) == /\ ram # NotLoaded
             /\ writing = Empty
             /\ writing' = m
             /\ UNCHANGED <<value, older, ram, misread>>

\* Room is made for the next generation.
AForget == /\ writing # Empty
           /\ older' = Empty
           /\ UNCHANGED <<value, ram, writing, misread>>

ACommit == /\ writing # Empty
           /\ value' = writing
           /\ older' = value
           /\ writing' = Empty
           /\ UNCHANGED <<ram, misread>>

AAbort == /\ writing # Empty
          /\ writing' = Empty
          /\ UNCHANGED <<value, older, ram, misread>>

APowerLoss == /\ ram' = NotLoaded
              /\ writing' = Empty
              /\ misread' = FALSE
              /\ UNCHANGED <<value, older>>

ANext == \/ AMisread \/ ARollBack \/ ALoad
         \/ \E m \in Manifests : ABegin(m)
         \/ AForget \/ ACommit \/ AAbort
         \/ APowerLoss

ASpec == AInit /\ [][ANext]_avars
=============================================================================
