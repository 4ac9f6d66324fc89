---------------------------- MODULE ManifestFile ----------------------------
(***************************************************************************)
(* write_manifest, load_manifest and restore_manifest_backup of            *)
(* main/apps/scheduled_push/scheduled_push.cpp: the manifest cache on the  *)
(* SD card.  A generation is written to a temporary file, the active file  *)
(* is renamed to the backup name, and the temporary file is renamed to the *)
(* active name.  Every file operation is a step of its own that may fail,  *)
(* the reads included, and power may go between any two of them.           *)
(*                                                                         *)
(* The storage lock is held from the fopen of the temporary file to the    *)
(* end of write_manifest and the callers of both functions run in one      *)
(* task, so no other file operation comes between these steps; power loss  *)
(* does.  Left out: reset_state, which removes the whole directory from    *)
(* another task (PulsePages has it).                                       *)
(*                                                                         *)
(* The files are on a FAT volume, where a rename onto a name that exists   *)
(* fails.                                                                  *)
(***************************************************************************)
CONSTANTS
    Manifests,   \* manifest generations
    Empty,       \* Manifest{}
    NotLoaded,   \* g_manifest before load_manifest
    Absent,      \* the file does not exist
    Torn         \* the file exists and parse_manifest rejects it

ASSUME SentinelsAreDistinct ==
    /\ {Empty, NotLoaded, Absent, Torn} \cap Manifests = {}
    /\ Empty # NotLoaded
    /\ Absent # Torn

VARIABLES
    active,      \* content of manifest.json
    backup,      \* content of manifest.bak
    temp,        \* content of manifest.tmp
    pc,          \* the next file operation of the running function
    moved,       \* active_moved of write_manifest
    writing,     \* the manifest write_manifest was given, Empty outside it
    ram,         \* what load_manifest put in g_manifest, NotLoaded before
    misread      \* history: a good file could not be read since the start

fileVars == <<active, backup, temp, pc, moved, writing, ram, misread>>

files == <<active, backup, temp>>

Content == Manifests \cup {Absent, Torn}

LoadSteps == {"load_active", "load_backup", "remove_active", "restore_backup"}

WriteSteps == {"write_temp", "remove_backup", "shelve_active", "publish",
               "rollback", "discard_temp"}

Valid(content) == content \in Manifests

FileInit ==
    /\ active = Absent /\ backup = Absent /\ temp = Absent
    /\ pc = "load_active"
    /\ moved = FALSE
    /\ writing = Empty
    /\ ram = NotLoaded
    /\ misread = FALSE

-----------------------------------------------------------------------------
(* load_manifest *)

\* read_file and parse_manifest; a good file that cannot be opened or read to
\* its end is treated as if it were missing.
LoadActive ==
    /\ pc = "load_active"
    /\ \/ Valid(active) /\ ram' = active /\ pc' = "idle" /\ misread' = misread
       \/ Valid(active) /\ ram' = ram /\ pc' = "load_backup" /\ misread' = TRUE
       \/ ~Valid(active) /\ ram' = ram /\ pc' = "load_backup" /\ misread' = misread
    /\ UNCHANGED <<files, moved, writing>>

\* Mutant of LoadBackup: the backup is put back without being parsed.
LoadBackupUnparsed ==
    /\ pc = "load_backup"
    /\ pc' = "remove_active"
    /\ UNCHANGED <<files, moved, writing, ram, misread>>

\* The backup is read and parsed; only a valid one is put back under the
\* active name, whatever made the active file unreadable.
LoadBackup ==
    /\ pc = "load_backup"
    /\ \/ Valid(backup) /\ ram' = ram /\ pc' = "remove_active" /\ misread' = misread
       \/ Valid(backup) /\ ram' = Empty /\ pc' = "idle" /\ misread' = TRUE
       \/ ~Valid(backup) /\ ram' = Empty /\ pc' = "idle" /\ misread' = misread
    /\ UNCHANGED <<files, moved, writing>>

RestoreRemovesActive ==
    /\ pc = "remove_active"
    /\ active' \in {Absent, active}
    /\ pc' = "restore_backup"
    /\ UNCHANGED <<backup, temp, moved, writing, ram, misread>>

\* The parsed backup is used whether or not the rename succeeds.
RestoreRenamesBackup ==
    /\ pc = "restore_backup"
    /\ \/ active = Absent /\ active' = backup /\ backup' = Absent
       \/ UNCHANGED <<active, backup>>
    /\ ram' = backup
    /\ pc' = "idle"
    /\ UNCHANGED <<temp, moved, writing, misread>>

-----------------------------------------------------------------------------
(* write_manifest *)

Done == pc' = "idle" /\ writing' = Empty

\* fopen of the temporary file truncates it.
OpenTemp(m) ==
    /\ pc = "idle"
    /\ writing' = m
    /\ moved' = FALSE
    /\ \/ temp' = Torn /\ pc' = "write_temp"
       \/ temp' = temp /\ pc' = "discard_temp"
    /\ UNCHANGED <<active, backup, ram, misread>>

\* Mutant of WriteTemp: the results of fwrite, fflush and fsync are ignored.
WriteTempUnchecked ==
    /\ pc = "write_temp"
    /\ temp' \in {writing, temp}
    /\ pc' = IF active # Absent THEN "remove_backup" ELSE "publish"
    /\ UNCHANGED <<active, backup, moved, writing, ram, misread>>

\* fwrite, fflush and fsync: what follows depends on access(MANIFEST_PATH),
\* which may also fail on a file that is there.
WriteTemp ==
    /\ pc = "write_temp"
    /\ \/ temp' = writing /\ active # Absent /\ pc' = "remove_backup"
       \/ temp' = writing /\ pc' = "publish"
       \/ temp' = temp /\ pc' = "discard_temp"
    /\ UNCHANGED <<active, backup, moved, writing, ram, misread>>

\* A missing backup (ENOENT) is no failure.
RemoveBackup ==
    /\ pc = "remove_backup"
    /\ \/ backup' = Absent /\ pc' = "shelve_active"
       \/ backup # Absent /\ backup' = backup /\ pc' = "discard_temp"
    /\ UNCHANGED <<active, temp, moved, writing, ram, misread>>

\* Mutant of ShelveActive: the active file is removed instead of renamed.
RemoveActiveFirst ==
    /\ pc = "shelve_active"
    /\ active' = Absent
    /\ moved' = TRUE
    /\ pc' = "publish"
    /\ UNCHANGED <<backup, temp, writing, ram, misread>>

ShelveActive ==
    /\ pc = "shelve_active"
    /\ \/ /\ backup' = active /\ active' = Absent
          /\ moved' = TRUE
          /\ pc' = "publish"
       \/ /\ pc' = "discard_temp"
          /\ UNCHANGED <<active, backup, moved>>
    /\ UNCHANGED <<temp, writing, ram, misread>>

\* The rename that makes the new generation the active one; write_manifest
\* returns true exactly when it succeeds.
Publish ==
    /\ pc = "publish"
    /\ active = Absent
    /\ active' = temp /\ temp' = Absent
    /\ Done
    /\ UNCHANGED <<backup, moved, ram, misread>>

PublishFails ==
    /\ pc = "publish"
    /\ pc' = IF moved THEN "rollback" ELSE "discard_temp"
    /\ UNCHANGED <<files, moved, writing, ram, misread>>

Rollback ==
    /\ pc = "rollback"
    /\ \/ active' = backup /\ backup' = Absent
       \/ UNCHANGED <<active, backup>>
    /\ pc' = "discard_temp"
    /\ UNCHANGED <<temp, moved, writing, ram, misread>>

\* remove(MANIFEST_TEMP_PATH), its result ignored; write_manifest returns false.
DiscardTemp ==
    /\ pc = "discard_temp"
    /\ temp' \in {Absent, temp}
    /\ Done
    /\ UNCHANGED <<active, backup, moved, ram, misread>>

-----------------------------------------------------------------------------
\* Power is lost, or the board is reset, between two file operations.
PowerLoss ==
    /\ pc' = "load_active"
    /\ writing' = Empty
    /\ moved' = FALSE
    /\ ram' = NotLoaded
    /\ misread' = FALSE
    /\ UNCHANGED files

Load == LoadActive \/ LoadBackup \/ RestoreRemovesActive \/ RestoreRenamesBackup

Write == \/ \E m \in Manifests : OpenTemp(m)
         \/ WriteTemp \/ RemoveBackup \/ ShelveActive
         \/ Publish \/ PublishFails \/ Rollback \/ DiscardTemp

FileNext == Load \/ Write \/ PowerLoss

FileSpec == FileInit /\ [][FileNext]_fileVars

-----------------------------------------------------------------------------
(* Properties *)

\* Every variable stays in its type.
FileTypeOK ==
    /\ {active, backup, temp} \subseteq Content
    /\ pc \in {"idle"} \cup LoadSteps \cup WriteSteps
    /\ moved \in BOOLEAN
    /\ writing \in Manifests \cup {Empty}
    /\ ram \in Manifests \cup {Empty, NotLoaded}
    /\ misread \in BOOLEAN

\* What load_manifest would return if power went now and every read worked.
Recovered == IF Valid(active) THEN active
             ELSE IF Valid(backup) THEN backup ELSE Empty

\* The generation behind it, kept under the backup name.
Older == IF Valid(active) /\ Valid(backup) THEN backup ELSE Empty

\* A half-written file never carries the active or the backup name, wherever
\* power goes and whichever file operation fails, so load_manifest never has
\* to tell a torn manifest from a good one (scheduled_push.cpp:498-521).
NoTornGeneration == active # Torn /\ backup # Torn

\* What the running function has already established about the files: the
\* inductive strengthening that AtomicWrite rests on.
StepFacts ==
    /\ pc \in {"remove_backup", "shelve_active"} => active \in Manifests
    /\ pc \in {"remove_backup", "shelve_active", "publish"} => temp = writing
    /\ pc = "rollback" => active = Absent
    /\ pc = "publish" /\ moved => active = Absent /\ backup \in Manifests
    /\ pc \in {"load_backup", "remove_active", "restore_backup"}
          => active = Absent \/ misread
    /\ pc \in {"rollback", "remove_active", "restore_backup"}
          => backup \in Manifests
    /\ pc \in {"write_temp", "remove_backup", "shelve_active"} => ~moved
    /\ writing # Empty <=> pc \in WriteSteps
    /\ ram = NotLoaded <=> pc \in LoadSteps

\* The file protocol implements the register of generations.  A write takes
\* effect in the one rename step or not at all, and a failed or interrupted
\* one keeps the previous generation.  A load returns what the register holds
\* unless a file that is good could not be read: only then does it return the
\* generation before or nothing, and may put the generation before in the
\* register's place (scheduled_push.cpp:459-521, 679-708).
Register == INSTANCE AtomicManifest WITH value <- Recovered, older <- Older

AtomicWrite == Register!ASpec
=============================================================================
