--------------------------- MODULE MCManifestFile ---------------------------
(* Three generations: enough for the active, the backup and the one being   *)
(* written to be all different.                                             *)
EXTENDS ManifestFile
CONSTANTS m1, m2, m3
MCManifests == {m1, m2, m3}
=============================================================================
