--------------------------- MODULE MCBackupRestore ---------------------------
(***************************************************************************)
(* BackupRestore with documents named in the runs.                          *)
(***************************************************************************)
EXTENDS BackupRestore
CONSTANTS a, b, c
=============================================================================
