----------------------------- MODULE MCDiskLog -----------------------------
(* Small instances of DiskLog for TLC. *)
EXTENDS DiskLog
=============================================================================
