------------------------- MODULE MCDatabaseRestore -------------------------
(* DatabaseRestore with two backups kept. *)
EXTENDS DatabaseRestore

CONSTANTS torn, undefined
=============================================================================
