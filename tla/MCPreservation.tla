---------------------------- MODULE MCPreservation ----------------------------
(* A small instance of Preservation for TLC: two imports of one backup. *)
EXTENDS Preservation

TheBackup == [r \in Restore |-> CHOOSE b \in Backup : TRUE]
=============================================================================
