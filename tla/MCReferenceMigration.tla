------------------------ MODULE MCReferenceMigration ------------------------
(* ReferenceMigration with a change of the room and a failing call, or with two *)
(* failing calls.                                                               *)
EXTENDS ReferenceMigration

MCSpec == MigrationInit /\ [][MigrationNext /\ subject' + faults' <= 2]_vars
=============================================================================
