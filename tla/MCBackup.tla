------------------------------ MODULE MCBackup ------------------------------
(***************************************************************************)
(* Backup on a plan of three artifacts: the config directory, a volume of  *)
(* the core with two writers, and a bind mount of an add-on that both      *)
(* write to.                                                               *)
(***************************************************************************)
EXTENDS Backup

CONSTANTS Database, Service   \* the containers; the second is the add-on's

MCContainers == {Database, Service}
MCPlanned == 3
MCKind == <<"configdir", "volume", "binddir">>
MCWriters == <<{}, {Database, Service}, {Database, Service}>>

(* Only one of them carries the name that the add-on is looked up by. *)
MCSameName == <<{}, {}, {Service}>>
=============================================================================
