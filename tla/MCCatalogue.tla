---------------------------- MODULE MCCatalogue ----------------------------
(***************************************************************************)
(* Catalogue with its processes as model values, which can be exchanged    *)
(* for each other.                                                         *)
(***************************************************************************)
EXTENDS Catalogue, TLC

CONSTANTS Manager, Cron   \* papaia-manager's scheduler, and the host's

Interchangeable == Permutations({Manager, Cron})
=============================================================================
