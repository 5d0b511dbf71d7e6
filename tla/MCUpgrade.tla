----------------------------- MODULE MCUpgrade -----------------------------
(***************************************************************************)
(* Upgrade on three releases, the middle one a pre-release, with three     *)
(* migrations: two that ship together, the second of which reshapes a      *)
(* volume, and one that ships with the last release.                       *)
(***************************************************************************)
EXTENDS Upgrade

MCVersions == 1..3
MCPreReleases == {2}
MCMigrations == 1..3
MCShipsWith == <<2, 2, 3>>
MCInVolume == {2}
=============================================================================
