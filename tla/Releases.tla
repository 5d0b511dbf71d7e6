------------------------------ MODULE Releases ------------------------------
(***************************************************************************)
(* The data an upgrade is computed from: the releases of the core          *)
(* repository and the migration scripts each of them ships.                *)
(***************************************************************************)
EXTENDS Naturals

CONSTANTS
  Versions,     \* the releases, numbered in SemVer precedence
  PreReleases,  \* those among them that carry a pre-release part
  Migrations,   \* the migration scripts, numbered in execution order
  ShipsWith,    \* the release each migration ships with
  Installed     \* the release the bundle was seeded at

(***************************************************************************)
(* Execution order is (version, slug): a script with a smaller number does *)
(* not ship with a later release.                                          *)
(***************************************************************************)
ASSUME ReleasesAssumption ==
  /\ Versions \subseteq Nat
  /\ PreReleases \subseteq Versions
  /\ Installed \in Versions
  /\ Migrations \subseteq Nat \ {0}
  /\ ShipsWith \in [Migrations -> Versions]
  /\ \A k, m \in Migrations : k < m => ShipsWith[k] <= ShipsWith[m]

(***************************************************************************)
(* The migrations between two releases, half-open on the left: a release   *)
(* that is installed brought its own migrations with it.                   *)
(***************************************************************************)
Between(low, high) ==
  {m \in Migrations : low < ShipsWith[m] /\ ShipsWith[m] <= high}

(***************************************************************************)
(* What a checkout finds in tools/migrations: every release carries the    *)
(* complete set up to its own version.                                     *)
(***************************************************************************)
Shipped(checkout) == {m \in Migrations : ShipsWith[m] <= checkout}

(* Seeded bug: the interval is open on the right. *)
PendingBelow(checkout, from, to, recorded) ==
  {m \in Shipped(checkout) \ recorded : from < ShipsWith[m] /\ ShipsWith[m] < to}

(***************************************************************************)
(* The migrations due for from -> to: shipped, in the interval, and not on *)
(* record.                                                                 *)
(***************************************************************************)
Pending(checkout, from, to, recorded) ==
  (Shipped(checkout) \cap Between(from, to)) \ recorded

(***************************************************************************)
(* The target of an upgrade that names none: a pre-release is never picked *)
(* implicitly.                                                             *)
(***************************************************************************)
IsLatest(v) ==
  /\ v \in Versions \ PreReleases
  /\ \A w \in Versions \ PreReleases : w <= v
=============================================================================
