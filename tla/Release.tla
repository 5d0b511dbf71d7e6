------------------------------ MODULE Release ------------------------------
(***************************************************************************)
(* What an upgrade promises about a config bundle, whatever fails on the   *)
(* way: migrations are recorded one at a time and in execution order, none *)
(* is recorded twice, and the version of the bundle only moves forward,    *)
(* over migrations that are all on record.  Upgrade is shown to implement  *)
(* this specification.                                                     *)
(***************************************************************************)
EXTENDS Releases

VARIABLES
  applied,      \* the migrations on record
  platform      \* the release the bundle was last migrated to

vars == <<applied, platform>>

Init == applied = {} /\ platform = Installed

Apply(m) ==
  /\ m \notin applied
  /\ platform < ShipsWith[m]
  /\ \A k \in Migrations : k < m /\ platform < ShipsWith[k] => k \in applied
  /\ applied' = applied \cup {m}
  /\ UNCHANGED platform

Advance(v) ==
  /\ platform < v
  /\ Between(platform, v) \subseteq applied
  /\ platform' = v
  /\ UNCHANGED applied

Next ==
  \/ \E m \in Migrations : Apply(m)
  \/ \E v \in Versions : Advance(v)

Spec == Init /\ [][Next]_vars
=============================================================================
