------------------------------- MODULE Compat -------------------------------
(***************************************************************************)
(* The verdict on an add-on against a core (tools/lib/compat.py), and the  *)
(* policy that install, start and upgrade apply to it.  Everything that a  *)
(* core or a manifest may leave out is a set of at most one element.       *)
(***************************************************************************)
EXTENDS SemVer

CONSTANT Services   \* the names of compose services

None == {}
IsOption(o, S) == o \subseteq S /\ \A x, y \in o : x = y
The(option) == CHOOSE x \in option : TRUE

Window == {w \in [min : Nat, current : Nat] : w.min <= w.current}

(* CoreTarget: the platform version, the ADDON_API window, the services.   *)
IsCore(c) ==
  /\ DOMAIN c = {"platform_version", "addon_api", "services"}
  /\ IsOption(c.platform_version, Version)
  /\ IsOption(c.addon_api, Window)
  /\ IsOption(c.services, SUBSET Services)

(* A manifest.  "malformed" stands for whatever is reported whatever the   *)
(* core is; a papaia_compat that is no constraint, which has no clauses,   *)
(* is found only when that axis decides.                                   *)
IsManifest(m) ==
  /\ DOMAIN m = {"malformed", "addon_api", "papaia_compat", "attach"}
  /\ m.malformed \in BOOLEAN
  /\ IsOption(m.addon_api, SUBSET Nat \ {{}})
  /\ IsOption(m.papaia_compat, SUBSET Clause)
  /\ m.attach \in SUBSET Services

Serves(window, generations) ==
  \E g \in generations : window.min <= g /\ g <= window.current

Unparsable == {}

RangeStatus(version, range) ==
  IF range = Unparsable THEN "ERROR"
  ELSE IF satisfies(version, range) THEN "OK" ELSE "INCOMPATIBLE"

(* The contract generation decides where both sides know it, then the      *)
(* range; a manifest that neither axis can judge is UNKNOWN.               *)
AxisStatus(m, core) ==
  IF m.addon_api # None /\ core.addon_api # None
  THEN IF Serves(The(core.addon_api), The(m.addon_api)) THEN "OK" ELSE "INCOMPATIBLE"
  ELSE IF m.papaia_compat # None /\ core.platform_version # None
  THEN RangeStatus(The(core.platform_version), The(m.papaia_compat))
  ELSE "UNKNOWN"

(* networks.attach may only name services the core has, if they are known. *)
Attaches(m, core) ==
  m.attach = {} \/ core.services = None \/ m.attach \subseteq The(core.services)

evaluate_addon(m, core) ==
  IF m.malformed THEN "ERROR"
  ELSE IF AxisStatus(m, core) \in {"OK", "UNKNOWN"} /\ ~ Attaches(m, core)
  THEN "INCOMPATIBLE"
  ELSE AxisStatus(m, core)

(* gate: what lets a command go on.  --force is a matter of the command,   *)
(* the mode one of the deployment.                                         *)
Tolerated(status, mode, force) ==
  /\ status # "ERROR"
  /\ status = "INCOMPATIBLE" => mode = "warn" \/ force
gate(statuses, mode, force) == \A s \in statuses : Tolerated(s, mode, force)

-----------------------------------------------------------------------------
(* How ADR 0002 lets a core change its seams: an additive change raises    *)
(* the current generation only, and takes no service away.                 *)
Additive(old, new) ==
  /\ old.addon_api # None /\ new.addon_api # None
  /\ The(new.addon_api).min = The(old.addon_api).min
  /\ The(new.addon_api).current >= The(old.addon_api).current
  /\ old.services # None
  /\ new.services # None => The(old.services) \subseteq The(new.services)

(* A breaking one closes the window below the new generation. *)
Breaking(old, new) ==
  /\ old.addon_api # None /\ new.addon_api # None
  /\ The(new.addon_api).current = The(old.addon_api).current + 1
  /\ The(new.addon_api).min = The(new.addon_api).current
=============================================================================
