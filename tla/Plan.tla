-------------------------------- MODULE Plan --------------------------------
(***************************************************************************)
(* What a backup archives and what a part of it is.  build_plan reads the  *)
(* compose files, the volumes that docker lists and the add-ons of the     *)
(* deployment; the manifest keeps what was archived, grouped by module and *)
(* add-on; restore --only picks groups or volumes of it and is told which  *)
(* units have to be bounced for them.                                      *)
(***************************************************************************)
EXTENDS Naturals, FiniteSets, Sequences

CONSTANTS
  Profiles,     \* the compose profiles of the core
  Addons,       \* the add-ons, each a compose project of its own
  Core,         \* the compose project of the core
  Volumes,      \* the named volumes that compose files declare or docker lists
  Dirs,         \* the directories that add-ons mount
  Config,       \* the config directory
  Project,      \* the compose project of each volume and directory
  Compose,      \* the services of the core, in the order of the compose files:
                \* their module label, profiles and the volumes they mount
  Declared,     \* the volumes that are declared in a compose file
  Existing,     \* those that docker lists, {} when it cannot be asked
  Unlabelled,   \* those without a compose label: restored or made by hand
  Mounts,       \* the bind mounts of the add-ons: directory, whether it is
                \* read-only, and whether it is user data: an existing
                \* directory outside the config directory
  EnabledThen,  \* the units that the deployment enables when it is archived
  Unarchived,   \* the artifacts without "ok" in results.tsv
  Modules,      \* the names that module labels have
  NoModule,     \* the label of a service without one
  Manager,      \* SELF_PROFILE, the name of a profile and of a module
  MaxSelectors  \* MAX_SELECTORS

ASSUME PlanAssumption ==
  /\ Project \in [Volumes \cup Dirs -> {Core} \cup Addons]
  /\ Core \notin Addons /\ Profiles \cap Addons = {}
  /\ Volumes \cap Dirs = {} /\ Config \notin Volumes \cup Dirs
  /\ Compose \in Seq([module : Modules \cup {NoModule},
                      profiles : SUBSET Profiles, mounts : SUBSET Volumes])
  /\ NoModule \notin Modules /\ Manager \in Profiles
  /\ Declared \subseteq Volumes /\ Existing \subseteq Volumes
  /\ Unlabelled \subseteq Existing
  /\ Mounts \subseteq [dir : Dirs, readonly : BOOLEAN, data : BOOLEAN]
  /\ EnabledThen \subseteq Profiles \cup Addons
  /\ Unarchived \subseteq Volumes \cup Dirs \cup {Config}
  /\ MaxSelectors \in Nat

Units == Profiles \cup Addons

-----------------------------------------------------------------------------
(* The plan.                                                               *)

(* resolve_core_volume_owners: who mounts a volume of the core.  A source  *)
(* that is no declared volume is not counted.                              *)
Mounters(v) == {i \in DOMAIN Compose : v \in Compose[i].mounts \cap Declared}

(* The unit that an operator picks: the first module label of the services *)
(* that mount it, or the add-on.                                           *)
ModuleOf(t) ==
  LET labelled == {i \in Mounters(t) : Compose[i].module # NoModule}
  IN IF Project[t] # Core THEN Project[t]
     ELSE IF labelled = {} THEN NoModule
     ELSE Compose[CHOOSE i \in labelled : \A j \in labelled : i <= j].module

(* What a teardown can act on: the profiles of every service that mounts   *)
(* it, or the add-on as a whole.                                           *)
Recorded ==
  [t \in Volumes \cup Dirs |->
     IF Project[t] # Core THEN {Project[t]}
     ELSE UNION {Compose[i].profiles : i \in Mounters(t)}]

(* _project_volumes: what carries the label of the project, declared or    *)
(* not, and what is declared and there without it; everything declared     *)
(* when docker could not be asked.                                         *)
ProjectVolumes(p) ==
  {v \in Volumes :
     /\ Project[v] = p
     /\ IF Existing = {} THEN v \in Declared
        ELSE v \in Existing /\ (v \in Unlabelled => v \in Declared)}

(* Reported, and not attempted: a profile that was never started.          *)
Skipped(p) ==
  {v \in Declared : Project[v] = p /\ Existing # {} /\ v \notin Existing}

(* addon_bind_dirs: a mount of its own data that the add-on may write.     *)
BindDirs(p) ==
  {d \in Dirs :
     Project[d] = p /\ \E m \in Mounts : m.dir = d /\ ~m.readonly /\ m.data}

Projects == {Core} \cup (EnabledThen \cap Addons)

Planned ==
  {Config} \cup UNION {ProjectVolumes(p) \cup BindDirs(p) : p \in Projects}

(* write_manifest: what has failed is left out. *)
Manifest == Planned \ Unarchived

-----------------------------------------------------------------------------
(* Selections.                                                             *)

Selector(kind, name) == [kind |-> kind, name |-> name]

Selectors ==
  {Selector("module", m) : m \in Modules} \cup
  {Selector("volume", v) : v \in Volumes} \cup
  {Selector("addon", a) : a \in Addons}

Matches(s, t) ==
  /\ t # Config
  /\ CASE s.kind = "volume" -> t = s.name
       [] s.kind = "addon" -> Project[t] = s.name
       [] s.kind = "module" -> Project[t] = Core /\ ModuleOf(t) = s.name

Selection(only) == {t \in Manifest : \E s \in only : Matches(s, t)}

(* What has to be bounced for it. *)
Scope(targets) == UNION {Recorded[t] : t \in targets \ {Config}}

(* parse_selectors and resolve_selection: nothing is repaired, and the     *)
(* manager cannot restore over itself.                                     *)
SelectionRefused(only) ==
  \/ only = {} \/ Cardinality(only) > MaxSelectors
  \/ Selector("module", Manager) \in only
  \/ \E s \in only : \A t \in Manifest : ~Matches(s, t)
  \/ Manager \in Scope(Selection(only))

Accepted == {only \in SUBSET Selectors : ~SelectionRefused(only)}
=============================================================================
