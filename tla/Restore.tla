------------------------------ MODULE Restore ------------------------------
(***************************************************************************)
(* papaia-ctl restore: it puts the archives of a restore point back.  A    *)
(* full restore removes all containers, replaces the config directory and  *)
(* every archived volume and directory, and starts what the bundle then    *)
(* says; a scoped one (--only) removes the containers of the selected      *)
(* units, replaces their volumes and starts the same units again while the *)
(* rest keeps serving.  --no-restart touches no container.  A run can fail *)
(* or be killed at every step.                                             *)
(***************************************************************************)
EXTENDS Plan

CONSTANTS
  Users,        \* the units whose containers really mount a volume
  Needs,        \* the profiles that a profile has a hard depends_on into
  EnabledNow,   \* the units that the bundle enables
  Missing,      \* the targets whose archive is gone from the snapshot
  Vanished,     \* the directories that no longer exist
  SamePlace,    \* the manifest records the config directory in use
  Modes,        \* how restore is called
  MaxRuns,      \* bound: how many restores are begun
  MaxFaults     \* bound: how many steps fail or are killed

Targets == Volumes \cup Dirs \cup {Config}
Scoped == {"scoped", "scoped no-restart"}
Untouched == {"no-restart", "scoped no-restart"}

ASSUME RestoreAssumption ==
  /\ Users \in [Volumes \cup Dirs -> SUBSET Units]
  /\ Needs \in [Profiles -> SUBSET Profiles]
  /\ EnabledNow \subseteq Units
  /\ Missing \subseteq Targets /\ Vanished \subseteq Dirs
  /\ SamePlace \in BOOLEAN
  /\ Modes \subseteq Scoped \cup {"full", "clean", "no-restart"}
  /\ {MaxRuns, MaxFaults} \subseteq Nat

VARIABLES
  present,   \* the add-ons whose docker-compose.yml is there
  up,        \* the units whose containers run
  data,      \* each target: "now", "point" once it is restored, "empty" once
             \* it is wiped, "part" after an extraction that broke off
  pc,        \* where the run is, "idle" when there is none
  mode,
  selected,  \* the artifacts of its plan
  rest,      \* those it has still to restore
  at,        \* the one it is extracting: one, or none
  queue,     \* the units it has still to take down or to start
  failed,    \* the artifacts counted in $failed
  torn,      \* history: what ran and was taken down by the run
  missed,    \* history: the add-ons it could not list or find
  unseen,    \* history: the volumes in use whose users it could not list
  result,    \* what restore answered last
  runs, faults

history == <<torn, missed, unseen>>
run == <<mode, selected, rest, at, queue, failed, history>>
bounds == <<present, runs, faults>>
vars == <<up, data, pc, run, result, bounds>>

Steps == {"idle", "teardown", "artifact", "extract", "restart", "log"}

Init ==
  /\ present \in SUBSET Addons
  /\ up \in SUBSET Units
  /\ data = [t \in Targets |-> "now"]
  /\ pc = "idle" /\ mode = "full"
  /\ selected = {} /\ rest = {} /\ at = {} /\ queue = {}
  /\ failed = {} /\ torn = {} /\ missed = {} /\ unseen = {}
  /\ result = "none"
  /\ runs = 0 /\ faults = 0

-----------------------------------------------------------------------------
(* The bundle.  A config directory that was wiped and not filled again has *)
(* no .env and no deployment.yaml; one that is filled in part has them.    *)
SetupDone == data[Config] # "empty"
Enabled == IF data[Config] = "now" THEN EnabledNow ELSE EnabledThen

(* docker compose accepts a set of profiles that no hard depends_on leaves.*)
Resolves(profiles) == \A p \in profiles : Needs[p] \subseteq profiles

GoTo(step) == pc' = step
Fault == faults < MaxFaults /\ faults' = faults + 1 /\ UNCHANGED <<present, runs>>

Forgotten == torn' = {} /\ missed' = {} /\ unseen' = {}

(* The end of the process. *)
Gone(answer) ==
  /\ GoTo("idle") /\ result' = answer
  /\ rest' = {} /\ at' = {} /\ queue' = {} /\ failed' = {} /\ Forgotten
  /\ UNCHANGED <<mode, selected>>

-----------------------------------------------------------------------------
(* restore-resolve, the refusals of cmd_restore, the confirmation.         *)

(* What --only is given: an accepted selection, or one that is refused,    *)
(* which all end the same.                                                 *)
Selections(m) == {{}} \cup (IF m \in Scoped THEN Accepted ELSE {})

Called(m, only) ==
  /\ pc = "idle" /\ runs < MaxRuns
  /\ m \in Modes /\ only \in Selections(m)
  /\ runs' = runs + 1 /\ UNCHANGED <<present, faults>>

(* The artifacts that the run is planned for. *)
Chosen(m, only) == IF m \in Scoped THEN Selection(only) ELSE Manifest

(* Beside the refusals of a selection: validate_target refuses a target    *)
(* that is the config directory.                                           *)
Refusable(m, only) ==
  \/ ~SetupDone
  \/ m \in Scoped /\ only \notin Accepted
  \/ Config \in Chosen(m, only) /\ SamePlace

Refuse(m, only) ==
  /\ Called(m, only) /\ Refusable(m, only)
  /\ mode' = m /\ selected' = {}
  /\ result' = "refused"
  /\ UNCHANGED <<up, data, pc, rest, at, queue, failed, history>>

Begin(m, only) ==
  /\ Called(m, only) /\ ~Refusable(m, only)
  /\ mode' = m /\ selected' = Chosen(m, only) /\ rest' = selected'
  /\ at' = {} /\ failed' = {} /\ Forgotten
  /\ queue' = IF m \in Untouched THEN {}
              ELSE IF m \in Scoped THEN Scope(selected') ELSE Enabled
  /\ GoTo(IF m \in Untouched THEN "artifact" ELSE "teardown")
  /\ result' = "none"
  /\ UNCHANGED <<up, data>>

-----------------------------------------------------------------------------
(* The teardown: add-ons first, then the core.                             *)

(* down -v deletes the named volumes of the project that nobody else uses. *)
Deleted(units) ==
  {v \in Declared :
     /\ mode = "clean"
     /\ IF Project[v] = Core THEN units \subseteq Profiles ELSE Project[v] \in units
     /\ Users[v] \cap up \subseteq units}

TakesDown(units) ==
  /\ up' = up \ units /\ torn' = torn \cup (up \cap units)
  /\ data' = [t \in Targets |-> IF t \in Deleted(units) THEN "empty" ELSE data[t]]
  /\ UNCHANGED <<mode, selected, rest, at, failed, missed, unseen, result>>

(* A full restore asks for the add-ons once to take them down and once to  *)
(* start them, each time of a command whose failure is discarded: there is *)
(* none, then, and it goes on with the core.                               *)
AddonsUnlisted ==
  /\ pc \in {"teardown", "restart"} /\ mode \in {"full", "clean"}
  /\ SetupDone /\ queue = Enabled /\ queue \cap Addons # {}
  /\ Fault
  /\ missed' = missed \cup (queue \cap Addons)
  /\ queue' = queue \cap Profiles
  /\ UNCHANGED <<up, data, pc, mode, selected, rest, at, failed, torn, unseen,
                 result>>

CoreQueue == queue \cap Profiles

(* _require_profiles_resolve, before anything is stopped. *)
TeardownRefused ==
  /\ pc = "teardown" /\ queue = Scope(selected)
  /\ mode = "scoped" /\ ~Resolves(CoreQueue)
  /\ Gone("refused")
  /\ UNCHANGED <<up, data, bounds>>

CanTearDown == pc = "teardown" /\ (mode = "scoped" => Resolves(CoreQueue))

TakeDownAddon(u) ==
  /\ CanTearDown /\ u \in queue \cap present
  /\ TakesDown({u})
  /\ queue' = queue \ {u}
  /\ UNCHANGED <<pc, bounds>>

(* A scoped restore passes over an add-on that is no longer installed; a   *)
(* full one removes it by its project name.                                *)
AddonMissing(u) ==
  /\ CanTearDown /\ u \in queue \cap (Addons \ present)
  /\ TakesDown(IF mode = "scoped" THEN {} ELSE {u})
  /\ queue' = queue \ {u}
  /\ UNCHANGED <<pc, bounds>>

(* It asks for the path of each add-on, to take it down and to start it,   *)
(* of a command whose failure is discarded: one that is installed is then  *)
(* passed over as well.                                                    *)
AddonUnfound(u) ==
  /\ mode = "scoped" /\ u \in queue \cap present
  /\ CanTearDown \/ (pc = "restart" /\ SetupDone)
  /\ Fault
  /\ missed' = missed \cup {u}
  /\ queue' = queue \ {u}
  /\ UNCHANGED <<up, data, pc, mode, selected, rest, at, failed, torn, unseen,
                 result>>

(* set -e ends the run; some containers of the add-on are gone. *)
AddonStays(u) ==
  /\ CanTearDown /\ u \in queue \cap Addons
  /\ Fault
  /\ up' \in {up, up \ {u}}
  /\ Gone("none")
  /\ UNCHANGED data

(* Seeded bug: compose is handed profiles that do not resolve, and falls   *)
(* back to everything in the project.                                      *)
TakeDownProject ==
  /\ pc = "teardown" /\ queue \subseteq Profiles
  /\ TakesDown(IF Resolves(queue) THEN queue ELSE Profiles)
  /\ queue' = {} /\ GoTo("artifact")
  /\ UNCHANGED bounds

TakeDownCore ==
  /\ CanTearDown /\ queue \subseteq Profiles
  /\ TakesDown(queue)
  /\ queue' = {} /\ GoTo("artifact")
  /\ UNCHANGED bounds

(* A scoped run only warns: the shared network is expected to stay. *)
CoreStays ==
  /\ CanTearDown /\ queue \subseteq Profiles
  /\ Fault
  /\ \E units \in SUBSET queue :
       /\ up' = up \ units
       /\ IF mode = "scoped"
          THEN /\ torn' = torn \cup (up \cap units)
               /\ queue' = {} /\ GoTo("artifact")
               /\ UNCHANGED <<mode, selected, rest, at, failed, missed, unseen,
                              result>>
          ELSE Gone("none")
  /\ UNCHANGED data

-----------------------------------------------------------------------------
(* The artifacts, in the order of the manifest.                            *)

Counted(t) ==
  /\ failed' = failed \cup {t} /\ rest' = rest \ {t}
  /\ GoTo("artifact")
  /\ UNCHANGED <<up, mode, selected, queue, history, result>>

(* docker ps -q --filter volume=... *)
InUse(t) == mode = "scoped" /\ t \in Volumes /\ Users[t] \cap up # {}

(* Only a scoped restore looks, for it leaves most of the stack up. *)
SkipInUse(t) ==
  /\ pc = "artifact" /\ t \in rest
  /\ InUse(t)
  /\ Counted(t)
  /\ UNCHANGED <<data, at, bounds>>

Restorable(t) == t \notin Missing /\ t \notin Vanished

(* Seeded bug: a missing archive is noticed by tar, after the rm. *)
SkipWiped(t) ==
  /\ pc = "artifact" /\ t \in rest
  /\ ~InUse(t) /\ ~Restorable(t)
  /\ data' = [data EXCEPT ![t] = "empty"]
  /\ Counted(t)
  /\ UNCHANGED <<at, bounds>>

(* No archive in the snapshot, or a directory whose add-on is gone. *)
SkipUnrestorable(t) ==
  /\ pc = "artifact" /\ t \in rest
  /\ ~InUse(t) /\ ~Restorable(t)
  /\ Counted(t)
  /\ UNCHANGED <<data, at, bounds>>

(* rm -rf, of whatever the target holds. *)
Wiped(t) ==
  /\ pc = "artifact" /\ t \in rest /\ Restorable(t)
  /\ data' = [data EXCEPT ![t] = "empty"]
  /\ at' = {t} /\ rest' = rest \ {t}
  /\ GoTo("extract")
  /\ UNCHANGED <<up, mode, selected, queue, failed, torn, missed, result>>

(* Seeded bug: the artifact stays in the list. *)
WipeAgain(t) ==
  /\ pc = "artifact" /\ t \in rest
  /\ ~InUse(t) /\ Restorable(t)
  /\ data' = [data EXCEPT ![t] = "empty"]
  /\ at' = {t} /\ GoTo("extract")
  /\ UNCHANGED <<up, mode, selected, rest, queue, failed, history, result,
                 bounds>>

(* Seeded bug: nobody looks who holds the volume. *)
WipeUnlooked(t) == Wiped(t) /\ UNCHANGED <<unseen, bounds>>

Wipe(t) == ~InUse(t) /\ Wiped(t) /\ UNCHANGED <<unseen, bounds>>

(* docker ps fails, and nobody is found to hold the volume. *)
WipeUnseen(t) ==
  /\ InUse(t) /\ Wiped(t) /\ Fault
  /\ unseen' = unseen \cup {t}

Extract ==
  /\ pc = "extract"
  /\ data' = [t \in Targets |-> IF t \in at THEN "point" ELSE data[t]]
  /\ at' = {} /\ GoTo("artifact")
  /\ UNCHANGED <<up, mode, selected, rest, queue, failed, history, result,
                 bounds>>

(* Seeded bug: the status of the container is lost. *)
ExtractFailureIgnored ==
  /\ pc = "extract" /\ Fault
  /\ data' = [t \in Targets |-> IF t \in at THEN "part" ELSE data[t]]
  /\ at' = {} /\ GoTo("artifact")
  /\ UNCHANGED <<up, mode, selected, rest, queue, failed, history, result>>

(* tar breaks off: the disk is full, or the archive is damaged. *)
ExtractFails ==
  /\ pc = "extract" /\ Fault
  /\ \E t \in at, left \in {"empty", "part"} :
       /\ data' = [data EXCEPT ![t] = left]
       /\ Counted(t)
  /\ at' = {}

(* docker run fails before the container has touched anything. *)
ContainerFails(t) ==
  /\ pc = "artifact" /\ t \in rest
  /\ ~InUse(t) /\ Restorable(t) /\ Fault
  /\ Counted(t)
  /\ UNCHANGED <<data, at>>

(* Seeded bug: the add-ons are not started again. *)
RestartsCoreOnly ==
  /\ pc = "artifact" /\ rest = {}
  /\ queue' = IF mode \in Untouched THEN {}
              ELSE Profiles \cap
                (IF mode \in Scoped THEN Scope(selected) ELSE Enabled)
  /\ GoTo(IF mode \in Untouched THEN "log" ELSE "restart")
  /\ UNCHANGED <<up, data, mode, selected, rest, at, failed, history, result,
                 bounds>>

ArtifactsDone ==
  /\ pc = "artifact" /\ rest = {}
  /\ queue' = IF mode \in Untouched THEN {}
              ELSE IF mode \in Scoped THEN Scope(selected) ELSE Enabled
  /\ GoTo(IF mode \in Untouched THEN "log" ELSE "restart")
  /\ UNCHANGED <<up, data, mode, selected, rest, at, failed, history, result,
                 bounds>>

-----------------------------------------------------------------------------
(* The restart: add-ons first, for an override of the core is included     *)
(* only when the network of its add-on exists.                             *)

StartAgain(u) ==
  /\ pc = "restart" /\ SetupDone
  /\ u \in queue \cap (Profiles \cup present)
  /\ u \in Addons \/ queue \cap Addons = {}
  /\ up' = up \cup {u}
  /\ queue' = queue \ {u}
  /\ UNCHANGED <<data, pc, mode, selected, rest, at, failed, history, result,
                 bounds>>

PassOver(u) ==
  /\ pc = "restart" /\ mode = "scoped"
  /\ u \in queue \cap (Addons \ present)
  /\ queue' = queue \ {u}
  /\ UNCHANGED <<up, data, pc, mode, selected, rest, at, failed, history, result,
                 bounds>>

StartedAgain ==
  /\ pc = "restart" /\ queue = {} /\ SetupDone
  /\ GoTo("log")
  /\ UNCHANGED <<up, data, run, result, bounds>>

(* cmd_start exits when the config directory was left empty, or when an    *)
(* add-on that the bundle enables has no compose file.                     *)
StartRefused ==
  /\ pc = "restart"
  /\ \/ ~SetupDone
     \/ mode # "scoped" /\ queue \cap (Addons \ present) # {}
  /\ Gone("none")
  /\ UNCHANGED <<up, data, bounds>>

(* The compatibility gate of cmd_start, or a docker compose up that fails. *)
StartFails ==
  /\ pc = "restart" /\ Fault
  /\ Gone("none")
  /\ UNCHANGED <<up, data>>

Log ==
  /\ pc = "log"
  /\ Gone(IF failed = {} THEN "ok"
          ELSE IF failed = selected THEN "failed" ELSE "partial")
  /\ UNCHANGED <<up, data, bounds>>

(* SIGKILL or power loss. *)
Killed ==
  /\ pc # "idle" /\ Fault
  /\ Gone("none")
  /\ UNCHANGED <<up, data>>

-----------------------------------------------------------------------------
Next ==
  \/ \E m \in Modes : \E only \in Selections(m) :
       Refuse(m, only) \/ Begin(m, only)
  \/ AddonsUnlisted \/ TeardownRefused \/ TakeDownCore \/ CoreStays
  \/ \E u \in Addons :
       TakeDownAddon(u) \/ AddonMissing(u) \/ AddonStays(u) \/ AddonUnfound(u)
  \/ \E t \in Targets :
       SkipInUse(t) \/ SkipUnrestorable(t) \/ Wipe(t) \/ WipeUnseen(t)
         \/ ContainerFails(t)
  \/ Extract \/ ExtractFails \/ ArtifactsDone
  \/ \E u \in Units : StartAgain(u) \/ PassOver(u)
  \/ StartedAgain \/ StartRefused \/ StartFails \/ Log \/ Killed

Spec == Init /\ [][Next]_vars

-----------------------------------------------------------------------------
(* Properties.                                                             *)

TypeOK ==
  /\ present \subseteq Addons
  /\ up \subseteq Units
  /\ data \in [Targets -> {"now", "point", "empty", "part"}]
  /\ pc \in Steps /\ mode \in Modes \cup {"full"}
  /\ selected \subseteq Targets /\ rest \subseteq selected
  /\ at \subseteq selected \ rest /\ Cardinality(at) <= 1
  /\ pc = "extract" => at # {}
  /\ queue \subseteq Units /\ torn \subseteq Units
  /\ missed \subseteq Addons /\ unseen \subseteq Volumes
  /\ failed \subseteq selected
  /\ pc = "idle" => rest = {} /\ at = {} /\ failed = {}
  /\ result \in {"none", "refused", "ok", "partial", "failed"}
  /\ runs \in Nat /\ faults \in Nat

(***************************************************************************)
(* No volume is wiped and filled under a running container of its users:   *)
(* a scoped restore passes it over, whatever docker ps names as holding    *)
(* it, and a full one has taken down every unit of the bundle, or ended    *)
(* before the first wipe, but for the add-ons that it had no list of.      *)
(***************************************************************************)
NeverUnderUsers ==
  pc = "extract" /\ mode \notin Untouched =>
    \A v \in at \cap Volumes :
      IF mode = "scoped" THEN Users[v] \cap up = {} \/ v \in unseen
      ELSE Users[v] \cap up \cap EnabledNow \cap EnabledThen \subseteq missed

(***************************************************************************)
(* A scoped restore, at every step and in every failure, leaves the config *)
(* directory and all data outside the selection alone, and takes nothing   *)
(* down but the units of the selection, never the manager it may run in.   *)
(***************************************************************************)
ScopedLeavesRest ==
  [][pc # "idle" /\ mode \in Scoped =>
       /\ \A t \in Targets \ selected : data'[t] = data[t]
       /\ up \ up' \subseteq Scope(selected) \ {Manager}
       /\ data'[Config] = data[Config]]_vars

(***************************************************************************)
(* Nothing is wiped that the restore point cannot fill again: what it does *)
(* not hold is not in the plan, and the archive, and the directory of an   *)
(* add-on, are looked for before the rm.                                   *)
(***************************************************************************)
UnrestorableKept ==
  [][mode # "clean" =>
       \A t \in Targets : t \notin Manifest \/ ~Restorable(t) => data'[t] = data[t]]_vars

(***************************************************************************)
(* "ok" is answered only when everything selected holds the data of the    *)
(* restore point, "partial" only when something does.                      *)
(***************************************************************************)
ResultTruthful ==
  /\ result = "ok" => \A t \in selected : data[t] = "point"
  /\ result = "partial" => \E t \in selected : data[t] = "point"

(***************************************************************************)
(* A restore that comes to its end has started again all that it took      *)
(* down, as far as the bundle that is in place now enables it, but for the *)
(* add-ons that it could not list or find.                                 *)
(***************************************************************************)
BroughtBack ==
  pc = "log" =>
    (IF mode \in Scoped THEN torn ELSE torn \cap Enabled) \subseteq up \cup missed

(***************************************************************************)
(* The config directory is restored into the one in use: with a setup in   *)
(* place a full restore is not refused.                                    *)
(***************************************************************************)
BundleReplayed == result = "refused" /\ SetupDone => mode \in Scoped
=============================================================================
