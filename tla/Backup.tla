------------------------------- MODULE Backup -------------------------------
(***************************************************************************)
(* papaia-ctl backup: a hot backup.  A run archives the config directory,  *)
(* the volumes and the bind mounts of the plan one after the other, each   *)
(* with its writers paused, and records what became of it.  Nothing is     *)
(* stopped and nothing is locked: operators, signals and other runs act on *)
(* the same containers between any two docker calls.                       *)
(***************************************************************************)
EXTENDS Naturals, FiniteSets

CONSTANTS
  Runs,         \* the backup runs
  Containers,
  Planned,      \* how many artifacts the plan has
  Kind,         \* "configdir", "volume" or "binddir", for each artifact
  Writers,      \* the containers that write to it
  Labelled,     \* those whose compose project is named like the owning add-on
  Commands,     \* what operators do: "pause", "unpause", "start", "stop"
  Signals,      \* the signals that runs receive: "term", "int"
  Failing,      \* what fails: "plan", "ps", "inspect", "pause", "unpause",
                \* "tar", "missing", "results", "manifest", "kill"
  MaxCommands,  \* bound: how many commands operators give
  MaxSignals,   \* bound: how many signals arrive
  MaxFaults,    \* bound: how many steps fail
  MaxEvents     \* bound: how many commands, signals and failures in all

(* The artifacts, in the order of the plan. *)
Artifacts == 1..Planned

ASSUME BackupAssumption ==
  /\ Planned \in Nat \ {0}
  /\ Kind \in [Artifacts -> {"configdir", "volume", "binddir"}]
  /\ Writers \in [Artifacts -> SUBSET Containers]
  /\ Labelled \in [Artifacts -> SUBSET Containers]
  /\ Runs \cap {"none", "operator", "nobody"} = {}
  /\ Commands \subseteq {"pause", "unpause", "start", "stop"}
  /\ Signals \subseteq {"term", "int"}
  /\ Failing \subseteq
       {"plan", "ps", "inspect", "pause", "unpause", "tar", "missing",
        "results", "manifest", "kill"}
  /\ {MaxCommands, MaxSignals, MaxFaults, MaxEvents} \subseteq Nat

VARIABLES
  state,      \* of each container: "running", "paused" or "exited"
  pausedBy,   \* history: who paused it, "none" when it is not paused,
              \* "nobody" when no process is left that will unpause it
  slipped,    \* history: the containers that, since a run has listed the
              \* writers of its artifact, it could not look at or pause, or
              \* that somebody has set running again
  pc,         \* where each run is
  art,        \* the artifact it is at
  todo,       \* the containers its loop has still to visit
  at,         \* the containers it is about to pause: one, or none
  mine,       \* _PAUSED_CONTAINERS
  failed,     \* the artifacts with a "failed" line in results.tsv
  written,    \* history: the artifacts whose archive is complete
  entry,      \* its result in the catalogue, "none" without an entry
  resumed,    \* history: an operator has unpaused or started a container
  commands, signals, faults

containers == <<state, pausedBy, slipped>>
loop == <<art, todo, at, mine>>
outcome == <<failed, written, entry>>
bounds == <<resumed, commands, signals, faults>>
vars == <<containers, pc, loop, outcome, bounds>>

Steps == {"idle", "artifact", "inspect", "pause", "tar", "unpause", "done"}

Init ==
  /\ state \in [Containers -> {"running", "exited"}]
  /\ pausedBy = [c \in Containers |-> "none"]
  /\ pc = [r \in Runs |-> "idle"]
  /\ art = [r \in Runs |-> 1]
  /\ todo = [r \in Runs |-> {}] /\ at = [r \in Runs |-> {}]
  /\ mine = [r \in Runs |-> {}]
  /\ failed = [r \in Runs |-> {}] /\ written = [r \in Runs |-> {}]
  /\ entry = [r \in Runs |-> "none"]
  /\ slipped = [r \in Runs |-> {}]
  /\ resumed = FALSE
  /\ commands = 0 /\ signals = 0 /\ faults = 0

-----------------------------------------------------------------------------
(* The docker daemon.                                                      *)

(* The runs whose writers have to stand still. *)
Reading(r) == pc[r] \in {"inspect", "pause", "tar"}

Slips(cs) ==
  [r \in Runs |-> IF Reading(r) THEN slipped[r] \cup cs ELSE slipped[r]]

(* docker pause refuses a container that is not running, docker unpause    *)
(* one that is not paused.  lost: those paused that nobody will unpause.   *)
Docker(pause, who, unpause, lost) ==
  LET pausing == {c \in pause : state[c] = "running"}
      resuming == {c \in unpause : state[c] = "paused"}
  IN /\ state' = [c \in Containers |->
          IF c \in pausing THEN "paused"
          ELSE IF c \in resuming THEN "running" ELSE state[c]]
     /\ pausedBy' = [c \in Containers |->
          IF c \in pausing THEN who
          ELSE IF c \in resuming THEN "none"
          ELSE IF c \in lost THEN "nobody" ELSE pausedBy[c]]

Resumed(cs) == {c \in cs : state[c] = "paused"}

Paused(cs, who) == Docker(cs, who, {}, {}) /\ UNCHANGED slipped
Unpaused(cs) == Docker({}, "none", cs, {}) /\ slipped' = Slips(Resumed(cs))
Abandoned(cs) == Docker({}, "none", {}, cs) /\ UNCHANGED slipped

(* Those of cs that run r holds paused. *)
Held(r, cs) == {c \in cs : pausedBy[c] = r}

(* Seeded bug: volumes too are looked up by the project label. *)
ListedByLabel(a) ==
  {c \in Containers :
     state[c] # "exited" /\ Kind[a] # "configdir" /\ c \in Labelled[a]}

(* docker ps -q with a filter: the running and the paused ones. *)
Listed(a) ==
  {c \in Containers :
     /\ state[c] # "exited"
     /\ \/ Kind[a] = "volume" /\ c \in Writers[a]
        \/ Kind[a] = "binddir" /\ c \in Labelled[a]}

-----------------------------------------------------------------------------
(* One run.                                                                *)

At(r, step) == pc[r] = step
GoTo(r, step) == pc' = [pc EXCEPT ![r] = step]
Room(n) == commands + signals + faults + n <= MaxEvents
Fault(step) ==
  /\ step \in Failing /\ faults < MaxFaults /\ Room(1)
  /\ faults' = faults + 1
  /\ UNCHANGED <<resumed, commands, signals>>

Active(r) == pc[r] \notin {"idle", "done"}

(* The process is gone, and with it what it remembers. *)
Ended(r) ==
  /\ GoTo(r, "done")
  /\ art' = [art EXCEPT ![r] = 1]
  /\ todo' = [todo EXCEPT ![r] = {}]
  /\ at' = [at EXCEPT ![r] = {}]
  /\ mine' = [mine EXCEPT ![r] = {}]

Plan(r) ==
  /\ At(r, "idle")
  /\ GoTo(r, "artifact")
  /\ UNCHANGED <<containers, loop, outcome, bounds>>

PlanFails(r) ==
  /\ At(r, "idle")
  /\ Fault("plan") /\ Ended(r)
  /\ UNCHANGED <<containers, outcome>>

ListWriters(r) ==
  /\ At(r, "artifact") /\ art[r] \in Artifacts
  /\ todo' = [todo EXCEPT ![r] = Listed(art[r])]
  /\ slipped' = [slipped EXCEPT ![r] = {}]
  /\ GoTo(r, "inspect")
  /\ UNCHANGED <<state, pausedBy, art, at, mine, outcome, bounds>>

(* "docker ps ... || true": without an answer there is nobody to pause. *)
ListFails(r) ==
  /\ At(r, "artifact") /\ art[r] \in Artifacts
  /\ Kind[art[r]] # "configdir"
  /\ Fault("ps")
  /\ todo' = [todo EXCEPT ![r] = {}]
  /\ slipped' = [slipped EXCEPT ![r] = Writers[art[r]]]
  /\ GoTo(r, "inspect")
  /\ UNCHANGED <<state, pausedBy, art, at, mine, outcome>>

(* A directory that does not exist is recorded as failed, nothing paused. *)
SourceMissing(r) ==
  /\ At(r, "artifact") /\ art[r] \in Artifacts
  /\ Kind[art[r]] # "volume"
  /\ Fault("missing")
  /\ failed' = [failed EXCEPT ![r] = @ \cup {art[r]}]
  /\ art' = [art EXCEPT ![r] = @ + 1]
  /\ UNCHANGED <<containers, pc, todo, at, mine, written, entry>>

(* docker inspect: only a running container is worth pausing. *)
Inspect(r, c) ==
  /\ At(r, "inspect") /\ c \in todo[r]
  /\ todo' = [todo EXCEPT ![r] = @ \ {c}]
  /\ IF state[c] = "running"
     THEN at' = [at EXCEPT ![r] = {c}] /\ GoTo(r, "pause")
     ELSE UNCHANGED <<at, pc>>
  /\ UNCHANGED <<containers, art, mine, outcome, bounds>>

(* "docker inspect ... || true": no answer is not "running". *)
InspectFails(r, c) ==
  /\ At(r, "inspect") /\ c \in todo[r]
  /\ Fault("inspect")
  /\ todo' = [todo EXCEPT ![r] = @ \ {c}]
  /\ slipped' = [slipped EXCEPT ![r] = @ \cup {c}]
  /\ UNCHANGED <<state, pausedBy, pc, art, at, mine, outcome>>

(* Seeded bug: the status of docker pause is not looked at. *)
PauseUnchecked(r) ==
  /\ At(r, "pause")
  /\ Paused(at[r], r)
  /\ mine' = [mine EXCEPT ![r] = @ \cup at[r]]
  /\ at' = [at EXCEPT ![r] = {}]
  /\ GoTo(r, "inspect")
  /\ UNCHANGED <<art, todo, outcome, bounds>>

(* docker pause, and only when it succeeds the entry that undoes it. *)
Pause(r) ==
  /\ At(r, "pause")
  /\ Paused(at[r], r)
  /\ mine' = [mine EXCEPT ![r] = @ \cup {c \in at[r] : state[c] = "running"}]
  /\ at' = [at EXCEPT ![r] = {}]
  /\ GoTo(r, "inspect")
  /\ UNCHANGED <<art, todo, outcome, bounds>>

(* "if docker pause ...": a failure is passed over. *)
PauseFails(r) ==
  /\ At(r, "pause")
  /\ Fault("pause")
  /\ slipped' = [slipped EXCEPT ![r] = @ \cup at[r]]
  /\ at' = [at EXCEPT ![r] = {}]
  /\ GoTo(r, "inspect")
  /\ UNCHANGED <<state, pausedBy, art, todo, mine, outcome>>

StartArchive(r) ==
  /\ At(r, "inspect") /\ todo[r] = {}
  /\ GoTo(r, "tar")
  /\ UNCHANGED <<containers, loop, outcome, bounds>>

(* Seeded bug: the bookkeeping is emptied before the loop over it. *)
ArchiveForgets(r) ==
  /\ At(r, "tar")
  /\ written' = [written EXCEPT ![r] = @ \cup {art[r]}]
  /\ mine' = [mine EXCEPT ![r] = {}]
  /\ GoTo(r, "unpause")
  /\ UNCHANGED <<containers, art, todo, at, failed, entry, bounds>>

ArchiveWritten(r) ==
  /\ At(r, "tar")
  /\ written' = [written EXCEPT ![r] = @ \cup {art[r]}]
  /\ todo' = [todo EXCEPT ![r] = mine[r]]
  /\ slipped' = [slipped EXCEPT ![r] = {}]
  /\ GoTo(r, "unpause")
  /\ UNCHANGED <<state, pausedBy, art, at, mine, failed, entry, bounds>>

(* Seeded bug: a failing tar returns at once, past the unpausing. *)
ArchiveReturnsEarly(r) ==
  /\ At(r, "tar")
  /\ Fault("tar")
  /\ failed' = [failed EXCEPT ![r] = @ \cup {art[r]}]
  /\ art' = [art EXCEPT ![r] = @ + 1]
  /\ GoTo(r, "artifact")
  /\ UNCHANGED <<containers, todo, at, mine, written, entry>>

ArchiveFails(r) ==
  /\ At(r, "tar")
  /\ Fault("tar")
  /\ todo' = [todo EXCEPT ![r] = mine[r]]
  /\ slipped' = [slipped EXCEPT ![r] = {}]
  /\ GoTo(r, "unpause")
  /\ UNCHANGED <<state, pausedBy, art, at, mine, outcome>>

Unpause(r, c) ==
  /\ At(r, "unpause") /\ c \in todo[r]
  /\ Unpaused({c})
  /\ todo' = [todo EXCEPT ![r] = @ \ {c}]
  /\ UNCHANGED <<pc, art, at, mine, outcome, bounds>>

(* "docker unpause ... || true": the loop goes on, and its end empties the *)
(* bookkeeping.                                                            *)
UnpauseFails(r, c) ==
  /\ At(r, "unpause") /\ c \in todo[r]
  /\ Fault("unpause")
  /\ Abandoned(Held(r, {c}))
  /\ todo' = [todo EXCEPT ![r] = @ \ {c}]
  /\ UNCHANGED <<pc, art, at, mine, outcome>>

(* Seeded bug: the status recorded is that of the unpausing. *)
RecordUnpausing(r) ==
  /\ At(r, "unpause") /\ todo[r] = {}
  /\ mine' = [mine EXCEPT ![r] = {}]
  /\ art' = [art EXCEPT ![r] = @ + 1]
  /\ GoTo(r, "artifact")
  /\ UNCHANGED <<containers, todo, at, outcome, bounds>>

(* The line in results.tsv: the status of tar, kept across the unpausing. *)
RecordArtifact(r) ==
  /\ At(r, "unpause") /\ todo[r] = {}
  /\ mine' = [mine EXCEPT ![r] = {}]
  /\ failed' = [failed EXCEPT ![r] = @ \cup ({art[r]} \ written[r])]
  /\ art' = [art EXCEPT ![r] = @ + 1]
  /\ GoTo(r, "artifact")
  /\ UNCHANGED <<containers, todo, at, written, entry, bounds>>

(* set -e ends the run when the line cannot be appended. *)
RecordFails(r) ==
  /\ At(r, "unpause") /\ todo[r] = {}
  /\ Fault("results") /\ Ended(r)
  /\ UNCHANGED <<containers, outcome>>

(* The artifacts that the manifest offers to a restore. *)
Offered(r) == Artifacts \ failed[r]

Result(r) ==
  IF failed[r] = {} THEN "ok"
  ELSE IF failed[r] # Artifacts THEN "partial" ELSE "failed"

Finish(r) ==
  /\ At(r, "artifact") /\ art[r] \notin Artifacts
  /\ entry' = [entry EXCEPT ![r] = Result(r)]
  /\ Ended(r)
  /\ UNCHANGED <<containers, failed, written, bounds>>

ManifestFails(r) ==
  /\ At(r, "artifact") /\ art[r] \notin Artifacts
  /\ Fault("manifest") /\ Ended(r)
  /\ UNCHANGED <<containers, outcome>>

(* SIGKILL or power loss: no handler runs, no entry is written, and what   *)
(* the run has paused stays so.                                            *)
Killed(r) ==
  /\ Active(r)
  /\ Fault("kill") /\ Ended(r)
  /\ Docker({}, "none", {}, Held(r, Containers))
  /\ slipped' = [slipped EXCEPT ![r] = {}]
  /\ UNCHANGED outcome

Step(r) ==
  \/ Plan(r) \/ ListWriters(r) \/ Pause(r) \/ StartArchive(r)
  \/ ArchiveWritten(r) \/ RecordArtifact(r) \/ Finish(r)
  \/ \E c \in Containers : Inspect(r, c) \/ Unpause(r, c)

Fails(r) ==
  \/ PlanFails(r) \/ SourceMissing(r) \/ PauseFails(r) \/ ArchiveFails(r)
  \/ RecordFails(r) \/ ManifestFails(r) \/ Killed(r) \/ ListFails(r)
  \/ \E c \in Containers : InspectFails(r, c) \/ UnpauseFails(r, c)

-----------------------------------------------------------------------------
(* Signals.  Bash runs the handler between two commands and then goes on   *)
(* with the next one: _backup_cleanup unpauses but does not exit.  While a *)
(* command runs in the foreground the handler waits for its end.           *)

(* interrupted: what Ctrl-C has left paused; stuck: those of its containers *)
(* that docker unpause fails on.                                           *)
Cleanup(r, interrupted, stuck) ==
  /\ signals < MaxSignals /\ signals' = signals + 1 /\ Room(1)
  /\ Docker(interrupted, "nobody", mine[r] \ stuck, Held(r, stuck))
  /\ mine' = [mine EXCEPT ![r] = {}]
  /\ \/ stuck = {} /\ UNCHANGED faults
     \/ /\ stuck # {} /\ "unpause" \in Failing /\ Room(2)
        /\ faults < MaxFaults /\ faults' = faults + 1
  /\ UNCHANGED <<art, todo, outcome, resumed, commands>>

Trap(r) ==
  /\ Signals # {}
  /\ pc[r] \in {"artifact", "inspect", "pause", "unpause"}
  /\ \E stuck \in SUBSET mine[r] :
       /\ Cleanup(r, {}, stuck)
       /\ slipped' = Slips(Resumed(mine[r] \ stuck))
  /\ UNCHANGED <<pc, at>>

(* Ctrl-C also reaches the docker pause in the foreground: the daemon may  *)
(* have done it, but the client has failed and the run enters nothing.     *)
InterruptPause(r) ==
  /\ "int" \in Signals
  /\ At(r, "pause")
  /\ \E cs \in SUBSET at[r], stuck \in SUBSET mine[r] :
       /\ Cleanup(r, cs, stuck)
       /\ slipped' = [Slips(Resumed(mine[r] \ stuck)) EXCEPT
                        ![r] = @ \cup (at[r] \ cs)]
  /\ at' = [at EXCEPT ![r] = {}]
  /\ GoTo(r, "inspect")

-----------------------------------------------------------------------------
(* Operators, with docker.                                                 *)

Command(command) ==
  /\ command \in Commands
  /\ commands < MaxCommands /\ commands' = commands + 1 /\ Room(1)
  /\ resumed' = (resumed \/ command \in {"unpause", "start"})
  /\ UNCHANGED <<pc, loop, outcome, signals, faults>>

OperatorPauses(c) ==
  /\ Command("pause") /\ state[c] = "running"
  /\ Paused({c}, "operator")

OperatorUnpauses(c) ==
  /\ Command("unpause") /\ state[c] = "paused"
  /\ Unpaused({c})

OperatorStops(c) ==
  /\ Command("stop") /\ state[c] # "exited"
  /\ state' = [state EXCEPT ![c] = "exited"]
  /\ pausedBy' = [pausedBy EXCEPT ![c] = "none"]
  /\ UNCHANGED slipped

OperatorStarts(c) ==
  /\ Command("start") /\ state[c] = "exited"
  /\ state' = [state EXCEPT ![c] = "running"]
  /\ slipped' = Slips({c})
  /\ UNCHANGED pausedBy

Operator ==
  \E c \in Containers :
    \/ OperatorPauses(c) \/ OperatorUnpauses(c)
    \/ OperatorStops(c) \/ OperatorStarts(c)

-----------------------------------------------------------------------------
Next ==
  \/ \E r \in Runs : Step(r) \/ Fails(r) \/ Trap(r) \/ InterruptPause(r)
  \/ Operator

Spec == Init /\ [][Next]_vars

(* A run is one process that is never waiting for another. *)
FairSpec == Spec /\ \A r \in Runs : WF_vars(Step(r))

-----------------------------------------------------------------------------
(* Properties.                                                             *)

TypeOK ==
  /\ state \in [Containers -> {"running", "paused", "exited"}]
  /\ pausedBy \in [Containers -> Runs \cup {"none", "operator", "nobody"}]
  /\ \A c \in Containers : pausedBy[c] = "none" <=> state[c] # "paused"
  /\ pc \in [Runs -> Steps]
  /\ art \in [Runs -> Nat \ {0}]
  /\ \A r \in Runs :
       pc[r] \in {"inspect", "pause", "tar", "unpause"} => art[r] \in Artifacts
  /\ todo \in [Runs -> SUBSET Containers]
  /\ at \in [Runs -> SUBSET Containers]
  /\ mine \in [Runs -> SUBSET Containers]
  /\ \A r \in Runs : pc[r] \in {"idle", "artifact"} => mine[r] = {}
  /\ failed \in [Runs -> SUBSET Artifacts]
  /\ written \in [Runs -> SUBSET Artifacts]
  /\ entry \in [Runs -> {"none", "ok", "partial", "failed"}]
  /\ slipped \in [Runs -> SUBSET Containers]
  /\ resumed \in BOOLEAN
  /\ commands \in Nat /\ signals \in Nat /\ faults \in Nat

(* So far no signal, and no container that an operator has brought back.   *)
Undisturbed == signals = 0 /\ ~resumed

(* The writers of an artifact that docker ps knows as such.                *)
Known(a) ==
  IF Kind[a] = "volume" THEN Writers[a]
  ELSE IF Kind[a] = "binddir" THEN Writers[a] \cap Labelled[a] ELSE {}

(***************************************************************************)
(* A volume or bind mount is archived while none of its writers runs,      *)
(* whatever comes between listing them, looking at them, pausing them and  *)
(* reading: one that does run has been set running by somebody else in     *)
(* that time, or docker has failed to list, to show or to pause it.        *)
(***************************************************************************)
FrozenDuringArchive ==
  \A r \in Runs :
    pc[r] = "tar" =>
      \A c \in Known(art[r]) : state[c] = "running" => c \in slipped[r]

(***************************************************************************)
(* A container is held paused by a run only for the archive it is at, and  *)
(* one that it lists for it: the pause ends with the archive, whether that *)
(* succeeds, fails or is interrupted by a signal.  What docker unpause     *)
(* fails on, Ctrl-C cuts off or SIGKILL leaves is nobody's afterwards; it  *)
(* keeps no other container paused.                                        *)
(***************************************************************************)
PausedForItsArchive ==
  \A r \in Runs, c \in Containers :
    pausedBy[c] = r =>
      /\ pc[r] \in {"inspect", "pause", "tar", "unpause"}
      /\ c \in Writers[art[r]] \cup Labelled[art[r]]

(***************************************************************************)
(* A container that an operator has paused stays paused until an operator  *)
(* changes that: no run takes it for one of its own.                       *)
(***************************************************************************)
OperatorPauseKept ==
  [][Undisturbed' => \A c \in Containers :
       pausedBy[c] = "operator" /\ ~Operator => state'[c] = "paused"]_vars

(***************************************************************************)
(* The catalogue tells the truth about the archives: a restore point is    *)
(* "ok" only with every archive complete, "partial" only with one complete *)
(* and one not, "failed" only with none; and its manifest offers exactly   *)
(* the complete ones to a restore.                                         *)
(***************************************************************************)
ResultTruthful ==
  \A r \in Runs :
    /\ entry[r] = "ok" => written[r] = Artifacts
    /\ entry[r] = "partial" => written[r] \notin {{}, Artifacts}
    /\ entry[r] = "failed" => written[r] = {}
    /\ entry[r] # "none" => Offered(r) = written[r]

(***************************************************************************)
(* Every container that a run pauses runs again in the end, unless someone *)
(* else has taken it over, or it is one that docker unpause has failed on  *)
(* or a SIGKILL of the run has left.                                       *)
(***************************************************************************)
AlwaysReleased ==
  \A r \in Runs, c \in Containers : pausedBy[c] = r ~> pausedBy[c] # r
=============================================================================
