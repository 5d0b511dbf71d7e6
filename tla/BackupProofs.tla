---------------------------- MODULE BackupProofs ----------------------------
(***************************************************************************)
(* Theorems of Backup, for every plan and any number of containers, runs   *)
(* and operators' commands.                                                *)
(***************************************************************************)
EXTENDS Backup, TLAPS

(* Nobody but the docker daemon changes a container. *)
LEMMA DockerType ==
  ASSUME TypeOK, NEW pause \in SUBSET Containers, NEW unpause \in SUBSET Containers,
         NEW who \in Runs \cup {"none", "operator", "nobody"},
         pause = {} \/ who # "none",
         NEW r \in Runs, NEW lost \in SUBSET Containers,
         Docker(pause, who, unpause, Held(r, lost))
  PROVE  /\ state' \in [Containers -> {"running", "paused", "exited"}]
         /\ pausedBy' \in [Containers -> Runs \cup {"none", "operator", "nobody"}]
         /\ \A c \in Containers : pausedBy'[c] = "none" <=> state'[c] # "paused"
<1> USE BackupAssumption DEF BackupAssumption
<1> DEFINE forgotten == Held(r, lost)
<1>1. \A c \in forgotten : state[c] = "paused"
  BY DEF Held, TypeOK
<1>2. Docker(pause, who, unpause, forgotten)
  OBVIOUS
<1> HIDE DEF forgotten
<1>3. /\ state' \in [Containers -> {"running", "paused", "exited"}]
      /\ pausedBy' \in [Containers -> Runs \cup {"none", "operator", "nobody"}]
  BY <1>2 DEF Docker, TypeOK
<1>4. ASSUME NEW c \in Containers
      PROVE  pausedBy'[c] = "none" <=> state'[c] # "paused"
  BY <1>1, <1>2 DEF Docker, TypeOK
<1> QED
  BY <1>3, <1>4

(* Pausing, and unpausing, which leaves nobody's name on a container. *)
LEMMA PauseType ==
  ASSUME TypeOK, NEW cs \in SUBSET Containers,
         NEW who \in Runs \cup {"operator", "nobody"},
         Docker(cs, who, {}, {}) \/ Docker({}, "none", cs, {})
  PROVE  /\ state' \in [Containers -> {"running", "paused", "exited"}]
         /\ pausedBy' \in [Containers -> Runs \cup {"none", "operator", "nobody"}]
         /\ \A c \in Containers : pausedBy'[c] = "none" <=> state'[c] # "paused"
<1> USE BackupAssumption DEF BackupAssumption
<1>1. /\ state' \in [Containers -> {"running", "paused", "exited"}]
      /\ pausedBy' \in [Containers -> Runs \cup {"none", "operator", "nobody"}]
  BY DEF Docker, TypeOK
<1>2. ASSUME NEW c \in Containers
      PROVE  pausedBy'[c] = "none" <=> state'[c] # "paused"
  BY DEF Docker, TypeOK
<1> QED
  BY <1>1, <1>2

LEMMA SlipsType ==
  ASSUME TypeOK, NEW cs \in SUBSET Containers
  PROVE  Slips(cs) \in [Runs -> SUBSET Containers]
BY DEF Slips, TypeOK

(***************************************************************************)
(* Every step keeps the state variables in their types.                    *)
(***************************************************************************)
THEOREM TypeCorrect == Spec => []TypeOK
<1> USE BackupAssumption DEF BackupAssumption
<1> DEFINE ContainersOK ==
      /\ state \in [Containers -> {"running", "paused", "exited"}]
      /\ pausedBy \in [Containers -> Runs \cup {"none", "operator", "nobody"}]
      /\ \A c \in Containers : pausedBy[c] = "none" <=> state[c] # "paused"
<1>1. Init => TypeOK
  <2> SUFFICES ASSUME Init PROVE TypeOK
    OBVIOUS
  <2>1. resumed \in BOOLEAN
    BY DEF Init
  <2> QED BY <2>1 DEF Init, TypeOK, Steps
<1>2. TypeOK /\ [Next]_vars => TypeOK'
  <2> SUFFICES ASSUME TypeOK, [Next]_vars PROVE TypeOK'
    OBVIOUS
  <2> USE DEF TypeOK, Steps, containers, loop, outcome, bounds, At, GoTo
  <2>1. ASSUME NEW r \in Runs, Step(r) PROVE TypeOK'
    <3>1. CASE Plan(r) BY <3>1 DEF Plan
    <3>2. CASE ListWriters(r)
      <4>1. Listed(art[r]) \in SUBSET Containers
        BY DEF Listed
      <4> QED BY <3>2, <4>1 DEF ListWriters
    <3>3. CASE Pause(r)
      <4>1. at[r] \in SUBSET Containers
        OBVIOUS
      <4>2. ContainersOK'
        BY <3>3, <4>1, PauseType DEF Pause, Paused
      <4>3. mine' \in [Runs -> SUBSET Containers]
        BY <3>3, <4>1 DEF Pause
      <4> QED BY <3>3, <4>2, <4>3 DEF Pause, Paused
    <3>4. CASE StartArchive(r) BY <3>4 DEF StartArchive
    <3>5. CASE ArchiveWritten(r)
      BY <3>5 DEF ArchiveWritten
    <3>6. CASE RecordArtifact(r)
      <4>1. failed' \in [Runs -> SUBSET Artifacts]
        <5>1. {art[r]} \ written[r] \subseteq Artifacts
          BY <3>6 DEF RecordArtifact
        <5> QED BY <3>6, <5>1 DEF RecordArtifact
      <4> QED BY <3>6, <4>1 DEF RecordArtifact
    <3>7. CASE Finish(r) BY <3>7, SMTT(30) DEF Finish, Ended, Result
    <3>8. ASSUME NEW c \in Containers, Inspect(r, c) PROVE TypeOK'
      BY <3>8, SMTT(30) DEF Inspect
    <3>9. ASSUME NEW c \in Containers, Unpause(r, c) PROVE TypeOK'
      <4>1. ContainersOK'
        BY <3>9, PauseType DEF Unpause, Unpaused
      <4>2. slipped' \in [Runs -> SUBSET Containers]
        BY <3>9, SlipsType DEF Unpause, Unpaused, Resumed
      <4>3. /\ todo' = [todo EXCEPT ![r] = @ \ {c}]
            /\ UNCHANGED <<pc, art, at, mine, outcome, bounds>>
        BY <3>9 DEF Unpause
      <4>4. todo' \in [Runs -> SUBSET Containers]
        BY <4>3
      <4> QED BY <4>1, <4>2, <4>3, <4>4
    <3> QED
      BY <2>1, <3>1, <3>2, <3>3, <3>4, <3>5, <3>6, <3>7, <3>8, <3>9 DEF Step
  <2>2. ASSUME NEW r \in Runs, Fails(r) PROVE TypeOK'
    <3> USE DEF Fault, Ended
    <3>1. CASE PlanFails(r) BY <3>1 DEF PlanFails
    <3>2. CASE SourceMissing(r) BY <3>2 DEF SourceMissing
    <3>3. CASE PauseFails(r) BY <3>3 DEF PauseFails
    <3>4. CASE ArchiveFails(r) BY <3>4 DEF ArchiveFails
    <3>5. CASE RecordFails(r) BY <3>5 DEF RecordFails
    <3>6. CASE ManifestFails(r) BY <3>6 DEF ManifestFails
    <3>7. CASE Killed(r)
      <4>1. ContainersOK'
        BY <3>7, DockerType DEF Killed
      <4> QED BY <3>7, <4>1 DEF Killed
    <3>8. CASE ListFails(r) BY <3>8 DEF ListFails
    <3>9. ASSUME NEW c \in Containers, InspectFails(r, c) PROVE TypeOK'
      BY <3>9 DEF InspectFails
    <3>10. ASSUME NEW c \in Containers, UnpauseFails(r, c) PROVE TypeOK'
      <4>1. ContainersOK'
        <5>1. Docker({}, "none", {}, Held(r, {c})) /\ {c} \in SUBSET Containers
          BY <3>10 DEF UnpauseFails, Abandoned
        <5> QED BY <5>1, DockerType
      <4> QED BY <3>10, <4>1 DEF UnpauseFails, Abandoned
    <3> QED
      BY <2>2, <3>1, <3>2, <3>3, <3>4, <3>5, <3>6, <3>7, <3>8, <3>9, <3>10
         DEF Fails
  <2>3. ASSUME NEW r \in Runs, Trap(r) PROVE TypeOK'
    <3>1. PICK stuck \in SUBSET mine[r] :
            /\ Cleanup(r, {}, stuck)
            /\ slipped' = Slips(Resumed(mine[r] \ stuck))
      BY <2>3 DEF Trap
    <3>2. stuck \in SUBSET Containers /\ mine[r] \ stuck \in SUBSET Containers
      OBVIOUS
    <3>3. ContainersOK'
      BY <3>1, <3>2, DockerType DEF Cleanup
    <3>4. slipped' \in [Runs -> SUBSET Containers]
      BY <3>1, <3>2, SlipsType DEF Resumed
    <3>5. /\ mine' = [mine EXCEPT ![r] = {}]
          /\ signals' \in Nat /\ faults' \in Nat
          /\ UNCHANGED <<art, todo, outcome, resumed, commands>>
      BY <3>1 DEF Cleanup
    <3>6. resumed' \in BOOLEAN
      BY <3>5
    <3>7. UNCHANGED <<pc, at>>
      BY <2>3 DEF Trap
    <3> QED BY <3>3, <3>4, <3>5, <3>6, <3>7
  <2>4. ASSUME NEW r \in Runs, InterruptPause(r) PROVE TypeOK'
    <3>1. PICK cs \in SUBSET at[r], stuck \in SUBSET mine[r] :
            /\ Cleanup(r, cs, stuck)
            /\ slipped' = [Slips(Resumed(mine[r] \ stuck)) EXCEPT
                             ![r] = @ \cup (at[r] \ cs)]
      BY <2>4 DEF InterruptPause
    <3>2. /\ cs \in SUBSET Containers /\ stuck \in SUBSET Containers
          /\ mine[r] \ stuck \in SUBSET Containers
      OBVIOUS
    <3>3. ContainersOK'
      BY <3>1, <3>2, DockerType DEF Cleanup
    <3>4. Slips(Resumed(mine[r] \ stuck)) \in [Runs -> SUBSET Containers]
      BY <3>2, SlipsType DEF Resumed
    <3>5. slipped' \in [Runs -> SUBSET Containers]
      BY <3>1, <3>4, ZenonT(30)
    <3>6. /\ mine' = [mine EXCEPT ![r] = {}]
          /\ signals' \in Nat /\ faults' \in Nat
          /\ UNCHANGED <<art, todo, outcome, resumed, commands>>
      BY <3>1 DEF Cleanup
    <3>7. resumed' \in BOOLEAN
      BY <3>6
    <3>8. /\ pc' = [pc EXCEPT ![r] = "inspect"] /\ at' = [at EXCEPT ![r] = {}]
          /\ pc[r] = "pause"
      BY <2>4 DEF InterruptPause
    <3> QED BY <3>3, <3>5, <3>6, <3>7, <3>8
  <2>5. CASE Operator
    <3> USE DEF Command
    <3>1. ASSUME NEW c \in Containers, OperatorPauses(c) PROVE TypeOK'
      <4>1. {c} \in SUBSET Containers
        OBVIOUS
      <4>2. ContainersOK'
        BY <3>1, <4>1, PauseType DEF OperatorPauses, Paused
      <4> QED BY <3>1, <4>2 DEF OperatorPauses, Paused
    <3>2. ASSUME NEW c \in Containers, OperatorUnpauses(c) PROVE TypeOK'
      <4>1. ContainersOK'
        BY <3>2, PauseType DEF OperatorUnpauses, Unpaused
      <4>2. slipped' \in [Runs -> SUBSET Containers]
        BY <3>2, SlipsType DEF OperatorUnpauses, Unpaused, Resumed
      <4> QED BY <3>2, <4>1, <4>2 DEF OperatorUnpauses
    <3>3. ASSUME NEW c \in Containers, OperatorStops(c) PROVE TypeOK'
      BY <3>3 DEF OperatorStops
    <3>4. ASSUME NEW c \in Containers, OperatorStarts(c) PROVE TypeOK'
      <4>1. slipped' \in [Runs -> SUBSET Containers]
        BY <3>4, SlipsType, SMTT(30) DEF OperatorStarts
      <4>2. ContainersOK'
        BY <3>4 DEF OperatorStarts
      <4>3. resumed' \in BOOLEAN /\ commands' \in Nat
        BY <3>4 DEF OperatorStarts
      <4> QED BY <3>4, <4>1, <4>2, <4>3 DEF OperatorStarts
    <3> QED BY <2>5, <3>1, <3>2, <3>3, <3>4 DEF Operator
  <2>6. CASE UNCHANGED vars
    BY <2>6 DEF vars
  <2> QED
    BY <2>1, <2>2, <2>3, <2>4, <2>5, <2>6 DEF Next
<1> QED
  BY <1>1, <1>2, PTL DEF Spec

-----------------------------------------------------------------------------
(***************************************************************************)
(* A run holds only containers it has entered in its bookkeeping, and only *)
(* those it listed for its artifact; its loop of unpausing has before it   *)
(* whatever it still holds.                                                *)
(***************************************************************************)
HeldInv ==
  \A r \in Runs :
    /\ \A c \in Containers : pausedBy[c] = r => c \in mine[r]
    /\ pc[r] \in {"idle", "artifact"} => mine[r] = {}
    /\ pc[r] = "done" => \A c \in Containers : pausedBy[c] # r
    /\ pc[r] \notin {"pause", "done"} => at[r] = {}
    /\ pc[r] = "unpause" =>
         \A c \in Containers : pausedBy[c] = r => c \in todo[r]
    /\ pc[r] \in {"inspect", "pause", "tar", "unpause"} =>
         mine[r] \cup at[r] \cup todo[r]
           \subseteq Writers[art[r]] \cup Labelled[art[r]]

LEMMA StepsKeepHeld ==
  ASSUME TypeOK, HeldInv, NEW r \in Runs, Step(r)
  PROVE  HeldInv'
<1> USE BackupAssumption DEF BackupAssumption
<1> USE DEF TypeOK, Steps, HeldInv, containers, loop, outcome, bounds, At, GoTo
<1>1. CASE Plan(r) BY <1>1 DEF Plan
<1>2. CASE ListWriters(r)
  <2>1. Listed(art[r]) \subseteq Writers[art[r]] \cup Labelled[art[r]]
    BY DEF Listed
  <2> QED BY <1>2, <2>1 DEF ListWriters
<1>3. CASE Pause(r)
  <2>1. \A c \in Containers : pausedBy'[c] # pausedBy[c] =>
          c \in at[r] /\ state[c] = "running" /\ pausedBy'[c] = r
    BY <1>3 DEF Pause, Paused, Docker
  <2>2. mine' = [mine EXCEPT ![r] = @ \cup {c \in at[r] : state[c] = "running"}]
    BY <1>3 DEF Pause
  <2> QED BY <1>3, <2>1, <2>2 DEF Pause
<1>4. CASE StartArchive(r) BY <1>4 DEF StartArchive
<1>5. CASE ArchiveWritten(r) BY <1>5 DEF ArchiveWritten
<1>6. CASE RecordArtifact(r) BY <1>6 DEF RecordArtifact
<1>7. CASE Finish(r) BY <1>7 DEF Finish, Ended
<1>8. ASSUME NEW c \in Containers, Inspect(r, c) PROVE HeldInv'
  <2>1. c \in Writers[art[r]] \cup Labelled[art[r]]
    BY <1>8 DEF Inspect
  <2> QED BY <1>8, <2>1 DEF Inspect
<1>9. ASSUME NEW c \in Containers, Unpause(r, c) PROVE HeldInv'
  <2>1. \A d \in Containers : pausedBy'[d] \in {pausedBy[d], "none"}
    BY <1>9 DEF Unpause, Unpaused, Docker
  <2>2. pausedBy'[c] = "none"
    BY <1>9 DEF Unpause, Unpaused, Docker
  <2> QED BY <1>9, <2>1, <2>2 DEF Unpause
<1> QED
  BY <1>1, <1>2, <1>3, <1>4, <1>5, <1>6, <1>7, <1>8, <1>9 DEF Step

LEMMA FailuresKeepHeld ==
  ASSUME TypeOK, HeldInv, NEW r \in Runs, Fails(r)
  PROVE  HeldInv'
<1> USE BackupAssumption DEF BackupAssumption
<1> USE DEF TypeOK, Steps, HeldInv, containers, loop, outcome, bounds, At, GoTo
<1>1. CASE PlanFails(r) BY <1>1 DEF PlanFails, Ended
<1>2. CASE SourceMissing(r) BY <1>2 DEF SourceMissing
<1>3. CASE PauseFails(r) BY <1>3 DEF PauseFails
<1>4. CASE ArchiveFails(r) BY <1>4 DEF ArchiveFails
<1>5. CASE RecordFails(r) BY <1>5 DEF RecordFails, Ended
<1>6. CASE ManifestFails(r) BY <1>6 DEF ManifestFails, Ended
<1>7. CASE ListFails(r) BY <1>7 DEF ListFails
<1>8. CASE Killed(r)
  <2>1. \A c \in Containers : pausedBy'[c] = (IF pausedBy[c] = r
                                              THEN "nobody" ELSE pausedBy[c])
    BY <1>8 DEF Killed, Docker, Held
  <2>2. r # "nobody" /\ \A c \in Containers : pausedBy'[c] # r
    BY <2>1
  <2>3. \A s \in Runs, c \in Containers : pausedBy'[c] = s => pausedBy[c] = s
    BY <2>1
  <2> QED BY <1>8, <2>2, <2>3 DEF Killed, Ended
<1>9. ASSUME NEW c \in Containers, InspectFails(r, c) PROVE HeldInv'
  BY <1>9 DEF InspectFails
<1>10. ASSUME NEW c \in Containers, UnpauseFails(r, c) PROVE HeldInv'
  <2>1. \A d \in Containers : pausedBy'[d] \in {pausedBy[d], "nobody"}
    BY <1>10 DEF UnpauseFails, Abandoned, Docker
  <2>2. pausedBy'[c] # r
    BY <1>10 DEF UnpauseFails, Abandoned, Docker, Held
  <2> QED BY <1>10, <2>1, <2>2 DEF UnpauseFails
<1> QED
  BY <1>1, <1>2, <1>3, <1>4, <1>5, <1>6, <1>7, <1>8, <1>9, <1>10 DEF Fails

(* The handler lets go of everything: what does not resume is nobody's. *)
LEMMA CleanupReleases ==
  ASSUME TypeOK, NEW r \in Runs, NEW interrupted, NEW stuck \in SUBSET mine[r],
         Cleanup(r, interrupted, stuck)
  PROVE  /\ \A c \in Containers : pausedBy'[c] \in {pausedBy[c], "none", "nobody"}
         /\ \A c \in mine[r] : pausedBy'[c] # r
<1>1. Docker(interrupted, "nobody", mine[r] \ stuck, Held(r, stuck))
  BY DEF Cleanup
<1>2. r \notin {"none", "nobody"}
  BY BackupAssumption DEF BackupAssumption
<1>3. \A c \in Containers : pausedBy'[c] \in {pausedBy[c], "none", "nobody"}
  BY <1>1 DEF Docker
<1>4. ASSUME NEW c \in mine[r] PROVE pausedBy'[c] # r
  <2>1. c \in Containers /\ (pausedBy[c] = r => state[c] = "paused")
    BY <1>2 DEF TypeOK
  <2>2. CASE pausedBy[c] # r
    BY <1>2, <1>3, <2>1, <2>2
  <2>3. CASE pausedBy[c] = r /\ c \in stuck
    BY <1>1, <1>2, <2>1, <2>3 DEF Docker, Held
  <2>4. CASE pausedBy[c] = r /\ c \notin stuck
    BY <1>1, <1>2, <2>1, <2>4 DEF Docker
  <2> QED BY <2>2, <2>3, <2>4
<1> QED
  BY <1>3, <1>4

LEMMA SignalsKeepHeld ==
  ASSUME TypeOK, HeldInv, NEW r \in Runs, Trap(r) \/ InterruptPause(r)
  PROVE  HeldInv'
<1> USE BackupAssumption DEF BackupAssumption
<1> USE DEF TypeOK, Steps, HeldInv, GoTo, At
<1>1. PICK interrupted \in SUBSET Containers, stuck \in SUBSET mine[r] :
        Cleanup(r, interrupted, stuck)
  BY DEF Trap, InterruptPause
<1>2. /\ \A c \in Containers : pausedBy'[c] \in {pausedBy[c], "none", "nobody"}
      /\ \A c \in mine[r] : pausedBy'[c] # r
  BY <1>1, CleanupReleases
<1>3. \A c \in Containers : pausedBy'[c] # r
  BY <1>2
<1>4. UNCHANGED <<art, todo>> /\ mine' = [mine EXCEPT ![r] = {}]
  BY <1>1 DEF Cleanup
<1>5. CASE Trap(r) BY <1>2, <1>3, <1>4, <1>5 DEF Trap
<1>6. CASE InterruptPause(r) BY <1>2, <1>3, <1>4, <1>6 DEF InterruptPause
<1> QED
  BY <1>5, <1>6

LEMMA OperatorsKeepHeld ==
  ASSUME TypeOK, HeldInv, Operator
  PROVE  HeldInv'
<1>1. \A c \in Containers : pausedBy'[c] \in {pausedBy[c], "none", "operator"}
  BY DEF Operator, OperatorPauses, OperatorUnpauses, OperatorStops,
    OperatorStarts, Paused, Unpaused, Docker, TypeOK
<1>2. UNCHANGED <<pc, loop>>
  BY DEF Operator, OperatorPauses, OperatorUnpauses, OperatorStops,
    OperatorStarts, Command
<1>3. Runs \cap {"none", "operator"} = {}
  BY BackupAssumption DEF BackupAssumption
<1> QED
  BY <1>1, <1>2, <1>3 DEF HeldInv, loop

(***************************************************************************)
(* PausedForItsArchive, with any number of runs at a time, every command,  *)
(* every signal and every failing step: the pause ends with the archive.   *)
(***************************************************************************)
THEOREM PausesEnd == Spec => []PausedForItsArchive
<1>1. Init => HeldInv
  BY BackupAssumption DEF Init, HeldInv, BackupAssumption
<1>2. TypeOK /\ HeldInv /\ [Next]_vars => HeldInv'
  <2> SUFFICES ASSUME TypeOK, HeldInv, [Next]_vars PROVE HeldInv'
    OBVIOUS
  <2>1. CASE UNCHANGED vars
    BY <2>1 DEF vars, HeldInv, containers, loop
  <2> QED
    BY <2>1, StepsKeepHeld, FailuresKeepHeld, SignalsKeepHeld, OperatorsKeepHeld
       DEF Next
<1>3. TypeOK /\ HeldInv => PausedForItsArchive
  BY DEF TypeOK, HeldInv, PausedForItsArchive, Steps
<1> QED
  BY <1>1, <1>2, <1>3, TypeCorrect, PTL DEF Spec

-----------------------------------------------------------------------------
(***************************************************************************)
(* While nothing has disturbed the runs, what a run is going to unpause it *)
(* still holds itself, unless it has been stopped meanwhile.               *)
(***************************************************************************)
OwnInv ==
  Undisturbed => \A r \in Runs :
    /\ pc[r] \in {"inspect", "pause", "tar"} =>
         \A c \in mine[r] : pausedBy[c] = r \/ state[c] = "exited"
    /\ pc[r] = "unpause" =>
         \A c \in todo[r] : pausedBy[c] = r \/ state[c] = "exited"

(* What has been disturbed once stays so.                                  *)
LEMMA DisturbedForGood ==
  ASSUME TypeOK, [Next]_vars
  PROVE  Undisturbed' => Undisturbed
<1> SUFFICES (signals' = 0 => signals = 0) /\ (resumed => resumed')
  BY DEF Undisturbed
<1> USE DEF TypeOK, bounds, Fault, Cleanup, Command
<1>1. ASSUME NEW r \in Runs, Step(r)
      PROVE UNCHANGED <<signals, resumed>>
  BY <1>1 DEF Step, Plan, ListWriters, Pause, StartArchive, ArchiveWritten,
    RecordArtifact, Finish, Inspect, Unpause
<1>2. ASSUME NEW r \in Runs, Fails(r)
      PROVE UNCHANGED <<signals, resumed>>
  BY <1>2 DEF Fails, PlanFails, SourceMissing, PauseFails, ArchiveFails,
    RecordFails, ManifestFails, Killed, ListFails, InspectFails, UnpauseFails
<1>3. ASSUME NEW r \in Runs, Trap(r) \/ InterruptPause(r)
      PROVE signals' = signals + 1 /\ resumed' = resumed
  BY <1>3 DEF Trap, InterruptPause
<1>4. CASE Operator
  BY <1>4, Zenon DEF Operator, OperatorPauses, OperatorUnpauses, OperatorStops,
    OperatorStarts
<1>5. CASE UNCHANGED vars
  BY <1>5 DEF vars
<1> QED
  BY <1>1, <1>2, <1>3, <1>4, <1>5 DEF Next

(* A signal and an operator's unpausing leave a mark.                      *)
LEMMA DisturbancesMarked ==
  ASSUME TypeOK, Undisturbed'
  PROVE  /\ \A r \in Runs : ~Trap(r) /\ ~InterruptPause(r)
         /\ \A c \in Containers : ~OperatorUnpauses(c) /\ ~OperatorStarts(c)
<1>1. ASSUME NEW r \in Runs, Trap(r) \/ InterruptPause(r) PROVE FALSE
  <2>1. signals' = signals + 1
    BY <1>1 DEF Trap, InterruptPause, Cleanup
  <2> QED BY <2>1 DEF TypeOK, Undisturbed
<1>2. ASSUME NEW c \in Containers, OperatorUnpauses(c) \/ OperatorStarts(c)
      PROVE  FALSE
  <2>1. resumed'
    BY <1>2 DEF OperatorUnpauses, OperatorStarts, Command
  <2> QED BY <2>1 DEF Undisturbed
<1> QED
  BY <1>1, <1>2

LEMMA StepsKeepOwn ==
  ASSUME TypeOK, OwnInv, Undisturbed, NEW r \in Runs, Step(r)
  PROVE  OwnInv'
<1> USE BackupAssumption DEF BackupAssumption
<1> USE DEF TypeOK, Steps, OwnInv, containers, loop, outcome, bounds, At, GoTo
<1>1. CASE Plan(r) BY <1>1 DEF Plan
<1>2. CASE ListWriters(r) BY <1>2 DEF ListWriters
<1>3. CASE Pause(r)
  <2>1. \A c \in Containers :
          IF c \in at[r] /\ state[c] = "running"
          THEN state'[c] = "paused" /\ pausedBy'[c] = r
          ELSE state'[c] = state[c] /\ pausedBy'[c] = pausedBy[c]
    BY <1>3 DEF Pause, Paused, Docker
  <2>2. mine' = [mine EXCEPT ![r] = @ \cup {c \in at[r] : state[c] = "running"}]
    BY <1>3 DEF Pause
  <2> QED BY <1>3, <2>1, <2>2, SMTT(30) DEF Pause
<1>4. CASE StartArchive(r) BY <1>4 DEF StartArchive
<1>5. CASE ArchiveWritten(r) BY <1>5 DEF ArchiveWritten
<1>6. CASE RecordArtifact(r) BY <1>6 DEF RecordArtifact
<1>7. CASE Finish(r) BY <1>7 DEF Finish, Ended
<1>8. ASSUME NEW c \in Containers, Inspect(r, c) PROVE OwnInv'
  BY <1>8 DEF Inspect
<1>9. ASSUME NEW c \in Containers, Unpause(r, c) PROVE OwnInv'
  <2>1. \A d \in Containers \ {c} : state'[d] = state[d] /\ pausedBy'[d] = pausedBy[d]
    BY <1>9 DEF Unpause, Unpaused, Docker
  <2>2. state[c] = "exited" => state'[c] = "exited" /\ pausedBy'[c] = pausedBy[c]
    BY <1>9 DEF Unpause, Unpaused, Docker
  <2>3. pausedBy[c] = r \/ state[c] = "exited"
    BY <1>9 DEF Unpause
  <2> QED BY <1>9, <2>1, <2>2, <2>3 DEF Unpause
<1> QED
  BY <1>1, <1>2, <1>3, <1>4, <1>5, <1>6, <1>7, <1>8, <1>9 DEF Step

LEMMA OthersKeepOwn ==
  ASSUME TypeOK, OwnInv, Undisturbed, Undisturbed',
         (\E r \in Runs : Fails(r) \/ Trap(r) \/ InterruptPause(r)) \/ Operator
  PROVE  OwnInv'
<1> USE BackupAssumption DEF BackupAssumption
<1> USE DEF TypeOK, Steps, OwnInv, containers, loop, outcome, bounds, At, GoTo
<1>1. ASSUME NEW r \in Runs, Fails(r) PROVE OwnInv'
  <2>1. CASE Killed(r)
    <3>1. pc'[r] = "done" /\ UNCHANGED state
      BY <2>1 DEF Killed, Ended, Docker
    <3>2. \A c \in Containers : pausedBy[c] # r => pausedBy'[c] = pausedBy[c]
      BY <2>1 DEF Killed, Docker, Held
    <3> QED BY <2>1, <3>1, <3>2 DEF Killed, Ended
  <2>2. ASSUME NEW c \in Containers, UnpauseFails(r, c) PROVE OwnInv'
    <3>1. UNCHANGED <<state, mine, pc>> /\ pc[r] = "unpause"
          /\ todo' = [todo EXCEPT ![r] = @ \ {c}]
      BY <2>2 DEF UnpauseFails, Abandoned, Docker
    <3>2. \A d \in Containers :
            pausedBy'[d] = pausedBy[d] \/ (d = c /\ pausedBy[d] = r)
      BY <2>2 DEF UnpauseFails, Abandoned, Docker, Held
    <3> QED BY <3>1, <3>2
  <2>3. CASE PlanFails(r) BY <2>3 DEF PlanFails, Ended
  <2>4. CASE SourceMissing(r) BY <2>4 DEF SourceMissing
  <2>5. CASE PauseFails(r) BY <2>5 DEF PauseFails
  <2>6. CASE ArchiveFails(r) BY <2>6 DEF ArchiveFails
  <2>7. CASE RecordFails(r) BY <2>7 DEF RecordFails, Ended
  <2>8. CASE ManifestFails(r) BY <2>8 DEF ManifestFails, Ended
  <2>9. CASE ListFails(r) BY <2>9 DEF ListFails
  <2>10. ASSUME NEW c \in Containers, InspectFails(r, c) PROVE OwnInv'
    BY <2>10 DEF InspectFails
  <2> QED
    BY <1>1, <2>1, <2>2, <2>3, <2>4, <2>5, <2>6, <2>7, <2>8, <2>9, <2>10 DEF Fails
<1>2. ASSUME NEW r \in Runs, Trap(r) \/ InterruptPause(r) PROVE FALSE
  BY <1>2, DisturbancesMarked
<1>3. CASE Operator
  <2>1. ASSUME NEW c \in Containers, OperatorPauses(c) PROVE OwnInv'
    <3>1. \A d \in Containers :
            state[d] # "running" => state'[d] = state[d] /\ pausedBy'[d] = pausedBy[d]
      BY <2>1 DEF OperatorPauses, Paused, Docker
    <3>2. \A d \in Containers : pausedBy[d] \in Runs => state[d] # "running"
      OBVIOUS
    <3> QED BY <2>1, <3>1, <3>2, SMTT(30) DEF OperatorPauses, Command
  <2>2. ASSUME NEW c \in Containers, OperatorStops(c) PROVE OwnInv'
    BY <2>2 DEF OperatorStops, Command
  <2>3. ASSUME NEW c \in Containers, OperatorUnpauses(c) \/ OperatorStarts(c)
        PROVE  FALSE
    BY <2>3, DisturbancesMarked
  <2> QED BY <1>3, <2>1, <2>2, <2>3 DEF Operator
<1> QED
  BY <1>1, <1>2, <1>3

(***************************************************************************)
(* OperatorPauseKept, with any number of runs at a time: no run unpauses   *)
(* what an operator has paused.                                            *)
(***************************************************************************)
THEOREM PausesOfOperatorsKept == Spec => OperatorPauseKept
<1> DEFINE Kept ==
      Undisturbed' => \A c \in Containers :
        pausedBy[c] = "operator" /\ ~Operator => state'[c] = "paused"
<1> USE BackupAssumption DEF BackupAssumption
<1>1. Init => OwnInv
  BY DEF Init, OwnInv
<1>2. TypeOK /\ OwnInv /\ [Next]_vars => OwnInv'
  <2> SUFFICES ASSUME TypeOK, OwnInv, [Next]_vars, Undisturbed' PROVE OwnInv'
    BY DEF OwnInv
  <2>1. Undisturbed
    BY DisturbedForGood
  <2>2. UNCHANGED vars => OwnInv'
    BY <2>1 DEF vars, OwnInv, containers, loop
  <2> QED BY <2>1, <2>2, StepsKeepOwn, OthersKeepOwn DEF Next
<1>3. TypeOK /\ OwnInv /\ [Next]_vars => [Kept]_vars
  <2> SUFFICES ASSUME TypeOK, OwnInv, Next, Undisturbed', ~Operator,
                      NEW c \in Containers, pausedBy[c] = "operator"
               PROVE  state'[c] = "paused"
    OBVIOUS
  <2> Undisturbed
    BY DisturbedForGood
  <2>1. state[c] = "paused"
    BY DEF TypeOK
  <2>2. ASSUME NEW r \in Runs, Step(r) PROVE state'[c] = "paused"
    <3>1. CASE Pause(r)
      BY <2>1, <3>1 DEF Pause, Paused, Docker
    <3>2. ASSUME NEW d \in Containers, Unpause(r, d) PROVE state'[c] = "paused"
      <4>1. d # c
        BY <2>1, <3>2 DEF OwnInv, Unpause, At
      <4> QED BY <2>1, <3>2, <4>1 DEF Unpause, Unpaused, Docker
    <3>3. CASE UNCHANGED state
      BY <2>1, <3>3
    <3> QED
      BY <2>2, <3>1, <3>2, <3>3 DEF Step, Plan, ListWriters, StartArchive,
        ArchiveWritten, RecordArtifact, Finish, Inspect, containers
  <2>3. ASSUME NEW r \in Runs, Fails(r) PROVE state'[c] = "paused"
    <3>1. CASE UNCHANGED state
      BY <2>1, <3>1
    <3>2. CASE Killed(r)
      BY <2>1, <3>2 DEF Killed, Docker
    <3>3. ASSUME NEW d \in Containers, UnpauseFails(r, d)
          PROVE  state'[c] = "paused"
      BY <2>1, <3>3 DEF UnpauseFails, Abandoned, Docker
    <3> QED
      BY <2>3, <3>1, <3>2, <3>3 DEF Fails, PlanFails, SourceMissing, PauseFails,
        ArchiveFails, RecordFails, ManifestFails, ListFails, InspectFails, containers
  <2>4. ASSUME NEW r \in Runs, Trap(r) \/ InterruptPause(r) PROVE FALSE
    BY <2>4, DisturbancesMarked
  <2> QED BY <2>2, <2>3, <2>4 DEF Next
<1> QED
  BY <1>1, <1>2, <1>3, TypeCorrect, PTL DEF Spec, OperatorPauseKept

-----------------------------------------------------------------------------
(***************************************************************************)
(* A writer that runs is one the loop of the run has still before it, the  *)
(* one it is about to pause, or one that has slipped.                      *)
(***************************************************************************)
FreezeInv ==
  \A r \in Runs :
    /\ pc[r] \notin {"pause", "done"} => at[r] = {}
    /\ pc[r] = "tar" => todo[r] = {}
    /\ Reading(r) =>
         \A c \in Known(art[r]) :
           state[c] = "running" => c \in todo[r] \cup at[r] \cup slipped[r]

LEMMA KnownContainers ==
  ASSUME NEW a \in Artifacts
  PROVE  Known(a) \subseteq Containers
BY BackupAssumption DEF BackupAssumption, Known

(* A step of one run, seen from another one. *)
LEMMA FrozenBeside ==
  ASSUME TypeOK, FreezeInv, NEW r \in Runs, pc' \in [Runs -> Steps],
         \A s \in Runs \ {r} :
           /\ pc'[s] = pc[s] /\ art'[s] = art[s]
           /\ todo'[s] = todo[s] /\ at'[s] = at[s]
           /\ Reading(s) => slipped[s] \subseteq slipped'[s],
         \A s \in Runs \ {r}, c \in Containers :
           Reading(s) /\ state'[c] = "running" =>
             state[c] = "running" \/ c \in slipped'[s],
         /\ pc'[r] \notin {"pause", "done"} => at'[r] = {}
         /\ pc'[r] = "tar" => todo'[r] = {}
         /\ Reading(r)' =>
              \A c \in Known(art'[r]) :
                state'[c] = "running" => c \in todo'[r] \cup at'[r] \cup slipped'[r]
  PROVE  FreezeInv'
<1>1. ASSUME NEW s \in Runs \ {r}, NEW c \in Known(art[s]), Reading(s),
             state'[c] = "running"
      PROVE  c \in todo[s] \cup at[s] \cup slipped'[s]
  <2>1. art[s] \in Artifacts
    BY <1>1 DEF Reading, TypeOK
  <2>2. c \in Containers
    BY <2>1, KnownContainers
  <2> QED BY <1>1, <2>2 DEF FreezeInv
<1>2. ASSUME NEW s \in Runs \ {r}
      PROVE  /\ pc'[s] \notin {"pause", "done"} => at'[s] = {}
             /\ pc'[s] = "tar" => todo'[s] = {}
             /\ Reading(s)' =>
                  \A c \in Known(art'[s]) :
                    state'[c] = "running" => c \in todo'[s] \cup at'[s] \cup slipped'[s]
  BY <1>1 DEF FreezeInv, Reading
<1> QED
  BY <1>2 DEF FreezeInv, Known

(* Docker sets running what it unpauses, and nothing else. *)
LEMMA DockerResumes ==
  ASSUME TypeOK, NEW pause, NEW who, NEW unpause, NEW lost,
         Docker(pause, who, unpause, lost), NEW c \in Containers,
         state'[c] = "running"
  PROVE  (state[c] = "running" /\ c \notin pause) \/ c \in Resumed(unpause)
BY DEF Docker, Resumed, TypeOK

LEMMA SlipsCover ==
  ASSUME TypeOK, NEW cs, NEW s \in Runs
  PROVE  /\ Reading(s) => Slips(cs)[s] = slipped[s] \cup cs
         /\ slipped[s] \subseteq Slips(cs)[s]
BY DEF Slips, TypeOK

LEMMA StepsKeepFrozen ==
  ASSUME TypeOK, FreezeInv, NEW r \in Runs, Step(r)
  PROVE  FreezeInv'
<1> USE BackupAssumption DEF BackupAssumption
<1> USE DEF TypeOK, Steps, containers, loop, outcome, bounds, At, GoTo
<1>1. CASE Plan(r) BY <1>1, FrozenBeside DEF Plan, Reading, FreezeInv
<1>2. CASE ListWriters(r)
  <2>1. \A c \in Known(art[r]) : state[c] = "running" => c \in Listed(art[r])
    BY <1>2 DEF ListWriters, Listed, Known
  <2> QED BY <1>2, <2>1, FrozenBeside DEF ListWriters, FreezeInv
<1>3. CASE Pause(r)
  <2>1. Docker(at[r], r, {}, {}) /\ UNCHANGED slipped
    BY <1>3 DEF Pause, Paused
  <2>2. \A c \in Containers :
          state'[c] = "running" => state[c] = "running" /\ c \notin at[r]
    BY <2>1, DockerResumes DEF Resumed
  <2>3. Known(art[r]) \subseteq Containers /\ Reading(r)
    BY <1>3, KnownContainers DEF Pause, Reading
  <2>4. \A c \in Known(art[r]) :
          state'[c] = "running" => c \in todo[r] \cup slipped[r]
    BY <2>2, <2>3 DEF FreezeInv
  <2> QED BY <1>3, <2>1, <2>2, <2>4, FrozenBeside DEF Pause
<1>4. CASE StartArchive(r)
  BY <1>4, FrozenBeside DEF StartArchive, FreezeInv, Reading
<1>5. CASE ArchiveWritten(r)
  BY <1>5, FrozenBeside DEF ArchiveWritten, FreezeInv, Reading
<1>6. CASE RecordArtifact(r)
  BY <1>6, FrozenBeside DEF RecordArtifact, FreezeInv, Reading
<1>7. CASE Finish(r)
  BY <1>7, FrozenBeside DEF Finish, Ended, Reading
<1>8. ASSUME NEW c \in Containers, Inspect(r, c) PROVE FreezeInv'
  <2>1. Reading(r) /\ at[r] = {}
    BY <1>8 DEF Inspect, Reading, FreezeInv
  <2>2. UNCHANGED <<state, art, slipped>>
    BY <1>8 DEF Inspect
  <2>3. /\ pc' \in [Runs -> Steps]
        /\ \A q \in Runs \ {r} :
             pc'[q] = pc[q] /\ todo'[q] = todo[q] /\ at'[q] = at[q]
    BY <1>8 DEF Inspect
  <2>4. /\ pc'[r] \notin {"pause", "done"} => at'[r] = {}
        /\ pc'[r] # "tar"
    BY <1>8, <2>1 DEF Inspect
  <2>5. \A d \in todo[r] : state[d] = "running" => d \in todo'[r] \cup at'[r]
    BY <1>8 DEF Inspect
  <2>6. \A d \in Known(art[r]) :
          state[d] = "running" => d \in todo'[r] \cup at'[r] \cup slipped[r]
    BY <2>1, <2>5 DEF FreezeInv
  <2> HIDE DEF TypeOK
  <2> QED BY <2>2, <2>3, <2>4, <2>6, FrozenBeside
<1>9. ASSUME NEW c \in Containers, Unpause(r, c) PROVE FreezeInv'
  <2>1. Docker({}, "none", {c}, {}) /\ slipped' = Slips(Resumed({c}))
    BY <1>9 DEF Unpause, Unpaused
  <2>2. \A s \in Runs, d \in Containers :
          Reading(s) /\ state'[d] = "running" =>
            state[d] = "running" \/ d \in slipped'[s]
    BY <2>1, DockerResumes, SlipsCover
  <2>3. \A s \in Runs : slipped[s] \subseteq slipped'[s]
    BY <2>1, SlipsCover
  <2>4. pc'[r] = "unpause" /\ at'[r] = {} /\ ~Reading(r)'
    BY <1>9 DEF Unpause, FreezeInv, Reading
  <2>5. /\ pc' \in [Runs -> Steps] /\ UNCHANGED <<pc, art, at>>
        /\ \A q \in Runs \ {r} : todo'[q] = todo[q]
    BY <1>9 DEF Unpause
  <2> HIDE DEF TypeOK
  <2> QED BY <2>2, <2>3, <2>4, <2>5, FrozenBeside
<1> QED
  BY <1>1, <1>2, <1>3, <1>4, <1>5, <1>6, <1>7, <1>8, <1>9 DEF Step

LEMMA FailuresKeepFrozen ==
  ASSUME TypeOK, FreezeInv, NEW r \in Runs, Fails(r)
  PROVE  FreezeInv'
<1> USE BackupAssumption DEF BackupAssumption
<1> USE DEF TypeOK, Steps, containers, loop, outcome, bounds, At, GoTo
<1>1. CASE PlanFails(r) BY <1>1, FrozenBeside DEF PlanFails, Ended, Reading
<1>2. CASE SourceMissing(r)
  BY <1>2, FrozenBeside DEF SourceMissing, FreezeInv, Reading
<1>3. CASE PauseFails(r)
  BY <1>3, FrozenBeside DEF PauseFails, FreezeInv, Reading
<1>4. CASE ArchiveFails(r)
  BY <1>4, FrozenBeside DEF ArchiveFails, FreezeInv, Reading
<1>5. CASE RecordFails(r) BY <1>5, FrozenBeside DEF RecordFails, Ended, Reading
<1>6. CASE ManifestFails(r)
  BY <1>6, FrozenBeside DEF ManifestFails, Ended, Reading
<1>7. CASE Killed(r)
  <2>1. \A c \in Containers : state'[c] = "running" => state[c] = "running"
    BY <1>7, DockerResumes DEF Killed, Resumed
  <2> QED BY <1>7, <2>1, FrozenBeside DEF Killed, Ended, Reading
<1>8. CASE ListFails(r)
  <2>1. Known(art[r]) \subseteq Writers[art[r]]
    BY DEF Known
  <2> QED BY <1>8, <2>1, FrozenBeside DEF ListFails, FreezeInv, Reading
<1>9. ASSUME NEW c \in Containers, InspectFails(r, c) PROVE FreezeInv'
  BY <1>9, FrozenBeside DEF InspectFails, FreezeInv, Reading
<1>10. ASSUME NEW c \in Containers, UnpauseFails(r, c) PROVE FreezeInv'
  <2>1. /\ Docker({}, "none", {}, Held(r, {c})) /\ UNCHANGED slipped
    BY <1>10 DEF UnpauseFails, Abandoned
  <2>2. \A d \in Containers : state'[d] = "running" => state[d] = "running"
    BY <2>1, DockerResumes DEF Resumed
  <2>3. pc'[r] = "unpause" /\ at'[r] = {} /\ ~Reading(r)'
    BY <1>10 DEF UnpauseFails, FreezeInv, Reading
  <2>4. /\ pc' \in [Runs -> Steps] /\ UNCHANGED <<pc, art, at>>
        /\ \A q \in Runs \ {r} : todo'[q] = todo[q]
    BY <1>10 DEF UnpauseFails
  <2> HIDE DEF TypeOK
  <2> QED BY <2>1, <2>2, <2>3, <2>4, FrozenBeside
<1> QED
  BY <1>1, <1>2, <1>3, <1>4, <1>5, <1>6, <1>7, <1>8, <1>9, <1>10 DEF Fails

LEMMA SignalsKeepFrozen ==
  ASSUME TypeOK, FreezeInv, NEW r \in Runs, Trap(r) \/ InterruptPause(r)
  PROVE  FreezeInv'
<1> USE BackupAssumption DEF BackupAssumption
<1> USE DEF TypeOK, Steps, At, GoTo
<1>1. CASE Trap(r)
  <2>1. PICK stuck \in SUBSET mine[r] :
          /\ Cleanup(r, {}, stuck)
          /\ slipped' = Slips(Resumed(mine[r] \ stuck))
    BY <1>1 DEF Trap
  <2>2. /\ Docker({}, "nobody", mine[r] \ stuck, Held(r, stuck))
        /\ UNCHANGED <<pc, art, todo, at>>
    BY <1>1, <2>1 DEF Cleanup, Trap
  <2>3. \A s \in Runs, d \in Containers :
          Reading(s) /\ state'[d] = "running" =>
            state[d] = "running" \/ d \in slipped'[s]
    BY <2>1, <2>2, DockerResumes, SlipsCover
  <2>4. \A s \in Runs : slipped[s] \subseteq slipped'[s]
    BY <2>1, SlipsCover
  <2>5. Reading(r) => Known(art[r]) \subseteq Containers
    BY KnownContainers DEF Reading
  <2> QED BY <2>2, <2>3, <2>4, <2>5, FrozenBeside DEF FreezeInv, Reading
<1>2. CASE InterruptPause(r)
  <2>1. PICK cs \in SUBSET at[r], stuck \in SUBSET mine[r] :
          /\ Cleanup(r, cs, stuck)
          /\ slipped' = [Slips(Resumed(mine[r] \ stuck)) EXCEPT
                           ![r] = @ \cup (at[r] \ cs)]
    BY <1>2 DEF InterruptPause
  <2>2. /\ Docker(cs, "nobody", mine[r] \ stuck, Held(r, stuck))
        /\ UNCHANGED <<art, todo>> /\ at' = [at EXCEPT ![r] = {}]
        /\ Reading(r) /\ pc' = [pc EXCEPT ![r] = "inspect"]
    BY <1>2, <2>1 DEF Cleanup, InterruptPause, Reading
  <2>3. \A s \in Runs : Reading(s) =>
          slipped[s] \cup Resumed(mine[r] \ stuck) \subseteq slipped'[s]
    <3>1. Slips(Resumed(mine[r] \ stuck)) \in [Runs -> SUBSET Containers]
      BY SlipsType DEF Resumed
    <3> QED BY <2>1, <3>1, SlipsCover
  <2>4. at[r] \ cs \subseteq slipped'[r]
    <3>1. Slips(Resumed(mine[r] \ stuck)) \in [Runs -> SUBSET Containers]
      BY SlipsType DEF Resumed
    <3> QED BY <2>1, <3>1
  <2>5. \A s \in Runs, d \in Containers :
          Reading(s) /\ state'[d] = "running" =>
            (state[d] = "running" /\ d \notin cs) \/ d \in slipped'[s]
    BY <2>2, <2>3, DockerResumes
  <2>6. Known(art[r]) \subseteq Containers
    BY <2>2, KnownContainers DEF Reading
  <2>7. \A c \in Known(art[r]) :
          state'[c] = "running" => c \in todo[r] \cup slipped'[r]
    BY <2>2, <2>3, <2>4, <2>5, <2>6 DEF FreezeInv
  <2>8. /\ pc' \in [Runs -> Steps] /\ pc'[r] = "inspect" /\ at'[r] = {}
        /\ \A s \in Runs \ {r} : pc'[s] = pc[s] /\ at'[s] = at[s]
    BY <2>2
  <2> HIDE DEF TypeOK
  <2> QED BY <2>2, <2>3, <2>5, <2>7, <2>8, FrozenBeside
<1> QED
  BY <1>1, <1>2

LEMMA OperatorsKeepFrozen ==
  ASSUME TypeOK, FreezeInv, Operator
  PROVE  FreezeInv'
<1>1. UNCHANGED <<pc, loop>>
  BY DEF Operator, OperatorPauses, OperatorUnpauses, OperatorStops,
    OperatorStarts, Command
<1>2. ASSUME NEW s \in Runs, Reading(s)
      PROVE  /\ slipped[s] \subseteq slipped'[s]
             /\ \A d \in Containers : state'[d] = "running" =>
                  state[d] = "running" \/ d \in slipped'[s]
  <2>1. ASSUME NEW c \in Containers, OperatorPauses(c)
        PROVE  /\ UNCHANGED slipped
               /\ \A d \in Containers : state'[d] = "running" => state[d] = "running"
    BY <2>1, DockerResumes DEF OperatorPauses, Paused, Resumed
  <2>2. ASSUME NEW c \in Containers, OperatorUnpauses(c)
        PROVE  /\ slipped'[s] = slipped[s] \cup Resumed({c})
               /\ \A d \in Containers : state'[d] = "running" =>
                    state[d] = "running" \/ d \in Resumed({c})
    BY <1>2, <2>2, DockerResumes, SlipsCover DEF OperatorUnpauses, Unpaused
  <2>3. ASSUME NEW c \in Containers, OperatorStops(c)
        PROVE  /\ UNCHANGED slipped
               /\ \A d \in Containers : state'[d] = "running" => state[d] = "running"
    BY <2>3 DEF OperatorStops, TypeOK
  <2>4. ASSUME NEW c \in Containers, OperatorStarts(c)
        PROVE  /\ slipped'[s] = slipped[s] \cup {c}
               /\ \A d \in Containers : state'[d] = "running" =>
                    state[d] = "running" \/ d = c
    BY <1>2, <2>4, SlipsCover DEF OperatorStarts, TypeOK
  <2> QED BY <2>1, <2>2, <2>3, <2>4 DEF Operator
<1>3. ASSUME NEW s \in Runs, NEW c \in Known(art[s]), Reading(s),
             state'[c] = "running"
      PROVE  c \in todo[s] \cup at[s] \cup slipped'[s]
  <2>1. c \in Containers
    BY <1>3, KnownContainers DEF Reading, TypeOK
  <2> QED BY <1>2, <1>3, <2>1 DEF FreezeInv
<1> QED
  BY <1>1, <1>3 DEF FreezeInv, loop, Reading, Known

(***************************************************************************)
(* FrozenDuringArchive, for any number of runs at a time, every command,   *)
(* every signal and every failure: an archive is read while its writers    *)
(* are paused or gone, but for those that slipped.                         *)
(***************************************************************************)
THEOREM ArchivesAreFrozen == Spec => []FrozenDuringArchive
<1> USE BackupAssumption DEF BackupAssumption
<1>1. Init => FreezeInv
  BY DEF Init, FreezeInv, Reading
<1>2. TypeOK /\ FreezeInv /\ [Next]_vars => FreezeInv'
  <2> SUFFICES ASSUME TypeOK, FreezeInv, [Next]_vars PROVE FreezeInv'
    OBVIOUS
  <2>1. UNCHANGED vars => FreezeInv'
    BY DEF vars, FreezeInv, containers, loop, Reading, Known
  <2> QED
    BY <2>1, StepsKeepFrozen, FailuresKeepFrozen, SignalsKeepFrozen,
       OperatorsKeepFrozen DEF Next
<1>3. TypeOK /\ FreezeInv => FrozenDuringArchive
  BY DEF TypeOK, FreezeInv, FrozenDuringArchive, Reading
<1> QED
  BY <1>1, <1>2, <1>3, TypeCorrect, PTL DEF Spec

-----------------------------------------------------------------------------
(***************************************************************************)
(* The artifacts before the one a run is at are archived or failed, never  *)
(* both; the entry is written of all of them.                              *)
(***************************************************************************)
CountInv ==
  \A r \in Runs :
    /\ failed[r] \cap written[r] = {}
    /\ pc[r] = "idle" => art[r] = 1 /\ failed[r] = {} /\ written[r] = {}
    /\ pc[r] \in {"artifact", "inspect", "pause", "tar"} =>
         \A a \in Artifacts : a \in failed[r] \cup written[r] <=> a < art[r]
    /\ pc[r] = "unpause" =>
         \A a \in Artifacts :
           /\ a < art[r] => a \in failed[r] \cup written[r]
           /\ a > art[r] => a \notin failed[r] \cup written[r]
           /\ a = art[r] => a \notin failed[r]
    /\ entry[r] # "none" =>
         /\ pc[r] = "done" /\ entry[r] = Result(r)
         /\ failed[r] \cup written[r] = Artifacts

LEMMA StepsKeepCount ==
  ASSUME TypeOK, CountInv, NEW r \in Runs, Step(r)
  PROVE  CountInv'
<1> USE BackupAssumption DEF BackupAssumption, Artifacts
<1> USE DEF TypeOK, Steps, CountInv, loop, outcome, bounds, At, GoTo, Result
<1>1. CASE Plan(r) BY <1>1 DEF Plan
<1>2. CASE ListWriters(r) BY <1>2 DEF ListWriters
<1>3. CASE Pause(r) BY <1>3 DEF Pause
<1>4. CASE StartArchive(r) BY <1>4 DEF StartArchive
<1>5. CASE ArchiveWritten(r)
  <2>1. art[r] \in Artifacts /\ art[r] \notin failed[r]
    BY <1>5 DEF ArchiveWritten
  <2> QED BY <1>5, <2>1 DEF ArchiveWritten
<1>6. CASE RecordArtifact(r)
  <2>1. /\ failed'[r] = failed[r] \cup ({art[r]} \ written[r])
        /\ art'[r] = art[r] + 1 /\ pc'[r] = "artifact"
    BY <1>6 DEF RecordArtifact
  <2>2. \A a \in Artifacts : a \in failed'[r] \cup written'[r] <=> a < art'[r]
    BY <1>6, <2>1 DEF RecordArtifact
  <2> QED BY <1>6, <2>1, <2>2 DEF RecordArtifact
<1>7. CASE Finish(r)
  <2>1. failed[r] \cup written[r] = Artifacts
    BY <1>7 DEF Finish
  <2> QED BY <1>7, <2>1 DEF Finish, Ended
<1>8. ASSUME NEW c \in Containers, Inspect(r, c) PROVE CountInv'
  BY <1>8 DEF Inspect
<1>9. ASSUME NEW c \in Containers, Unpause(r, c) PROVE CountInv'
  BY <1>9 DEF Unpause
<1> QED
  BY <1>1, <1>2, <1>3, <1>4, <1>5, <1>6, <1>7, <1>8, <1>9 DEF Step

LEMMA OthersKeepCount ==
  ASSUME TypeOK, CountInv,
         (\E r \in Runs : Fails(r) \/ Trap(r) \/ InterruptPause(r)) \/ Operator
  PROVE  CountInv'
<1> USE BackupAssumption DEF BackupAssumption, Artifacts
<1> USE DEF TypeOK, Steps, CountInv, loop, outcome, bounds, At, GoTo, Result
<1>1. ASSUME NEW r \in Runs, Fails(r) PROVE CountInv'
  <2>1. CASE SourceMissing(r)
    <3>1. /\ failed'[r] = failed[r] \cup {art[r]} /\ art'[r] = art[r] + 1
          /\ art[r] \in Artifacts /\ art[r] \notin written[r]
      BY <2>1 DEF SourceMissing
    <3>2. \A a \in Artifacts : a \in failed'[r] \cup written'[r] <=> a < art'[r]
      BY <2>1, <3>1 DEF SourceMissing
    <3> QED BY <2>1, <3>1, <3>2 DEF SourceMissing
  <2>2. CASE PlanFails(r) BY <2>2 DEF PlanFails, Ended
  <2>3. CASE PauseFails(r) BY <2>3 DEF PauseFails
  <2>4. CASE ArchiveFails(r) BY <2>4 DEF ArchiveFails
  <2>5. CASE RecordFails(r) BY <2>5 DEF RecordFails, Ended
  <2>6. CASE ManifestFails(r) BY <2>6 DEF ManifestFails, Ended
  <2>7. CASE Killed(r) BY <2>7 DEF Killed, Ended, Active
  <2>8. CASE ListFails(r) BY <2>8 DEF ListFails
  <2>9. ASSUME NEW c \in Containers, InspectFails(r, c) \/ UnpauseFails(r, c)
        PROVE  CountInv'
    BY <2>9, SMTT(30) DEF InspectFails, UnpauseFails
  <2> QED
    BY <1>1, <2>1, <2>2, <2>3, <2>4, <2>5, <2>6, <2>7, <2>8, <2>9 DEF Fails
<1>2. ASSUME NEW r \in Runs, Trap(r) PROVE CountInv'
  BY <1>2 DEF Trap, Cleanup
<1>3. ASSUME NEW r \in Runs, InterruptPause(r) PROVE CountInv'
  BY <1>3 DEF InterruptPause, Cleanup
<1>4. CASE Operator
  BY <1>4, SMTT(30) DEF Operator, OperatorPauses, OperatorUnpauses,
    OperatorStops, OperatorStarts, Command
<1> QED
  BY <1>1, <1>2, <1>3, <1>4

(***************************************************************************)
(* ResultTruthful: whatever fails, and whoever interferes, the catalogue   *)
(* says of a restore point what became of its archives, and the manifest   *)
(* offers those that are complete.                                         *)
(***************************************************************************)
THEOREM EntriesTruthful == Spec => []ResultTruthful
<1> USE BackupAssumption DEF BackupAssumption, Artifacts
<1>1. Init => CountInv
  BY DEF Init, CountInv
<1>2. TypeOK /\ CountInv /\ [Next]_vars => CountInv'
  <2>1. UNCHANGED vars /\ CountInv => CountInv'
    BY DEF vars, CountInv, loop, outcome, Result
  <2> QED BY <2>1, StepsKeepCount, OthersKeepCount DEF Next
<1>3. TypeOK /\ CountInv => ResultTruthful
  <2> SUFFICES ASSUME TypeOK, CountInv, NEW r \in Runs
               PROVE  /\ entry[r] = "ok" => written[r] = Artifacts
                      /\ entry[r] = "partial" => written[r] \notin {{}, Artifacts}
                      /\ entry[r] = "failed" => written[r] = {}
                      /\ entry[r] # "none" => Offered(r) = written[r]
    BY DEF ResultTruthful
  <2>1. /\ failed[r] \in SUBSET Artifacts /\ written[r] \in SUBSET Artifacts
        /\ failed[r] \cap written[r] = {} /\ Artifacts # {}
    <3>1. 1 \in Artifacts
      OBVIOUS
    <3> QED BY <3>1 DEF TypeOK, CountInv
  <2>2. CASE entry[r] = "none"
    BY <2>2
  <2>3. CASE entry[r] # "none"
    <3>1. failed[r] \cup written[r] = Artifacts /\ entry[r] = Result(r)
      BY <2>3 DEF CountInv
    <3> DEFINE Said ==
          /\ entry[r] = "ok" => written[r] = Artifacts
          /\ entry[r] = "partial" => written[r] \notin {{}, Artifacts}
          /\ entry[r] = "failed" => written[r] = {}
    <3>2. ASSUME failed[r] = {} PROVE Said
      <4>1. written[r] = Artifacts
        BY <3>1, <3>2
      <4> QED BY <3>1, <3>2, <4>1 DEF Result
    <3>3. ASSUME failed[r] # {}, failed[r] # Artifacts PROVE Said
      <4>1. written[r] # {} /\ written[r] # Artifacts
        BY <2>1, <3>1, <3>3
      <4> QED BY <3>1, <3>3, <4>1 DEF Result
    <3>4. ASSUME failed[r] # {}, failed[r] = Artifacts PROVE Said
      <4>1. written[r] = {}
        BY <2>1, <3>1, <3>4
      <4> QED BY <3>1, <3>4, <4>1 DEF Result
    <3>5. Offered(r) = written[r]
      BY <2>1, <3>1 DEF Offered
    <3>6. Said
      BY <3>2, <3>3, <3>4
    <3> QED BY <3>5, <3>6
  <2> QED BY <2>2, <2>3
<1> QED
  BY <1>1, <1>2, <1>3, TypeCorrect, PTL DEF Spec
=============================================================================
