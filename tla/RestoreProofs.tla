--------------------------- MODULE RestoreProofs ---------------------------
(***************************************************************************)
(* Theorems of Restore, for every stack, restore point and selection, and  *)
(* any number of restores and failures.                                    *)
(***************************************************************************)
EXTENDS Restore, FiniteSetTheorems, TLAPS

-----------------------------------------------------------------------------
(* Plans and selections.                                                   *)

(* What a manifest holds can be a target. *)
LEMMA ManifestTargets == Manifest \subseteq Targets
BY DEF Manifest, Planned, ProjectVolumes, BindDirs, Targets

(* A teardown is only told of units. *)
LEMMA RecordedUnits == Recorded \in [Volumes \cup Dirs -> SUBSET Units]
<1> SUFFICES ASSUME NEW t \in Volumes \cup Dirs PROVE Recorded[t] \subseteq Units
  BY DEF Recorded
<1>1. CASE Project[t] # Core
  <2>1. Project[t] \in Addons
    BY <1>1, PlanAssumption DEF PlanAssumption
  <2> QED BY <1>1, <2>1 DEF Recorded, Units
<1>2. CASE Project[t] = Core
  <2>1. ASSUME NEW i \in DOMAIN Compose PROVE Compose[i].profiles \subseteq Profiles
    <3> DEFINE S == [module : Modules \cup {NoModule},
                     profiles : SUBSET Profiles, mounts : SUBSET Volumes]
    <3>1. Compose \in Seq(S)
      BY PlanAssumption DEF PlanAssumption
    <3>2. Compose[i] \in S
      <4> HIDE DEF S
      <4> QED BY <3>1
    <3> QED BY <3>2
  <2>2. Recorded[t] = UNION {Compose[i].profiles : i \in Mounters(t)}
    BY <1>2 DEF Recorded
  <2> QED BY <2>1, <2>2 DEF Mounters, Units
<1> QED BY <1>1, <1>2

LEMMA ScopeUnits ==
  ASSUME NEW T \in SUBSET Targets
  PROVE  Scope(T) \subseteq Units
<1>1. ASSUME NEW t \in T \ {Config} PROVE Recorded[t] \subseteq Units
  BY <1>1, RecordedUnits DEF Targets
<1> QED BY <1>1 DEF Scope

(* A selection takes archived data, and never the config directory. *)
LEMMA SelectionOfManifest ==
  ASSUME NEW only
  PROVE  Selection(only) \subseteq Manifest \ {Config}
BY DEF Selection, Matches

(* An accepted one does not reach papaia-manager. *)
LEMMA AcceptedSparesManager ==
  ASSUME NEW only \in Accepted
  PROVE  Manager \notin Scope(Selection(only))
BY DEF Accepted, SelectionRefused

(* What a run begins with. *)
LEMMA BeginPlans ==
  ASSUME NEW m, NEW only, Begin(m, only)
  PROVE  /\ mode' = m /\ m \in Modes
         /\ selected' \subseteq Manifest /\ selected' \subseteq Targets
         /\ queue' \subseteq Units
         /\ m \in Scoped => /\ selected' = Selection(only) /\ Config \notin selected'
                            /\ Manager \notin Scope(selected')
<1>1. /\ m \in Modes
      /\ mode' = m
      /\ selected' = Chosen(m, only)
      /\ m \in Scoped => only \in Accepted
  BY DEF Begin, Called, Refusable
<1>2. selected' \subseteq Manifest
  BY <1>1, SelectionOfManifest DEF Chosen
<1>3. selected' \subseteq Targets
  BY <1>2, ManifestTargets
<1>4. queue' \subseteq Units
  <2>1. Enabled \subseteq Units
    BY RestoreAssumption, PlanAssumption DEF RestoreAssumption, PlanAssumption,
       Enabled, Units
  <2>2. Scope(selected') \subseteq Units
    BY <1>3, ScopeUnits
  <2> QED BY <2>1, <2>2 DEF Begin
<1>5. ASSUME m \in Scoped
      PROVE  /\ selected' = Selection(only) /\ Config \notin selected'
             /\ Manager \notin Scope(selected')
  BY <1>1, <1>5, SelectionOfManifest, AcceptedSparesManager DEF Chosen
<1> QED BY <1>1, <1>2, <1>3, <1>4, <1>5

-----------------------------------------------------------------------------
(***************************************************************************)
(* The state variables keep their types: one artifact is extracted at a    *)
(* time, of those selected and no longer waiting.                          *)
(***************************************************************************)
THEOREM TypeCorrect == Spec => []TypeOK
<1> USE RestoreAssumption DEF RestoreAssumption
<1>0. /\ Cardinality({}) = 0
      /\ \A t : Cardinality({t}) = 1
  BY FS_EmptySet, FS_Singleton
<1>1. Init => TypeOK
  BY <1>0 DEF Init, TypeOK, Steps
<1>2. TypeOK /\ [Next]_vars => TypeOK'
  <2> SUFFICES ASSUME TypeOK, [Next]_vars PROVE TypeOK'
    OBVIOUS
  <2> USE <1>0 DEF TypeOK, Steps, run, history, bounds, GoTo
  <2>1. ASSUME NEW answer \in {"none", "refused", "ok", "partial", "failed"},
               Gone(answer), up' \subseteq Units, data' = data,
               UNCHANGED bounds \/ Fault
        PROVE  TypeOK'
    <3>1. runs' \in Nat /\ faults' \in Nat /\ present' \subseteq Addons
      BY <2>1 DEF Fault
    <3> QED BY <2>1, <3>1 DEF Gone, Forgotten
  <2>2. ASSUME NEW units \in SUBSET Units, TakesDown(units)
        PROVE  /\ up' \subseteq Units /\ torn' \subseteq Units
               /\ data' \in [Targets -> {"now", "point", "empty", "part"}]
    BY <2>2 DEF TakesDown
  <2>3. ASSUME NEW m \in Modes, NEW only, Refuse(m, only) PROVE TypeOK'
    BY <2>3 DEF Refuse, Called
  <2>4. ASSUME NEW m \in Modes, NEW only, Begin(m, only) PROVE TypeOK'
    BY <2>4, BeginPlans DEF Begin, Called, Forgotten
  <2>5. CASE TeardownRefused
    BY <2>5, <2>1 DEF TeardownRefused
  <2>6. CASE TakeDownCore
    BY <2>6, <2>2 DEF TakeDownCore, TakesDown
  <2>7. CASE CoreStays
    <3> PICK units \in SUBSET queue :
          /\ up' = up \ units
          /\ IF mode = "scoped"
             THEN /\ torn' = torn \cup (up \cap units)
                  /\ queue' = {} /\ GoTo("artifact")
                  /\ UNCHANGED <<mode, selected, rest, at, failed, missed, unseen,
                                 result>>
             ELSE Gone("none")
      BY <2>7 DEF CoreStays
    <3>1. CASE mode = "scoped"
      BY <3>1, <2>7 DEF CoreStays, Fault, CanTearDown
    <3>2. CASE mode # "scoped"
      BY <3>2, <2>7, <2>1 DEF CoreStays
    <3> QED BY <3>1, <3>2
  <2>8. ASSUME NEW u \in Addons, TakeDownAddon(u) PROVE TypeOK'
    <3>1. {u} \in SUBSET Units
      BY DEF Units
    <3> QED BY <2>8, <3>1, <2>2 DEF TakeDownAddon, TakesDown, CanTearDown
  <2>9. ASSUME NEW u \in Addons, AddonMissing(u) PROVE TypeOK'
    <3> DEFINE units == IF mode = "scoped" THEN {} ELSE {u}
    <3>1. units \in SUBSET Units
      BY DEF Units
    <3> QED BY <2>9, <3>1, <2>2 DEF AddonMissing, TakesDown, CanTearDown
  <2>10. ASSUME NEW u \in Addons, AddonStays(u) PROVE TypeOK'
    BY <2>10, <2>1 DEF AddonStays
  <2>11. ASSUME NEW t \in Targets, SkipInUse(t) PROVE TypeOK'
    BY <2>11 DEF SkipInUse, Counted
  <2>12. ASSUME NEW t \in Targets, SkipUnrestorable(t) PROVE TypeOK'
    BY <2>12 DEF SkipUnrestorable, Counted
  <2>13. ASSUME NEW t \in Targets, Wipe(t) \/ WipeUnseen(t) PROVE TypeOK'
    <3>1. data' \in [Targets -> {"now", "point", "empty", "part"}]
      BY <2>13 DEF Wipe, WipeUnseen, Wiped
    <3>2. at' = {t} /\ Cardinality(at') = 1
      BY <2>13 DEF Wipe, WipeUnseen, Wiped
    <3>3. /\ unseen' \subseteq Volumes
          /\ runs' \in Nat /\ faults' \in Nat /\ present' \subseteq Addons
      BY <2>13 DEF Wipe, WipeUnseen, InUse, Fault
    <3>4. Wiped(t)
      BY <2>13 DEF Wipe, WipeUnseen
    <3> QED BY <3>1, <3>2, <3>3, <3>4 DEF Wiped
  <2>14. ASSUME NEW t \in Targets, ContainerFails(t) PROVE TypeOK'
    <3>1. runs' \in Nat /\ faults' \in Nat /\ present' \subseteq Addons
      BY <2>14 DEF ContainerFails, Fault
    <3> QED BY <2>14, <3>1 DEF ContainerFails, Counted
  <2>15. CASE Extract
    BY <2>15 DEF Extract
  <2>16. CASE ExtractFails
    BY <2>16 DEF ExtractFails, Counted, Fault
  <2>17. CASE ArtifactsDone
    <3>1. Enabled \subseteq Units
      BY PlanAssumption DEF PlanAssumption, Enabled, Units
    <3>2. Scope(selected) \subseteq Units
      BY ScopeUnits
    <3> QED BY <2>17, <3>1, <3>2 DEF ArtifactsDone
  <2>18. ASSUME NEW u \in Units, StartAgain(u) PROVE TypeOK'
    BY <2>18 DEF StartAgain
  <2>19. ASSUME NEW u \in Units, PassOver(u) PROVE TypeOK'
    BY <2>19 DEF PassOver
  <2>20. CASE StartedAgain
    BY <2>20 DEF StartedAgain
  <2>21. CASE StartRefused \/ StartFails \/ Log \/ Killed
    BY <2>21, <2>1 DEF StartRefused, StartFails, Log, Killed
  <2>22. CASE AddonsUnlisted
    BY <2>22 DEF AddonsUnlisted, Fault
  <2>23. CASE UNCHANGED vars
    BY <2>23 DEF vars
  <2>24. ASSUME NEW u \in Addons, AddonUnfound(u) PROVE TypeOK'
    BY <2>24 DEF AddonUnfound, Fault
  <2> QED
    BY <2>3, <2>4, <2>5, <2>6, <2>7, <2>8, <2>9, <2>10, <2>11, <2>12, <2>13,
       <2>14, <2>15, <2>16, <2>17, <2>18, <2>19, <2>20, <2>21, <2>22, <2>23,
       <2>24 DEF Next
<1> QED BY <1>1, <1>2, PTL DEF Spec

-----------------------------------------------------------------------------
(* What a run is about stays what it was told: what it restores is in the  *)
(* manifest, what it extracts has been looked for, and a scoped run acts   *)
(* on the units of its selection, which spares papaia-manager.             *)
KeepsToPlan ==
  /\ selected \subseteq Manifest
  /\ \A t \in at : Restorable(t)
  /\ pc # "idle" => mode \in Modes
  /\ pc # "idle" /\ mode \in Scoped =>
       /\ Config \notin selected /\ Manager \notin Scope(selected)
       /\ pc = "teardown" => queue \subseteq Scope(selected)

LEMMA RunKeepsToPlan == Spec => []KeepsToPlan
<1>1. Init => KeepsToPlan
  BY DEF Init, KeepsToPlan
<1>2. TypeOK /\ KeepsToPlan /\ [Next]_vars => KeepsToPlan'
  <2> SUFFICES ASSUME TypeOK, KeepsToPlan, [Next]_vars PROVE KeepsToPlan'
    OBVIOUS
  <2> USE DEF KeepsToPlan, GoTo, Restorable
  <2>1. ASSUME NEW m \in Modes, NEW only, Refuse(m, only) PROVE KeepsToPlan'
    BY <2>1 DEF Refuse, Called, TypeOK
  <2>2. ASSUME NEW m \in Modes, NEW only, Begin(m, only) PROVE KeepsToPlan'
    <3>1. m \in Scoped /\ pc' = "teardown" => queue' \subseteq Scope(selected')
      BY <2>2 DEF Begin
    <3> QED BY <2>2, <3>1, BeginPlans DEF Begin
  <2>3. ASSUME UNCHANGED <<mode, selected>>,
               \A t \in at' : Restorable(t),
               pc' # "idle" => pc # "idle",
               pc' = "teardown" => pc = "teardown" /\ queue' \subseteq queue
        PROVE  KeepsToPlan'
    BY <2>3
  <2>4. ASSUME NEW answer, Gone(answer) PROVE KeepsToPlan'
    BY <2>4, <2>3 DEF Gone
  <2>5. CASE TakeDownCore \/ CoreStays
    BY <2>5, <2>3, <2>4 DEF TakeDownCore, CoreStays, CanTearDown, TakesDown
  <2>6. ASSUME NEW u \in Addons,
               TakeDownAddon(u) \/ AddonMissing(u)
        PROVE  KeepsToPlan'
    BY <2>6, <2>3 DEF TakeDownAddon, AddonMissing, CanTearDown, TakesDown
  <2>7. ASSUME NEW t \in Targets,
               SkipInUse(t) \/ SkipUnrestorable(t) \/ ContainerFails(t) \/ Wipe(t)
                 \/ WipeUnseen(t)
        PROVE  KeepsToPlan'
    BY <2>7, <2>3 DEF SkipInUse, SkipUnrestorable, ContainerFails, Counted, Wipe,
       WipeUnseen, Wiped
  <2>8. CASE Extract \/ ExtractFails \/ ArtifactsDone \/ StartedAgain
    BY <2>8, <2>3 DEF Extract, ExtractFails, Counted, ArtifactsDone, StartedAgain, run
  <2>9. ASSUME NEW u \in Units, StartAgain(u) \/ PassOver(u) PROVE KeepsToPlan'
    BY <2>9, <2>3 DEF StartAgain, PassOver
  <2>10. ASSUME NEW u \in Addons, AddonStays(u) PROVE KeepsToPlan'
    BY <2>10, <2>4 DEF AddonStays
  <2>11. CASE TeardownRefused \/ StartRefused \/ StartFails \/ Log \/ Killed
    BY <2>11, <2>4 DEF TeardownRefused, StartRefused, StartFails, Log, Killed
  <2>12. CASE UNCHANGED vars
    BY <2>12, <2>3 DEF vars, run
  <2>13. CASE AddonsUnlisted
    BY <2>13, <2>3 DEF AddonsUnlisted
  <2>14. ASSUME NEW u \in Addons, AddonUnfound(u) PROVE KeepsToPlan'
    BY <2>14, <2>3 DEF AddonUnfound
  <2> QED
    BY <2>1, <2>2, <2>5, <2>6, <2>7, <2>8, <2>9, <2>10, <2>11, <2>12, <2>13, <2>14
       DEF Next
<1> QED BY <1>1, <1>2, TypeCorrect, PTL DEF Spec

(***************************************************************************)
(* A scoped restore leaves what it has not been told to restore alone, at  *)
(* every step and in every failure, and takes no unit down but those of    *)
(* its selection, which papaia-manager is never one of.                    *)
(***************************************************************************)
THEOREM ScopedRestoresStayInScope == Spec => ScopedLeavesRest
<1> DEFINE Leaves ==
      pc # "idle" /\ mode \in Scoped =>
        /\ \A t \in Targets \ selected : data'[t] = data[t]
        /\ up \ up' \subseteq Scope(selected) \ {Manager}
        /\ data'[Config] = data[Config]
<1>1. TypeOK /\ KeepsToPlan /\ [Next]_vars => [Leaves]_vars
  <2> SUFFICES ASSUME TypeOK, KeepsToPlan, Next, pc # "idle", mode \in Scoped
               PROVE  Leaves
    OBVIOUS
  <2>0. Config \in Targets \ selected /\ Manager \notin Scope(selected)
    BY DEF KeepsToPlan, Targets
  <2>1. ASSUME NEW units \in SUBSET queue, TakesDown(units), pc = "teardown"
        PROVE  Leaves
    <3>1. Deleted(units) = {}
      BY DEF Deleted, Scoped
    <3>2. up \ up' \subseteq Scope(selected)
      BY <2>1 DEF TakesDown, KeepsToPlan
    <3> QED BY <2>0, <2>1, <3>1, <3>2 DEF TakesDown
  <2>2. ASSUME data' = data, up \ up' = {} \/ (pc = "teardown" /\ up \ up' \subseteq queue)
        PROVE  Leaves
    BY <2>0, <2>2 DEF KeepsToPlan
  <2>3. ASSUME up' = up, \A t \in Targets \ selected : data'[t] = data[t]
        PROVE  Leaves
    BY <2>0, <2>3
  <2>4. CASE TakeDownCore
    BY <2>4, <2>1 DEF TakeDownCore, CanTearDown
  <2>5. CASE CoreStays
    BY <2>5, <2>2 DEF CoreStays, CanTearDown
  <2>6. ASSUME NEW u \in Addons, TakeDownAddon(u) PROVE Leaves
    BY <2>6, <2>1 DEF TakeDownAddon, CanTearDown
  <2>7. ASSUME NEW u \in Addons, AddonMissing(u) PROVE Leaves
    <3>1. PICK units \in SUBSET queue : TakesDown(units)
      BY <2>7 DEF AddonMissing
    <3> QED BY <3>1, <2>1, <2>7 DEF AddonMissing, CanTearDown
  <2>8. ASSUME NEW u \in Addons, AddonStays(u) PROVE Leaves
    BY <2>8, <2>2 DEF AddonStays, CanTearDown
  <2>9. ASSUME NEW t \in Targets,
               SkipInUse(t) \/ SkipUnrestorable(t) \/ ContainerFails(t) \/ Wipe(t)
                 \/ WipeUnseen(t)
        PROVE  Leaves
    BY <2>9, <2>3 DEF SkipInUse, SkipUnrestorable, ContainerFails, Counted, Wipe,
       WipeUnseen, Wiped, TypeOK
  <2>10. CASE Extract \/ ExtractFails
    BY <2>10, <2>3 DEF Extract, ExtractFails, Counted, TypeOK
  <2>11. CASE ArtifactsDone \/ StartedAgain \/ TeardownRefused \/ StartRefused
              \/ StartFails \/ Log \/ Killed \/ AddonsUnlisted
    BY <2>11, <2>3 DEF ArtifactsDone, StartedAgain, TeardownRefused, StartRefused,
       StartFails, Log, Killed, AddonsUnlisted
  <2>12. ASSUME NEW u \in Units, StartAgain(u) \/ PassOver(u) PROVE Leaves
    BY <2>12, <2>2 DEF StartAgain, PassOver
  <2>13. ASSUME NEW m \in Modes, NEW only, Refuse(m, only) \/ Begin(m, only)
         PROVE  Leaves
    BY <2>13 DEF Refuse, Begin, Called
  <2>14. ASSUME NEW u \in Addons, AddonUnfound(u) PROVE Leaves
    BY <2>14, <2>2, <2>3 DEF AddonUnfound
  <2> QED
    BY <2>4, <2>5, <2>6, <2>7, <2>8, <2>9, <2>10, <2>11, <2>12, <2>13, <2>14 DEF Next
<1>2. Spec => [][Leaves]_vars
  BY <1>1, TypeCorrect, RunKeepsToPlan, PTL DEF Spec
<1> QED BY <1>2 DEF ScopedLeavesRest

(***************************************************************************)
(* No restore but one that removes volumes before it wipes what the        *)
(* restore point cannot fill again.                                        *)
(***************************************************************************)
THEOREM NothingLostUnfilled == Spec => UnrestorableKept
<1> DEFINE Unfillable == {t \in Targets : t \notin Manifest \/ ~Restorable(t)}
           Keeps == mode # "clean" => \A t \in Targets :
                      t \notin Manifest \/ ~Restorable(t) => data'[t] = data[t]
<1>1. TypeOK /\ KeepsToPlan /\ [Next]_vars => [Keeps]_vars
  <2> SUFFICES ASSUME TypeOK, KeepsToPlan, Next, mode # "clean"
               PROVE  \A t \in Unfillable : data'[t] = data[t]
    OBVIOUS
  <2> DEFINE Kept == \A t \in Unfillable : data'[t] = data[t]
  <2>1. ASSUME NEW units, TakesDown(units) PROVE Kept
    BY <2>1 DEF TakesDown, Deleted
  <2>2. CASE TakeDownCore \/ CoreStays
    BY <2>2, <2>1 DEF TakeDownCore, CoreStays
  <2>3. ASSUME NEW u \in Addons,
               TakeDownAddon(u) \/ AddonMissing(u) \/ AddonStays(u)
        PROVE  Kept
    BY <2>3, <2>1 DEF TakeDownAddon, AddonMissing, AddonStays
  <2>4. ASSUME NEW t \in Targets,
               SkipInUse(t) \/ SkipUnrestorable(t) \/ ContainerFails(t) \/ Wipe(t)
                 \/ WipeUnseen(t)
        PROVE  Kept
    <3>1. CASE Wipe(t) \/ WipeUnseen(t)
      <4>1. t \notin Unfillable
        BY <3>1 DEF Wipe, WipeUnseen, Wiped, KeepsToPlan, TypeOK
      <4> QED BY <3>1, <4>1 DEF Wipe, WipeUnseen, Wiped, TypeOK
    <3> QED BY <2>4, <3>1 DEF SkipInUse, SkipUnrestorable, ContainerFails
  <2>5. CASE Extract \/ ExtractFails
    <3>1. at \cap Unfillable = {}
      BY DEF KeepsToPlan, TypeOK
    <3> QED BY <2>5, <3>1 DEF Extract, ExtractFails, TypeOK
  <2>6. CASE ArtifactsDone \/ StartedAgain \/ TeardownRefused \/ StartRefused
             \/ StartFails \/ Log \/ Killed \/ AddonsUnlisted
    BY <2>6 DEF ArtifactsDone, StartedAgain, TeardownRefused, StartRefused,
       StartFails, Log, Killed, AddonsUnlisted
  <2>7. ASSUME NEW u \in Units, StartAgain(u) \/ PassOver(u) PROVE Kept
    BY <2>7 DEF StartAgain, PassOver
  <2>8. ASSUME NEW m \in Modes, NEW only, Refuse(m, only) \/ Begin(m, only)
        PROVE  Kept
    BY <2>8 DEF Refuse, Begin
  <2>9. ASSUME NEW u \in Addons, AddonUnfound(u) PROVE Kept
    BY <2>9 DEF AddonUnfound
  <2> QED BY <2>2, <2>3, <2>4, <2>5, <2>6, <2>7, <2>8, <2>9 DEF Next
<1>2. Spec => [][Keeps]_vars
  BY <1>1, TypeCorrect, RunKeepsToPlan, PTL DEF Spec
<1> QED BY <1>2 DEF UnrestorableKept

-----------------------------------------------------------------------------
(* What runs of the bundle waits to be taken down, and runs no longer when *)
(* the first artifact is wiped, unless it was missing in the list; what a  *)
(* scoped run wipes has no user up that it was told of.                    *)
StandsStill ==
  /\ mode \in {"full", "clean"} =>
       /\ pc = "teardown" =>
            up \cap EnabledNow \cap EnabledThen \subseteq queue \cup missed
       /\ pc \in {"artifact", "extract"} =>
            up \cap EnabledNow \cap EnabledThen \subseteq missed
  /\ mode = "scoped" /\ pc = "extract" =>
       \A v \in at \cap Volumes : Users[v] \cap up = {} \/ v \in unseen

(***************************************************************************)
(* No volume is wiped and filled under a running container of its users,   *)
(* unless docker ps or the list of the add-ons failed and named none.      *)
(***************************************************************************)
THEOREM NoVolumeInUse == Spec => []NeverUnderUsers
<1>1. Init => StandsStill
  BY DEF Init, StandsStill
<1>2. TypeOK /\ KeepsToPlan /\ StandsStill /\ [Next]_vars => StandsStill'
  <2> SUFFICES ASSUME TypeOK, KeepsToPlan, StandsStill, [Next]_vars
               PROVE  StandsStill'
    OBVIOUS
  <2> USE DEF StandsStill, GoTo
  <2>1. ASSUME NEW m \in Modes, NEW only, Refuse(m, only) \/ Begin(m, only)
        PROVE  StandsStill'
    <3>1. CASE Refuse(m, only)
      BY <3>1 DEF Refuse, Called
    <3>2. CASE Begin(m, only)
      <4>1. pc' # "extract" /\ mode' = m
        BY <3>2 DEF Begin
      <4>2. m \in {"full", "clean"} =>
              pc' = "teardown" /\ queue' = Enabled /\ up' = up
        BY <3>2 DEF Begin, Scoped, Untouched
      <4>3. EnabledNow \cap EnabledThen \subseteq Enabled
        BY DEF Enabled
      <4> QED BY <4>1, <4>2, <4>3
    <3> QED BY <2>1, <3>1, <3>2
  <2>2. ASSUME pc' \in {"idle", "restart", "log"} PROVE StandsStill'
    BY <2>2
  <2>3. ASSUME UNCHANGED <<up, mode, history>>,
               pc' = "artifact" \/ UNCHANGED <<pc, at, queue>>,
               pc' = "artifact" => pc \in {"artifact", "extract"}
        PROVE  StandsStill'
    BY <2>3 DEF history
  <2>4. CASE TakeDownCore
    BY <2>4 DEF TakeDownCore, CanTearDown, TakesDown
  <2>5. CASE CoreStays
    BY <2>5, <2>2 DEF CoreStays, Gone
  <2>6. ASSUME NEW u \in Addons, TakeDownAddon(u) PROVE StandsStill'
    BY <2>6 DEF TakeDownAddon, CanTearDown, TakesDown
  <2>7. ASSUME NEW u \in Addons, AddonMissing(u) PROVE StandsStill'
    BY <2>7 DEF AddonMissing, CanTearDown, TakesDown
  <2>8. ASSUME NEW t \in Targets,
               SkipInUse(t) \/ SkipUnrestorable(t) \/ ContainerFails(t)
        PROVE  StandsStill'
    BY <2>8, <2>3 DEF SkipInUse, SkipUnrestorable, ContainerFails, Counted
  <2>9. ASSUME NEW t \in Targets, Wipe(t) \/ WipeUnseen(t) PROVE StandsStill'
    <3>1. Wiped(t)
      BY <2>9 DEF Wipe, WipeUnseen
    <3>2. mode = "scoped" /\ t \in Volumes => Users[t] \cap up = {} \/ t \in unseen'
      BY <2>9 DEF Wipe, WipeUnseen, InUse
    <3> QED BY <3>1, <3>2 DEF Wiped
  <2>10. CASE Extract \/ ExtractFails
    BY <2>10, <2>3 DEF Extract, ExtractFails, Counted
  <2>11. CASE ArtifactsDone \/ StartedAgain
    BY <2>11, <2>2 DEF ArtifactsDone, StartedAgain
  <2>12. ASSUME NEW u \in Units, StartAgain(u) \/ PassOver(u) PROVE StandsStill'
    BY <2>12, <2>2 DEF StartAgain, PassOver
  <2>13. ASSUME NEW u \in Addons, AddonStays(u) PROVE StandsStill'
    BY <2>13, <2>2 DEF AddonStays, Gone
  <2>14. CASE TeardownRefused \/ StartRefused \/ StartFails \/ Log \/ Killed
    BY <2>14, <2>2 DEF TeardownRefused, StartRefused, StartFails, Log, Killed, Gone
  <2>15. CASE UNCHANGED vars
    BY <2>15, <2>3 DEF vars, run
  <2>16. CASE AddonsUnlisted
    <3>1. queue \subseteq queue' \cup missed'
      BY <2>16 DEF AddonsUnlisted, TypeOK, Units
    <3> QED BY <2>16, <3>1 DEF AddonsUnlisted
  <2>17. ASSUME NEW u \in Addons, AddonUnfound(u) PROVE StandsStill'
    BY <2>17 DEF AddonUnfound
  <2> QED
    BY <2>1, <2>4, <2>5, <2>6, <2>7, <2>8, <2>9, <2>10, <2>11, <2>12, <2>13,
       <2>14, <2>15, <2>16, <2>17 DEF Next
<1>3. KeepsToPlan /\ StandsStill => NeverUnderUsers
  <2> SUFFICES ASSUME KeepsToPlan, StandsStill, pc = "extract",
                      mode \notin Untouched, NEW v \in at \cap Volumes
               PROVE  IF mode = "scoped" THEN Users[v] \cap up = {} \/ v \in unseen
                      ELSE Users[v] \cap up \cap EnabledNow \cap EnabledThen
                             \subseteq missed
    BY DEF NeverUnderUsers
  <2>1. mode \in {"full", "clean", "scoped"}
    BY RestoreAssumption DEF RestoreAssumption, KeepsToPlan, Scoped, Untouched
  <2> QED BY <2>1 DEF StandsStill
<1> QED BY <1>1, <1>2, <1>3, TypeCorrect, RunKeepsToPlan, PTL DEF Spec

-----------------------------------------------------------------------------
(* What a run has taken from its list is restored, being extracted or      *)
(* counted as failed, and it does not answer before its end.               *)
Accounted ==
  /\ pc # "idle" => result = "none"
  /\ pc = "teardown" => rest = selected
  /\ pc \in {"restart", "log"} => rest = {}
  /\ at # {} => pc = "extract"
  /\ \A s, t \in at : s = t
  /\ pc # "idle" => \A t \in selected \ (rest \cup at \cup failed) : data[t] = "point"
  /\ ResultTruthful

(***************************************************************************)
(* A restore answers "ok" only when everything selected holds the data of  *)
(* the restore point, and "partial" only when something does.              *)
(***************************************************************************)
THEOREM AnswersAreTrue == Spec => []ResultTruthful
<1>1. Init => Accounted
  BY DEF Init, Accounted, ResultTruthful
<1>2. TypeOK /\ Accounted /\ [Next]_vars => Accounted'
  <2> SUFFICES ASSUME TypeOK, Accounted, [Next]_vars PROVE Accounted'
    OBVIOUS
  <2> USE DEF Accounted, GoTo
  <2> DEFINE Restored == \A t \in selected \ (rest \cup at \cup failed) : data[t] = "point"
  <2>1. ASSUME result' = "none" PROVE ResultTruthful'
    BY <2>1 DEF ResultTruthful
  <2>2. ASSUME NEW m \in Modes, NEW only, Refuse(m, only) PROVE Accounted'
    BY <2>2 DEF Refuse, Called, ResultTruthful, TypeOK
  <2>3. ASSUME NEW m \in Modes, NEW only, Begin(m, only) PROVE Accounted'
    BY <2>3, <2>1 DEF Begin
  <2>4. ASSUME Gone("none") \/ Gone("refused") PROVE Accounted'
    BY <2>4 DEF Gone, ResultTruthful
  <2>5. ASSUME pc = "teardown", pc' \in {"teardown", "artifact"},
               UNCHANGED <<selected, rest, at, failed, result>>
        PROVE  Accounted'
    BY <2>5, <2>1
  <2>6. CASE TakeDownCore \/ CoreStays
    BY <2>6, <2>4, <2>5 DEF TakeDownCore, CoreStays, CanTearDown, TakesDown
  <2>7. ASSUME NEW u \in Addons, TakeDownAddon(u) \/ AddonMissing(u) PROVE Accounted'
    BY <2>7, <2>5 DEF TakeDownAddon, AddonMissing, CanTearDown, TakesDown
  <2>8. ASSUME NEW t \in Targets,
               SkipInUse(t) \/ SkipUnrestorable(t) \/ ContainerFails(t)
        PROVE  Accounted'
    BY <2>8, <2>1 DEF SkipInUse, SkipUnrestorable, ContainerFails, Counted
  <2>9. ASSUME NEW t \in Targets, Wipe(t) \/ WipeUnseen(t) PROVE Accounted'
    <3>0. Wiped(t)
      BY <2>9 DEF Wipe, WipeUnseen
    <3>1. Restored'
      BY <3>0 DEF Wiped, TypeOK
    <3> QED BY <3>0, <3>1, <2>1 DEF Wiped
  <2>10. CASE Extract
    <3>1. Restored'
      BY <2>10 DEF Extract, TypeOK
    <3> QED BY <2>10, <3>1, <2>1 DEF Extract
  <2>11. CASE ExtractFails
    <3> PICK t \in at, left \in {"empty", "part"} :
          data' = [data EXCEPT ![t] = left] /\ Counted(t)
      BY <2>11 DEF ExtractFails
    <3>1. Restored'
      BY <2>11 DEF ExtractFails, Counted, TypeOK
    <3> QED BY <2>11, <3>1, <2>1 DEF ExtractFails, Counted
  <2>12. CASE ArtifactsDone \/ StartedAgain
    BY <2>12, <2>1 DEF ArtifactsDone, StartedAgain, run
  <2>13. ASSUME NEW u \in Units, StartAgain(u) \/ PassOver(u) PROVE Accounted'
    BY <2>13, <2>1 DEF StartAgain, PassOver
  <2>14. CASE Log
    <3>1. \A t \in selected \ failed : data[t] = "point"
      BY <2>14 DEF Log
    <3>2. ResultTruthful'
      BY <2>14, <3>1 DEF Log, Gone, ResultTruthful, TypeOK
    <3> QED BY <2>14, <3>2 DEF Log, Gone
  <2>15. ASSUME NEW u \in Addons, AddonStays(u) PROVE Accounted'
    BY <2>15, <2>4 DEF AddonStays
  <2>16. CASE TeardownRefused \/ StartRefused \/ StartFails \/ Killed
    BY <2>16, <2>4 DEF TeardownRefused, StartRefused, StartFails, Killed
  <2>17. CASE UNCHANGED vars
    BY <2>17 DEF vars, run, ResultTruthful
  <2>18. CASE AddonsUnlisted
    BY <2>18, <2>1 DEF AddonsUnlisted
  <2>19. ASSUME NEW u \in Addons, AddonUnfound(u) PROVE Accounted'
    BY <2>19, <2>1 DEF AddonUnfound, CanTearDown
  <2> QED
    BY <2>2, <2>3, <2>6, <2>7, <2>8, <2>9, <2>10, <2>11, <2>12, <2>13, <2>14,
       <2>15, <2>16, <2>17, <2>18, <2>19 DEF Next
<1>3. Accounted => ResultTruthful
  BY DEF Accounted
<1> QED BY <1>1, <1>2, <1>3, TypeCorrect, PTL DEF Spec

-----------------------------------------------------------------------------
(* What has been taken down and is to come back: it is up, or in the list  *)
(* of what will be started, or there was no list.                          *)
Owed == IF mode \in Scoped THEN torn ELSE torn \cap Enabled
IsOwed ==
  /\ pc = "teardown" => mode \notin Untouched
  /\ pc # "idle" /\ mode \in Untouched => torn = {}
  /\ pc # "idle" /\ mode = "scoped" =>
       torn \subseteq Scope(selected) \ (Addons \ present)
  /\ pc = "restart" => Owed \subseteq up \cup queue \cup missed
  /\ pc = "log" => Owed \subseteq up \cup missed

(***************************************************************************)
(* A restore that comes to its end has started again what it took down,    *)
(* as far as the bundle enables it, but for the add-ons that it could not  *)
(* list or find.                                                           *)
(***************************************************************************)
THEOREM WhatWasTakenDownIsBack == Spec => []BroughtBack
<1>1. Init => IsOwed
  BY DEF Init, IsOwed, Scoped
<1>2. TypeOK /\ KeepsToPlan /\ IsOwed /\ [Next]_vars => IsOwed'
  <2> SUFFICES ASSUME TypeOK, KeepsToPlan, IsOwed, [Next]_vars PROVE IsOwed'
    OBVIOUS
  <2> USE DEF IsOwed, Owed, GoTo
  <2>1. ASSUME pc' = "idle" PROVE IsOwed'
    BY <2>1
  <2>2. ASSUME NEW m \in Modes, NEW only, Refuse(m, only) \/ Begin(m, only)
        PROVE  IsOwed'
    <3>1. pc' # "idle" => pc' \in {"teardown", "artifact"} /\ torn' = {}
                          /\ mode' = m /\ (pc' = "teardown" => m \notin Untouched)
      BY <2>2 DEF Refuse, Begin, Called, Forgotten
    <3> QED BY <3>1
  <2>3. ASSUME NEW units \in SUBSET queue, units \cap (Addons \ present) = {} \/ mode # "scoped",
               pc = "teardown", torn' = torn \cup (up \cap units),
               pc' \in {"teardown", "artifact"}, UNCHANGED <<mode, selected, present>>
        PROVE  IsOwed'
    <3>1. mode = "scoped" => units \subseteq Scope(selected) \ (Addons \ present)
      BY <2>3 DEF KeepsToPlan, Scoped
    <3> QED BY <2>3, <3>1
  <2>4. CASE TakeDownCore
    <3>1. queue \cap (Addons \ present) = {}
      BY <2>4, PlanAssumption DEF PlanAssumption, TakeDownCore
    <3> QED BY <2>4, <2>3, <3>1 DEF TakeDownCore, CanTearDown, TakesDown, bounds
  <2>5. CASE CoreStays
    <3>1. queue \cap (Addons \ present) = {}
      BY <2>5, PlanAssumption DEF PlanAssumption, CoreStays
    <3> QED BY <2>5, <2>1, <2>3, <3>1 DEF CoreStays, CanTearDown, Fault, Gone
  <2>6. ASSUME NEW u \in Addons, TakeDownAddon(u) PROVE IsOwed'
    BY <2>6, <2>3 DEF TakeDownAddon, CanTearDown, TakesDown, bounds
  <2>7. ASSUME NEW u \in Addons, AddonMissing(u) PROVE IsOwed'
    <3> DEFINE units == IF mode = "scoped" THEN {} ELSE {u}
    <3>1. units \in SUBSET queue /\ (units \cap (Addons \ present) = {} \/ mode # "scoped")
      BY <2>7 DEF AddonMissing
    <3> QED BY <2>7, <2>3, <3>1 DEF AddonMissing, CanTearDown, TakesDown, bounds
  <2>8. ASSUME NEW t \in Targets,
               SkipInUse(t) \/ SkipUnrestorable(t) \/ ContainerFails(t) \/ Wipe(t)
                 \/ WipeUnseen(t)
        PROVE  IsOwed'
    BY <2>8 DEF SkipInUse, SkipUnrestorable, ContainerFails, Counted, Wipe, WipeUnseen,
       Wiped, Fault, history, bounds
  <2>9. CASE Extract \/ ExtractFails
    BY <2>9 DEF Extract, ExtractFails, Counted, Fault, history, bounds
  <2>10. CASE ArtifactsDone
    <3>1. mode = "scoped" => torn \subseteq Scope(selected)
      BY <2>10 DEF ArtifactsDone, history
    <3>2. Enabled' = Enabled
      BY <2>10 DEF ArtifactsDone, Enabled
    <3> QED BY <2>10, <3>1, <3>2 DEF ArtifactsDone, Scoped, Untouched, history, bounds
  <2>11. ASSUME NEW u \in Units, StartAgain(u) PROVE IsOwed'
    <3>1. Enabled' = Enabled
      BY <2>11 DEF StartAgain, Enabled
    <3> QED BY <2>11, <3>1 DEF StartAgain, history, bounds
  <2>12. ASSUME NEW u \in Units, PassOver(u) PROVE IsOwed'
    <3>1. Enabled' = Enabled
      BY <2>12 DEF PassOver, Enabled
    <3>2. u \notin torn
      BY <2>12 DEF PassOver
    <3> QED BY <2>12, <3>1, <3>2 DEF PassOver, history, bounds, Scoped
  <2>13. CASE StartedAgain
    <3>1. Enabled' = Enabled
      BY <2>13 DEF StartedAgain, Enabled
    <3> QED BY <2>13, <3>1 DEF StartedAgain, run, history, bounds
  <2>14. ASSUME NEW u \in Addons, AddonStays(u) PROVE IsOwed'
    BY <2>14, <2>1 DEF AddonStays, Gone
  <2>15. CASE TeardownRefused \/ StartRefused \/ StartFails \/ Log \/ Killed
    BY <2>15, <2>1 DEF TeardownRefused, StartRefused, StartFails, Log, Killed, Gone
  <2>16. CASE UNCHANGED vars
    BY <2>16 DEF vars, run, history, bounds, Enabled
  <2>17. CASE AddonsUnlisted
    <3>1. Enabled' = Enabled
      BY <2>17 DEF AddonsUnlisted, Enabled
    <3>2. queue \subseteq queue' \cup missed' /\ missed \subseteq missed'
      BY <2>17 DEF AddonsUnlisted, TypeOK, Units
    <3> QED BY <2>17, <3>1, <3>2 DEF AddonsUnlisted, Scoped, Untouched, Fault
  <2>18. ASSUME NEW u \in Addons, AddonUnfound(u) PROVE IsOwed'
    <3>1. Enabled' = Enabled
      BY <2>18 DEF AddonUnfound, Enabled
    <3> QED BY <2>18, <3>1 DEF AddonUnfound, Fault
  <2> QED
    BY <2>2, <2>4, <2>5, <2>6, <2>7, <2>8, <2>9, <2>10, <2>11, <2>12, <2>13,
       <2>14, <2>15, <2>16, <2>17, <2>18 DEF Next
<1>3. IsOwed => BroughtBack
  BY DEF IsOwed, Owed, BroughtBack
<1> QED BY <1>1, <1>2, <1>3, TypeCorrect, RunKeepsToPlan, PTL DEF Spec
=============================================================================
