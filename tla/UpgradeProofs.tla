--------------------------- MODULE UpgradeProofs ---------------------------
(***************************************************************************)
(* Theorems of Upgrade, for every set of releases and migrations.          *)
(***************************************************************************)
EXTENDS Upgrade, TLAPS

(***************************************************************************)
(* Every step keeps the state variables in their types.                    *)
(***************************************************************************)
LEMMA TakeBackupType ==
  ASSUME TypeOK, NEW result \in PointResults, TakeBackup(result)
  PROVE  TypeOK'
<1> USE ReleasesAssumption
<1> USE DEF TypeOK, Points
<1>1. points' \in Seq(Points)
  BY DEF TakeBackup
<1>2. point' \in Nat
  BY DEF TakeBackup, Gone
<1>3. /\ pc' \in {"stop", "idle"}
      /\ from' \in Versions /\ target' \in Versions
      /\ todo' \subseteq Migrations /\ current' \in Migrations \cup {0}
  BY DEF TakeBackup, Gone, ReleasesAssumption
<1>4. faults' \in Nat /\ left' \subseteq Parts
  BY DEF TakeBackup, Gone, Fault
<1> QED
  BY <1>1, <1>2, <1>3, <1>4 DEF TakeBackup, Phase1

(* What a command leaves running, it leaves as parts of the stack. *)
LEMMA CommandType ==
  ASSUME TypeOK, CommandNext
  PROVE  stack' \subseteq Parts /\ left' \subseteq Parts
<1>1. stack' \subseteq Parts
  BY DEF CommandNext, Start, Stop, Setup, Checkout, RestoreVolumes, Issued,
    Growing, Parts, TypeOK
<1>2. left' \in {{}, left \cup (stack' \ stack)}
  BY DEF CommandNext, Start, Stop, Setup, Checkout, RestoreVolumes, Issued
<1> QED
  BY <1>1, <1>2 DEF TypeOK

THEOREM TypeCorrect == Spec => []TypeOK
<1> USE ReleasesAssumption, UpgradeAssumption DEF ReleasesAssumption, UpgradeAssumption
<1>1. Init => TypeOK
  BY DEF Init, TypeOK, LogLines, Stages, Points
<1>2. TypeOK /\ [Next]_vars => TypeOK'
  <2> SUFFICES ASSUME TypeOK, [Next]_vars PROVE TypeOK'
    OBVIOUS
  <2> USE DEF TypeOK, Phase1, Phase2, bundle, run, GoTo, Gone, Fault
  <2>1. ASSUME NEW v \in Versions, Resolve(v) PROVE TypeOK'
    BY <2>1 DEF Resolve
  <2>2. CASE Phase1Next
    <3> USE DEF Logged, LogLines, Stages
    <3>1. CASE GatePassed BY <3>1 DEF GatePassed
    <3>2. CASE SkipBackup BY <3>2 DEF SkipBackup
    <3>3. CASE TakeBackup("ok")
      BY <3>3, TakeBackupType DEF PointResults
    <3>4. CASE StopStack BY <3>4 DEF StopStack, Stopped
    <3>5. CASE MoveCheckout BY <3>5 DEF MoveCheckout
    <3> QED BY <2>2, <3>1, <3>2, <3>3, <3>4, <3>5 DEF Phase1Next
  <2>3. CASE Phase2Next
    <3> USE DEF Logged, LogLines, Stages
    <3>1. CASE PlanMigrations
      BY <3>1 DEF PlanMigrations, Pending, Shipped
    <3>2. ASSUME NEW m \in Migrations, StartScript(m) PROVE TypeOK'
      BY <3>2 DEF StartScript
    <3>3. CASE ScriptSucceeds BY <3>3 DEF ScriptSucceeds
    <3>4. CASE RecordMigration BY <3>4 DEF RecordMigration, Shipped
    <3>5. CASE MigrationsDone BY <3>5 DEF MigrationsDone
    <3>6. CASE ApplyConfiguration BY <3>6 DEF ApplyConfiguration
    <3>7. CASE StartStack BY <3>7 DEF StartStack
    <3> QED BY <2>3, <3>1, <3>2, <3>3, <3>4, <3>5, <3>6, <3>7 DEF Phase2Next
  <2>4. CASE FaultNext
    <3> USE DEF Failed, Logged, LogLines, Stages
    <3>1. CASE Refused BY <3>1 DEF Refused
    <3>2. CASE TakeBackup("partial")
      BY <3>2, TakeBackupType DEF PointResults
    <3>3. CASE TakeBackup("failed")
      BY <3>3, TakeBackupType DEF PointResults
    <3>4. CASE StopFails BY <3>4 DEF StopFails
    <3>5. CASE CheckoutFails BY <3>5, SMTT(30) DEF CheckoutFails
    <3>6. CASE PlanFails BY <3>6, SMTT(30) DEF PlanFails
    <3>7. CASE ScriptFails BY <3>7, SMTT(30) DEF ScriptFails
    <3>8. CASE RecordFails BY <3>8, SMTT(30) DEF RecordFails
    <3>9. CASE ConfigurationFails BY <3>9, SMTT(30) DEF ConfigurationFails
    <3>10. CASE StartRefused BY <3>10, SMTT(30) DEF StartRefused
    <3>11. CASE StartFailsUnnoticed
      BY <3>11, SMTT(30) DEF StartFailsUnnoticed, Growing
    <3>12. CASE Crash BY <3>12 DEF Crash
    <3>13. CASE StopMissesAddons
      BY <3>13, SMTT(30) DEF StopMissesAddons, Stopped, Parts
    <3> QED
      BY <2>4, <3>1, <3>2, <3>3, <3>4, <3>5, <3>6, <3>7, <3>8, <3>9, <3>10,
         <3>11, <3>12, <3>13 DEF FaultNext
  <2>5. CASE CommandNext
    <3> USE DEF Issued, Counted
    <3>0. stack' \subseteq Parts /\ left' \subseteq Parts
      BY <2>5, CommandType
    <3>1. CASE Start BY <3>0, <3>1 DEF Start
    <3>2. CASE Stop BY <3>0, <3>2 DEF Stop
    <3>3. CASE Setup BY <3>0, <3>3, SMTT(30) DEF Setup
    <3>4. ASSUME NEW v \in Versions, Checkout(v) PROVE TypeOK'
      BY <3>0, <3>4, SMTT(30) DEF Checkout
    <3>5. ASSUME NEW i \in DOMAIN points, NEW selected \in SUBSET InVolume,
                 RestoreVolumes(i, selected)
          PROVE  TypeOK'
      <4>1. points[i] \in Points
        OBVIOUS
      <4>2. done' \subseteq Migrations /\ touched' \subseteq Migrations
        BY <3>5, <4>1 DEF RestoreVolumes, Points
      <4> QED BY <3>0, <3>5, <4>2, SMTT(30) DEF RestoreVolumes
    <3> QED BY <2>5, <3>1, <3>2, <3>3, <3>4, <3>5 DEF CommandNext
  <2>6. CASE UNCHANGED vars
    BY <2>6 DEF vars
  <2> QED
    BY <2>1, <2>2, <2>3, <2>4, <2>5, <2>6 DEF Next
<1> QED
  BY <1>1, <1>2, PTL DEF Spec

-----------------------------------------------------------------------------
(***************************************************************************)
(* The ledger is sound because a script is recorded only after it has      *)
(* succeeded: what has to be added to make that inductive is that the      *)
(* migration about to be recorded has its result in the installation.      *)
(***************************************************************************)
LedgerInv ==
  /\ LedgerSound
  /\ pc = "record" => current \in done \cup restored

(***************************************************************************)
(* LedgerSound, with every command issued beside the upgrade.              *)
(***************************************************************************)
THEOREM LedgerIsSound == Spec => []LedgerSound
<1>1. Init => LedgerInv
  BY DEF Init, LedgerInv, LedgerSound
<1>2. LedgerInv /\ [Next]_vars => LedgerInv'
  <2> SUFFICES ASSUME LedgerInv, [Next]_vars PROVE LedgerInv'
    OBVIOUS
  <2> USE DEF LedgerInv, LedgerSound, bundle, run, GoTo, Gone
  <2>1. ASSUME NEW v \in Versions, Resolve(v) PROVE LedgerInv'
    BY <2>1 DEF Resolve
  <2>2. CASE Phase1Next
    BY <2>2 DEF Phase1Next, GatePassed, SkipBackup, TakeBackup, StopStack,
      Stopped, MoveCheckout
  <2>3. CASE Phase2Next
    <3>1. ASSUME NEW m \in Migrations, StartScript(m) PROVE LedgerInv'
      BY <3>1 DEF StartScript
    <3>2. CASE ScriptSucceeds BY <3>2 DEF ScriptSucceeds
    <3>3. CASE RecordMigration BY <3>3 DEF RecordMigration
    <3>4. CASE PlanMigrations \/ MigrationsDone \/ ApplyConfiguration \/ StartStack
      BY <3>4 DEF PlanMigrations, MigrationsDone, ApplyConfiguration, StartStack
    <3> QED BY <2>3, <3>1, <3>2, <3>3, <3>4 DEF Phase2Next
  <2>4. CASE FaultNext
    BY <2>4 DEF FaultNext, Refused, TakeBackup, StopFails, StopMissesAddons,
      Stopped, CheckoutFails,
      PlanFails, ScriptFails, RecordFails, ConfigurationFails, StartRefused,
      StartFailsUnnoticed, Crash, Failed
  <2>5. CASE CommandNext
    <3>1. ASSUME NEW i \in DOMAIN points, NEW selected \in SUBSET InVolume,
                 RestoreVolumes(i, selected)
          PROVE  LedgerInv'
      <4>1. done \subseteq done' \cup restored' /\ restored \subseteq restored'
        BY <3>1 DEF RestoreVolumes
      <4> QED BY <3>1, <4>1 DEF RestoreVolumes, Issued
    <3>2. ASSUME NEW v \in Versions, Checkout(v) PROVE LedgerInv'
      BY <3>2 DEF Checkout, Issued
    <3>3. CASE Start \/ Stop \/ Setup
      BY <3>3 DEF Start, Stop, Setup, Issued
    <3> QED BY <2>5, <3>1, <3>2, <3>3 DEF CommandNext
  <2>6. CASE UNCHANGED vars
    BY <2>6 DEF vars
  <2> QED
    BY <2>1, <2>2, <2>3, <2>4, <2>5, <2>6 DEF Next
<1> QED
  BY <1>1, <1>2, PTL DEF Spec, LedgerInv

-----------------------------------------------------------------------------
(***************************************************************************)
(* What a run knows of its plan until it is through with it: the planned   *)
(* migrations are not on record, an earlier one above the release it       *)
(* leaves is planned or on record, and it is at the first of them.         *)
(***************************************************************************)
Migrating == pc \in {"migrate", "script", "record"}

PlanInv ==
  /\ Migrating =>
       /\ todo \cap ledger = {}
       /\ \A m \in todo : \A k \in Migrations :
            k < m /\ from < ShipsWith[k] => k \in ledger \cup todo
  /\ pc \in {"script", "record"} =>
       current \in todo /\ \A k \in todo : current <= k

LEMMA PlanIsSound == Spec => []PlanInv
<1> USE DEF Migrating
<1>1. Init => PlanInv
  BY DEF Init, PlanInv
<1>2. TypeOK /\ PlanInv /\ [Next]_vars => PlanInv'
  <2> SUFFICES ASSUME TypeOK, PlanInv, [Next]_vars PROVE PlanInv'
    OBVIOUS
  <2> USE DEF PlanInv, bundle, run, GoTo, Gone
  <2>1. ASSUME NEW v \in Versions, Resolve(v) PROVE PlanInv'
    BY <2>1 DEF Resolve
  <2>2. CASE Phase1Next
    BY <2>2 DEF Phase1Next, GatePassed, SkipBackup, TakeBackup, StopStack,
      Stopped, MoveCheckout
  <2>3. CASE Phase2Next
    <3>1. CASE PlanMigrations
      <4>1. todo' = Pending(checkout, from, target, ledger)
        BY <3>1 DEF PlanMigrations
      <4>2. ASSUME NEW m \in todo', NEW k \in Migrations,
                   k < m, from < ShipsWith[k]
            PROVE  k \in ledger \cup todo'
        <5>1. m \in Migrations /\ ShipsWith[m] <= checkout
              /\ ShipsWith[m] <= target
          BY <4>1 DEF Pending, Shipped, Between
        <5>2. ShipsWith[k] <= ShipsWith[m]
          BY <4>2, <5>1, ReleasesAssumption DEF ReleasesAssumption
        <5>3. {ShipsWith[k], ShipsWith[m], checkout, target} \subseteq Nat
          BY <5>1, ReleasesAssumption DEF TypeOK, ReleasesAssumption
        <5>4. ShipsWith[k] <= checkout /\ ShipsWith[k] <= target
          BY <5>1, <5>2, <5>3
        <5> QED BY <4>1, <4>2, <5>4 DEF Pending, Shipped, Between
      <4>3. todo' \cap ledger = {}
        BY <4>1 DEF Pending
      <4> QED BY <3>1, <4>2, <4>3 DEF PlanMigrations
    <3>2. ASSUME NEW m \in Migrations, StartScript(m) PROVE PlanInv'
      BY <3>2 DEF StartScript
    <3>3. CASE ScriptSucceeds BY <3>3 DEF ScriptSucceeds
    <3>4. CASE RecordMigration BY <3>4 DEF RecordMigration
    <3>5. CASE MigrationsDone \/ ApplyConfiguration \/ StartStack
      BY <3>5 DEF MigrationsDone, ApplyConfiguration, StartStack
    <3> QED BY <2>3, <3>1, <3>2, <3>3, <3>4, <3>5 DEF Phase2Next
  <2>4. CASE FaultNext
    BY <2>4 DEF FaultNext, Refused, TakeBackup, StopFails, StopMissesAddons,
      Stopped, CheckoutFails,
      PlanFails, ScriptFails, RecordFails, ConfigurationFails, StartRefused,
      StartFailsUnnoticed, Crash, Failed
  <2>5. CASE CommandNext
    BY <2>5 DEF CommandNext, Start, Stop, Setup, Checkout, RestoreVolumes,
      Issued
  <2>6. CASE UNCHANGED vars
    BY <2>6 DEF vars
  <2> QED
    BY <2>1, <2>2, <2>3, <2>4, <2>5, <2>6 DEF Next
<1> QED
  BY <1>1, <1>2, TypeCorrect, PTL DEF Spec

(***************************************************************************)
(* ResumesInOrder, with every command issued beside the upgrade.           *)
(***************************************************************************)
THEOREM RetriesResumeInOrder == Spec => ResumesInOrder
<1> DEFINE Step ==
      \A m \in Migrations :
        pc = "migrate" /\ pc' = "script" /\ current' = m =>
          /\ m \notin ledger
          /\ \A k \in Migrations :
               k < m /\ from < ShipsWith[k] => k \in ledger
<1>1. TypeOK /\ PlanInv /\ [Next]_vars => [Step]_vars
  <2> SUFFICES ASSUME TypeOK, PlanInv, Next, NEW m \in Migrations,
                      pc = "migrate", pc' = "script", current' = m
               PROVE  /\ m \notin ledger
                      /\ \A k \in Migrations :
                           k < m /\ from < ShipsWith[k] => k \in ledger
    OBVIOUS
  <2>1. PICK n \in Migrations : StartScript(n)
    <3> USE DEF GoTo, Gone, run
    <3>1. ~Phase1Next /\ \A v \in Versions : ~Resolve(v)
      BY DEF Phase1Next, GatePassed, SkipBackup, TakeBackup, StopStack,
        Stopped, MoveCheckout, Resolve
    <3>2. ~FaultNext
      BY DEF FaultNext, Refused, TakeBackup, StopFails, StopMissesAddons,
      Stopped, CheckoutFails,
        PlanFails, ScriptFails, RecordFails, ConfigurationFails, StartRefused,
        StartFailsUnnoticed, Crash, Failed
    <3>3. ~CommandNext
      BY DEF CommandNext, Start, Stop, Setup, Checkout, RestoreVolumes, Issued
    <3> QED
      BY <3>1, <3>2, <3>3 DEF Next, Phase2Next, PlanMigrations, ScriptSucceeds,
        RecordMigration, MigrationsDone, ApplyConfiguration, StartStack
  <2>2. m = n /\ m \in todo /\ \A k \in todo : m <= k
    BY <2>1 DEF StartScript
  <2>3. ASSUME NEW k \in Migrations, k < m PROVE k \notin todo
    <3>1. k \in Nat /\ m \in Nat
      BY ReleasesAssumption DEF ReleasesAssumption
    <3> QED BY <2>2, <2>3, <3>1
  <2> QED BY <2>2, <2>3 DEF PlanInv, Migrating
<1> QED
  BY <1>1, TypeCorrect, PlanIsSound, PTL DEF Spec, ResumesInOrder

-----------------------------------------------------------------------------
(***************************************************************************)
(* Upgrade implements Release when nothing moves the version or the        *)
(* checkout beneath a running upgrade: proved for every set of releases    *)
(* and migrations, with start, stop, scoped restores and checkouts issued  *)
(* between two upgrades.                                                   *)
(***************************************************************************)

Sequential == Concurrent = FALSE /\ "setup" \notin Commands

(***************************************************************************)
(* What a run knows of the installation: the version is still the one it   *)
(* read, behind its target; the tree it executes is its target's; and the  *)
(* migrations between the two are planned or on record, all on record when *)
(* it turns to the configuration.                                          *)
(***************************************************************************)
RunInv ==
  /\ pc \notin {"idle", "start"} => from = platform /\ from < target
  /\ Migrating \/ pc \in {"plan", "setup"} => checkout = target
  /\ Migrating => todo \subseteq Between(from, target)
  /\ Migrating => Between(from, target) \subseteq ledger \cup todo
  /\ pc = "setup" => Between(from, target) \subseteq ledger

(* An idle run leaves RunInv true whatever the commands do. *)
LEMMA CommandsKeepRunInv ==
  ASSUME Sequential, RunInv, CommandNext
  PROVE  RunInv'
<1> USE DEF RunInv, Migrating, Issued, run
<1>1. CASE Start \/ Stop \/ Setup
  BY <1>1 DEF Start, Stop, Setup, Sequential
<1>2. ASSUME NEW v \in Versions, Checkout(v) PROVE RunInv'
  BY <1>2 DEF Checkout, Sequential
<1>3. ASSUME NEW i \in DOMAIN points, NEW selected \in SUBSET InVolume,
             RestoreVolumes(i, selected)
      PROVE  RunInv'
  BY <1>3 DEF RestoreVolumes, Sequential
<1> QED
  BY <1>1, <1>2, <1>3 DEF CommandNext

LEMMA RunsKnowTheirPlan == Sequential => (Spec => []RunInv)
<1> SUFFICES ASSUME Sequential PROVE Spec => []RunInv
  OBVIOUS
<1> USE DEF Migrating
<1>1. Init => RunInv
  BY DEF Init, RunInv
<1>2. TypeOK /\ RunInv /\ [Next]_vars => RunInv'
  <2> SUFFICES ASSUME TypeOK, RunInv, [Next]_vars PROVE RunInv'
    OBVIOUS
  <2> USE DEF RunInv, bundle, run, GoTo, Gone
  <2>1. ASSUME NEW v \in Versions, Resolve(v) PROVE RunInv'
    BY <2>1 DEF Resolve
  <2>2. CASE Phase1Next
    BY <2>2 DEF Phase1Next, GatePassed, SkipBackup, TakeBackup, StopStack,
      Stopped, MoveCheckout
  <2>3. CASE Phase2Next
    <3>1. CASE PlanMigrations
      <4>1. todo' = Between(from, target) \ ledger
        <5>1. \A m \in Migrations : ShipsWith[m] <= target =>
                m \in Shipped(checkout)
          BY <3>1 DEF PlanMigrations, Shipped
        <5> QED BY <3>1, <5>1 DEF PlanMigrations, Pending, Between
      <4> QED BY <3>1, <4>1 DEF PlanMigrations, Between
    <3>2. ASSUME NEW m \in Migrations, StartScript(m) PROVE RunInv'
      BY <3>2 DEF StartScript, Between
    <3>3. CASE ScriptSucceeds BY <3>3 DEF ScriptSucceeds, Between
    <3>4. CASE RecordMigration
      BY <3>4 DEF RecordMigration, Between
    <3>5. CASE MigrationsDone BY <3>5 DEF MigrationsDone, Between
    <3>6. CASE ApplyConfiguration \/ StartStack
      BY <3>6 DEF ApplyConfiguration, StartStack
    <3> QED BY <2>3, <3>1, <3>2, <3>3, <3>4, <3>5, <3>6 DEF Phase2Next
  <2>4. CASE FaultNext
    BY <2>4 DEF FaultNext, Refused, TakeBackup, StopFails, StopMissesAddons,
      Stopped, CheckoutFails,
      PlanFails, ScriptFails, RecordFails, ConfigurationFails, StartRefused,
      StartFailsUnnoticed, Crash, Failed
  <2>5. CASE CommandNext
    BY <2>5, CommandsKeepRunInv
  <2>6. CASE UNCHANGED vars
    BY <2>6 DEF vars, Between
  <2> QED
    BY <2>1, <2>2, <2>3, <2>4, <2>5, <2>6 DEF Next
<1> QED
  BY <1>1, <1>2, TypeCorrect, PTL DEF Spec

-----------------------------------------------------------------------------
(* Besides RecordMigration, the only steps that change the bundle. *)
Stamping ==
  /\ pc = "setup"
  /\ platform' \in {platform, checkout}
  /\ UNCHANGED ledger

LEMMA WhatMovesTheBundle ==
  ASSUME Sequential, [Next]_vars
  PROVE  RecordMigration \/ Stamping \/ UNCHANGED <<ledger, platform>>
<1> USE DEF Stamping, bundle
<1>1. ASSUME NEW v \in Versions, Resolve(v) PROVE UNCHANGED <<ledger, platform>>
  BY <1>1 DEF Resolve
<1>2. CASE Phase1Next
  BY <1>2 DEF Phase1Next, GatePassed, SkipBackup, TakeBackup, StopStack,
    Stopped, MoveCheckout
<1>3. CASE Phase2Next
  BY <1>3 DEF Phase2Next, PlanMigrations, StartScript, ScriptSucceeds,
    MigrationsDone, ApplyConfiguration, StartStack
<1>4. CASE FaultNext
  BY <1>4 DEF FaultNext, Refused, TakeBackup, StopFails, StopMissesAddons,
      Stopped, CheckoutFails,
    PlanFails, ScriptFails, RecordFails, ConfigurationFails, StartRefused,
    StartFailsUnnoticed, Crash
<1>5. CASE CommandNext
  BY <1>5 DEF CommandNext, Start, Stop, Setup, Checkout, RestoreVolumes, Issued,
    Sequential
<1>6. CASE UNCHANGED vars
  BY <1>6 DEF vars
<1> QED
  BY <1>1, <1>2, <1>3, <1>4, <1>5, <1>6 DEF Next

(***************************************************************************)
(* PlatformMigrated: platform_version never runs ahead of the ledger.      *)
(***************************************************************************)
THEOREM VersionIsMigrated == Sequential => (Spec => []PlatformMigrated)
<1> SUFFICES ASSUME Sequential PROVE Spec => []PlatformMigrated
  OBVIOUS
<1>1. Init => PlatformMigrated
  <2>1. Installed \in Nat
    BY ReleasesAssumption DEF ReleasesAssumption
  <2>2. \A m \in Migrations : ShipsWith[m] \in Nat
    BY ReleasesAssumption DEF ReleasesAssumption
  <2> QED BY <2>1, <2>2 DEF Init, PlatformMigrated, Between
<1>2. TypeOK /\ RunInv /\ PlatformMigrated /\ [Next]_vars => PlatformMigrated'
  <2> SUFFICES ASSUME TypeOK, RunInv, PlatformMigrated, [Next]_vars
               PROVE  PlatformMigrated'
    OBVIOUS
  <2>1. CASE RecordMigration
    BY <2>1 DEF RecordMigration, PlatformMigrated
  <2>2. CASE Stamping
    <3>1. Between(Installed, checkout) \subseteq
            Between(Installed, platform) \cup Between(platform, checkout)
      <4>1. \A m \in Migrations : ShipsWith[m] \in Nat
        BY ReleasesAssumption DEF ReleasesAssumption
      <4>2. platform \in Nat /\ checkout \in Nat
        BY ReleasesAssumption DEF ReleasesAssumption, TypeOK
      <4> QED BY <4>1, <4>2 DEF Between
    <3>2. Between(platform, checkout) \subseteq ledger
      BY <2>2 DEF Stamping, RunInv
    <3> QED BY <2>2, <3>1, <3>2 DEF Stamping, PlatformMigrated
  <2>3. CASE UNCHANGED <<ledger, platform>>
    BY <2>3 DEF PlatformMigrated
  <2> QED
    BY <2>1, <2>2, <2>3, WhatMovesTheBundle
<1> QED
  BY <1>1, <1>2, TypeCorrect, RunsKnowTheirPlan, PTL DEF Spec

(***************************************************************************)
(* ImplementsRelease: recording a migration is Apply, stamping the version *)
(* is Advance, and every other step leaves the ledger and the version be.  *)
(***************************************************************************)
THEOREM UpgradeRefinesRelease == Sequential => (Spec => ImplementsRelease)
<1> SUFFICES ASSUME Sequential PROVE Spec => Promise!Spec
  BY DEF ImplementsRelease
<1>1. Init => Promise!Init
  BY DEF Init, Promise!Init
<1>2. TypeOK /\ RunInv /\ PlanInv /\ [Next]_vars => [Promise!Next]_(Promise!vars)
  <2> SUFFICES ASSUME TypeOK, RunInv, PlanInv, [Next]_vars
               PROVE  Promise!Next \/ UNCHANGED <<ledger, platform>>
    BY DEF Promise!vars
  <2>1. CASE RecordMigration
    <3>1. current \in Migrations /\ current \in todo
      BY <2>1 DEF RecordMigration, Shipped, PlanInv
    <3>2. current \notin ledger /\ platform < ShipsWith[current]
      BY <2>1, <3>1 DEF RecordMigration, PlanInv, RunInv, Migrating, Between
    <3>3. ASSUME NEW k \in Migrations, k < current, platform < ShipsWith[k]
          PROVE  k \in ledger
      <4>1. k \in ledger \cup todo
        BY <2>1, <3>1, <3>3 DEF RecordMigration, PlanInv, RunInv, Migrating
      <4>2. k \in Nat /\ current \in Nat
        BY <3>1, ReleasesAssumption DEF ReleasesAssumption
      <4> QED BY <2>1, <3>3, <4>1, <4>2 DEF RecordMigration, PlanInv
    <3>4. Promise!Apply(current)
      BY <2>1, <3>2, <3>3 DEF RecordMigration, Promise!Apply
    <3> QED BY <3>1, <3>4 DEF Promise!Next
  <2>2. CASE Stamping
    <3>1. platform < checkout /\ Between(platform, checkout) \subseteq ledger
      BY <2>2 DEF Stamping, RunInv
    <3>2. CASE platform' = checkout
      <4>1. Promise!Advance(checkout)
        BY <2>2, <3>1, <3>2 DEF Stamping, Promise!Advance, Promise!Between, Between
      <4> QED BY <4>1 DEF Promise!Next, TypeOK
    <3> QED BY <2>2, <3>2 DEF Stamping
  <2>3. CASE UNCHANGED <<ledger, platform>>
    BY <2>3
  <2> QED
    BY <2>1, <2>2, <2>3, WhatMovesTheBundle
<1> QED
  BY <1>1, <1>2, TypeCorrect, RunsKnowTheirPlan, PlanIsSound, PTL DEF Spec,
     Promise!Spec

-----------------------------------------------------------------------------
(***************************************************************************)
(* What has begun has begun in order, here and in every restore point:     *)
(* all migrations before it are on record.                                 *)
(***************************************************************************)
InOrder(begun) ==
  \A k \in begun :
    /\ Installed < ShipsWith[k]
    /\ \A j \in Migrations : j < k /\ Installed < ShipsWith[j] => j \in ledger

OrderInv ==
  /\ Installed <= platform
  /\ InOrder(touched)
  /\ \A i \in DOMAIN points : InOrder(points[i].touched)

(* A script starts above the release that was installed, after all before. *)
LEMMA ScriptStartsInOrder ==
  ASSUME TypeOK, RunInv, PlanInv, PlatformMigrated, OrderInv,
         NEW m \in Migrations, StartScript(m)
  PROVE  InOrder({m})
<1>1. from = platform /\ m \in Between(from, target) /\ \A k \in todo : m <= k
  BY DEF StartScript, RunInv, Migrating
<1>2. {Installed, platform, ShipsWith[m]} \subseteq Nat
  BY ReleasesAssumption DEF ReleasesAssumption, TypeOK
<1>3. Installed < ShipsWith[m]
  BY <1>1, <1>2 DEF Between, OrderInv
<1>4. ASSUME NEW j \in Migrations, j < m, Installed < ShipsWith[j]
      PROVE  j \in ledger
  <2>1. {j, m, ShipsWith[j]} \subseteq Nat /\ todo \subseteq Nat
    BY ReleasesAssumption DEF ReleasesAssumption, TypeOK
  <2>2. ShipsWith[j] <= ShipsWith[m]
    BY <1>4, ReleasesAssumption DEF ReleasesAssumption
  <2>3. CASE ShipsWith[j] <= platform
    BY <1>4, <2>3 DEF PlatformMigrated, Between
  <2>4. CASE from < ShipsWith[j]
    <3>1. j \in ledger \cup todo
      BY <1>4, <2>4 DEF PlanInv, Migrating, StartScript
    <3> QED BY <1>1, <1>4, <2>1, <3>1
  <2> QED BY <1>1, <1>2, <2>1, <2>3, <2>4
<1> QED BY <1>3, <1>4 DEF InOrder

LEMMA BegunInOrder == Sequential => (Spec => []OrderInv)
<1> SUFFICES ASSUME Sequential PROVE Spec => []OrderInv
  OBVIOUS
<1>1. Init => OrderInv
  BY ReleasesAssumption DEF Init, OrderInv, InOrder, ReleasesAssumption
<1>2. TypeOK /\ RunInv /\ PlanInv /\ PlatformMigrated /\ OrderInv /\ [Next]_vars
        => OrderInv'
  <2> SUFFICES ASSUME TypeOK, RunInv, PlanInv, PlatformMigrated, OrderInv, [Next]_vars
               PROVE  OrderInv'
    OBVIOUS
  <2>1. ledger \subseteq ledger' /\ Installed <= platform'
    <3>1. CASE Stamping
      <4>1. platform < checkout
        BY <3>1 DEF Stamping, RunInv
      <4>2. {Installed, platform, checkout} \subseteq Nat
        BY ReleasesAssumption DEF ReleasesAssumption, TypeOK
      <4> QED BY <3>1, <4>1, <4>2 DEF Stamping, OrderInv
    <3>2. CASE RecordMigration
      BY <3>2 DEF RecordMigration, OrderInv
    <3> QED BY <3>1, <3>2, WhatMovesTheBundle DEF OrderInv
  <2>2. ASSUME NEW begun, InOrder(begun) PROVE InOrder(begun)'
    BY <2>1, <2>2 DEF InOrder
  <2>3. ASSUME UNCHANGED <<touched, points>> PROVE OrderInv'
    BY <2>1, <2>2, <2>3 DEF OrderInv, InOrder
  <2>4. ASSUME NEW v \in Versions, Resolve(v) PROVE OrderInv'
    BY <2>3, <2>4 DEF Resolve, bundle
  <2>5. ASSUME NEW result \in PointResults, TakeBackup(result) PROVE OrderInv'
    <3> DEFINE taken == [result |-> result, done |-> done, touched |-> touched]
    <3>1. points \in Seq(Points) /\ taken \in Points /\ UNCHANGED touched
      BY <2>5 DEF TypeOK, TakeBackup, Points
    <3>2. points' = Append(points, taken) /\ taken.touched = touched
      BY <2>5 DEF TakeBackup
    <3> HIDE DEF taken
    <3>3. \A i \in DOMAIN points' :
             \/ i \in DOMAIN points /\ points'[i] = points[i]
             \/ points'[i] = taken
      BY <3>1, <3>2
    <3> QED BY <2>1, <3>1, <3>2, <3>3 DEF OrderInv, InOrder
  <2>6. ASSUME NEW m \in Migrations, StartScript(m) PROVE OrderInv'
    <3>1. InOrder({m})
      BY <2>6, ScriptStartsInOrder
    <3>2. touched' = touched \cup {m} /\ UNCHANGED points
      BY <2>6 DEF StartScript
    <3> QED BY <2>1, <3>1, <3>2 DEF OrderInv, InOrder
  <2>7. CASE GatePassed \/ SkipBackup \/ StopStack \/ MoveCheckout
    BY <2>3, <2>7 DEF GatePassed, SkipBackup, StopStack, Stopped, MoveCheckout, bundle
  <2>8. CASE \/ PlanMigrations \/ ScriptSucceeds \/ RecordMigration
             \/ MigrationsDone \/ ApplyConfiguration \/ StartStack
    BY <2>3, <2>8 DEF PlanMigrations, ScriptSucceeds, RecordMigration, MigrationsDone,
      ApplyConfiguration, StartStack, bundle
  <2>9. CASE \/ Refused \/ StopFails \/ StopMissesAddons \/ CheckoutFails
             \/ PlanFails \/ ScriptFails
             \/ RecordFails \/ ConfigurationFails \/ StartRefused
             \/ StartFailsUnnoticed \/ Crash
    BY <2>3, <2>9 DEF Refused, StopFails, StopMissesAddons,
      Stopped, CheckoutFails, PlanFails, ScriptFails,
      RecordFails, ConfigurationFails, StartRefused, StartFailsUnnoticed, Crash, bundle
  <2>10. CASE Start \/ Stop \/ Setup \/ \E v \in Versions : Checkout(v)
    BY <2>3, <2>10 DEF Start, Stop, Setup, Checkout, Issued
  <2>11. ASSUME NEW i \in DOMAIN points, NEW selected \in SUBSET InVolume,
                RestoreVolumes(i, selected)
         PROVE  OrderInv'
    <3>1. /\ touched' \subseteq touched \cup points[i].touched
          /\ UNCHANGED points
      BY <2>11 DEF RestoreVolumes, Issued
    <3> QED BY <2>1, <3>1 DEF OrderInv, InOrder
  <2>12. CASE UNCHANGED vars
    BY <2>3, <2>12 DEF vars, bundle
  <2> QED
    BY <2>4, <2>5, <2>6, <2>7, <2>8, <2>9, <2>10, <2>11, <2>12
       DEF Next, Phase1Next, Phase2Next, FaultNext, CommandNext, PointResults
<1> QED
  BY <1>1, <1>2, TypeCorrect, RunsKnowTheirPlan, PlanIsSound, VersionIsMigrated, PTL
     DEF Spec

(***************************************************************************)
(* HalfDoneIsLast: no migration begins on top of one that a failure, a     *)
(* kill or a scoped restore has left half-way.                             *)
(***************************************************************************)
THEOREM HalfDoneStaysLast == Sequential => (Spec => []HalfDoneIsLast)
<1> SUFFICES ASSUME Sequential PROVE Spec => []HalfDoneIsLast
  OBVIOUS
<1>1. TypeOK /\ LedgerSound /\ OrderInv => HalfDoneIsLast
  <2> SUFFICES ASSUME TypeOK, LedgerSound, OrderInv,
                      NEW m \in touched \ (done \cup restored), NEW k \in touched
               PROVE  k <= m
    BY DEF HalfDoneIsLast
  <2>1. m \in Migrations /\ {m, k} \subseteq Nat
    BY ReleasesAssumption DEF ReleasesAssumption, TypeOK
  <2>2. m \notin ledger
    BY DEF LedgerSound
  <2>3. ~ m < k
    BY <2>1, <2>2 DEF OrderInv, InOrder
  <2> QED BY <2>1, <2>3
<1> QED BY <1>1, TypeCorrect, LedgerIsSound, BegunInOrder, PTL

(***************************************************************************)
(* StoppedDuringScripts, with every command issued beside the upgrade:     *)
(* from its stop to its start nothing of the stack runs but what its stop  *)
(* has passed over and what others have started since.                     *)
(***************************************************************************)
DownInv == pc \in Phase2 \cup {"checkout"} => stack \subseteq left

THEOREM ScriptsFindStackDown == Spec => []StoppedDuringScripts
<1> USE DEF DownInv, Phase2
<1>1. Init => DownInv
  BY DEF Init
<1>2. DownInv /\ [Next]_vars => DownInv'
  <2> SUFFICES ASSUME DownInv, [Next]_vars PROVE DownInv'
    OBVIOUS
  <2> USE DEF bundle, run, GoTo, Gone
  <2>1. ASSUME NEW v \in Versions, Resolve(v) PROVE DownInv'
    BY <2>1 DEF Resolve
  <2>2. CASE Phase1Next
    BY <2>2 DEF Phase1Next, GatePassed, SkipBackup, TakeBackup, StopStack,
      Stopped, MoveCheckout
  <2>3. CASE Phase2Next
    BY <2>3 DEF Phase2Next, PlanMigrations, StartScript, ScriptSucceeds,
      RecordMigration, MigrationsDone, ApplyConfiguration, StartStack
  <2>4. CASE FaultNext
    BY <2>4 DEF FaultNext, Refused, TakeBackup, StopFails, StopMissesAddons,
      Stopped, CheckoutFails,
      PlanFails, ScriptFails, RecordFails, ConfigurationFails, StartRefused,
      StartFailsUnnoticed, Crash, Failed
  <2>5. CASE CommandNext
    BY <2>5 DEF CommandNext, Start, Stop, Setup, Checkout, RestoreVolumes, Issued
  <2>6. CASE UNCHANGED vars
    BY <2>6 DEF vars
  <2> QED
    BY <2>1, <2>2, <2>3, <2>4, <2>5, <2>6 DEF Next
<1>3. DownInv => StoppedDuringScripts
  BY DEF StoppedDuringScripts
<1> QED
  BY <1>1, <1>2, <1>3, PTL DEF Spec
=============================================================================
