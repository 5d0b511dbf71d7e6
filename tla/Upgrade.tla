------------------------------ MODULE Upgrade ------------------------------
(***************************************************************************)
(* papaia-ctl upgrade: it moves an installation to a release in two phases *)
(* split by the checkout.  Phase 1 runs from the old tree (target, gate,   *)
(* restore point, stop, git checkout), phase 2 from the new one            *)
(* (migrations, setup pass, start).  A phase can fail or be killed at      *)
(* every step; what then persists is the checkout, the config bundle with  *)
(* its platform_version and its ledger of applied migrations, the volumes, *)
(* the restore points and upgrade.log.  Other papaia-ctl commands run      *)
(* between two upgrades, and beside one when Concurrent, for no lock       *)
(* excludes them.                                                          *)
(***************************************************************************)
EXTENDS Releases, Sequences, FiniteSets

CONSTANTS
  InVolume,     \* the migrations that reshape a named volume, not the bundle
  Commands,     \* the other papaia-ctl commands that are issued
  Concurrent,   \* whether they may run while an upgrade does
  MaxCommands,  \* bound: how many of them change versions or data
  MaxFaults,    \* bound: how many steps fail or are killed
  MaxPoints     \* bound: how many restore points are taken

ASSUME UpgradeAssumption ==
  /\ InVolume \subseteq Migrations
  /\ Commands \subseteq {"setup", "checkout", "start", "stop", "restore"}
  /\ Concurrent \in BOOLEAN
  /\ {MaxCommands, MaxFaults, MaxPoints} \subseteq Nat

VARIABLES
  checkout,   \* the release the git checkout is on
  platform,   \* platform_version in deployment.yaml
  ledger,     \* migrations/applied.json
  done,       \* migrations whose result is in the bundle or the volumes
  touched,    \* migrations that have begun to change it
  restored,   \* history: the migrations a scoped restore can have taken back
  stack,      \* the parts of the stack that run: core, add-ons
  points,     \* the restore points, in the order they were recorded
  log,        \* the last line of upgrade.log, with what was printed for it
  pc,         \* where the running upgrade is, "idle" when there is none
  from,       \* its CURRENT
  target,     \* its TARGET
  point,      \* its restore point, 0 for none
  todo,       \* the migrations planned and not yet recorded
  current,    \* the migration it is at, 0 for none
  left,       \* history: the parts that its stop has passed over, or that
              \* another command has started beside it
  faults,
  commands

bundle == <<checkout, platform, ledger, done, touched, restored, stack, points>>
run == <<pc, from, target, point, todo, current, left>>
vars == <<bundle, log, run, faults, commands>>

Phase1 == {"gate", "backup", "stop", "checkout"}
Phase2 == {"plan", "migrate", "script", "record", "setup", "start"}
Stages == {"none", "checkout", "plan", "migration", "render"}
PointResults == {"ok", "partial", "failed"}
Parts == {"core", "addons"}
Growing(running) == {parts \in SUBSET Parts : running \subseteq parts}

Points == [result : PointResults, done : SUBSET Migrations,
           touched : SUBSET Migrations]
LogLines == [result : {"none", "checkout", "failed", "ok"}, stage : Stages,
             from : Versions, to : Versions, point : Nat]

Init ==
  /\ checkout = Installed /\ platform = Installed
  /\ ledger = {} /\ done = {} /\ touched = {} /\ restored = {}
  /\ stack = Parts
  /\ points = <<>>
  /\ log = [result |-> "none", stage |-> "none",
            from |-> Installed, to |-> Installed, point |-> 0]
  /\ pc = "idle" /\ from = Installed /\ target = Installed
  /\ point = 0 /\ todo = {} /\ current = 0 /\ left = {}
  /\ faults = 0 /\ commands = 0

-----------------------------------------------------------------------------
(* Ends of a run.                                                          *)

(* The process is gone: only what is on disk remains. *)
Gone ==
  /\ pc' = "idle" /\ from' = Installed /\ target' = Installed
  /\ point' = 0 /\ todo' = {} /\ current' = 0 /\ left' = {}

Logged(result, stage) ==
  log' = [result |-> result, stage |-> stage,
          from |-> from, to |-> target, point |-> point]

Fault == faults < MaxFaults /\ faults' = faults + 1

(* _upgrade_failed: log, print the way back and the way to retry, exit 3. *)
Failed(stage) == Fault /\ Logged("failed", stage) /\ Gone

GoTo(next) ==
  pc' = next /\ UNCHANGED <<from, target, point, todo, current, left>>

-----------------------------------------------------------------------------
(* Phase 1: the release that is being left.                                *)

(* --version names any release; only a target ahead of platform_version is *)
(* "ok", everything else ends the run with nothing done.                   *)
Resolve(v) ==
  /\ pc = "idle"
  /\ platform < v
  /\ pc' = "gate" /\ from' = platform /\ target' = v
  /\ UNCHANGED <<bundle, log, point, todo, current, left, faults, commands>>

(* An incompatible add-on, --dry-run, or an operator who does not confirm. *)
Refused ==
  /\ pc = "gate"
  /\ Fault /\ Gone
  /\ UNCHANGED <<bundle, log, commands>>

GatePassed ==
  /\ pc = "gate"
  /\ GoTo("backup")
  /\ UNCHANGED <<bundle, log, faults, commands>>

(* --no-backup *)
SkipBackup ==
  /\ pc = "backup"
  /\ GoTo("stop")
  /\ UNCHANGED <<bundle, log, faults, commands>>

(* cmd_backup returns 0 for "ok" and for "partial", and exits 3 for        *)
(* "failed"; each of them is a catalogued restore point.                   *)
TakeBackup(result) ==
  /\ pc = "backup"
  /\ Len(points) < MaxPoints
  /\ points' = Append(points, [result |-> result, done |-> done,
                               touched |-> touched])
  /\ \/ /\ result = "ok"
        /\ UNCHANGED faults
     \/ /\ result # "ok"
        /\ Fault
  /\ \/ /\ result # "failed"
        /\ pc' = "stop" /\ point' = Len(points) + 1
        /\ UNCHANGED <<from, target, todo, current, left>>
     \/ /\ result = "failed"
        /\ Gone
  /\ UNCHANGED <<checkout, platform, ledger, done, touched, restored, stack,
                 log, commands>>

Stopped(missed) ==
  /\ pc = "stop"
  /\ stack' = missed
  /\ left' = missed
  /\ pc' = "checkout"
  /\ UNCHANGED <<checkout, platform, ledger, done, touched, restored, points,
                 log, from, target, point, todo, current, commands>>

(* cmd_stop --clean-up --addons *)
StopStack == Stopped({}) /\ UNCHANGED faults

(* The list of add-ons comes from a command whose failure is discarded: no *)
(* add-on is then taken down, and cmd_stop returns 0.                      *)
StopMissesAddons == Fault /\ Stopped(stack \cap {"addons"})

(* Seeded bug: the exit status of cmd_stop is ignored. *)
StopFailureIgnored ==
  /\ pc = "stop"
  /\ Fault /\ GoTo("checkout")
  /\ UNCHANGED <<bundle, log, commands>>

(* set -e ends the run when a compose call of cmd_stop fails. *)
StopFails ==
  /\ pc = "stop"
  /\ Fault /\ Gone
  /\ stack' \in SUBSET stack
  /\ UNCHANGED <<checkout, platform, ledger, done, touched, restored, points,
                 log, commands>>

MoveCheckout ==
  /\ pc = "checkout"
  /\ checkout' = target
  /\ Logged("checkout", "none")
  /\ GoTo("plan")
  /\ UNCHANGED <<platform, ledger, done, touched, restored, stack, points,
                 faults, commands>>

CheckoutFails ==
  /\ pc = "checkout"
  /\ Failed("checkout")
  /\ UNCHANGED <<bundle, commands>>

-----------------------------------------------------------------------------
(* Phase 2: the release the checkout is on now.                            *)

(* Seeded bug: the ledger is not consulted. *)
PlanEverything ==
  /\ pc = "plan"
  /\ todo' = Pending(checkout, from, target, {})
  /\ pc' = "migrate"
  /\ UNCHANGED <<bundle, log, from, target, point, current, left, faults,
                 commands>>

PlanMigrations ==
  /\ pc = "plan"
  /\ todo' = Pending(checkout, from, target, ledger)
  /\ pc' = "migrate"
  /\ UNCHANGED <<bundle, log, from, target, point, current, left, faults,
                 commands>>

(* A malformed script name or a corrupt ledger. *)
PlanFails ==
  /\ pc = "plan"
  /\ Failed("plan")
  /\ UNCHANGED <<bundle, commands>>

(* Seeded bug: the loop is over the scripts discovered, not those planned. *)
StartAnyShipped(m) ==
  /\ pc = "migrate"
  /\ m \in Shipped(checkout)
  /\ pc' = "script" /\ current' = m
  /\ touched' = touched \cup {m}
  /\ UNCHANGED <<checkout, platform, ledger, done, restored, stack, points,
                 log, from, target, point, todo, left, faults, commands>>

StartScript(m) ==
  /\ pc = "migrate"
  /\ m \in todo
  /\ \A k \in todo : m <= k
  /\ pc' = "script" /\ current' = m
  /\ touched' = touched \cup {m}
  /\ UNCHANGED <<checkout, platform, ledger, done, restored, stack, points,
                 log, from, target, point, todo, left, faults, commands>>

ScriptSucceeds ==
  /\ pc = "script"
  /\ done' = done \cup {current}
  /\ GoTo("record")
  /\ UNCHANGED <<checkout, platform, ledger, touched, restored, stack, points,
                 log, faults, commands>>

(* Seeded bug: the exit status of the script is lost. *)
ScriptFailureIgnored ==
  /\ pc = "script"
  /\ Fault /\ GoTo("record")
  /\ UNCHANGED <<bundle, log, commands>>

(* The script exits non-zero, with part of its work done. *)
ScriptFails ==
  /\ pc = "script"
  /\ Failed("migration")
  /\ UNCHANGED <<bundle, commands>>

(* upgrade-record looks the id up in the checkout before it writes it. *)
RecordMigration ==
  /\ pc = "record"
  /\ current \in Shipped(checkout)
  /\ ledger' = ledger \cup {current}
  /\ todo' = todo \ {current}
  /\ pc' = "migrate" /\ current' = 0
  /\ UNCHANGED <<checkout, platform, done, touched, restored, stack, points,
                 log, from, target, point, left, faults, commands>>

(* Seeded bug: the exit status of upgrade-record is ignored. *)
RecordFailureIgnored ==
  /\ pc = "record"
  /\ Fault
  /\ todo' = todo \ {current}
  /\ pc' = "migrate" /\ current' = 0
  /\ UNCHANGED <<bundle, log, from, target, point, left, commands>>

RecordFails ==
  /\ pc = "record"
  /\ Failed("migration")
  /\ UNCHANGED <<bundle, commands>>

MigrationsDone ==
  /\ pc = "migrate" /\ todo = {}
  /\ GoTo("setup")
  /\ UNCHANGED <<bundle, log, faults, commands>>

(* Seeded bug: the setup pass leaves platform_version alone. *)
ApplyWithoutStamp ==
  /\ pc = "setup"
  /\ GoTo("start")
  /\ UNCHANGED <<bundle, log, faults, commands>>

(* cmd_setup --env-only: sync_manifest stamps the VERSION of the checkout. *)
ApplyConfiguration ==
  /\ pc = "setup"
  /\ platform' = checkout
  /\ GoTo("start")
  /\ UNCHANGED <<checkout, ledger, done, touched, restored, stack, points, log,
                 faults, commands>>

(* The setup pass stamps the version before it renders, so it can fail on  *)
(* either side of the stamp.                                               *)
ConfigurationFails ==
  /\ pc = "setup"
  /\ platform' \in {platform, checkout}
  /\ Failed("render")
  /\ UNCHANGED <<checkout, ledger, done, touched, restored, stack, points,
                 commands>>

(* The add-on gate of cmd_start exits 2 past _upgrade_failed and the log. *)
StartRefused ==
  /\ pc = "start"
  /\ Fault /\ Gone
  /\ UNCHANGED <<bundle, log, commands>>

StartStack ==
  /\ pc = "start"
  /\ stack' = Parts
  /\ Logged("ok", "none") /\ Gone
  /\ UNCHANGED <<checkout, platform, ledger, done, touched, restored, points,
                 faults, commands>>

(* "if ! cmd_start" suspends set -e in the function, which then goes on    *)
(* after a failed docker compose up, or without the add-ons when their     *)
(* list fails, and returns 0.                                              *)
StartFailsUnnoticed ==
  /\ pc = "start"
  /\ Fault
  /\ stack' \in Growing(stack)
  /\ Logged("ok", "none") /\ Gone
  /\ UNCHANGED <<checkout, platform, ledger, done, touched, restored, points,
                 commands>>

(* SIGKILL or power loss. *)
Crash ==
  /\ pc # "idle"
  /\ Fault /\ Gone
  /\ UNCHANGED <<bundle, log, commands>>

-----------------------------------------------------------------------------
(* Other commands of papaia-ctl, and git, by hand or by the manager.       *)

(* running: the sets of parts that can run after the command. *)
Issued(command, running) ==
  /\ command \in Commands
  /\ pc = "idle" \/ Concurrent
  /\ stack' \in running
  /\ left' = IF pc = "idle" THEN {} ELSE left \cup (stack' \ stack)
  /\ UNCHANGED <<ledger, points, log, pc, from, target, point, todo, current,
                 faults>>

Counted == commands < MaxCommands /\ commands' = commands + 1

(* With --addons or without. *)
Start ==
  /\ Issued("start", {stack \cup {"core"}, Parts})
  /\ UNCHANGED <<checkout, platform, done, touched, restored, commands>>

Stop ==
  /\ Issued("stop", {stack \ {"core"}, {}})
  /\ UNCHANGED <<checkout, platform, done, touched, restored, commands>>

Setup ==
  /\ Issued("setup", {stack}) /\ Counted
  /\ platform' = checkout
  /\ UNCHANGED <<checkout, done, touched, restored>>

(* git checkout or git pull *)
Checkout(v) ==
  /\ Issued("checkout", {stack}) /\ Counted
  /\ checkout' = v
  /\ UNCHANGED <<platform, done, touched, restored>>

(* restore --only puts the selected volumes back and leaves the bundle, and *)
(* with it the ledger, as it is; it starts their services again.  An archive *)
(* that is missing from a partial point is passed over.                      *)
RestoreVolumes(i, selected) ==
  /\ Issued("restore", Growing(stack)) /\ Counted
  /\ points[i].result # "failed"
  /\ done' = (done \ selected) \cup (points[i].done \cap selected)
  /\ touched' = (touched \ selected) \cup (points[i].touched \cap selected)
  /\ restored' = restored \cup selected
  /\ UNCHANGED <<checkout, platform>>

-----------------------------------------------------------------------------
Phase1Next ==
  \/ GatePassed \/ SkipBackup \/ TakeBackup("ok") \/ StopStack \/ MoveCheckout

Phase2Next ==
  \/ PlanMigrations
  \/ \E m \in Migrations : StartScript(m)
  \/ ScriptSucceeds \/ RecordMigration \/ MigrationsDone
  \/ ApplyConfiguration \/ StartStack

FaultNext ==
  \/ Refused \/ TakeBackup("partial") \/ TakeBackup("failed") \/ StopFails
  \/ StopMissesAddons \/ CheckoutFails \/ PlanFails \/ ScriptFails \/ RecordFails
  \/ ConfigurationFails \/ StartRefused \/ StartFailsUnnoticed \/ Crash

CommandNext ==
  \/ Start \/ Stop \/ Setup
  \/ \E v \in Versions : Checkout(v)
  \/ \E i \in DOMAIN points, selected \in SUBSET InVolume :
       RestoreVolumes(i, selected)

Next ==
  \/ \E v \in Versions : Resolve(v)
  \/ Phase1Next \/ Phase2Next \/ FaultNext \/ CommandNext

Spec == Init /\ [][Next]_vars

(***************************************************************************)
(* A started run keeps running, and upgrade without --version is issued    *)
(* again and again, from a cron job or a fleet loop.                       *)
(***************************************************************************)
Unattended == \E v \in Versions : IsLatest(v) /\ Resolve(v)

FairSpec ==
  Spec /\ WF_vars(Phase1Next \/ Phase2Next) /\ WF_vars(Unattended)

-----------------------------------------------------------------------------
(* Properties.                                                             *)

TypeOK ==
  /\ checkout \in Versions /\ platform \in Versions
  /\ ledger \subseteq Migrations
  /\ done \subseteq Migrations /\ touched \subseteq Migrations
  /\ restored \subseteq InVolume
  /\ stack \subseteq Parts /\ left \subseteq Parts
  /\ points \in Seq(Points)
  /\ log \in LogLines
  /\ pc \in {"idle"} \cup Phase1 \cup Phase2
  /\ from \in Versions /\ target \in Versions
  /\ point \in Nat
  /\ todo \subseteq Migrations
  /\ current \in Migrations \cup {0}
  /\ pc \in {"script", "record"} => current \in todo
  /\ faults \in Nat /\ commands \in Nat

(***************************************************************************)
(* A migration on record has its result in the installation.  Only a       *)
(* scoped restore can take one back, and only one that lives in a volume:  *)
(* the ledger is in the config directory, which --only never restores.     *)
(***************************************************************************)
LedgerSound == ledger \subseteq done \cup restored

(***************************************************************************)
(* No migration begins on top of one that broke off half-way: what is left *)
(* undone by a failure or a kill is the last one that has been begun.      *)
(***************************************************************************)
HalfDoneIsLast ==
  \A m \in touched \ (done \cup restored), k \in touched : k <= m

(***************************************************************************)
(* The version of the bundle is one it was migrated to: every migration    *)
(* between the release it was seeded at and platform_version is on record. *)
(***************************************************************************)
PlatformMigrated == Between(Installed, platform) \subseteq ledger

(***************************************************************************)
(* Migrations execute with the stack stopped: a part that runs beside them *)
(* has been started meanwhile by somebody else, or passed over because the *)
(* list of add-ons failed.  A stop that fails or is cut off, now or in an  *)
(* earlier attempt, never lets the scripts run beside what it left.        *)
(***************************************************************************)
StoppedDuringScripts ==
  pc \in {"migrate", "script", "record"} => stack \subseteq left

(***************************************************************************)
(* A script starts only when it is not on record, and when every earlier   *)
(* one above the release the upgrade leaves is: a retry, after a failure   *)
(* or a kill at any step, neither repeats a migration nor skips one.       *)
(***************************************************************************)
ResumesInOrder ==
  [][\A m \in Migrations :
       pc = "migrate" /\ pc' = "script" /\ current' = m =>
         /\ m \notin ledger
         /\ \A k \in Migrations :
              k < m /\ from < ShipsWith[k] => k \in ledger]_vars

(***************************************************************************)
(* An upgrade is one of the histories of Release: the ledger grows one     *)
(* migration at a time in execution order, and the version advances over   *)
(* recorded migrations only, whatever fails in between.                    *)
(***************************************************************************)
Promise == INSTANCE Release WITH applied <- ledger

ImplementsRelease == Promise!Spec

(***************************************************************************)
(* Repeated without a --version, upgrade brings the installation to the    *)
(* newest release in the end, once steps have stopped failing.             *)
(***************************************************************************)
ReachesLatest == <>(\E v \in Versions : IsLatest(v) /\ platform >= v)
=============================================================================
