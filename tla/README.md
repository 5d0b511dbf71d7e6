# papAIa in TLA+

papAIa is a self-hosted AI stack. Its services are third-party containers; its
own program is `papaia-ctl` (`src/tools/papaia-ctl`, `src/tools/lib`), a command
line in Bash and Python that installs, configures, starts, backs up, restores
and upgrades the stack. This directory holds specifications of that program,
configurations that check them with TLC, and theorems that TLAPS checks.

- [The system](#the-system): its parts, their state, what is hard about them
- [The modules](#the-modules): what each models and how it corresponds to the code
- [The runs](#the-runs): what TLC checks, the bounds, the fairness
- [The proofs](#the-proofs): what holds for every value of the constants, and why
- [What the code does otherwise](#what-the-code-does-otherwise): disagreements with its own documentation
- [Not modelled](#not-modelled), and [the plan](#the-plan)

Paths without a directory are in `src/tools/lib`; `backup.sh`, `upgrade.sh`,
`lifecycle.sh`, `addon.sh` and `setup.sh` in `src/tools/lib/sh`; "the README" of
papAIa is `src/README.md`.

## The system

Nothing in papAIa stays in memory. Each command is a process that reads files,
calls `docker compose`, `docker`, `git`, `tar` or a REST interface, and writes
files. There is no lock and no journal: commands run beside each other (an
operator's terminal, cron, `papaia-manager`, which issues the same commands from
its own container), and a command that fails or is killed leaves what it has
done so far. The state that matters is therefore on disk and in the Docker
daemon, and the hard behaviours are failures between two steps, retries, and two
commands in an order nobody wrote a test for.

| component | state it keeps | operations | interacts with |
|---|---|---|---|
| upgrade (`upgrade.sh`, `upgrade.py`, `migrations.py`) | `platform_version` in `deployment.yaml`, the ledger `migrations/applied.json`, `upgrade.log`, the git checkout | `upgrade` in two phases, `upgrade-status`, `upgrade-plan`, `upgrade-record` | calls backup, stop, setup `--env-only`, start; runs the migration scripts of the target release |
| backup run (`backup.sh`, `backup.py`) | the containers it has paused, `results.tsv`, the archives of a snapshot | `backup`: plan, pause, archive, unpause, record | docker pause and unpause, the catalogue |
| restore-point catalogue (`backup.py`, `cli.py`, `common.py`) | `backup.yaml` and the snapshot directories | record, retention, `backup-delete`, `backup-list`, choice of a restore point | backup, restore, upgrade, `papaia-manager` |
| restore (`backup.sh`, `backup.py`) | `backup.log` | `restore`, in full, `--only`, `--clean-up`, `--no-restart` | stop, start, the volumes, the config directory, add-on directories |
| lifecycle (`lifecycle.sh`) | the containers and networks of the core | `start`, `stop`, `uninstall` | compose overrides, add-ons, provisioning |
| add-ons (`addon.sh`, `cli_addon.py`, `addons.py`, `gen_override.py`, `components.py`) | the `addons` list of `deployment.yaml`, `overrides/`, the `.env` of each add-on | install, start, stop, remove, uninstall, check | compatibility, lifecycle |
| compatibility (`compat.py`, `semver.py`) | none | evaluates a manifest against a core, gates commands | add-ons, start, upgrade |
| setup (`setup.sh`, `resolve.py`, `envtree.py`, `defaults.py`, `deployment.py`) | the tree of `.env` files, `deployment.yaml` | `setup`, `setup --env-only`, key sync, version stamp | secrets, rendering, modules |
| secrets (`secrets.py`) | generated values, mirrored over several `.env` files | fill what is missing | setup |
| modules (`modules.py`) | volumes and settings of a module that is off | `module-info`, purge, reset | setup, docker |
| provisioning (`keycloak_role_sync.py`, `npm_provision.py`) | roles, clients, mappers and mail settings in Keycloak; proxy hosts | repeated at every start | REST |
| status and doctor (`status.py`, `doctor.py`) | none | `status`, `doctor`: declared next to running, ports, add-ons | reads the bundle, the compose files, docker, compatibility |
| rendering (`render_core.py`), mail (`smtp.py`), hardware (`gpu_detect.py`), reporting | rendered files; otherwise none | render, validate, probe, report | setup, the host |

What makes each of them correct, and what is hard about it:

**Upgrade.** Every migration between two releases runs exactly as often as it
must, in order, with the stack stopped, and is recorded if and only if it has
succeeded; the version moves over recorded migrations only. Any step can fail.
The remedy the code offers is always the same command again, so a retry has to
work out from the disk alone where the last attempt stopped. `setup`, `git
pull`, `restore --only` and `start` change what that retry reads.

**Backup run.** An archive must not contain a file its writer was in the middle
of; the run freezes the writers of each artifact with `docker pause`. A
container that is left paused is an outage, so every pause must be undone,
whatever fails and whichever signal arrives, and a container that somebody else
has paused must stay as it is. Several steps lie between looking at a container
and pausing it, and between pausing and noting it.

**Catalogue.** A snapshot is worth nothing without its entry and an entry
nothing without its snapshot. Entries and directories change in separate steps;
the file is replaced through a temporary one; processes overlap and die.

**Restore.** It wipes before it fills. It must not touch what it cannot fill
again, nor what is in use, nor, when asked for a part, anything outside that
part; it must not claim more than it did; and it has to bring back what it took
down.

**Compatibility and add-ons.** Both sides of a verdict move after an add-on has been
installed: the core is upgraded, the add-on updated. What comes up must be what
the gate tolerates today, the core must join the networks of the add-ons that
ask for it and of no others, nothing generated may outlive its add-on, and an
add-on's data must keep the secrets it was made with through remove and install.
A command writes up to five files and any write can be the last one.

**Setup, secrets and modules.** A value lives in the bundle, in a copy beside the
compose file, and, for a secret, in the data of a service which took it at its first
start and will ask for it for ever. Setup, start, module resets and new releases
all rewrite these files; releases rename and move keys. A secret must not change
under its data, must be the same wherever it is copied, must not be a
placeholder when a service starts; an operator's edit must stay.

**Provisioning.** Every start brings a proxy and a realm, which administrators also
edit, to what is rendered, over calls that can fail or be answered too late, possibly
beside another start. It must only add, never overrule an administrator, not report more
than is there, and arrive in the end.

**Status and doctor.** A report is put together from reads at different moments: the
bundle, `docker ps`, `docker inspect`, the ports. Healths are summed up twice, into
modules and into sections and profiles. On the way no outage may be lost in a sum, and
none invented out of a finished job, a container without a label, a container that is
gone by the next read, or a daemon that does not answer; and what doctor passes should start.

## The modules

| module | stands for |
|---|---|
| `Releases` | the data an upgrade is computed from: releases, migrations, which are due (`migrations.py: discover, pending`; `upgrade.py: latest_release, select_target`) |
| `Release` | the abstract specification of an upgrade: two variables, two actions |
| `Upgrade` | `papaia-ctl upgrade` step by step, with the other commands |
| `UpgradeProofs` | theorems about `Upgrade`, the refinement of `Release` among them |
| `Backup`, `BackupProofs` | one or several backup runs and their theorems |
| `Catalogue`, `CatalogueProofs` | `backup.yaml` and the snapshot directories, file operation by file operation, and theorems |
| `Plan` | what a backup archives, what its manifest holds, and what a selection picks from it (`backup.py: build_plan, write_manifest, resolve_selection`) |
| `Restore`, `RestoreProofs` | `papaia-ctl restore`, extends `Plan`; its theorems |
| `SemVer` | version order and constraints (`semver.py`) |
| `Compat` | the verdict on an add-on and the gate (`compat.py`) |
| `Addons`, `AddonsProofs` | the add-on commands, with `start` and `stop` of the core; extends `Compat`; theorems about both, and about `SemVer` |
| `Setup`, `SetupProofs` | the tree of `.env` files: `setup`, `start`'s key sync, `module-purge`; theorems |
| `Provisioning`, `ProvisioningProofs` | proxy hosts and realm over REST, at every start, and theorems |
| `Status`, `StatusProofs` | the status report and the checks of doctor that rest on it, read by read; takes the gate from `Compat`; its theorems |
| `MCUpgrade`, `MCBackup`, `MCCatalogue`, `MCRestore`, `MCAddons`, `MCSetup`, `MCProvisioning`, `MCStatus` | small instances for TLC |

### Upgrade

`checkout`, `platform` and `ledger` are the git checkout, `platform_version` and
`migrations/applied.json`. A migration script is outside the program; what it
does to the bundle or to a volume is abstracted to two sets, `touched` (begun)
and `done` (complete), so that "recorded" can be compared with "really there".
`restored` remembers which results a scoped restore may have taken back. A
restore point (`points`) keeps the `touched` and `done` of its moment. `stack`
is what runs of the core and the add-ons (`Parts`), and `left`, a history variable, what of
that somebody else has started since the stop, or the stop has passed over.

The variable `pc` walks the two phases of `upgrade.sh`. Phase 1 (lines 100-254)
is `Resolve`, `GatePassed` or `Refused`, `TakeBackup` or `SkipBackup`,
`StopStack` or `StopMissesAddons`, `MoveCheckout`. Phase 2 (lines 256-329, executed from the new tree
after the `exec`) is `PlanMigrations`, then for each script `StartScript`,
`ScriptSucceeds`, `RecordMigration`, then `MigrationsDone`,
`ApplyConfiguration`, `StartStack`. Every step has its failures:

- where the code calls `_upgrade_failed`, the failure is logged with its stage
  (`Failed`); where `set -e` or an `exit` ends the run without that, it is not
  (`StopFails`, `StartRefused`);
- `ConfigurationFails` chooses on which side of the stamp the setup pass failed;
- `StopFails` leaves any part of what ran; `StopMissesAddons` is a failing `active-addons`,
  whose status `_addon_compose_all` never sees (`lifecycle.sh:20`): no add-on is taken
  down and `cmd_stop` returns 0;
- `StartFailsUnnoticed` is what `if ! cmd_start` does: Bash suspends `set -e` in a
  function that is a condition, so a failing `docker compose up` is passed over
  and the run logs success; a failing list of add-ons ends in the same way (108);
- `Crash` is SIGKILL or power loss at any step.

The commands `Start`, `Stop`, `Setup`, `Checkout` and `RestoreVolumes` are those
that change what an upgrade reads. With `Concurrent` they run beside it.

`Release` says what the bundle is promised, whatever fails: migrations are
recorded one at a time, in order, never twice, and the version moves forward
over recorded ones. `ImplementsRelease` maps `applied` to `ledger` and
`platform` to itself.

### Backup

A run is the loop of `cmd_backup` (`backup.sh` 143-261) over the artifacts of
the plan, which is a constant: `Kind` and `Writers` say what each artifact is and
which containers really write to it (what makes up a plan is in `Plan`), `Labelled` which ones carry the compose
project label that the run asks for in the case of a bind mount. `_backup_artifact` and
`_pause_containers` become `ListWriters`, `Inspect`, `Pause`, `StartArchive`,
`ArchiveWritten` or `ArchiveFails`, `Unpause`, `RecordArtifact`: docker calls are
separate steps, so anything can come between `docker inspect` and `docker pause`.
`mine` is the array `_PAUSED_CONTAINERS`.

A signal: Bash runs `_backup_cleanup` between two commands, and since the
function does not exit, the run goes on with the next one (`Trap`). Ctrl-C also reaches the
`docker pause` in the foreground (`InterruptPause`): the daemon may or may not
have paused the container, and the run notes nothing. `pausedBy` is a history
variable; a container paused in this way, or by a run that was killed, is paused by "nobody".

The code passes over the failures of docker itself, and the model has them all: a
`docker ps` that fails names no writers (`ListFails`, `backup.sh:68` and `72`), a `docker
inspect` that fails makes a container look stopped (`InspectFails`, 55), a `docker pause` that
fails is skipped (`PauseFails`, 60), and a container on which `docker unpause` fails is
forgotten (`UnpauseFails`, 31 and 33, also in the handler of a signal): it too is "nobody's".
`Ended` is the end of the process, which takes `_PAUSED_CONTAINERS` with it.

Since docker can fail and others act on the same containers, an archive is frozen only as far as
the run is let. `slipped` is a history variable that keeps the exceptions: for each run the
containers that, since it has listed the writers of the artifact at hand, docker has failed to list, to
show or to pause, or that somebody else has set running. `FrozenDuringArchive` says of all other
containers of which `docker ps` can know that they write to the artifact (`Known`) that none runs during the
archive, whatever runs, signals and commands there are beside it. `Undisturbed`, the premise of
`OperatorPauseKept`, is: no signal, and no container that an operator has brought back (`resumed`).

### Catalogue

`index` and `tmp` are `backup.yaml` and its temporary sibling, each complete,
torn or absent; `dir` the snapshot directories. `record_backup`, `prune` and
`delete_backups` load the file (`LoadToRecord`, `LoadToPrune`, `LoadToDelete`),
remove directories (`DamageDir` is `rmtree` in the middle), and save:
`common.atomic_write` is `OpenTmp`, `WriteTmp`, `Replace`. A file that is torn either cannot be
parsed (`LoadFails`) or, if nothing has been written into it yet, is read as an empty catalogue. An open handle stays with its
file when another process renames it, which is what makes a shared temporary
name matter. Time is a counter that moves with each entry and by `Day` with each
`Tick`; `Expired` is the comparison of `prune`. `Selected` is the choice of
`select_backup`. `overlapped` is a history variable, set when two processes are
at work at the same time: the properties that need one process after the other say so by it.

### Restore

`Plan` computes what the restore point holds from what a backup reads: the services of
the compose files with their module labels, profiles and mounts, the volumes docker
lists (`ProjectVolumes`: without a compose label they must be declared; everything
declared when docker cannot be asked), the bind mounts of add-ons (`BindDirs`) and the
add-ons enabled. `Manifest` is that without what failed. `Recorded` are the units that a
teardown is told of, `ModuleOf` the group an operator picks it by; a selection that
matches nothing, is too long, or reaches the manager is refused (`SelectionRefused`).

The other constants describe the installation: who really mounts a target (`Users`,
which need not be what is recorded), which archives are gone, which profiles depend on others, what the
bundle enables now. `data` says what each target holds; `up` which units run. The run is
`Refuse` or `Begin`, the teardown (`TakeDownAddon`, `AddonMissing`,
`TakeDownCore`, with `AddonStays` and `CoreStays` for compose calls that fail),
the artifacts (`SkipInUse`, `SkipUnrestorable`, `Wipe`, `Extract`,
`ExtractFails`, `ContainerFails`), the restart (`StartAgain`, `PassOver`,
`StartRefused`, `StartFails`) and `Log`. A config directory that was wiped and
not filled again has no `.env`: `SetupDone` is the check at the head of the
commands that a restart depends on. A step can fail or be killed as often as `MaxFaults` says. Two failures go unnoticed by the
code: without an answer of `docker ps` a volume in use is wiped (`WipeUnseen`, `backup.sh:68`), and
without the list of add-ons a full restore neither takes them down nor starts them
(`AddonsUnlisted`, `lifecycle.sh` 20 and 108), nor a scoped one an add-on whose path it cannot ask for
(`AddonUnfound`, `backup.sh` 674 and 715). `unseen` and `missed` are history variables that remember
of which volumes and add-ons that is true.

### Compatibility and add-ons

`SemVer` has versions as a triple and a list of identifiers, a number before a
word; `compare` and `satisfies` keep the names of the code. Parsing is left
out; a constraint that cannot be parsed is one without clauses. In `Compat` everything a
core or a manifest may omit is a set of at most one element, and
`evaluate_addon` and `gate` follow `compat.py` 186-300: the generation decides where both sides
know it, then the version range, then the services that `networks.attach` names.

`Addons` has one command at a time, `pc` at the next file it writes: `Seed` (the
bundle), `Save` (`deployment.yaml`), `GenerateOverrides` and `GenerateCerts` (the
compose overrides), `Materialize` (the `.env` beside the add-on) and `Up`; `Remove` and
`Uninstall` with `Unlink`, `Rmtree`, `Drop`. `start --addons` is the queue of
`NextAddon`, each through the gate again, and then `CoreUp` with the overrides whose
network exists; when the list of add-ons fails, `AddonsUnlisted` empties the queue and the command
goes on, which its field `unlisted` remembers. A network stays while containers of the core are in it
(`NetsAfterDown`). Secrets are numbers, one for a bundle seeded, and `volume` is the number its
data was made with. `Kill` ends any command between two writes; `Checkout`
and `Update` change either side of a verdict between commands. `hurt` and
`orphaned` are the add-ons whose removal was killed or has kept its volumes.

### Setup

`bundle` and `copy` map each variable to its value, or `Absent`; a directory has a
`.env` when one of its variables is there. `Filled`, `FannedOut`, `Migrated`,
`Missing` are the passes of `generate_missing_secrets`, `migrate_env_keys` and
`sync_new_env_keys`, on whole environments. `setup` seeds one directory after
the other, resolves in memory, and writes each directory in the bundle, then in the
checkout. `start` adds what a newer release ships, copies the bundle and starts
services, each of which takes its secret into its data if it has none.
`Purge` and `Reset` are `module-purge --data` and `--config` of the RAG module. History
variables say what an operator has done that voids a promise: `spoiled` (forced
secrets or started before a setup had completed), `edited`, `drifted`, `torn`.

### Provisioning

`run[r]` is one process: the step, the definition it has read, the rest of its
loop, what it has seen and the call it has decided on. Each REST call is an
action and the decision before it another one, so that a second run or the
end of the process comes between. Reading the realm's composites or its mappers
and writing them are separate calls; the mail server is one GET and one PUT.
`BreaksOff` ends a run at any call, `HostsFail` only its first half: `start` warns
and goes on to the realm. `Render`, `EditMail`, `EditRealm` and `GrantLegacy` change the
definition and the realm between runs. The servers are external; a second host for
a domain is assumed to be refused.

### Status

`docker` is what docker would say now, `rows` what `docker ps -a` said, `asked` the
containers of which `docker inspect` told the restart policy, `ports` the ports that
doctor has tried. The command is `ReadDeclared`, `Refuse` or `query_containers`,
`query_restart_policies`, then for doctor `check_port` for each port in turn; between
any two, `ContainerChanges` moves a container to any other state and `DaemonChanges` makes the
daemon unreachable or brings it back. `moved` is a history variable, the containers that changed since
`docker ps`: the report speaks of that moment, and the properties except what moved. What the report
says is computed from the reads by operators that carry the names of the code
(`derive_health`, `worst`) or its outputs (`Expected`, `Healths`, `GroupHealth`, `Shown`, `Aggregate`).
`AddonVerdict` asks `Compat` whether the gate would let the add-on in.

## The runs

`tlc -config X.cfg MCModule` checks a configuration. The passing ones:

| run | question | states |
|---|---|---|
| `Upgrade` | Upgrades that fail or die anywhere, retried; start, stop, checkout and scoped restore between them. Is what is half-done always the last one begun (`HalfDoneIsLast`), does the version move over recorded migrations only (`PlatformMigrated`), is every behaviour one of `Release` (`ImplementsRelease`), and does a retried upgrade arrive (`ReachesLatest`)? | 540 000 |
| `UpgradeBeside` | Which promises survive when every command, setup included, runs beside the upgrade? The ledger is truthful (`LedgerSound`), scripts start in order, each once (`ResumesInOrder`), and nothing runs beside them but what others have started or a stop without the list of add-ons has passed over (`StoppedDuringScripts`). | 599 000 |
| `Backup` | Two runs, all commands, all signals, all failures with SIGKILL: do pauses end with their archive (`PausedForItsArchive`), is every container released (`AlwaysReleased`), are the recorded result and the manifest true (`ResultTruthful`), does no writer run during its archive but those that others have set running or docker has failed on (`FrozenDuringArchive`)? Until a signal or a resumed container: is every operator's pause kept (`OperatorPauseKept`)? | 288 000 |
| `Catalogue` | Two processes, killed anywhere, retention of no days included. One after the other: is the catalogue readable (`CatalogueReadable`), are entries kept (`EntriesKept`), does a restore take a backup just made whose archives are all there (`RestoreTakesBackup`)? Beside each other too: is any snapshot damaged that no removal has chosen (`OnlyCondemnedDamaged`)? | 1 617 000 |
| `Restore` | Two restores of every kind, failing or killed anywhere, from any set of running units, with the add-on installed or not: is nothing wiped under its users (`NeverUnderUsers`), outside the selection (`ScopedLeavesRest`), or that cannot be filled again (`UnrestorableKept`); is the answer true (`ResultTruthful`), and does what was taken down come back (`BroughtBack`)? Excepted is what docker or the list of add-ons did not name. | 1 746 000 |
| `Addons` | All add-on commands, start and stop of the core, killed anywhere, over two releases and updates: does only what the gate tolerates come up (`OnlyToleratedStart`), does the core join the right networks, with the services asked for today (`StartSeesAddons`), is every override one compose accepts (`OverridesNameServices`), do data and secrets fit (`SecretsFitData`), is anything left over (`NothingLeft`)? | 4 756 000 |
| `Setup` | setup with its options, start, edits, module resets over two releases, one of them killed: do data and secrets fit (`SecretsFitData`), does a service start over a placeholder (`NoPlaceholders`), do copies of a secret agree (`AliasesAgree`), do edits stay (`EditsKept`)? | 740 000 |
| `Provisioning` | Two starts beside each other, broken off at any call, repeated, over changing definitions and edits: is everything there when a step reports success (`SyncedWhenDone`), is nothing taken away or overruled (`Additive`), does the realm arrive at the definition (`Converges`)? | 425 000 |
| `Status` | Every report of status and doctor, on any of 32 stacks, with the containers or the daemon changing between its reads: is an outage hidden (`OutageSeen`) or invented (`NoInventedOutage`), is a port blamed on the wrong one (`PortsBlamedRightly`), can what doctor passes be started (`PassedIsStartable`)? | 183 000 |

`TypeOK` is checked in `Upgrade`, `Backup` and `Restore`; that of `Catalogue`, `Status`,
`Addons` and `Provisioning` is a theorem.

The failing ones each show a disagreement of the code with its documentation;
see [below](#what-the-code-does-otherwise): `UpgradeSetup`, `SetupRelocation`,
`RestoreBundle`.

### Bounds, and why they are enough

- **Upgrade.** Three releases, the middle one a pre-release, so that an upgrade
  can go one step or two and the newest is not the next. Three migrations: two of
  one release (the order within a release matters), the second in a volume (a
  scoped restore can take it back), and one of the last release. Two
  faults: a retry can fail as well. Two other commands that change versions or
  data; `Start` and `Stop` are unbounded. Two restore points. Beside each other, one fault and one
  restore point.
- **Backup.** One artifact of each kind; a volume with two writers, so that one can
  change while the other is being paused; a bind mount that shares a writer with
  it. Two runs, because the second can undo what the first did; a third would
  do nothing else. One signal, one fault and one operator command, of every kind and at
  every step, and two of the three in one behaviour (`MaxEvents`): each promise is broken by
  one of them or by none, and the exceptions are about one event each. One of the two writers
  of the bind mount carries the label under which its writers are looked up. The theorems have no such bound.
- **Catalogue.** Three points: an old one, one in removal and a new one; two of
  them (`MaxBeside`) once two processes have overlapped. One kill.
  `Day > MaxPoints` keeps what happens within a day within a day. The two processes are
  symmetric: both run every command.
- **Restore.** Three profiles, one of which needs another (a scope can fail to
  resolve), one of which runs the manager. Four services: a volume that two modules
  mount, one of them through a service without a label; a volume of a profile that was
  never started; one left by an older release that no compose file declares. An add-on
  mounts that one and a volume of the core, writes to one directory and reads another. One archive is
  missing, that of the shared volume. Two restores, because the second meets what a
  failed first one left; one fault. `--only` takes at most two selectors, so that a third is one too many.
- **Addons.** Two add-ons, because the gate of `start` is over all of them and a
  queue needs two: one declares a generation, owns data and has a second
  version for the next generation; the other predates the contract and gives up its
  attachment in an update. Two releases, the
  second an additive change of the first. Two seedings of secrets; one kill or
  failure. One command at a time.
- **Setup.** An excerpt of the variables that has one of each kind: a secret with copies
  in another directory, a secret that data keeps, a setting, a setting that the second release
  moves, one that it removes, a secret and a copy that it adds. Four
  combinations of the options. Two values of a secret: a third would tell nothing more than
  "another one". One kill, one command at a time. No directory is new in the second
  release: that is `SetupRelocation`. `start --profiles` is not modelled.
- **Provisioning.** Two runs; four definitions, which differ in roles, composites, a
  client whose secret is not generated yet, the relay and a site; two changes of
  the definition, one edit and one failure. Edits and changes come between runs: what an administrator
  does between a run's GET and its PUT is overwritten, [see below](#what-the-code-does-otherwise).
- **Status.** Two profiles and an add-on. A service with a job beside it in one
  module, a service of the other profile that brings up the same module, containers with and without a
  label; one port that a service of the core and the add-on want. The add-on does not fit.
  32 stacks to begin with, in which containers run, have failed, have exited cleanly or are absent, with the
  port free or taken. One change: each property speaks of what has not moved, and one
  change is enough to make any two reads disagree; the theorems hold for any number.

Only `Catalogue` uses symmetry, and it has no liveness property. `CHECK_DEADLOCK FALSE` stands
in the configurations of `Backup`, `Catalogue`, `Restore`, `RestoreBundle` and `Status`, where all
runs come to their end and the bounds on commands and faults stop the rest. In
the others some command can always be issued, and deadlock is checked.

### Fairness

`Upgrade!FairSpec` asks for weak fairness of the steps of a phase: a process
that has been started goes on. It also asks that an unattended upgrade is issued again
and again, which is the use `upgrade.py` 144-148 names ("safe to run unattended,
from a cron job or a fleet loop"). Faults have no fairness and are
bounded: `ReachesLatest` says that the installation arrives once failures stop.

`Backup!FairSpec` asks for weak fairness of each run's steps. A run waits for no
other process, only for docker and tar, whose failure is an action of its own.

`Provisioning!FairSpec` asks that a run which has begun goes on, and that `start` is
issued again and again. The first is the loop of a process whose calls all have a
timeout; the second is the remedy that its warnings name. Failures, edits and new
definitions have no fairness and are bounded, so `Converges` is about what happens after the last.

## The proofs

TLC checks the instances above. The following hold for every set of releases and
migrations, every plan, every number of containers, add-ons and runs and every bound;
`tlapm` checks them.

| theorem | states | assumes |
|---|---|---|
| `UpgradeProofs!TypeCorrect` | `TypeOK` | |
| `UpgradeProofs!LedgerIsSound` | `LedgerSound` | nothing: all commands, beside the upgrade too |
| `UpgradeProofs!RetriesResumeInOrder` | `ResumesInOrder` | nothing |
| `UpgradeProofs!VersionIsMigrated` | `PlatformMigrated` | `Sequential` |
| `UpgradeProofs!UpgradeRefinesRelease` | `ImplementsRelease` | `Sequential` |
| `UpgradeProofs!HalfDoneStaysLast` | `HalfDoneIsLast` | `Sequential` |
| `UpgradeProofs!ScriptsFindStackDown` | `StoppedDuringScripts` | nothing: all commands, beside the upgrade too |
| `BackupProofs!TypeCorrect` | `TypeOK` | |
| `BackupProofs!PausesEnd` | `PausedForItsArchive` | nothing: all signals, failures and commands, any number of runs |
| `BackupProofs!PausesOfOperatorsKept` | `OperatorPauseKept` | nothing; the property speaks of the time up to the first disturbance |
| `BackupProofs!ArchivesAreFrozen` | `FrozenDuringArchive` | nothing: any number of runs, all signals, failures and commands |
| `BackupProofs!EntriesTruthful` | `ResultTruthful` | nothing |
| `CatalogueProofs!TypeCorrect` | `TypeOK` | |
| `CatalogueProofs!OthersAreSpared` | `OnlyCondemnedDamaged` | nothing: any number of processes beside each other, killed anywhere |
| `CatalogueProofs!StaysReadable` | `CatalogueReadable` | nothing; the property speaks of the time until two processes overlap |
| `CatalogueProofs!EntriesStay` | `EntriesKept` | likewise |
| `CatalogueProofs!RestoreFindsBackup` | `RestoreTakesBackup` | likewise, and for a retention of a day or more |
| `RestoreProofs!TypeCorrect` | `TypeOK` | |
| `RestoreProofs!ScopedRestoresStayInScope` | `ScopedLeavesRest` | nothing: any compose files, manifest and selection, any failures |
| `RestoreProofs!NothingLostUnfilled` | `UnrestorableKept` | nothing |
| `RestoreProofs!NoVolumeInUse` | `NeverUnderUsers` | nothing |
| `RestoreProofs!AnswersAreTrue` | `ResultTruthful` | nothing |
| `RestoreProofs!WhatWasTakenDownIsBack` | `BroughtBack` | nothing |
| `AddonsProofs!TypeCorrect` | `TypeOK` | |
| `AddonsProofs!SecretsAreKept` | `SecretsFitData` | nothing: any add-ons and manifests, any commands killed anywhere |
| `AddonsProofs!RemovedForGood` | `NothingLeft` | nothing |
| `AddonsProofs!CoreSeesAddons` | `StartSeesAddons` | nothing |
| `AddonsProofs!ComposeFindsServices` | `OverridesNameServices` | nothing |
| `AddonsProofs!GatedStart` | `OnlyToleratedStart` | nothing |
| `ProvisioningProofs!TypeCorrect` | `TypeOK` | |
| `ProvisioningProofs!DoneIsSynced` | `SyncedWhenDone` | nothing: any definitions, any number of runs beside each other, broken off anywhere |
| `ProvisioningProofs!OnlyAdds` | `Additive` | nothing |
| `SetupProofs!TypeCorrect` | `TypeOK` | |
| `SetupProofs!DataKeepsSecret` | `SecretFits(v)`, the part of `SecretsFitData` about one volume, for each volume whose variable no release up to the one checked out moves, drops or aliases (`KeepsSecretOf`) | nothing: any tables, whatever moves for other volumes |
| `SetupProofs!PlaceholdersAreFilled` | `NoPlaceholders` | `FillsPlaceholders`: every release has the same directories, and fills, renames or removes what an earlier one has generated |
| `SetupProofs!EditsStay` | `EditsKept` | `KeepsEdits`: every release has the same directories; a variable that operators edit is not removed, and moves at most once, to a place not known before |
| `SetupProofs!CopiesStayEqual` | `AliasesAgree` | `FillsPlaceholders` and `KeepsAliases`: a secret is shipped as soon as a copy of it is known, from the first release on if a reset can write the copy, and no variable is renamed to it; secrets are not in `ai/rag`, copies not in `infra/keycloak`; a copy that ships with a literal does so in every release |
| `StatusProofs!TypeCorrect` | `TypeOK` | |
| `StatusProofs!OutagesAreSeen` | `OutageSeen` | `LabelsCurrent` |
| `StatusProofs!OutagesAreReal` | `NoInventedOutage` | nothing: any number of changes |
| `StatusProofs!BlameIsRight` | `PortsBlamedRightly` | nothing |
| `StatusProofs!PassedStacksStart` | `PassedIsStartable` | nothing |
| `AddonsProofs!CompareIsTotalOrder` | `compare` is a strict total order on versions, pre-releases among them | |
| `AddonsProofs!CaretLocksLeftmost` | a caret admits exactly what is not below its bound and agrees with it up to the leftmost component that is not zero, a pre-release only where the bound is one of the same triple | |
| `AddonsProofs!TildeLocksMinor` | a tilde admits exactly the patches of its minor version from its bound on, pre-releases likewise | |
| `AddonsProofs!AdditiveKeepsAddons` | an additive change of the core keeps every add-on `OK` that was | it declares a generation |
| `AddonsProofs!BreakingRefusesOlder` | a breaking change refuses every add-on of older generations, whatever its version range says | it declares generations |

All rest on the assumptions about the constants that the modules name
(`ReleasesAssumption`, `UpgradeAssumption`, `BackupAssumption`, `CatalogueAssumption`,
`PlanAssumption`, `RestoreAssumption`, `AddonsAssumption`, `ProvisioningAssumption`,
`SetupAssumption`, `StatusAssumption`, `LabelsCurrent`), which TLC
evaluates in the runs. Most give types. Those that say something about the code or its surroundings:
scripts are numbered in the order (version, slug) in which `discover` sorts them;
a day is longer than the number of points (`CatalogueAssumption`), so that
points of one day are not told apart by age; and a container of a declared service
has the module label that the service has now, or none (`LabelsCurrent`), because compose
recreates a container whose labels have changed. `SetupAssumption` says of the tables in the
code that no variable is a copy of two secrets, no secret is itself a copy, no two renames
have one target, and a target's directory has an `.env.example` (`secrets.py:18-31`, `resolve.py:482-502`).

**The ledger.** `LedgerSound` is not inductive: between a script's success and
its record nothing in it says that the script has succeeded. `LedgerInv` adds
that at `record` the current migration is done, or may have been taken back.

**The order.** `ResumesInOrder` needs to know what the plan left out. `PlanInv`
says that whatever is earlier than a planned migration, and above the release
the upgrade leaves, is on record or planned too, and that the script in hand is
the smallest of the plan. It is established at `PlanMigrations` from `Pending`,
and kept because the ledger only grows and the plan shrinks at its smallest
element. No command beside the upgrade touches the ledger, which is why the
theorem needs no assumption.

**The refinement.** `RunInv` says what a run knows of the bundle: the version is
the one it read, the tree is its target's, and everything between the two is
planned or recorded. This is false when `setup` or `git checkout` comes between
(the run `UpgradeSetup`), so it is proved under `Sequential`: commands come
between upgrades, and `setup` is not among them. A record is then a step
`Apply`, the stamp a step `Advance`, and everything else a stutter
(`WhatMovesTheBundle`).

**What is half done.** `HalfDoneIsLast` says that no later migration begins over one
left half-way. `OrderInv` is why: whatever has been begun, in the installation or in a restore
point, everything before it is on record (`InOrder`), and by `LedgerSound` what is on record is
done or was taken back. A script starts where the plan and the ledger leave off
(`ScriptStartsInOrder`, from `RunInv`, `PlanInv` and `PlatformMigrated`), which keeps it.

**The stack is down.** `DownInv`: between the stop and the start of a run, in both
phases, what is up of the stack is in `left`. A stop that fails ends the run, and the next one
stops again; a command beside the upgrade adds to `left` what it starts, and so does a
stop that had no list of the add-ons; nothing else does.

**Pauses end.** `HeldInv`: what a run has paused is in its list; the list is
empty between two artifacts; while it unpauses, what is still paused is still to
be visited; and everything it lists is a writer or labelled. A signal empties
the list and unpauses in one action, so it is kept; what Ctrl-C, a failing `docker unpause` or a
kill orphans is no longer the run's, which is all that can be said of it.

**An operator's pause.** `OwnInv`: what a run has in its list is paused by it or
has exited. It is an invariant under the premise `Undisturbed`, which, once false, stays
false (`DisturbedForGood`): so a step that ends undisturbed began undisturbed, and is
none of those that disturb (`DisturbancesMarked`).

**Frozen archives.** `FreezeInv`: from the listing to the end of the archive, a known writer that
runs is still to be visited, being paused, or has slipped; when the list is exhausted, only the last is
left. A step of one run can set a writer of another running, and so can a signal or an operator: each
marks it for all that are reading (`Slips`, `DockerResumes`, `FrozenBeside`). What is listed is
`Listed` at that moment; containers that start later slip.

**Entries.** `CountInv`: every artifact before the one in hand is either written or
counted as failed, and never both, so that comparing the two counts decides what it is meant to, and the manifest, which is the plan without what failed, offers what is written.

**Removal.** `Spared`: what any process has still to remove has been chosen, and a snapshot
that a file, a process about to save one, or its own backup knows of is whole unless it has been
chosen. It holds for processes beside each other, whatever they do to the file. `Owned` says which
snapshot is in whose hands at which step.

**One process after the other.** `Sequential`: until two overlap, at most one process
is at work, the temporary file is its own, and what it is about to save lacks only
entries that were chosen. With `Recorded` (every entry has a result and a
moment that has passed) and `Newest` (the entry of the backup in hand is the
newest, not chosen, and in what is saved), `select_backup` takes that one.

**Restore.** `KeepsToPlan`: what a run selects is in the manifest, what it extracts has been
looked for, and a scoped one takes down units of its selection only, among which no accepted
selection has the manager. `StandsStill`: in a full restore what both bundles enable waits in the
queue of the teardown, and is down from the first wipe to the restart, or is an add-on that the
teardown had no list of; what a scoped one has wiped has no user that is up, or was not seen to have one. `Accounted`: every selected artifact is to come, in hand, counted as failed, or
holds the data of the point. `IsOwed`: what was taken down and is still enabled is up, waits in the
queue of the restart, or is an add-on that the restart could not list or find.

**Add-ons.** `Control` says which command can be at which file, and of how many
add-ons. `Gated`: the add-ons in the hands of a start are active and the gate passes them against the
checkouts as they are, which do not change while a command is at work. `Attached`: once a
start has written the overrides, they name what the manifests ask for, and each active add-on has its
network, waits in the queue for it, or is in hand, unless the start has found no list of them; when the queue is through, `StartSeesAddons` is what is
left of that. `Tidy`: an override of an inactive add-on, a
certificate or a container of one without an entry belongs to the one being removed,
and a command that deletes them is on its way. `Kept`: data has the
secrets of the bundle; that is not inductive, since a start hands data what is beside the add-on:
an entry comes with a bundle, which a second install does not seed again, and `Materialize` has
made the file beside the add-on the bundle's when the containers come up.
An add-on whose removal was killed, or has kept its volumes, is excepted by `hurt` and `orphaned`.

**Provisioning.** `SyncedWhenDone` speaks of the end of a run, so the invariant
has to say what holds on the way: `Past`: of all steps that a run has behind it, the result is
there; `Left`: what the step in hand has not in its list is there. Each is kept by the
other runs because of `Adds`: whatever a step of a run does to the servers, roles, composites,
mappers and hosts grow, a client that is there stays, and neither a secret
that fits nor a mail server is exchanged for one that does not. Edits and definitions come
between runs. `OnlyAdds` is `Adds` for a step of `Next`.

**Setup.** The theorems hold for any tables of variables, any number of releases and of
kills, and with all commands; what they ask of the tables are their hypotheses, which TLC
evaluates for the tables of the run `Setup` (`MCTables`). `DataKeepsSecret` asks nothing: it speaks of
each volume for itself, as long as no release checked out so far has moved its variable. Of the
variables in `_RENAMED_KEYS` (`resolve.py` 482-502) that data keeps, only `NPM_ADMIN_PASSWORD` moves: for its volume
the theorem ends with the release that moves it, and the run `SetupRelocation`, in whose tables another volume
keeps its secret (`MCMovedTables`), shows that nothing more is true. `Base` says how far a command has come:
the directories it has visited are as its tree or the bundle has them (`Visited`), and nothing
is there that no release has known (`Present`). The passes are characterised variable by
variable, in lemmas that the proofs of all four properties cite (`MigratedAt`, `FilledAt`, `FannedAt`).
`HasSecret`: the variable of a secret is neither a literal nor missing where its directory is there;
data has its value; and what a command is about to write there is firm, and
the same if data has it. So a reset must be one that has deleted the data (`Purge`), and
a service that starts after a finished setup takes the bundle's value, since the copies are
the bundle's by then. `MarkerInv`: once a setup has completed, the bundle holds no placeholder, nor
does what a start or a reset will write; the passes of setup leave none (`SetupFills`)
because a placeholder that they find can be filled, or replaced by the secret it copies.
`Edited`: until a setup is killed while it writes, what an operator chose is in the bundle, where the
variable is or where the release has moved it (`Place`), and in all that a setup or a reset is about to
write. It also says why a move does not lose it: the old place and the new one never
both have a value, because `start` does not add what a setup will move, and a reset that would
is what sets `torn`; and `envtree.init` seeds a directory only before there is anything to edit.
`AliasInv`: while the last setup stands, a copy that is there has the value of its secret, or the one
that the running start will give the secret (`Current`); a reset can write a copy before it writes the
root, so the secret must be there by then (`ResetAgrees`, with `StaysInv`).
The hypotheses are needed: a setup that seeds a new directory and is
then refused leaves its placeholders to the next start. A variable that is removed takes its edit along.
Where a release adds a copy with a literal, as `LITELLM_API_KEY` of `ai/jinaai` has, and setup is the
first command after it, the file gets the literal, and only the next setup puts the secret there.
Of the current `SECRET_ALIASES` (`secrets.py:18`) resets can write the copies of `LITELLM_MASTER_KEY` in
`ai/rag` and the one in the root for oauth2-proxy.

**Reports.** `WorstIsOutage`: the worst of a set of healths is an outage if and only if
one of them is; applied twice it carries an outage from a container to its module, to
the section and the profile (`ModulesOutage`), and back. `ReadsCurrent` says that a row
is still true for containers that have not moved. The four properties follow from these
for every report, `PassedStacksStart` with `VerdictIsGate`: doctor fails an add-on if and only if the gate refuses it.

**Versions.** The lists of identifiers are compared by their first difference.
`FirstDifference` finds it as the least place in which two lists are not the same, the one
after the shorter list included; that any two lists are comparable, and
transitivity by the smaller of two first differences, follow from it without
induction over the lists.

Only model-checked: liveness (`ReachesLatest`, `AlwaysReleased`, `Converges`), which is beyond
the prover. Every safety property of the passing runs is a theorem.

## What the code does otherwise

Each of these is a sentence in the documentation or a comment that the code does
not keep. The first three are runs that TLC refutes.

1. `UpgradeSetup`. `deployment.py:91` stamps `platform_version` with the VERSION
   of the checkout in every setup. Between a failed upgrade and its retry it
   moves the version past migrations that never ran, and the retry skips them;
   `upgrade.py` 115-117 calls it "the version its config bundle was last migrated
   and rendered to".
2. `SetupRelocation`. When a release moves a password to a service whose directory
   is new to the bundle, seeding puts the placeholder there first, `setdefault`
   (`resolve.py:536`) keeps it, and a new password is generated; the data
   has the old one. `resolve.py` 491-493 says that relocating rather than
   regenerating matters for this password.
3. `RestoreBundle`. On the host that made the backup, a full restore is refused:
   `cli.py:477` validates the recorded config directory, and `backup.py` 850-853
   refuses a target that is the config directory in use. The README (530-533)
   says that the config directory is restored into the one in use.

The others are visible in the actions, are the reason for an assumption, or were met
while reading. Of upgrade, backup and restore:

- The setup pass of an upgrade stamps the version before it renders (`cli.py` 161-166). When rendering fails, the printed retry (`upgrade.sh` 353-354) answers that there is nothing to do.
- The containers of a bind mount are looked up by a project named like the add-on (`backup.sh:290`), but the project is named like its directory (`backup.py` 440-441): `Labelled` is a constant, and `FrozenDuringArchive` speaks of writers that carry the name.
- A `docker ps` or `docker inspect` that fails is passed over (`backup.sh` 55, 68, 72): the archive is then read with its writers running, and recorded as good. In a scoped restore the same `docker ps` makes a volume in use look free, and it is wiped. `slipped`, `unseen`.
- A container on which `docker unpause` fails is forgotten (`backup.sh` 31, 33) and stays paused, against the comment at 16-18 ("MUST be unpaused again on every path"). `PausedForItsArchive` and `AlwaysReleased` except it.
- The list of add-ons comes from a process substitution whose status nobody sees, with its errors in `/dev/null` (`lifecycle.sh` 20, 108). When it fails, a stop leaves the add-ons up and a start leaves them down, and both report success: an upgrade then runs its migrations beside them, a full restore wipes under them or does not bring them back, `start --addons` starts the core alone. A scoped restore takes an add-on whose path it fails to ask for (`backup.sh` 674, 715) for one that is no longer installed, and succeeds without starting it. `left`, `missed`, `unlisted`. The networks of an override are read in the same way (125); a failure there makes `docker compose up` fail if one is missing, which the model has in any case.
- `common.py:208` uses one temporary name for all processes; one can rename what another is still writing, against the docstring at 196-197. `CatalogueReadable` is about processes that do not overlap.
- `if ! cmd_start` (`upgrade.sh:316`) makes a failed `docker compose up` a success in `upgrade.log`; a refusal of the add-on gate leaves no line at all.
- A retry takes a new restore point of a bundle that is partly migrated and prints that one as the way back (`upgrade.sh` 212, 344-347).
- A scoped restore takes a volume back to before a migration that stays on record: `LedgerSound` has to except `restored`.
- A kill between a script's success and its record makes the retry run it again: `ResumesInOrder` speaks of records.
- After a signal a backup run unpauses and goes on, archiving with its writers running; two runs unpause each other's containers; Ctrl-C during `docker pause` (`backup.sh:60`) leaves a container that nobody unpauses, against the comment at 16-18.
- Two processes on one catalogue lose an entry (`backup.py:936`, against the docstring at 924): `EntriesKept` is checked for one at a time.
- A retention of 0 days removes the run's own point.
- A restore that names no point takes a partial one if that is the newest, with a warning (`backup.py` 999, 1005-1009); the README (459-460) says that partial runs are never selected automatically. `RestoreTakesBackup` speaks of backups whose archives are all there.
- A prune killed before it saves leaves entries of damaged snapshots; restore may choose one.
- A restore killed between wiping and filling the config directory leaves an installation on which restore itself refuses to run.
- Restore looks at a volume's users and wipes it in two calls; a container started in between is not seen. Containers that the bundle does not enable are not taken down by a full restore: `NeverUnderUsers` speaks of enabled units.
- Two backups begun in the same second share an id and a directory.

Of status and doctor, where a property of `Status` excepts it:

- `host_ports_in_use` (`status.py` 288-296) counts the containers that docker lists as running. A paused one (a backup in progress) still holds its port, and doctor reports the port as taken by another process (`doctor.py` 1174-1193). So it does of one that came up after `docker ps`: the port is tried later.
- A module of which one service is missing and another has stopped is summed up as missing, which is a warning and not a failure (`doctor.py:1510`): doctor can pass with a container that is down.
- A service that is to be kept alive and exited with code 0 counts as finished when `docker inspect` does not answer in time (`status.py` 835-846).

Of add-ons and provisioning:

- An add-on that is set to `active: false` by hand keeps its network attachment: `generate_overrides` (`gen_override.py:102`) writes files and removes none. papAIa's README (825-827) says that this takes it out; only `addon remove` deletes the file. A manifest that drops `attach` leaves its override as well (`gen_override.py:102`): the core stays attached to that network and a start fails when it loses one of the old services, though the gate lets the add-on in. `StartSeesAddons` and `OverridesNameServices` speak of add-ons that attach.
- `addon install` reads `deployment.yaml`, may ask the operator, and then writes what it had read: a command in between is lost (`cli_addon.py:126`).
- An uninstall that is killed may leave a `.env` of discarded secrets beside the add-on: `hurt`.
- A mail server that an administrator enters between the GET and the PUT of a run is overwritten: edits come between runs in the model.
- ADR 0004 says that the run creates the three clients of the profile; `PROFILE_CLIENTS` (`keycloak_role_sync.py` 57-59) has two.

Of setup, with the history variable by which a property of `Setup` excepts it:

- `persist_tree` writes the root first. A kill between the root and another directory loses a value that was moving there: `torn`.
- A module reset rewrites the root and fills the destination of a pending rename with its shipped default (`modules.py` 303-330), so that the next setup drops the operator's value, against `resolve.py` 480-481 ("Values carry over") and the care `envtree.py` 360-361 takes in the same matter: `torn`.
- A first setup that is refused leaves the seeded `.env` files. The next one no longer counts as the first and accepts the illustrative `PAPAIA_HOST`; `_require_setup_done` (`lifecycle.sh` 321-326) lets `start` run over the `GENERATE_` placeholders: `settled`, `spoiled`. The same holds of a refused setup after an update with a new directory.
- A `start` killed between the directory of a shared secret and that of its copy leaves them different until the next setup: `drifted`.
- `setup --force` makes new secrets for data that is kept: `spoiled`.
- The password file of the mail relay is written before the tree that carries its revision (`resolve.py:824` promises a revision for every change); after a failure in between, the retry sees no change and does not raise it.
- A reset of the RAG module generates every missing secret in memory and writes the RAG directory and the root only.

## Not modelled

- **The questions of setup, and what it derives from the answers** (host names, URLs, ports, GPU, mail settings): one value is as good as another to the rest of the program. That setup can refuse its answers is in `Setup`; the password of the mail relay and its revision are in the plan.
- **Rendering, hardware, reporting, certificates**: text and files from text; no state but what they write, no order that matters. That rendering can fail after the version stamp is in `Upgrade`.
- **doctor's other checks** (disk, memory, GPU, names, clock, certificates, the mail queue, the bundle's files): each judges one probe by a table. What it makes of the containers, the ports and the add-ons is in `Status`.
- **The other modules' resets**: `module-purge` of the RAG module stands for the table of modules, whose operations are the same code over other directories.
- **Compose files, images, the third-party services** are input to the program; the two servers of `Provisioning` are modelled as far as the code uses them.
- **What a migration script does** to a database: it succeeds, fails half-way or is killed.
- **Disk contents**: an archive is complete or not, a target holds old, new, partial or no data.
- **Locks**: there are none in the code.

## The plan

Done so far, in this order: `Upgrade`, `Backup`, `Catalogue`, `Restore`; `SemVer`, `Compat` and `Addons`;
`Provisioning`; `Setup`; `Plan` and `Status`; the proofs about them. What is left:

1. The mail relay: the password file, its revision and the recreation of the
   container, with a failure between any two.
2. Composition: an upgrade that takes its restore point through the catalogue, and
   backup and restore over that catalogue beside it. Abstractly: a named restore
   point can be restored until somebody removes it.
3. The other modules of the `module-purge` table, and `start --profiles`.
4. Hazards without a property, because the code has no promise there that it keeps: a setup pass
   that fails after the stamp (`cli.py:164`), Ctrl-C between a pause and its note
   (`backup.sh:60`), a bind mount whose writers carry another name (`backup.sh:290`), and `addon
   install` saving what it loaded before it asked (`cli_addon.py:126`). All but the last are in
   `Upgrade` and `Backup` (`ConfigurationFails`, `InterruptPause`, `Labelled`) and listed above. A second
   upgrade beside a running one is not in the model.
