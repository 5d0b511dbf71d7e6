------------------------------- MODULE Addons -------------------------------
(***************************************************************************)
(* The add-on commands of papaia-ctl, and start and stop of the core as    *)
(* far as they concern add-ons: the compatibility gate, the entries of     *)
(* deployment.yaml, the bundle with an add-on's secrets, the files that    *)
(* are generated from them, and the containers and networks they end in.   *)
(* One command runs at a time and can be killed between any two writes;    *)
(* the core and the add-ons change versions between commands.              *)
(***************************************************************************)
EXTENDS Compat

CONSTANTS
  Names,         \* the add-ons; the manifest carries the name of the entry
  Cores,         \* the releases of the core, see CoreTarget
  Manifests,     \* what each add-on's papaia-app.yaml may be; {}: unreadable
  Mode,          \* the gate policy of the deployment
  WithData,      \* the add-ons that ship a .env.example and own volumes
  LocalCa,       \* the add-ons whose manifest declares local_ca_env
  ExternalOidc,  \* AUTH_PROVIDER is external_oidc
  MaxSecrets,    \* bound: how many bundles are seeded with fresh secrets
  MaxFaults      \* bound: how many commands are killed or fail in docker

ASSUME AddonsAssumption ==
  /\ \A c \in Cores : IsCore(c)
  /\ \A a \in Names : \A o \in Manifests[a] : \A m \in o : IsManifest(m)
  /\ Mode \in {"enforce", "warn"} /\ LocalCa \cup WithData \subseteq Names /\ ExternalOidc \in BOOLEAN
  /\ {MaxSecrets, MaxFaults} \subseteq Nat

VARIABLES
  core, manifest,   \* the checkouts
  entry,      \* deployment.yaml: "none", "active" or "inactive"
  bundle,     \* the secrets in the add-on's bundle, 0 without one
  overrides,  \* the services that its override file attaches, {} without one
  certs,      \* the add-ons with an ssl-cert override
  local,      \* the secrets in the .env of the add-on's checkout
  running,    \* the add-ons whose containers run
  volume,     \* the secrets its data was initialised with, 0 without data
  nets,       \* the add-ons whose network exists
  coreUp,     \* the containers of the core run
  joined,     \* the networks of add-ons that running containers of the core are in
  pc, cmd,    \* the running command, pc = "idle" when there is none
  queue,      \* the add-ons that start --addons has still to start
  secrets, faults,
  hurt,       \* history: remove or uninstall was killed at work on it
  orphaned    \* history: uninstalled while its volumes were kept

checkouts == <<core, manifest>>
generated == <<overrides, certs>>
addon == <<local, running, volume, nets>>
coreVars == <<coreUp, joined>>
bounds == <<secrets, faults>>
history == <<hurt, orphaned>>
vars == <<checkouts, entry, bundle, generated, addon, coreVars, pc, cmd, queue, bounds, history>>

(* A command; unlisted, for the record: it had no list of the add-ons.     *)
Command(name, a, force, cleanup) ==
  [name |-> name, addon |-> a, force |-> force, cleanup |-> cleanup, unlisted |-> FALSE]
NoCommand == Command("none", {}, FALSE, FALSE)

Init ==
  /\ core \in Cores /\ manifest \in [Names -> UNION {Manifests[a] : a \in Names}]
  /\ \A a \in Names : manifest[a] \in Manifests[a]
  /\ entry = [a \in Names |-> "none"] /\ bundle = [a \in Names |-> 0]
  /\ overrides = [a \in Names |-> {}] /\ certs = {}
  /\ local = [a \in Names |-> 0] /\ running = {}
  /\ volume = [a \in Names |-> 0] /\ nets = {}
  /\ coreUp = FALSE /\ joined = {}
  /\ pc = "idle" /\ cmd = NoCommand /\ queue = {}
  /\ secrets = 0 /\ faults = 0 /\ hurt = {} /\ orphaned = {}

-----------------------------------------------------------------------------
Registered == {a \in Names : entry[a] # "none"}
Active == {a \in Names : entry[a] = "active"}

(* An unreadable manifest is an error, of whatever command meets it. *)
Status(a) == IF manifest[a] = None THEN "ERROR" ELSE evaluate_addon(The(manifest[a]), core)
Passes(S, force) == gate({Status(a) : a \in S}, Mode, force)

Attach(a) == IF manifest[a] = None THEN {} ELSE The(manifest[a]).attach

(* What a command works on: none or one add-on. *)
Of(c) == c.addon
GoTo(step) == pc' = step

(* A command is issued; those that go through the gate may be refused,     *)
(* which ends them before anything is written.                             *)
Issue(c, step) == pc = "idle" /\ GoTo(step) /\ cmd' = c
Quiet == UNCHANGED <<entry, bundle, generated, addon, coreVars, queue, bounds, history, checkouts>>
Finish == GoTo("idle") /\ cmd' = NoCommand /\ queue' = {}

Install(a, force) ==
  /\ Issue(Command("install", {a}, FALSE, FALSE), "seed")
  /\ manifest[a] # None /\ Passes({a}, force)
  /\ a \in WithData /\ bundle[a] = 0 => secrets < MaxSecrets
  /\ Quiet

(* Seeded bug: the gate passed at install and is not asked again. *)
StartUngated(a, force) ==
  /\ Issue(Command("addon start", {a}, force, FALSE), "materialize")
  /\ a \in Active
  /\ Quiet

AddonStart(a, force) ==
  /\ Issue(Command("addon start", {a}, force, FALSE), "materialize")
  /\ a \in Active /\ Passes({a}, force)
  /\ Quiet

(* start evaluates all active add-ons, with or without --addons. *)
Start(withAddons, force) ==
  /\ Issue(Command(IF withAddons THEN "start --addons" ELSE "start", {}, force, FALSE), "overrides")
  /\ Passes(Active, force)
  /\ Quiet

-----------------------------------------------------------------------------
(* Seeded bug: the secrets are generated anew at every install.            *)
SeedAnew ==
  /\ pc = "seed" /\ GoTo("save")
  /\ secrets' = IF secrets < MaxSecrets THEN secrets + 1 ELSE secrets
  /\ bundle' = [a \in Names |-> IF a \in Of(cmd) THEN secrets' ELSE bundle[a]]
  /\ UNCHANGED <<checkouts, entry, generated, addon, coreVars, cmd, queue, faults, history>>

(* addon install.  A key that the bundle has is kept, so its secrets are   *)
(* generated only where there are none.                                    *)
Seed ==
  /\ pc = "seed" /\ GoTo("save")
  /\ \E a \in Of(cmd) :
       IF a \notin WithData \/ bundle[a] # 0 THEN UNCHANGED <<bundle, secrets>>
       ELSE /\ secrets' = secrets + 1
            /\ bundle' = [bundle EXCEPT ![a] = secrets']
  /\ UNCHANGED <<checkouts, entry, generated, addon, coreVars, cmd, queue, faults, history>>

Save ==
  /\ pc = "save" /\ GoTo("overrides")
  /\ entry' = [a \in Names |-> IF a \in Of(cmd) THEN "active" ELSE entry[a]]
  /\ UNCHANGED <<checkouts, bundle, generated, addon, coreVars, cmd, queue, bounds, history>>

(* addon remove: the entry is saved first, the containers are left alone.  *)
Remove(a) ==
  /\ Issue(Command("remove", {a}, FALSE, FALSE), "unlink")
  /\ a \in Registered
  /\ entry' = [entry EXCEPT ![a] = "inactive"]
  /\ UNCHANGED <<checkouts, bundle, generated, addon, coreVars, queue, bounds, history>>

(* docker compose down: a network that running containers of the core are  *)
(* in stays.                                                               *)
NetsAfterDown(S) == nets \ (S \ joined)

(* addon uninstall: the containers, with --clean-up the volumes, then the  *)
(* files of the add-on, then its entry.                                    *)
Uninstall(a, cleanup) ==
  /\ Issue(Command("uninstall", {a}, FALSE, cleanup), "unlink")
  /\ a \in Registered
  /\ running' = running \ {a}
  /\ nets' = NetsAfterDown({a})
  /\ volume' = IF cleanup THEN [volume EXCEPT ![a] = 0] ELSE volume
  /\ UNCHANGED <<checkouts, entry, bundle, generated, local, coreVars, queue, bounds, history>>

(* Seeded bug: the ssl-cert override is left to the regeneration. *)
UnlinkOverride ==
  /\ pc = "unlink"
  /\ overrides' = [a \in Names |-> IF a \in Of(cmd) THEN {} ELSE overrides[a]]
  /\ GoTo(IF cmd.name = "remove" THEN "overrides" ELSE "rmtree")
  /\ UNCHANGED <<checkouts, entry, bundle, certs, addon, coreVars, cmd, queue, bounds, history>>

Unlink ==
  /\ pc = "unlink"
  /\ overrides' = [a \in Names |-> IF a \in Of(cmd) THEN {} ELSE overrides[a]]
  /\ IF cmd.name = "remove" THEN GoTo("overrides") /\ UNCHANGED certs
     ELSE GoTo("rmtree") /\ certs' = certs \ Of(cmd)
  /\ UNCHANGED <<checkouts, entry, bundle, addon, coreVars, cmd, queue, bounds, history>>

Rmtree ==
  /\ pc = "rmtree" /\ GoTo("drop")
  /\ bundle' = [a \in Names |-> IF a \in Of(cmd) THEN 0 ELSE bundle[a]]
  /\ orphaned' = {a \in orphaned \cup Of(cmd) : volume[a] # 0}
  /\ UNCHANGED <<checkouts, entry, generated, addon, coreVars, cmd, queue, bounds, hurt>>

Drop ==
  /\ pc = "drop" /\ GoTo("overrides")
  /\ entry' = [a \in Names |-> IF a \in Of(cmd) THEN "none" ELSE entry[a]]
  /\ UNCHANGED <<checkouts, bundle, generated, addon, coreVars, cmd, queue, bounds, history>>

-----------------------------------------------------------------------------
(* What most commands end with: the configuration is rendered, which is a  *)
(* function of its inputs and no matter of this module; the overrides are  *)
(* generated; then those of the certificates, which addon start leaves out.*)

(* Seeded bug: an override that is there is not written again. *)
GenerateMissingOverrides ==
  /\ pc = "overrides"
  /\ overrides' = [a \in Names |-> IF a \in Active /\ overrides[a] = {} THEN Attach(a)
                                   ELSE overrides[a]]
  /\ GoTo(IF Of(cmd) # {} /\ cmd.name \in {"addon start", "start --addons"} THEN "up"
          ELSE "certs")
  /\ UNCHANGED <<checkouts, entry, bundle, certs, addon, coreVars, cmd, queue, bounds, history>>

(* Written for the active add-ons that attach something; no file goes.     *)
GenerateOverrides ==
  /\ pc = "overrides"
  /\ overrides' = [a \in Names |-> IF a \in Active /\ Attach(a) # {} THEN Attach(a)
                                   ELSE overrides[a]]
  /\ GoTo(IF Of(cmd) # {} /\ cmd.name \in {"addon start", "start --addons"} THEN "up"
          ELSE "certs")
  /\ UNCHANGED <<checkouts, entry, bundle, certs, addon, coreVars, cmd, queue,
                 bounds, history>>

(* Written or removed, for the add-ons that have an entry. *)
GenerateCerts ==
  /\ pc = "certs"
  /\ certs' = {a \in Names :
                 IF a \in Registered
                 THEN a \in Active /\ ExternalOidc /\ a \in LocalCa /\ manifest[a] # None
                 ELSE a \in certs}
  /\ \/ cmd.name = "start" /\ GoTo("core") /\ UNCHANGED <<cmd, queue, hurt>>
     \/ cmd.name = "start --addons" /\ GoTo("addons") /\ queue' = Active /\ UNCHANGED <<cmd, hurt>>
     \/ /\ cmd.name \notin {"start", "start --addons"} /\ Finish
        /\ hurt' = IF cmd.name = "uninstall" /\ cmd.cleanup THEN hurt \ Of(cmd) ELSE hurt
  /\ UNCHANGED <<checkouts, entry, bundle, overrides, addon, coreVars, bounds, orphaned>>

-----------------------------------------------------------------------------
(* start --addons: the add-ons one by one, in the order of the entries,    *)
(* each through the gate again.                                            *)
NextAddon ==
  /\ pc = "addons" /\ queue # {}
  /\ \E a \in queue :
       /\ cmd' = [cmd EXCEPT !.addon = {a}]
       /\ queue' = queue \ {a}
       /\ Passes({a}, cmd.force)
  /\ GoTo("materialize")
  /\ UNCHANGED <<checkouts, entry, bundle, generated, addon, coreVars, bounds, history>>

(* The list comes from a command whose failure is discarded: no add-on is  *)
(* started, and the core all the same.                                     *)
AddonsUnlisted ==
  /\ pc = "addons" /\ Of(cmd) = {} /\ queue # {}
  /\ faults < MaxFaults /\ faults' = faults + 1
  /\ queue' = {} /\ cmd' = [cmd EXCEPT !.unlisted = TRUE]
  /\ UNCHANGED <<checkouts, entry, bundle, generated, addon, coreVars, pc, secrets, history>>

(* Seeded bug: the core comes up beside its add-ons. *)
AddonsStarting ==
  /\ pc = "addons"
  /\ GoTo("core") /\ cmd' = [cmd EXCEPT !.addon = {}]
  /\ UNCHANGED <<checkouts, entry, bundle, generated, addon, coreVars, queue, bounds, history>>

AddonsStarted ==
  /\ pc = "addons" /\ queue = {}
  /\ GoTo("core") /\ cmd' = [cmd EXCEPT !.addon = {}]
  /\ UNCHANGED <<checkouts, entry, bundle, generated, addon, coreVars, queue, bounds, history>>

Materialize ==
  /\ pc = "materialize" /\ GoTo("overrides")
  /\ local' = [a \in Names |-> IF a \in Of(cmd) /\ bundle[a] # 0 THEN bundle[a] ELSE local[a]]
  /\ UNCHANGED <<checkouts, entry, bundle, generated, running, volume, nets, coreVars, cmd,
                 queue, bounds, history>>

(* docker compose up for the add-on.  A service initialises its data with  *)
(* the secrets it first starts with, and keeps asking for those.           *)
Up ==
  /\ pc = "up"
  /\ \E a \in Of(cmd) :
       /\ a \in WithData => local[a] # 0
       /\ running' = running \cup {a}
       /\ nets' = nets \cup {a}
       /\ volume' = IF a \in WithData /\ volume[a] = 0 THEN [volume EXCEPT ![a] = local[a]] ELSE volume
  /\ IF cmd.name = "addon start" THEN Finish ELSE GoTo("addons") /\ UNCHANGED <<cmd, queue>>
  /\ UNCHANGED <<checkouts, entry, bundle, generated, local, coreVars, bounds, history>>

(* docker compose up for the core, with the overrides whose network is     *)
(* there.  Compose refuses a project in which an override names a service  *)
(* that nothing else defines.                                              *)
Applied == {a \in nets : overrides[a] # {}}
Composes == \A a \in Applied : core.services = None \/ overrides[a] \subseteq The(core.services)

CoreUp ==
  /\ pc = "core" /\ Composes
  /\ coreUp' = TRUE /\ joined' = Applied
  /\ Finish
  /\ UNCHANGED <<checkouts, entry, bundle, generated, addon, bounds, history>>

(* Under set -e a docker compose that fails ends the command. *)
ComposeFails ==
  /\ \/ pc = "up" /\ faults < MaxFaults /\ faults' = faults + 1
     \/ pc = "up" /\ UNCHANGED faults /\ \E a \in Of(cmd) : a \in WithData /\ local[a] = 0
     \/ pc = "core" /\ ~ Composes /\ UNCHANGED faults
  /\ Finish
  /\ UNCHANGED <<checkouts, entry, bundle, generated, addon, coreVars, secrets, history>>

-----------------------------------------------------------------------------
(* addon stop, and stop of the core with or without its active add-ons,    *)
(* which go first.  --clean-up removes the containers.  A stop --addons    *)
(* whose list of them fails is one without.                                *)
Halted(S, cleanup) ==
  /\ running' = running \ S
  /\ nets' = IF cleanup THEN NetsAfterDown(S) ELSE nets

AddonStop(a, cleanup) ==
  /\ pc = "idle" /\ a \in Registered
  /\ Halted({a}, cleanup)
  /\ UNCHANGED <<checkouts, entry, bundle, generated, local, volume, coreVars, pc, cmd, queue,
                 bounds, history>>

Stop(withAddons, cleanup) ==
  /\ pc = "idle"
  /\ Halted(IF withAddons THEN Active ELSE {}, cleanup)
  /\ coreUp' = FALSE /\ joined' = {}
  /\ UNCHANGED <<checkouts, entry, bundle, generated, local, volume, pc, cmd, queue, bounds,
                 history>>

-----------------------------------------------------------------------------
(* Between commands: another release of the core is checked out, an add-on *)
(* is updated.                                                             *)
Checkout ==
  /\ pc = "idle" /\ core' \in Cores \ {core}
  /\ UNCHANGED <<manifest, entry, bundle, generated, addon, coreVars, pc, cmd, queue,
                 bounds, history>>

Update(a) ==
  /\ pc = "idle" /\ \E o \in Manifests[a] \ {manifest[a]} : manifest' = [manifest EXCEPT ![a] = o]
  /\ UNCHANGED <<core, entry, bundle, generated, addon, coreVars, pc, cmd, queue,
                 bounds, history>>

Kill ==
  /\ pc # "idle" /\ faults < MaxFaults
  /\ faults' = faults + 1
  /\ hurt' = IF cmd.name \in {"remove", "uninstall"} THEN hurt \cup Of(cmd) ELSE hurt
  /\ Finish
  /\ UNCHANGED <<checkouts, entry, bundle, generated, addon, coreVars, secrets, orphaned>>

Next ==
  \/ \E a \in Names, yes \in BOOLEAN :
       Install(a, yes) \/ AddonStart(a, yes) \/ Uninstall(a, yes) \/ AddonStop(a, yes)
  \/ \E a \in Names : Remove(a) \/ Update(a)
  \/ \E yes, flag \in BOOLEAN : Start(yes, flag) \/ Stop(yes, flag)
  \/ Seed \/ Save \/ Unlink \/ Rmtree \/ Drop
  \/ GenerateOverrides \/ GenerateCerts
  \/ NextAddon \/ AddonsUnlisted \/ AddonsStarted \/ Materialize \/ Up \/ CoreUp \/ ComposeFails
  \/ Checkout \/ Kill

Spec == Init /\ [][Next]_vars

-----------------------------------------------------------------------------
(* Whatever release is checked out and whatever an update of an add-on     *)
(* brought since it was installed: its containers come up only while the   *)
(* verdict on it is one that the gate tolerates, and the core's only while *)
(* that holds of every active add-on (cli_addon.py:161-169,                *)
(* lifecycle.sh:70-78).                                                    *)
OnlyToleratedStart ==
  [][/\ \A a \in running' \ running : Tolerated(Status(a), Mode, cmd.force)
     /\ coreUp' /\ ~ coreUp => Passes(Active, cmd.force)]_vars

(* When start brings the core up, it attaches it to the network of every   *)
(* active add-on that asks for it and has one, with --addons of every one  *)
(* that asks for it, with the services that it asks for today, and to no   *)
(* network of an add-on that is not active.  What a killed command left    *)
(* behind does not change that, except for the add-on that was being       *)
(* removed; a start --addons to which the command that lists the add-ons   *)
(* named none, for it had failed, attaches the core as one without         *)
(* (README.md:307-309, lifecycle.sh:99-132).                               *)
StartSeesAddons ==
  pc = "core" =>
    LET asking == {a \in Active : Attach(a) # {}}
    IN /\ asking \cap nets \subseteq Applied
       /\ cmd.name = "start --addons" /\ ~ cmd.unlisted => asking \subseteq nets
       /\ \A a \in asking : overrides[a] = Attach(a)
       /\ Applied \ hurt \subseteq Active

(* In enforce mode, a start that is not forced does not get to a compose   *)
(* call that must fail because an override names a service that the core   *)
(* has lost: the gate has refused the add-on that asks for it, and the     *)
(* override of one that now asks for others is written anew.  (That of one *)
(* that asks for none any more is left as it was: gen_override.py:102.)    *)
OverridesNameServices ==
  pc = "core" /\ Mode = "enforce" /\ ~ cmd.force =>
    \A a \in Applied \ hurt :
      \/ Attach(a) = {} \/ core.services = None
      \/ overrides[a] \subseteq The(core.services)

(* Installing, starting, removing and installing again, in any order and   *)
(* killed anywhere, never separates an add-on's data from the secrets it   *)
(* was initialised with.  An uninstall that keeps the volumes does, and so *)
(* may one that was killed (README.md:553-554, addons.py:29-32).           *)
SecretsFitData ==
  \A a \in Names \ (hurt \cup orphaned) : volume[a] # 0 => bundle[a] = volume[a]

(* Between commands nothing generated is left of an add-on that is not     *)
(* active, and no running containers of one that is not registered.        *)
NothingLeft ==
  pc = "idle" =>
    \A a \in Names \ hurt :
      /\ a \notin Active => overrides[a] = {} /\ a \notin certs
      /\ a \notin Registered => a \notin running
=============================================================================
