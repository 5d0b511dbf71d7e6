------------------------------- MODULE Setup -------------------------------
(***************************************************************************)
(* The variables of the services: the .env files of the configuration      *)
(* directory (the bundle), their copies in the checkout, and the commands  *)
(* that write them.  setup seeds, migrates, fills and resolves; start adds *)
(* what a newer release ships and copies the bundle; the operations on the *)
(* optional RAG module delete its data and reset its settings.  Services   *)
(* take secrets into their data when they start for the first time, so a   *)
(* secret that changes afterwards locks them out.  One command runs at a   *)
(* time and can be killed between any two writes.                          *)
(***************************************************************************)
EXTENDS Naturals, Sequences

CONSTANTS
  Order,       \* the directories of the services, as they are visited
  Keys,        \* the variables; each belongs to a directory
  DirOf,       \* its directory
  Ships,       \* the variables in the .env.example files of each release
  Generated,   \* those whose example carries the GENERATE_ marker
  Aliases,     \* SECRET_ALIASES: copies of a secret in other directories
  Renamed,     \* _RENAMED_KEYS of each release: where a variable went
  Removed,     \* _REMOVED_KEYS of each release
  Profiles, Provider,   \* COMPOSE_PROFILES and AUTH_PROVIDER
  Root, Keycloak, Rag,  \* src/, infra/keycloak and ai/rag
  Volumes,     \* data that keeps a secret
  KeptBy,      \* the variable the data takes it from, in each release
  Options,     \* of setup: provider and rag profile, and --force
  Editable,    \* what operators edit by hand
  MaxSecrets,  \* bound: values of a secret in use at a time
  MaxKills     \* bound: how many commands are killed

Releases == 1..Len(Ships)
Dirs == {Order[i] : i \in 1..Len(Order)}
Sources == DOMAIN Aliases

ASSUME SetupAssumption ==
  /\ Order \in Seq(Dirs) /\ Order[1] = Root
  /\ \A i, j \in 1..Len(Order) : i # j => Order[i] # Order[j]
  /\ DirOf \in [Keys -> Dirs] /\ {Root, Keycloak, Rag} \subseteq Dirs
  /\ Keycloak # Root /\ Rag # Root /\ Rag # Keycloak
  /\ Ships \in Seq(SUBSET Keys) /\ Releases # {}
  /\ Generated \subseteq Keys /\ Editable \subseteq Keys \ Sources
  /\ Aliases \in [Sources -> SUBSET (Keys \ (Sources \cup {Profiles, Provider}))]
  /\ Sources \subseteq Generated
  /\ \A c, d \in Sources : c # d => Aliases[c] \cap Aliases[d] = {}
  /\ DOMAIN Renamed = Releases /\ Removed \in [Releases -> SUBSET Keys]
  /\ \A r \in Releases :
       /\ DOMAIN Renamed[r] \subseteq Keys /\ Renamed[r] \in [DOMAIN Renamed[r] -> Keys]
       /\ \A old \in DOMAIN Renamed[r] :
            \E k \in Ships[r] : DirOf[k] = DirOf[Renamed[r][old]]
       /\ \A x, y \in DOMAIN Renamed[r] : Renamed[r][x] = Renamed[r][y] => x = y
  /\ {Profiles, Provider} \subseteq Keys \ Generated /\ Profiles # Provider
  /\ DirOf[Profiles] = Root /\ DirOf[Provider] = Root
  /\ \A r \in Releases : {Profiles, Provider} \subseteq Ships[r]
                         /\ \E k \in Ships[r] : DirOf[k] = Rag
  /\ KeptBy \in [Releases -> [Volumes -> Generated]]
  /\ Options \subseteq [provider : {"keep", "internal", "external"},
                         rag : {"keep", "on", "off"}, force : BOOLEAN]
  /\ {MaxSecrets, MaxKills} \subseteq Nat

(* The values that the properties tell apart, a text and a number. *)
Absent == <<"absent", 0>>
Marker == <<"GENERATE_", 0>>
Shipped == <<"shipped", 0>>           \* the literal of the .env.example
Chosen == <<"chosen", 0>>             \* by the operator
Replace == <<"REPLACE_WITH_VALID_SECRET", 0>>
WithRag == <<"rag", 0>>               \* COMPOSE_PROFILES, the rag profile on
External == <<"external_oidc", 0>>    \* AUTH_PROVIDER
Secret(k, n) == <<k, n>>
NoEnv == [k \in Keys |-> Absent]

VARIABLES
  release,   \* of the checkout
  bundle, copy,   \* the .env files of the two places
  deployed,  \* deployment.yaml has been seeded
  data,      \* the secret each volume keeps, Absent without data
  held,      \* the volumes whose containers exist
  pc,        \* what the running command does
  cmd,       \* the running command
  tree,      \* the variables it is about to write
  todo,      \* the directories it has still to visit, by their place in Order
  kills,
  settled,   \* history: the last setup that began to write has completed
  torn,      \* history: a setup was killed while it wrote, or the settings of
             \* a module were reset before setup moved variables of the root
  spoiled,   \* history: secrets were forced, or used before setup completed
  edited,    \* history: what operators have chosen by hand
  drifted    \* history: copies of a secret that a killed start left behind

files == <<bundle, copy, deployed>>
stack == <<data, held>>
process == <<pc, cmd, tree, todo>>
history == <<settled, torn, spoiled, edited, drifted>>
vars == <<release, files, stack, process, kills, history>>

-----------------------------------------------------------------------------
(* Environments.                                                           *)

Examples ==
  [r \in Releases |->
     [k \in Keys |-> IF k \notin Ships[r] THEN Absent
                     ELSE IF k \in Generated THEN Marker ELSE Shipped]]

Seed == Examples[release]

(* An environment with some variables changed. *)
Over(changes, env) ==
  [k \in Keys |-> IF k \in DOMAIN changes THEN changes[k] ELSE env[k]]

Has(env, d) == \E k \in Keys : DirOf[k] = d /\ env[k] # Absent

(* load_config_dir_tree: a directory without a file falls back to its      *)
(* example.                                                                *)
Loaded ==
  [k \in Keys |-> IF Has(bundle, DirOf[k]) THEN bundle[k] ELSE Seed[k]]

(* The file of a directory: what the values lack stays as the example has  *)
(* it.                                                                     *)
Written(env, d, values) ==
  [k \in Keys |-> IF DirOf[k] # d THEN env[k]
                  ELSE IF values[k] = Absent THEN Seed[k] ELSE values[k]]

Moves == Renamed[release]

Moved(env) ==
  [k \in {Moves[old] : old \in DOMAIN Moves} |->
     IF env[k] = Absent THEN env[CHOOSE old \in DOMAIN Moves : Moves[old] = k]
     ELSE env[k]]

Old == DOMAIN Moves \cup Removed[release]

(* migrate_env_keys: a value that is at the new place already wins. *)
Migrated(env) == Over([k \in Old |-> Absent], Over(Moved(env), env))

InUse == {bundle[k] : k \in Keys} \cup {copy[k] : k \in Keys}
           \cup {data[v] : v \in Volumes}

Fresh(k, used) ==
  Secret(k, CHOOSE n \in 1..MaxSecrets :
              /\ Secret(k, n) \notin used
              /\ \A m \in 1..(n - 1) : Secret(k, m) \in used)

Room ==
  LET used == InUse
  IN {k \in Generated : \A n \in 1..MaxSecrets : Secret(k, n) \in used} = {}

(* With an external provider nothing in infra/keycloak is generated. *)
Skipped(external) ==
  IF external THEN {k \in Keys : DirOf[k] = Keycloak} ELSE {}

Orphans(external) == UNION {Aliases[c] : c \in Sources \cap Skipped(external)}

(* Seeded bug: a placeholder counts as a value. *)
FilledIfAbsent(env, seed, external, force) ==
  LET used == InUse
  IN Over([k \in {g \in Generated \ Skipped(external) :
                    seed[g] = Marker /\ (force \/ env[g] = Absent)} |->
             IF k \in Orphans(external) THEN Replace ELSE Fresh(k, used)], env)

Filled(env, seed, external, force) ==
  LET used == InUse
  IN Over([k \in {g \in Generated \ Skipped(external) :
                    seed[g] = Marker /\ (force \/ env[g] \in {Absent, Marker})} |->
             IF k \in Orphans(external) THEN Replace ELSE Fresh(k, used)], env)

Copies(external) == UNION {Aliases[c] : c \in Sources \ Skipped(external)}

(* A secret goes to every copy of it that is there. *)
FannedOut(env, external) ==
  LET copies == {k \in Keys : env[k] # Absent /\
                   \E c \in Sources \ Skipped(external) :
                     k \in Aliases[c] /\ env[c] # Absent}
  IN Over([k \in copies |-> env[CHOOSE c \in Sources : k \in Aliases[c]]], env)

(* Seeded bug: only what is missing is filled. *)
GenerateAlone(env, seed, external, force) ==
  Filled(env, seed, external, force)

GenerateMissing(env, seed, external, force) ==
  FannedOut(Filled(env, seed, external, force), external)

Init ==
  /\ release = 1
  /\ bundle = NoEnv /\ copy = NoEnv /\ deployed = FALSE
  /\ data = [v \in Volumes |-> Absent] /\ held = {}
  /\ pc = "idle" /\ cmd = "none" /\ tree = NoEnv /\ todo = {}
  /\ kills = 0
  /\ settled = FALSE /\ torn = FALSE /\ spoiled = FALSE
  /\ edited = {} /\ drifted = {}

End == pc' = "idle" /\ cmd' = "none" /\ tree' = NoEnv /\ todo' = {}

-----------------------------------------------------------------------------
(* setup.                                                                  *)

BeginSetup ==
  /\ pc = "idle"
  /\ pc' = "seed" /\ cmd' = "setup"
  /\ UNCHANGED <<release, files, stack, tree, todo, kills, history>>

Unseeded ==
  {i \in 1..Len(Order) : Has(Seed, Order[i]) /\ ~Has(bundle, Order[i])}

(* envtree.init: one file after the other, and the placeholders with it.   *)
SeedDirectory ==
  /\ pc = "seed"
  /\ \E i \in Unseeded :
       /\ \A j \in Unseeded : i <= j
       /\ bundle' = Written(bundle, Order[i], Seed)
  /\ UNCHANGED <<release, copy, deployed, stack, process, kills, history>>

SeedManifest ==
  /\ pc = "seed" /\ Unseeded = {}
  /\ deployed' = TRUE
  /\ pc' = "resolve"
  /\ UNCHANGED <<release, bundle, copy, stack, cmd, tree, todo, kills, history>>

(* An option that is not given keeps what is stored. *)
BecomesExternal(options) ==
  \/ options.provider = "external"
  \/ options.provider = "keep" /\ Loaded[Provider] = External

Resolved(env, options) ==
  [env EXCEPT ![Provider] = IF BecomesExternal(options) THEN External ELSE Shipped,
              ![Profiles] = CASE options.rag = "on" -> WithRag
                              [] options.rag = "off" -> Shipped
                              [] OTHER -> @]

(* The passes of cmd_setup, in memory.                                     *)
Resolve(options) ==
  /\ pc = "resolve" /\ Room
  /\ LET external == BecomesExternal(options)
         filled ==
           GenerateMissing(Migrated(Loaded), Seed, external, options.force)
     IN /\ tree' = Resolved(filled, options)
        /\ edited' = edited \ (Copies(external) \cup
                                (IF options.force THEN Generated ELSE {}))
  /\ todo' = {i \in 1..Len(Order) : Has(Seed, Order[i])}
  /\ pc' = "write"
  /\ settled' = FALSE /\ spoiled' = (spoiled \/ options.force)
  /\ UNCHANGED <<release, files, stack, cmd, kills, torn, drifted>>

(* SetupError: a required answer is missing, the answers contradict each   *)
(* other, or an active add-on has the services of the rag profile.         *)
Refuse ==
  /\ pc = "resolve"
  /\ End
  /\ UNCHANGED <<release, files, stack, kills, history>>

(* persist_tree and reset_config: each directory in the bundle and then in *)
(* the checkout, the root first, or last in reset_config.                  *)
IsNext(i) ==
  /\ i \in todo
  /\ \A j \in todo : IF cmd = "reset" THEN j <= i ELSE i <= j

WriteBundle ==
  /\ pc = "write"
  /\ \E i \in todo : IsNext(i) /\ bundle' = Written(bundle, Order[i], tree)
  /\ pc' = "write copy"
  /\ UNCHANGED <<release, copy, deployed, stack, cmd, tree, todo, kills,
                 history>>

WriteCopy ==
  /\ pc = "write copy"
  /\ \E i \in todo :
       /\ IsNext(i)
       /\ copy' = Written(copy, Order[i], tree)
       /\ todo' = todo \ {i}
  /\ pc' = "write"
  /\ UNCHANGED <<release, bundle, deployed, stack, cmd, tree, kills, history>>

Persisted ==
  /\ pc = "write" /\ todo = {}
  /\ End
  /\ settled' = (settled \/ cmd = "setup")
  /\ drifted' = IF cmd = "setup" THEN {} ELSE drifted
  /\ UNCHANGED <<release, files, stack, kills, torn, spoiled, edited>>

-----------------------------------------------------------------------------
(* start.                                                                  *)

(* Seeded bug: what a setup will move is added as well. *)
MissingOrMoved ==
  {k \in Ships[release] :
     /\ Has(bundle, DirOf[k]) /\ bundle[k] = Absent
     /\ k \notin Skipped(bundle[Provider] = External)}

(* sync_new_env_keys: what the release ships and a file of the bundle      *)
(* lacks; what setup will move there is left to setup.                     *)
Missing ==
  {k \in Ships[release] :
     /\ Has(bundle, DirOf[k]) /\ bundle[k] = Absent
     /\ k \notin Skipped(bundle[Provider] = External)
     /\ \A old \in DOMAIN Moves : Moves[old] = k => bundle[old] = Absent}

Additions ==
  LET new == [k \in Keys |-> IF k \in Missing THEN Seed[k] ELSE Absent]
      shared == {c \in Sources \ Missing : Aliases[c] \cap Missing # {}}
      known == [k \in Keys |-> IF k \in shared THEN bundle[k] ELSE new[k]]
      filled == GenerateMissing(known, new, bundle[Provider] = External, FALSE)
  IN [k \in Keys |-> IF k \in Missing THEN filled[k] ELSE Absent]

BeginStart ==
  /\ pc = "idle" /\ Has(bundle, Root) /\ deployed
  /\ Room
  /\ tree' = Additions
  /\ pc' = "sync" /\ cmd' = "start"
  /\ UNCHANGED <<release, files, stack, todo, kills, history>>

Unsynced == {i \in 1..Len(Order) : Has(tree, Order[i])}

SyncDirectory ==
  /\ pc = "sync"
  /\ \E i \in Unsynced :
       /\ \A j \in Unsynced : i <= j
       /\ bundle' = [k \in Keys |->
                       IF DirOf[k] = Order[i] /\ tree[k] # Absent THEN tree[k]
                       ELSE bundle[k]]
       /\ tree' = [k \in Keys |->
                     IF DirOf[k] = Order[i] THEN Absent ELSE tree[k]]
  /\ UNCHANGED <<release, copy, deployed, stack, pc, cmd, todo, kills, history>>

Synced ==
  /\ pc = "sync" /\ Unsynced = {}
  /\ todo' = {i \in 1..Len(Order) : Has(Seed, Order[i]) /\ Has(bundle, Order[i])}
  /\ pc' = "copy"
  /\ UNCHANGED <<release, files, stack, cmd, tree, kills, history>>

(* materialize_core_env. *)
CopyDirectory ==
  /\ pc = "copy"
  /\ \E i \in todo :
       /\ IsNext(i)
       /\ copy' = [k \in Keys |->
                     IF DirOf[k] = Order[i] THEN bundle[k] ELSE copy[k]]
       /\ todo' = todo \ {i}
  /\ UNCHANGED <<release, bundle, deployed, stack, pc, cmd, tree, kills,
                 history>>

Served(v) ==
  LET d == DirOf[KeptBy[release][v]]
  IN /\ d = Rag => copy[Profiles] = WithRag
     /\ d = Keycloak => copy[Provider] # External

(* docker compose up; it can fail between two services. *)
ComposeUp(up) ==
  /\ pc = "copy" /\ todo = {}
  /\ \A v \in up : Served(v)
  /\ held' = held \cup up
  /\ data' = [v \in Volumes |-> IF v \in up /\ data[v] = Absent
                                THEN copy[KeptBy[release][v]] ELSE data[v]]
  /\ End
  /\ spoiled' = (spoiled \/ ~settled)
  /\ UNCHANGED <<release, files, kills, settled, torn, edited, drifted>>

(* stop --clean-up, of everything or of some profiles. *)
ComposeDown(down) ==
  /\ pc = "idle" /\ down # {} /\ down \subseteq held
  /\ held' = held \ down
  /\ UNCHANGED <<release, files, data, process, kills, history>>

-----------------------------------------------------------------------------
(* module-purge --module=rag --data, with or without --config: its         *)
(* settings go only together with its data.                                *)

RagVolumes == {v \in Volumes : DirOf[KeptBy[release][v]] = Rag}

(* Seeded bug: a volume that cannot be removed is only reported. *)
PurgeRegardless(config) ==
  /\ pc = "idle" /\ deployed /\ bundle[Profiles] # WithRag
  /\ config => Room
  /\ data' = [v \in Volumes |->
                IF v \in RagVolumes \ held THEN Absent ELSE data[v]]
  /\ pc' = IF config THEN "reset" ELSE "idle"
  /\ cmd' = IF config THEN "reset" ELSE "none"
  /\ UNCHANGED <<release, files, held, tree, todo, kills, history>>

(* Docker refuses to remove the volume of a container that exists, and the *)
(* settings then stay.                                                     *)
Purge(config) ==
  /\ pc = "idle" /\ deployed /\ bundle[Profiles] # WithRag
  /\ config => Room
  /\ data' = [v \in Volumes |->
                IF v \in RagVolumes \ held THEN Absent ELSE data[v]]
  /\ LET goes_on == config /\ RagVolumes \cap held = {}
     IN /\ pc' = IF goes_on THEN "reset" ELSE "idle"
        /\ cmd' = IF goes_on THEN "reset" ELSE "none"
  /\ UNCHANGED <<release, files, held, tree, todo, kills, history>>

(* reset_config, which writes the module's directory and the root.         *)
Reset ==
  /\ pc = "reset"
  /\ tree' = GenerateMissing(
       [k \in Keys |-> IF DirOf[k] = Rag THEN Seed[k] ELSE Loaded[k]],
       Seed, Loaded[Provider] = External, FALSE)
  /\ todo' = {i \in 1..Len(Order) : Order[i] \in {Rag, Root}}
  /\ pc' = "write"
  /\ torn' = (torn \/ \E old \in DOMAIN Moves : bundle[old] # Absent)
  /\ edited' = edited \ ({k \in Keys : DirOf[k] = Rag} \cup
                           Copies(Loaded[Provider] = External))
  /\ UNCHANGED <<release, files, stack, cmd, kills, settled, spoiled, drifted>>

-----------------------------------------------------------------------------
(* Operators, releases and crashes.                                        *)

(* A setting that the release ships, or a secret of an external provider.  *)
Edit(k) ==
  /\ pc = "idle" /\ bundle[k] \in {Shipped, Replace}
  /\ bundle' = [bundle EXCEPT ![k] = Chosen]
  /\ edited' = edited \cup {k}
  /\ drifted' = drifted \cup {k}
  /\ UNCHANGED <<release, copy, deployed, stack, process, kills, settled, torn,
                 spoiled>>

Checkout ==
  /\ pc = "idle" /\ release < Len(Ships)
  /\ release' = release + 1
  /\ UNCHANGED <<files, stack, process, kills, history>>

Kill ==
  /\ pc # "idle" /\ kills < MaxKills
  /\ kills' = kills + 1
  /\ End
  /\ torn' = (torn \/ (cmd = "setup" /\ pc # "resolve"))
  /\ drifted' = IF pc # "sync" THEN drifted
                ELSE LET unwritten == {c \in Sources : tree[c] # Absent}
                     IN drifted \cup UNION {Aliases[c] : c \in unwritten}
  /\ UNCHANGED <<release, files, stack, settled, spoiled, edited>>

Next ==
  \/ BeginSetup \/ SeedDirectory \/ SeedManifest \/ Refuse
  \/ \E options \in Options : Resolve(options)
  \/ WriteBundle \/ WriteCopy \/ Persisted
  \/ BeginStart \/ SyncDirectory \/ Synced \/ CopyDirectory
  \/ \E up \in SUBSET Volumes : ComposeUp(up)
  \/ \E down \in SUBSET Volumes : ComposeDown(down)
  \/ \E config \in BOOLEAN : Purge(config)
  \/ Reset
  \/ \E k \in Editable : Edit(k)
  \/ Checkout \/ Kill

Spec == Init /\ [][Next]_vars

-----------------------------------------------------------------------------
(* What the tables of the releases up to r must be for the secret of a     *)
(* volume to stay with the data: the variable that the data takes its      *)
(* secret from stays where it is, and is nobody's copy.                    *)
KeepsSecretOf(v, r) ==
  LET k == KeptBy[1][v]
  IN \A q \in 1..r :
       /\ KeptBy[q][v] = k
       /\ k \in Ships[q] \ (DOMAIN Renamed[q] \cup Removed[q])
       /\ \A old \in DOMAIN Renamed[q] : Renamed[q][old] # k
       /\ \A c \in Sources : k \notin Aliases[c]

(* What a release knows of, and the variables whose placeholder its setup  *)
(* fills, or replaces by the value of the secret that they copy.           *)
Known(r) == Ships[r] \cup {Renamed[r][old] : old \in DOMAIN Renamed[r]}
Marked == Generated \cup UNION {Aliases[c] : c \in Sources}
Fillable(r) ==
  (Generated \cap Ships[r])
    \cup UNION {Aliases[c] : c \in {s \in Sources \cap Ships[r] : DirOf[s] # Keycloak}}

(* Every release has the same directories. *)
SameDirectories ==
  \A q, r \in Releases : \A k \in Ships[q] : \E l \in Ships[r] : DirOf[l] = DirOf[k]

(* For no placeholder to be left over: a secret that a release no longer   *)
(* fills is renamed or removed by it.                                      *)
FillsPlaceholders ==
  /\ SameDirectories
  /\ \A r \in Releases :
       /\ \A q \in 1..r :
            (Known(q) \cap Marked)
              \subseteq Fillable(r) \cup DOMAIN Renamed[r] \cup Removed[r]
       /\ \A old \in Marked \cap DOMAIN Renamed[r] : Renamed[r][old] \in Fillable(r)

(* For edits to stay: a variable that operators edit is not removed, and   *)
(* when it moves, it moves once, to a place that was not known before.     *)
KeepsEdits ==
  /\ SameDirectories
  /\ \A k \in Editable, r \in Releases :
       /\ k \notin {Profiles, Provider} \cup Removed[r]
       /\ k \in DOMAIN Renamed[r] =>
            LET new == Renamed[r][k]
            IN /\ k \notin Ships[r]
               /\ new \notin Marked \cup {Profiles, Provider} /\ DirOf[new] # Rag
               /\ \A q \in Releases :
                    /\ new \notin DOMAIN Renamed[q] \cup Removed[q]
                    /\ IF k \in DOMAIN Renamed[q] THEN Renamed[q][k] = new
                       ELSE q < r /\ new \notin Known(q)

(* For copies to agree with their secrets: a secret is there as soon as a  *)
(* copy is and is not renamed to, in every release when a reset can write  *)
(* the copy; and a copy that ships with a literal does so in every one.    *)
KeepsAliases ==
  \A c \in Sources : \A a \in Aliases[c] :
    /\ DirOf[a] # Keycloak /\ DirOf[c] # Rag
    /\ \/ a \in Generated
       \/ \A r \in Releases : a \in Ships[r] \ (DOMAIN Renamed[r] \cup Removed[r])
    /\ DirOf[a] \in {Rag, Root} => \A r \in Releases : c \in Ships[r]
    /\ \A r \in Releases :
         /\ \A old \in DOMAIN Renamed[r] : Renamed[r][old] # c
         /\ \A q \in 1..r : a \in Known(q) => c \in Ships[r]

-----------------------------------------------------------------------------
(* Properties.                                                             *)

(***************************************************************************)
(* Data that was initialised with a secret still finds it in the           *)
(* configuration, over repeated and killed setups, new releases and the    *)
(* operations on modules, unless the operator forced new secrets or        *)
(* started the stack before a setup had completed.                         *)
(***************************************************************************)
SecretFits(v) ==
  pc = "idle" /\ ~spoiled /\ data[v] # Absent =>
    \E r \in 1..release : bundle[KeptBy[r][v]] = data[v]

SecretsFitData == \A v \in Volumes : SecretFits(v)

(***************************************************************************)
(* Once a setup has completed, no service starts with a placeholder for a  *)
(* secret, in a newer release or after failed commands either.             *)
(***************************************************************************)
NoPlaceholders ==
  pc = "copy" /\ todo = {} /\ settled =>
    \A k \in Keys \ Skipped(copy[Provider] = External) : copy[k] # Marker

(***************************************************************************)
(* Services that share a secret have the same value for it, except where   *)
(* an operator or a killed start set them apart since the last setup.      *)
(***************************************************************************)
AliasesAgree ==
  pc = "idle" /\ settled =>
    \A c \in Sources \ Skipped(bundle[Provider] = External) :
      \A a \in Aliases[c] \ drifted :
        Absent \notin {bundle[c], bundle[a]} => bundle[a] = bundle[c]

(***************************************************************************)
(* What an operator has set stays, wherever the variable moves, unless a   *)
(* setup was killed while it wrote.                                        *)
(***************************************************************************)
EditsKept ==
  pc = "idle" /\ ~torn =>
    \A k \in edited :
      \/ bundle[k] = Chosen
      \/ k \in DOMAIN Moves /\ bundle[Moves[k]] = Chosen
=============================================================================
