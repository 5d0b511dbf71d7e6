------------------------------ MODULE SetupProofs ------------------------------
(***************************************************************************)
(* Theorems about Setup.  What a release does to the tables of variables   *)
(* is a hypothesis, since the run SetupRelocation shows that with some     *)
(* tables secrets are lost.                                                *)
(***************************************************************************)
EXTENDS Setup, WellFoundedInduction, TLAPS

Values == {Absent, Marker, Shipped, Chosen, Replace, WithRag, External} \cup (Keys \X Nat)
Envs == [Keys -> Values]
Places == 1..Len(Order)
Writes == {"write", "write copy"}

TypeOK ==
  /\ release \in Releases
  /\ bundle \in Envs /\ copy \in Envs /\ tree \in Envs /\ deployed \in BOOLEAN
  /\ data \in [Volumes -> Values] /\ held \subseteq Volumes
  /\ pc \in {"idle", "seed", "resolve", "sync", "copy", "reset"} \cup Writes
  /\ cmd \in {"none", "setup", "start", "reset"}
  /\ todo \subseteq Places /\ kills \in Nat
  /\ settled \in BOOLEAN /\ torn \in BOOLEAN /\ spoiled \in BOOLEAN
  /\ edited \subseteq Keys /\ drifted \subseteq Keys
  /\ pc = "reset" => Room

(* Which command is at which step, and that a command writes directories   *)
(* that the release has.                                                   *)
Control ==
  /\ pc = "idle" <=> cmd = "none"
  /\ pc \in {"seed", "resolve"} => cmd = "setup"
  /\ pc \in {"sync", "copy"} => cmd = "start"
  /\ pc = "reset" => cmd = "reset"
  /\ pc \in Writes =>
       /\ cmd \in {"setup", "reset"} /\ (cmd = "setup" => ~ settled)
       /\ \A i \in todo : /\ Has(Seed, Order[i])
                          /\ cmd = "reset" => Order[i] \in {Rag, Root}

(* What the releases so far have shipped or moved variables to.            *)
SoFar == UNION {Known(r) : r \in 1..release}

(* A variable is there only when some release has known it, and a copy     *)
(* only of a directory that is in the bundle.                              *)
Present ==
  \A k \in Keys :
    /\ bundle[k] # Absent \/ copy[k] # Absent \/ tree[k] # Absent => k \in SoFar
    /\ copy[k] # Absent => Has(bundle, DirOf[k])

(* The directories that have been visited are as the command wants them.   *)
IsWritten(i) ==
  \A k \in Keys : DirOf[k] = Order[i] =>
                    bundle[k] = IF tree[k] = Absent THEN Seed[k] ELSE tree[k]
IsCopied(i) ==
  \A k \in Keys : DirOf[k] = Order[i] => copy[k] = bundle[k]
Visited ==
  /\ pc = "write copy" => \E i \in todo : IsNext(i) /\ IsWritten(i)
  /\ pc \in Writes /\ cmd = "setup" =>
       \A i \in Places \ todo : Has(Seed, Order[i]) => IsWritten(i)
  /\ pc = "copy" =>
       \A i \in Places \ todo :
         Has(Seed, Order[i]) /\ Has(bundle, Order[i]) => IsCopied(i)

Base == TypeOK /\ Control /\ Present /\ Visited

(* Data and its secrets.                                                   *)
Firm(x) == x # Absent /\ x # Marker
IsExternal(env) == env[Provider] = External
HasSecret(v) ==
  LET k == KeptBy[1][v]
  IN /\ {bundle[k], tree[k]} \cap {Shipped, Replace} = {}
     /\ Has(bundle, DirOf[k]) => bundle[k] # Absent
     /\ settled => Firm(bundle[k]) \/ (DirOf[k] = Keycloak /\ IsExternal(bundle))
     /\ pc = "sync" => tree[k] = Absent
     /\ pc \in Writes => Firm(tree[k]) \/ (DirOf[k] = Keycloak /\ IsExternal(tree))
     /\ data[v] # Absent /\ ~ spoiled =>
          /\ Firm(bundle[k]) /\ data[v] = bundle[k]
          /\ pc \in Writes => tree[k] = bundle[k]
          /\ cmd = "reset" => DirOf[k] # Rag

(* Who the identity provider is changes only in a setup, and a start adds  *)
(* to the directories what they lack.                                      *)
OneProvider ==
  /\ pc = "sync" => /\ ~ IsExternal(tree)
                    /\ \A k \in Keys : tree[k] # Absent =>
                                      bundle[k] = Absent /\ Has(bundle, DirOf[k])
  /\ pc \in Writes => tree[Provider] # Absent \/ cmd = "reset"
  /\ pc \in Writes /\ cmd = "reset" => (IsExternal(tree) <=> IsExternal(bundle))

(* Placeholders.                                                           *)
Clean(env) == \A k \in Keys \ Skipped(IsExternal(env)) : env[k] # Marker
Full(env) ==
  Clean(env) /\ \A k \in Keys \ Skipped(IsExternal(env)) : Seed[k] = Marker => env[k] # Absent
MarkerInv ==
  /\ \A k \in Keys : Marker \in {bundle[k], tree[k]} => k \in Marked
  /\ pc \in Writes /\ (settled \/ cmd = "setup") => Full(tree)
  /\ settled =>
       /\ \A d \in Dirs : Has(Seed, d) => Has(bundle, d)
       /\ Clean(bundle)
       /\ pc = "sync" => \A k \in Keys : tree[k] # Marker

(* Edits: where the value of a variable that an operator has edited is.    *)
Moving == Editable \cap DOMAIN Moves
Place(k) == IF k \in DOMAIN Moves THEN Moves[k] ELSE k
AllSeeded == \A d \in Dirs : Has(Seed, d) => Has(bundle, d)
SeedInv ==
  /\ pc # "seed" /\ (deployed \/ pc # "idle" \/ \E k \in Keys : bundle[k] # Absent) => AllSeeded
  /\ pc = "seed" => AllSeeded \/ \A k \in Keys : bundle[k] # Absent => k \in Ships[release]
  /\ edited # {} => AllSeeded
MoveInv ==
  /\ pc \notin Writes => \A k \in Moving : Absent \in {bundle[k], bundle[Moves[k]]}
  /\ pc = "sync" => \A k \in Moving : /\ tree[k] = Absent
                                      /\ Absent \in {bundle[k], tree[Moves[k]]}
  /\ pc \in Writes => \A k \in Moving : tree[k] = Absent /\ (cmd = "reset" => bundle[k] = Absent)
EditInv ==
  /\ pc \notin Writes => \A k \in edited : Chosen \in {bundle[k], bundle[Place(k)]}
  /\ pc \in Writes => \A k \in edited : /\ tree[Place(k)] = Chosen
                                        /\ cmd = "reset" => bundle[Place(k)] = Chosen
Edited == edited \subseteq Editable /\ (~ torn => SeedInv /\ MoveInv /\ EditInv)

(* Copies: a copy has the value that its secret has, or has as soon as the *)
(* running start has written it.                                           *)
Stays(k) == \A r \in Releases : k \in Ships[r]
StaysInv == \A k \in Keys : Stays(k) /\ Has(bundle, DirOf[k]) => bundle[k] # Absent
Current(c) == IF pc = "sync" /\ tree[c] # Absent THEN tree[c] ELSE bundle[c]
Agree(c, a) ==
  \A x \in {bundle[a]} \cup (IF pc = "sync" THEN {tree[a]} ELSE {}) :
    x # Absent => Current(c) = x
ResetAgrees(c, a) ==
  /\ bundle[c] # Absent => tree[c] = bundle[c]
  /\ DirOf[a] \in {Rag, Root} =>
       /\ bundle[c] # Absent
       /\ Seed[a] # Absent => tree[a] # Absent
       /\ tree[a] # Absent => tree[a] = bundle[c]
SetupAgrees(c, a) ==
  /\ Seed[a] # Absent => tree[a] # Absent
  /\ Absent \notin {tree[c], tree[a]} => tree[a] = tree[c]
AliasInv ==
  /\ settled => \A c \in Sources \ Skipped(IsExternal(bundle)) : \A a \in Aliases[c] :
       /\ a \notin drifted => Agree(c, a)
       /\ pc \in Writes => ResetAgrees(c, a)
  /\ pc \in Writes /\ cmd = "setup" =>
       \A c \in Sources \ Skipped(IsExternal(tree)) : \A a \in Aliases[c] : SetupAgrees(c, a)
-----------------------------------------------------------------------------
(* Values and environments.                                                *)
LEMMA Distinct ==
  /\ Absent # Marker /\ Absent # Shipped /\ Absent # Chosen /\ Absent # Replace
  /\ Absent # WithRag /\ Absent # External /\ Marker # Shipped /\ Marker # Chosen
  /\ Marker # Replace /\ Marker # WithRag /\ Marker # External /\ Shipped # Replace
  /\ Shipped # External /\ Replace # External /\ Chosen # External /\ Chosen # Shipped
  /\ Chosen # Replace /\ WithRag # External /\ WithRag # Replace /\ WithRag # Marker
  /\ WithRag # Shipped
BY DEF Absent, Marker, Shipped, Chosen, Replace, WithRag, External

LEMMA SecretDistinct ==
  ASSUME NEW k \in Keys, NEW n \in 1..MaxSecrets
  PROVE  /\ Secret(k, n) \in Values
         /\ Secret(k, n) \notin {Absent, Marker, Shipped, Chosen, Replace, WithRag, External}
<1>1. n \in Nat /\ n # 0
  BY SetupAssumption
<1>2. Secret(k, n) \in Keys \X Nat
  BY <1>1 DEF Secret
<1>3. Secret(k, n)[2] # 0
  BY <1>1 DEF Secret
<1>4. \A x \in {Absent, Marker, Shipped, Chosen, Replace, WithRag, External} : x[2] = 0
  BY DEF Absent, Marker, Shipped, Chosen, Replace, WithRag, External
<1> QED BY <1>2, <1>3, <1>4 DEF Values

LEMMA LeastNat ==
  ASSUME NEW T \in SUBSET Nat, T # {}
  PROVE  \E x \in T : \A y \in T : x <= y
<1>1. PICK x \in T : \A y \in T : <<y, x>> \notin OpToRel(<, Nat)
  BY WFMin, NatLessThanWellFounded
<1>2. \A y \in T : ~ (y < x)
  BY <1>1 DEF OpToRel
<1> QED BY <1>2

(* A value that is generated is a secret.                                  *)
LEMMA FreshSecret ==
  ASSUME Room, NEW k \in Generated
  PROVE  /\ Fresh(k, InUse) \in Values
         /\ Fresh(k, InUse) \notin {Absent, Marker, Shipped, Chosen, Replace, WithRag, External}
<1> DEFINE T == {n \in 1..MaxSecrets : Secret(k, n) \notin InUse}
           P(n) == /\ Secret(k, n) \notin InUse
                   /\ \A m \in 1..(n - 1) : Secret(k, m) \in InUse
<1>1. T # {}
  BY DEF Room
<1>2. T \in SUBSET Nat
  BY SetupAssumption
<1>3. PICK x \in T : \A y \in T : x <= y
  BY <1>1, <1>2, LeastNat
<1>4. P(x) /\ x \in 1..MaxSecrets
  <2>1. ASSUME NEW m \in 1..(x - 1) PROVE Secret(k, m) \in InUse
    <3>1. m \in 1..MaxSecrets /\ ~ (x <= m)
      BY <1>3, <1>2, SetupAssumption
    <3> QED BY <3>1, <1>3
  <2> QED BY <2>1, <1>3
<1> DEFINE c == CHOOSE n \in 1..MaxSecrets : P(n)
<1>5. c \in 1..MaxSecrets
  BY <1>4
<1>6. Fresh(k, InUse) = Secret(k, c)
  BY DEF Fresh
<1>7. k \in Keys
  BY SetupAssumption
<1> HIDE DEF c
<1> QED BY <1>5, <1>6, <1>7, SecretDistinct

LEMMA ExamplesType ==
  ASSUME NEW r \in Releases
  PROVE  /\ Examples[r] \in Envs
         /\ \A k \in Keys :
              /\ Examples[r][k] # Absent <=> k \in Ships[r]
              /\ Examples[r][k] = Marker <=> k \in Ships[r] /\ k \in Generated
              /\ Examples[r][k] \in {Absent, Marker, Shipped}
BY Distinct DEF Examples, Envs, Values

LEMMA SeedType ==
  ASSUME TypeOK
  PROVE  /\ Seed \in Envs
         /\ \A k \in Keys : /\ Seed[k] # Absent <=> k \in Ships[release]
                            /\ Seed[k] = Marker <=> k \in Ships[release] /\ k \in Generated
                            /\ Seed[k] \in {Absent, Marker, Shipped}
BY ExamplesType DEF TypeOK, Seed

LEMMA LoadedType == TypeOK => Loaded \in Envs
BY SeedType DEF Loaded, TypeOK, Envs

LEMMA WrittenType ==
  ASSUME TypeOK, NEW env \in Envs, NEW values \in Envs, NEW d
  PROVE  Written(env, d, values) \in Envs
BY SeedType DEF Written, Envs

(* The passes on whole environments, variable by variable.                 *)
LEMMA MigratedAt ==
  ASSUME TypeOK, NEW env \in Envs
  PROVE  /\ Migrated(env) \in Envs
         /\ \A k \in Keys :
              \/ k \in Old /\ Migrated(env)[k] = Absent
              \/ k \notin Old /\ Migrated(env)[k] = env[k]
              \/ k \notin Old /\ \E old \in DOMAIN Moves : /\ Moves[old] = k /\ old \in Keys
                                                        /\ Migrated(env)[k] = env[old]
<1> DEFINE Targets == {Moves[old] : old \in DOMAIN Moves}
<1>1. DOMAIN Moves \subseteq Keys /\ Targets \subseteq Keys
  BY SetupAssumption DEF Moves, TypeOK
<1>2. ASSUME NEW k \in Targets
      PROVE  \/ Moved(env)[k] = env[k]
             \/ \E old \in DOMAIN Moves : Moves[old] = k /\ Moved(env)[k] = env[old]
  BY DEF Moved
<1>3. DOMAIN Moved(env) = Targets
  BY DEF Moved
<1>4. ASSUME NEW k \in Keys
      PROVE  Migrated(env)[k] = IF k \in Old THEN Absent
                                ELSE IF k \in Targets THEN Moved(env)[k] ELSE env[k]
  BY <1>3 DEF Migrated, Over
<1>5. ASSUME NEW k \in Keys
      PROVE  /\ \/ k \in Old /\ Migrated(env)[k] = Absent
                \/ k \notin Old /\ Migrated(env)[k] = env[k]
                \/ k \notin Old /\ \E old \in DOMAIN Moves : /\ Moves[old] = k /\ old \in Keys
                                                          /\ Migrated(env)[k] = env[old]
             /\ Migrated(env)[k] \in Values
  <2>1. env \in [Keys -> Values] /\ Absent \in Values
    BY DEF Envs, Values
  <2> QED BY <1>1, <1>2, <1>4, <2>1
<1>6. Migrated(env) = [k \in Keys |-> Migrated(env)[k]]
  BY DEF Migrated, Over
<1> QED BY <1>5, <1>6 DEF Envs

FillsIn(k, env, seed, external, force) ==
  /\ k \in Generated \ Skipped(external) /\ seed[k] = Marker
  /\ force \/ ~ Firm(env[k])

LEMMA FilledAt ==
  ASSUME Room, NEW env \in Envs, NEW seed, NEW external \in BOOLEAN, NEW force \in BOOLEAN
  PROVE  /\ Filled(env, seed, external, force) \in Envs
         /\ \A k \in Keys :
              IF FillsIn(k, env, seed, external, force)
              THEN /\ Firm(Filled(env, seed, external, force)[k])
                   /\ Filled(env, seed, external, force)[k]
                        \notin {Shipped, Chosen, WithRag, External}
                   /\ Filled(env, seed, external, force)[k] = Replace => k \in Orphans(external)
              ELSE Filled(env, seed, external, force)[k] = env[k]
<1> DEFINE F == Filled(env, seed, external, force)
           S == {g \in Generated \ Skipped(external) :
                   seed[g] = Marker /\ (force \/ env[g] \in {Absent, Marker})}
<1>1. ASSUME NEW k \in Keys
      PROVE  F[k] = IF k \in S
                    THEN IF k \in Orphans(external) THEN Replace ELSE Fresh(k, InUse) ELSE env[k]
  BY DEF Filled, Over
<1>2. ASSUME NEW k \in S
      PROVE  /\ Fresh(k, InUse) \in Values
             /\ Fresh(k, InUse) \notin {Absent, Marker, Shipped, Chosen, Replace, WithRag, External}
  BY FreshSecret
<1>3. F = [k \in Keys |-> F[k]]
  BY DEF Filled, Over
<1>4. ASSUME NEW k \in Keys PROVE F[k] \in Values
  <2>1. env[k] \in Values /\ Replace \in Values
    BY DEF Envs, Values
  <2> QED BY <1>1, <1>2, <2>1
<1>5. ASSUME NEW k \in Keys
      PROVE  k \in S <=> FillsIn(k, env, seed, external, force)
  BY DEF Firm, FillsIn
<1> HIDE DEF F, S
<1>6. ASSUME NEW k \in Keys
      PROVE  /\ k \in S => /\ Firm(F[k]) /\ F[k] \notin {Shipped, Chosen, WithRag, External}
                           /\ F[k] = Replace => k \in Orphans(external)
             /\ k \notin S => F[k] = env[k]
  <2>1. k \notin S => F[k] = env[k]
    BY <1>1
  <2>2. ASSUME k \in S, k \in Orphans(external) PROVE F[k] = Replace
    BY <1>1, <2>2
  <2>3. ASSUME k \in S, k \notin Orphans(external) PROVE F[k] = Fresh(k, InUse)
    BY <1>1, <2>3
  <2>4. Replace \notin {Absent, Marker, Shipped, Chosen, WithRag, External}
    BY Distinct
  <2> QED BY <1>2, <2>1, <2>2, <2>3, <2>4 DEF Firm
<1>7. F \in Envs
  BY <1>3, <1>4 DEF Envs
<1>8. \A k \in Keys :
         IF FillsIn(k, env, seed, external, force)
         THEN /\ Firm(F[k]) /\ F[k] \notin {Shipped, Chosen, WithRag, External}
              /\ F[k] = Replace => k \in Orphans(external)
         ELSE F[k] = env[k]
  BY <1>5, <1>6 DEF FillsIn
<1> QED BY <1>7, <1>8 DEF F

LEMMA FannedAt ==
  ASSUME NEW env \in Envs, NEW external \in BOOLEAN
  PROVE  /\ FannedOut(env, external) \in Envs
         /\ \A k \in Keys :
              \/ /\ FannedOut(env, external)[k] = env[k]
                 /\ \A c \in Sources \ Skipped(external) :
                      k \in Aliases[c] => env[k] = Absent \/ env[c] = Absent
              \/ \E c \in Sources \ Skipped(external) :
                   /\ k \in Aliases[c] /\ c \in Keys /\ env[c] # Absent /\ env[k] # Absent
                   /\ FannedOut(env, external)[k] = env[c]
<1> DEFINE F == FannedOut(env, external)
           S == {k \in Keys : env[k] # Absent /\
                   \E c \in Sources \ Skipped(external) :
                     k \in Aliases[c] /\ env[c] # Absent}
           Source(k) == CHOOSE c \in Sources : k \in Aliases[c]
<1>1. ASSUME NEW k \in Keys PROVE F[k] = IF k \in S THEN env[Source(k)] ELSE env[k]
  BY DEF FannedOut, Over
<1>2. ASSUME NEW k \in S
      PROVE  /\ Source(k) \in Sources \ Skipped(external) /\ k \in Aliases[Source(k)]
             /\ env[Source(k)] # Absent /\ env[k] # Absent
  <2>1. PICK c \in Sources \ Skipped(external) : k \in Aliases[c] /\ env[c] # Absent
    OBVIOUS
  <2>2. Source(k) \in Sources /\ k \in Aliases[Source(k)]
    BY <2>1
  <2>3. Source(k) = c
    BY <2>1, <2>2, SetupAssumption
  <2> QED BY <2>1, <2>2, <2>3
<1>3. Sources \subseteq Keys
  BY SetupAssumption
<1>4. F = [k \in Keys |-> F[k]]
  BY DEF FannedOut, Over
<1> HIDE DEF F, Source
<1>5. ASSUME NEW k \in Keys
      PROVE  /\ \/ /\ F[k] = env[k]
                   /\ \A c \in Sources \ Skipped(external) :
                        k \in Aliases[c] => env[k] = Absent \/ env[c] = Absent
                \/ \E c \in Sources \ Skipped(external) :
                     /\ k \in Aliases[c] /\ c \in Keys /\ env[c] # Absent /\ env[k] # Absent
                     /\ F[k] = env[c]
             /\ F[k] \in Values
  <2>1. env \in [Keys -> Values]
    BY DEF Envs
  <2>2. CASE k \in S
    BY <1>1, <1>2, <1>3, <2>1, <2>2
  <2>3. CASE k \notin S
    BY <1>1, <2>1, <2>3
  <2> QED BY <2>2, <2>3
<1>6. F \in Envs
  BY <1>4, <1>5 DEF Envs
<1> QED BY <1>5, <1>6 DEF F

LEMMA GeneratedType ==
  ASSUME Room, NEW env \in Envs, NEW seed, NEW external \in BOOLEAN, NEW force \in BOOLEAN
  PROVE  GenerateMissing(env, seed, external, force) \in Envs
<1>1. Filled(env, seed, external, force) \in Envs
  BY FilledAt
<1> QED BY <1>1, FannedAt DEF GenerateMissing

(* What generate_missing_secrets leaves in a variable.                     *)
LEMMA GeneratedAt ==
  ASSUME Room, NEW env \in Envs, NEW seed, NEW external \in BOOLEAN, NEW force \in BOOLEAN,
         NEW k \in Keys
  PROVE  LET x == GenerateMissing(env, seed, external, force)[k]
         IN /\ x # Absent => env[k] # Absent \/ FillsIn(k, env, seed, external, force)
            /\ env[k] # Absent => x # Absent
            /\ FillsIn(k, env, seed, external, force) => x # Absent
            /\ (\A c \in Sources : k \notin Aliases[c]) =>
                 IF FillsIn(k, env, seed, external, force)
                 THEN Firm(x) /\ x \notin {Shipped, Chosen, Replace, WithRag, External}
                 ELSE x = env[k]
<1> DEFINE F == Filled(env, seed, external, force)
           x == GenerateMissing(env, seed, external, force)[k]
<1>1. F \in Envs
  BY FilledAt
<1>2. x = FannedOut(F, external)[k]
  BY DEF GenerateMissing
<1>4. IF FillsIn(k, env, seed, external, force)
      THEN /\ Firm(F[k]) /\ F[k] \notin {Shipped, Chosen, WithRag, External}
           /\ F[k] = Replace => k \in Orphans(external)
      ELSE F[k] = env[k]
  BY FilledAt
<1>5. \/ x = F[k]
      \/ /\ \E c \in Sources \ Skipped(external) :
              k \in Aliases[c] /\ F[c] # Absent /\ x = F[c]
         /\ F[k] # Absent
  BY <1>1, <1>2, FannedAt
<1>6. k \in Orphans(external) => \E c \in Sources : k \in Aliases[c]
  BY DEF Orphans
<1> HIDE DEF F, x
<1>7. /\ x # Absent => env[k] # Absent \/ FillsIn(k, env, seed, external, force)
      /\ env[k] # Absent => x # Absent
      /\ FillsIn(k, env, seed, external, force) => x # Absent
  BY <1>4, <1>5 DEF Firm, FillsIn
<1>9. (\A c \in Sources : k \notin Aliases[c]) =>
         IF FillsIn(k, env, seed, external, force)
         THEN Firm(x) /\ x \notin {Shipped, Chosen, Replace, WithRag, External}
         ELSE x = env[k]
  BY <1>4, <1>5, <1>6 DEF FillsIn
<1> QED BY <1>7, <1>9 DEF x

LEMMA ResolvedAt ==
  ASSUME NEW env \in Envs, NEW options \in Options
  PROVE  /\ Resolved(env, options) \in Envs
         /\ Resolved(env, options)[Provider] =
              IF BecomesExternal(options) THEN External ELSE Shipped
         /\ Resolved(env, options)[Profiles] \in {WithRag, Shipped, env[Profiles]}
         /\ \A k \in Keys \ {Provider, Profiles} : Resolved(env, options)[k] = env[k]
<1>1. {Provider, Profiles} \subseteq Keys /\ Provider # Profiles
  BY SetupAssumption
<1>2. {External, Shipped, WithRag} \subseteq Values /\ env \in [Keys -> Values]
  BY DEF Values, Envs
<1> QED BY <1>1, <1>2 DEF Resolved, Envs

(* What start adds.                                                        *)
LEMMA AdditionsAt ==
  ASSUME TypeOK, Room
  PROVE  /\ Additions \in Envs
         /\ \A k \in Keys : k \notin Missing => Additions[k] = Absent
         /\ \A k \in Keys : (k \in Missing /\ \A c \in Sources : k \notin Aliases[c]) =>
              Additions[k] = Seed[k] \/ k \in Generated
<1> DEFINE new == [k \in Keys |-> IF k \in Missing THEN Seed[k] ELSE Absent]
           shared == {c \in Sources \ Missing : Aliases[c] \cap Missing # {}}
           known == [k \in Keys |-> IF k \in shared THEN bundle[k] ELSE new[k]]
           filled == GenerateMissing(known, new, bundle[Provider] = External, FALSE)
<1>1. Additions = [k \in Keys |-> IF k \in Missing THEN filled[k] ELSE Absent]
  BY DEF Additions
<1>2. new \in Envs /\ known \in Envs
  BY SeedType DEF Envs, TypeOK, Values
<1>ext. (bundle[Provider] = External) \in BOOLEAN /\ FALSE \in BOOLEAN
  OBVIOUS
<1> HIDE DEF new, known
<1>3. filled \in Envs
  BY <1>2, <1>ext, GeneratedType
<1>4. ASSUME NEW k \in Keys, k \in Missing, \A c \in Sources : k \notin Aliases[c]
      PROVE  filled[k] = Seed[k] \/ k \in Generated
  <2>1. k \in Generated \/ filled[k] = known[k]
    <3>1. IF FillsIn(k, known, new, bundle[Provider] = External, FALSE)
          THEN Firm(filled[k]) /\ filled[k] \notin {Shipped, Chosen, Replace, WithRag, External}
          ELSE filled[k] = known[k]
      BY <1>2, <1>4, <1>ext, GeneratedAt
    <3> QED BY <3>1 DEF FillsIn
  <2>2. known[k] = new[k] /\ new[k] = Seed[k]
    BY <1>4 DEF known, new
  <2> QED BY <2>1, <2>2
<1>5. Additions = [k \in Keys |-> IF k \in Missing THEN filled[k] ELSE Absent]
  BY <1>1 DEF filled, known, new
<1> HIDE DEF filled
<1> QED BY <1>3, <1>4, <1>5 DEF Envs, Values

LEMMA ShippedKeys == ASSUME NEW r \in Releases PROVE Ships[r] \subseteq Keys
BY SetupAssumption DEF Releases

LEMMA NoEnvType == NoEnv \in Envs /\ \A k \in Keys : NoEnv[k] = Absent
BY DEF NoEnv, Envs, Values

LEMMA InitBase == Init => Base
<1> SUFFICES ASSUME Init PROVE Base
  OBVIOUS
<1>1. TypeOK
  <2>1. Len(Ships) \in Nat /\ 1 \in Releases
    BY SetupAssumption DEF Releases
  <2> QED BY <2>1, NoEnvType, SetupAssumption DEF Init, TypeOK, Values, Writes
<1> QED BY <1>1, NoEnvType DEF Base, Init, Control, Present, Visited, Writes

-----------------------------------------------------------------------------
(* Every variable keeps its type.                                          *)
LEMMA TypeStep ==
  ASSUME TypeOK, [Next]_vars
  PROVE  TypeOK'
<1> USE DEF TypeOK
<1>1. CASE BeginSetup
  BY <1>1 DEF BeginSetup, files, stack, history
<1>2. CASE SeedDirectory
  <2>1. PICK i \in Unseeded : bundle' = Written(bundle, Order[i], Seed)
    BY <1>2 DEF SeedDirectory
  <2>2. bundle' \in Envs
    BY <2>1, SeedType, WrittenType
  <2> QED BY <1>2, <2>2 DEF SeedDirectory, stack, history, process
<1>3. CASE SeedManifest
  BY <1>3 DEF SeedManifest, stack, history
<1>4. CASE Refuse
  BY <1>4, NoEnvType DEF Refuse, End, files, stack, history
<1>5. ASSUME NEW options \in Options, Resolve(options) PROVE TypeOK'
  <2>1. options.force \in BOOLEAN /\ BecomesExternal(options) \in BOOLEAN
    BY SetupAssumption DEF BecomesExternal
  <2> DEFINE filled == GenerateMissing(Migrated(Loaded), Seed, BecomesExternal(options), options.force)
  <2>2. filled \in Envs
    <3>1. Migrated(Loaded) \in Envs /\ Room
      BY <1>5, LoadedType, MigratedAt DEF Resolve
    <3> QED BY <2>1, <3>1, GeneratedType
  <2>3. tree' = Resolved(filled, options)
    BY <1>5 DEF Resolve
  <2> HIDE DEF filled
  <2>4. tree' \in Envs
    BY <2>2, <2>3, ResolvedAt
  <2>5. edited' \subseteq Keys /\ todo' \subseteq Places
    BY <1>5 DEF Resolve, Places
  <2> QED BY <1>5, <2>1, <2>4, <2>5 DEF Resolve, files, stack, Writes
<1>6. CASE WriteBundle
  <2>1. PICK i \in todo : bundle' = Written(bundle, Order[i], tree)
    BY <1>6 DEF WriteBundle
  <2>2. bundle' \in Envs
    BY <2>1, WrittenType
  <2> QED BY <1>6, <2>2 DEF WriteBundle, stack, history, Writes
<1>7. CASE WriteCopy
  <2>1. PICK i \in todo : copy' = Written(copy, Order[i], tree) /\ todo' = todo \ {i}
    BY <1>7 DEF WriteCopy
  <2>2. copy' \in Envs
    BY <2>1, WrittenType
  <2> QED BY <1>7, <2>1, <2>2 DEF WriteCopy, stack, history, Writes
<1>8. CASE Persisted
  BY <1>8, NoEnvType DEF Persisted, End, files, stack
<1>9. CASE BeginStart
  BY <1>9, AdditionsAt DEF BeginStart, files, stack, history
<1>10. CASE SyncDirectory
  BY <1>10 DEF SyncDirectory, stack, history, Envs, Values
<1>11. CASE Synced
  BY <1>11 DEF Synced, files, stack, history, Places
<1>12. CASE CopyDirectory
  BY <1>12 DEF CopyDirectory, stack, history, Envs
<1>13. ASSUME NEW up \in SUBSET Volumes, ComposeUp(up) PROVE TypeOK'
  <2>1. \A v \in Volumes : KeptBy[release][v] \in Keys
    BY SetupAssumption
  <2>2. data' \in [Volumes -> Values]
    BY <1>13, <2>1 DEF ComposeUp, Envs
  <2>3. held' \subseteq Volumes /\ tree' \in Envs
    BY <1>13, NoEnvType DEF ComposeUp, End
  <2> QED BY <1>13, <2>2, <2>3 DEF ComposeUp, End, files
<1>14. ASSUME NEW down \in SUBSET Volumes, ComposeDown(down) PROVE TypeOK'
  BY <1>14 DEF ComposeDown, files, process, history
<1>15. ASSUME NEW config \in BOOLEAN, Purge(config) PROVE TypeOK'
  <2>1. data' \in [Volumes -> Values]
    BY <1>15 DEF Purge, Values
  <2>2. pc' \in {"reset", "idle"} /\ cmd' \in {"reset", "none"}
    BY <1>15 DEF Purge
  <2>3. pc' = "reset" => Room'
    <3> SUFFICES ASSUME pc' = "reset", NEW k \in Generated
                 PROVE  \E n \in 1..MaxSecrets : Secret(k, n) \notin InUse'
      BY DEF Room
    <3>1. Room /\ k \in Keys
      BY <1>15, SetupAssumption DEF Purge
    <3>2. PICK n \in 1..MaxSecrets : Secret(k, n) \notin InUse
      BY <3>1 DEF Room
    <3>3. Secret(k, n) # Absent
      BY <3>1, SecretDistinct
    <3>4. InUse' \subseteq InUse \cup {Absent}
      BY <1>15 DEF Purge, InUse, files
    <3> QED BY <3>2, <3>3, <3>4
  <2> QED BY <1>15, <2>1, <2>2, <2>3 DEF Purge, files, history
<1>16. CASE Reset
  <2> DEFINE env == [k \in Keys |-> IF DirOf[k] = Rag THEN Seed[k] ELSE Loaded[k]]
  <2>1. env \in Envs
    BY SeedType, LoadedType DEF Envs
  <2>2. (Loaded[Provider] = External) \in BOOLEAN
    OBVIOUS
  <2>3. tree' = GenerateMissing(env, Seed, Loaded[Provider] = External, FALSE)
    BY <1>16 DEF Reset
  <2>4. tree' \in Envs
    <3>1. Room
      BY <1>16 DEF Reset
    <3> HIDE DEF env
    <3> QED BY <2>1, <2>2, <2>3, <3>1, GeneratedType
  <2>5. edited' \subseteq Keys /\ todo' \subseteq Places
    BY <1>16 DEF Reset, Places
  <2>6. torn' \in BOOLEAN
    BY <1>16 DEF Reset
  <2> QED BY <1>16, <2>4, <2>5, <2>6 DEF Reset, files, stack, Writes
<1>17. ASSUME NEW k \in Editable, Edit(k) PROVE TypeOK'
  <2>1. k \in Keys /\ Chosen \in Values
    BY SetupAssumption DEF Values
  <2> QED BY <1>17, <2>1 DEF Edit, stack, process, Envs
<1>18. CASE Checkout
  BY <1>18, SetupAssumption DEF Checkout, files, stack, process, history, Releases
<1>19. CASE Kill
  <2>1. drifted' \subseteq Keys
    BY <1>19, SetupAssumption DEF Kill
  <2> QED BY <1>19, <2>1, NoEnvType DEF Kill, End, files, stack
<1>20. CASE UNCHANGED vars
  BY <1>20 DEF vars, files, stack, process, history, Room, InUse
<1> QED
  BY <1>1, <1>2, <1>3, <1>4, <1>5, <1>6, <1>7, <1>8, <1>9, <1>10, <1>11, <1>12, <1>13,
     <1>14, <1>15, <1>16, <1>17, <1>18, <1>19, <1>20 DEF Next

(* Every variable has its type.                                            *)
THEOREM TypeCorrect == Spec => []TypeOK
<1>1. Init => TypeOK
  BY InitBase DEF Base
<1>2. TypeOK /\ [Next]_vars => TypeOK'
  BY TypeStep
<1> QED BY <1>1, <1>2, PTL DEF Spec

-----------------------------------------------------------------------------
(* Directories and what is in them.                                        *)
LEMMA SeedStays == release' = release => Seed' = Seed /\ SoFar' = SoFar
BY DEF Seed, SoFar

LEMMA ShippedSoFar ==
  ASSUME TypeOK
  PROVE  /\ Ships[release] \subseteq SoFar
         /\ \A old \in DOMAIN Moves : Moves[old] \in SoFar
         /\ \A k \in Keys : Seed[k] # Absent => k \in SoFar
<1>1. release \in 1..release
  BY SetupAssumption DEF TypeOK, Releases
<1>2. Known(release) \subseteq SoFar
  BY <1>1 DEF SoFar
<1>3. Ships[release] \subseteq SoFar /\ \A old \in DOMAIN Moves : Moves[old] \in SoFar
  BY <1>2 DEF Known, Moves
<1> QED BY <1>3, SeedType

LEMMA RootAndRagShipped ==
  ASSUME TypeOK
  PROVE  /\ Has(Seed, Root) /\ Has(Seed, Rag)
         /\ Provider \in Keys /\ Profiles \in Keys /\ Seed[Provider] = Shipped
<1>1. release \in Releases /\ Ships[release] \subseteq Keys
  BY ShippedKeys DEF TypeOK
<1>2. PICK k \in Ships[release] : DirOf[k] = Rag
  BY <1>1, SetupAssumption
<1>3. Provider \in Ships[release] /\ DirOf[Provider] = Root /\ Provider \notin Generated
      /\ Profiles \in Keys
  BY <1>1, SetupAssumption
<1>4. Seed[k] # Absent /\ Seed[Provider] # Absent /\ Seed[Provider] # Marker
  BY <1>1, <1>2, <1>3, SeedType
<1>5. Seed[Provider] = Shipped
  BY <1>1, <1>3, <1>4, SeedType
<1> QED BY <1>1, <1>2, <1>3, <1>4, <1>5 DEF Has

(* Writing a directory that the release has leaves every directory there.  *)
LEMMA HasWritten ==
  ASSUME TypeOK, NEW env \in Envs, NEW values \in Envs, NEW d, Has(Seed, d), NEW e
  PROVE  /\ Has(env, e) => Has(Written(env, d, values), e)
         /\ Has(Written(env, d, values), d)
<1>1. \A k \in Keys : DirOf[k] # d => Written(env, d, values)[k] = env[k]
  BY DEF Written
<1>2. \A k \in Keys : DirOf[k] = d =>
         Written(env, d, values)[k] = IF values[k] = Absent THEN Seed[k] ELSE values[k]
  BY DEF Written
<1>3. Has(Written(env, d, values), d)
  BY <1>2 DEF Has
<1>4. e # d => (Has(env, e) => Has(Written(env, d, values), e))
  BY <1>1 DEF Has
<1> QED BY <1>3, <1>4

LEMMA OneIsNext ==
  ASSUME TypeOK, NEW i, NEW j, IsNext(i), IsNext(j)
  PROVE  i = j /\ i \in Places
<1>1. i \in Nat /\ j \in Nat /\ i \in Places
  BY SetupAssumption DEF IsNext, TypeOK, Places
<1> QED BY <1>1 DEF IsNext

LEMMA OnePlace ==
  ASSUME NEW i \in Places, NEW j \in Places, i # j
  PROVE  Order[i] # Order[j]
BY SetupAssumption DEF Places

-----------------------------------------------------------------------------
LEMMA ControlStep ==
  ASSUME TypeOK, Control, [Next]_vars
  PROVE  Control'
<1> USE DEF Control
<1>1. CASE BeginSetup
  BY <1>1 DEF BeginSetup, Writes
<1>2. CASE SeedDirectory
  BY <1>2, SeedStays DEF SeedDirectory, process, history, Writes
<1>3. CASE SeedManifest
  BY <1>3 DEF SeedManifest, Writes
<1>4. CASE Refuse
  BY <1>4 DEF Refuse, End, Writes
<1>5. ASSUME NEW options \in Options, Resolve(options) PROVE Control'
  BY <1>5, SeedStays DEF Resolve, Writes
<1>6. CASE WriteBundle
  BY <1>6, SeedStays DEF WriteBundle, history, Writes
<1>7. CASE WriteCopy
  BY <1>7, SeedStays DEF WriteCopy, history, Writes
<1>8. CASE Persisted
  BY <1>8 DEF Persisted, End, Writes
<1>9. CASE BeginStart
  BY <1>9 DEF BeginStart, Writes
<1>10. CASE SyncDirectory
  BY <1>10 DEF SyncDirectory, Writes
<1>11. CASE Synced
  BY <1>11 DEF Synced, Writes
<1>12. CASE CopyDirectory
  BY <1>12 DEF CopyDirectory, Writes
<1>13. ASSUME NEW up \in SUBSET Volumes, ComposeUp(up) PROVE Control'
  BY <1>13 DEF ComposeUp, End, Writes
<1>14. ASSUME NEW down \in SUBSET Volumes, ComposeDown(down) PROVE Control'
  BY <1>14 DEF ComposeDown, process, Writes
<1>15. ASSUME NEW config \in BOOLEAN, Purge(config) PROVE Control'
  BY <1>15 DEF Purge, Writes
<1>16. CASE Reset
  <2>1. Seed' = Seed /\ pc' = "write" /\ cmd' = "reset" /\ cmd = "reset"
    BY <1>16, SeedStays DEF Reset
  <2>2. \A i \in todo' : Order[i] \in {Rag, Root}
    BY <1>16 DEF Reset
  <2> QED BY <2>1, <2>2, RootAndRagShipped DEF Writes
<1>17. ASSUME NEW k \in Editable, Edit(k) PROVE Control'
  BY <1>17 DEF Edit, process, Writes
<1>18. CASE Checkout
  BY <1>18 DEF Checkout, process, Writes
<1>19. CASE Kill
  BY <1>19 DEF Kill, End, Writes
<1>20. CASE UNCHANGED vars
  BY <1>20, SeedStays DEF vars, process, history, Writes
<1> QED
  BY <1>1, <1>2, <1>3, <1>4, <1>5, <1>6, <1>7, <1>8, <1>9, <1>10, <1>11, <1>12, <1>13,
     <1>14, <1>15, <1>16, <1>17, <1>18, <1>19, <1>20 DEF Next

(* Where the passes of setup get a variable from.                          *)
LEMMA PassesSoFar ==
  ASSUME TypeOK, Present, Room, NEW options \in Options, NEW k \in Keys,
         Resolved(GenerateMissing(Migrated(Loaded), Seed, BecomesExternal(options),
                                  options.force), options)[k] # Absent
  PROVE  k \in SoFar
<1> DEFINE env == Migrated(Loaded)
           G == GenerateMissing(env, Seed, BecomesExternal(options), options.force)
<1>1. options.force \in BOOLEAN /\ BecomesExternal(options) \in BOOLEAN
  BY SetupAssumption DEF BecomesExternal
<1>2. Loaded \in Envs /\ env \in Envs
  BY LoadedType, MigratedAt
<1>3. G \in Envs
  BY <1>1, <1>2, GeneratedType
<1>4. ASSUME NEW l \in Keys, Loaded[l] # Absent PROVE l \in SoFar
  BY <1>4, ShippedSoFar DEF Loaded, Present
<1>5. ASSUME NEW l \in Keys, env[l] # Absent PROVE l \in SoFar
  <2>1. Loaded[l] # Absent \/ \E old \in DOMAIN Moves : Moves[old] = l
    BY <1>2, <1>5, MigratedAt
  <2> QED BY <1>4, <2>1, ShippedSoFar
<1> HIDE DEF env
<1>6. ASSUME NEW l \in Keys, G[l] # Absent PROVE l \in SoFar
  <2>1. env[l] # Absent \/ FillsIn(l, env, Seed, BecomesExternal(options), options.force)
    BY <1>1, <1>2, <1>6, GeneratedAt
  <2>2. CASE env[l] # Absent
    BY <1>5, <2>2
  <2>3. CASE FillsIn(l, env, Seed, BecomesExternal(options), options.force)
    BY <2>3, ShippedSoFar, Distinct DEF FillsIn
  <2> QED BY <2>1, <2>2, <2>3
<1> HIDE DEF G
<1>7. k \in {Provider, Profiles} => k \in SoFar
  BY ShippedSoFar, SetupAssumption DEF TypeOK
<1>8. k \notin {Provider, Profiles} => Resolved(G, options)[k] = G[k]
  BY <1>3, ResolvedAt
<1> QED BY <1>6, <1>7, <1>8 DEF G, env

LEMMA PresentStep ==
  ASSUME TypeOK, Control, Present, Visited, [Next]_vars
  PROVE  Present'
<1> DEFINE P == \A k \in Keys : bundle[k] # Absent => k \in SoFar
           Q == \A k \in Keys : copy[k] # Absent => k \in SoFar
           R == \A k \in Keys : tree[k] # Absent => k \in SoFar
           S == \A k \in Keys : copy[k] # Absent => Has(bundle, DirOf[k])
<1>0. P /\ Q /\ R /\ S
  BY DEF Present
<1>a. P' /\ Q' /\ R' /\ S' => Present'
  BY DEF Present
<1>b. release' = release => SoFar' = SoFar
  BY SeedStays
<1>c. ASSUME release' = release, tree' = NoEnv, UNCHANGED files PROVE Present'
  BY <1>0, <1>a, <1>b, <1>c, NoEnvType DEF files
<1>1. CASE BeginSetup
  BY <1>0, <1>a, <1>b, <1>1 DEF BeginSetup, files
<1>2. CASE SeedDirectory
  <2>1. PICK i \in Unseeded : bundle' = Written(bundle, Order[i], Seed)
    BY <1>2 DEF SeedDirectory
  <2>2. Has(Seed, Order[i])
    BY DEF Unseeded
  <2>3. \A d : Has(bundle, d) => Has(bundle', d)
    BY <2>1, <2>2, SeedType, HasWritten DEF TypeOK
  <2>4. P'
    BY <1>0, <1>2, <1>b, <2>1, ShippedSoFar DEF SeedDirectory, Written
  <2> QED BY <1>0, <1>2, <1>a, <1>b, <2>3, <2>4 DEF SeedDirectory, process
<1>3. CASE SeedManifest
  BY <1>0, <1>a, <1>b, <1>3 DEF SeedManifest
<1>4. CASE Refuse
  BY <1>4, <1>c DEF Refuse, End
<1>5. ASSUME NEW options \in Options, Resolve(options) PROVE Present'
  <2>1. R'
    BY <1>5, <1>b, PassesSoFar DEF Resolve
  <2> QED BY <1>0, <1>5, <1>a, <1>b, <2>1 DEF Resolve, files
<1>6. CASE WriteBundle
  <2>1. PICK i \in todo : IsNext(i) /\ bundle' = Written(bundle, Order[i], tree)
    BY <1>6 DEF WriteBundle
  <2>2. Has(Seed, Order[i])
    BY <1>6 DEF WriteBundle, Control, Writes
  <2>3. \A d : Has(bundle, d) => Has(bundle', d)
    BY <2>1, <2>2, HasWritten DEF TypeOK
  <2>4. P'
    BY <1>0, <1>6, <1>b, <2>1, ShippedSoFar DEF WriteBundle, Written
  <2> QED BY <1>0, <1>6, <1>a, <1>b, <2>3, <2>4 DEF WriteBundle
<1>7. CASE WriteCopy
  <2>1. PICK i \in todo : IsNext(i) /\ copy' = Written(copy, Order[i], tree)
    BY <1>7 DEF WriteCopy
  <2>2. IsWritten(i)
    BY <1>7, <2>1, OneIsNext, ZenonT(30) DEF WriteCopy, Visited
  <2>3. ASSUME NEW k \in Keys PROVE copy'[k] = copy[k] \/ copy'[k] = bundle[k]
    BY <2>1, <2>2 DEF Written, IsWritten
  <2>4. \A k \in Keys : bundle[k] # Absent => Has(bundle, DirOf[k])
    BY DEF Has
  <2>5. Q' /\ S'
    BY <1>0, <1>7, <1>b, <2>3, <2>4 DEF WriteCopy
  <2> QED BY <1>0, <1>7, <1>a, <1>b, <2>5 DEF WriteCopy
<1>8. CASE Persisted
  BY <1>8, <1>c DEF Persisted, End
<1>9. CASE BeginStart
  <2>1. Room
    BY <1>9 DEF BeginStart
  <2>2. \A k \in Keys : Additions[k] # Absent => k \in Missing
    BY <2>1, AdditionsAt
  <2>3. R'
    BY <1>9, <1>b, <2>2, ShippedSoFar DEF BeginStart, Missing
  <2> QED BY <1>0, <1>9, <1>a, <1>b, <2>3 DEF BeginStart, files
<1>10. CASE SyncDirectory
  <2>1. PICK i \in Unsynced :
          /\ bundle' = [k \in Keys |-> IF DirOf[k] = Order[i] /\ tree[k] # Absent THEN tree[k]
                                       ELSE bundle[k]]
          /\ tree' = [k \in Keys |-> IF DirOf[k] = Order[i] THEN Absent ELSE tree[k]]
    BY <1>10 DEF SyncDirectory
  <2>2. \A k \in Keys : bundle[k] # Absent => bundle'[k] # Absent
    BY <2>1
  <2>3. \A d : Has(bundle, d) => Has(bundle', d)
    BY <2>2 DEF Has
  <2>4. P' /\ R'
    BY <1>0, <1>10, <1>b, <2>1 DEF SyncDirectory
  <2> QED BY <1>0, <1>10, <1>a, <1>b, <2>3, <2>4 DEF SyncDirectory
<1>11. CASE Synced
  BY <1>0, <1>a, <1>b, <1>11 DEF Synced, files
<1>12. CASE CopyDirectory
  <2>1. PICK i \in todo :
          copy' = [k \in Keys |-> IF DirOf[k] = Order[i] THEN bundle[k] ELSE copy[k]]
    BY <1>12 DEF CopyDirectory
  <2>2. \A k \in Keys : bundle[k] # Absent => Has(bundle, DirOf[k])
    BY DEF Has
  <2>3. Q' /\ S'
    BY <1>0, <1>12, <1>b, <2>1, <2>2 DEF CopyDirectory
  <2> QED BY <1>0, <1>12, <1>a, <1>b, <2>3 DEF CopyDirectory
<1>13. ASSUME NEW up \in SUBSET Volumes, ComposeUp(up) PROVE Present'
  BY <1>13, <1>c DEF ComposeUp, End
<1>14. ASSUME NEW down \in SUBSET Volumes, ComposeDown(down) PROVE Present'
  BY <1>0, <1>a, <1>b, <1>14 DEF ComposeDown, files, process
<1>15. ASSUME NEW config \in BOOLEAN, Purge(config) PROVE Present'
  BY <1>0, <1>a, <1>b, <1>15 DEF Purge, files
<1>16. CASE Reset
  <2> DEFINE env == [k \in Keys |-> IF DirOf[k] = Rag THEN Seed[k] ELSE Loaded[k]]
             external == Loaded[Provider] = External
  <2>1. env \in Envs /\ external \in BOOLEAN /\ FALSE \in BOOLEAN /\ Room
    BY <1>16, SeedType, LoadedType DEF Envs, Reset, TypeOK
  <2>2. tree' = GenerateMissing(env, Seed, external, FALSE)
    BY <1>16 DEF Reset
  <2>3. ASSUME NEW k \in Keys, env[k] # Absent PROVE k \in SoFar
    BY <1>0, <2>3, ShippedSoFar DEF Loaded
  <2> HIDE DEF env, external
  <2>4. ASSUME NEW k \in Keys, tree'[k] # Absent PROVE k \in SoFar
    <3>1. env[k] # Absent \/ FillsIn(k, env, Seed, external, FALSE)
      BY <2>1, <2>2, <2>4, GeneratedAt
    <3>2. CASE FillsIn(k, env, Seed, external, FALSE)
      BY <3>2, ShippedSoFar, Distinct DEF FillsIn
    <3> QED BY <2>3, <3>1, <3>2
  <2>5. R'
    BY <1>16, <1>b, <2>4 DEF Reset
  <2> QED BY <1>0, <1>16, <1>a, <1>b, <2>5 DEF Reset, files
<1>17. ASSUME NEW k \in Editable, Edit(k) PROVE Present'
  <2>1. \A l \in Keys : bundle'[l] # Absent <=> bundle[l] # Absent
    BY <1>17, Distinct DEF Edit, TypeOK, Envs
  <2>2. \A d : Has(bundle, d) => Has(bundle', d)
    BY <2>1 DEF Has
  <2> QED BY <1>0, <1>17, <1>a, <1>b, <2>1, <2>2 DEF Edit, process
<1>18. CASE Checkout
  <2>1. SoFar \subseteq SoFar'
    BY <1>18, SetupAssumption DEF Checkout, SoFar, TypeOK, Releases
  <2> QED BY <1>0, <1>18, <1>a, <2>1 DEF Checkout, files, process
<1>19. CASE Kill
  BY <1>19, <1>c DEF Kill, End
<1>20. CASE UNCHANGED vars
  BY <1>0, <1>a, <1>b, <1>20 DEF vars, files, process
<1> QED
  BY <1>1, <1>2, <1>3, <1>4, <1>5, <1>6, <1>7, <1>8, <1>9, <1>10, <1>11, <1>12, <1>13,
     <1>14, <1>15, <1>16, <1>17, <1>18, <1>19, <1>20 DEF Next

LEMMA VisitedStep ==
  ASSUME TypeOK, Control, Visited, [Next]_vars
  PROVE  Visited'
<1>0. ASSUME pc' \notin Writes \cup {"copy"} PROVE Visited'
  BY <1>0 DEF Visited, Writes
<1>5. ASSUME NEW options \in Options, Resolve(options) PROVE Visited'
  <2>1. Seed' = Seed
    BY <1>5, SeedStays DEF Resolve
  <2> QED BY <1>5, <2>1 DEF Resolve, Visited, Writes, Places
<1>6. CASE WriteBundle
  <2>1. PICK i \in todo : IsNext(i) /\ bundle' = Written(bundle, Order[i], tree)
    BY <1>6 DEF WriteBundle
  <2>2. Seed' = Seed /\ pc' = "write copy" /\ UNCHANGED <<tree, todo, cmd>>
    BY <1>6, SeedStays DEF WriteBundle
  <2>3. IsWritten(i)' /\ IsNext(i)'
    BY <2>1, <2>2 DEF IsWritten, IsNext, Written
  <2>4. ASSUME NEW j \in Places \ todo, IsWritten(j) PROVE IsWritten(j)'
    <3>1. Order[i] # Order[j]
      BY <2>4, OnePlace DEF TypeOK
    <3> QED BY <2>1, <2>2, <2>4, <3>1 DEF IsWritten, Written
  <2>5. cmd' = "setup" => \A j \in Places \ todo' : Has(Seed', Order[j]) => IsWritten(j)'
    BY <1>6, <2>2, <2>4 DEF WriteBundle, Visited, Writes
  <2> QED BY <2>2, <2>3, <2>5 DEF Visited
<1>7. CASE WriteCopy
  <2>1. PICK i \in todo : IsNext(i) /\ todo' = todo \ {i}
    BY <1>7 DEF WriteCopy
  <2>2. Seed' = Seed /\ pc' = "write" /\ UNCHANGED <<tree, bundle, cmd>>
    BY <1>7, SeedStays DEF WriteCopy
  <2>3. IsWritten(i)
    <3>1. PICK j \in todo : IsNext(j) /\ IsWritten(j)
      BY <1>7 DEF WriteCopy, Visited
    <3>2. i = j
      BY <2>1, <3>1, OneIsNext
    <3> QED BY <3>1, <3>2
  <2>4. cmd' = "setup" => \A j \in Places \ todo' : Has(Seed', Order[j]) => IsWritten(j)
    BY <1>7, <2>1, <2>2, <2>3 DEF WriteCopy, Visited, Writes
  <2>5. \A j : (IsWritten(j)' <=> IsWritten(j))
    BY <2>2 DEF IsWritten
  <2> QED BY <2>2, <2>4, <2>5 DEF Visited
<1>11. CASE Synced
  <2>1. Seed' = Seed /\ bundle' = bundle /\ pc' = "copy"
        /\ todo' = {i \in Places : Has(Seed, Order[i]) /\ Has(bundle, Order[i])}
    BY <1>11, SeedStays DEF Synced, files, Places
  <2> QED BY <2>1 DEF Visited, Writes
<1>12. CASE CopyDirectory
  <2>1. PICK i \in todo :
          /\ copy' = [k \in Keys |-> IF DirOf[k] = Order[i] THEN bundle[k] ELSE copy[k]]
          /\ todo' = todo \ {i}
    BY <1>12 DEF CopyDirectory
  <2>2. Seed' = Seed /\ bundle' = bundle /\ pc' = "copy" /\ pc = "copy"
    BY <1>12, SeedStays DEF CopyDirectory
  <2>3. ASSUME NEW j \in Places \ todo', Has(Seed, Order[j]), Has(bundle, Order[j])
        PROVE  IsCopied(j)'
    <3>1. j = i \/ (j \notin todo /\ Order[j] # Order[i])
      BY <2>1, <2>3, OnePlace DEF TypeOK
    <3>2. j # i => IsCopied(j)
      BY <2>2, <2>3, <3>1 DEF Visited
    <3> QED BY <2>1, <2>2, <3>1, <3>2 DEF IsCopied
  <2> QED BY <2>2, <2>3 DEF Visited, Writes
<1>16. CASE Reset
  BY <1>16 DEF Reset, Control, Visited, Writes
<1>20. CASE UNCHANGED vars
  <2>1. Seed' = Seed /\ UNCHANGED <<bundle, copy, tree, todo, pc, cmd>>
    BY <1>20, SeedStays DEF vars, files, process
  <2>2. \A i : /\ (IsWritten(i)' <=> IsWritten(i))
              /\ (IsCopied(i)' <=> IsCopied(i))
              /\ (IsNext(i)' <=> IsNext(i))
    BY <2>1 DEF IsWritten, IsCopied, IsNext
  <2> QED BY <2>1, <2>2 DEF Visited
<1>21. CASE \/ BeginSetup \/ SeedDirectory \/ SeedManifest \/ Refuse \/ Persisted
            \/ BeginStart \/ SyncDirectory
            \/ (\E up \in SUBSET Volumes : ComposeUp(up))
            \/ (\E down \in SUBSET Volumes : ComposeDown(down))
            \/ (\E config \in BOOLEAN : Purge(config))
            \/ (\E k \in Editable : Edit(k)) \/ Checkout \/ Kill
  <2>1. pc' \notin Writes \cup {"copy"}
    BY <1>21 DEF BeginSetup, SeedDirectory, SeedManifest, Refuse, Persisted, BeginStart,
                 SyncDirectory, ComposeUp, ComposeDown, Purge, Edit, Checkout, Kill, End,
                 process, Writes
  <2> QED BY <1>0, <2>1
<1> QED
  BY <1>5, <1>6, <1>7, <1>11, <1>12, <1>16, <1>20, <1>21 DEF Next

LEMMA BaseStep == Base /\ [Next]_vars => Base'
BY TypeStep, ControlStep, PresentStep, VisitedStep DEF Base

(* Base is an invariant on its own.                                        *)
LEMMA BaseCorrect == Spec => []Base
<1>1. Init => Base
  BY InitBase
<1>2. Base /\ [Next]_vars => Base'
  BY BaseStep
<1> QED BY <1>1, <1>2, PTL DEF Spec

-----------------------------------------------------------------------------
(* The identity provider.                                                  *)
LEMMA ProviderPlain ==
  /\ Provider \in Keys /\ Provider \notin Generated /\ DirOf[Provider] = Root
  /\ Root # Rag /\ Root # Keycloak /\ \A c \in Sources : Provider \notin Aliases[c]
  /\ \E i \in Places : Order[i] = Root
<1>1. 1 \in Places /\ Order[1] = Root
  BY SetupAssumption DEF Places, Dirs
<1> QED BY <1>1, SetupAssumption

LEMMA PlaceOf == ASSUME NEW k \in Keys PROVE \E i \in Places : Order[i] = DirOf[k]
<1>1. DirOf[k] \in Dirs
  BY SetupAssumption
<1> QED BY <1>1 DEF Dirs, Places

(* Whether the bundle has an external provider after a directory of a      *)
(* command's tree has been written.                                        *)
LEMMA ProviderWritten ==
  ASSUME TypeOK, NEW d, NEW env \in Envs, NEW values \in Envs
  PROVE  Written(env, d, values)[Provider] =
           IF d # Root THEN env[Provider]
           ELSE IF values[Provider] = Absent THEN Shipped ELSE values[Provider]
BY ProviderPlain, RootAndRagShipped DEF Written

LEMMA ProviderStep ==
  ASSUME Base, OneProvider, [Next]_vars
  PROVE  OneProvider'
<1> USE DEF OneProvider, Base, IsExternal
<1>0. ASSUME pc' \notin Writes \cup {"sync"} PROVE OneProvider'
  BY <1>0
<1>5. ASSUME NEW options \in Options, Resolve(options) PROVE OneProvider'
  <2> DEFINE filled == GenerateMissing(Migrated(Loaded), Seed, BecomesExternal(options), options.force)
  <2>1. filled \in Envs
    <3>1. options.force \in BOOLEAN /\ BecomesExternal(options) \in BOOLEAN
      BY SetupAssumption DEF BecomesExternal
    <3>2. Migrated(Loaded) \in Envs /\ Room
      BY <1>5, LoadedType, MigratedAt DEF Resolve
    <3> QED BY <3>1, <3>2, GeneratedType
  <2>2. tree' = Resolved(filled, options) /\ cmd' = cmd /\ pc' = "write" /\ cmd = "setup"
    BY <1>5 DEF Resolve, Control
  <2> HIDE DEF filled
  <2>3. tree'[Provider] \in {External, Shipped}
    BY <2>1, <2>2, ResolvedAt
  <2> QED BY <2>2, <2>3, Distinct DEF Writes
<1>6. CASE WriteBundle
  <2>1. PICK i \in todo : bundle' = Written(bundle, Order[i], tree)
    BY <1>6 DEF WriteBundle
  <2>2. UNCHANGED <<tree, cmd>> /\ pc' = "write copy" /\ pc = "write"
    BY <1>6 DEF WriteBundle
  <2>3. bundle'[Provider] = IF Order[i] # Root THEN bundle[Provider]
                            ELSE IF tree[Provider] = Absent THEN Shipped ELSE tree[Provider]
    BY <2>1, ProviderWritten DEF TypeOK
  <2> QED BY <2>2, <2>3, Distinct DEF Writes
<1>7. CASE WriteCopy
  BY <1>7 DEF WriteCopy, Writes
<1>9. CASE BeginStart
  <2>1. Room /\ tree' = Additions /\ pc' = "sync" /\ bundle' = bundle
    BY <1>9 DEF BeginStart, files
  <2>2. \A k \in Keys : k \notin Missing => tree'[k] = Absent
    BY <2>1, AdditionsAt
  <2>3. tree'[Provider] = Absent \/ tree'[Provider] = Shipped
    BY <2>1, AdditionsAt, ProviderPlain, RootAndRagShipped
  <2> QED BY <2>1, <2>2, <2>3, Distinct, ProviderPlain DEF Missing, Writes
<1>10. CASE SyncDirectory
  <2>1. PICK i \in Unsynced :
          /\ bundle' = [k \in Keys |-> IF DirOf[k] = Order[i] /\ tree[k] # Absent THEN tree[k]
                                       ELSE bundle[k]]
          /\ tree' = [k \in Keys |-> IF DirOf[k] = Order[i] THEN Absent ELSE tree[k]]
    BY <1>10 DEF SyncDirectory
  <2>2. \A d : Has(bundle, d) => Has(bundle', d)
    BY <2>1 DEF Has
  <2>3. pc = "sync" /\ pc' = "sync"
    BY <1>10 DEF SyncDirectory
  <2> QED BY <2>1, <2>2, <2>3, ProviderPlain, Distinct DEF Writes
<1>16. CASE Reset
  <2> DEFINE env == [k \in Keys |-> IF DirOf[k] = Rag THEN Seed[k] ELSE Loaded[k]]
             external == Loaded[Provider] = External
  <2>1. env \in Envs /\ external \in BOOLEAN /\ FALSE \in BOOLEAN /\ Room
    BY <1>16, SeedType, LoadedType DEF Envs, Reset, TypeOK
  <2>2. tree' = GenerateMissing(env, Seed, external, FALSE) /\ bundle' = bundle
        /\ cmd' = "reset" /\ pc' = "write"
    BY <1>16 DEF Reset, files, Control
  <2>3. env[Provider] = Loaded[Provider]
    BY ProviderPlain
  <2>4. Loaded[Provider] = External <=> bundle[Provider] = External
    <3>1. ~ Has(bundle, Root) => bundle[Provider] # External
      BY ProviderPlain, Distinct DEF Has
    <3>2. Loaded[Provider] = IF Has(bundle, Root) THEN bundle[Provider] ELSE Shipped
      BY ProviderPlain, RootAndRagShipped DEF Loaded
    <3> QED BY <3>1, <3>2, Distinct
  <2> HIDE DEF env, external
  <2>5. tree'[Provider] = env[Provider]
    <3>1. ~ FillsIn(Provider, env, Seed, external, FALSE)
      BY ProviderPlain DEF FillsIn
    <3>2. (\A c \in Sources : Provider \notin Aliases[c]) =>
             IF FillsIn(Provider, env, Seed, external, FALSE)
             THEN Firm(tree'[Provider]) /\ tree'[Provider] \notin {Shipped, Chosen, Replace, WithRag, External}
             ELSE tree'[Provider] = env[Provider]
      <4>1. Provider \in Keys
        BY ProviderPlain
      <4> QED BY <2>1, <2>2, <4>1, GeneratedAt, ZenonT(30)
    <3> QED BY <3>1, <3>2, ProviderPlain
  <2> QED BY <2>2, <2>3, <2>4, <2>5
<1>20. CASE UNCHANGED vars
  BY <1>20 DEF vars, files, process
<1>21. CASE \/ BeginSetup \/ SeedDirectory \/ SeedManifest \/ Refuse \/ Persisted
            \/ Synced \/ CopyDirectory
            \/ (\E up \in SUBSET Volumes : ComposeUp(up))
            \/ (\E down \in SUBSET Volumes : ComposeDown(down))
            \/ (\E config \in BOOLEAN : Purge(config))
            \/ (\E k \in Editable : Edit(k)) \/ Checkout \/ Kill
  <2>1. pc' \notin Writes \cup {"sync"}
    BY <1>21 DEF BeginSetup, SeedDirectory, SeedManifest, Refuse, Persisted, Synced,
                 CopyDirectory, ComposeUp, ComposeDown, Purge, Edit, Checkout, Kill, End,
                 process, Writes
  <2> QED BY <1>0, <2>1
<1> QED
  BY <1>5, <1>6, <1>7, <1>9, <1>10, <1>16, <1>20, <1>21 DEF Next

-----------------------------------------------------------------------------
(* Secrets and data.                                                       *)
LEMMA KeptKey ==
  ASSUME TypeOK, NEW v \in Volumes, KeepsSecretOf(v, release), NEW k, k = KeptBy[1][v]
  PROVE  /\ k \in Keys /\ k \in Generated /\ KeptBy[release][v] = k /\ Seed[k] = Marker
         /\ k \notin Old /\ \A old \in DOMAIN Moves : Moves[old] # k
         /\ \A c \in Sources : k \notin Aliases[c]
         /\ k \notin {Provider, Profiles} /\ Has(Seed, DirOf[k])
<1>1. 1 \in Releases /\ release \in Releases
  BY SetupAssumption DEF Releases, TypeOK
<1>2. k \in Generated /\ k \in Keys /\ k \notin {Provider, Profiles}
  BY <1>1, SetupAssumption
<1>3. /\ KeptBy[release][v] = k /\ k \in Ships[release]
      /\ k \notin DOMAIN Renamed[release] \cup Removed[release]
      /\ \A old \in DOMAIN Renamed[release] : Renamed[release][old] # k
      /\ \A c \in Sources : k \notin Aliases[c]
  BY <1>1 DEF KeepsSecretOf, Releases
<1>4. Seed[k] = Marker /\ Has(Seed, DirOf[k])
  BY <1>2, <1>3, SeedType, Distinct DEF Has
<1> QED BY <1>2, <1>3, <1>4 DEF Old, Moves

(* The passes leave a firm secret alone and fill the others.               *)
LEMMA KeptGenerated ==
  ASSUME Room, NEW env \in Envs, NEW k \in Keys, NEW external \in BOOLEAN, NEW force \in BOOLEAN,
         k \in Generated, Seed[k] = Marker, \A c \in Sources : k \notin Aliases[c],
         env[k] \notin {Shipped, Replace}
  PROVE  LET x == GenerateMissing(env, Seed, external, force)[k]
         IN /\ x \notin {Shipped, Replace}
            /\ Firm(x) \/ (DirOf[k] = Keycloak /\ external)
            /\ Firm(env[k]) /\ ~ force => x = env[k]
<1> DEFINE x == GenerateMissing(env, Seed, external, force)[k]
<1>1. IF FillsIn(k, env, Seed, external, force)
      THEN Firm(x) /\ x \notin {Shipped, Chosen, Replace, WithRag, External}
      ELSE x = env[k]
  BY GeneratedAt
<1>2. ~ FillsIn(k, env, Seed, external, force) =>
         (~ force /\ Firm(env[k])) \/ (DirOf[k] = Keycloak /\ external)
  BY DEF FillsIn, Skipped
<1>3. Firm(env[k]) /\ ~ force => ~ FillsIn(k, env, Seed, external, force)
  BY DEF FillsIn
<1> HIDE DEF x
<1>4. x \notin {Shipped, Replace} /\ (Firm(x) \/ (DirOf[k] = Keycloak /\ external))
      /\ (Firm(env[k]) /\ ~ force => x = env[k])
  BY <1>1, <1>2, <1>3
<1> QED BY <1>4 DEF x

LEMMA KeptResolved ==
  ASSUME TypeOK, NEW v \in Volumes, KeepsSecretOf(v, release), HasSecret(v), NEW options \in Options,
         Resolve(options), NEW k, k = KeptBy[1][v]
  PROVE  /\ tree'[k] \notin {Shipped, Replace}
         /\ Firm(tree'[k]) \/ (DirOf[k] = Keycloak /\ IsExternal(tree'))
         /\ Firm(bundle[k]) /\ ~ options.force => tree'[k] = bundle[k]
<1> DEFINE external == BecomesExternal(options)
           env == Migrated(Loaded)
           filled == GenerateMissing(env, Seed, external, options.force)
<1>1. options.force \in BOOLEAN /\ external \in BOOLEAN /\ Room
  BY SetupAssumption DEF BecomesExternal, Resolve
<1>2. env \in Envs
  BY LoadedType, MigratedAt
<1>3. k \in Keys /\ k \in Generated /\ Seed[k] = Marker /\ k \notin {Provider, Profiles}
      /\ k \notin Old /\ (\A old \in DOMAIN Moves : Moves[old] # k)
      /\ \A c \in Sources : k \notin Aliases[c]
  BY KeptKey
<1>4. env[k] = Loaded[k]
  <2>1. \/ k \in Old /\ env[k] = Absent
        \/ k \notin Old /\ env[k] = Loaded[k]
        \/ k \notin Old /\ \E old \in DOMAIN Moves : /\ Moves[old] = k /\ old \in Keys
                                                  /\ env[k] = Loaded[old]
    BY <1>3, LoadedType, MigratedAt
  <2> QED BY <1>3, <2>1
<1>5. env[k] \notin {Shipped, Replace} /\ (Firm(bundle[k]) => env[k] = bundle[k])
  BY <1>3, <1>4, Distinct DEF Loaded, HasSecret, Has, Firm
<1> HIDE DEF env, external
<1>6. filled \in Envs
  BY <1>1, <1>2, GeneratedType
<1>7. tree' = Resolved(filled, options)
  BY DEF Resolve, filled, env, external
<1>8. tree'[k] = filled[k] /\ tree'[Provider] = IF external THEN External ELSE Shipped
  BY <1>3, <1>6, <1>7, ResolvedAt DEF external
<1>9. /\ filled[k] \notin {Shipped, Replace}
      /\ Firm(filled[k]) \/ (DirOf[k] = Keycloak /\ external)
      /\ Firm(env[k]) /\ ~ options.force => filled[k] = env[k]
  BY <1>1, <1>2, <1>3, <1>5, KeptGenerated
<1> HIDE DEF filled
<1> QED BY <1>5, <1>8, <1>9 DEF IsExternal

LEMMA KeptReset ==
  ASSUME Base, NEW v \in Volumes, KeepsSecretOf(v, release), HasSecret(v), Reset, NEW k, k = KeptBy[1][v]
  PROVE  /\ tree'[k] \notin {Shipped, Replace}
         /\ Firm(tree'[k]) \/ (DirOf[k] = Keycloak /\ IsExternal(tree'))
         /\ Firm(bundle[k]) /\ DirOf[k] # Rag => tree'[k] = bundle[k]
<1> DEFINE env == [l \in Keys |-> IF DirOf[l] = Rag THEN Seed[l] ELSE Loaded[l]]
           external == Loaded[Provider] = External
<1>1. env \in Envs /\ external \in BOOLEAN /\ FALSE \in BOOLEAN /\ Room
  BY SeedType, LoadedType DEF Envs, Reset, TypeOK, Base
<1>2. tree' = GenerateMissing(env, Seed, external, FALSE)
  BY DEF Reset
<1>3. k \in Keys /\ k \in Generated /\ Seed[k] = Marker
      /\ \A c \in Sources : k \notin Aliases[c]
  BY KeptKey DEF Base
<1>4. env[k] \notin {Shipped, Replace}
      /\ (Firm(bundle[k]) /\ DirOf[k] # Rag => env[k] = bundle[k])
  BY <1>3, Distinct DEF Loaded, HasSecret, Has, Firm
<1>5. env[Provider] = Loaded[Provider]
  BY ProviderPlain
<1> HIDE DEF env
<1>6. /\ tree'[k] \notin {Shipped, Replace}
      /\ Firm(tree'[k]) \/ (DirOf[k] = Keycloak /\ external)
      /\ Firm(env[k]) => tree'[k] = env[k]
  BY <1>1, <1>2, <1>3, <1>4, KeptGenerated
<1>7. tree'[Provider] = env[Provider]
  <2>1. ~ FillsIn(Provider, env, Seed, external, FALSE) /\ Provider \in Keys
    BY ProviderPlain DEF FillsIn
  <2>2. (\A c \in Sources : Provider \notin Aliases[c]) =>
           IF FillsIn(Provider, env, Seed, external, FALSE)
           THEN Firm(tree'[Provider]) /\ tree'[Provider] \notin {Shipped, Chosen, Replace, WithRag, External}
           ELSE tree'[Provider] = env[Provider]
    BY <1>1, <1>2, <2>1, GeneratedAt
  <2> QED BY <2>1, <2>2, ProviderPlain
<1> QED BY <1>4, <1>5, <1>6, <1>7 DEF IsExternal

(* What a finished setup has written.                                      *)
LEMMA AllWritten ==
  ASSUME Base, pc = "write", cmd = "setup", todo = {}, NEW k \in Keys, Has(Seed, DirOf[k])
  PROVE  bundle[k] = IF tree[k] = Absent THEN Seed[k] ELSE tree[k]
<1>1. PICK i \in Places : Order[i] = DirOf[k]
  BY PlaceOf
<1>2. IsWritten(i)
  BY <1>1 DEF Base, Visited, Writes
<1> QED BY <1>1, <1>2 DEF IsWritten

(* What a finished start has copied.                                       *)
LEMMA AllCopied ==
  ASSUME Base, pc = "copy", todo = {}, NEW k \in Keys, Has(Seed, DirOf[k]), Has(bundle, DirOf[k])
  PROVE  copy[k] = bundle[k]
<1>1. PICK i \in Places : Order[i] = DirOf[k]
  BY PlaceOf
<1>2. IsCopied(i)
  BY <1>1 DEF Base, Visited
<1> QED BY <1>1, <1>2 DEF IsCopied

(* Releases are only checked out upwards.                                  *)
LEMMA ReleasesGrow == ASSUME TypeOK, [Next]_vars PROVE 1..release \subseteq 1..release'
<1>1. release \in Int
  BY DEF TypeOK, Releases
<1>2. release' = release \/ release' = release + 1
  BY DEF Next, BeginSetup, SeedDirectory, SeedManifest, Refuse, Resolve, WriteBundle, WriteCopy,
         Persisted, BeginStart, SyncDirectory, Synced, CopyDirectory, ComposeUp, ComposeDown,
         Purge, Reset, Edit, Checkout, Kill, End, vars, files, stack, process, history
<1> QED BY <1>1, <1>2

LEMMA SecretStep ==
  ASSUME NEW v \in Volumes, KeepsSecretOf(v, release), Base, OneProvider, HasSecret(v), [Next]_vars
  PROVE  HasSecret(v)'
<1> DEFINE k == KeptBy[1][v]
<1>k. /\ k \in Keys /\ k \in Generated /\ KeptBy[release][v] = k /\ Seed[k] = Marker
      /\ k \notin {Provider, Profiles} /\ Has(Seed, DirOf[k])
  BY KeptKey DEF Base
<1>t. TypeOK /\ Control
  BY DEF Base
<1> DEFINE A == {bundle[k], tree[k]} \cap {Shipped, Replace} = {}
           B == Has(bundle, DirOf[k]) => bundle[k] # Absent
           C == settled => Firm(bundle[k]) \/ (DirOf[k] = Keycloak /\ IsExternal(bundle))
           D == pc = "sync" => tree[k] = Absent
           E == pc \in Writes => Firm(tree[k]) \/ (DirOf[k] = Keycloak /\ IsExternal(tree))
           F == data[v] # Absent /\ ~ spoiled =>
                  /\ Firm(bundle[k]) /\ data[v] = bundle[k]
                  /\ pc \in Writes => tree[k] = bundle[k]
                  /\ cmd = "reset" => DirOf[k] # Rag
<1>i. A /\ B /\ C /\ D /\ E /\ F
  BY DEF HasSecret
<1>j. A' /\ B' /\ C' /\ D' /\ E' /\ F' => HasSecret(v)'
  BY DEF HasSecret
<1>h. Firm(bundle[k]) => Has(bundle, DirOf[k])
  BY <1>k DEF Firm, Has
<1>p. IsExternal(bundle) => Has(bundle, Root)
  BY ProviderPlain, Distinct DEF IsExternal, Has
<1>n. NoEnv[k] = Absent
  BY <1>k, NoEnvType
<1> HIDE DEF k
<1>0. ASSUME pc' = "idle", cmd' = "none", tree' = NoEnv, UNCHANGED <<bundle, data, settled, spoiled>>
      PROVE  HasSecret(v)'
  <2>1. A' /\ B' /\ C' /\ D' /\ E' /\ F'
    BY <1>0, <1>i, <1>n, Distinct DEF Writes, Has, IsExternal
  <2> QED BY <1>j, <2>1
<1>1. CASE BeginSetup
  <2>1. A' /\ B' /\ C' /\ D' /\ E' /\ F'
    BY <1>1, <1>i DEF BeginSetup, files, stack, history, Writes, Has, IsExternal
  <2> QED BY <1>j, <2>1
<1>2. CASE SeedDirectory
  <2>1. PICK i \in Unseeded : bundle' = Written(bundle, Order[i], Seed)
    BY <1>2 DEF SeedDirectory
  <2>2. UNCHANGED <<tree, data, pc, cmd, settled, spoiled>> /\ pc = "seed" /\ cmd = "setup"
    BY <1>2, <1>t DEF SeedDirectory, stack, process, history, Control
  <2>3. ~ Has(bundle, Order[i])
    BY DEF Unseeded
  <2>4. bundle'[k] = IF DirOf[k] = Order[i] THEN Marker ELSE bundle[k]
    BY <1>k, <2>1, Distinct DEF Written
  <2>5. DirOf[k] # Order[i] => (Has(bundle', DirOf[k]) <=> Has(bundle, DirOf[k]))
    BY <2>1 DEF Has, Written
  <2>6. IsExternal(bundle) => IsExternal(bundle')
    <3>1. IsExternal(bundle) => Order[i] # Root
      BY <1>p, <2>3
    <3> QED BY <2>1, <3>1, <1>t, ProviderPlain DEF Written, IsExternal
  <2>7. A' /\ B' /\ C' /\ D' /\ E' /\ F'
    BY <1>i, <1>h, <2>2, <2>3, <2>4, <2>5, <2>6, Distinct DEF Writes
  <2> QED BY <1>j, <2>7
<1>3. CASE SeedManifest
  <2>1. A' /\ B' /\ C' /\ D' /\ E' /\ F'
    BY <1>3, <1>i, <1>t DEF SeedManifest, stack, history, Writes, Has, IsExternal, Control
  <2> QED BY <1>j, <2>1
<1>4. CASE Refuse
  BY <1>4, <1>0 DEF Refuse, End, files, stack, history
<1>5. ASSUME NEW options \in Options, Resolve(options) PROVE HasSecret(v)'
  <2>1. /\ tree'[k] \notin {Shipped, Replace}
        /\ Firm(tree'[k]) \/ (DirOf[k] = Keycloak /\ IsExternal(tree'))
        /\ Firm(bundle[k]) /\ ~ options.force => tree'[k] = bundle[k]
    BY <1>5, <1>t, KeptResolved DEF k
  <2>2. /\ UNCHANGED <<bundle, data, cmd>> /\ cmd = "setup" /\ pc' = "write"
        /\ ~ settled' /\ (~ spoiled' => ~ spoiled /\ ~ options.force)
    BY <1>5, <1>t DEF Resolve, files, stack, Control
  <2>3. A' /\ B' /\ C' /\ D' /\ E' /\ F'
    BY <1>i, <2>1, <2>2 DEF Has
  <2> QED BY <1>j, <2>3
<1>6. CASE WriteBundle
  <2>1. PICK i \in todo : IsNext(i) /\ bundle' = Written(bundle, Order[i], tree)
    BY <1>6 DEF WriteBundle
  <2>2. /\ UNCHANGED <<tree, data, cmd, settled, spoiled>> /\ pc = "write" /\ pc' = "write copy"
        /\ pc \in Writes
    BY <1>6 DEF WriteBundle, stack, history, Writes
  <2>3. bundle'[k] = IF DirOf[k] # Order[i] THEN bundle[k]
                     ELSE IF tree[k] = Absent THEN Marker ELSE tree[k]
    BY <1>k, <2>1 DEF Written
  <2>4. DirOf[k] # Order[i] => (Has(bundle', DirOf[k]) <=> Has(bundle, DirOf[k]))
    BY <2>1 DEF Has, Written
  <2>5. settled => /\ cmd = "reset" /\ Order[i] \in {Rag, Root}
                   /\ IsExternal(tree) <=> IsExternal(bundle)
    BY <1>t, <2>1, <2>2 DEF Control, OneProvider
  <2>6. settled /\ IsExternal(bundle) => IsExternal(bundle')
    BY <1>t, <2>1, <2>5, ProviderWritten, Distinct DEF TypeOK, IsExternal
  <2>7. settled => Firm(tree[k]) \/ DirOf[k] # Order[i]
    BY <1>i, <2>2, <2>5, SetupAssumption
  <2>8. A' /\ B'
    BY <1>i, <2>2, <2>3, <2>4, Distinct
  <2>9. C'
    BY <1>i, <2>2, <2>3, <2>6, <2>7 DEF Firm
  <2>10. D' /\ E'
    BY <1>i, <2>2 DEF IsExternal
  <2>11. F'
    BY <1>i, <2>2, <2>3 DEF Firm
  <2> QED BY <1>j, <2>8, <2>9, <2>10, <2>11
<1>7. CASE WriteCopy
  <2>1. A' /\ B' /\ C' /\ D' /\ E' /\ F'
    BY <1>7, <1>i DEF WriteCopy, stack, history, Writes, Has, IsExternal
  <2> QED BY <1>j, <2>1
<1>8. CASE Persisted
  <2>1. /\ UNCHANGED <<bundle, data, spoiled>> /\ pc' = "idle" /\ cmd' = "none" /\ tree' = NoEnv
        /\ settled' = (settled \/ cmd = "setup") /\ pc = "write" /\ todo = {} /\ pc \in Writes
    BY <1>8 DEF Persisted, End, files, stack, Writes
  <2>2. cmd = "setup" => Firm(bundle[k]) \/ (DirOf[k] = Keycloak /\ IsExternal(bundle))
    <3> SUFFICES ASSUME cmd = "setup"
                 PROVE  Firm(bundle[k]) \/ (DirOf[k] = Keycloak /\ IsExternal(bundle))
      OBVIOUS
    <3>1. bundle[k] = IF tree[k] = Absent THEN Seed[k] ELSE tree[k]
      BY <1>k, <2>1, AllWritten
    <3>2. bundle[Provider] = IF tree[Provider] = Absent THEN Seed[Provider] ELSE tree[Provider]
      BY <1>t, <2>1, ProviderPlain, RootAndRagShipped, AllWritten
    <3> QED BY <1>i, <2>1, <3>1, <3>2, Distinct DEF Firm, IsExternal
  <2>3. A' /\ B' /\ C' /\ D' /\ E' /\ F'
    BY <1>i, <1>n, <2>1, <2>2, Distinct DEF Writes, Has, IsExternal
  <2> QED BY <1>j, <2>3
<1>9. CASE BeginStart
  <2>1. /\ UNCHANGED <<bundle, data, settled, spoiled>> /\ pc' = "sync" /\ cmd' = "start"
        /\ tree' = Additions /\ Room
    BY <1>9 DEF BeginStart, files, stack, history
  <2>2. k \notin Missing
    BY <1>i DEF Missing
  <2>3. tree'[k] = Absent
    BY <1>k, <1>t, <2>1, <2>2, AdditionsAt
  <2>4. A' /\ B' /\ C' /\ D' /\ E' /\ F'
    BY <1>i, <2>1, <2>3, Distinct DEF Writes, Has, IsExternal
  <2> QED BY <1>j, <2>4
<1>10. CASE SyncDirectory
  <2>1. PICK i \in Unsynced :
          /\ bundle' = [l \in Keys |-> IF DirOf[l] = Order[i] /\ tree[l] # Absent THEN tree[l]
                                       ELSE bundle[l]]
          /\ tree' = [l \in Keys |-> IF DirOf[l] = Order[i] THEN Absent ELSE tree[l]]
    BY <1>10 DEF SyncDirectory
  <2>2. /\ UNCHANGED <<data, cmd, settled, spoiled>> /\ pc = "sync" /\ pc' = "sync" /\ cmd = "start"
    BY <1>10, <1>t DEF SyncDirectory, stack, history, Control
  <2>3. bundle'[k] = bundle[k] /\ tree'[k] = Absent
    BY <1>i, <1>k, <2>1, <2>2
  <2>4. Has(bundle', DirOf[k]) => Has(bundle, DirOf[k])
    BY <2>1, <2>2 DEF Has, OneProvider
  <2>5. IsExternal(bundle) => IsExternal(bundle')
    BY <2>1, <2>2, ProviderPlain, Distinct DEF OneProvider, IsExternal
  <2>6. A' /\ B' /\ C' /\ D' /\ E' /\ F'
    BY <1>i, <2>2, <2>3, <2>4, <2>5, Distinct DEF Writes
  <2> QED BY <1>j, <2>6
<1>11. CASE Synced
  <2>1. A' /\ B' /\ C' /\ D' /\ E' /\ F'
    BY <1>11, <1>i DEF Synced, files, stack, history, Writes, Has, IsExternal
  <2> QED BY <1>j, <2>1
<1>12. CASE CopyDirectory
  <2>1. A' /\ B' /\ C' /\ D' /\ E' /\ F'
    BY <1>12, <1>i DEF CopyDirectory, stack, history, Writes, Has, IsExternal
  <2> QED BY <1>j, <2>1
<1>13. ASSUME NEW up \in SUBSET Volumes, ComposeUp(up) PROVE HasSecret(v)'
  <2>1. /\ UNCHANGED <<bundle, settled>> /\ pc = "copy" /\ todo = {}
        /\ pc' = "idle" /\ cmd' = "none" /\ tree' = NoEnv /\ (~ spoiled' => ~ spoiled /\ settled)
    BY <1>13 DEF ComposeUp, End, files
  <2>2. data'[v] = data[v] \/ (data'[v] = copy[k] /\ Served(v))
    BY <1>13, <1>k DEF ComposeUp
  <2>3. ASSUME copy[k] # Absent, settled, Served(v)
        PROVE  Firm(bundle[k]) /\ copy[k] = bundle[k]
    <3>1. Has(bundle, DirOf[k])
      BY <1>k, <2>3 DEF Base, Present
    <3>2. copy[k] = bundle[k]
      BY <1>k, <2>1, <3>1, AllCopied
    <3>3. IsExternal(bundle) => IsExternal(copy)
      BY <1>p, <1>t, <2>1, ProviderPlain, RootAndRagShipped, AllCopied DEF IsExternal
    <3>4. DirOf[k] = Keycloak => ~ IsExternal(bundle)
      BY <1>k, <2>3, <3>3 DEF Served, IsExternal
    <3> QED BY <1>i, <2>3, <3>2, <3>4
  <2>4. A' /\ B' /\ C' /\ D' /\ E'
    BY <1>i, <1>n, <2>1, Distinct DEF Writes, Has, IsExternal
  <2>5. F'
    BY <1>i, <2>1, <2>2, <2>3 DEF Writes
  <2> QED BY <1>j, <2>4, <2>5
<1>14. ASSUME NEW down \in SUBSET Volumes, ComposeDown(down) PROVE HasSecret(v)'
  <2>1. A' /\ B' /\ C' /\ D' /\ E' /\ F'
    BY <1>14, <1>i DEF ComposeDown, files, process, history, Writes, Has, IsExternal
  <2> QED BY <1>j, <2>1
<1>15. ASSUME NEW config \in BOOLEAN, Purge(config) PROVE HasSecret(v)'
  <2>1. /\ UNCHANGED <<bundle, tree, settled, spoiled>> /\ pc' \in {"reset", "idle"}
    BY <1>15 DEF Purge, files, history
  <2>2. data'[v] = data[v] \/ data'[v] = Absent
    BY <1>15 DEF Purge
  <2>3. cmd' = "reset" /\ DirOf[k] = Rag => data'[v] = Absent
    <3>1. DirOf[k] = Rag => v \in RagVolumes
      BY <1>k DEF RagVolumes
    <3> QED BY <1>15, <3>1 DEF Purge
  <2>4. A' /\ B' /\ C' /\ D' /\ E'
    BY <1>i, <2>1 DEF Writes, Has, IsExternal
  <2>5. F'
    BY <1>i, <2>1, <2>2, <2>3 DEF Writes
  <2> QED BY <1>j, <2>4, <2>5
<1>16. CASE Reset
  <2>1. /\ tree'[k] \notin {Shipped, Replace}
        /\ Firm(tree'[k]) \/ (DirOf[k] = Keycloak /\ IsExternal(tree'))
        /\ Firm(bundle[k]) /\ DirOf[k] # Rag => tree'[k] = bundle[k]
    BY <1>16, KeptReset DEF k
  <2>2. UNCHANGED <<bundle, data, cmd, settled, spoiled>> /\ cmd = "reset" /\ pc' = "write"
    BY <1>16, <1>t DEF Reset, files, stack, Control
  <2>3. A' /\ B' /\ C' /\ D' /\ E' /\ F'
    BY <1>i, <2>1, <2>2 DEF Has, IsExternal
  <2> QED BY <1>j, <2>3
<1>17. ASSUME NEW l \in Editable, Edit(l) PROVE HasSecret(v)'
  <2>1. /\ UNCHANGED <<tree, data, pc, cmd, settled, spoiled>> /\ pc = "idle"
        /\ bundle[l] \in {Shipped, Replace} /\ bundle' = [bundle EXCEPT ![l] = Chosen]
    BY <1>17 DEF Edit, stack, process
  <2>2. l # k /\ bundle \in [Keys -> Values] /\ l \in Keys
    BY <1>i, <1>t, <2>1, SetupAssumption DEF TypeOK, Envs
  <2>3. bundle'[k] = bundle[k] /\ (IsExternal(bundle) => IsExternal(bundle'))
    BY <1>k, <2>1, <2>2, Distinct DEF IsExternal
  <2>4. Has(bundle', DirOf[k]) => Has(bundle, DirOf[k])
    BY <2>1, <2>2, Distinct DEF Has
  <2>5. A' /\ B' /\ C' /\ D' /\ E' /\ F'
    BY <1>i, <2>1, <2>3, <2>4 DEF Writes
  <2> QED BY <1>j, <2>5
<1>18. CASE Checkout
  <2>1. A' /\ B' /\ C' /\ D' /\ E' /\ F'
    BY <1>18, <1>i DEF Checkout, files, stack, process, history, Writes, Has, IsExternal
  <2> QED BY <1>j, <2>1
<1>19. CASE Kill
  BY <1>19, <1>0 DEF Kill, End, files, stack
<1>20. CASE UNCHANGED vars
  <2>1. A' /\ B' /\ C' /\ D' /\ E' /\ F'
    BY <1>20, <1>i DEF vars, files, stack, process, history, Writes, Has, IsExternal
  <2> QED BY <1>j, <2>1
<1> QED
  BY <1>1, <1>2, <1>3, <1>4, <1>5, <1>6, <1>7, <1>8, <1>9, <1>10, <1>11, <1>12, <1>13,
     <1>14, <1>15, <1>16, <1>17, <1>18, <1>19, <1>20 DEF Next

(* Data that was initialised with a secret still finds it in the bundle,   *)
(* over repeated and killed setups, new releases, purges and resets, as    *)
(* long as no release up to the one checked out moves its variable,        *)
(* whatever becomes of the variables of the other volumes.                 *)
DataInv == OneProvider /\ \A v \in Volumes : KeepsSecretOf(v, release) => HasSecret(v)

THEOREM DataKeepsSecret ==
  Spec => [](\A v \in Volumes : KeepsSecretOf(v, release) => SecretFits(v))
<1>1. Init => Base /\ DataInv
  <2> SUFFICES ASSUME Init PROVE DataInv
    BY InitBase
  <2>1. OneProvider
    BY DEF Init, OneProvider, Writes
  <2>2. ASSUME NEW v \in Volumes, KeepsSecretOf(v, release) PROVE HasSecret(v)
    <3>1. KeptBy[1][v] \in Keys
      BY <2>2, InitBase, KeptKey DEF Base
    <3>2. /\ bundle[KeptBy[1][v]] = Absent /\ tree[KeptBy[1][v]] = Absent /\ data[v] = Absent
          /\ ~ settled /\ pc = "idle" /\ \A d : ~ Has(bundle, d)
      BY <3>1, NoEnvType DEF Init, Has
    <3> QED BY <3>2, Distinct DEF HasSecret, Writes
  <2> QED BY <2>1, <2>2 DEF DataInv
<1>2. Base /\ DataInv /\ [Next]_vars => Base' /\ DataInv'
  <2> SUFFICES ASSUME Base, DataInv, [Next]_vars PROVE Base' /\ DataInv'
    OBVIOUS
  <2>1. Base' /\ OneProvider'
    BY BaseStep, ProviderStep DEF DataInv
  <2>2. ASSUME NEW v \in Volumes, KeepsSecretOf(v, release)' PROVE HasSecret(v)'
    <3>1. 1..release \subseteq 1..release'
      BY ReleasesGrow DEF Base
    <3>2. KeepsSecretOf(v, release)
      BY <2>2, <3>1 DEF KeepsSecretOf
    <3> QED BY <2>2, <3>2, SecretStep DEF DataInv
  <2> QED BY <2>1, <2>2 DEF DataInv
<1>3. Base /\ DataInv => \A v \in Volumes : KeepsSecretOf(v, release) => SecretFits(v)
  <2>1. ASSUME Base PROVE 1 \in 1..release
    BY <2>1, SetupAssumption DEF Base, TypeOK, Releases
  <2> QED BY <2>1 DEF DataInv, HasSecret, SecretFits
<1> QED BY <1>1, <1>2, <1>3, PTL DEF Spec

-----------------------------------------------------------------------------
(* Placeholders.                                                           *)
LEMMA KnownDirectory ==
  ASSUME TypeOK, SameDirectories, NEW k \in Keys, k \in SoFar
  PROVE  Has(Seed, DirOf[k])
<1>1. PICK r \in 1..release : k \in Known(r)
  BY DEF SoFar
<1>2. r \in Releases /\ release \in Releases
  BY <1>1, SetupAssumption DEF TypeOK, Releases
<1>3. \E s \in Ships[r] : DirOf[s] = DirOf[k]
  <2>1. CASE k \in Ships[r]
    BY <2>1
  <2>2. ASSUME NEW old \in DOMAIN Renamed[r], k = Renamed[r][old]
        PROVE  \E s \in Ships[r] : DirOf[s] = DirOf[k]
    BY <1>2, <2>2, SetupAssumption
  <2> QED BY <1>1, <2>1, <2>2 DEF Known
<1>f. \A q \in Releases : \A s \in Ships[q] : \E l \in Ships[release] : DirOf[l] = DirOf[s]
  BY <1>2 DEF SameDirectories
<1>4. PICK l \in Ships[release] : DirOf[l] = DirOf[k]
  BY <1>2, <1>3, <1>f
<1>5. l \in Keys /\ Seed[l] # Absent
  BY <1>2, ShippedKeys, SeedType
<1> QED BY <1>4, <1>5 DEF Has

(* Why a placeholder is still there after the secrets are generated.       *)
LEMMA GeneratedMarker ==
  ASSUME Room, NEW env \in Envs, NEW seed, NEW external \in BOOLEAN, NEW force \in BOOLEAN,
         NEW k \in Keys, GenerateMissing(env, seed, external, force)[k] = Marker
  PROVE  \/ /\ env[k] = Marker /\ ~ FillsIn(k, env, seed, external, force)
            /\ \A c \in Sources \ Skipped(external) :
                 k \in Aliases[c] => env[c] = Absent /\ ~ FillsIn(c, env, seed, external, force)
         \/ \E c \in Sources \ Skipped(external) :
              /\ k \in Aliases[c] /\ c \in Keys /\ env[c] = Marker
              /\ ~ FillsIn(c, env, seed, external, force)
<1> DEFINE F == Filled(env, seed, external, force)
<1>1. F \in Envs
  BY FilledAt
<1>2. ASSUME NEW l \in Keys
      PROVE  IF FillsIn(l, env, seed, external, force) THEN Firm(F[l]) ELSE F[l] = env[l]
  BY FilledAt
<1>3. Sources \subseteq Keys
  BY SetupAssumption
<1>4. FannedOut(F, external)[k] = Marker
  BY DEF GenerateMissing
<1>5. \/ /\ Marker = F[k]
         /\ \A c \in Sources \ Skipped(external) :
              k \in Aliases[c] => F[k] = Absent \/ F[c] = Absent
      \/ \E c \in Sources \ Skipped(external) :
           k \in Aliases[c] /\ c \in Keys /\ F[c] # Absent /\ F[k] # Absent /\ F[c] = Marker
  BY <1>1, <1>4, FannedAt
<1> HIDE DEF F
<1>6. CASE /\ Marker = F[k]
           /\ \A c \in Sources \ Skipped(external) :
                k \in Aliases[c] => F[k] = Absent \/ F[c] = Absent
  <2>1. env[k] = Marker /\ ~ FillsIn(k, env, seed, external, force)
    BY <1>2, <1>6 DEF Firm
  <2>2. ASSUME NEW c \in Sources \ Skipped(external), k \in Aliases[c]
        PROVE  env[c] = Absent /\ ~ FillsIn(c, env, seed, external, force)
    BY <1>2, <1>3, <1>6, <2>2, Distinct DEF Firm
  <2> QED BY <2>1, <2>2
<1>7. ASSUME NEW c \in Sources \ Skipped(external), k \in Aliases[c], c \in Keys, F[c] = Marker
      PROVE  env[c] = Marker /\ ~ FillsIn(c, env, seed, external, force)
  BY <1>2, <1>7 DEF Firm
<1> QED BY <1>5, <1>6, <1>7

(* A placeholder that the migration leaves can be filled.                  *)
LEMMA MigratedMarker ==
  ASSUME Base, FillsPlaceholders, MarkerInv, NEW k \in Keys, Migrated(Loaded)[k] = Marker
  PROVE  k \in Fillable(release)
<1>1. release \in Releases /\ TypeOK
  BY DEF Base, TypeOK
<1>2. ASSUME NEW l \in Keys, Loaded[l] = Marker
      PROVE  l \in Generated \cap Ships[release] \/ bundle[l] = Marker
  BY <1>1, <1>2, SeedType DEF Loaded
<1>3. \/ k \notin Old /\ Loaded[k] = Marker
      \/ \E old \in DOMAIN Moves : Moves[old] = k /\ old \in Keys /\ Loaded[old] = Marker
  <2>1. \/ k \in Old /\ Migrated(Loaded)[k] = Absent
        \/ k \notin Old /\ Migrated(Loaded)[k] = Loaded[k]
        \/ k \notin Old /\ \E old \in DOMAIN Moves : /\ Moves[old] = k /\ old \in Keys
                                                  /\ Migrated(Loaded)[k] = Loaded[old]
    BY <1>1, LoadedType, MigratedAt
  <2> QED BY <2>1, Distinct
<1>4. CASE k \notin Old /\ Loaded[k] = Marker
  <2>1. CASE k \in Generated \cap Ships[release]
    BY <2>1 DEF Fillable
  <2>2. CASE bundle[k] = Marker
    <3>1. k \in Marked /\ k \in SoFar
      BY <2>2, Distinct DEF MarkerInv, Base, Present
    <3>2. PICK q \in 1..release : k \in Known(q)
      BY <3>1 DEF SoFar
    <3>3. k \in Fillable(release) \cup DOMAIN Renamed[release] \cup Removed[release]
      BY <1>1, <3>1, <3>2 DEF FillsPlaceholders
    <3> QED BY <1>4, <3>3 DEF Old, Moves
  <2> QED BY <1>2, <1>4, <2>1, <2>2
<1>5. ASSUME NEW old \in DOMAIN Moves, Moves[old] = k, old \in Keys, Loaded[old] = Marker
      PROVE  k \in Fillable(release)
  <2>1. old \in Marked
    BY <1>2, <1>5 DEF MarkerInv, Marked
  <2> QED BY <1>1, <1>5, <2>1 DEF FillsPlaceholders, Moves
<1> QED BY <1>3, <1>4, <1>5

(* The passes of setup leave no placeholder.                               *)
LEMMA SetupFills ==
  ASSUME Base, FillsPlaceholders, MarkerInv, NEW options \in Options, Resolve(options)
  PROVE  Full(tree') /\ \A k \in Keys : tree'[k] = Marker => k \in Marked
<1> DEFINE external == BecomesExternal(options)
           env == Migrated(Loaded)
           filled == GenerateMissing(env, Seed, external, options.force)
           Fills(k) == FillsIn(k, env, Seed, external, options.force)
<1>1. options.force \in BOOLEAN /\ external \in BOOLEAN /\ Room
  BY SetupAssumption DEF BecomesExternal, Resolve
<1>2. TypeOK /\ env \in Envs /\ Sources \subseteq Keys /\ Sources \subseteq Generated
  BY LoadedType, MigratedAt, SetupAssumption DEF Base
<1>3. ASSUME NEW k \in Keys, env[k] = Marker PROVE k \in Fillable(release)
  BY <1>3, MigratedMarker
<1> HIDE DEF env
<1>4. filled \in Envs
  BY <1>1, <1>2, GeneratedType
<1>5. tree' = Resolved(filled, options)
  BY DEF Resolve, filled, env, external
<1>6. /\ tree'[Provider] = IF external THEN External ELSE Shipped
      /\ tree'[Profiles] \in {WithRag, Shipped, filled[Profiles]}
      /\ \A k \in Keys \ {Provider, Profiles} : tree'[k] = filled[k]
  BY <1>4, <1>5, ResolvedAt DEF external
<1>7. IsExternal(tree') <=> external
  BY <1>6, Distinct DEF IsExternal
<1>8. ASSUME NEW k \in Keys, tree'[k] = Marker PROVE filled[k] = Marker
  BY <1>6, <1>8, Distinct
<1>9. ASSUME NEW k \in (Generated \cap Ships[release]) \ Skipped(external)
      PROVE  k \in Keys /\ Seed[k] = Marker /\ (Fills(k) \/ Firm(env[k]))
  <2>1. k \in Keys
    BY SetupAssumption
  <2> QED BY <1>2, <2>1, SeedType DEF FillsIn
<1>g. ASSUME NEW k \in Keys, filled[k] = Marker
      PROVE  \/ /\ env[k] = Marker /\ ~ Fills(k)
                /\ \A c \in Sources \ Skipped(external) :
                     k \in Aliases[c] => env[c] = Absent /\ ~ Fills(c)
             \/ \E c \in Sources \ Skipped(external) :
                  /\ k \in Aliases[c] /\ c \in Keys /\ env[c] = Marker /\ ~ Fills(c)
  <2> HIDE DEF external
  <2> QED BY <1>1, <1>2, <1>g, GeneratedMarker
<1>a. ASSUME NEW k \in Keys, Seed[k] = Marker, k \notin Skipped(external)
      PROVE  tree'[k] # Absent
  <2>1. k \in Generated \cap Ships[release]
    BY <1>2, <1>a, SeedType
  <2>2. tree'[k] = filled[k]
    BY <1>6, <2>1, SetupAssumption
  <2>3. Fills(k) \/ env[k] # Absent
    BY <1>9, <1>a, <2>1 DEF Firm
  <2>4. filled[k] # Absent
    <3> HIDE DEF external
    <3> QED BY <1>1, <1>2, <2>3, GeneratedAt
  <2> QED BY <2>2, <2>4
<1> HIDE DEF filled, Fills, external
<1>b. ASSUME NEW k \in Keys, k \notin Skipped(external) PROVE filled[k] # Marker
  <2> SUFFICES ASSUME filled[k] = Marker PROVE FALSE
    OBVIOUS
  <2>1. ASSUME env[k] = Marker, ~ Fills(k),
               \A c \in Sources \ Skipped(external) :
                 k \in Aliases[c] => env[c] = Absent /\ ~ Fills(c)
        PROVE  FALSE
    <3>1. k \notin Generated \cap Ships[release]
      BY <1>b, <1>9, <2>1 DEF Firm
    <3>2. PICK c \in Sources \cap Ships[release] : DirOf[c] # Keycloak /\ k \in Aliases[c]
      BY <1>3, <2>1, <3>1 DEF Fillable
    <3>3. c \notin Skipped(external)
      BY <3>2 DEF Skipped
    <3> QED BY <1>2, <1>9, <2>1, <3>2, <3>3 DEF Firm
  <2>2. ASSUME NEW c \in Sources \ Skipped(external), k \in Aliases[c], c \in Keys,
               env[c] = Marker, ~ Fills(c)
        PROVE  FALSE
    <3>1. c \in Fillable(release) /\ \A d \in Sources : c \notin Aliases[d]
      BY <1>3, <2>2, SetupAssumption
    <3> QED BY <1>9, <2>2, <3>1 DEF Firm, Fillable
  <2> QED BY <1>g, <2>1, <2>2
<1>c. ASSUME NEW k \in Keys, filled[k] = Marker PROVE k \in Marked
  <2>1. k \in Fillable(release) \/ \E c \in Sources : k \in Aliases[c]
    BY <1>3, <1>g, <1>c
  <2> QED BY <2>1 DEF Fillable, Marked
<1>d. Skipped(IsExternal(tree')) = Skipped(external)
  BY <1>7 DEF Skipped
<1>e. \A k \in Keys \ Skipped(IsExternal(tree')) : tree'[k] # Marker
  BY <1>8, <1>b, <1>d
<1>f. \A k \in Keys \ Skipped(IsExternal(tree')) : Seed[k] = Marker => tree'[k] # Absent
  BY <1>a, <1>d
<1> QED BY <1>8, <1>c, <1>e, <1>f DEF Full, Clean

(* Nor do those of a reset or a start, once a setup has completed.         *)
LEMMA LoadedProvider ==
  ASSUME TypeOK
  PROVE  Loaded[Provider] = External <=> IsExternal(bundle)
<1>1. ~ Has(bundle, Root) => bundle[Provider] # External
  BY ProviderPlain, Distinct DEF Has
<1>2. Loaded[Provider] = IF Has(bundle, Root) THEN bundle[Provider] ELSE Shipped
  BY ProviderPlain, RootAndRagShipped DEF Loaded
<1> QED BY <1>1, <1>2, Distinct DEF IsExternal

LEMMA ResetFills ==
  ASSUME Base, MarkerInv, Reset
  PROVE  /\ \A k \in Keys : tree'[k] = Marker => k \in Marked
         /\ settled => Full(tree')
<1> DEFINE env == [k \in Keys |-> IF DirOf[k] = Rag THEN Seed[k] ELSE Loaded[k]]
           external == Loaded[Provider] = External
           Fills(k) == FillsIn(k, env, Seed, external, FALSE)
<1>1. TypeOK /\ env \in Envs /\ external \in BOOLEAN /\ FALSE \in BOOLEAN /\ Room
  BY SeedType, LoadedType DEF Envs, Reset, TypeOK, Base
<1>2. tree' = GenerateMissing(env, Seed, external, FALSE)
  BY DEF Reset
<1>3. ASSUME NEW k \in Keys, env[k] = Marker PROVE Seed[k] = Marker \/ bundle[k] = Marker
  BY <1>3 DEF Loaded
<1>4. external <=> IsExternal(bundle)
  BY <1>1, LoadedProvider
<1>5. IsExternal(tree') <=> external
  <2>1. env[Provider] = Loaded[Provider] /\ Provider \in Keys
        /\ ~ FillsIn(Provider, env, Seed, external, FALSE)
    BY ProviderPlain DEF FillsIn
  <2>2. (\A c \in Sources : Provider \notin Aliases[c]) =>
           IF FillsIn(Provider, env, Seed, external, FALSE)
           THEN Firm(tree'[Provider]) /\ tree'[Provider] \notin {Shipped, Chosen, Replace, WithRag, External}
           ELSE tree'[Provider] = env[Provider]
    <3> HIDE DEF env, external
    <3> QED BY <1>1, <1>2, <2>1, GeneratedAt
  <2> QED BY <2>1, <2>2, ProviderPlain DEF IsExternal
<1> HIDE DEF env, external
<1>6. ASSUME NEW k \in Keys, tree'[k] = Marker
      PROVE  \/ env[k] = Marker /\ ~ Fills(k)
             \/ \E c \in Sources \ Skipped(external) :
                  k \in Aliases[c] /\ c \in Keys /\ env[c] = Marker /\ ~ Fills(c)
  BY <1>1, <1>2, <1>6, GeneratedMarker
<1>7. ASSUME NEW k \in Keys, Seed[k] = Marker PROVE k \in Generated
  BY <1>1, <1>7, SeedType
<1>8. ASSUME NEW k \in Keys, tree'[k] = Marker PROVE k \in Marked
  BY <1>3, <1>6, <1>7, <1>8 DEF MarkerInv, Marked
<1>9. ASSUME settled, NEW k \in Keys, k \notin Skipped(external), env[k] = Marker
      PROVE  Fills(k)
  <2>1. bundle[k] # Marker
    BY <1>4, <1>9 DEF MarkerInv, Clean, Skipped
  <2> QED BY <1>3, <1>7, <1>9, <2>1 DEF FillsIn, Firm
<1>10. ASSUME settled, NEW k \in Keys, k \notin Skipped(external) PROVE tree'[k] # Marker
  BY <1>6, <1>9, <1>10
<1>11. ASSUME NEW k \in Keys, k \notin Skipped(external), Seed[k] = Marker PROVE tree'[k] # Absent
  <2>1. Fills(k) \/ env[k] # Absent
    BY <1>7, <1>11 DEF FillsIn, Firm
  <2> QED BY <1>1, <1>2, <2>1, GeneratedAt
<1>12. Skipped(IsExternal(tree')) = Skipped(external)
  BY <1>5 DEF Skipped
<1> QED BY <1>8, <1>10, <1>11, <1>12 DEF Full, Clean

LEMMA StartFills ==
  ASSUME Base, MarkerInv, BeginStart
  PROVE  /\ \A k \in Keys : tree'[k] = Marker => k \in Marked
         /\ settled => \A k \in Keys : tree'[k] # Marker
<1> DEFINE new == [k \in Keys |-> IF k \in Missing THEN Seed[k] ELSE Absent]
           shared == {c \in Sources \ Missing : Aliases[c] \cap Missing # {}}
           known == [k \in Keys |-> IF k \in shared THEN bundle[k] ELSE new[k]]
           external == bundle[Provider] = External
           filled == GenerateMissing(known, new, external, FALSE)
           Fills(k) == FillsIn(k, known, new, external, FALSE)
<1>1. TypeOK /\ Room /\ external \in BOOLEAN /\ FALSE \in BOOLEAN
  BY DEF Base, BeginStart
<1>2. tree' = [k \in Keys |-> IF k \in Missing THEN filled[k] ELSE Absent]
  BY DEF BeginStart, Additions
<1>3. new \in Envs /\ known \in Envs
  BY <1>1, SeedType DEF Envs, TypeOK, Values
<1>4. ASSUME NEW k \in Keys, k \notin shared, known[k] = Marker
      PROVE  k \in Missing /\ new[k] = Marker /\ k \in Generated
  <2>1. k \in Missing /\ new[k] = Marker /\ Seed[k] = Marker
    BY <1>4, Distinct
  <2> QED BY <1>1, <2>1, SeedType
<1>5. ASSUME NEW k \in Keys, k \in Missing PROVE k \notin shared /\ k \notin Skipped(external)
  BY <1>5 DEF Missing
<1>6. ASSUME NEW c \in shared PROVE known[c] = bundle[c]
  BY SetupAssumption
<1> HIDE DEF new, known, shared
<1>7. ASSUME NEW k \in Keys, tree'[k] = Marker
      PROVE  /\ k \in Missing
             /\ \/ known[k] = Marker /\ ~ Fills(k)
                \/ \E c \in Sources \ Skipped(external) :
                     k \in Aliases[c] /\ c \in Keys /\ known[c] = Marker /\ ~ Fills(c)
  <2>1. k \in Missing /\ filled[k] = Marker
    BY <1>2, <1>7, Distinct
  <2> HIDE DEF external
  <2> QED BY <1>1, <1>3, <2>1, GeneratedMarker, ZenonT(30)
<1>8. ASSUME NEW k \in Keys, k \notin shared, k \notin Skipped(external), known[k] = Marker
      PROVE  Fills(k)
  BY <1>4, <1>8 DEF FillsIn, Firm
<1>9. ASSUME NEW k \in Keys, tree'[k] = Marker
      PROVE  \E c \in Sources \ Skipped(external) :
               k \in Aliases[c] /\ c \in Keys /\ bundle[c] = Marker
  <2>1. PICK c \in Sources \ Skipped(external) :
          k \in Aliases[c] /\ c \in Keys /\ known[c] = Marker /\ ~ Fills(c)
    BY <1>5, <1>7, <1>8, <1>9
  <2>2. c \in shared
    BY <1>8, <2>1
  <2> QED BY <1>6, <2>1, <2>2
<1>10. ASSUME NEW k \in Keys, tree'[k] = Marker PROVE k \in Marked
  BY <1>9, <1>10 DEF Marked
<1>11. ASSUME settled, NEW k \in Keys PROVE tree'[k] # Marker
  BY <1>9, <1>11 DEF MarkerInv, Clean, IsExternal
<1> QED BY <1>10, <1>11

(* No release has a directory that the one before it lacks.                *)
LEMMA NoNewDirectory ==
  ASSUME TypeOK, SameDirectories, Checkout, NEW d, Has(Seed', d)
  PROVE  Has(Seed, d)
<1>1. release \in Releases /\ release' \in Releases
  BY SetupAssumption DEF Checkout, TypeOK, Releases
<1>2. Seed' = Examples[release']
  BY DEF Seed, Examples
<1>3. PICK k \in Keys : DirOf[k] = d /\ Examples[release'][k] # Absent
  BY <1>2 DEF Has
<1>4. k \in Ships[release']
  BY <1>1, <1>3, ExamplesType
<1>5. \A q \in Releases : \A s \in Ships[q] : \E l \in Ships[release] : DirOf[l] = DirOf[s]
  BY <1>1 DEF SameDirectories
<1>6. PICK l \in Ships[release] : DirOf[l] = d
  BY <1>1, <1>3, <1>4, <1>5
<1>7. l \in Keys /\ Seed[l] # Absent
  BY <1>1, ShippedKeys, SeedType
<1> QED BY <1>6, <1>7 DEF Has

LEMMA MarkerStep ==
  ASSUME FillsPlaceholders, Base, OneProvider, MarkerInv, [Next]_vars
  PROVE  MarkerInv'
<1> DEFINE M == \A k \in Keys : Marker \in {bundle[k], tree[k]} => k \in Marked
           W == pc \in Writes /\ (settled \/ cmd = "setup") => Full(tree)
           H == settled => \A d \in Dirs : Has(Seed, d) => Has(bundle, d)
           L == settled => Clean(bundle)
           S == settled /\ pc = "sync" => \A k \in Keys : tree[k] # Marker
<1>i. M /\ W /\ H /\ L /\ S
  BY DEF MarkerInv
<1>j. M' /\ W' /\ H' /\ L' /\ S' => MarkerInv'
  BY DEF MarkerInv
<1>t. TypeOK /\ Control /\ Present
  BY DEF Base
<1>n. \A k \in Keys : NoEnv[k] # Marker
  BY NoEnvType, Distinct
<1>s. release' = release => Seed' = Seed
  BY SeedStays
<1>0. ASSUME UNCHANGED <<bundle, release, settled>>, tree' = tree \/ tree' = NoEnv,
             pc' \notin Writes \cup {"sync"}
      PROVE  MarkerInv'
  <2>1. M' /\ W' /\ H' /\ L' /\ S'
    BY <1>0, <1>i, <1>n, <1>s DEF Clean
  <2> QED BY <1>j, <2>1
<1>2. CASE SeedDirectory
  <2>1. PICK i \in Unseeded : bundle' = Written(bundle, Order[i], Seed)
    BY <1>2 DEF SeedDirectory
  <2>2. UNCHANGED <<tree, release, pc, cmd, settled>> /\ pc = "seed" /\ Seed' = Seed
    BY <1>2, <1>s DEF SeedDirectory, process, history
  <2>3. ~ settled
    <3>1. Order[i] \in Dirs /\ Has(Seed, Order[i]) /\ ~ Has(bundle, Order[i])
      BY DEF Unseeded, Dirs
    <3> QED BY <1>i, <3>1
  <2>4. M'
    <3>1. \A k \in Keys : Seed[k] = Marker => k \in Marked
      BY <1>t, SeedType DEF Marked
    <3> QED BY <1>i, <2>1, <2>2, <3>1 DEF Written
  <2>5. W' /\ H' /\ L' /\ S'
    BY <2>2, <2>3 DEF Writes
  <2> QED BY <1>j, <2>4, <2>5
<1>5. ASSUME NEW options \in Options, Resolve(options) PROVE MarkerInv'
  <2>1. Full(tree') /\ \A k \in Keys : tree'[k] = Marker => k \in Marked
    BY <1>5, SetupFills
  <2>2. UNCHANGED <<bundle, release>> /\ Seed' = Seed /\ ~ settled'
    BY <1>5, <1>s DEF Resolve, files
  <2>3. Full(tree)'
    BY <2>1, <2>2 DEF Full, Clean
  <2>4. M' /\ W' /\ H' /\ L' /\ S'
    BY <1>i, <2>1, <2>2, <2>3
  <2> QED BY <1>j, <2>4
<1>6. CASE WriteBundle
  <2>1. PICK i \in todo : IsNext(i) /\ bundle' = Written(bundle, Order[i], tree)
    BY <1>6 DEF WriteBundle
  <2>2. /\ UNCHANGED <<tree, release, cmd, settled>> /\ Seed' = Seed
        /\ pc = "write" /\ pc' = "write copy" /\ pc \in Writes
    BY <1>6, <1>s DEF WriteBundle, history, Writes
  <2>3. Has(Seed, Order[i])
    BY <1>t, <2>1, <2>2 DEF Control
  <2>4. M'
    <3>1. \A k \in Keys : Seed[k] = Marker => k \in Marked
      BY <1>t, SeedType DEF Marked
    <3> QED BY <1>i, <2>1, <2>2, <3>1 DEF Written
  <2>5. W'
    BY <1>i, <2>2 DEF Full, Clean
  <2>6. H'
    BY <1>i, <1>t, <2>1, <2>2, <2>3, HasWritten DEF TypeOK
  <2>7. L'
    <3> SUFFICES ASSUME settled, NEW k \in Keys, k \notin Skipped(IsExternal(bundle'))
                 PROVE  bundle'[k] # Marker
      BY <2>2 DEF Clean
    <3>1. cmd = "reset" /\ (IsExternal(tree) <=> IsExternal(bundle)) /\ Full(tree)
      BY <1>i, <1>t, <2>2 DEF Control, OneProvider
    <3>2. IsExternal(bundle') <=> IsExternal(bundle)
      BY <1>t, <2>1, <3>1, ProviderWritten, Distinct DEF TypeOK, IsExternal
    <3>3. k \notin Skipped(IsExternal(bundle)) /\ k \notin Skipped(IsExternal(tree))
      BY <3>1, <3>2 DEF Skipped
    <3>4. bundle[k] # Marker /\ tree[k] # Marker /\ (Seed[k] = Marker => tree[k] # Absent)
      BY <1>i, <3>1, <3>3 DEF Full, Clean
    <3>5. bundle'[k] = bundle[k] \/ bundle'[k] = IF tree[k] = Absent THEN Seed[k] ELSE tree[k]
      BY <2>1 DEF Written
    <3> QED BY <3>4, <3>5
  <2>8. S'
    BY <2>2
  <2> QED BY <1>j, <2>4, <2>5, <2>6, <2>7, <2>8
<1>7. CASE WriteCopy
  <2>1. /\ UNCHANGED <<bundle, tree, release, cmd, settled>> /\ Seed' = Seed
        /\ pc' = "write" /\ pc \in Writes
    BY <1>7, <1>s DEF WriteCopy, history, Writes
  <2>2. M' /\ W' /\ H' /\ L' /\ S'
    BY <1>i, <2>1 DEF Full, Clean
  <2> QED BY <1>j, <2>2
<1>8. CASE Persisted
  <2>1. /\ UNCHANGED <<bundle, release>> /\ Seed' = Seed /\ pc' = "idle" /\ tree' = NoEnv
        /\ settled' = (settled \/ cmd = "setup") /\ pc = "write" /\ todo = {} /\ pc \in Writes
    BY <1>8, <1>s DEF Persisted, End, files, Writes
  <2>2. ASSUME cmd = "setup", NEW k \in Keys, Has(Seed, DirOf[k])
        PROVE  bundle[k] = IF tree[k] = Absent THEN Seed[k] ELSE tree[k]
    BY <2>1, <2>2, AllWritten
  <2>3. cmd = "setup" => \A d \in Dirs : Has(Seed, d) => Has(bundle, d)
    BY <2>2 DEF Has
  <2>4. cmd = "setup" => Clean(bundle)
    <3> SUFFICES ASSUME cmd = "setup", NEW k \in Keys, k \notin Skipped(IsExternal(bundle)),
                        bundle[k] = Marker
                 PROVE  FALSE
      BY DEF Clean
    <3>1. k \in SoFar
      BY <1>t, Distinct DEF Present
    <3>2. Has(Seed, DirOf[k])
      BY <1>t, <3>1, KnownDirectory DEF FillsPlaceholders
    <3>3. bundle[k] = IF tree[k] = Absent THEN Seed[k] ELSE tree[k]
      BY <2>2, <3>2
    <3>4. bundle[Provider] = tree[Provider]
      BY <1>t, <2>1, <2>2, ProviderPlain, RootAndRagShipped DEF OneProvider
    <3>5. Full(tree) /\ k \notin Skipped(IsExternal(tree))
      BY <1>i, <2>1, <3>4 DEF IsExternal
    <3> QED BY <3>3, <3>5 DEF Full, Clean
  <2>5. M' /\ W' /\ H' /\ L' /\ S'
    BY <1>i, <1>n, <2>1, <2>3, <2>4 DEF Writes, Clean
  <2> QED BY <1>j, <2>5
<1>9. CASE BeginStart
  <2>1. /\ UNCHANGED <<bundle, release, settled>> /\ Seed' = Seed /\ pc' = "sync"
    BY <1>9, <1>s DEF BeginStart, files, history
  <2>2. /\ \A k \in Keys : tree'[k] = Marker => k \in Marked
        /\ settled => \A k \in Keys : tree'[k] # Marker
    BY <1>9, StartFills
  <2>3. M' /\ W' /\ H' /\ L' /\ S'
    BY <1>i, <2>1, <2>2 DEF Writes, Clean
  <2> QED BY <1>j, <2>3
<1>10. CASE SyncDirectory
  <2>1. PICK i \in Unsynced :
          /\ bundle' = [l \in Keys |-> IF DirOf[l] = Order[i] /\ tree[l] # Absent THEN tree[l]
                                       ELSE bundle[l]]
          /\ tree' = [l \in Keys |-> IF DirOf[l] = Order[i] THEN Absent ELSE tree[l]]
    BY <1>10 DEF SyncDirectory
  <2>2. UNCHANGED <<release, cmd, settled>> /\ pc = "sync" /\ pc' = "sync" /\ Seed' = Seed
    BY <1>10, <1>s DEF SyncDirectory, history
  <2>3. M'
    BY <1>i, <2>1, Distinct
  <2>4. H'
    <3>1. \A d : Has(bundle, d) => Has(bundle', d)
      BY <2>1 DEF Has
    <3> QED BY <1>i, <2>2, <3>1
  <2>5. IsExternal(bundle') <=> IsExternal(bundle)
    BY <2>1, <2>2, ProviderPlain, Distinct DEF OneProvider, IsExternal
  <2>6. L'
    <3>1. Skipped(IsExternal(bundle')) = Skipped(IsExternal(bundle))
      BY <2>5 DEF Skipped
    <3> QED BY <1>i, <2>1, <2>2, <3>1 DEF Clean
  <2>7. W' /\ S'
    BY <1>i, <2>1, <2>2, Distinct DEF Writes
  <2> QED BY <1>j, <2>3, <2>4, <2>6, <2>7
<1>16. CASE Reset
  <2>1. UNCHANGED <<bundle, release, cmd, settled>> /\ cmd = "reset" /\ pc' = "write" /\ Seed' = Seed
    BY <1>16, <1>t, <1>s DEF Reset, files, Control
  <2>2. /\ \A k \in Keys : tree'[k] = Marker => k \in Marked
        /\ settled => Full(tree')
    BY <1>16, ResetFills
  <2>3. M' /\ W' /\ H' /\ L' /\ S'
    BY <1>i, <2>1, <2>2 DEF Full, Clean
  <2> QED BY <1>j, <2>3
<1>17. ASSUME NEW l \in Editable, Edit(l) PROVE MarkerInv'
  <2>1. /\ UNCHANGED <<release, tree, pc, cmd, settled>> /\ pc = "idle" /\ Seed' = Seed
        /\ bundle[l] \in {Shipped, Replace} /\ bundle' = [bundle EXCEPT ![l] = Chosen]
    BY <1>17, <1>s DEF Edit, process
  <2>2. bundle \in [Keys -> Values] /\ l \in Keys
    BY <1>t, SetupAssumption DEF TypeOK, Envs
  <2>3. \A k \in Keys : /\ bundle'[k] = Marker => bundle[k] = Marker
                        /\ bundle[k] # Absent => bundle'[k] # Absent
    BY <2>1, <2>2, Distinct
  <2>4. IsExternal(bundle') <=> IsExternal(bundle)
    BY <2>1, <2>2, ProviderPlain, Distinct DEF IsExternal
  <2>5. Skipped(IsExternal(bundle')) = Skipped(IsExternal(bundle))
    BY <2>4 DEF Skipped
  <2>6. M'
    BY <1>i, <2>1, <2>3
  <2>7. H'
    BY <1>i, <2>1, <2>3 DEF Has
  <2>8. L'
    BY <1>i, <2>1, <2>3, <2>5 DEF Clean
  <2>9. W' /\ S'
    BY <2>1 DEF Writes
  <2> QED BY <1>j, <2>6, <2>7, <2>8, <2>9
<1>18. CASE Checkout
  <2>1. UNCHANGED <<bundle, tree, pc, settled>> /\ pc = "idle" /\ release' = release + 1
        /\ release' \in Releases
    BY <1>18, <1>t, SetupAssumption DEF Checkout, files, process, history, TypeOK, Releases
  <2>2. ASSUME NEW d, Has(Seed', d) PROVE Has(Seed, d)
    BY <1>18, <1>t, <2>2, NoNewDirectory DEF FillsPlaceholders
  <2>3. M' /\ W' /\ H' /\ L' /\ S'
    BY <1>i, <2>1, <2>2 DEF Writes, Clean
  <2> QED BY <1>j, <2>3
<1>20. CASE UNCHANGED vars
  <2>1. UNCHANGED <<bundle, tree, pc, cmd, release, settled>> /\ Seed' = Seed
    BY <1>20, <1>s DEF vars, files, process, history
  <2>2. M' /\ W' /\ H' /\ L' /\ S'
    BY <1>i, <2>1 DEF Full, Clean
  <2> QED BY <1>j, <2>2
<1>21. CASE \/ BeginSetup \/ SeedManifest \/ Refuse \/ Synced \/ CopyDirectory
            \/ (\E up \in SUBSET Volumes : ComposeUp(up))
            \/ (\E down \in SUBSET Volumes : ComposeDown(down))
            \/ (\E config \in BOOLEAN : Purge(config)) \/ Kill
  <2>1. pc' \notin Writes \cup {"sync"} /\ (tree' = tree \/ tree' = NoEnv)
        /\ UNCHANGED <<bundle, release, settled>>
    BY <1>21 DEF BeginSetup, SeedManifest, Refuse, Synced, CopyDirectory, ComposeUp,
                 ComposeDown, Purge, Kill, End, process, files, history, Writes
  <2> QED BY <1>0, <2>1
<1> QED
  BY <1>2, <1>5, <1>6, <1>7, <1>8, <1>9, <1>10, <1>16, <1>17, <1>18, <1>20, <1>21 DEF Next

(* Once a setup has completed, no service starts with a placeholder for a  *)
(* secret, in a newer release or after failed commands either.             *)
THEOREM PlaceholdersAreFilled == ASSUME FillsPlaceholders PROVE Spec => []NoPlaceholders
<1> DEFINE Inv == Base /\ OneProvider /\ MarkerInv
<1>1. Init => Inv
  <2> SUFFICES ASSUME Init PROVE OneProvider /\ MarkerInv
    BY InitBase
  <2>1. OneProvider
    BY DEF Init, OneProvider, Writes
  <2>2. MarkerInv
    BY NoEnvType, Distinct DEF Init, MarkerInv, Writes
  <2> QED BY <2>1, <2>2
<1>2. Inv /\ [Next]_vars => Inv'
  BY BaseStep, ProviderStep, MarkerStep
<1>3. Inv => NoPlaceholders
  <2> SUFFICES ASSUME Inv, pc = "copy", todo = {}, settled, NEW k \in Keys,
                      k \notin Skipped(copy[Provider] = External), copy[k] = Marker
               PROVE  FALSE
    BY DEF NoPlaceholders
  <2>1. TypeOK /\ Present
    BY DEF Base
  <2>2. ASSUME NEW l \in Keys, l \in SoFar PROVE copy[l] = bundle[l]
    <3>1. Has(Seed, DirOf[l])
      BY <2>1, <2>2, KnownDirectory DEF FillsPlaceholders
    <3>2. CASE Has(bundle, DirOf[l])
      BY <3>1, <3>2, AllCopied
    <3>3. CASE ~ Has(bundle, DirOf[l])
      BY <2>1, <3>3 DEF Present, Has
    <3> QED BY <3>2, <3>3
  <2>3. Provider \in Keys /\ Provider \in SoFar /\ k \in SoFar
    BY <2>1, ProviderPlain, RootAndRagShipped, ShippedSoFar, Distinct DEF Present
  <2>4. copy[k] = bundle[k] /\ copy[Provider] = bundle[Provider]
    BY <2>2, <2>3
  <2> QED BY <2>4 DEF MarkerInv, Clean, IsExternal
<1> QED BY <1>1, <1>2, <1>3, PTL DEF Spec

-----------------------------------------------------------------------------
(* Edits.                                                                  *)
LEMMA MovedAt ==
  ASSUME TypeOK, NEW env \in Envs, NEW old \in DOMAIN Moves, NEW new, new = Moves[old],
         new \notin Old
  PROVE  Migrated(env)[new] = IF env[new] = Absent THEN env[old] ELSE env[new]
<1> DEFINE Targets == {Moves[o] : o \in DOMAIN Moves}
           o == CHOOSE x \in DOMAIN Moves : Moves[x] = new
<1>1. new \in Targets /\ new \in Keys
  BY SetupAssumption DEF Moves, TypeOK
<1>2. o \in DOMAIN Moves /\ Moves[o] = new
  OBVIOUS
<1>3. \A x, y \in DOMAIN Moves : Moves[x] = Moves[y] => x = y
  BY SetupAssumption DEF Moves, TypeOK
<1>4. o = old
  BY <1>2, <1>3
<1>5. DOMAIN Moved(env) = Targets
      /\ Moved(env)[new] = IF env[new] = Absent THEN env[o] ELSE env[new]
  BY <1>1 DEF Moved
<1> HIDE DEF Targets, o
<1>6. Migrated(env)[new] = Moved(env)[new]
  BY <1>1, <1>5 DEF Migrated, Over
<1> QED BY <1>4, <1>5, <1>6

LEMMA StaysAt ==
  ASSUME TypeOK, NEW env \in Envs, NEW k \in Keys
  PROVE  /\ k \in Old => Migrated(env)[k] = Absent
         /\ k \notin Old /\ env[k] # Absent => Migrated(env)[k] = env[k]
<1> DEFINE Targets == {Moves[o] : o \in DOMAIN Moves}
<1>1. DOMAIN Moved(env) = Targets
  BY DEF Moved
<1>2. k \in Targets /\ env[k] # Absent => Moved(env)[k] = env[k]
  BY DEF Moved
<1> HIDE DEF Targets
<1> QED BY <1>1, <1>2 DEF Migrated, Over

(* What the operator chose, and is no copy, is not overwritten.            *)
LEMMA GeneratedKeeps ==
  ASSUME Room, NEW env \in Envs, NEW seed, NEW external \in BOOLEAN, NEW force \in BOOLEAN,
         NEW k \in Keys, k \notin Copies(external), ~ FillsIn(k, env, seed, external, force)
  PROVE  GenerateMissing(env, seed, external, force)[k] = env[k]
<1> DEFINE F == Filled(env, seed, external, force)
<1>1. F \in Envs /\ F[k] = env[k]
  BY FilledAt
<1>2. \A c \in Sources \ Skipped(external) : k \notin Aliases[c]
  BY DEF Copies
<1> HIDE DEF F
<1>3. FannedOut(F, external)[k] = F[k]
  BY <1>1, <1>2, FannedAt, SMTT(30)
<1> QED BY <1>1, <1>3 DEF GenerateMissing, F

LEMMA EditablePlace ==
  ASSUME TypeOK, KeepsEdits, NEW k \in Editable
  PROVE  /\ k \in Keys /\ Place(k) \in Keys /\ Place(k) \notin Old
         /\ Place(k) \notin {Provider, Profiles}
         /\ k \in Moving =>
              /\ k \in DOMAIN Moves /\ k \in Old /\ Place(k) = Moves[k] /\ Seed[k] = Absent
              /\ k \notin {Provider, Profiles}
              /\ Place(k) \notin Marked /\ DirOf[Place(k)] # Rag
              /\ Has(Seed, DirOf[Place(k)])
         /\ k \notin Moving => Place(k) = k
<1>1. release \in Releases /\ k \in Keys
  BY SetupAssumption DEF TypeOK
<1>2. k \notin {Profiles, Provider} \cup Removed[release]
  BY <1>1 DEF KeepsEdits
<1>3. CASE k \in DOMAIN Moves
  <2> DEFINE new == Moves[k]
  <2>1. /\ k \notin Ships[release]
        /\ new \notin Marked \cup {Profiles, Provider} /\ DirOf[new] # Rag
        /\ new \notin DOMAIN Renamed[release] \cup Removed[release]
    BY <1>1, <1>3 DEF KeepsEdits, Moves
  <2>2. new \in Keys
    BY <1>1, <1>3, SetupAssumption DEF Moves
  <2>3. PICK l \in Ships[release] : DirOf[l] = DirOf[new]
    BY <1>1, <1>3, SetupAssumption DEF Moves
  <2>4. l \in Keys /\ Seed[l] # Absent
    BY <1>1, ShippedKeys, SeedType
  <2>5. Seed[k] = Absent /\ Has(Seed, DirOf[new])
    BY <1>1, <2>1, <2>3, <2>4, SeedType DEF Has
  <2>6. Place(k) = new /\ k \in Old /\ new \notin Old
    BY <1>3, <2>1 DEF Place, Old, Moves
  <2> HIDE DEF new
  <2>7. Place(k) = Moves[k]
    BY <1>3 DEF Place
  <2> QED BY <1>1, <1>2, <1>3, <2>1, <2>2, <2>5, <2>6, <2>7 DEF Moving
<1>4. CASE k \notin DOMAIN Moves
  BY <1>1, <1>2, <1>4 DEF Place, Moving, Old
<1> QED BY <1>3, <1>4

LEMMA LoadedThere ==
  ASSUME AllSeeded, NEW k \in Keys, bundle[k] # Absent \/ Has(Seed, DirOf[k])
  PROVE  Loaded[k] = bundle[k]
<1>1. DirOf[k] \in Dirs
  BY SetupAssumption
<1>2. Has(bundle, DirOf[k])
  BY <1>1 DEF AllSeeded, Has
<1> QED BY <1>2 DEF Loaded

LEMMA EditsResolved ==
  ASSUME Base, KeepsEdits, Edited, ~ torn, NEW options \in Options, Resolve(options)
  PROVE  /\ \A k \in edited' : tree'[Place(k)] = Chosen
         /\ \A k \in Moving : tree'[k] = Absent
<1> DEFINE external == BecomesExternal(options)
           env == Migrated(Loaded)
           filled == GenerateMissing(env, Seed, external, options.force)
<1>1. options.force \in BOOLEAN /\ external \in BOOLEAN /\ Room
  BY SetupAssumption DEF BecomesExternal, Resolve
<1>2. TypeOK /\ Loaded \in Envs /\ env \in Envs
  BY LoadedType, MigratedAt DEF Base
<1>3. AllSeeded /\ MoveInv /\ EditInv /\ edited \subseteq Editable /\ pc = "resolve"
  BY DEF Edited, SeedInv, Resolve
<1>p. pc \notin Writes
  BY <1>3 DEF Writes
<1>4. filled \in Envs
  BY <1>1, <1>2, GeneratedType
<1>5. tree' = Resolved(filled, options)
  BY DEF Resolve
<1>6. \A k \in Keys \ {Provider, Profiles} : tree'[k] = filled[k]
  BY <1>4, <1>5, ResolvedAt
<1>7. edited' = edited \ (Copies(external) \cup (IF options.force THEN Generated ELSE {}))
  BY DEF Resolve
<1>8. ASSUME NEW k \in edited PROVE env[Place(k)] = Chosen
  <2>1. /\ k \in Keys /\ Place(k) \in Keys /\ Place(k) \notin Old
        /\ k \in Moving => /\ k \in DOMAIN Moves /\ Place(k) = Moves[k]
                           /\ Has(Seed, DirOf[Place(k)])
        /\ k \notin Moving => Place(k) = k
    BY <1>2, <1>3, EditablePlace
  <2>2. Chosen \in {bundle[k], bundle[Place(k)]}
    BY <1>3, <1>p DEF EditInv
  <2>3. CASE bundle[Place(k)] = Chosen
    <3>1. Loaded[Place(k)] = Chosen
      BY <1>3, <2>1, <2>3, LoadedThere, Distinct
    <3> QED BY <1>2, <2>1, <3>1, StaysAt, Distinct
  <2>4. CASE bundle[Place(k)] # Chosen
    <3>1. k \in Moving /\ bundle[k] = Chosen
      BY <2>1, <2>2, <2>4
    <3>2. bundle[Place(k)] = Absent
      BY <1>3, <1>p, <2>1, <3>1, Distinct DEF MoveInv
    <3>3. Loaded[k] = Chosen /\ Loaded[Place(k)] = Absent
      BY <1>3, <2>1, <3>1, <3>2, LoadedThere, Distinct
    <3> QED BY <1>2, <2>1, <3>1, <3>3, MovedAt
  <2> QED BY <2>3, <2>4
<1>9. ASSUME NEW k \in edited' PROVE tree'[Place(k)] = Chosen
  <2>1. k \in edited /\ k \in Editable /\ k \notin Copies(external)
        /\ (options.force => k \notin Generated)
    BY <1>3, <1>7, <1>9
  <2>2. /\ Place(k) \in Keys /\ Place(k) \notin {Provider, Profiles}
        /\ k \in Moving => Place(k) \notin Marked
        /\ k \notin Moving => Place(k) = k
    BY <1>2, <2>1, EditablePlace
  <2>3. Place(k) \notin Copies(external) /\ (options.force => Place(k) \notin Generated)
    BY <2>1, <2>2 DEF Copies, Marked
  <2>4. env[Place(k)] = Chosen
    BY <1>8, <2>1
  <2> HIDE DEF env, external
  <2>5. ~ FillsIn(Place(k), env, Seed, external, options.force)
    BY <2>3, <2>4, Distinct DEF FillsIn, Firm
  <2>6. filled[Place(k)] = Chosen
    BY <1>1, <1>2, <2>2, <2>3, <2>4, <2>5, GeneratedKeeps
  <2> QED BY <1>6, <2>2, <2>6
<1>10. ASSUME NEW k \in Moving PROVE tree'[k] = Absent
  <2>1. k \in Keys /\ k \in Old /\ Seed[k] = Absent /\ k \notin {Provider, Profiles}
    BY <1>2, EditablePlace DEF Moving
  <2>2. env[k] = Absent
    BY <1>2, <2>1, StaysAt
  <2> HIDE DEF env, external
  <2>3. ~ FillsIn(k, env, Seed, external, options.force)
    BY <2>1, Distinct DEF FillsIn
  <2>4. filled[k] = Absent
    BY <1>1, <1>2, <2>1, <2>2, <2>3, GeneratedAt
  <2> QED BY <1>6, <2>1, <2>4
<1> QED BY <1>9, <1>10

LEMMA EditsReset ==
  ASSUME Base, KeepsEdits, Edited, ~ torn, ~ torn', Reset
  PROVE  /\ \A k \in edited' : tree'[Place(k)] = Chosen /\ bundle[Place(k)] = Chosen
         /\ \A k \in Moving : tree'[k] = Absent /\ bundle[k] = Absent
<1> DEFINE env == [k \in Keys |-> IF DirOf[k] = Rag THEN Seed[k] ELSE Loaded[k]]
           external == Loaded[Provider] = External
<1>1. TypeOK /\ env \in Envs /\ external \in BOOLEAN /\ FALSE \in BOOLEAN /\ Room
  BY SeedType, LoadedType DEF Envs, Reset, TypeOK, Base
<1>2. tree' = GenerateMissing(env, Seed, external, FALSE)
  BY DEF Reset
<1>3. AllSeeded /\ EditInv /\ edited \subseteq Editable /\ pc = "reset"
  BY DEF Edited, SeedInv, Reset
<1>p. pc \notin Writes
  BY <1>3 DEF Writes
<1>4. \A old \in DOMAIN Moves : bundle[old] = Absent
  BY DEF Reset
<1>5. edited' = edited \ ({k \in Keys : DirOf[k] = Rag} \cup Copies(external))
  BY DEF Reset
<1>6. ASSUME NEW k \in edited' PROVE tree'[Place(k)] = Chosen /\ bundle[Place(k)] = Chosen
  <2>1. k \in edited /\ k \in Editable /\ k \in Keys /\ DirOf[k] # Rag /\ k \notin Copies(external)
    BY <1>3, <1>5, <1>6, SetupAssumption
  <2>2. /\ Place(k) \in Keys
        /\ k \in Moving => /\ Place(k) \notin Marked /\ DirOf[Place(k)] # Rag
                           /\ k \in DOMAIN Moves
        /\ k \notin Moving => Place(k) = k
    BY <1>1, <2>1, EditablePlace
  <2>3. DirOf[Place(k)] # Rag /\ Place(k) \notin Copies(external)
    BY <2>1, <2>2 DEF Copies, Marked
  <2>4. bundle[Place(k)] = Chosen
    <3>1. Chosen \in {bundle[k], bundle[Place(k)]}
      BY <1>3, <1>p, <2>1 DEF EditInv
    <3> QED BY <1>4, <2>2, <3>1, Distinct
  <2>5. env[Place(k)] = Chosen
    BY <1>3, <2>2, <2>3, <2>4, LoadedThere, Distinct
  <2> HIDE DEF env, external
  <2>6. ~ FillsIn(Place(k), env, Seed, external, FALSE)
    BY <2>5, Distinct DEF FillsIn, Firm
  <2> QED BY <1>1, <1>2, <2>2, <2>3, <2>4, <2>5, <2>6, GeneratedKeeps, ZenonT(30)
<1>7. ASSUME NEW k \in Moving PROVE tree'[k] = Absent /\ bundle[k] = Absent
  <2>1. k \in Keys /\ k \in DOMAIN Moves /\ Seed[k] = Absent
    BY <1>1, EditablePlace DEF Moving
  <2>2. bundle[k] = Absent /\ env[k] = Absent
    BY <1>4, <2>1 DEF Loaded
  <2> HIDE DEF env, external
  <2>3. ~ FillsIn(k, env, Seed, external, FALSE)
    BY <2>1, Distinct DEF FillsIn
  <2> QED BY <1>1, <1>2, <2>1, <2>2, <2>3, GeneratedAt
<1> QED BY <1>6, <1>7

LEMMA TornStays == [Next]_vars /\ torn => torn'
<1> SUFFICES ASSUME [Next]_vars, torn PROVE torn'
  OBVIOUS
<1>1. CASE Next
  BY <1>1 DEF Next, BeginSetup, SeedDirectory, SeedManifest, Refuse, Resolve, WriteBundle,
              WriteCopy, Persisted, BeginStart, SyncDirectory, Synced, CopyDirectory,
              ComposeUp, ComposeDown, Purge, Reset, Edit, Checkout, Kill, history
<1>2. CASE UNCHANGED vars
  BY <1>2 DEF vars, history
<1> QED BY <1>1, <1>2

(* No command removes the file of a directory from the bundle.             *)
LEMMA DirectoriesStay ==
  ASSUME TypeOK, Control, [Next]_vars, NEW d, Has(bundle, d)
  PROVE  Has(bundle', d)
<1>1. CASE bundle' = bundle
  BY <1>1
<1>2. CASE SeedDirectory
  <2>1. PICK i \in Unseeded : bundle' = Written(bundle, Order[i], Seed)
    BY <1>2 DEF SeedDirectory
  <2>2. Has(Seed, Order[i])
    BY DEF Unseeded
  <2> QED BY <2>1, <2>2, SeedType, HasWritten DEF TypeOK
<1>6. CASE WriteBundle
  <2>1. PICK i \in todo : bundle' = Written(bundle, Order[i], tree)
    BY <1>6 DEF WriteBundle
  <2>2. Has(Seed, Order[i])
    BY <1>6 DEF WriteBundle, Control, Writes
  <2> QED BY <2>1, <2>2, HasWritten DEF TypeOK
<1>10. CASE SyncDirectory
  <2>1. \A k \in Keys : bundle[k] # Absent => bundle'[k] # Absent
    BY <1>10 DEF SyncDirectory
  <2> QED BY <2>1 DEF Has
<1>17. ASSUME NEW k \in Editable, Edit(k) PROVE Has(bundle', d)
  <2>1. \A l \in Keys : bundle[l] # Absent => bundle'[l] # Absent
    BY <1>17, Distinct DEF Edit, TypeOK, Envs
  <2> QED BY <2>1 DEF Has
<1>20. bundle' = bundle \/ SeedDirectory \/ WriteBundle \/ SyncDirectory
       \/ \E k \in Editable : Edit(k)
  BY DEF Next, BeginSetup, SeedManifest, Refuse, Resolve, WriteCopy, Persisted, BeginStart,
         Synced, CopyDirectory, ComposeUp, ComposeDown, Purge, Reset, Checkout, Kill,
         vars, files
<1> QED BY <1>1, <1>2, <1>6, <1>10, <1>17, <1>20

LEMMA SeededStays ==
  ASSUME TypeOK, Control, SameDirectories, AllSeeded, [Next]_vars
  PROVE  AllSeeded'
<1> SUFFICES ASSUME NEW d \in Dirs, Has(Seed', d) PROVE Has(bundle', d)
  BY DEF AllSeeded
<1>1. release' = release \/ Checkout
  BY DEF Next, BeginSetup, SeedDirectory, SeedManifest, Refuse, Resolve, WriteBundle, WriteCopy,
         Persisted, BeginStart, SyncDirectory, Synced, CopyDirectory, ComposeUp, ComposeDown,
         Purge, Reset, Edit, Kill, vars
<1>2. Has(Seed, d)
  BY <1>1, SeedStays, NoNewDirectory
<1> QED BY <1>2, DirectoriesStay DEF AllSeeded

LEMMA Seeded == Unseeded = {} <=> AllSeeded
BY DEF Unseeded, AllSeeded, Dirs

LEMMA SeedInvStep ==
  ASSUME Base, SameDirectories, SeedInv, ~ torn', [Next]_vars
  PROVE  SeedInv'
<1>t. TypeOK /\ Control
  BY DEF Base
<1>a. CASE AllSeeded
  BY <1>a, <1>t, SeededStays DEF SeedInv
<1>b. CASE ~ AllSeeded
  <2>1. /\ edited = {}
        /\ \/ pc = "seed" /\ \A k \in Keys : bundle[k] # Absent => k \in Ships[release]
           \/ pc = "idle" /\ ~ deployed /\ \A k \in Keys : bundle[k] = Absent
    BY <1>b DEF SeedInv
  <2>2. CASE BeginSetup
    BY <2>1, <2>2 DEF BeginSetup, SeedInv, files, history
  <2>3. CASE SeedDirectory
    <3>1. PICK i \in Unseeded : bundle' = Written(bundle, Order[i], Seed)
      BY <2>3 DEF SeedDirectory
    <3>2. UNCHANGED <<release, edited, pc>> /\ pc = "seed"
      BY <2>3 DEF SeedDirectory, process, history
    <3>3. \A k \in Keys : bundle'[k] # Absent => k \in Ships[release]
      BY <1>t, <2>1, <3>1, <3>2, SeedType DEF Written
    <3> QED BY <2>1, <3>2, <3>3 DEF SeedInv
  <2>4. CASE \/ UNCHANGED vars \/ Checkout \/ \E down \in SUBSET Volumes : ComposeDown(down)
    <3>1. UNCHANGED <<bundle, pc, deployed, edited>> /\ (pc = "seed" => release' = release)
      BY <2>4 DEF vars, files, process, history, Checkout, ComposeDown
    <3> QED BY <2>1, <3>1 DEF SeedInv
  <2>5. ~ Kill
    BY <1>t, <2>1 DEF Kill, Control
  <2>6. ~ SeedManifest
    BY <1>b, Seeded DEF SeedManifest
  <2>7. ASSUME NEW k \in Editable, Edit(k) PROVE FALSE
    BY <2>1, <2>7, Distinct, SetupAssumption DEF Edit
  <2>8. ~ BeginStart /\ \A config \in BOOLEAN : ~ Purge(config)
    BY <2>1 DEF BeginStart, Purge
  <2>9. /\ ~ Refuse /\ ~ WriteBundle /\ ~ WriteCopy /\ ~ Persisted /\ ~ SyncDirectory
        /\ ~ Synced /\ ~ CopyDirectory /\ ~ Reset
        /\ \A options \in Options : ~ Resolve(options)
        /\ \A up \in SUBSET Volumes : ~ ComposeUp(up)
    BY <2>1 DEF Refuse, WriteBundle, WriteCopy, Persisted, SyncDirectory, Synced, CopyDirectory,
                Reset, Resolve, ComposeUp
  <2> QED BY <2>2, <2>3, <2>4, <2>5, <2>6, <2>7, <2>8, <2>9 DEF Next
<1> QED BY <1>a, <1>b

LEMMA MovesStay ==
  release' = release => Seed' = Seed /\ Moves' = Moves /\ Moving' = Moving
                        /\ \A k : Place(k)' = Place(k)
BY DEF Seed, Moves, Moving, Place

(* A move that a release has is in the next one, and the place that a      *)
(* release is the first to move to has no value yet.                       *)
LEMMA MovesLater ==
  ASSUME TypeOK, Present, KeepsEdits, Checkout, NEW k \in Editable
  PROVE  /\ k \in DOMAIN Moves => k \in DOMAIN Moves' /\ Moves'[k] = Moves[k]
         /\ k \in DOMAIN Moves' /\ k \notin DOMAIN Moves => bundle[Moves'[k]] = Absent
<1> DEFINE next == release + 1
<1>1. /\ release \in Releases /\ next \in Releases /\ release < next /\ ~ next < release
      /\ \A q \in 1..release : q \in Releases /\ ~ release < q /\ q < next
  BY SetupAssumption DEF Checkout, TypeOK, Releases
<1>2. Moves = Renamed[release] /\ Moves' = Renamed[next]
  BY DEF Moves, Checkout
<1> HIDE DEF next
<1>3. ASSUME NEW q \in Releases, NEW r \in Releases, k \in DOMAIN Renamed[r]
      PROVE  IF k \in DOMAIN Renamed[q] THEN Renamed[q][k] = Renamed[r][k]
             ELSE q < r /\ Renamed[r][k] \notin Known(q)
  BY <1>3 DEF KeepsEdits
<1>4. k \in DOMAIN Moves => k \in DOMAIN Moves' /\ Moves'[k] = Moves[k]
  BY <1>1, <1>2, <1>3
<1>5. ASSUME k \in DOMAIN Moves', k \notin DOMAIN Moves PROVE bundle[Moves'[k]] = Absent
  <2>1. ASSUME NEW q \in 1..release PROVE Moves'[k] \notin Known(q)
    <3>1. k \notin DOMAIN Renamed[q]
      BY <1>1, <1>2, <1>3, <1>5
    <3> QED BY <1>1, <1>2, <1>3, <1>5, <3>1
  <2>2. Moves'[k] \notin SoFar
    BY <2>1 DEF SoFar
  <2>3. Moves'[k] \in Keys
    BY <1>1, <1>2, <1>5, SetupAssumption
  <2> QED BY <2>2, <2>3 DEF Present
<1> QED BY <1>4, <1>5

LEMMA MoveStep ==
  ASSUME KeepsEdits, Base, OneProvider, Edited, ~ torn, ~ torn', [Next]_vars
  PROVE  MoveInv'
<1> DEFINE M == pc \notin Writes =>
                  \A k \in Moving : Absent \in {bundle[k], bundle[Moves[k]]}
           S == pc = "sync" => \A k \in Moving : /\ tree[k] = Absent
                                                 /\ Absent \in {bundle[k], tree[Moves[k]]}
           W == pc \in Writes => \A k \in Moving : /\ tree[k] = Absent
                                                   /\ cmd = "reset" => bundle[k] = Absent
<1>i. M /\ S /\ W /\ SeedInv
  BY DEF Edited, MoveInv
<1>j. M' /\ S' /\ W' => MoveInv'
  BY DEF MoveInv
<1>t. TypeOK /\ Control /\ Present /\ SameDirectories
  BY DEF Base, KeepsEdits
<1>m. ASSUME NEW k \in Moving
      PROVE  /\ k \in Keys /\ k \in DOMAIN Moves /\ Moves[k] \in Keys /\ Moves[k] # k
             /\ Seed[k] = Absent /\ k \notin Ships[release]
  <2>1. k \in Editable /\ k \in DOMAIN Moves
    BY DEF Moving
  <2> QED BY <1>t, <2>1, EditablePlace, SeedType
<1>s. release' = release => Seed' = Seed /\ Moves' = Moves /\ Moving' = Moving
  BY MovesStay
<1>0. ASSUME UNCHANGED <<bundle, release>>, pc \notin Writes, pc' \notin Writes \cup {"sync"}
      PROVE  MoveInv'
  <2>1. M' /\ S' /\ W'
    BY <1>0, <1>i, <1>s
  <2> QED BY <1>j, <2>1
<1>2. CASE SeedDirectory
  <2>1. PICK i \in Unseeded : bundle' = Written(bundle, Order[i], Seed)
    BY <1>2 DEF SeedDirectory
  <2>2. UNCHANGED <<release, pc>> /\ pc = "seed"
    BY <1>2 DEF SeedDirectory, process
  <2>3. ASSUME NEW k \in Moving PROVE bundle'[k] = Absent
    <3>1. bundle[k] = Absent
      BY <1>i, <1>m, <2>2, Seeded DEF SeedInv
    <3> QED BY <1>m, <2>1, <3>1 DEF Written
  <2>4. M' /\ S' /\ W'
    BY <1>s, <2>2, <2>3 DEF Writes
  <2> QED BY <1>j, <2>4
<1>5. ASSUME NEW options \in Options, Resolve(options) PROVE MoveInv'
  <2>1. \A k \in Moving : tree'[k] = Absent
    BY <1>5, EditsResolved
  <2>2. release' = release /\ cmd' = "setup" /\ pc' = "write"
    BY <1>5, <1>t DEF Resolve, Control
  <2>3. M' /\ S' /\ W'
    BY <1>s, <2>1, <2>2 DEF Writes
  <2> QED BY <1>j, <2>3
<1>6. CASE WriteBundle
  <2>1. PICK i \in todo : bundle' = Written(bundle, Order[i], tree)
    BY <1>6 DEF WriteBundle
  <2>2. UNCHANGED <<tree, release, cmd>> /\ pc = "write" /\ pc' = "write copy"
    BY <1>6 DEF WriteBundle
  <2>3. \A k \in Moving : bundle[k] = Absent /\ tree[k] = Absent => bundle'[k] = Absent
    BY <1>m, <2>1 DEF Written
  <2>4. M' /\ S' /\ W'
    BY <1>i, <1>s, <2>2, <2>3 DEF Writes
  <2> QED BY <1>j, <2>4
<1>7. CASE WriteCopy
  <2>1. UNCHANGED <<bundle, tree, release, cmd>> /\ pc = "write copy" /\ pc' = "write"
    BY <1>7 DEF WriteCopy
  <2>2. M' /\ S' /\ W'
    BY <1>i, <1>s, <2>1 DEF Writes
  <2> QED BY <1>j, <2>2
<1>8. CASE Persisted
  <2>1. /\ UNCHANGED <<bundle, release>> /\ pc = "write" /\ pc' = "idle" /\ todo = {}
        /\ cmd \in {"setup", "reset"} /\ pc \in Writes
    BY <1>8, <1>t DEF Persisted, End, files, Control, Writes
  <2>2. ASSUME NEW k \in Moving PROVE bundle[k] = Absent
    <3>1. CASE cmd = "reset"
      BY <1>i, <2>1, <3>1
    <3>2. ASSUME cmd = "setup", bundle[k] # Absent PROVE FALSE
      <4>1. Has(Seed, DirOf[k])
        BY <1>m, <1>t, <3>2, KnownDirectory DEF Present
      <4>2. bundle[k] = IF tree[k] = Absent THEN Seed[k] ELSE tree[k]
        BY <1>m, <2>1, <3>2, <4>1, AllWritten
      <4> QED BY <1>i, <1>m, <2>1, <3>2, <4>2
    <3> QED BY <2>1, <3>1, <3>2
  <2>3. M' /\ S' /\ W'
    BY <1>s, <2>1, <2>2 DEF Writes
  <2> QED BY <1>j, <2>3
<1>9. CASE BeginStart
  <2>1. UNCHANGED <<bundle, release>> /\ pc = "idle" /\ pc' = "sync" /\ tree' = Additions /\ Room
    BY <1>9 DEF BeginStart, files
  <2>2. \A k \in Keys : k \notin Missing => tree'[k] = Absent
    BY <1>t, <2>1, AdditionsAt
  <2>3. ASSUME NEW k \in Moving
        PROVE  tree'[k] = Absent /\ Absent \in {bundle[k], tree'[Moves[k]]}
    <3>1. k \notin Missing /\ (bundle[k] # Absent => Moves[k] \notin Missing)
      BY <1>m DEF Missing
    <3> QED BY <1>m, <2>2, <3>1
  <2>4. M' /\ S' /\ W'
    BY <1>i, <1>s, <2>1, <2>3 DEF Writes
  <2> QED BY <1>j, <2>4
<1>10. CASE SyncDirectory
  <2>1. PICK i \in Unsynced :
          /\ bundle' = [l \in Keys |-> IF DirOf[l] = Order[i] /\ tree[l] # Absent THEN tree[l]
                                       ELSE bundle[l]]
          /\ tree' = [l \in Keys |-> IF DirOf[l] = Order[i] THEN Absent ELSE tree[l]]
    BY <1>10 DEF SyncDirectory
  <2>2. release' = release /\ pc = "sync" /\ pc' = "sync"
    BY <1>10 DEF SyncDirectory
  <2>3. ASSUME NEW k \in Moving
        PROVE  /\ tree'[k] = Absent /\ Absent \in {bundle'[k], tree'[Moves[k]]}
               /\ Absent \in {bundle'[k], bundle'[Moves[k]]}
    <3>1. /\ tree[k] = Absent /\ Absent \in {bundle[k], tree[Moves[k]]}
          /\ Absent \in {bundle[k], bundle[Moves[k]]}
      BY <1>i, <2>2 DEF Writes
    <3>2. bundle'[k] = bundle[k] /\ tree'[k] = Absent
      BY <1>m, <2>1, <3>1
    <3>3. tree[Moves[k]] = Absent =>
            tree'[Moves[k]] = Absent /\ bundle'[Moves[k]] = bundle[Moves[k]]
      BY <1>m, <2>1
    <3> QED BY <3>1, <3>2, <3>3
  <2>4. M' /\ S' /\ W'
    BY <1>s, <2>2, <2>3 DEF Writes
  <2> QED BY <1>j, <2>4
<1>16. CASE Reset
  <2>1. \A k \in Moving : tree'[k] = Absent /\ bundle[k] = Absent
    BY <1>16, EditsReset
  <2>2. UNCHANGED <<bundle, release>> /\ pc' = "write"
    BY <1>16 DEF Reset, files
  <2>3. M' /\ S' /\ W'
    BY <1>s, <2>1, <2>2 DEF Writes
  <2> QED BY <1>j, <2>3
<1>17. ASSUME NEW l \in Editable, Edit(l) PROVE MoveInv'
  <2>1. /\ UNCHANGED <<release, pc>> /\ pc = "idle"
        /\ \A k \in Keys : bundle[k] = Absent => bundle'[k] = Absent
    BY <1>17, <1>t, Distinct DEF Edit, process, TypeOK, Envs
  <2>2. ASSUME NEW k \in Moving PROVE Absent \in {bundle'[k], bundle'[Moves[k]]}
    <3>1. Absent \in {bundle[k], bundle[Moves[k]]}
      BY <1>i, <2>1 DEF Writes
    <3> QED BY <1>m, <2>1, <3>1
  <2>3. M' /\ S' /\ W'
    BY <1>s, <2>1, <2>2 DEF Writes
  <2> QED BY <1>j, <2>3
<1>18. CASE Checkout
  <2>1. UNCHANGED <<bundle, pc>> /\ pc = "idle"
    BY <1>18 DEF Checkout, files, process
  <2>2. ASSUME NEW k \in Moving' PROVE Absent \in {bundle[k], bundle[Moves'[k]]}
    <3>1. k \in Editable /\ k \in DOMAIN Moves'
      BY DEF Moving
    <3>2. CASE k \in DOMAIN Moves
      <4>1. k \in Moving /\ Moves'[k] = Moves[k]
        BY <1>18, <1>t, <3>1, <3>2, MovesLater DEF Moving
      <4> QED BY <1>i, <2>1, <4>1 DEF Writes
    <3>3. CASE k \notin DOMAIN Moves
      BY <1>18, <1>t, <3>1, <3>3, MovesLater
    <3> QED BY <3>2, <3>3
  <2>3. M' /\ S' /\ W'
    BY <2>1, <2>2 DEF Writes
  <2> QED BY <1>j, <2>3
<1>19. CASE Kill
  <2>1. UNCHANGED <<bundle, release>> /\ pc' = "idle"
    BY <1>19 DEF Kill, End, files
  <2>2. pc \in Writes => cmd = "reset"
    BY <1>19, <1>t DEF Kill, Control, Writes
  <2>3. M' /\ S' /\ W'
    BY <1>i, <1>s, <2>1, <2>2 DEF Writes
  <2> QED BY <1>j, <2>3
<1>20. CASE UNCHANGED vars
  <2>1. UNCHANGED <<bundle, tree, pc, cmd, release>>
    BY <1>20 DEF vars, files, process
  <2>2. M' /\ S' /\ W'
    BY <1>i, <1>s, <2>1
  <2> QED BY <1>j, <2>2
<1>21. CASE \/ BeginSetup \/ SeedManifest \/ Refuse \/ Synced \/ CopyDirectory
            \/ (\E up \in SUBSET Volumes : ComposeUp(up))
            \/ (\E down \in SUBSET Volumes : ComposeDown(down))
            \/ (\E config \in BOOLEAN : Purge(config))
  <2>1. UNCHANGED <<bundle, release>> /\ pc \notin Writes /\ pc' \notin Writes \cup {"sync"}
    BY <1>21 DEF BeginSetup, SeedManifest, Refuse, Synced, CopyDirectory, ComposeUp,
                 ComposeDown, Purge, End, process, files, Writes
  <2> QED BY <1>0, <2>1
<1> QED
  BY <1>2, <1>5, <1>6, <1>7, <1>8, <1>9, <1>10, <1>16, <1>17, <1>18, <1>19, <1>20, <1>21 DEF Next

LEMMA EditStep ==
  ASSUME KeepsEdits, Base, OneProvider, Edited, ~ torn, ~ torn', [Next]_vars
  PROVE  edited' \subseteq Editable /\ EditInv'
<1> DEFINE D == pc \notin Writes => \A k \in edited : Chosen \in {bundle[k], bundle[Place(k)]}
           W == pc \in Writes => \A k \in edited : /\ tree[Place(k)] = Chosen
                                                   /\ cmd = "reset" => bundle[Place(k)] = Chosen
           Goal == edited' \subseteq Editable /\ EditInv'
<1>i. D /\ W /\ SeedInv /\ edited \subseteq Editable
  BY DEF Edited, EditInv
<1>j. D' /\ W' => EditInv'
  BY DEF EditInv
<1>t. TypeOK /\ Control /\ Present /\ SameDirectories
  BY DEF Base, KeepsEdits
<1>k. ASSUME NEW k \in edited PROVE k \in Keys /\ Place(k) \in Keys
  BY <1>i, <1>t, EditablePlace
<1>s. release' = release => Seed' = Seed /\ \A k : Place(k)' = Place(k)
  BY MovesStay
<1>0. ASSUME UNCHANGED <<bundle, release, edited>>, pc \notin Writes, pc' \notin Writes
      PROVE  Goal
  <2>1. D' /\ W'
    BY <1>0, <1>i, <1>s
  <2> QED BY <1>0, <1>i, <1>j, <2>1
<1>2. CASE SeedDirectory
  <2>1. edited' = {}
    <3>1. Unseeded # {} /\ edited' = edited
      BY <1>2 DEF SeedDirectory, history
    <3> QED BY <1>i, <3>1, Seeded DEF SeedInv
  <2> QED BY <1>j, <2>1
<1>5. ASSUME NEW options \in Options, Resolve(options) PROVE Goal
  <2>1. \A k \in edited' : tree'[Place(k)] = Chosen
    BY <1>5, EditsResolved
  <2>2. /\ release' = release /\ cmd' = "setup" /\ pc' = "write" /\ edited' \subseteq edited
    BY <1>5, <1>t DEF Resolve, Control
  <2>3. D' /\ W'
    BY <1>s, <2>1, <2>2 DEF Writes
  <2> QED BY <1>i, <1>j, <2>2, <2>3
<1>6. CASE WriteBundle
  <2>1. PICK i \in todo : bundle' = Written(bundle, Order[i], tree)
    BY <1>6 DEF WriteBundle
  <2>2. UNCHANGED <<tree, release, cmd, edited>> /\ pc = "write" /\ pc' = "write copy"
    BY <1>6 DEF WriteBundle, history
  <2>3. \A k \in Keys : bundle[k] = Chosen /\ tree[k] = Chosen => bundle'[k] = Chosen
    BY <2>1, Distinct DEF Written
  <2>4. D' /\ W'
    BY <1>i, <1>k, <1>s, <2>2, <2>3 DEF Writes
  <2> QED BY <1>i, <1>j, <2>2, <2>4
<1>7. CASE WriteCopy
  <2>1. /\ UNCHANGED <<bundle, tree, release, cmd, edited>>
        /\ pc = "write copy" /\ pc' = "write"
    BY <1>7 DEF WriteCopy, history
  <2>2. D' /\ W'
    BY <1>i, <1>s, <2>1 DEF Writes
  <2> QED BY <1>i, <1>j, <2>1, <2>2
<1>8. CASE Persisted
  <2>1. /\ UNCHANGED <<bundle, release, edited>> /\ pc = "write" /\ pc' = "idle" /\ todo = {}
        /\ cmd \in {"setup", "reset"} /\ pc \in Writes
    BY <1>8, <1>t DEF Persisted, End, files, Control, Writes
  <2>2. ASSUME NEW k \in edited PROVE bundle[Place(k)] = Chosen
    <3>1. tree[Place(k)] = Chosen /\ (cmd = "reset" => bundle[Place(k)] = Chosen)
      BY <1>i, <2>1
    <3>2. ASSUME cmd = "setup" PROVE bundle[Place(k)] = Chosen
      <4>1. Has(Seed, DirOf[Place(k)])
        BY <1>k, <1>t, <3>1, KnownDirectory, Distinct DEF Present
      <4>2. bundle[Place(k)] = IF tree[Place(k)] = Absent THEN Seed[Place(k)] ELSE tree[Place(k)]
        BY <1>k, <2>1, <3>2, <4>1, AllWritten
      <4> QED BY <3>1, <4>2, Distinct
    <3> QED BY <2>1, <3>1, <3>2
  <2>3. D' /\ W'
    BY <1>s, <2>1, <2>2 DEF Writes
  <2> QED BY <1>i, <1>j, <2>1, <2>3
<1>10. CASE SyncDirectory
  <2>1. /\ UNCHANGED <<release, edited>> /\ pc = "sync" /\ pc' = "sync"
        /\ \A l \in Keys : tree[l] = Absent => bundle'[l] = bundle[l]
    BY <1>10 DEF SyncDirectory, history
  <2>2. \A l \in Keys : bundle[l] = Chosen => bundle'[l] = Chosen
    BY <2>1, Distinct DEF OneProvider
  <2>3. D' /\ W'
    BY <1>i, <1>k, <1>s, <2>1, <2>2 DEF Writes
  <2> QED BY <1>i, <1>j, <2>1, <2>3
<1>16. CASE Reset
  <2>1. \A k \in edited' : tree'[Place(k)] = Chosen /\ bundle[Place(k)] = Chosen
    BY <1>16, EditsReset
  <2>2. UNCHANGED <<bundle, release>> /\ pc' = "write" /\ edited' \subseteq edited
    BY <1>16 DEF Reset, files
  <2>3. D' /\ W'
    BY <1>s, <2>1, <2>2 DEF Writes
  <2> QED BY <1>i, <1>j, <2>2, <2>3
<1>17. ASSUME NEW l \in Editable, Edit(l) PROVE Goal
  <2>1. /\ UNCHANGED <<release, pc>> /\ pc = "idle" /\ edited' = edited \cup {l}
        /\ bundle'[l] = Chosen
        /\ \A k \in Keys : bundle[k] = Chosen => bundle'[k] = Chosen
    BY <1>17, <1>t, SetupAssumption DEF Edit, process, TypeOK, Envs
  <2>2. ASSUME NEW k \in edited' PROVE Chosen \in {bundle'[k], bundle'[Place(k)]}
    <3>1. CASE k = l
      BY <2>1, <3>1
    <3>2. CASE k \in edited
      <4>1. Chosen \in {bundle[k], bundle[Place(k)]}
        BY <1>i, <2>1, <3>2 DEF Writes
      <4> QED BY <1>k, <2>1, <3>2, <4>1
    <3> QED BY <2>1, <3>1, <3>2
  <2>3. D' /\ W'
    BY <1>s, <2>1, <2>2 DEF Writes
  <2> QED BY <1>i, <1>j, <2>1, <2>3
<1>18. CASE Checkout
  <2>1. UNCHANGED <<bundle, pc, edited>> /\ pc = "idle"
    BY <1>18 DEF Checkout, files, process, history
  <2>2. ASSUME NEW k \in edited PROVE Chosen \in {bundle[k], bundle[Place(k)']}
    <3>1. Chosen \in {bundle[k], bundle[Place(k)]} /\ k \in Editable
      BY <1>i, <2>1 DEF Writes
    <3>2. k \in DOMAIN Moves => Place(k)' = Place(k)
      BY <1>18, <1>t, <3>1, MovesLater DEF Place
    <3>3. k \notin DOMAIN Moves => Place(k) = k
      BY DEF Place
    <3> QED BY <3>1, <3>2, <3>3
  <2>3. D' /\ W'
    BY <2>1, <2>2 DEF Writes
  <2> QED BY <1>i, <1>j, <2>1, <2>3
<1>19. CASE Kill
  <2>1. UNCHANGED <<bundle, release, edited>> /\ pc' = "idle"
    BY <1>19 DEF Kill, End, files
  <2>2. pc \in Writes => cmd = "reset"
    BY <1>19, <1>t DEF Kill, Control, Writes
  <2>3. D' /\ W'
    BY <1>i, <1>s, <2>1, <2>2 DEF Writes
  <2> QED BY <1>i, <1>j, <2>1, <2>3
<1>20. CASE UNCHANGED vars
  <2>1. UNCHANGED <<bundle, tree, pc, cmd, release, edited>>
    BY <1>20 DEF vars, files, process, history
  <2>2. D' /\ W'
    BY <1>i, <1>s, <2>1
  <2> QED BY <1>i, <1>j, <2>1, <2>2
<1>21. CASE \/ BeginSetup \/ SeedManifest \/ Refuse \/ BeginStart \/ Synced \/ CopyDirectory
            \/ (\E up \in SUBSET Volumes : ComposeUp(up))
            \/ (\E down \in SUBSET Volumes : ComposeDown(down))
            \/ (\E config \in BOOLEAN : Purge(config))
  <2>1. UNCHANGED <<bundle, release, edited>> /\ pc \notin Writes /\ pc' \notin Writes
    BY <1>21 DEF BeginSetup, SeedManifest, Refuse, BeginStart, Synced, CopyDirectory, ComposeUp,
                 ComposeDown, Purge, End, process, files, history, Writes
  <2> QED BY <1>0, <2>1
<1> QED
  BY <1>2, <1>5, <1>6, <1>7, <1>8, <1>10, <1>16, <1>17, <1>18, <1>19, <1>20, <1>21 DEF Next

LEMMA EditedType == edited \subseteq Editable /\ [Next]_vars => edited' \subseteq Editable
<1> SUFFICES ASSUME edited \subseteq Editable, [Next]_vars PROVE edited' \subseteq Editable
  OBVIOUS
<1>1. edited' \subseteq edited \/ \E k \in Editable : edited' = edited \cup {k}
  BY DEF Next, BeginSetup, SeedDirectory, SeedManifest, Refuse, Resolve, WriteBundle, WriteCopy,
         Persisted, BeginStart, SyncDirectory, Synced, CopyDirectory, ComposeUp, ComposeDown,
         Purge, Reset, Edit, Checkout, Kill, vars, history
<1> QED BY <1>1

(* What an operator has set stays, wherever the variable moves, unless a   *)
(* setup was killed while it wrote.                                        *)
THEOREM EditsStay == ASSUME KeepsEdits PROVE Spec => []EditsKept
<1> DEFINE Inv == Base /\ OneProvider /\ Edited
<1>1. Init => Inv
  <2> SUFFICES ASSUME Init PROVE OneProvider /\ Edited
    BY InitBase
  <2>1. OneProvider
    BY DEF Init, OneProvider, Writes
  <2>2. SeedInv /\ MoveInv /\ EditInv /\ edited \subseteq Editable
    <3>1. /\ pc = "idle" /\ edited = {} /\ deployed = FALSE
          /\ \A k \in Keys : bundle[k] = Absent
      BY NoEnvType DEF Init
    <3>2. Moving \subseteq Keys
      BY SetupAssumption DEF Moving
    <3> QED BY <3>1, <3>2 DEF SeedInv, MoveInv, EditInv, Writes
  <2> QED BY <2>1, <2>2 DEF Edited
<1>2. Inv /\ [Next]_vars => Inv'
  <2> SUFFICES ASSUME Inv, [Next]_vars PROVE Edited'
    BY BaseStep, ProviderStep
  <2>1. CASE torn'
    BY <2>1, EditedType DEF Edited
  <2>2. CASE ~ torn'
    <3>1. ~ torn /\ SeedInv /\ SameDirectories
      BY <2>2, TornStays DEF Edited, KeepsEdits
    <3>2. SeedInv'
      BY <2>2, <3>1, SeedInvStep
    <3>3. MoveInv'
      BY <2>2, <3>1, MoveStep
    <3>4. edited' \subseteq Editable /\ EditInv'
      BY <2>2, <3>1, EditStep
    <3> QED BY <3>2, <3>3, <3>4 DEF Edited
  <2> QED BY <2>1, <2>2
<1>3. Inv => EditsKept
  BY DEF Edited, EditInv, EditsKept, Place, Writes
<1> QED BY <1>1, <1>2, <1>3, PTL DEF Spec

-----------------------------------------------------------------------------
(* Copies of secrets.                                                      *)
LEMMA AliasPair ==
  ASSUME NEW c \in Sources, NEW a \in Aliases[c]
  PROVE  /\ c \in Keys /\ a \in Keys /\ c \in Generated
         /\ c \notin {Profiles, Provider} /\ a \notin {Profiles, Provider}
         /\ \A d \in Sources : c \notin Aliases[d]
         /\ \A d \in Sources : a \in Aliases[d] => d = c
<1>1. Aliases[c] \subseteq Keys \ (Sources \cup {Profiles, Provider})
      /\ \A d \in Sources : Aliases[d] \subseteq Keys \ (Sources \cup {Profiles, Provider})
  BY SetupAssumption
<1>2. c \in Generated /\ Generated \subseteq Keys \ {Profiles, Provider}
  BY SetupAssumption
<1>3. \A d \in Sources : a \in Aliases[d] => d = c
  BY SetupAssumption
<1> QED BY <1>1, <1>2, <1>3

(* A copy that is there gets the value of its secret.                      *)
LEMMA CopiesAgree ==
  ASSUME Room, NEW env \in Envs, NEW seed, NEW external \in BOOLEAN, NEW force \in BOOLEAN,
         NEW c \in Sources \ Skipped(external), NEW a \in Aliases[c],
         GenerateMissing(env, seed, external, force)[c] # Absent,
         GenerateMissing(env, seed, external, force)[a] # Absent
  PROVE  GenerateMissing(env, seed, external, force)[a]
           = GenerateMissing(env, seed, external, force)[c]
<1> DEFINE F == Filled(env, seed, external, force)
           G == FannedOut(F, external)
<1>1. F \in Envs
  BY FilledAt
<1>2. c \in Keys /\ a \in Keys /\ (\A d \in Sources : c \notin Aliases[d])
      /\ \A d \in Sources : a \in Aliases[d] => d = c
  BY AliasPair
<1>3. GenerateMissing(env, seed, external, force) = G
  BY DEF GenerateMissing
<1> HIDE DEF F
<1>4. \A k \in Keys :
         \/ /\ G[k] = F[k]
            /\ \A d \in Sources \ Skipped(external) :
                 k \in Aliases[d] => F[k] = Absent \/ F[d] = Absent
         \/ \E d \in Sources \ Skipped(external) : k \in Aliases[d] /\ G[k] = F[d]
  BY <1>1, FannedAt
<1> HIDE DEF G
<1>5. G[c] = F[c]
  BY <1>2, <1>4
<1>6. G[a] = F[c] \/ (G[a] = F[a] /\ (F[a] = Absent \/ F[c] = Absent))
  BY <1>2, <1>4
<1> QED BY <1>3, <1>5, <1>6

LEMMA CopiesFollow ==
  ASSUME Room, NEW env \in Envs, NEW seed, NEW external \in BOOLEAN,
         NEW c \in Sources, c \notin Skipped(external), NEW a \in Aliases[c]
  PROVE  LET x == GenerateMissing(env, seed, external, FALSE)
         IN x[a] # Absent /\ x[c] # Absent => x[a] = x[c]
<1> DEFINE force == FALSE
<1>1. force \in BOOLEAN
  OBVIOUS
<1> HIDE DEF force
<1>2. GenerateMissing(env, seed, external, force)[a] # Absent
      /\ GenerateMissing(env, seed, external, force)[c] # Absent =>
        GenerateMissing(env, seed, external, force)[a] = GenerateMissing(env, seed, external, force)[c]
  BY <1>1, CopiesAgree
<1> QED BY <1>2 DEF force

(* What the example of a directory has, a command's tree has.              *)
LEMMA CopyThere ==
  ASSUME TypeOK, Room, NEW env \in Envs, NEW external \in BOOLEAN, NEW force \in BOOLEAN,
         NEW k \in Keys, DirOf[k] # Keycloak, Seed[k] # Absent,
         k \in Generated \/ env[k] # Absent
  PROVE  GenerateMissing(env, Seed, external, force)[k] # Absent
<1>1. k \notin Skipped(external)
  BY DEF Skipped
<1>2. env[k] # Absent \/ FillsIn(k, env, Seed, external, force)
  BY <1>1, SeedType DEF FillsIn, Firm
<1> QED BY <1>2, GeneratedAt

(* A variable that every release ships stays there.                        *)
LEMMA StaysStep == Base /\ OneProvider /\ StaysInv /\ [Next]_vars => StaysInv'
<1> SUFFICES ASSUME Base, OneProvider, StaysInv, [Next]_vars, NEW k \in Keys, Stays(k),
                    Has(bundle', DirOf[k])
             PROVE  bundle'[k] # Absent
  BY DEF StaysInv, Stays
<1>t. TypeOK /\ Control
  BY DEF Base
<1>s. Seed[k] # Absent
  BY <1>t, SeedType DEF Stays, TypeOK
<1>i. Has(bundle, DirOf[k]) => bundle[k] # Absent
  BY DEF StaysInv
<1>0. ASSUME NEW i, NEW values, bundle' = Written(bundle, Order[i], values)
      PROVE  bundle'[k] # Absent
  <2>1. CASE DirOf[k] = Order[i]
    BY <1>0, <1>s, <2>1 DEF Written
  <2>2. CASE DirOf[k] # Order[i]
    <3>1. \A l \in Keys : DirOf[l] = DirOf[k] => bundle'[l] = bundle[l]
      BY <1>0, <2>2 DEF Written
    <3> QED BY <1>i, <3>1 DEF Has
  <2> QED BY <2>1, <2>2
<1>1. CASE bundle' = bundle
  BY <1>1, <1>i
<1>2. CASE SeedDirectory
  BY <1>0, <1>2 DEF SeedDirectory
<1>6. CASE WriteBundle
  BY <1>0, <1>6 DEF WriteBundle
<1>10. CASE SyncDirectory
  <2>1. /\ pc = "sync"
        /\ \A l \in Keys : bundle'[l] = bundle[l] \/ (bundle'[l] = tree[l] /\ tree[l] # Absent)
    BY <1>10 DEF SyncDirectory
  <2>2. Has(bundle, DirOf[k])
    BY <2>1 DEF Has, OneProvider
  <2> QED BY <1>i, <2>1, <2>2
<1>17. ASSUME NEW l \in Editable, Edit(l) PROVE bundle'[k] # Absent
  <2>1. \A m \in Keys : bundle'[m] # Absent <=> bundle[m] # Absent
    BY <1>17, <1>t, Distinct DEF Edit, TypeOK, Envs
  <2> QED BY <1>i, <2>1 DEF Has
<1>20. bundle' = bundle \/ SeedDirectory \/ WriteBundle \/ SyncDirectory
       \/ \E l \in Editable : Edit(l)
  BY DEF Next, BeginSetup, SeedManifest, Refuse, Resolve, WriteCopy, Persisted, BeginStart,
         Synced, CopyDirectory, ComposeUp, ComposeDown, Purge, Reset, Checkout, Kill,
         vars, files
<1> QED BY <1>1, <1>2, <1>6, <1>10, <1>17, <1>20

(* Who the identity provider is stays while a setup is settled.            *)
LEMMA SettledProvider ==
  ASSUME Base, OneProvider, MarkerInv, settled, [Next]_vars
  PROVE  IsExternal(bundle') <=> IsExternal(bundle)
<1>t. TypeOK /\ Control
  BY DEF Base
<1>1. CASE bundle' = bundle
  BY <1>1
<1>2. ~ SeedDirectory
  BY Seeded DEF SeedDirectory, MarkerInv, AllSeeded
<1>6. CASE WriteBundle
  <2>1. PICK i \in todo : bundle' = Written(bundle, Order[i], tree)
    BY <1>6 DEF WriteBundle
  <2>2. IsExternal(tree) <=> IsExternal(bundle)
    BY <1>6, <1>t DEF WriteBundle, OneProvider, Control, Writes
  <2> QED BY <1>t, <2>1, <2>2, ProviderWritten, Distinct DEF TypeOK, IsExternal
<1>10. CASE SyncDirectory
  <2>1. bundle'[Provider] = bundle[Provider]
        \/ (bundle'[Provider] = tree[Provider] /\ bundle[Provider] = Absent)
    BY <1>10, ProviderPlain DEF SyncDirectory, OneProvider
  <2> QED BY <1>10, <2>1, Distinct DEF SyncDirectory, OneProvider, IsExternal
<1>17. ASSUME NEW l \in Editable, Edit(l) PROVE IsExternal(bundle') <=> IsExternal(bundle)
  <2>1. bundle'[Provider] = bundle[Provider]
        \/ (bundle'[Provider] = Chosen /\ bundle[Provider] \in {Shipped, Replace})
    BY <1>17, <1>t, ProviderPlain DEF Edit, TypeOK, Envs
  <2> QED BY <2>1, Distinct DEF IsExternal
<1>20. bundle' = bundle \/ SeedDirectory \/ WriteBundle \/ SyncDirectory
       \/ \E l \in Editable : Edit(l)
  BY DEF Next, BeginSetup, SeedManifest, Refuse, Resolve, WriteCopy, Persisted, BeginStart,
         Synced, CopyDirectory, ComposeUp, ComposeDown, Purge, Reset, Checkout, Kill,
         vars, files
<1> QED BY <1>1, <1>2, <1>6, <1>10, <1>17, <1>20

(* What setup, a reset and a start are about to write.                     *)
LEMMA AliasesResolved ==
  ASSUME Base, StaysInv, KeepsAliases, NEW options \in Options, Resolve(options),
         NEW c \in Sources, c \notin Skipped(IsExternal(tree')), NEW a \in Aliases[c]
  PROVE  /\ Seed[a] # Absent => tree'[a] # Absent
         /\ Absent \notin {tree'[c], tree'[a]} => tree'[a] = tree'[c]
<1> DEFINE external == BecomesExternal(options)
           env == Migrated(Loaded)
           filled == GenerateMissing(env, Seed, external, options.force)
<1>1. options.force \in BOOLEAN /\ external \in BOOLEAN /\ Room
  BY SetupAssumption DEF BecomesExternal, Resolve
<1>2. TypeOK /\ Loaded \in Envs /\ env \in Envs
  BY LoadedType, MigratedAt DEF Base
<1>3. filled \in Envs
  BY <1>1, <1>2, GeneratedType
<1>4. tree' = Resolved(filled, options)
  BY DEF Resolve
<1>5. /\ tree'[Provider] = IF external THEN External ELSE Shipped
      /\ \A k \in Keys \ {Provider, Profiles} : tree'[k] = filled[k]
  BY <1>3, <1>4, ResolvedAt
<1>6. c \in Keys /\ a \in Keys /\ tree'[c] = filled[c] /\ tree'[a] = filled[a]
  BY <1>5, AliasPair
<1>7. IsExternal(tree') <=> external
  BY <1>5, Distinct DEF IsExternal
<1>8. c \notin Skipped(external)
  BY <1>7 DEF Skipped
<1>9. a \in Generated \/ env[a] # Absent
  <2> SUFFICES ASSUME \A r \in Releases : a \in Ships[r] \ (DOMAIN Renamed[r] \cup Removed[r])
               PROVE  env[a] # Absent
    BY DEF KeepsAliases
  <2>1. Stays(a) /\ a \notin Old /\ Seed[a] # Absent
    BY <1>2, <1>6, SeedType DEF Stays, Old, Moves, TypeOK
  <2>2. Loaded[a] # Absent
    BY <1>6, <2>1 DEF Loaded, StaysInv
  <2> QED BY <1>2, <1>6, <2>1, <2>2, StaysAt
<1>10. DirOf[a] # Keycloak
  BY DEF KeepsAliases
<1> HIDE DEF env, external
<1>11. Seed[a] # Absent => filled[a] # Absent
  BY <1>1, <1>2, <1>6, <1>9, <1>10, CopyThere
<1>12. Absent \notin {filled[c], filled[a]} => filled[a] = filled[c]
  BY <1>1, <1>2, <1>8, CopiesAgree
<1> QED BY <1>6, <1>11, <1>12

LEMMA AliasesReset ==
  ASSUME Base, StaysInv, MarkerInv, KeepsAliases, Reset, settled,
         NEW c \in Sources, c \notin Skipped(IsExternal(bundle)), NEW a \in Aliases[c]
  PROVE  /\ bundle[c] # Absent => tree'[c] = bundle[c]
         /\ DirOf[a] \in {Rag, Root} =>
              /\ bundle[c] # Absent
              /\ Seed[a] # Absent => tree'[a] # Absent
              /\ tree'[a] # Absent => tree'[a] = bundle[c]
<1> DEFINE env == [k \in Keys |-> IF DirOf[k] = Rag THEN Seed[k] ELSE Loaded[k]]
           external == Loaded[Provider] = External
<1>1. TypeOK /\ env \in Envs /\ external \in BOOLEAN /\ FALSE \in BOOLEAN /\ Room
  BY SeedType, LoadedType DEF Envs, Reset, TypeOK, Base
<1>2. tree' = GenerateMissing(env, Seed, external, FALSE)
  BY DEF Reset
<1>3. /\ c \in Keys /\ a \in Keys /\ \A d \in Sources : c \notin Aliases[d]
      /\ DirOf[c] # Rag /\ DirOf[a] # Keycloak
  BY AliasPair DEF KeepsAliases
<1>4. c \notin Skipped(external) /\ bundle[c] # Marker
  <2>1. external <=> IsExternal(bundle)
    BY <1>1, LoadedProvider
  <2> QED BY <1>3, <2>1 DEF MarkerInv, Clean, Skipped
<1>5. bundle[c] # Absent => env[c] = bundle[c]
  BY <1>3 DEF Loaded, Has
<1>6. (\A r \in Releases : c \in Ships[r]) => bundle[c] # Absent
  <2> SUFFICES ASSUME Stays(c) PROVE bundle[c] # Absent
    BY DEF Stays
  <2>1. Has(Seed, DirOf[c]) /\ DirOf[c] \in Dirs
    BY <1>1, <1>3, SeedType, SetupAssumption DEF Has, Stays, TypeOK
  <2> QED BY <1>3, <2>1 DEF MarkerInv, StaysInv
<1>7. a \in Generated \/ (Seed[a] # Absent => env[a] # Absent)
  <2> SUFFICES ASSUME \A r \in Releases : a \in Ships[r], Seed[a] # Absent
               PROVE  env[a] # Absent
    BY DEF KeepsAliases
  <2>1. Loaded[a] # Absent
    BY <1>3 DEF Loaded, StaysInv, Stays
  <2> QED BY <1>3, <2>1
<1> HIDE DEF env, external
<1>8. bundle[c] # Absent => tree'[c] = bundle[c]
  <2> SUFFICES ASSUME bundle[c] # Absent PROVE tree'[c] = env[c]
    BY <1>5
  <2>1. ~ FillsIn(c, env, Seed, external, FALSE)
    BY <1>4, <1>5 DEF FillsIn, Firm
  <2> QED BY <1>1, <1>2, <1>3, <2>1, GeneratedAt
<1>9. ASSUME DirOf[a] \in {Rag, Root}
      PROVE  /\ bundle[c] # Absent
             /\ Seed[a] # Absent => tree'[a] # Absent
             /\ tree'[a] # Absent => tree'[a] = bundle[c]
  <2>1. bundle[c] # Absent
    BY <1>6, <1>9 DEF KeepsAliases
  <2>2. Seed[a] # Absent => tree'[a] # Absent
    BY <1>1, <1>2, <1>3, <1>7, CopyThere
  <2>3. tree'[c] # Absent /\ tree'[a] # Absent => tree'[a] = tree'[c]
    BY <1>1, <1>2, <1>4, CopiesFollow
  <2> QED BY <1>8, <2>1, <2>2, <2>3
<1> QED BY <1>8, <1>9

LEMMA AliasesStart ==
  ASSUME Base, MarkerInv, KeepsAliases, BeginStart, settled,
         NEW c \in Sources, c \notin Skipped(IsExternal(bundle)), NEW a \in Aliases[c]
  PROVE  /\ tree'[a] # Absent =>
              tree'[a] = IF tree'[c] # Absent THEN tree'[c] ELSE bundle[c]
         /\ bundle[c] # Absent => tree'[c] = Absent
<1> DEFINE new == [k \in Keys |-> IF k \in Missing THEN Seed[k] ELSE Absent]
           shared == {s \in Sources \ Missing : Aliases[s] \cap Missing # {}}
           known == [k \in Keys |-> IF k \in shared THEN bundle[k] ELSE new[k]]
           external == bundle[Provider] = External
           filled == GenerateMissing(known, new, external, FALSE)
<1>1. TypeOK /\ Room /\ external \in BOOLEAN /\ FALSE \in BOOLEAN
  BY DEF Base, BeginStart
<1>2. tree' = [k \in Keys |-> IF k \in Missing THEN filled[k] ELSE Absent]
  BY DEF BeginStart, Additions
<1>3. new \in Envs /\ known \in Envs
  BY <1>1, SeedType DEF Envs, TypeOK, Values
<1>4. c \in Keys /\ a \in Keys /\ a \notin Sources /\ \A d \in Sources : c \notin Aliases[d]
  BY AliasPair, SetupAssumption
<1>5. c \notin Skipped(external)
  BY DEF IsExternal
<1>6. bundle[c] # Absent => tree'[c] = Absent
  BY <1>2, <1>4 DEF Missing
<1>7. ASSUME tree'[a] # Absent
      PROVE  tree'[a] = IF tree'[c] # Absent THEN tree'[c] ELSE bundle[c]
  <2>1. a \in Missing /\ tree'[a] = filled[a] /\ a \in Ships[release]
    BY <1>2, <1>4, <1>7 DEF Missing
  <2>2. c \in Ships[release] /\ \A old \in DOMAIN Moves : Moves[old] # c
    <3>1. release \in Releases /\ release \in 1..release
      BY <1>1, SetupAssumption DEF TypeOK, Releases
    <3> QED BY <2>1, <3>1 DEF KeepsAliases, Known, Moves
  <2>3. known[a] # Absent
    <3>1. a \notin shared /\ Seed[a] # Absent
      BY <1>1, <1>4, <2>1, SeedType
    <3> QED BY <1>4, <2>1, <3>1
  <2>4. c \in Missing \/ (c \in shared /\ bundle[c] # Absent)
    <3>1. Has(Seed, DirOf[c]) /\ DirOf[c] \in Dirs
      BY <1>1, <1>4, <2>2, SeedType, SetupAssumption DEF Has
    <3>2. Has(bundle, DirOf[c])
      BY <3>1 DEF MarkerInv
    <3>3. c \in Missing \/ bundle[c] # Absent
      BY <1>5, <2>2, <3>2 DEF Missing
    <3> QED BY <2>1, <3>3
  <2>5. CASE c \in Missing
    <3>1. known[c] # Absent /\ tree'[c] = filled[c]
      <4>1. Seed[c] # Absent /\ c \notin shared
        BY <1>1, <1>4, <2>2, <2>5, SeedType
      <4> QED BY <1>2, <1>4, <2>5, <4>1
    <3> HIDE DEF known, new, external
    <3>2. filled[c] # Absent /\ filled[a] # Absent
      BY <1>1, <1>3, <1>4, <2>3, <3>1, GeneratedAt, ZenonT(30)
    <3>3. filled[a] = filled[c]
      BY <1>1, <1>3, <1>5, <3>2, CopiesFollow, ZenonT(30)
    <3> QED BY <2>1, <3>1, <3>2, <3>3
  <2>6. CASE c \notin Missing
    <3>1. known[c] = bundle[c] /\ bundle[c] # Absent /\ new[c] = Absent /\ tree'[c] = Absent
      BY <1>2, <1>4, <2>4, <2>6
    <3> HIDE DEF known, new, external
    <3>2. ~ FillsIn(c, known, new, external, FALSE)
      BY <3>1, Distinct DEF FillsIn
    <3>3. filled[c] = bundle[c]
      BY <1>1, <1>3, <1>4, <3>1, <3>2, GeneratedAt
    <3>4. filled[a] # Absent
      BY <1>1, <1>3, <1>4, <2>3, GeneratedAt
    <3>5. filled[a] = filled[c]
      BY <1>1, <1>3, <1>5, <3>1, <3>3, <3>4, CopiesFollow
    <3> QED BY <2>1, <3>1, <3>3, <3>5
  <2> QED BY <2>5, <2>6
<1> QED BY <1>6, <1>7

LEMMA AliasStep ==
  ASSUME FillsPlaceholders, KeepsAliases, Base, OneProvider, MarkerInv, StaysInv, AliasInv,
         [Next]_vars
  PROVE  AliasInv'
<1> DEFINE A == settled => \A c \in Sources \ Skipped(IsExternal(bundle)) : \A a \in Aliases[c] :
                             a \notin drifted => Agree(c, a)
           R == settled /\ pc \in Writes =>
                  \A c \in Sources \ Skipped(IsExternal(bundle)) : \A a \in Aliases[c] :
                    ResetAgrees(c, a)
           S == pc \in Writes /\ cmd = "setup" =>
                  \A c \in Sources \ Skipped(IsExternal(tree)) : \A a \in Aliases[c] :
                    SetupAgrees(c, a)
<1>i. A /\ R /\ S
  BY DEF AliasInv
<1>j. A' /\ R' /\ S' => AliasInv'
  BY DEF AliasInv
<1>t. TypeOK /\ Control /\ Present
  BY DEF Base
<1>e. settled => Skipped(IsExternal(bundle')) = Skipped(IsExternal(bundle))
  BY SettledProvider DEF Skipped
<1>p. \A c \in Sources : c \in Keys /\ \A a \in Aliases[c] : a \in Keys
  BY SetupAssumption
<1>s. release' = release => Seed' = Seed
  BY SeedStays
<1>c. ASSUME NEW c, NEW a, pc # "sync"
      PROVE  Agree(c, a) <=> (bundle[a] # Absent => bundle[c] = bundle[a])
  BY <1>c DEF Agree, Current
<1>d. ASSUME NEW c, NEW a, pc' # "sync"
      PROVE  Agree(c, a)' <=> (bundle'[a] # Absent => bundle'[c] = bundle'[a])
  BY <1>d DEF Agree, Current
<1>a. ASSUME UNCHANGED <<bundle, settled>>, drifted \subseteq drifted', pc # "sync", pc' # "sync"
      PROVE  A'
  BY <1>a, <1>c, <1>d, <1>i
<1>0. ASSUME UNCHANGED <<bundle, settled>>, drifted \subseteq drifted', pc # "sync",
             pc' \notin Writes \cup {"sync"}
      PROVE  AliasInv'
  <2>1. A'
    BY <1>0, <1>a
  <2>2. R' /\ S'
    BY <1>0
  <2> QED BY <1>j, <2>1, <2>2
<1>2. CASE SeedDirectory
  <2>1. Unseeded # {} /\ settled' = settled /\ pc' = "seed"
    BY <1>2 DEF SeedDirectory, history, process
  <2>2. ~ settled
    BY <2>1, Seeded DEF MarkerInv, AllSeeded
  <2> QED BY <1>j, <2>1, <2>2 DEF Writes
<1>5. ASSUME NEW options \in Options, Resolve(options) PROVE AliasInv'
  <2>1. ~ settled' /\ release' = release
    BY <1>5 DEF Resolve
  <2>2. S'
    <3> SUFFICES ASSUME NEW c \in Sources \ Skipped(IsExternal(tree')), NEW a \in Aliases[c]
                 PROVE  SetupAgrees(c, a)'
      OBVIOUS
    <3>1. /\ Seed[a] # Absent => tree'[a] # Absent
          /\ Absent \notin {tree'[c], tree'[a]} => tree'[a] = tree'[c]
      BY <1>5, AliasesResolved
    <3> QED BY <1>s, <2>1, <3>1 DEF SetupAgrees
  <2> QED BY <1>j, <2>1, <2>2
<1>6. CASE WriteBundle
  <2>1. PICK i \in todo : IsNext(i) /\ bundle' = Written(bundle, Order[i], tree)
    BY <1>6 DEF WriteBundle
  <2>2. /\ UNCHANGED <<tree, release, cmd, settled, drifted>> /\ Seed' = Seed
        /\ pc = "write" /\ pc' = "write copy" /\ pc \in Writes /\ pc' \in Writes
    BY <1>6, <1>s DEF WriteBundle, history, Writes
  <2>3. S'
    BY <1>i, <2>2 DEF SetupAgrees
  <2>4. ASSUME settled, NEW c \in Sources \ Skipped(IsExternal(bundle)), NEW a \in Aliases[c]
        PROVE  (a \notin drifted => Agree(c, a)') /\ ResetAgrees(c, a)'
    <3>1. cmd = "reset" /\ Order[i] \in {Rag, Root} /\ Full(tree)
          /\ (IsExternal(tree) <=> IsExternal(bundle))
      BY <1>t, <2>2, <2>4 DEF Control, OneProvider, MarkerInv
    <3>2. c \in Keys /\ a \in Keys /\ c \notin Skipped(IsExternal(tree))
      BY <1>p, <3>1 DEF Skipped
    <3>3. ResetAgrees(c, a)
      BY <1>i, <2>2, <2>4
    <3>4. tree[c] = Absent => Seed[c] = Absent
      <4>1. c \in Generated
        BY AliasPair
      <4> QED BY <1>t, <3>1, <3>2, <4>1, SeedType DEF Full
    <3>5. /\ bundle[c] # Absent => bundle'[c] = bundle[c]
          /\ bundle'[c] # Absent => tree[c] = bundle'[c]
      BY <2>1, <3>2, <3>3, <3>4 DEF Written, ResetAgrees
    <3>6. ResetAgrees(c, a)'
      BY <2>2, <3>3, <3>5 DEF ResetAgrees
    <3>7. ASSUME a \notin drifted, bundle'[a] # Absent PROVE bundle'[c] = bundle'[a]
      <4>1. bundle[a] # Absent => bundle[c] = bundle[a]
        BY <1>c, <1>i, <2>2, <2>4, <3>7
      <4>2. CASE DirOf[a] # Order[i]
        BY <2>1, <3>2, <3>5, <3>7, <4>1, <4>2 DEF Written
      <4>3. CASE DirOf[a] = Order[i]
        <5>1. bundle'[a] = IF tree[a] = Absent THEN Seed[a] ELSE tree[a]
          BY <2>1, <3>2, <4>3 DEF Written
        <5>2. bundle[c] # Absent /\ bundle'[a] = bundle[c]
          BY <3>1, <3>3, <3>7, <4>3, <5>1 DEF ResetAgrees
        <5> QED BY <3>5, <5>2
      <4> QED BY <4>2, <4>3
    <3> QED BY <1>d, <2>2, <3>6, <3>7
  <2>5. A' /\ R'
    BY <1>e, <2>2, <2>4
  <2> QED BY <1>j, <2>3, <2>5
<1>7. CASE WriteCopy
  <2>1. /\ UNCHANGED <<bundle, tree, release, cmd, settled, drifted>> /\ Seed' = Seed
        /\ pc = "write copy" /\ pc' = "write" /\ pc \in Writes
    BY <1>7, <1>s DEF WriteCopy, history, Writes
  <2>2. A'
    BY <1>a, <2>1
  <2>3. ASSUME NEW c, NEW a
        PROVE  /\ ResetAgrees(c, a) => ResetAgrees(c, a)'
               /\ SetupAgrees(c, a) => SetupAgrees(c, a)'
    <3>1. ResetAgrees(c, a) => ResetAgrees(c, a)'
      BY <2>1 DEF ResetAgrees
    <3>2. SetupAgrees(c, a) => SetupAgrees(c, a)'
      BY <2>1 DEF SetupAgrees
    <3> QED BY <3>1, <3>2
  <2>4. R'
    BY <1>i, <2>1, <2>3
  <2>5. S'
    BY <1>i, <2>1, <2>3
  <2> QED BY <1>j, <2>2, <2>4, <2>5
<1>8. CASE Persisted
  <2>1. /\ UNCHANGED <<bundle, release>> /\ pc = "write" /\ pc' = "idle" /\ todo = {}
        /\ cmd \in {"setup", "reset"} /\ pc \in Writes
        /\ settled' = (settled \/ cmd = "setup") /\ (cmd = "reset" => drifted' = drifted)
    BY <1>8, <1>t DEF Persisted, End, files, Control, Writes
  <2>2. CASE cmd = "reset"
    <3>1. settled' = settled /\ drifted' = drifted
      BY <1>t, <2>1, <2>2 DEF TypeOK
    <3> QED BY <1>0, <2>1, <3>1 DEF Writes
  <2>3. CASE cmd = "setup"
    <3>1. ASSUME NEW k \in Keys, Has(Seed, DirOf[k])
          PROVE  bundle[k] = IF tree[k] = Absent THEN Seed[k] ELSE tree[k]
      BY <2>1, <2>3, <3>1, AllWritten
    <3>2. Skipped(IsExternal(bundle)) = Skipped(IsExternal(tree)) /\ Full(tree)
      <4>1. bundle[Provider] = tree[Provider]
        BY <1>t, <2>1, <2>3, <3>1, ProviderPlain, RootAndRagShipped DEF OneProvider
      <4> QED BY <2>1, <2>3, <4>1 DEF IsExternal, MarkerInv
    <3>3. ASSUME NEW c \in Sources \ Skipped(IsExternal(bundle)), NEW a \in Aliases[c],
                 bundle[a] # Absent
          PROVE  bundle[c] = bundle[a]
      <4>1. c \in Keys /\ a \in Keys /\ c \in Generated
        BY AliasPair
      <4>2. a \in SoFar
        BY <1>t, <3>3, <4>1 DEF Present
      <4>3. c \in Ships[release]
        <5>1. PICK q \in 1..release : a \in Known(q)
          BY <4>2 DEF SoFar
        <5> QED BY <1>t, <5>1 DEF KeepsAliases, TypeOK
      <4>4. Seed[c] = Marker /\ Seed[c] # Absent
        BY <1>t, <4>1, <4>3, SeedType
      <4>5. tree[c] # Absent
        BY <3>2, <3>3, <4>1, <4>4 DEF Full
      <4>6. bundle[c] = tree[c]
        BY <3>1, <4>1, <4>4, <4>5 DEF Has
      <4>7. Has(Seed, DirOf[a])
        BY <1>t, <4>1, <4>2, KnownDirectory DEF FillsPlaceholders
      <4>8. SetupAgrees(c, a)
        BY <1>i, <2>1, <2>3, <3>2, <3>3
      <4>9. bundle[a] = tree[a] /\ tree[a] # Absent
        BY <3>1, <3>3, <4>1, <4>7, <4>8 DEF SetupAgrees
      <4> QED BY <4>5, <4>6, <4>8, <4>9 DEF SetupAgrees
    <3>4. A'
      BY <1>d, <2>1, <3>3
    <3> QED BY <1>j, <2>1, <3>4 DEF Writes
  <2> QED BY <2>1, <2>2, <2>3
<1>9. CASE BeginStart
  <2>1. UNCHANGED <<bundle, settled, drifted>> /\ pc = "idle" /\ pc' = "sync"
    BY <1>9 DEF BeginStart, files, history
  <2>2. ASSUME settled, NEW c \in Sources \ Skipped(IsExternal(bundle)), NEW a \in Aliases[c],
               a \notin drifted
        PROVE  Agree(c, a)'
    <3>1. /\ tree'[a] # Absent =>
               tree'[a] = IF tree'[c] # Absent THEN tree'[c] ELSE bundle[c]
          /\ bundle[c] # Absent => tree'[c] = Absent
      BY <1>9, <2>2, AliasesStart
    <3>2. bundle[a] # Absent => bundle[c] = bundle[a]
      BY <1>c, <1>i, <2>1, <2>2
    <3> QED BY <2>1, <3>1, <3>2 DEF Agree, Current
  <2>3. A'
    BY <2>1, <2>2
  <2> QED BY <1>j, <2>1, <2>3 DEF Writes
<1>10. CASE SyncDirectory
  <2>1. PICK i \in Unsynced :
          /\ bundle' = [l \in Keys |-> IF DirOf[l] = Order[i] /\ tree[l] # Absent THEN tree[l]
                                       ELSE bundle[l]]
          /\ tree' = [l \in Keys |-> IF DirOf[l] = Order[i] THEN Absent ELSE tree[l]]
    BY <1>10 DEF SyncDirectory
  <2>2. UNCHANGED <<settled, drifted>> /\ pc = "sync" /\ pc' = "sync"
    BY <1>10 DEF SyncDirectory, history
  <2>3. ASSUME NEW c \in Sources, NEW a \in Aliases[c], Agree(c, a)
        PROVE  Agree(c, a)'
    <3>1. c \in Keys /\ a \in Keys
      BY <1>p
    <3>2. Current(c)' = Current(c)
      BY <2>1, <2>2, <3>1 DEF Current
    <3>3. /\ bundle[a] # Absent => Current(c) = bundle[a]
          /\ tree[a] # Absent => Current(c) = tree[a]
      BY <2>2, <2>3 DEF Agree
    <3>4. bundle'[a] \in {bundle[a], tree[a]} /\ tree'[a] \in {tree[a], Absent}
      BY <2>1, <3>1
    <3>5. /\ bundle'[a] # Absent => Current(c) = bundle'[a]
          /\ tree'[a] # Absent => Current(c) = tree'[a]
      BY <3>3, <3>4
    <3> QED BY <2>2, <3>2, <3>5 DEF Agree
  <2>4. A'
    BY <1>e, <1>i, <2>2, <2>3
  <2> QED BY <1>j, <2>2, <2>4 DEF Writes
<1>11. CASE Synced
  <2>1. UNCHANGED <<bundle, settled, drifted>> /\ pc = "sync" /\ pc' = "copy" /\ Unsynced = {}
    BY <1>11 DEF Synced, files, history
  <2>2. ASSUME NEW k \in Keys PROVE tree[k] = Absent
    BY <2>1, PlaceOf DEF Unsynced, Has, Places
  <2>3. ASSUME NEW c \in Sources, NEW a \in Aliases[c], Agree(c, a)
        PROVE  Agree(c, a)'
    <3>1. bundle[a] # Absent => bundle[c] = bundle[a]
      BY <1>p, <2>2, <2>3 DEF Agree, Current
    <3> QED BY <1>d, <2>1, <3>1
  <2>4. A'
    BY <1>i, <2>1, <2>3
  <2> QED BY <1>j, <2>1, <2>4 DEF Writes
<1>16. CASE Reset
  <2>1. /\ UNCHANGED <<bundle, release, settled, drifted>> /\ Seed' = Seed
        /\ pc = "reset" /\ pc' = "write" /\ cmd' = "reset"
    BY <1>16, <1>t, <1>s DEF Reset, files, Control
  <2>2. A'
    BY <1>a, <2>1
  <2>3. ASSUME settled, NEW c \in Sources \ Skipped(IsExternal(bundle)), NEW a \in Aliases[c]
        PROVE  ResetAgrees(c, a)'
    <3>1. /\ bundle[c] # Absent => tree'[c] = bundle[c]
          /\ DirOf[a] \in {Rag, Root} =>
               /\ bundle[c] # Absent
               /\ Seed[a] # Absent => tree'[a] # Absent
               /\ tree'[a] # Absent => tree'[a] = bundle[c]
      BY <1>16, <2>3, AliasesReset
    <3> QED BY <2>1, <3>1 DEF ResetAgrees
  <2>4. R' /\ S'
    BY <2>1, <2>3
  <2> QED BY <1>j, <2>2, <2>4
<1>17. ASSUME NEW l \in Editable, Edit(l) PROVE AliasInv'
  <2>1. /\ settled' = settled /\ pc = "idle" /\ pc' = "idle" /\ drifted' = drifted \cup {l}
        /\ \A k \in Keys : k # l => bundle'[k] = bundle[k]
    BY <1>17, <1>t DEF Edit, process, TypeOK, Envs
  <2>2. ASSUME NEW c \in Sources, NEW a \in Aliases[c], a # l, Agree(c, a)
        PROVE  Agree(c, a)'
    <3>1. c # l /\ c \in Keys /\ a \in Keys
      BY <1>p, SetupAssumption
    <3> QED BY <1>c, <1>d, <2>1, <2>2, <3>1
  <2>3. A'
    BY <1>e, <1>i, <2>1, <2>2
  <2> QED BY <1>j, <2>1, <2>3 DEF Writes
<1>19. CASE Kill
  <2>1. UNCHANGED <<bundle, settled>> /\ pc' = "idle" /\ drifted \subseteq drifted'
    BY <1>19 DEF Kill, End, files
  <2>2. CASE pc # "sync"
    BY <1>0, <2>1, <2>2 DEF Writes
  <2>3. CASE pc = "sync"
    <3>1. \A c \in Sources : tree[c] # Absent => Aliases[c] \subseteq drifted'
      BY <1>19, <2>3 DEF Kill
    <3>2. ASSUME NEW c \in Sources, NEW a \in Aliases[c], a \notin drifted', Agree(c, a)
          PROVE  Agree(c, a)'
      <4>1. Current(c) = bundle[c]
        BY <3>1, <3>2 DEF Current
      <4>2. bundle[a] # Absent => bundle[c] = bundle[a]
        BY <3>2, <4>1 DEF Agree
      <4> QED BY <1>d, <2>1, <4>2
    <3>3. A'
      BY <1>i, <2>1, <3>2
    <3> QED BY <1>j, <2>1, <3>3 DEF Writes
  <2> QED BY <2>2, <2>3
<1>20. CASE UNCHANGED vars
  <2>1. UNCHANGED <<bundle, tree, pc, cmd, settled, drifted, release>> /\ Seed' = Seed
    BY <1>20, <1>s DEF vars, files, process, history
  <2>2. A'
    BY <1>i, <2>1 DEF Agree, Current
  <2>3. ASSUME NEW c, NEW a
        PROVE  /\ ResetAgrees(c, a) => ResetAgrees(c, a)'
               /\ SetupAgrees(c, a) => SetupAgrees(c, a)'
    <3>1. ResetAgrees(c, a) => ResetAgrees(c, a)'
      BY <2>1 DEF ResetAgrees
    <3>2. SetupAgrees(c, a) => SetupAgrees(c, a)'
      BY <2>1 DEF SetupAgrees
    <3> QED BY <3>1, <3>2
  <2>4. R'
    BY <1>i, <2>1, <2>3
  <2>5. S'
    BY <1>i, <2>1, <2>3
  <2> QED BY <1>j, <2>2, <2>4, <2>5
<1>21. CASE \/ BeginSetup \/ SeedManifest \/ Refuse \/ CopyDirectory \/ Checkout
            \/ (\E up \in SUBSET Volumes : ComposeUp(up))
            \/ (\E down \in SUBSET Volumes : ComposeDown(down))
            \/ (\E config \in BOOLEAN : Purge(config))
  <2>1. UNCHANGED <<bundle, settled, drifted>> /\ pc # "sync" /\ pc' \notin Writes \cup {"sync"}
    BY <1>21 DEF BeginSetup, SeedManifest, Refuse, CopyDirectory, Checkout, ComposeUp,
                 ComposeDown, Purge, End, process, files, history, Writes
  <2> QED BY <1>0, <2>1
<1> QED
  BY <1>2, <1>5, <1>6, <1>7, <1>8, <1>9, <1>10, <1>11, <1>16, <1>17, <1>19, <1>20, <1>21
  DEF Next

(* Services that share a secret have the same value for it, except where   *)
(* an operator or a killed start set them apart since the last setup.      *)
THEOREM CopiesStayEqual ==
  ASSUME FillsPlaceholders, KeepsAliases PROVE Spec => []AliasesAgree
<1> DEFINE Inv == Base /\ OneProvider /\ MarkerInv /\ StaysInv /\ AliasInv
<1>1. Init => Inv
  <2> SUFFICES ASSUME Init PROVE OneProvider /\ MarkerInv /\ StaysInv /\ AliasInv
    BY InitBase
  <2>1. OneProvider /\ AliasInv
    BY DEF Init, OneProvider, AliasInv, Writes
  <2>2. MarkerInv /\ StaysInv
    BY NoEnvType, Distinct DEF Init, MarkerInv, StaysInv, Has, Writes
  <2> QED BY <2>1, <2>2
<1>2. Inv /\ [Next]_vars => Inv'
  BY BaseStep, ProviderStep, MarkerStep, StaysStep, AliasStep
<1>3. Inv => AliasesAgree
  BY DEF AliasInv, AliasesAgree, Agree, Current, IsExternal
<1> QED BY <1>1, <1>2, <1>3, PTL DEF Spec
=============================================================================
