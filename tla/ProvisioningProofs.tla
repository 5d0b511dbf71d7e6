------------------------- MODULE ProvisioningProofs -------------------------
(***************************************************************************)
(* Theorems about Provisioning, for any realm, any number of runs beside   *)
(* each other and any number of failures and edits.                        *)
(***************************************************************************)
EXTENDS Provisioning, TLAPS

(* The steps of a run that works, by how far it has come. *)
PastMail == {"users", "user"}
PastMappers == {"smtp", "mail"} \cup PastMail
PastClients == {"mappers", "mapper"} \cup PastMappers
PastComposites == {"clients", "secret", "client"} \cup PastClients
PastRoles == {"composites", "composite"} \cup PastComposites
Steps == {"hosts", "host", "roles", "role"} \cup PastRoles

Secrets == {Absent, Public, Placeholder, "canonical"}
Edges == UNION {d.edges : d \in Definitions}

TypeOK ==
  /\ definition \in Definitions
  /\ hosts \in [Domains -> Services \cup {Absent}]
  /\ roles \subseteq Roles /\ edges \subseteq Edges /\ mappers \subseteq Mappers
  /\ clients \in [Clients -> Secrets \cup {"leftover"}]
  /\ mail \in {"none", "relay", "stale", "own"} /\ link \in BOOLEAN
  /\ legacy \subseteq Users /\ admins \subseteq Users
  /\ DOMAIN run = Runs
  /\ \A r \in Runs : /\ DOMAIN run[r] = {"step", "def", "todo", "seen", "next"}
                     /\ At(r, "idle") \/ run[r].step \in Steps
  /\ faults \in Nat /\ edits \in Nat /\ renders \in Nat

(* What each part of a run is to bring about, for the rendered definition. *)
RolesThere == definition.roles \subseteq roles
EdgesThere == \A e \in definition.edges : Available(e, definition) => e \in edges
Fits(c) ==
  /\ definition.secret[c] # Placeholder => clients[c] # Absent
  /\ definition.secret[c] = "canonical" => clients[c] = "canonical"
ClientsThere == \A c \in definition.wanted : Fits(c)
MappersThere == \A m \in definition.mappers : clients[m[1]] # Absent => m \in mappers
MailThere == mail \in {IF definition.relay THEN "relay" ELSE "none", "own"}

(* The runs beside each other work for the same definition, and what a run *)
(* has been through is there.                                              *)
Past(r) ==
  /\ ~ At(r, "idle") => Def(r) = definition
  /\ run[r].step \in PastRoles => RolesThere /\ roles \subseteq run[r].seen
  /\ run[r].step \in PastComposites => EdgesThere
  /\ run[r].step \in PastClients => ClientsThere
  /\ run[r].step \in PastMappers => MappersThere
  /\ run[r].step \in PastMail => MailThere

(* In the part that a run is in, what is not there yet is still on its     *)
(* list or in its next call.                                               *)
HostsLeft(r) ==
  At(r, "host") =>
    /\ Todo(r) \subseteq definition.sites
    /\ \A d \in run[r].seen \cap Domains : hosts[d] # Absent
    /\ \A s \in definition.sites : hosts[s.domain] # Absent \/ s \in Todo(r)
RolesLeft(r) ==
  At(r, "role") =>
    /\ Todo(r) \subseteq definition.roles
    /\ definition.roles \subseteq (roles \cap run[r].seen) \cup Todo(r)
    /\ roles \subseteq run[r].seen \cup definition.roles
EdgesLeft(r) ==
  /\ run[r].step \in {"composites", "composite"} =>
       \A e \in definition.edges : Available(e, definition) =>
         e \in edges \/ e[1] \in Todo(r) \/ e \in run[r].next
  /\ At(r, "composites") => run[r].next = {}
  /\ At(r, "composite") => run[r].next \subseteq definition.edges
ClientsLeft(r) ==
  /\ run[r].step \in {"clients", "secret", "client"} =>
       /\ Todo(r) \cup run[r].next \subseteq definition.wanted
       /\ \A c \in definition.wanted : Fits(c) \/ c \in Todo(r) \/ c \in run[r].next
  /\ At(r, "clients") => run[r].next = {}
  /\ At(r, "secret") => \A c \in run[r].next : definition.secret[c] = "canonical"
  /\ At(r, "client") =>
       \A c \in run[r].next : /\ definition.secret[c] # Placeholder
                              /\ clients[c] \in {Absent, definition.secret[c]}
MappersLeft(r) ==
  /\ run[r].step \in {"mappers", "mapper"} =>
       /\ run[r].next \subseteq definition.mappers
       /\ \A m \in definition.mappers :
            clients[m[1]] # Absent => m \in mappers \/ m[1] \in Todo(r) \/ m \in run[r].next
  /\ At(r, "mappers") => run[r].next = {}
MailLeft(r) ==
  At(r, "mail") =>
    \A decision \in run[r].next :
      \/ decision = "set" /\ definition.relay /\ (mail = "none" \/ (mail = "relay" /\ link))
      \/ decision = "update" /\ definition.relay /\ mail \in {"stale", "relay"}
      \/ decision = "clear" /\ ~ definition.relay /\ mail # "own"
UsersLeft(r) ==
  At(r, "user") =>
    /\ Todo(r) \subseteq legacy
    /\ PapaiaAdmin \in roles => legacy \subseteq admins \cup Todo(r)

Left(r) ==
  /\ HostsLeft(r) /\ RolesLeft(r) /\ EdgesLeft(r) /\ ClientsLeft(r)
  /\ MappersLeft(r) /\ MailLeft(r) /\ UsersLeft(r)

AllPast == \A r \in Runs : Past(r)
AllLeft == \A r \in Runs : Left(r)
IInv == TypeOK /\ AllPast /\ AllLeft

(* What a step of a run may do to the servers, which is all that a run     *)
(* beside it sees.                                                         *)
Adds ==
  /\ UNCHANGED <<definition, legacy>>
  /\ roles \subseteq roles' /\ roles' \subseteq roles \cup definition.roles
  /\ edges \subseteq edges' /\ mappers \subseteq mappers' /\ admins \subseteq admins'
  /\ \A d \in Domains : hosts[d] # Absent => hosts'[d] = hosts[d]
  /\ \A c \in Clients :
       \/ clients'[c] = clients[c]
       \/ /\ c \in definition.wanted /\ definition.secret[c] \notin {Absent, Placeholder}
          /\ clients'[c] = definition.secret[c]
  /\ \/ UNCHANGED <<mail, link>>
     \/ definition.relay /\ mail = "none" /\ mail' = "relay" /\ link'
     \/ definition.relay /\ mail \in {"stale", "relay"} /\ mail' = "relay" /\ UNCHANGED link
     \/ ~ definition.relay /\ mail # "own" /\ mail' = "none" /\ ~ link'

(* Where a run comes to by a step.                                         *)
Moves(r, step, todo, seen, next) ==
  /\ DOMAIN run' = Runs /\ DOMAIN run'[r] = {"step", "def", "todo", "seen", "next"}
  /\ run'[r].step = step /\ run'[r].def = definition
  /\ run'[r].todo = todo /\ run'[r].seen = seen /\ run'[r].next = next
  /\ \A q \in Runs \ {r} : run'[q] = run[q]

-----------------------------------------------------------------------------
LEMMA DefinitionType == TypeOK => IsDefinition(definition)
BY ProvisioningAssumption DEF TypeOK

LEMMA InitInvariant == Init => IInv
<1> SUFFICES ASSUME Init PROVE IInv
  OBVIOUS
<1>1. definition \in Definitions /\ IsDefinition(definition)
  BY ProvisioningAssumption DEF Init
<1>2. \A r \in Runs : At(r, "idle") /\ DOMAIN run[r] = {"step", "def", "todo", "seen", "next"}
  BY DEF Init, NoRun, At
<1>3. TypeOK
  <2>1. hosts \in [Domains -> Services \cup {Absent}] /\ legacy \subseteq Users
        /\ admins \subseteq Users /\ faults \in Nat /\ edits \in Nat /\ renders \in Nat
        /\ DOMAIN run = Runs
    BY DEF Init
  <2>2. roles \subseteq Roles /\ edges \subseteq Edges /\ mappers \subseteq Mappers
    BY <1>1 DEF Init, IsDefinition, Edges
  <2>3. clients \in [Clients -> Secrets \cup {"leftover"}]
    BY <1>1 DEF Init, IsDefinition, Secrets
  <2>4. mail \in {"none", "relay", "stale", "own"} /\ link \in BOOLEAN
    BY <1>1 DEF Init, IsDefinition
  <2> QED BY <1>1, <1>2, <2>1, <2>2, <2>3, <2>4 DEF TypeOK
<1>4. AllPast
  BY <1>2 DEF AllPast, Past, At, PastRoles, PastComposites, PastClients, PastMappers, PastMail
<1>5. AllLeft
  BY <1>2 DEF AllLeft, Left, At, HostsLeft, RolesLeft, EdgesLeft, ClientsLeft, MappersLeft,
              MailLeft, UsersLeft
<1> QED BY <1>3, <1>4, <1>5 DEF IInv

(* A run that stands still does not mind the steps of others: what it has  *)
(* brought about stays, and what it has left to do is still enough.        *)
LEMMA ThereStays ==
  ASSUME TypeOK, Adds
  PROVE  /\ RolesThere => RolesThere' /\ roles' = roles
         /\ EdgesThere => EdgesThere'
         /\ \A c \in definition.wanted : Fits(c) => Fits(c)'
         /\ ClientsThere => ClientsThere'
         /\ ClientsThere => \A c \in Clients : clients[c] = Absent => clients'[c] = Absent
         /\ ClientsThere /\ MappersThere => MappersThere'
         /\ MailThere => MailThere'
<1>1. IsDefinition(definition)
  BY DefinitionType
<1>2. RolesThere => RolesThere' /\ roles' = roles
  BY DEF Adds, RolesThere
<1>3. EdgesThere => EdgesThere'
  BY DEF Adds, EdgesThere, Available
<1>4. \A c \in definition.wanted : Fits(c) => Fits(c)'
  BY <1>1 DEF Adds, Fits, IsDefinition
<1>5. ClientsThere => ClientsThere'
  BY <1>4 DEF Adds, ClientsThere
<1>6. ClientsThere => \A c \in Clients : clients[c] = Absent => clients'[c] = Absent
  BY DEF Adds, ClientsThere, Fits
<1>7. ClientsThere /\ MappersThere => MappersThere'
  BY <1>1, <1>6, ProvisioningAssumption DEF Adds, MappersThere, IsDefinition
<1>8. MailThere => MailThere'
  BY DEF Adds, MailThere
<1> QED BY <1>2, <1>3, <1>4, <1>5, <1>6, <1>7, <1>8

LEMMA PastStays ==
  ASSUME TypeOK, Adds, NEW r \in Runs, Past(r), run'[r] = run[r]
  PROVE  Past(r)'
BY ThereStays DEF Past, At, Def, Adds, PastRoles, PastComposites, PastClients, PastMappers, PastMail

LEMMA LeftStays ==
  ASSUME TypeOK, Adds, NEW r \in Runs, Past(r), Left(r), run'[r] = run[r]
  PROVE  Left(r)'
<1> USE DEF Left, At, Todo
<1>1. IsDefinition(definition)
  BY DefinitionType
<1>2. HostsLeft(r)'
  BY <1>1 DEF HostsLeft, Adds, IsDefinition
<1>3. RolesLeft(r)'
  BY DEF RolesLeft, Adds
<1>4. EdgesLeft(r)'
  BY DEF EdgesLeft, Adds, Available
<1>5. ClientsLeft(r)'
  <2>1. definition' = definition /\ \A c \in definition.wanted : Fits(c) => Fits(c)'
    BY ThereStays DEF Adds
  <2>2. definition.wanted \subseteq Clients
    BY <1>1 DEF IsDefinition
  <2>3. \A c \in definition.wanted :
          clients[c] \in {Absent, definition.secret[c]} => clients'[c] \in {Absent, definition.secret[c]}
    BY <2>2 DEF Adds
  <2> QED BY <2>1, <2>3 DEF ClientsLeft
<1>6. MappersLeft(r)'
  <2>1. CASE run[r].step \in {"mappers", "mapper"}
    <3>1. ClientsThere
      BY <2>1 DEF Past, PastClients
    <3>2. \A c \in Clients : clients[c] = Absent => clients'[c] = Absent
      BY <3>1, ThereStays
    <3>3. \A m \in definition.mappers : m[1] \in Clients
      BY <1>1, ProvisioningAssumption DEF IsDefinition
    <3> QED BY <3>2, <3>3 DEF MappersLeft, Adds
  <2>2. CASE run[r].step \notin {"mappers", "mapper"}
    BY <2>2 DEF MappersLeft
  <2> QED BY <2>1, <2>2
<1>7. MailLeft(r)'
  BY DEF MailLeft, Adds, TypeOK
<1>8. UsersLeft(r)'
  <2>1. At(r, "user") => roles' = roles
    BY ThereStays DEF Past, PastRoles, PastComposites, PastClients, PastMappers, PastMail
  <2> QED BY <2>1 DEF UsersLeft, Adds
<1> QED BY <1>2, <1>3, <1>4, <1>5, <1>6, <1>7, <1>8

-----------------------------------------------------------------------------
(* A step by which a run comes from one part into the next finds the part  *)
(* that it leaves done.                                                    *)
LEMMA PastMoves ==
  ASSUME TypeOK, Adds, NEW r \in Runs, Past(r),
         NEW step, NEW todo, NEW seen, NEW next, Moves(r, step, todo, seen, next),
         step \in PastRoles =>
           seen = run[r].seen /\ (run[r].step \in PastRoles \/ (RolesThere /\ roles \subseteq seen)),
         step \in PastComposites => run[r].step \in PastComposites \/ EdgesThere,
         step \in PastClients => run[r].step \in PastClients \/ ClientsThere,
         step \in PastMappers => run[r].step \in PastMappers \/ MappersThere,
         step \in PastMail => run[r].step \in PastMail \/ MailThere'
  PROVE  Past(r)'
<1> USE DEF Past, Moves, At, Def
<1>1. definition' = definition /\ Def(r)' = definition
  BY DEF Adds
<1>2. step \in PastRoles => RolesThere' /\ roles' \subseteq run'[r].seen
  BY ThereStays
<1>3. step \in PastComposites => EdgesThere'
  BY ThereStays
<1>4. step \in PastClients => ClientsThere'
  BY ThereStays
<1>5. step \in PastMappers => MappersThere'
  BY ThereStays DEF PastClients, PastMappers
<1>6. step \in PastMail => MailThere'
  BY ThereStays
<1> QED BY <1>1, <1>2, <1>3, <1>4, <1>5, <1>6

(* A step that only looks. *)
LEMMA Looks ==
  ASSUME TypeOK, NEW r \in Runs, NEW step \in Steps, NEW todo, NEW seen, NEW next,
         Moves(r, step, todo, seen, next),
         UNCHANGED <<definition, hosts, realm, users, edits, renders>>, faults' \in Nat
  PROVE  TypeOK' /\ Adds
BY DEF TypeOK, Moves, Adds, realm, users, At

LEMMA GoesTo ==
  ASSUME TypeOK, NEW r \in Runs, Past(r), ~ At(r, "idle"), NEW step, NEW todo, Goes(r, step, todo)
  PROVE  Moves(r, step, todo, run[r].seen, {})
BY DEF Goes, Moves, TypeOK, Past, Def

LEMMA CallsTo ==
  ASSUME TypeOK, NEW r \in Runs, Past(r), ~ At(r, "idle"), NEW step, NEW next, Calls(r, step, next)
  PROVE  Moves(r, step, Todo(r), run[r].seen, next)
BY DEF Calls, Moves, TypeOK, Past, Def, Todo

LEMMA TakesTo ==
  ASSUME TypeOK, NEW r \in Runs, Past(r), ~ At(r, "idle"), NEW step, NEW todo, NEW next,
         run' = [run EXCEPT ![r].step = step, ![r].todo = todo, ![r].next = next]
  PROVE  Moves(r, step, todo, run[r].seen, next)
BY DEF Moves, TypeOK, Past, Def

(* What a step of a run leaves true. *)
Works(r) ==
  /\ TypeOK' /\ Adds
  /\ Past(r)' /\ Left(r)'
  /\ \A q \in Runs \ {r} : run'[q] = run[q]

LEMMA Begins ==
  ASSUME IInv, NEW r \in Runs, NEW step \in {"hosts", "roles"}, Begin(r, step)
  PROVE  Works(r)
<1>1. Moves(r, step, {}, {}, {})
  BY DEF Begin, Moves, NoRun, IInv, TypeOK
<1>2. TypeOK' /\ Adds
  BY <1>1, Looks DEF Begin, IInv, bounds, TypeOK, Steps
<1>3. Past(r)'
  BY <1>1, <1>2, PastMoves DEF IInv, AllPast, PastRoles, PastComposites, PastClients, PastMappers, PastMail
<1>4. Left(r)'
  BY <1>1 DEF Moves, Left, At, HostsLeft, RolesLeft, EdgesLeft, ClientsLeft, MappersLeft, MailLeft,
              UsersLeft
<1> QED BY <1>1, <1>2, <1>3, <1>4 DEF Works, Moves

LEMMA HostSteps ==
  ASSUME IInv, NEW r \in Runs,
         ListHosts(r) \/ HostExists(r) \/ CreateHost(r) \/ HostRefused(r) \/ HostsDone(r) \/ HostsFail(r)
  PROVE  Works(r)
<1> USE DEF bounds, At, Todo
<1>1. TypeOK /\ Past(r) /\ Left(r) /\ IsDefinition(definition)
  BY DefinitionType DEF IInv, AllPast, AllLeft
<1>2. run[r].step \in {"hosts", "host"} /\ ~ At(r, "idle") /\ Def(r) = definition
  BY <1>1 DEF ListHosts, HostExists, CreateHost, HostRefused, HostsDone, HostsFail, Past
<1>3. ASSUME NEW step \in {"host", "roles"}, NEW todo, NEW seen, Adds,
             Moves(r, step, todo, seen, run'[r].next), TypeOK',
             step = "host" => HostsLeft(r)'
      PROVE  Works(r)
  <2>1. Past(r)'
    BY <1>1, <1>3, PastMoves DEF PastRoles, PastComposites, PastClients, PastMappers, PastMail
  <2>2. Left(r)'
    BY <1>3 DEF Moves, Left, HostsLeft, RolesLeft, EdgesLeft, ClientsLeft, MappersLeft, MailLeft,
                UsersLeft
  <2> QED BY <1>3, <2>1, <2>2 DEF Works, Moves
<1>4. CASE ListHosts(r)
  <2>1. Moves(r, "host", definition.sites, {d \in Domains : hosts[d] # Absent}, run'[r].next)
    BY <1>1, <1>2, <1>4 DEF ListHosts, Moves, TypeOK, Def
  <2>2. TypeOK' /\ Adds
    BY <1>1, <1>4, <2>1, Looks DEF ListHosts, Steps, TypeOK
  <2>3. HostsLeft(r)'
    BY <1>1, <1>4, <2>1 DEF HostsLeft, Moves, ListHosts, IsDefinition
  <2> QED BY <1>3, <2>1, <2>2, <2>3
<1>5. CASE HostExists(r)
  <2>1. PICK s \in Todo(r) : s.domain \in run[r].seen /\ Goes(r, "host", Done(r, s))
    BY <1>5 DEF HostExists
  <2>2. Moves(r, "host", Todo(r) \ {s}, run[r].seen, {})
    BY <1>1, <1>2, <2>1, GoesTo DEF Done
  <2>3. TypeOK' /\ Adds
    BY <1>1, <1>5, <2>2, Looks DEF HostExists, Steps, TypeOK
  <2>4. s \in definition.sites /\ s.domain \in Domains
    BY <1>1, <1>5 DEF HostExists, Left, HostsLeft, IsDefinition
  <2>5. HostsLeft(r)'
    BY <1>1, <1>5, <2>1, <2>2, <2>4 DEF HostExists, Left, HostsLeft, Moves
  <2> QED BY <1>3, <2>2, <2>3, <2>5 DEF Moves
<1>6. CASE CreateHost(r)
  <2>1. PICK s \in Todo(r) :
          /\ hosts[s.domain] = Absent /\ hosts' = [hosts EXCEPT ![s.domain] = s.service]
          /\ run' = [run EXCEPT ![r].todo = Done(r, s), ![r].seen = @ \cup {s.domain}]
    BY <1>6 DEF CreateHost
  <2>2. Moves(r, "host", Todo(r) \ {s}, run[r].seen \cup {s.domain}, run'[r].next)
    BY <1>1, <1>2, <1>6, <2>1, ZenonT(30) DEF CreateHost, Moves, TypeOK, Def, Done
  <2>3. s \in definition.sites /\ s.domain \in Domains /\ s.service \in Services
    BY <1>1, <1>6 DEF CreateHost, Left, HostsLeft, IsDefinition
  <2>4. TypeOK'
    BY <1>1, <1>6, <2>1, <2>2, <2>3 DEF CreateHost, TypeOK, Moves, realm, users, Steps
  <2>5. Adds
    BY <1>1, <1>6, <2>1, <2>3 DEF CreateHost, TypeOK, Adds, realm, users
  <2>6. HostsLeft(r)'
    <3>1. definition' = definition /\ \A d \in Domains : hosts'[d] = hosts[d] \/ d = s.domain
      BY <1>1, <1>6, <2>1 DEF CreateHost, TypeOK
    <3>2. hosts'[s.domain] # Absent
      BY <1>1, <2>1, <2>3, ProvisioningAssumption DEF TypeOK
    <3>3. \A t \in definition.sites : t.domain \in Domains
      BY <1>1 DEF IsDefinition
    <3> QED BY <1>1, <1>6, <2>2, <2>3, <3>1, <3>2, <3>3 DEF CreateHost, Left, HostsLeft, Moves
  <2> QED BY <1>3, <2>2, <2>4, <2>5, <2>6
<1>7. CASE HostRefused(r) \/ HostsDone(r) \/ HostsFail(r)
  <2>1. Moves(r, "roles", {}, run[r].seen, {})
    BY <1>1, <1>2, <1>7, GoesTo DEF HostRefused, HostsDone, HostsFail
  <2>2. TypeOK' /\ Adds
    BY <1>1, <1>7, <2>1, Looks DEF HostRefused, HostsDone, HostsFail, Steps, TypeOK
  <2> QED BY <1>3, <2>1, <2>2 DEF Moves
<1> QED BY <1>4, <1>5, <1>6, <1>7

LEMMA RoleSteps ==
  ASSUME IInv, NEW r \in Runs, ListRoles(r) \/ CreateRole(r) \/ RolesDone(r)
  PROVE  Works(r)
<1> USE DEF bounds, At, Todo
<1>1. TypeOK /\ Past(r) /\ Left(r) /\ IsDefinition(definition)
  BY DefinitionType DEF IInv, AllPast, AllLeft
<1>2. run[r].step \in {"roles", "role"} /\ ~ At(r, "idle") /\ Def(r) = definition
  BY <1>1 DEF ListRoles, CreateRole, RolesDone, Past
<1>3. ASSUME NEW todo, NEW seen, Moves(r, "role", todo, seen, run'[r].next), TypeOK', Adds, RolesLeft(r)'
      PROVE  Works(r)
  <2>1. Past(r)'
    BY <1>1, <1>3, PastMoves DEF PastRoles, PastComposites, PastClients, PastMappers, PastMail
  <2>2. Left(r)'
    BY <1>3 DEF Moves, Left, HostsLeft, RolesLeft, EdgesLeft, ClientsLeft, MappersLeft, MailLeft,
                UsersLeft
  <2> QED BY <1>3, <2>1, <2>2 DEF Works, Moves
<1>4. CASE ListRoles(r)
  <2>1. Moves(r, "role", definition.roles \ roles, roles, run'[r].next)
    BY <1>1, <1>2, <1>4 DEF ListRoles, Moves, TypeOK, Def
  <2>2. TypeOK' /\ Adds
    BY <1>1, <1>4, <2>1, Looks DEF ListRoles, Steps, TypeOK
  <2>3. RolesLeft(r)'
    BY <1>4, <2>1 DEF RolesLeft, Moves, ListRoles, realm
  <2> QED BY <1>3, <2>1, <2>2, <2>3
<1>5. CASE CreateRole(r)
  <2>1. PICK x \in Todo(r) :
          /\ roles' = roles \cup {x}
          /\ run' = [run EXCEPT ![r].todo = Done(r, x), ![r].seen = @ \cup {x}]
    BY <1>5 DEF CreateRole
  <2>2. Moves(r, "role", Todo(r) \ {x}, run[r].seen \cup {x}, run'[r].next)
    BY <1>1, <1>2, <1>5, <2>1 DEF CreateRole, Moves, TypeOK, Def, Done
  <2>3. x \in definition.roles /\ x \in Roles
    BY <1>1, <1>5 DEF CreateRole, Left, RolesLeft, IsDefinition
  <2>4. TypeOK' /\ Adds
    BY <1>1, <1>5, <2>1, <2>2, <2>3 DEF CreateRole, TypeOK, Adds, Moves, users, Steps
  <2>5. RolesLeft(r)'
    BY <1>1, <1>5, <2>1, <2>2 DEF CreateRole, Left, RolesLeft, Moves
  <2> QED BY <1>3, <2>2, <2>4, <2>5
<1>6. CASE RolesDone(r)
  <2>1. Moves(r, "composites", Composed(definition), run[r].seen, {})
    BY <1>1, <1>2, <1>6, GoesTo DEF RolesDone
  <2>2. TypeOK' /\ Adds
    BY <1>1, <1>6, <2>1, Looks DEF RolesDone, Steps, PastRoles, TypeOK
  <2>3. RolesThere /\ roles \subseteq run[r].seen
    BY <1>1, <1>6 DEF RolesDone, Left, RolesLeft, RolesThere
  <2>4. Past(r)'
    BY <1>1, <2>1, <2>2, <2>3, PastMoves DEF PastComposites, PastClients, PastMappers, PastMail
  <2>5. \A e \in definition.edges : e[1] \in Composed(definition)
    BY <1>1 DEF IsDefinition, Composed
  <2>6. Left(r)'
    BY <1>6, <2>1, <2>5 DEF RolesDone, Moves, Left, HostsLeft, RolesLeft, EdgesLeft, ClientsLeft,
                            MappersLeft, MailLeft, UsersLeft
  <2> QED BY <2>1, <2>2, <2>4, <2>6 DEF Works, Moves
<1> QED BY <1>4, <1>5, <1>6

LEMMA CompositeSteps ==
  ASSUME IInv, NEW r \in Runs, ListComposites(r) \/ AddComposites(r) \/ CompositesDone(r)
  PROVE  Works(r)
<1> USE DEF bounds, At, Todo
<1>1. TypeOK /\ Past(r) /\ Left(r) /\ IsDefinition(definition)
  BY DefinitionType DEF IInv, AllPast, AllLeft
<1>2. /\ run[r].step \in {"composites", "composite"} /\ ~ At(r, "idle") /\ Def(r) = definition
      /\ run[r].step \in PastRoles
  BY <1>1 DEF ListComposites, AddComposites, CompositesDone, Past, PastRoles
<1>3. ASSUME NEW step \in {"composites", "composite"}, NEW todo, NEW next,
             Moves(r, step, todo, run[r].seen, next), TypeOK', Adds, EdgesLeft(r)'
      PROVE  Works(r)
  <2>1. Past(r)'
    BY <1>1, <1>2, <1>3, PastMoves DEF PastComposites, PastClients, PastMappers, PastMail
  <2>2. Left(r)'
    BY <1>3 DEF Moves, Left, HostsLeft, RolesLeft, EdgesLeft, ClientsLeft, MappersLeft, MailLeft,
                UsersLeft
  <2> QED BY <1>3, <2>1, <2>2 DEF Works, Moves
<1>4. CASE ListComposites(r)
  <2>1. PICK x \in Todo(r) :
          LET missing == {e \in definition.edges : e[1] = x /\ e \notin edges /\ Available(e, definition)}
          IN run' = [run EXCEPT ![r].step = IF missing = {} THEN "composites" ELSE "composite",
                                ![r].todo = Done(r, x), ![r].next = missing]
    BY <1>2, <1>4, ZenonT(30) DEF ListComposites
  <2> DEFINE missing == {e \in definition.edges :
                           e[1] = x /\ e \notin edges /\ Available(e, definition)}
             step == IF missing = {} THEN "composites" ELSE "composite"
  <2>2. Moves(r, step, Todo(r) \ {x}, run[r].seen, missing)
    BY <1>1, <1>2, <2>1, TakesTo DEF Done
  <2>3. step \in {"composites", "composite"} /\ (step = "composites" => missing = {})
    OBVIOUS
  <2>4. missing \subseteq definition.edges
        /\ \A e \in definition.edges : e[1] = x /\ Available(e, definition) => e \in edges \cup missing
    OBVIOUS
  <2> HIDE DEF missing, step
  <2>5. TypeOK' /\ Adds
    BY <1>1, <1>4, <2>2, <2>3, Looks DEF ListComposites, Steps, PastRoles, TypeOK
  <2>6. UNCHANGED <<definition, edges>>
    BY <1>4 DEF ListComposites, realm
  <2>7. \A e \in definition.edges : Available(e, definition) => e \in edges \/ e[1] \in Todo(r)
    BY <1>1, <1>4 DEF ListComposites, Left, EdgesLeft
  <2>8. EdgesLeft(r)'
    BY <2>2, <2>3, <2>4, <2>6, <2>7 DEF EdgesLeft, Moves, Available
  <2> QED BY <1>3, <2>2, <2>3, <2>5, <2>8
<1>5. CASE AddComposites(r)
  <2>1. Moves(r, "composites", Todo(r), run[r].seen, {})
    BY <1>1, <1>2, <1>5, CallsTo DEF AddComposites
  <2>2. run[r].next \subseteq definition.edges /\ definition.edges \subseteq Edges
    BY <1>1, <1>5 DEF AddComposites, Left, EdgesLeft, Edges, TypeOK
  <2>3. TypeOK' /\ Adds
    BY <1>1, <1>5, <2>1, <2>2 DEF AddComposites, TypeOK, Adds, Moves, users, Steps, PastRoles
  <2>4. EdgesLeft(r)'
    BY <1>1, <1>5, <2>1 DEF AddComposites, Left, EdgesLeft, Moves, Available
  <2> QED BY <1>3, <2>1, <2>3, <2>4
<1>6. CASE CompositesDone(r)
  <2>1. Moves(r, "clients", definition.wanted, run[r].seen, {})
    BY <1>1, <1>2, <1>6, GoesTo DEF CompositesDone
  <2>2. TypeOK' /\ Adds
    BY <1>1, <1>6, <2>1, Looks DEF CompositesDone, Steps, PastRoles, PastComposites, TypeOK
  <2>3. EdgesThere
    BY <1>1, <1>6 DEF CompositesDone, Left, EdgesLeft, EdgesThere
  <2>4. Past(r)'
    BY <1>1, <1>2, <2>1, <2>2, <2>3, PastMoves DEF PastClients, PastMappers, PastMail
  <2>5. Left(r)'
    BY <1>6, <2>1 DEF CompositesDone, Moves, Left, HostsLeft, RolesLeft, EdgesLeft, ClientsLeft,
                      MappersLeft, MailLeft, UsersLeft
  <2> QED BY <2>1, <2>2, <2>4, <2>5 DEF Works, Moves
<1> QED BY <1>4, <1>5, <1>6

LEMMA ClientSteps ==
  ASSUME IInv, NEW r \in Runs,
         ClientFits(r) \/ ClientDiffers(r) \/ AlignSecret(r) \/ ClientMissing(r) \/ CreateClient(r)
         \/ ClientsDone(r)
  PROVE  Works(r)
<1> USE DEF bounds, At, Todo
<1>1. TypeOK /\ Past(r) /\ Left(r) /\ IsDefinition(definition)
  BY DefinitionType DEF IInv, AllPast, AllLeft
<1>2. /\ run[r].step \in {"clients", "secret", "client"} /\ ~ At(r, "idle") /\ Def(r) = definition
      /\ run[r].step \in PastRoles \cap PastComposites
  BY <1>1 DEF ClientFits, ClientDiffers, AlignSecret, ClientMissing, CreateClient, ClientsDone,
              Past, PastRoles, PastComposites
<1>3. ASSUME NEW step \in {"clients", "secret", "client"}, NEW todo, NEW next,
             Moves(r, step, todo, run[r].seen, next), TypeOK', Adds, ClientsLeft(r)'
      PROVE  Works(r)
  <2>1. Past(r)'
    BY <1>1, <1>2, <1>3, PastMoves DEF PastClients, PastMappers, PastMail
  <2>2. Left(r)'
    BY <1>3 DEF Moves, Left, HostsLeft, RolesLeft, EdgesLeft, ClientsLeft, MappersLeft, MailLeft,
                UsersLeft
  <2> QED BY <1>3, <2>1, <2>2 DEF Works, Moves
<1>4. definition.wanted \subseteq Clients /\ \A c \in definition.wanted : definition.secret[c] # Absent
  BY <1>1 DEF IsDefinition
<1>5. Todo(r) \cup run[r].next \subseteq definition.wanted
  BY <1>1, <1>2 DEF Left, ClientsLeft
<1>6. \A c \in definition.wanted : Fits(c) \/ c \in Todo(r) \/ c \in run[r].next
  BY <1>1, <1>2 DEF Left, ClientsLeft
<1>7. {"clients", "secret", "client", "mappers"} \subseteq Steps
  BY DEF Steps, PastRoles, PastComposites, PastClients
<1>8. CASE ClientFits(r)
  <2>1. PICK c \in Todo(r) :
          /\ \/ clients[c] # Absent /\ (definition.secret[c] = "canonical" => clients[c] = "canonical")
             \/ clients[c] = Absent /\ definition.secret[c] = Placeholder
          /\ Goes(r, "clients", Done(r, c))
    BY <1>2, <1>8 DEF ClientFits, Known
  <2>2. Moves(r, "clients", Todo(r) \ {c}, run[r].seen, {})
    BY <1>1, <1>2, <2>1, GoesTo DEF Done
  <2>3. TypeOK' /\ Adds
    BY <1>1, <1>7, <1>8, <2>2, Looks DEF ClientFits, TypeOK
  <2>4. Fits(c)
    BY <2>1 DEF Fits, Placeholder
  <2>5. run[r].next = {} /\ UNCHANGED <<definition, clients>>
    BY <1>1, <1>8 DEF ClientFits, Left, ClientsLeft, realm
  <2>6. ClientsLeft(r)'
    BY <1>5, <1>6, <2>2, <2>4, <2>5 DEF ClientsLeft, Moves, Fits
  <2> QED BY <1>3, <2>2, <2>3, <2>6
<1>9. CASE ClientDiffers(r)
  <2>1. PICK c \in Todo(r) :
          /\ definition.secret[c] = "canonical"
          /\ run' = [run EXCEPT ![r].step = "secret", ![r].todo = Done(r, c), ![r].next = {c}]
    BY <1>2, <1>9 DEF ClientDiffers, Known
  <2>2. Moves(r, "secret", Todo(r) \ {c}, run[r].seen, {c})
    BY <1>1, <1>2, <2>1, TakesTo DEF Done
  <2>3. TypeOK' /\ Adds
    BY <1>1, <1>7, <1>9, <2>2, Looks DEF ClientDiffers, TypeOK
  <2>4. run[r].next = {} /\ UNCHANGED <<definition, clients>>
    BY <1>1, <1>9 DEF ClientDiffers, Left, ClientsLeft, realm
  <2>5. ClientsLeft(r)'
    BY <1>5, <1>6, <2>1, <2>2, <2>4 DEF ClientsLeft, Moves, Fits
  <2> QED BY <1>3, <2>2, <2>3, <2>5
<1>10. CASE ClientMissing(r)
  <2>1. PICK c \in Todo(r) :
          /\ clients[c] = Absent /\ definition.secret[c] # Placeholder
          /\ run' = [run EXCEPT ![r].step = "client", ![r].todo = Done(r, c), ![r].next = {c}]
    BY <1>2, <1>10 DEF ClientMissing
  <2>2. Moves(r, "client", Todo(r) \ {c}, run[r].seen, {c})
    BY <1>1, <1>2, <2>1, TakesTo DEF Done
  <2>3. TypeOK' /\ Adds
    BY <1>1, <1>7, <1>10, <2>2, Looks DEF ClientMissing, TypeOK
  <2>4. run[r].next = {} /\ UNCHANGED <<definition, clients>>
    BY <1>1, <1>10 DEF ClientMissing, Left, ClientsLeft, realm
  <2>5. ClientsLeft(r)'
    BY <1>5, <1>6, <2>1, <2>2, <2>4 DEF ClientsLeft, Moves, Fits
  <2> QED BY <1>3, <2>2, <2>3, <2>5
<1>11. CASE AlignSecret(r)
  <2>1. Moves(r, "clients", Todo(r), run[r].seen, {})
    BY <1>1, <1>2, <1>11, CallsTo DEF AlignSecret
  <2>2. \A c \in run[r].next : definition.secret[c] = "canonical"
    BY <1>1, <1>11 DEF AlignSecret, Left, ClientsLeft
  <2>3. /\ clients' = [c \in Clients |-> IF c \in run[r].next THEN "canonical" ELSE clients[c]]
        /\ UNCHANGED <<definition, hosts, roles, edges, mappers, mail, link, admins, users, bounds>>
    BY <1>2, <1>4, <1>5, <1>11, <2>2 DEF AlignSecret
  <2>4. TypeOK' /\ Adds
    BY <1>1, <1>4, <1>5, <1>7, <2>1, <2>2, <2>3
    DEF TypeOK, Adds, Moves, users, Secrets, Absent, Placeholder
  <2>5. \A c \in run[r].next : Fits(c)'
    BY <1>4, <1>5, <2>3 DEF Fits, Absent
  <2>6. \A c \in definition.wanted : Fits(c) => Fits(c)'
    BY <1>1, <2>4, ThereStays
  <2>7. ClientsLeft(r)'
    BY <1>5, <1>6, <2>1, <2>3, <2>5, <2>6 DEF ClientsLeft, Moves
  <2> QED BY <1>3, <2>1, <2>4, <2>7
<1>12. CASE CreateClient(r)
  <2>1. Moves(r, "clients", Todo(r), run[r].seen, {})
    BY <1>1, <1>2, <1>12, CallsTo DEF CreateClient
  <2>2. \A c \in run[r].next : /\ definition.secret[c] # Placeholder
                               /\ clients[c] \in {Absent, definition.secret[c]}
    BY <1>1, <1>12 DEF CreateClient, Left, ClientsLeft
  <2>3. /\ clients' = [c \in Clients |-> IF c \in run[r].next /\ clients[c] = Absent
                                         THEN definition.secret[c] ELSE clients[c]]
        /\ mappers \subseteq mappers' /\ mappers' \subseteq mappers \cup definition.mappers
        /\ UNCHANGED <<definition, hosts, roles, edges, mail, link, admins, users, bounds>>
    BY <1>2, <1>12 DEF CreateClient
  <2>4. TypeOK'
    <3>1. clients' \in [Clients -> Secrets \cup {"leftover"}]
      BY <1>1, <2>3 DEF TypeOK, IsDefinition, Secrets
    <3> QED BY <1>1, <1>7, <2>1, <2>3, <3>1 DEF TypeOK, Moves, users, IsDefinition
  <2>5. Adds
    BY <1>4, <1>5, <2>2, <2>3, <1>1 DEF Adds, users, TypeOK
  <2>6. \A c \in run[r].next : Fits(c)'
    BY <1>4, <1>5, <2>2, <2>3 DEF Fits
  <2>7. \A c \in definition.wanted : Fits(c) => Fits(c)'
    BY <1>1, <2>5, ThereStays
  <2>8. ClientsLeft(r)'
    BY <1>5, <1>6, <2>1, <2>3, <2>6, <2>7 DEF ClientsLeft, Moves
  <2> QED BY <1>3, <2>1, <2>4, <2>5, <2>8
<1>13. CASE ClientsDone(r)
  <2>1. Moves(r, "mappers", {c \in Clients : definition.secret[c] # Absent}, run[r].seen, {})
    BY <1>1, <1>2, <1>13, GoesTo DEF ClientsDone
  <2>2. TypeOK' /\ Adds
    BY <1>1, <1>7, <1>13, <2>1, Looks DEF ClientsDone, TypeOK
  <2>3. ClientsThere
    BY <1>1, <1>6, <1>13 DEF ClientsDone, Left, ClientsLeft, ClientsThere
  <2>4. Past(r)'
    BY <1>1, <1>2, <2>1, <2>2, <2>3, PastMoves DEF PastMappers, PastMail
  <2>5. \A m \in definition.mappers : m[1] \in {c \in Clients : definition.secret[c] # Absent}
    BY <1>1, ProvisioningAssumption DEF IsDefinition
  <2>6. Left(r)'
    BY <1>13, <2>1, <2>5 DEF ClientsDone, Moves, Left, HostsLeft, RolesLeft, EdgesLeft, ClientsLeft,
                             MappersLeft, MailLeft, UsersLeft
  <2> QED BY <2>1, <2>2, <2>4, <2>6 DEF Works, Moves
<1> QED BY <1>8, <1>9, <1>10, <1>11, <1>12, <1>13

LEMMA MapperSteps ==
  ASSUME IInv, NEW r \in Runs, ListMappers(r) \/ CreateMapper(r) \/ MappersDone(r)
  PROVE  Works(r)
<1> USE DEF bounds, At, Todo
<1>1. TypeOK /\ Past(r) /\ Left(r) /\ IsDefinition(definition)
  BY DefinitionType DEF IInv, AllPast, AllLeft
<1>2. /\ run[r].step \in {"mappers", "mapper"} /\ ~ At(r, "idle") /\ Def(r) = definition
      /\ run[r].step \in PastRoles \cap PastComposites \cap PastClients
  BY <1>1 DEF ListMappers, CreateMapper, MappersDone, Past, PastRoles, PastComposites, PastClients
<1>3. ASSUME NEW step \in {"mappers", "mapper"}, NEW todo, NEW next,
             Moves(r, step, todo, run[r].seen, next), TypeOK', Adds, MappersLeft(r)'
      PROVE  Works(r)
  <2>1. Past(r)'
    BY <1>1, <1>2, <1>3, PastMoves DEF PastMappers, PastMail
  <2>2. Left(r)'
    BY <1>3 DEF Moves, Left, HostsLeft, RolesLeft, EdgesLeft, ClientsLeft, MappersLeft, MailLeft,
                UsersLeft
  <2> QED BY <1>3, <2>1, <2>2 DEF Works, Moves
<1>4. {"mappers", "mapper", "smtp"} \subseteq Steps
  BY DEF Steps, PastRoles, PastComposites, PastClients, PastMappers
<1>5. CASE ListMappers(r)
  <2>1. PICK c \in Todo(r) :
          LET missing == {m \in definition.mappers \ mappers : m[1] = c}
          IN run' = [run EXCEPT ![r].step = IF missing = {} \/ clients[c] = Absent
                                            THEN "mappers" ELSE "mapper",
                                ![r].todo = Done(r, c),
                                ![r].next = IF clients[c] = Absent THEN {} ELSE missing]
    BY <1>2, <1>5 DEF ListMappers
  <2> DEFINE missing == {m \in definition.mappers \ mappers : m[1] = c}
             step == IF missing = {} \/ clients[c] = Absent THEN "mappers" ELSE "mapper"
             next == IF clients[c] = Absent THEN {} ELSE missing
  <2>2. Moves(r, step, Todo(r) \ {c}, run[r].seen, next)
    BY <1>1, <1>2, <2>1, TakesTo DEF Done
  <2>3. step \in {"mappers", "mapper"} /\ (step = "mappers" => next = {})
    OBVIOUS
  <2>4. /\ next \subseteq definition.mappers
        /\ \A m \in definition.mappers : m[1] = c /\ clients[c] # Absent => m \in mappers \cup next
    OBVIOUS
  <2> HIDE DEF missing, step, next
  <2>5. TypeOK' /\ Adds
    BY <1>1, <1>4, <1>5, <2>2, <2>3, Looks DEF ListMappers, TypeOK
  <2>6. run[r].next = {} /\ UNCHANGED <<definition, clients, mappers>>
    BY <1>1, <1>5 DEF ListMappers, Left, MappersLeft, realm
  <2>7. \A m \in definition.mappers : clients[m[1]] # Absent => m \in mappers \/ m[1] \in Todo(r)
    BY <1>1, <1>2, <2>6 DEF Left, MappersLeft
  <2>8. MappersLeft(r)'
    BY <2>2, <2>3, <2>4, <2>6, <2>7 DEF MappersLeft, Moves
  <2> QED BY <1>3, <2>2, <2>3, <2>5, <2>8
<1>6. CASE CreateMapper(r)
  <2>1. PICK m \in run[r].next :
          /\ mappers' = mappers \cup {m}
          /\ Calls(r, IF run[r].next = {m} THEN "mappers" ELSE "mapper", run[r].next \ {m})
    BY <1>6 DEF CreateMapper
  <2> DEFINE step == IF run[r].next = {m} THEN "mappers" ELSE "mapper"
  <2>2. Moves(r, step, Todo(r), run[r].seen, run[r].next \ {m})
    BY <1>1, <1>2, <2>1, CallsTo
  <2>3. step \in {"mappers", "mapper"} /\ (step = "mappers" => run[r].next \ {m} = {})
    OBVIOUS
  <2> HIDE DEF step
  <2>4. run[r].next \subseteq definition.mappers /\ definition.mappers \subseteq Mappers
    BY <1>1, <1>2 DEF Left, MappersLeft, IsDefinition
  <2>5. UNCHANGED <<definition, hosts, roles, edges, clients, mail, link, admins, users, bounds>>
    BY <1>6 DEF CreateMapper
  <2>6. TypeOK' /\ Adds
    BY <1>1, <1>4, <2>1, <2>2, <2>3, <2>4, <2>5 DEF TypeOK, Adds, Moves, users
  <2>7. MappersLeft(r)'
    BY <1>1, <1>2, <2>1, <2>2, <2>3, <2>5 DEF Left, MappersLeft, Moves
  <2> QED BY <1>3, <2>2, <2>3, <2>6, <2>7
<1>7. CASE MappersDone(r)
  <2>1. Moves(r, "smtp", {}, run[r].seen, {})
    BY <1>1, <1>2, <1>7, GoesTo DEF MappersDone
  <2>2. TypeOK' /\ Adds
    BY <1>1, <1>4, <1>7, <2>1, Looks DEF MappersDone, TypeOK
  <2>3. MappersThere
    BY <1>1, <1>7 DEF MappersDone, Left, MappersLeft, MappersThere
  <2>4. Past(r)'
    BY <1>1, <1>2, <2>1, <2>2, <2>3, PastMoves DEF PastMail
  <2>5. Left(r)'
    BY <2>1 DEF Moves, Left, HostsLeft, RolesLeft, EdgesLeft, ClientsLeft, MappersLeft, MailLeft,
                UsersLeft
  <2> QED BY <2>1, <2>2, <2>4, <2>5 DEF Works, Moves
<1> QED BY <1>5, <1>6, <1>7

LEMMA MailSteps ==
  ASSUME IInv, NEW r \in Runs, ReadMail(r) \/ PutMail(r)
  PROVE  Works(r)
<1> USE DEF bounds, At, Todo
<1>1. TypeOK /\ Past(r) /\ Left(r) /\ IsDefinition(definition)
  BY DefinitionType DEF IInv, AllPast, AllLeft
<1>2. /\ run[r].step \in {"smtp", "mail"} /\ ~ At(r, "idle") /\ Def(r) = definition
      /\ run[r].step \in PastRoles \cap PastComposites \cap PastClients \cap PastMappers
  BY <1>1 DEF ReadMail, PutMail, Past, PastRoles, PastComposites, PastClients, PastMappers
<1>3. {"mail", "users"} \subseteq Steps
  BY DEF Steps, PastRoles, PastComposites, PastClients, PastMappers, PastMail
<1>4. definition.relay \in BOOLEAN /\ mail \in {"none", "relay", "stale", "own"}
  BY <1>1 DEF IsDefinition, TypeOK
<1>5. ASSUME Moves(r, "users", {}, run[r].seen, {}), TypeOK', Adds, MailThere'
      PROVE  Works(r)
  <2>1. Past(r)'
    BY <1>1, <1>2, <1>5, PastMoves
  <2>2. Left(r)'
    BY <1>5 DEF Moves, Left, HostsLeft, RolesLeft, EdgesLeft, ClientsLeft, MappersLeft, MailLeft,
                UsersLeft
  <2> QED BY <1>5, <2>1, <2>2 DEF Works, Moves
<1>6. CASE ReadMail(r)
  <2> DEFINE decision == Decision(definition.relay, mail)
  <2>1. IF decision = "leave" THEN Goes(r, "users", {}) ELSE Calls(r, "mail", {decision})
    BY <1>2, <1>6 DEF ReadMail
  <2>2. UNCHANGED <<definition, hosts, realm, users, bounds>>
    BY <1>6 DEF ReadMail
  <2>3. CASE decision = "leave"
    <3>1. Moves(r, "users", {}, run[r].seen, {})
      BY <1>1, <1>2, <2>1, <2>3, GoesTo
    <3>2. TypeOK' /\ Adds
      BY <1>1, <1>3, <2>2, <3>1, Looks DEF TypeOK
    <3>3. MailThere'
      BY <1>4, <2>2, <2>3 DEF MailThere, Decision, realm
    <3> QED BY <1>5, <3>1, <3>2, <3>3
  <2>4. CASE decision # "leave"
    <3>1. Moves(r, "mail", Todo(r), run[r].seen, {decision})
      BY <1>1, <1>2, <2>1, <2>4, CallsTo
    <3>2. TypeOK' /\ Adds
      BY <1>1, <1>3, <2>2, <3>1, Looks DEF TypeOK
    <3>3. Past(r)'
      BY <1>1, <1>2, <3>1, <3>2, PastMoves DEF PastMail
    <3>4. \/ decision = "set" /\ definition.relay /\ mail = "none"
          \/ decision = "update" /\ definition.relay /\ mail = "stale"
          \/ decision = "clear" /\ ~ definition.relay /\ mail # "own"
      BY <1>4, <2>4 DEF Decision
    <3>5. MailLeft(r)'
      BY <2>2, <3>1, <3>4 DEF MailLeft, Moves, realm
    <3>6. Left(r)'
      BY <3>1, <3>5 DEF Moves, Left, HostsLeft, RolesLeft, EdgesLeft, ClientsLeft, MappersLeft,
                        UsersLeft
    <3> QED BY <3>1, <3>2, <3>3, <3>6 DEF Works, Moves
  <2> QED BY <2>3, <2>4
<1>7. CASE PutMail(r)
  <2>1. PICK decision \in run[r].next :
          /\ mail' = IF decision = "clear" THEN "none" ELSE "relay"
          /\ link' = CASE decision = "set" -> TRUE [] decision = "clear" -> FALSE [] OTHER -> link
    BY <1>7 DEF PutMail
  <2>2. \/ decision = "set" /\ definition.relay /\ (mail = "none" \/ (mail = "relay" /\ link))
        \/ decision = "update" /\ definition.relay /\ mail \in {"stale", "relay"}
        \/ decision = "clear" /\ ~ definition.relay /\ mail # "own"
    BY <1>1, <1>7 DEF PutMail, Left, MailLeft
  <2>3. UNCHANGED <<definition, hosts, roles, edges, clients, mappers, admins, users, bounds>>
    BY <1>7 DEF PutMail
  <2>4. Moves(r, "users", {}, run[r].seen, {})
    BY <1>1, <1>2, <1>7, GoesTo DEF PutMail
  <2>5. link' \in BOOLEAN /\ mail' \in {"none", "relay"}
    BY <1>1, <2>1, <2>2 DEF TypeOK
  <2>6. TypeOK'
    BY <1>1, <1>3, <2>3, <2>4, <2>5 DEF TypeOK, Moves, users
  <2>7. \/ definition.relay /\ mail = "none" /\ mail' = "relay" /\ link'
        \/ definition.relay /\ mail \in {"stale", "relay"} /\ mail' = "relay" /\ link' = link
        \/ ~ definition.relay /\ mail # "own" /\ mail' = "none" /\ ~ link'
    BY <1>1, <2>1, <2>2 DEF TypeOK
  <2>8. Adds
    BY <2>3, <2>7 DEF Adds, users
  <2>9. MailThere'
    BY <2>3, <2>7 DEF MailThere
  <2> QED BY <1>5, <2>4, <2>6, <2>8, <2>9
<1> QED BY <1>6, <1>7

LEMMA UserSteps ==
  ASSUME IInv, NEW r \in Runs, ListHolders(r) \/ Migrate(r)
  PROVE  Works(r)
<1> USE DEF bounds, At, Todo
<1>1. TypeOK /\ Past(r) /\ Left(r) /\ IsDefinition(definition)
  BY DefinitionType DEF IInv, AllPast, AllLeft
<1>2. /\ run[r].step \in {"users", "user"} /\ ~ At(r, "idle") /\ Def(r) = definition
      /\ run[r].step \in PastRoles \cap PastComposites \cap PastClients \cap PastMappers \cap PastMail
  BY <1>1 DEF ListHolders, Migrate, Past, PastRoles, PastComposites, PastClients, PastMappers, PastMail
<1>3. "user" \in Steps
  BY DEF Steps, PastRoles, PastComposites, PastClients, PastMappers, PastMail
<1>4. ASSUME NEW todo, Moves(r, "user", todo, run[r].seen, {}), TypeOK', Adds, UsersLeft(r)'
      PROVE  Works(r)
  <2>1. MailThere'
    BY <1>1, <1>2, <1>4, ThereStays DEF Past
  <2>2. Past(r)'
    BY <1>1, <1>2, <1>4, <2>1, PastMoves
  <2>3. Left(r)'
    BY <1>4 DEF Moves, Left, HostsLeft, RolesLeft, EdgesLeft, ClientsLeft, MappersLeft, MailLeft
  <2> QED BY <1>4, <2>2, <2>3 DEF Works, Moves
<1>5. CASE ListHolders(r)
  <2>1. Moves(r, "user", IF PapaiaAdmin \in run[r].seen THEN legacy ELSE {}, run[r].seen, {})
    BY <1>1, <1>2, <1>5, GoesTo DEF ListHolders
  <2>2. TypeOK' /\ Adds
    BY <1>1, <1>3, <1>5, <2>1, Looks DEF ListHolders, TypeOK
  <2>3. roles \subseteq run[r].seen
    BY <1>1, <1>2 DEF Past
  <2>4. UsersLeft(r)'
    BY <1>5, <2>1, <2>3 DEF ListHolders, UsersLeft, Moves, realm, users
  <2> QED BY <1>4, <2>1, <2>2, <2>4
<1>6. CASE Migrate(r)
  <2>1. PICK u \in Todo(r) : admins' = admins \cup {u} /\ Goes(r, "user", Done(r, u))
    BY <1>6 DEF Migrate
  <2>2. Moves(r, "user", Todo(r) \ {u}, run[r].seen, {})
    BY <1>1, <1>2, <2>1, GoesTo DEF Done
  <2>3. UNCHANGED <<definition, hosts, roles, edges, clients, mappers, mail, link, users, bounds>>
    BY <1>6 DEF Migrate
  <2>4. u \in legacy /\ legacy \subseteq Users
    BY <1>1, <1>6 DEF Migrate, Left, UsersLeft, TypeOK
  <2>5. TypeOK' /\ Adds
    BY <1>1, <1>3, <2>1, <2>2, <2>3, <2>4 DEF TypeOK, Adds, Moves, users
  <2>6. UsersLeft(r)'
    BY <1>1, <1>6, <2>1, <2>2, <2>3 DEF Migrate, Left, UsersLeft, Moves, users
  <2> QED BY <1>4, <2>2, <2>5, <2>6
<1> QED BY <1>5, <1>6

LEMMA Ends ==
  ASSUME IInv, NEW r \in Runs, Complete(r) \/ BreaksOff(r)
  PROVE  Works(r)
<1>1. run' = [run EXCEPT ![r] = NoRun] /\ UNCHANGED <<definition, hosts, realm, users, edits, renders>>
  BY DEF Complete, BreaksOff, bounds
<1>2. run'[r] = NoRun /\ \A q \in Runs \ {r} : run'[q] = run[q]
  BY <1>1 DEF IInv, TypeOK
<1>3. TypeOK /\ faults' \in Nat
  BY DEF IInv, TypeOK, Complete, BreaksOff, bounds
<1>4. Adds
  BY <1>1 DEF Adds, realm, users
<1>5. TypeOK'
  BY <1>1, <1>2, <1>3 DEF TypeOK, NoRun, At, realm, users
<1>6. Past(r)'
  BY <1>2 DEF Past, NoRun, At, PastRoles, PastComposites, PastClients, PastMappers, PastMail
<1>7. Left(r)'
  BY <1>2 DEF NoRun, Left, At, HostsLeft, RolesLeft, EdgesLeft, ClientsLeft, MappersLeft, MailLeft,
              UsersLeft
<1> QED BY <1>2, <1>4, <1>5, <1>6, <1>7 DEF Works

LEMMA RunWorks ==
  ASSUME IInv, NEW r \in Runs,
         Begin(r, "hosts") \/ Begin(r, "roles") \/ Step(r) \/ HostsFail(r) \/ BreaksOff(r)
  PROVE  Works(r)
BY Begins, HostSteps, RoleSteps, CompositeSteps, ClientSteps, MapperSteps, MailSteps, UserSteps, Ends
DEF Step

-----------------------------------------------------------------------------
(* Between runs nothing is promised. *)
LEMMA BetweenRuns ==
  ASSUME TypeOK, Idle, UNCHANGED run
  PROVE  AllPast' /\ AllLeft'
<1>1. \A r \in Runs : run'[r].step = "idle"
  BY DEF Idle, At
<1>2. AllPast'
  BY <1>1 DEF AllPast, Past, At, PastRoles, PastComposites, PastClients, PastMappers, PastMail
<1>3. AllLeft'
  BY <1>1 DEF AllLeft, Left, At, HostsLeft, RolesLeft, EdgesLeft, ClientsLeft, MappersLeft, MailLeft,
              UsersLeft
<1> QED BY <1>2, <1>3

LEMMA Administered ==
  ASSUME TypeOK, Render \/ EditMail \/ EditRealm \/ GrantLegacy
  PROVE  TypeOK' /\ Idle /\ UNCHANGED run
<1>1. Idle /\ UNCHANGED run
  BY DEF Render, EditMail, EditRealm, GrantLegacy, Edit
<1>2. CASE Render
  BY <1>2 DEF Render, TypeOK, realm, users, At
<1>3. CASE EditMail
  BY <1>3 DEF EditMail, Edit, TypeOK, users, At
<1>4. CASE EditRealm
  <2>1. edges' \subseteq Edges /\ clients' \in [Clients -> Secrets \cup {"leftover"}] /\ admins' \subseteq Users
    BY <1>4 DEF EditRealm, TypeOK
  <2> QED BY <1>4, <2>1 DEF EditRealm, Edit, TypeOK, users, At
<1>5. CASE GrantLegacy
  BY <1>5 DEF GrantLegacy, TypeOK, realm, At
<1> QED BY <1>1, <1>2, <1>3, <1>4, <1>5

LEMMA Invariance == Spec => []IInv
<1>1. Init => IInv
  BY InitInvariant
<1>2. IInv /\ [Next]_vars => IInv'
  <2> SUFFICES ASSUME IInv, [Next]_vars PROVE IInv'
    OBVIOUS
  <2>1. ASSUME NEW r \in Runs,
               Begin(r, "hosts") \/ Begin(r, "roles") \/ Step(r) \/ HostsFail(r) \/ BreaksOff(r)
        PROVE  IInv'
    <3>1. Works(r)
      BY <2>1, RunWorks
    <3>2. \A q \in Runs \ {r} : Past(q)' /\ Left(q)'
      BY <3>1, PastStays, LeftStays DEF Works, IInv, AllPast, AllLeft
    <3> QED BY <3>1, <3>2 DEF Works, IInv, AllPast, AllLeft
  <2>2. CASE Render \/ EditMail \/ EditRealm \/ GrantLegacy
    BY <2>2, Administered, BetweenRuns DEF IInv
  <2>3. CASE UNCHANGED vars
    BY <2>3 DEF vars, realm, users, bounds, IInv, TypeOK, AllPast, AllLeft, Past, Left, HostsLeft,
                RolesLeft, EdgesLeft, ClientsLeft, MappersLeft, MailLeft, UsersLeft, RolesThere,
                EdgesThere, ClientsThere, Fits, MappersThere, MailThere, At, Def, Todo, Available
  <2> QED BY <2>1, <2>2, <2>3 DEF Next
<1> QED BY <1>1, <1>2, PTL DEF Spec

(* Every variable keeps its type, the process of each run included.        *)
THEOREM TypeCorrect == Spec => []TypeOK
<1>1. IInv => TypeOK
  BY DEF IInv
<1> QED BY <1>1, Invariance, PTL

(* When a run has done its work, the realm and the proxy have all that is  *)
(* rendered (SyncedWhenDone), for any definition and any number of runs    *)
(* beside it that break off anywhere (keycloak_role_sync.py:1-33,          *)
(* npm_provision.py:1-6).                                                  *)
THEOREM DoneIsSynced == Spec => []SyncedWhenDone
<1>1. IInv => SyncedWhenDone
  <2> SUFFICES ASSUME IInv, NEW r \in Runs
               PROVE  /\ At(r, "user") /\ Todo(r) = {} => InSync(Def(r))
                      /\ At(r, "host") /\ Todo(r) = {} =>
                           \A s \in Def(r).sites : hosts[s.domain] # Absent
    BY DEF SyncedWhenDone
  <2>1. Past(r) /\ Left(r) /\ definition.relay \in BOOLEAN
    BY DefinitionType DEF IInv, AllPast, AllLeft, IsDefinition
  <2>2. ASSUME At(r, "user"), Todo(r) = {} PROVE InSync(Def(r))
    <3>1. Def(r) = definition /\ RolesThere /\ EdgesThere /\ ClientsThere /\ MappersThere /\ MailThere
      BY <2>1, <2>2
      DEF Past, At, PastRoles, PastComposites, PastClients, PastMappers, PastMail
    <3>2. PapaiaAdmin \in roles => legacy \subseteq admins
      BY <2>1, <2>2 DEF Left, UsersLeft
    <3> QED BY <3>1, <3>2 DEF InSync, RolesThere, EdgesThere, ClientsThere, Fits, MappersThere, MailThere
  <2>3. ASSUME At(r, "host"), Todo(r) = {} PROVE \A s \in Def(r).sites : hosts[s.domain] # Absent
    BY <2>1, <2>3 DEF Past, Left, HostsLeft, At
  <2> QED BY <2>2, <2>3
<1> QED BY <1>1, Invariance, PTL

(* Whatever runs there are, none takes anything away or overrules an       *)
(* administrator (Additive; keycloak_role_sync.py:9-11, 18-28, 390-391).   *)
THEOREM OnlyAdds == Spec => Additive
<1> DEFINE A == run' # run =>
       /\ roles \subseteq roles' /\ edges \subseteq edges' /\ mappers \subseteq mappers'
       /\ admins \subseteq admins'
       /\ mail = "own" => mail' = "own" /\ link' = link
       /\ link' /\ ~ link => mail = "none"
       /\ \A d \in Domains : hosts[d] # Absent => hosts'[d] = hosts[d]
       /\ \A c \in Clients \ definition.wanted : clients'[c] = clients[c]
<1>1. IInv /\ [Next]_vars => [A]_vars
  <2> SUFFICES ASSUME IInv, Next PROVE A
    OBVIOUS
  <2>1. ASSUME NEW r \in Runs,
               Begin(r, "hosts") \/ Begin(r, "roles") \/ Step(r) \/ HostsFail(r) \/ BreaksOff(r)
        PROVE  A
    <3>1. Adds
      BY <2>1, RunWorks DEF Works
    <3> QED BY <3>1 DEF Adds
  <2>2. CASE Render \/ EditMail \/ EditRealm \/ GrantLegacy
    BY <2>2, Administered DEF IInv
  <2> QED BY <2>1, <2>2 DEF Next
<1> QED BY <1>1, Invariance, PTL DEF Spec, Additive
=============================================================================
