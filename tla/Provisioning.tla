---------------------------- MODULE Provisioning ----------------------------
(***************************************************************************)
(* What start does once the containers are up (lifecycle.sh:142-148): the  *)
(* hosts of the reverse proxy (npm_provision.py), then the realm of        *)
(* Keycloak (keycloak_role_sync.py), each over a REST interface.  Nothing  *)
(* is kept of a run: each looks at what is there and adds what is missing, *)
(* so all depends on the order of looking and adding, on a run that breaks *)
(* off at any call, and on a second one beside it.                         *)
(*                                                                         *)
(* The two servers are outside of the program.  A call that fails after it *)
(* has been carried out is one that succeeds, followed by a failure.       *)
(***************************************************************************)
EXTENDS Integers

CONSTANTS
  Runs,           \* the processes: start, or keycloak-role-sync, twice at a time
  Definitions,    \* what can be rendered, see IsDefinition
  Domains, Services,
  Roles,          \* of the realm
  PapaiaAdmin,    \* the role that holders of the legacy admin role get
  ClientRoles,    \* the roles of built-in clients that Keycloak has
  Clients,
  Mappers,        \* pairs of a client and a name
  Users,
  MaxFaults, MaxEdits, MaxRenders   \* bounds

Absent == "absent"              \* no client, no host
Public == "public"              \* a client that authenticates without a secret
Placeholder == "GENERATE_"      \* a secret that setup has not generated yet

(* The rendered realm, what the profiles ask for, and the sites: the       *)
(* services with a public address, in the order of _PROXY_HOST_SPECS.      *)
IsDefinition(d) ==
  /\ d.roles \subseteq Roles
  /\ d.edges \subseteq d.roles \X (d.roles \cup d.clientRoles)
  /\ d.clientRoles \cap Roles = {}
  /\ d.secret \in [Clients -> {Absent, Public, Placeholder, "canonical"}]
  /\ d.wanted \subseteq {c \in Clients : d.secret[c] # Absent}
  /\ d.mappers \subseteq {m \in Mappers : d.secret[m[1]] # Absent}
  /\ d.relay \in BOOLEAN
  /\ d.sites \subseteq [at : Nat, domain : Domains, service : Services]

ASSUME ProvisioningAssumption ==
  /\ \A d \in Definitions : IsDefinition(d)
  /\ PapaiaAdmin \in Roles
  /\ \A m \in Mappers : m[1] \in Clients
  /\ Absent \notin Services
  /\ {MaxFaults, MaxEdits, MaxRenders} \subseteq Nat

VARIABLES
  definition,   \* what is rendered
  hosts,        \* the proxy's hosts: the service a domain is forwarded to
  roles, edges, \* the realm: roles, and composites as pairs of role and member
  clients,      \* its clients: absent, public, or with their secret, the canonical
                \* one of the core .env or a leftover
  mappers,
  mail,         \* its mail server: none, the relay, a stale relay (other fields), its own
  link,         \* resetPasswordAllowed
  legacy, admins,   \* the users with the legacy admin role, and with PapaiaAdmin
  run,          \* what each process is at
  faults, edits, renders

realm == <<roles, edges, clients, mappers, mail, link, admins>>
users == <<legacy>>
bounds == <<faults, edits, renders>>
vars == <<definition, hosts, realm, users, run, bounds>>

(* A composite member that is a client role, and that Keycloak does not    *)
(* have, cannot be added; it is passed over.                               *)
Available(e, d) == e[2] \in d.roles \cup ClientRoles

(* A call has been decided on from what `seen` says; `todo` is the rest of *)
(* the loop.                                                               *)
NoRun == [step |-> "idle", def |-> {}, todo |-> {}, seen |-> {}, next |-> {}]

(* Keycloak imports the realm of the first start as it is rendered, after  *)
(* setup has generated its secrets.                                        *)
Init ==
  /\ definition \in {d \in Definitions : \A c \in Clients : d.secret[c] # Placeholder}
  /\ hosts = [d \in Domains |-> Absent]
  /\ roles = definition.roles
  /\ edges = {e \in definition.edges : Available(e, definition)}
  /\ clients = definition.secret /\ mappers = definition.mappers
  /\ mail = (IF definition.relay THEN "relay" ELSE "none") /\ link = definition.relay
  /\ legacy = {} /\ admins = {}
  /\ run = [r \in Runs |-> NoRun]
  /\ faults = 0 /\ edits = 0 /\ renders = 0

-----------------------------------------------------------------------------
At(r, step) == run[r].step = step
Def(r) == run[r].def
Todo(r) == run[r].todo
Idle == \A r \in Runs : At(r, "idle")

Goes(r, step, todo) == run' = [run EXCEPT ![r].step = step, ![r].todo = todo, ![r].next = {}]
Calls(r, step, next) == run' = [run EXCEPT ![r].step = step, ![r].next = next]
Done(r, x) == Todo(r) \ {x}

Begin(r, step) ==
  /\ At(r, "idle")
  /\ run' = [run EXCEPT ![r] = [NoRun EXCEPT !.step = step, !.def = definition]]
  /\ UNCHANGED <<definition, hosts, realm, users, bounds>>

-----------------------------------------------------------------------------
(* provision_npm_hosts: the domains that have a host are looked up once.   *)
ListHosts(r) ==
  /\ At(r, "hosts")
  /\ run' = [run EXCEPT ![r].step = "host", ![r].todo = Def(r).sites,
                        ![r].seen = {d \in Domains : hosts[d] # Absent}]
  /\ UNCHANGED <<definition, hosts, realm, users, bounds>>

IsFirst(s, sites) == s \in sites /\ \A t \in sites : s.at <= t.at

HostExists(r) ==
  /\ At(r, "host")
  /\ \E s \in Todo(r) : /\ IsFirst(s, Todo(r)) /\ s.domain \in run[r].seen
                        /\ Goes(r, "host", Done(r, s))
  /\ UNCHANGED <<definition, hosts, realm, users, bounds>>

CreateHost(r) ==
  /\ At(r, "host")
  /\ \E s \in Todo(r) :
       /\ IsFirst(s, Todo(r)) /\ s.domain \notin run[r].seen /\ hosts[s.domain] = Absent
       /\ hosts' = [hosts EXCEPT ![s.domain] = s.service]
       /\ run' = [run EXCEPT ![r].todo = Done(r, s), ![r].seen = @ \cup {s.domain}]
  /\ UNCHANGED <<definition, realm, users, bounds>>

(* The proxy refuses a second host for a domain; the exception ends the    *)
(* step, start warns and goes on to the realm.                             *)
HostRefused(r) ==
  /\ At(r, "host")
  /\ \E s \in Todo(r) : IsFirst(s, Todo(r)) /\ s.domain \notin run[r].seen /\ hosts[s.domain] # Absent
  /\ Goes(r, "roles", {})
  /\ UNCHANGED <<definition, hosts, realm, users, bounds>>

HostsDone(r) ==
  /\ At(r, "host") /\ Todo(r) = {}
  /\ Goes(r, "roles", {})
  /\ UNCHANGED <<definition, hosts, realm, users, bounds>>

HostsFail(r) ==
  /\ run[r].step \in {"hosts", "host"} /\ faults < MaxFaults
  /\ faults' = faults + 1
  /\ Goes(r, "roles", {})
  /\ UNCHANGED <<definition, hosts, realm, users, edits, renders>>

-----------------------------------------------------------------------------
(* _sync_roles.  What it saw and created decides on the migration later.   *)
ListRoles(r) ==
  /\ At(r, "roles")
  /\ run' = [run EXCEPT ![r].step = "role", ![r].todo = Def(r).roles \ roles, ![r].seen = roles]
  /\ UNCHANGED <<definition, hosts, realm, users, bounds>>

(* Seeded bug: a role that is created is not noted. *)
CreateRoleUnseen(r) ==
  /\ At(r, "role")
  /\ \E x \in Todo(r) : roles' = roles \cup {x} /\ Goes(r, "role", Done(r, x))
  /\ UNCHANGED <<definition, hosts, edges, clients, mappers, mail, link, admins, users, bounds>>

CreateRole(r) ==
  /\ At(r, "role")
  /\ \E x \in Todo(r) :
       /\ roles' = roles \cup {x}
       /\ run' = [run EXCEPT ![r].todo = Done(r, x), ![r].seen = @ \cup {x}]
  /\ UNCHANGED <<definition, hosts, edges, clients, mappers, mail, link, admins, users, bounds>>

Composed(d) == {x \in d.roles : \E e \in d.edges : e[1] = x}

RolesDone(r) ==
  /\ At(r, "role") /\ Todo(r) = {}
  /\ Goes(r, "composites", Composed(Def(r)))
  /\ UNCHANGED <<definition, hosts, realm, users, bounds>>

(* Seeded bug: a client role that is not there is an error. *)
ListCompositesStrictly(r) ==
  /\ At(r, "composites")
  /\ \E x \in Todo(r) :
       LET missing == {e \in Def(r).edges : e[1] = x /\ e \notin edges}
       IN run' = IF \E e \in missing : ~ Available(e, Def(r)) THEN [run EXCEPT ![r] = NoRun]
                 ELSE [run EXCEPT ![r].step = IF missing = {} THEN "composites" ELSE "composite",
                                  ![r].todo = Done(r, x), ![r].next = missing]
  /\ UNCHANGED <<definition, hosts, realm, users, bounds>>

(* _sync_composites.                                                       *)
ListComposites(r) ==
  /\ At(r, "composites")
  /\ \E x \in Todo(r) :
       LET missing == {e \in Def(r).edges : e[1] = x /\ e \notin edges /\ Available(e, Def(r))}
       IN run' = [run EXCEPT ![r].step = IF missing = {} THEN "composites" ELSE "composite",
                             ![r].todo = Done(r, x), ![r].next = missing]
  /\ UNCHANGED <<definition, hosts, realm, users, bounds>>

AddComposites(r) ==
  /\ At(r, "composite")
  /\ edges' = edges \cup run[r].next
  /\ Calls(r, "composites", {})
  /\ UNCHANGED <<definition, hosts, roles, clients, mappers, mail, link, admins, users, bounds>>

CompositesDone(r) ==
  /\ At(r, "composites") /\ Todo(r) = {}
  /\ Goes(r, "clients", Def(r).wanted)
  /\ UNCHANGED <<definition, hosts, realm, users, bounds>>

-----------------------------------------------------------------------------
(* _sync_clients: those that a profile asks for are created as rendered,   *)
(* unless their secret is a placeholder; the secret of one that exists is  *)
(* compared and then written.                                              *)
Known(c, r) == Def(r).secret[c] = "canonical"

ClientFits(r) ==
  /\ At(r, "clients")
  /\ \E c \in Todo(r) :
       /\ \/ clients[c] # Absent /\ (Known(c, r) => clients[c] = "canonical")
          \/ clients[c] = Absent /\ Def(r).secret[c] = Placeholder
       /\ Goes(r, "clients", Done(r, c))
  /\ UNCHANGED <<definition, hosts, realm, users, bounds>>

ClientDiffers(r) ==
  /\ At(r, "clients")
  /\ \E c \in Todo(r) :
       /\ clients[c] # Absent /\ Known(c, r) /\ clients[c] # "canonical"
       /\ run' = [run EXCEPT ![r].step = "secret", ![r].todo = Done(r, c), ![r].next = {c}]
  /\ UNCHANGED <<definition, hosts, realm, users, bounds>>

AlignSecret(r) ==
  /\ At(r, "secret")
  /\ clients' = [c \in Clients |-> IF c \in run[r].next THEN Def(r).secret[c] ELSE clients[c]]
  /\ Calls(r, "clients", {})
  /\ UNCHANGED <<definition, hosts, roles, edges, mappers, mail, link, admins, users, bounds>>

ClientMissing(r) ==
  /\ At(r, "clients")
  /\ \E c \in Todo(r) :
       /\ clients[c] = Absent /\ Def(r).secret[c] # Placeholder
       /\ run' = [run EXCEPT ![r].step = "client", ![r].todo = Done(r, c), ![r].next = {c}]
  /\ UNCHANGED <<definition, hosts, realm, users, bounds>>

(* 409, when it has been created meanwhile, counts as success. *)
CreateClient(r) ==
  /\ At(r, "client")
  /\ LET new == {c \in run[r].next : clients[c] = Absent}
     IN /\ clients' = [c \in Clients |-> IF c \in new THEN Def(r).secret[c] ELSE clients[c]]
        /\ mappers' = mappers \cup {m \in Def(r).mappers : m[1] \in new}
  /\ Calls(r, "clients", {})
  /\ UNCHANGED <<definition, hosts, roles, edges, mail, link, admins, users, bounds>>

ClientsDone(r) ==
  /\ At(r, "clients") /\ Todo(r) = {}
  /\ Goes(r, "mappers", {c \in Clients : Def(r).secret[c] # Absent})
  /\ UNCHANGED <<definition, hosts, realm, users, bounds>>

(* _sync_protocol_mappers: on the clients of the template that exist.      *)
ListMappers(r) ==
  /\ At(r, "mappers")
  /\ \E c \in Todo(r) :
       LET missing == {m \in Def(r).mappers \ mappers : m[1] = c}
       IN run' = [run EXCEPT ![r].step = IF missing = {} \/ clients[c] = Absent
                                         THEN "mappers" ELSE "mapper",
                             ![r].todo = Done(r, c),
                             ![r].next = IF clients[c] = Absent THEN {} ELSE missing]
  /\ UNCHANGED <<definition, hosts, realm, users, bounds>>

CreateMapper(r) ==
  /\ At(r, "mapper")
  /\ \E m \in run[r].next :
       /\ mappers' = mappers \cup {m}
       /\ Calls(r, IF run[r].next = {m} THEN "mappers" ELSE "mapper", run[r].next \ {m})
  /\ UNCHANGED <<definition, hosts, roles, edges, clients, mail, link, admins, users, bounds>>

MappersDone(r) ==
  /\ At(r, "mappers") /\ Todo(r) = {}
  /\ Goes(r, "smtp", {})
  /\ UNCHANGED <<definition, hosts, realm, users, bounds>>

-----------------------------------------------------------------------------
(* _sync_smtp: what it read of the realm decides on one PUT.               *)
(* Seeded bug: whose mail server it is, is not looked at. *)
DecisionForAny(relay, server) ==
  CASE relay /\ server = "none" -> "set"
    [] relay /\ server \in {"stale", "own"} -> "update"
    [] ~ relay /\ server \in {"relay", "stale"} -> "clear"
    [] OTHER -> "leave"

Decision(relay, server) ==
  CASE relay /\ server = "none" -> "set"
    [] relay /\ server = "stale" -> "update"
    [] ~ relay /\ server \in {"relay", "stale"} -> "clear"
    [] OTHER -> "leave"

ReadMail(r) ==
  /\ At(r, "smtp")
  /\ LET decision == Decision(Def(r).relay, mail)
     IN IF decision = "leave" THEN Goes(r, "users", {}) ELSE Calls(r, "mail", {decision})
  /\ UNCHANGED <<definition, hosts, realm, users, bounds>>

PutMail(r) ==
  /\ At(r, "mail")
  /\ \E decision \in run[r].next :
       /\ mail' = IF decision = "clear" THEN "none" ELSE "relay"
       /\ link' = CASE decision = "set" -> TRUE [] decision = "clear" -> FALSE [] OTHER -> link
  /\ Goes(r, "users", {})
  /\ UNCHANGED <<definition, hosts, roles, edges, clients, mappers, admins, users, bounds>>

(* _migrate_legacy_admins: the holders are listed once.                    *)
ListHolders(r) ==
  /\ At(r, "users")
  /\ Goes(r, "user", IF PapaiaAdmin \in run[r].seen THEN legacy ELSE {})
  /\ UNCHANGED <<definition, hosts, realm, users, bounds>>

Migrate(r) ==
  /\ At(r, "user")
  /\ \E u \in Todo(r) : admins' = admins \cup {u} /\ Goes(r, "user", Done(r, u))
  /\ UNCHANGED <<definition, hosts, roles, edges, clients, mappers, mail, link, users, bounds>>

Complete(r) ==
  /\ At(r, "user") /\ Todo(r) = {}
  /\ run' = [run EXCEPT ![r] = NoRun]
  /\ UNCHANGED <<definition, hosts, realm, users, bounds>>

(* Keycloak does not get ready or refuses the login, a call fails or times *)
(* out, or start is killed: the rest is left to the next one.              *)
BreaksOff(r) ==
  /\ ~ At(r, "idle") /\ faults < MaxFaults
  /\ faults' = faults + 1
  /\ run' = [run EXCEPT ![r] = NoRun]
  /\ UNCHANGED <<definition, hosts, realm, users, edits, renders>>

-----------------------------------------------------------------------------
(* Between runs: setup or another release renders a new definition;        *)
(* administrators change the realm.                                        *)
Render ==
  /\ Idle /\ renders < MaxRenders
  /\ definition' \in Definitions \ {definition}
  /\ renders' = renders + 1
  /\ UNCHANGED <<hosts, realm, users, run, faults, edits>>

Edit ==
  /\ Idle /\ edits < MaxEdits
  /\ edits' = edits + 1
  /\ UNCHANGED <<definition, hosts, roles, mappers, users, run, faults, renders>>

EditMail ==
  /\ Edit
  /\ mail' \in {"none", "own"} \cup (IF mail = "relay" THEN {"stale"} ELSE {}) /\ link' \in BOOLEAN
  /\ UNCHANGED <<edges, clients, admins>>

EditRealm ==
  /\ Edit
  /\ \/ \E e \in edges : edges' = edges \ {e} /\ UNCHANGED <<clients, admins>>
     \/ \E c \in Clients : clients' = [clients EXCEPT ![c] = "leftover"] /\ UNCHANGED <<edges, admins>>
     \/ \E u \in admins : admins' = admins \ {u} /\ UNCHANGED <<edges, clients>>
  /\ UNCHANGED <<mail, link>>

GrantLegacy ==
  /\ Idle /\ edits < MaxEdits
  /\ edits' = edits + 1
  /\ \E u \in Users \ legacy : legacy' = legacy \cup {u}
  /\ UNCHANGED <<definition, hosts, realm, run, faults, renders>>

Step(r) ==
  \/ ListHosts(r) \/ HostExists(r) \/ CreateHost(r) \/ HostRefused(r) \/ HostsDone(r)
  \/ ListRoles(r) \/ CreateRole(r) \/ RolesDone(r)
  \/ ListComposites(r) \/ AddComposites(r) \/ CompositesDone(r)
  \/ ClientFits(r) \/ ClientDiffers(r) \/ AlignSecret(r) \/ ClientMissing(r) \/ CreateClient(r)
  \/ ClientsDone(r)
  \/ ListMappers(r) \/ CreateMapper(r) \/ MappersDone(r)
  \/ ReadMail(r) \/ PutMail(r) \/ ListHolders(r) \/ Migrate(r) \/ Complete(r)

Next ==
  \/ \E r \in Runs : \/ Begin(r, "hosts") \/ Begin(r, "roles")
                     \/ Step(r) \/ HostsFail(r) \/ BreaksOff(r)
  \/ Render \/ EditMail \/ EditRealm \/ GrantLegacy

Spec == Init /\ [][Next]_vars

(* A run that has begun goes on; and the stack is started again.           *)
FairSpec == Spec /\ \A r \in Runs : WF_vars(Step(r)) /\ WF_vars(Begin(r, "hosts"))

-----------------------------------------------------------------------------
(* What a start has to bring about in the realm. *)
InSync(d) ==
  /\ d.roles \subseteq roles
  /\ \A e \in d.edges : Available(e, d) => e \in edges
  /\ \A c \in d.wanted : /\ d.secret[c] # Placeholder => clients[c] # Absent
                         /\ d.secret[c] = "canonical" => clients[c] = "canonical"
  /\ \A m \in d.mappers : clients[m[1]] # Absent => m \in mappers
  /\ IF d.relay THEN mail \in {"relay", "own"} ELSE mail \in {"none", "own"}
  /\ PapaiaAdmin \in roles => legacy \subseteq admins

(* When a step answers that it has done its work, everything is there that *)
(* the rendered realm asks for, and a host for every site, whatever        *)
(* earlier runs left half done and whatever a run beside it does           *)
(* (keycloak_role_sync.py:1-33, npm_provision.py:1-6).                    *)
SyncedWhenDone ==
  \A r \in Runs :
    /\ At(r, "user") /\ Todo(r) = {} => InSync(Def(r))
    /\ At(r, "host") /\ Todo(r) = {} => \A s \in Def(r).sites : hosts[s.domain] # Absent

(* A run takes nothing away and overrules no administrator: whatever is in *)
(* the realm stays, a mail server of its own included; only the secret of  *)
(* a client that a profile asks for is changed; and the reset link is      *)
(* switched on with the relay, never again after                           *)
(* (keycloak_role_sync.py:9-11, 18-28, 390-391).                           *)
Additive ==
  [][run' # run =>
       /\ roles \subseteq roles' /\ edges \subseteq edges' /\ mappers \subseteq mappers'
       /\ admins \subseteq admins'
       /\ mail = "own" => mail' = "own" /\ link' = link
       /\ link' /\ ~ link => mail = "none"
       /\ \A d \in Domains : hosts[d] # Absent => hosts'[d] = hosts[d]
       /\ \A c \in Clients \ definition.wanted : clients'[c] = clients[c]]_vars

(* Once failures, edits and new definitions stop, the realm comes to what  *)
(* is rendered and stays there.                                            *)
Converges == <>[]InSync(definition)
=============================================================================
