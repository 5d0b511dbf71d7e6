------------------------------- MODULE Status -------------------------------
(***************************************************************************)
(* papaia-ctl status and the checks of papaia-ctl doctor that rest on it.  *)
(* The command reads what the bundle declares, asks docker ps what is      *)
(* there, asks docker inspect about what has finished, and doctor then     *)
(* tries the published ports; containers, operators and other commands     *)
(* move on between any two of these reads.  Nothing is written.            *)
(***************************************************************************)
EXTENDS Naturals, FiniteSets

CONSTANTS
  Core,        \* the compose project of the core
  Addons,      \* the add-ons, each a compose project of its own
  Profiles,    \* the compose profiles of the core
  Services,    \* the compose services of all projects
  Declared,    \* those that a compose file declares
  Project,     \* the project of each service
  ProfilesOf,  \* its profiles, {} when it has none
  ModuleOf,    \* its module: the label, or the add-on, or Ungrouped
  Port,        \* the host ports that it publishes
  Containers,
  ServiceOf,   \* the service of each container
  Label,       \* its module label, Ungrouped without one
  Policy,      \* its restart policy: "keep" for always and unless-stopped
  Ungrouped,   \* UNGROUPED_MODULE
  Verdict,     \* what the compatibility check says of each add-on
  Mode,        \* the gate policy of the deployment
  Initial,     \* bound: what containers are when the command begins
  MaxChanges   \* bound: how often the world changes during the command

C == INSTANCE Compat

States == {"absent", "created", "starting", "running", "unhealthy",
           "restarting", "paused", "exited 0", "exited"}
Modules == {ModuleOf[s] : s \in Services} \cup {Label[c] : c \in Containers}

ASSUME StatusAssumption ==
  /\ Core \notin Addons
  /\ Declared \subseteq Services
  /\ Project \in [Services -> {Core} \cup Addons]
  /\ ProfilesOf \in [Services -> SUBSET Profiles]
  /\ \A s \in Services : Project[s] # Core => ProfilesOf[s] = {}
  /\ DOMAIN ModuleOf = Services /\ DOMAIN Port = Services
  /\ ServiceOf \in [Containers -> Services]
  /\ DOMAIN Label = Containers
  /\ Policy \in [Containers -> {"keep", "no"}]
  /\ Verdict \in [Addons -> {"OK", "INCOMPATIBLE", "UNKNOWN", "ERROR"}]
  /\ Mode \in {"enforce", "warn"}
  /\ Initial \subseteq [Containers -> States] /\ MaxChanges \in Nat

(* Compose creates a container anew when the labels of its service change. *)
ASSUME LabelsCurrent ==
  \A c \in Containers :
    ServiceOf[c] \in Declared => Label[c] \in {ModuleOf[ServiceOf[c]], Ungrouped}

VARIABLES
  docker,     \* the state of each container
  answering,  \* the docker daemon can be reached
  foreign,    \* the host ports that other processes hold
  pc, cmd,    \* the command: "status" or "doctor"
  active,     \* COMPOSE_PROFILES, as the command has read it
  wanted,     \* --profiles, {} without it
  projects,   \* the projects it reports on
  rows,       \* docker ps -a as it was
  asked,      \* the containers whose restart policy it has been told
  ports,      \* doctor: the verdict on each port that it has tried
  moved,      \* history: the containers that have changed since docker ps
  changes

world == <<docker, answering, foreign>>
reads == <<active, wanted, projects, rows, asked>>
vars == <<world, pc, cmd, reads, ports, moved, changes>>

-----------------------------------------------------------------------------
(* The report: what is declared next to what docker has said.              *)

Severity ==
  [missing |-> 0, stopped |-> 1, unhealthy |-> 2, starting |-> 3,
   unknown |-> 4, completed |-> 5, healthy |-> 6]
Outage == {"missing", "stopped", "unhealthy"}

(* A finished job does not outrank what runs next to it. *)
worst(healths) ==
  LET serving == healths \ {"completed"}
  IN IF healths = {} THEN "unknown"
     ELSE IF serving = {} THEN "completed"
     ELSE CHOOSE h \in serving : \A g \in serving : Severity[h] <= Severity[g]

derive_health ==
  [state \in States \ {"absent"} |->
     IF state \in {"created", "starting"} THEN "starting"
     ELSE IF state = "running" THEN "healthy"
     ELSE IF state \in {"unhealthy", "restarting"} THEN "unhealthy"
     ELSE IF state = "exited 0" THEN "completed"
     ELSE "stopped"]

(* Seeded bug: a clean exit is taken for the end of a job. *)
HealthAsListed(c) == derive_health[rows[c]]

(* What docker was told to keep alive has not finished, it is stopped. *)
HealthOf(c) ==
  IF rows[c] = "exited 0" /\ c \in asked /\ Policy[c] = "keep" THEN "stopped"
  ELSE derive_health[rows[c]]

(* core_inventory, addon_inventory *)
Expected(p) ==
  {s \in Declared :
     /\ Project[s] = p
     /\ ProfilesOf[s] = {} \/ ProfilesOf[s] \cap active # {}}

declared_profiles == UNION {ProfilesOf[s] \cap active : s \in Expected(Core)}

Live(p) == {c \in Containers : Project[ServiceOf[c]] = p /\ rows[c] # "absent"}
LiveOf(s) == {c \in Live(Project[s]) : ServiceOf[c] = s}

(* A container without a label is shown where its service is declared. *)
ShownIn(c) ==
  IF Label[c] = Ungrouped /\ ServiceOf[c] \in Expected(Project[ServiceOf[c]])
  THEN ModuleOf[ServiceOf[c]] ELSE Label[c]

(* assemble_modules: the healths of the containers of a module, and of the *)
(* placeholders of declared services without one.                          *)
Healths(p, m) ==
  {HealthOf(c) : c \in {d \in Live(p) : ShownIn(d) = m}} \cup
  {"missing" : s \in {t \in Expected(p) : ModuleOf[t] = m /\ LiveOf(t) = {}}}

Assembled(p) == {m \in Modules : Healths(p, m) # {}}
Health(p, m) == worst(Healths(p, m))
ModuleProfiles(m) ==
  UNION {ProfilesOf[s] \cap active : s \in {t \in Expected(Core) : ModuleOf[t] = m}}

(* build_groups *)
GroupHealth(profile) ==
  worst({Health(Core, m) :
           m \in {n \in Assembled(Core) : profile \in ModuleProfiles(n)}})

CoreShown ==
  IF wanted = {} THEN Assembled(Core)
  ELSE {m \in Assembled(Core) : ModuleProfiles(m) \cap wanted # {}}

Shown(p) == IF p = Core THEN CoreShown ELSE Assembled(p)

(* The report has a section for the core and one for all add-ons, each     *)
(* with an aggregate.                                                      *)
Sections == {{Core}, projects \ {Core}}
Rows(section) == UNION {{Health(p, m) : m \in Shown(p)} : p \in section}
Aggregate(section) == worst(Rows(section))

-----------------------------------------------------------------------------
(* The command.                                                            *)

Init ==
  /\ docker \in Initial
  /\ answering = TRUE
  /\ foreign \in SUBSET UNION {Port[s] : s \in Services}
  /\ pc = "idle" /\ cmd = "status"
  /\ active = {} /\ wanted = {} /\ projects = {}
  /\ rows = [c \in Containers |-> "absent"]
  /\ asked = {} /\ ports = {} /\ moved = {}
  /\ changes = 0

GoTo(step) == pc' = step

(* .env, the compose files, deployment.yaml. *)
ReadDeclared(command, enabled, narrowed, addons) ==
  /\ pc = "idle"
  /\ cmd' = command /\ active' = enabled
  /\ wanted' = narrowed /\ projects' = {Core} \cup addons
  /\ GoTo("read")
  /\ UNCHANGED <<world, rows, asked, ports, moved, changes>>

(* Unknown or inactive profile(s). *)
Refuse ==
  /\ pc = "read" /\ ~ wanted \subseteq declared_profiles
  /\ GoTo("refused")
  /\ UNCHANGED <<world, cmd, reads, ports, moved, changes>>

(* Seeded bug: a failing docker ps has an empty output too. *)
QueryOutputOnly ==
  /\ pc = "read" /\ wanted \subseteq declared_profiles
  /\ rows' = IF answering THEN docker ELSE rows
  /\ GoTo("listed") /\ moved' = {}
  /\ UNCHANGED <<world, cmd, active, wanted, projects, asked, ports, changes>>

query_containers ==
  /\ pc = "read" /\ wanted \subseteq declared_profiles
  /\ IF answering THEN rows' = docker /\ GoTo("listed")
                  ELSE UNCHANGED rows /\ GoTo("unreachable")
  /\ moved' = {}
  /\ UNCHANGED <<world, cmd, active, wanted, projects, asked, ports, changes>>

Completed ==
  {c \in Containers : rows[c] = "exited 0" /\ Project[ServiceOf[c]] \in projects}

(* A container that is gone by now is missing from the answer; a timeout   *)
(* leaves no answer at all.                                                *)
query_restart_policies ==
  /\ pc = "listed"
  /\ asked' \in {{}, {c \in Completed : answering /\ docker[c] # "absent"}}
  /\ GoTo(IF cmd = "doctor" THEN "ports" ELSE "reported")
  /\ UNCHANGED <<world, cmd, active, wanted, projects, rows, ports, moved, changes>>

-----------------------------------------------------------------------------
(* The checks of doctor.                                                   *)

WantedPorts == UNION {Port[s] : s \in Expected(Core)}

(* Seeded bug: the containers of add-ons are left out. *)
CorePorts ==
  UNION {Port[ServiceOf[c]] :
           c \in {d \in Containers :
                    Project[ServiceOf[d]] = Core /\ rows[d] \in {"starting", "running", "unhealthy"}}}

(* host_ports_in_use, of the report: docker ps lists the ports of what     *)
(* runs.                                                                   *)
Holds == {"starting", "running", "unhealthy"}
OurPorts ==
  UNION {Port[ServiceOf[c]] :
           c \in {d \in Containers :
                    Project[ServiceOf[d]] \in projects /\ rows[d] \in Holds}}

(* What a connect to the port finds now.  A paused container still holds   *)
(* its ports, and the kernel completes the handshake.                      *)
Listening(port) ==
  \/ port \in foreign
  \/ \E c \in Containers :
       port \in Port[ServiceOf[c]] /\ docker[c] \in Holds \cup {"paused"}

PortVerdict(port) ==
  IF ~ Listening(port) \/ port \in OurPorts THEN "pass" ELSE "fail"

check_port(port) ==
  /\ pc = "ports" /\ port \in WantedPorts \ {t.port : t \in ports}
  /\ ports' = ports \cup {[port |-> port, verdict |-> PortVerdict(port)]}
  /\ UNCHANGED <<world, pc, cmd, reads, moved, changes>>

PortsChecked ==
  /\ pc = "ports" /\ WantedPorts = {t.port : t \in ports}
  /\ GoTo("reported")
  /\ UNCHANGED <<world, cmd, reads, ports, moved, changes>>

HealthVerdict ==
  [healthy |-> "pass", completed |-> "pass", starting |-> "warn",
   unknown |-> "warn", missing |-> "warn", unhealthy |-> "fail",
   stopped |-> "fail"]

(* Seeded bug: an add-on that does not fit is only worth a warning. *)
AddonVerdictAdvisory(a) ==
  IF Verdict[a] = "ERROR" THEN "fail"
  ELSE IF Verdict[a] = "OK" THEN "pass" ELSE "warn"

(* What does not fit is refused by the gate of start, or only warned of. *)
AddonVerdict(a) ==
  IF Verdict[a] = "OK" THEN "pass"
  ELSE IF Verdict[a] = "UNKNOWN" THEN "warn"
  ELSE IF Verdict[a] = "INCOMPATIBLE" /\ C!gate({Verdict[a]}, Mode, FALSE) THEN "warn"
  ELSE "fail"

(* exit_code: 2 when one of the checks has failed. *)
Failed ==
  \/ \E t \in ports : t.verdict = "fail"
  \/ \E a \in projects \ {Core} : AddonVerdict(a) = "fail"
  \/ \E p \in projects : \E m \in Assembled(p) : HealthVerdict[Health(p, m)] = "fail"

-----------------------------------------------------------------------------
(* The world beside it: containers start, crash, finish, are paused by a   *)
(* backup and removed; the daemon goes away and comes back.                *)
Changed ==
  /\ pc \in {"read", "listed", "ports"}
  /\ changes < MaxChanges /\ changes' = changes + 1
  /\ UNCHANGED <<foreign, pc, cmd, reads, ports>>

ContainerChanges(c) ==
  /\ Changed
  /\ \E state \in States \ {docker[c]} : docker' = [docker EXCEPT ![c] = state]
  /\ moved' = moved \cup {c}
  /\ UNCHANGED answering

DaemonChanges ==
  /\ Changed
  /\ answering' = ~ answering
  /\ UNCHANGED <<docker, moved>>

Next ==
  \/ \E enabled \in SUBSET Profiles, addons \in SUBSET Addons :
       \/ \E narrowed \in SUBSET Profiles :
            ReadDeclared("status", enabled, narrowed, addons)
       \/ ReadDeclared("doctor", enabled, {}, addons)
  \/ Refuse \/ query_containers \/ query_restart_policies
  \/ \E port \in WantedPorts : check_port(port)
  \/ PortsChecked
  \/ \E c \in Containers : ContainerChanges(c)
  \/ DaemonChanges

Spec == Init /\ [][Next]_vars

-----------------------------------------------------------------------------
(* Properties.                                                             *)

TypeOK ==
  /\ docker \in [Containers -> States] /\ rows \in [Containers -> States]
  /\ answering \in BOOLEAN
  /\ pc \in {"idle", "read", "listed", "ports", "reported", "refused", "unreachable"}
  /\ cmd \in {"status", "doctor"}
  /\ active \subseteq Profiles /\ wanted \subseteq Profiles
  /\ projects \subseteq {Core} \cup Addons
  /\ asked \subseteq Containers /\ moved \subseteq Containers
  /\ changes \in Nat

Reported == pc \in {"ports", "reported"}

(* The declared services that the command was asked about. *)
Asked(p) ==
  IF wanted = {} THEN Expected(p)
  ELSE {s \in Expected(p) : p = Core /\ ProfilesOf[s] \cap wanted # {}}

Of(s) == {c \in Containers : ServiceOf[c] = s}

(* It does not serve.  A clean exit counts when the container was to be    *)
(* kept alive.                                                             *)
Down(c) ==
  \/ docker[c] \in {"unhealthy", "restarting", "paused", "exited"}
  \/ docker[c] = "exited 0" /\ Policy[c] = "keep"

(* It is, and has been since docker ps.  Of a clean exit docker must have  *)
(* told, too, that it is none.                                             *)
StayedDown(c) ==
  c \notin moved /\ Down(c) /\ (docker[c] = "exited 0" => c \in asked)

(***************************************************************************)
(* No outage is hidden: when a service that is asked about has no          *)
(* container, or one that is down, and has had since docker ps, then its   *)
(* section says so, and every profile of the service does.                 *)
(***************************************************************************)
OutageSeen ==
  Reported => \A p \in projects : \A s \in Asked(p) :
    \/ \A c \in Of(s) : c \notin moved /\ docker[c] = "absent"
    \/ \E c \in Of(s) : StayedDown(c)
    => /\ \E section \in Sections : p \in section /\ Aggregate(section) \in Outage
       /\ p = Core => \A profile \in ProfilesOf[s] \cap active :
                        GroupHealth(profile) \in Outage

(***************************************************************************)
(* No outage is invented: a section reports one only when a declared       *)
(* service has no container or some container is down, unless that has     *)
(* changed since docker ps.  In particular a daemon that does not answer   *)
(* makes nothing missing.                                                  *)
(***************************************************************************)
NoInventedOutage ==
  Reported => \A section \in Sections :
    Aggregate(section) \in Outage =>
      \E p \in section :
        \/ \E s \in Expected(p) : \A c \in Of(s) : c \in moved \/ docker[c] = "absent"
        \/ \E c \in Containers :
             Project[ServiceOf[c]] = p /\ (c \in moved \/ Down(c))

(***************************************************************************)
(* A port is blamed on another process only if one holds it, or a          *)
(* container that the report does not show, unless our own container has   *)
(* come up since docker ps, or is paused.                                  *)
(***************************************************************************)
PortsBlamedRightly ==
  \A t \in ports :
    t.verdict = "fail" =>
      \/ t.port \in foreign
      \/ \E c \in Containers :
           /\ t.port \in Port[ServiceOf[c]]
           /\ \/ c \in moved \/ rows[c] = "paused"
              \/ Project[ServiceOf[c]] \notin projects

(***************************************************************************)
(* What doctor passes can be started: when none of these checks fails,     *)
(* start's gate lets the add-ons in, and every container that has stayed   *)
(* down is in a module of which another one is missing.  (That one ranks   *)
(* as worse and is only worth a warning.)                                  *)
(***************************************************************************)
PassedIsStartable ==
  pc = "reported" /\ cmd = "doctor" /\ ~ Failed =>
    /\ C!gate({Verdict[a] : a \in projects \ {Core}}, Mode, FALSE)
    /\ \A c \in Containers :
         LET p == Project[ServiceOf[c]]
         IN p \in projects /\ StayedDown(c) => Health(p, ShownIn(c)) = "missing"
=============================================================================
