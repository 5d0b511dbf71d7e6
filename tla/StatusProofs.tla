---------------------------- MODULE StatusProofs ----------------------------
(***************************************************************************)
(* Theorems of Status, for any stack, any containers and any number of     *)
(* changes while a report is made.                                         *)
(***************************************************************************)
EXTENDS Status, TLAPS

Known == {"missing", "stopped", "unhealthy", "starting", "unknown", "completed",
          "healthy"}

-----------------------------------------------------------------------------
(* The report.                                                             *)

(* worst hides no outage and makes none up: it says one exactly when there *)
(* is one among what it is given.                                          *)
LEMMA WorstIsOutage ==
  ASSUME NEW H \in SUBSET Known
  PROVE  /\ worst(H) \in Known
         /\ worst(H) \in Outage <=> H \cap Outage # {}
<1> DEFINE serving == H \ {"completed"}
           Least(h) == \A g \in serving : Severity[h] <= Severity[g]
<1>1. CASE serving = {}
  BY <1>1 DEF worst, Outage, Known
<1>2. CASE serving # {}
  <2>1. /\ Severity["missing"] = 0 /\ Severity["stopped"] = 1
        /\ Severity["unhealthy"] = 2 /\ Severity["starting"] = 3
        /\ Severity["unknown"] = 4 /\ Severity["healthy"] = 6
    BY DEF Severity
  <2>2. \A h \in serving : h \in {"missing", "stopped", "unhealthy", "starting",
                                  "unknown", "healthy"}
    BY DEF Known
  <2>3. \E h \in serving : Least(h)
    <3>1. CASE "missing" \in serving
      BY <3>1, <2>1, <2>2
    <3>2. CASE "missing" \notin serving /\ "stopped" \in serving
      BY <3>2, <2>1, <2>2
    <3>3. CASE /\ "missing" \notin serving /\ "stopped" \notin serving
               /\ "unhealthy" \in serving
      BY <3>3, <2>1, <2>2
    <3>4. CASE /\ "missing" \notin serving /\ "stopped" \notin serving
               /\ "unhealthy" \notin serving /\ "starting" \in serving
      BY <3>4, <2>1, <2>2
    <3>5. CASE /\ "missing" \notin serving /\ "stopped" \notin serving
               /\ "unhealthy" \notin serving /\ "starting" \notin serving
               /\ "unknown" \in serving
      BY <3>5, <2>1, <2>2
    <3>6. CASE serving \subseteq {"healthy"}
      BY <3>6, <2>1, <1>2
    <3> QED BY <3>1, <3>2, <3>3, <3>4, <3>5, <3>6, <2>2
  <2>4. worst(H) \in serving /\ Least(worst(H))
    <3>1. worst(H) = CHOOSE h \in serving : Least(h)
      BY <1>2 DEF worst
    <3> HIDE DEF serving, Least
    <3> QED BY <3>1, <2>3
  <2>5. ASSUME NEW w \in serving, Least(w)
        PROVE  w \in Outage <=> H \cap Outage # {}
    <3>1. ASSUME NEW h \in H \cap Outage PROVE w \in Outage
      <4>1. h \in serving /\ Severity[h] <= 2
        BY <2>1 DEF Outage
      <4>2. Severity[w] <= Severity[h]
        BY <2>5, <4>1
      <4>3. w \in {"missing", "stopped", "unhealthy", "starting", "unknown", "healthy"}
        BY <2>2
      <4> QED BY <2>1, <4>1, <4>2, <4>3 DEF Outage
    <3> QED BY <3>1
  <2> QED BY <2>4, <2>5
<1> QED BY <1>1, <1>2

(* What docker ps says of a container, as a health. *)
LEMMA DerivedHealth ==
  ASSUME NEW state \in States \ {"absent"}
  PROVE  /\ derive_health[state] \in Known
         /\ derive_health[state] \in Outage
              <=> state \in {"unhealthy", "restarting", "paused", "exited"}
         /\ derive_health[state] = "completed" <=> state = "exited 0"
<1> DEFINE h == IF state \in {"created", "starting"} THEN "starting"
                ELSE IF state = "running" THEN "healthy"
                ELSE IF state \in {"unhealthy", "restarting"} THEN "unhealthy"
                ELSE IF state = "exited 0" THEN "completed"
                ELSE "stopped"
<1>1. derive_health[state] = h
  BY DEF derive_health
<1>2. state \in {"created", "starting", "running", "unhealthy", "restarting",
                 "paused", "exited 0", "exited"}
  BY DEF States
<1>3. /\ h \in Known
      /\ h \in Outage <=> state \in {"unhealthy", "restarting", "paused", "exited"}
      /\ h = "completed" <=> state = "exited 0"
  BY <1>2 DEF Known, Outage
<1> HIDE DEF h
<1> QED BY <1>1, <1>3

LEMMA HealthsKnown ==
  ASSUME TypeOK, NEW p, NEW m
  PROVE  Healths(p, m) \in SUBSET Known
<1>1. ASSUME NEW c \in Containers, rows[c] # "absent" PROVE HealthOf(c) \in Known
  <2>1. rows[c] \in States \ {"absent"}
    BY <1>1 DEF TypeOK
  <2>2. derive_health[rows[c]] \in Known
    BY <2>1, DerivedHealth
  <2> QED BY <2>2 DEF HealthOf, Known
<1> QED BY <1>1 DEF Healths, Live, Known

(* What modules come to together. *)
LEMMA ModulesOutage ==
  ASSUME TypeOK, NEW p, NEW S
  PROVE  worst({Health(p, m) : m \in S}) \in Outage
           <=> \E m \in S : Healths(p, m) \cap Outage # {}
<1> DEFINE H == {Health(p, m) : m \in S}
<1>1. ASSUME NEW m \in S
      PROVE  /\ Health(p, m) \in Known
             /\ Health(p, m) \in Outage <=> Healths(p, m) \cap Outage # {}
  BY HealthsKnown, WorstIsOutage DEF Health
<1>2. H \in SUBSET Known
  <2>1. \A m \in S : Health(p, m) \in Known
    BY <1>1
  <2> QED BY <2>1
<1>3. worst(H) \in Outage <=> H \cap Outage # {}
  <2> HIDE DEF H
  <2> QED BY <1>2, WorstIsOutage
<1>4. H \cap Outage # {} <=> \E m \in S : Health(p, m) \in Outage
  OBVIOUS
<1> QED BY <1>1, <1>3, <1>4

-----------------------------------------------------------------------------
(* The state variables keep their types. *)
THEOREM TypeCorrect == Spec => []TypeOK
<1> USE StatusAssumption DEF StatusAssumption
<1>1. Init => TypeOK
  <2> SUFFICES ASSUME Init PROVE TypeOK
    OBVIOUS
  <2>1. docker \in [Containers -> States]
    BY DEF Init
  <2>2. rows \in [Containers -> States]
    BY DEF Init, States
  <2> QED BY <2>1, <2>2 DEF Init, TypeOK
<1>2. TypeOK /\ [Next]_vars => TypeOK'
  <2> SUFFICES ASSUME TypeOK, [Next]_vars PROVE TypeOK'
    OBVIOUS
  <2> USE DEF TypeOK, GoTo, world, reads
  <2>1. ASSUME NEW command \in {"status", "doctor"}, NEW enabled \in SUBSET Profiles,
               NEW narrowed \in SUBSET Profiles, NEW addons \in SUBSET Addons,
               ReadDeclared(command, enabled, narrowed, addons)
        PROVE  TypeOK'
    BY <2>1 DEF ReadDeclared
  <2>2. CASE Refuse
    BY <2>2 DEF Refuse
  <2>3. CASE query_containers
    BY <2>3 DEF query_containers
  <2>4. CASE query_restart_policies
    BY <2>4 DEF query_restart_policies, Completed
  <2>5. ASSUME NEW port \in WantedPorts, check_port(port) PROVE TypeOK'
    BY <2>5 DEF check_port
  <2>6. CASE PortsChecked
    BY <2>6 DEF PortsChecked
  <2>7. ASSUME NEW c \in Containers, ContainerChanges(c) PROVE TypeOK'
    <3>1. docker' \in [Containers -> States]
      BY <2>7 DEF ContainerChanges
    <3> QED BY <2>7, <3>1 DEF ContainerChanges, Changed
  <2>8. CASE DaemonChanges
    BY <2>8 DEF DaemonChanges, Changed
  <2>9. CASE UNCHANGED vars
    BY <2>9 DEF vars
  <2> QED BY <2>1, <2>2, <2>3, <2>4, <2>5, <2>6, <2>7, <2>8, <2>9 DEF Next
<1> QED BY <1>1, <1>2, PTL DEF Spec

-----------------------------------------------------------------------------
(* What the command has read holds of every container that has not changed *)
(* since, and it reports on active profiles only.                          *)
ReadsCurrent ==
  /\ pc \in {"listed", "ports", "reported"} =>
       /\ \A c \in Containers \ moved : rows[c] = docker[c]
       /\ wanted \subseteq declared_profiles
  /\ ports # {} => pc \in {"ports", "reported"}

LEMMA ReadsStayCurrent == Spec => []ReadsCurrent
<1>1. Init => ReadsCurrent
  BY DEF Init, ReadsCurrent
<1>2. TypeOK /\ ReadsCurrent /\ [Next]_vars => ReadsCurrent'
  <2> SUFFICES ASSUME TypeOK, ReadsCurrent, [Next]_vars PROVE ReadsCurrent'
    OBVIOUS
  <2> USE DEF ReadsCurrent, GoTo, world, reads
  <2>1. ASSUME NEW command, NEW enabled, NEW narrowed, NEW addons,
               ReadDeclared(command, enabled, narrowed, addons)
        PROVE  ReadsCurrent'
    BY <2>1 DEF ReadDeclared
  <2>2. ASSUME UNCHANGED active PROVE declared_profiles' = declared_profiles
    BY <2>2 DEF declared_profiles, Expected
  <2>3. CASE Refuse
    BY <2>3 DEF Refuse
  <2>4. CASE query_containers
    BY <2>4, <2>2 DEF query_containers
  <2>5. CASE query_restart_policies
    BY <2>5, <2>2 DEF query_restart_policies
  <2>6. ASSUME NEW port \in WantedPorts, check_port(port) PROVE ReadsCurrent'
    BY <2>6, <2>2 DEF check_port
  <2>7. CASE PortsChecked
    BY <2>7, <2>2 DEF PortsChecked
  <2>8. ASSUME NEW c \in Containers, ContainerChanges(c) PROVE ReadsCurrent'
    <3>1. \A d \in Containers \ moved' : docker'[d] = docker[d] /\ d \notin moved
      BY <2>8 DEF ContainerChanges, TypeOK
    <3> QED BY <2>8, <3>1, <2>2 DEF ContainerChanges, Changed
  <2>9. CASE DaemonChanges
    BY <2>9, <2>2 DEF DaemonChanges, Changed
  <2>10. CASE UNCHANGED vars
    BY <2>10, <2>2 DEF vars
  <2> QED
    BY <2>1, <2>3, <2>4, <2>5, <2>6, <2>7, <2>8, <2>9, <2>10 DEF Next
<1> QED BY <1>1, <1>2, TypeCorrect, PTL DEF Spec

(* A container that has stayed down is reported as an outage. *)
LEMMA DownIsOutage ==
  ASSUME TypeOK, ReadsCurrent, Reported, NEW c \in Containers, StayedDown(c)
  PROVE  rows[c] # "absent" /\ HealthOf(c) \in Outage
<1>1. rows[c] = docker[c] /\ Down(c)
  BY DEF ReadsCurrent, Reported, StayedDown
<1>2. CASE docker[c] = "exited 0"
  BY <1>1, <1>2 DEF StayedDown, Down, HealthOf, Outage
<1>3. CASE docker[c] # "exited 0"
  <2>1. rows[c] \in {"unhealthy", "restarting", "paused", "exited"}
    BY <1>1, <1>3 DEF Down
  <2>2. derive_health[rows[c]] \in Outage
    BY <2>1, DerivedHealth DEF States
  <2> QED BY <2>1, <2>2 DEF HealthOf
<1> QED BY <1>2, <1>3

(***************************************************************************)
(* No outage is hidden: a service that is asked about and has no container *)
(* or one that is down, from docker ps on, makes its section and every     *)
(* profile of it say so, whatever else runs, finishes or changes.          *)
(***************************************************************************)
THEOREM OutagesAreSeen == Spec => []OutageSeen
<1>1. TypeOK /\ ReadsCurrent => OutageSeen
  <2> SUFFICES ASSUME TypeOK, ReadsCurrent, Reported,
                      NEW p \in projects, NEW s \in Asked(p),
                      \/ \A c \in Of(s) : c \notin moved /\ docker[c] = "absent"
                      \/ \E c \in Of(s) : StayedDown(c)
               PROVE  /\ \E section \in Sections :
                           p \in section /\ Aggregate(section) \in Outage
                      /\ p = Core => \A profile \in ProfilesOf[s] \cap active :
                                       GroupHealth(profile) \in Outage
    BY DEF OutageSeen
  <2> DEFINE m == ModuleOf[s]
  <2>1. s \in Expected(p) /\ s \in Services /\ Project[s] = p /\ m \in Modules
    BY StatusAssumption DEF StatusAssumption, Asked, Expected, Modules
  <2>2. Healths(p, m) \cap Outage # {}
    <3>1. CASE \A c \in Of(s) : c \notin moved /\ docker[c] = "absent"
      <4>1. \A c \in Of(s) : rows[c] = "absent"
        BY <3>1 DEF ReadsCurrent, Reported, Of
      <4>2. LiveOf(s) = {}
        BY <4>1 DEF LiveOf, Live, Of
      <4>3. "missing" \in Healths(p, m)
        BY <2>1, <4>2 DEF Healths
      <4> QED BY <4>3 DEF Outage
    <3>2. ASSUME NEW c \in Of(s), StayedDown(c) PROVE Healths(p, m) \cap Outage # {}
      <4>1. c \in Containers /\ ServiceOf[c] = s
        BY DEF Of
      <4>2. rows[c] # "absent" /\ HealthOf(c) \in Outage
        BY <3>2, <4>1, DownIsOutage
      <4>3. ShownIn(c) = m
        BY <2>1, <4>1, LabelsCurrent DEF LabelsCurrent, ShownIn, Expected
      <4>4. HealthOf(c) \in Healths(p, m)
        BY <2>1, <4>1, <4>2, <4>3 DEF Healths, Live
      <4> QED BY <4>2, <4>4
    <3> QED BY <3>1, <3>2
  <2>3. m \in Assembled(p)
    BY <2>1, <2>2 DEF Assembled
  <2>4. p = Core => ProfilesOf[s] \cap active \subseteq ModuleProfiles(m)
    BY <2>1 DEF ModuleProfiles
  <2>5. m \in Shown(p)
    <3>1. CASE wanted = {} \/ p # Core
      BY <3>1, <2>3 DEF Shown, CoreShown
    <3>2. CASE wanted # {} /\ p = Core
      <4>1. ProfilesOf[s] \cap wanted # {}
        BY <3>2 DEF Asked
      <4>2. wanted \subseteq active
        BY DEF ReadsCurrent, Reported, declared_profiles
      <4> QED BY <3>2, <4>1, <4>2, <2>3, <2>4 DEF Shown, CoreShown
    <3> QED BY <3>1, <3>2
  <2>6. ASSUME NEW section \in Sections, p \in section
        PROVE  Aggregate(section) \in Outage
    <3>1. Rows(section) \in SUBSET Known
      <4>1. \A q \in section : \A n \in Shown(q) : Health(q, n) \in Known
        BY HealthsKnown, WorstIsOutage DEF Health
      <4> QED BY <4>1 DEF Rows
    <3>2. Health(p, m) \in Rows(section)
      BY <2>5, <2>6 DEF Rows
    <3>3. Health(p, m) \in Outage
      BY <2>2, HealthsKnown, WorstIsOutage DEF Health
    <3> QED BY <3>1, <3>2, <3>3, WorstIsOutage DEF Aggregate
  <2>7. \E section \in Sections : p \in section
    BY DEF Sections
  <2>8. ASSUME p = Core, NEW profile \in ProfilesOf[s] \cap active
        PROVE  GroupHealth(profile) \in Outage
    BY <2>2, <2>3, <2>4, <2>8, ModulesOutage DEF GroupHealth
  <2> QED BY <2>6, <2>7, <2>8
<1> QED BY <1>1, TypeCorrect, ReadsStayCurrent, PTL

(***************************************************************************)
(* No outage is invented: a section that reports one has a declared        *)
(* service without a container, or a container that is down, unless that   *)
(* has changed since docker ps.                                            *)
(***************************************************************************)
THEOREM OutagesAreReal == Spec => []NoInventedOutage
<1>1. TypeOK /\ ReadsCurrent => NoInventedOutage
  <2> SUFFICES ASSUME TypeOK, ReadsCurrent, Reported,
                      NEW section \in Sections, Aggregate(section) \in Outage
               PROVE  \E p \in section :
                        \/ \E s \in Expected(p) :
                             \A c \in Of(s) : c \in moved \/ docker[c] = "absent"
                        \/ \E c \in Containers :
                             Project[ServiceOf[c]] = p /\ (c \in moved \/ Down(c))
    BY DEF NoInventedOutage
  <2>1. Rows(section) \in SUBSET Known
    <3>1. \A q \in section : \A n \in Shown(q) : Health(q, n) \in Known
      BY HealthsKnown, WorstIsOutage DEF Health
    <3> QED BY <3>1 DEF Rows
  <2>2. Rows(section) \cap Outage # {}
    BY <2>1, WorstIsOutage DEF Aggregate
  <2>3. PICK p \in section : \E m \in Shown(p) : Health(p, m) \in Outage
    BY <2>2 DEF Rows
  <2>a. PICK m \in Shown(p) : Health(p, m) \in Outage
    BY <2>3
  <2>4. PICK h \in Healths(p, m) : h \in Outage
    BY <2>a, HealthsKnown, WorstIsOutage DEF Health
  <2>5. ASSUME NEW c \in Live(p), HealthOf(c) \in Outage, c \notin moved
        PROVE  Down(c)
    <3>1. c \in Containers /\ rows[c] = docker[c] /\ rows[c] \in States \ {"absent"}
      BY <2>5 DEF Live, ReadsCurrent, Reported, TypeOK
    <3>2. CASE rows[c] = "exited 0" /\ c \in asked /\ Policy[c] = "keep"
      BY <3>1, <3>2 DEF Down
    <3>3. CASE ~ (rows[c] = "exited 0" /\ c \in asked /\ Policy[c] = "keep")
      BY <2>5, <3>1, <3>3, DerivedHealth DEF HealthOf, Down
    <3> QED BY <3>2, <3>3
  <2>6. CASE \E c \in Live(p) : HealthOf(c) = h
    BY <2>4, <2>5, <2>6 DEF Live
  <2>7. CASE \E s \in Expected(p) : LiveOf(s) = {}
    <3>1. PICK s \in Expected(p) : LiveOf(s) = {}
      BY <2>7
    <3>2. \A c \in Of(s) : c \in moved \/ docker[c] = "absent"
      BY <3>1 DEF Of, LiveOf, Live, ReadsCurrent, Reported
    <3> QED BY <3>2
  <2> QED BY <2>4, <2>6, <2>7 DEF Healths
<1> QED BY <1>1, TypeCorrect, ReadsStayCurrent, PTL

-----------------------------------------------------------------------------
(* The checks of doctor.                                                   *)

Blamable(port) ==
  \/ port \in foreign
  \/ \E c \in Containers :
       /\ port \in Port[ServiceOf[c]]
       /\ \/ c \in moved \/ rows[c] = "paused"
          \/ Project[ServiceOf[c]] \notin projects

(***************************************************************************)
(* A port is blamed on another process only if one holds it, or a          *)
(* container that the report does not show, has not shown yet or shows     *)
(* as paused.                                                              *)
(***************************************************************************)
THEOREM BlameIsRight == Spec => []PortsBlamedRightly
<1>1. Init => PortsBlamedRightly
  BY DEF Init, PortsBlamedRightly
<1>2. TypeOK /\ ReadsCurrent /\ PortsBlamedRightly /\ [Next]_vars => PortsBlamedRightly'
  <2> SUFFICES ASSUME TypeOK, ReadsCurrent, PortsBlamedRightly, [Next]_vars
               PROVE  PortsBlamedRightly'
    OBVIOUS
  <2> USE DEF PortsBlamedRightly, Blamable, world, reads
  <2>1. ASSUME UNCHANGED <<ports, foreign, rows, projects>>, moved \subseteq moved'
        PROVE  PortsBlamedRightly'
    BY <2>1
  <2>2. ASSUME ports' = {} PROVE PortsBlamedRightly'
    BY <2>2
  <2>3. ASSUME NEW command, NEW enabled, NEW narrowed, NEW addons,
               ReadDeclared(command, enabled, narrowed, addons)
        PROVE  PortsBlamedRightly'
    BY <2>3, <2>2 DEF ReadDeclared, ReadsCurrent
  <2>4. CASE query_containers
    BY <2>4, <2>2 DEF query_containers, ReadsCurrent
  <2>5. CASE Refuse \/ query_restart_policies \/ PortsChecked
    BY <2>5, <2>1 DEF Refuse, query_restart_policies, PortsChecked
  <2>6. ASSUME NEW port \in WantedPorts, check_port(port) PROVE PortsBlamedRightly'
    <3>1. ASSUME PortVerdict(port) = "fail" PROVE Blamable(port)
      <4>1. Listening(port) /\ port \notin OurPorts
        BY <3>1 DEF PortVerdict
      <4>2. ASSUME NEW c \in Containers, port \in Port[ServiceOf[c]],
                   docker[c] \in Holds \cup {"paused"}, c \notin moved
            PROVE  rows[c] = "paused" \/ Project[ServiceOf[c]] \notin projects
        <5>1. rows[c] = docker[c]
          BY <2>6, <4>2 DEF check_port, ReadsCurrent
        <5> QED BY <4>1, <4>2, <5>1 DEF OurPorts
      <4> QED BY <4>1, <4>2 DEF Listening
    <3>2. Blamable(port)' <=> Blamable(port)
      BY <2>6 DEF check_port
    <3>3. /\ ports' = ports \cup {[port |-> port, verdict |-> PortVerdict(port)]}
          /\ UNCHANGED <<foreign, rows, projects, moved>>
      BY <2>6 DEF check_port
    <3> QED BY <3>1, <3>2, <3>3
  <2>7. ASSUME NEW c \in Containers, ContainerChanges(c) PROVE PortsBlamedRightly'
    BY <2>7, <2>1 DEF ContainerChanges, Changed
  <2>8. CASE DaemonChanges
    BY <2>8, <2>1 DEF DaemonChanges, Changed
  <2>9. CASE UNCHANGED vars
    BY <2>9, <2>1 DEF vars
  <2> QED BY <2>3, <2>4, <2>5, <2>6, <2>7, <2>8, <2>9 DEF Next
<1> QED BY <1>1, <1>2, TypeCorrect, ReadsStayCurrent, PTL DEF Spec

(* The verdict on an add-on is the decision of start. *)
LEMMA VerdictIsGate ==
  ASSUME NEW a \in Addons
  PROVE  AddonVerdict(a) = "fail" <=> ~ C!Tolerated(Verdict[a], Mode, FALSE)
BY StatusAssumption DEF StatusAssumption, AddonVerdict, C!gate, C!Tolerated

(***************************************************************************)
(* When no check fails, start's gate lets all add-ons in, and what has     *)
(* stayed down is in a module of which a container is missing.             *)
(***************************************************************************)
THEOREM PassedStacksStart == Spec => []PassedIsStartable
<1>1. TypeOK /\ ReadsCurrent => PassedIsStartable
  <2> SUFFICES ASSUME TypeOK, ReadsCurrent, pc = "reported", ~ Failed
               PROVE  /\ C!gate({Verdict[a] : a \in projects \ {Core}}, Mode, FALSE)
                      /\ \A c \in Containers :
                           LET p == Project[ServiceOf[c]]
                           IN p \in projects /\ StayedDown(c)
                                => Health(p, ShownIn(c)) = "missing"
    BY DEF PassedIsStartable
  <2>1. ASSUME NEW a \in projects \ {Core}
        PROVE  C!Tolerated(Verdict[a], Mode, FALSE)
    <3>1. AddonVerdict(a) # "fail" /\ a \in Addons
      BY DEF Failed, TypeOK
    <3> QED BY <3>1, VerdictIsGate
  <2>2. C!gate({Verdict[a] : a \in projects \ {Core}}, Mode, FALSE)
    BY <2>1 DEF C!gate
  <2>3. ASSUME NEW c \in Containers, Project[ServiceOf[c]] \in projects, StayedDown(c)
        PROVE  Health(Project[ServiceOf[c]], ShownIn(c)) = "missing"
    <3> DEFINE p == Project[ServiceOf[c]]
               m == ShownIn(c)
    <3>1. rows[c] # "absent" /\ HealthOf(c) \in Outage
      BY <2>3, DownIsOutage DEF Reported
    <3>2. HealthOf(c) \in Healths(p, m)
      BY <3>1 DEF Healths, Live
    <3>3. Health(p, m) \in Outage
      BY <3>1, <3>2, HealthsKnown, WorstIsOutage DEF Health
    <3>4. m \in Assembled(p)
      <4>1. m \in Modules
        BY StatusAssumption DEF StatusAssumption, ShownIn, Modules
      <4> QED BY <4>1, <3>2 DEF Assembled
    <3>5. HealthVerdict[Health(p, m)] # "fail"
      BY <2>3, <3>4 DEF Failed
    <3>6. HealthVerdict["unhealthy"] = "fail" /\ HealthVerdict["stopped"] = "fail"
      BY DEF HealthVerdict
    <3> QED BY <3>3, <3>5, <3>6 DEF Outage
  <2> QED BY <2>2, <2>3
<1> QED BY <1>1, TypeCorrect, ReadsStayCurrent, PTL
=============================================================================
