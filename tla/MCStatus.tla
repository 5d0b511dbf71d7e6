----------------------------- MODULE MCStatus ------------------------------
(***************************************************************************)
(* Status on a core of two profiles and an add-on: a service with a job    *)
(* beside it in one module, a service of the other profile that brings up  *)
(* the same module, and add-on containers without a label.                 *)
(***************************************************************************)
EXTENDS Status, TLC

CONSTANTS Chat, Rag,                      \* the profiles
          Web, Job, Search, Agent,        \* the services, and their containers
          P                               \* the port

MCServices == {Web, Job, Search, Agent}
MCProject == (Web :> "papaia") @@ (Job :> "papaia") @@ (Search :> "papaia") @@ (Agent :> "agent")
MCProfilesOf == (Web :> {Chat}) @@ (Job :> {Chat, Rag}) @@ (Search :> {Rag}) @@ (Agent :> {})
MCModuleOf == (Web :> "web") @@ (Job :> "web") @@ (Search :> "search") @@ (Agent :> "agent")
MCPort == (Web :> {P}) @@ (Job :> {}) @@ (Search :> {}) @@ (Agent :> {P})
MCServiceOf == [c \in MCServices |-> c]
MCLabel == (Web :> "web") @@ (Job :> "web") @@ (Search :> "other") @@ (Agent :> "other")
MCPolicy == (Web :> "keep") @@ (Job :> "no") @@ (Search :> "keep") @@ (Agent :> "keep")
MCInitial ==
  {(Web :> web) @@ (Job :> job) @@ (Search :> search) @@ (Agent :> agent) :
     web \in {"running", "exited"}, job \in {"exited 0", "absent"},
     search \in {"running", "exited 0"}, agent \in {"running", "exited 0"}}
MCVerdict == [a \in {"agent"} |-> "INCOMPATIBLE"]
=============================================================================
