----------------------------- MODULE MCRestore -----------------------------
(***************************************************************************)
(* Restore on a core of three profiles, one of which needs another, and an *)
(* add-on.  Two services of different modules mount the models; one volume *)
(* is of a release that declared it, one of a profile that had never been  *)
(* started; the add-on mounts a volume of the core, that old one, its own  *)
(* data and a directory that it only reads.                                *)
(***************************************************************************)
EXTENDS Restore, TLC

CONSTANTS Chat, Rag, Mgr, Agent,           \* the units, and the modules
          ChatData, Models, RagData, MgrData, OldData, AgentDir, ReadDir, Bundle

MCVolumes == {ChatData, Models, RagData, MgrData, OldData}
MCDirs == {AgentDir, ReadDir}
MCProfiles == {Chat, Rag, Mgr}
MCAddons == {Agent}
MCUnits == MCProfiles \cup MCAddons

Service(module, mounts) ==
  [module |-> module, profiles |-> {module}, mounts |-> mounts]
MCCompose ==
  << [module |-> NoModule, profiles |-> {Rag}, mounts |-> {Models}],
     Service(Chat, {ChatData, Models}),
     Service(Rag, {RagData, Models}),
     Service(Mgr, {MgrData, OldData}) >>
MCDeclared == {ChatData, Models, RagData, MgrData}
MCExisting == {ChatData, Models, MgrData, OldData}
MCMounts ==
  { [dir |-> AgentDir, readonly |-> FALSE, data |-> TRUE],
    [dir |-> ReadDir, readonly |-> TRUE, data |-> TRUE] }
MCProject ==
  [t \in MCVolumes \cup MCDirs |-> IF t \in MCDirs THEN Agent ELSE "papaia"]

MCUsers ==
  (ChatData :> {Chat, Agent}) @@ (Models :> {Chat, Rag}) @@ (RagData :> {Rag})
  @@ (MgrData :> {Mgr}) @@ (OldData :> {Agent})
  @@ (AgentDir :> {Agent}) @@ (ReadDir :> {Agent})
MCNeeds == (Chat :> {Rag}) @@ (Rag :> {}) @@ (Mgr :> {})
MCEnabledThen == {Chat, Mgr, Agent}
=============================================================================
