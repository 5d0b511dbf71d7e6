------------------------------ MODULE MCSetup ------------------------------
(***************************************************************************)
(* An excerpt of the variables and two releases.  The second release ships *)
(* a new client secret with its copy, moves a path and drops a variable;   *)
(* the MCMoved tables have it move a password to a service whose directory *)
(* is new.                                                                 *)
(***************************************************************************)
EXTENDS Setup

MCOrder == <<"", "ai/librechat", "ai/litellm", "ai/rag", "infra/keycloak">>

InRoot == {"COMPOSE_PROFILES", "AUTH_PROVIDER", "root LIBRECHAT_AGENTS_DIR",
           "TIMEZONE"}
InLibrechat ==
  {"LIBRECHAT_AGENTS_DIR", "OPENID_CLIENT_SECRET", "LITELLM_API_KEY"}
InLitellm == {"LITELLM_MASTER_KEY"}
InRag == {"QI_CONNECTIONS_SECRET", "QI_EMBEDDING_API_KEY"}
InKeycloak == {"KC_ADMIN_PASSWORD", "KC_LIBRECHAT_CLIENT_SECRET"}

MCGenerated ==
  (InLibrechat \ {"LIBRECHAT_AGENTS_DIR"}) \cup InLitellm \cup InRag
    \cup InKeycloak
MCKeys == InRoot \cup InLibrechat \cup MCGenerated

MCDirOf == [k \in MCKeys |-> CASE k \in InRoot -> ""
                               [] k \in InLibrechat -> "ai/librechat"
                               [] k \in InLitellm -> "ai/litellm"
                               [] k \in InRag -> "ai/rag"
                               [] k \in InKeycloak -> "infra/keycloak"]

MCAliases == [LITELLM_MASTER_KEY |-> {"LITELLM_API_KEY", "QI_EMBEDDING_API_KEY"},
              KC_LIBRECHAT_CLIENT_SECRET |-> {"OPENID_CLIENT_SECRET"}]

MCShips ==
  << MCKeys \ {"LIBRECHAT_AGENTS_DIR", "OPENID_CLIENT_SECRET",
               "KC_LIBRECHAT_CLIENT_SECRET"},
     MCKeys \ {"root LIBRECHAT_AGENTS_DIR", "TIMEZONE"} >>

MCRenamed ==
  << <<>>, [k \in {"root LIBRECHAT_AGENTS_DIR"} |-> "LIBRECHAT_AGENTS_DIR"] >>
MCRemoved == << {}, {"TIMEZONE"} >>

MCKeptBy ==
  LET kept == [rag |-> "QI_CONNECTIONS_SECRET"]
  IN <<kept, kept>>

MCEditable == {"root LIBRECHAT_AGENTS_DIR", "OPENID_CLIENT_SECRET"}

Option(p, r, f) == [provider |-> p, rag |-> r, force |-> f]

MCOptions == {Option("keep", "keep", FALSE), Option("internal", "on", FALSE),
              Option("external", "off", FALSE), Option("keep", "off", TRUE)}

-----------------------------------------------------------------------------

MCMovedOrder == <<"", "ai/rag", "infra/keycloak", "infra/nginx">>

MCMovedKeys ==
  {"COMPOSE_PROFILES", "AUTH_PROVIDER", "root NPM_ADMIN_PASSWORD",
   "NPM_ADMIN_PASSWORD", "QI_CONNECTIONS_SECRET"}

MCMovedDirOf == [k \in MCMovedKeys |->
                   CASE k = "NPM_ADMIN_PASSWORD" -> "infra/nginx"
                     [] k = "QI_CONNECTIONS_SECRET" -> "ai/rag"
                     [] OTHER -> ""]

MCMovedGenerated ==
  {"root NPM_ADMIN_PASSWORD", "NPM_ADMIN_PASSWORD", "QI_CONNECTIONS_SECRET"}

MCMovedAliases == <<>>

MCMovedShips == << MCMovedKeys \ {"NPM_ADMIN_PASSWORD"},
                   MCMovedKeys \ {"root NPM_ADMIN_PASSWORD"} >>

MCMovedRenamed ==
  << <<>>, [k \in {"root NPM_ADMIN_PASSWORD"} |-> "NPM_ADMIN_PASSWORD"] >>
MCMovedRemoved == << {}, {} >>

MCMovedKeptBy ==
  << [nginx |-> "root NPM_ADMIN_PASSWORD", rag |-> "QI_CONNECTIONS_SECRET"],
     [nginx |-> "NPM_ADMIN_PASSWORD", rag |-> "QI_CONNECTIONS_SECRET"] >>

(* The hypotheses of the theorems hold of the first tables.  In the others *)
(* one volume keeps its secret in both releases, and the one whose         *)
(* password moves in the first alone.                                      *)
ASSUME MCTables ==
  Renamed = MCRenamed =>
    /\ \A v \in Volumes, r \in Releases : KeepsSecretOf(v, r)
    /\ FillsPlaceholders /\ KeepsEdits /\ KeepsAliases

ASSUME MCMovedTables ==
  Renamed = MCMovedRenamed =>
    \A v \in Volumes, r \in Releases :
      KeepsSecretOf(v, r) <=> r = 1 \/ v = "rag"
=============================================================================
