--------------------------- MODULE MCProvisioning ---------------------------
(***************************************************************************)
(* Two runs over three definitions: one that predates papaia-admin, one    *)
(* that asks for a client whose secret is not generated yet, and one with  *)
(* all of it and the mail relay.                                           *)
(***************************************************************************)
EXTENDS Provisioning, TLC

CONSTANTS R1, R2, User, Admin, Manage, Lost, Chat, Rag, Alice, Site, Litellm

MCRuns == {R1, R2}
MCSites == {[at |-> 1, domain |-> Site, service |-> Litellm]}

Old == [roles |-> {User}, clientRoles |-> {}, edges |-> {},
        secret |-> (Chat :> "canonical") @@ (Rag :> Absent), wanted |-> {},
        mappers |-> {}, relay |-> FALSE, sites |-> {}]

WithRag(secret, wanted, relay) ==
  [roles |-> {User, Admin}, clientRoles |-> {Manage, Lost},
   edges |-> {<<Admin, User>>, <<Admin, Manage>>, <<Admin, Lost>>},
   secret |-> (Chat :> "canonical") @@ (Rag :> secret), wanted |-> wanted,
   mappers |-> {<<Chat, "audience">>, <<Rag, "roles">>}, relay |-> relay, sites |-> MCSites]

MCDefinitions == {Old, WithRag(Placeholder, {Rag}, TRUE), WithRag("canonical", {Rag}, TRUE),
                  WithRag("canonical", {}, FALSE)}
MCMappers == {<<Chat, "audience">>, <<Rag, "roles">>}
=============================================================================
