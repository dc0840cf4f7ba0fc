--------------------------- MODULE MCAgentPipeline ---------------------------
(***************************************************************************)
(* AgentPipeline with one chunk of the tenant's own, one of another        *)
(* tenant's and one that does not say whose it is.                         *)
(***************************************************************************)
EXTENDS AgentPipeline

CONSTANT OtherTenant

MCChunks == {[tenant |-> Tenant, pii |-> "none", relevant |-> TRUE],
             [tenant |-> NoTenant, pii |-> "plain", relevant |-> TRUE],
             [tenant |-> OtherTenant, pii |-> "none", relevant |-> TRUE]}
=============================================================================
