----------------------------- MODULE MCPdfsignSvc -----------------------------
(***************************************************************************)
(* The instance of PdfsignSvc for TLC: both documents are one tenant's, so *)
(* that they compete for its quota; a second tenant makes stray calls.     *)
(***************************************************************************)
EXTENDS PdfsignSvc

CONSTANTS tenant, other
MCOwner == Tenant \union {Dev}
MCTenantOf == [f \in Flow |-> tenant]
=============================================================================
