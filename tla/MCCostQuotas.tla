---------------------------- MODULE MCCostQuotas ----------------------------
(***************************************************************************)
(* Instances of CostQuotas: the rows a tenant may have.                    *)
(***************************************************************************)
EXTENDS CostQuotas, TLC

CONSTANTS c1, c2

Callers == {c1, c2}
CallerSymmetry == Permutations(Callers)

\* One row per scope, the tenant's for all resources.
CombinedRows == {<<"tenant", "all">>, <<"user", "llm">>, <<"platform", "all">>}

\* What the trigger of the table tenants creates (init_tenant_quotas).
DefaultRows == {<<"tenant", "llm">>, <<"tenant", "e2b">>}
=============================================================================
