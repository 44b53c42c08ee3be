----------------------------- MODULE MCSessions -----------------------------
(***************************************************************************)
(* One owner, one member with a personal workspace, one shared workspace.  *)
(* A run explores two instances one after the other: in "workspaces" the   *)
(* database alone, with all its operations; in "sessions" the two devices  *)
(* of the member, with the operations that change what a session may do.   *)
(***************************************************************************)
EXTENDS Sessions, TLC

CONSTANTS owner, user, shared, home, d1, d2

VARIABLE instance

MCUsers == {owner, user}
MCTenants == {shared, home}
MCOwner == shared :> owner @@ home :> user
MCPersonal == {home}
MCManaged == {<<shared, user>>}
OneDevice == {d1}
TwoDevices == {d1, d2}
OneUserOf == d1 :> user
TwoUserOf == d1 :> user @@ d2 :> user
DeviceSymmetry == Permutations(TwoDevices)

MCInit == Init /\ instance \in {"workspaces", "sessions"}

\* The operations of the instance "sessions": the workspace is created and stays,
\* the user is a member, suspended or removed, and the owner has no session.
Narrow ==
    /\ \A t \in MCTenants : tenants'[t].state \in {tenants[t].state, "live"}
    /\ creating # {} /\ creating' = {} => member'[<<shared, owner>>] # NoRow
    /\ invitation' = invitation
    /\ context'[owner] = NoTenant
    /\ member'[<<shared, user>>].role \in {"none", "member"}
    /\ member'[<<shared, user>>].deleted <=> member'[<<shared, user>>].status = "removed"

MCNext ==
    /\ Next
    /\ UNCHANGED instance
    /\ IF instance = "workspaces" THEN UNCHANGED <<token, cache, val, errors, banned>>
                                  ELSE Narrow

\* Fairness is about "sessions"; no behaviour of "workspaces", where no time
\* passes, satisfies it, so that liveness is a matter of the other instance.
MCSpec == MCInit /\ [][MCNext]_<<vars, instance>> /\ Fairness

=============================================================================
