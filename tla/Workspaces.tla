----------------------------- MODULE Workspaces -----------------------------
(***************************************************************************)
(* Workspaces (tenants), their memberships and their invitations: the      *)
(* functions of the database (20260113000001_initial_schemas.sql), the     *)
(* routes that create, delete and restore workspaces, and the routes of    *)
(* the administration that change memberships.  Each database function is  *)
(* one transaction, and one action.                                        *)
(***************************************************************************)
EXTENDS FiniteSets, Naturals

CONSTANTS
    Users,
    Tenants,
    Owner,     \* owner_id of every tenant
    Personal,  \* the tenants of type personal
    Managed,   \* the <<tenant, user>> pairs that invitations and the
               \* administration reach in this instance
    NoTenant

ASSUME TenantsAssumption ==
    /\ Owner \in [Tenants -> Users]
    /\ Personal \subseteq Tenants
    /\ NoTenant \notin Tenants
    /\ \A s, t \in Personal : Owner[s] = Owner[t] => s = t
ASSUME ManagedAssumption == Managed \subseteq (Tenants \ Personal) \X Users

VARIABLES
    tenants,     \* the table tenants
    creating,    \* the tenants whose creator has no membership yet
    member,      \* tenant_memberships, unique in <<tenant, user>>
    invitation,  \* the invitation not yet accepted, unique in the same pair
    context,     \* user_tenant_contexts: the current tenant of every user
    pending,     \* unprocessed events "suspended", by user
    barred,      \* history: pairs whose access was last taken away
    snapshot     \* history: who had access when a tenant was deleted, and
                 \* whose membership has been changed since, or revived before

wsVars == <<tenants, creating, member, invitation, context, pending, barred, snapshot>>

Pairs == Tenants \X Users
Roles == {"owner", "member"}
Status == {"active", "suspended", "removed"}
Row == [role : Roles, status : Status, deleted : BOOLEAN]
NoRow == [role |-> "none", status |-> "none", deleted |-> FALSE]

WorkspacesTypeOK ==
    /\ tenants \in [Tenants -> [state : {"none", "live", "deleted"}, by : Users, grace : BOOLEAN]]
    /\ creating \in SUBSET Tenants
    /\ member \in [Pairs -> Row \cup {NoRow}]
    /\ invitation \in [Pairs -> {"none", "open", "expired"}]
    /\ context \in [Users -> Tenants \cup {NoTenant}]
    /\ pending \in [Users -> SUBSET Tenants]
    /\ barred \in SUBSET Pairs
    /\ snapshot \in [Tenants -> [had : SUBSET Users, touched : SUBSET Users]]

\* The condition of most functions: status = 'active' AND deleted_at IS NULL.
Access(k) == member[k].status = "active" /\ ~member[k].deleted

\* get_user_tenants.
UserTenants(u) == {t \in Tenants : Access(<<t, u>>) /\ tenants[t].state = "live"}

ActiveOwner(t, u) == Access(<<t, u>>) /\ member[<<t, u>>].role = "owner"

(***************************************************************************)
(* Writing memberships.  The trigger on_membership_change adds an event;   *)
(* those that matter later are the suspensions, and a change of the role   *)
(* hides one of the status.                                                *)
(***************************************************************************)
Suspends(old, new) ==
    old # NoRow /\ old.role = new.role /\ old.status # new.status /\ new.status = "suspended"

Write(k, row) ==
    /\ member' = [member EXCEPT ![k] = row]
    /\ pending' = IF Suspends(member[k], row)
                  THEN [pending EXCEPT ![k[2]] = @ \cup {k[1]}] ELSE pending
    /\ barred' = IF row.status = "active" THEN barred \ {k} ELSE barred \cup {k}
    /\ snapshot' = [snapshot EXCEPT ![k[1]].touched = @ \cup {k[2]}]

ActiveRow(role) == [role |-> role, status |-> "active", deleted |-> FALSE]

WorkspacesInit ==
    /\ tenants = [t \in Tenants |-> [state |-> "none", by |-> Owner[t], grace |-> FALSE]]
    /\ creating = {}
    /\ member = [k \in Pairs |-> NoRow]
    /\ invitation = [k \in Pairs |-> "none"]
    /\ context = [u \in Users |-> NoTenant]
    /\ pending = [u \in Users |-> {}]
    /\ barred = {}
    /\ snapshot = [t \in Tenants |-> [had |-> {}, touched |-> {}]]

(***************************************************************************)
(* Creation: the route inserts the tenant and then the membership of its   *)
(* owner.  When the second insert fails the route of the application       *)
(* deletes the tenant, that of the administration leaves it.               *)
(***************************************************************************)
InsertTenant(t) ==
    /\ t \notin Personal /\ tenants[t].state = "none"
    /\ tenants' = [tenants EXCEPT ![t].state = "live"]
    /\ creating' = creating \cup {t}
    /\ UNCHANGED <<member, invitation, context, pending, barred, snapshot>>

InsertOwner(t) ==
    /\ t \in creating /\ member[<<t, Owner[t]>>] = NoRow
    /\ Write(<<t, Owner[t]>>, ActiveRow("owner"))
    /\ creating' = creating \ {t}
    /\ UNCHANGED <<tenants, invitation, context>>

\* Deleting the tenant deletes its memberships and invitations.
InsertOwnerFails(t) ==
    /\ t \in creating
    /\ creating' = creating \ {t}
    /\ \/ /\ tenants' = [tenants EXCEPT ![t].state = "none"]
          /\ member' = [k \in Pairs |-> IF k[1] = t THEN NoRow ELSE member[k]]
          /\ invitation' = [k \in Pairs |-> IF k[1] = t THEN "none" ELSE invitation[k]]
          /\ barred' = {k \in barred : k[1] # t}
       \/ UNCHANGED <<tenants, member, invitation, barred>>
    /\ UNCHANGED <<context, pending, snapshot>>

\* create_personal_tenant, for a user that has none.
CreatePersonal(u, t) ==
    /\ t \in Personal /\ Owner[t] = u /\ tenants[t].state = "none"
    /\ tenants' = [tenants EXCEPT ![t].state = "live"]
    /\ Write(<<t, u>>, ActiveRow("owner"))
    /\ context' = [context EXCEPT ![u] = t]
    /\ UNCHANGED <<creating, invitation>>

(***************************************************************************)
(* delete_workspace and restore_workspace, by user "by".                   *)
(***************************************************************************)
\* A removed member whose status was then set back to active: without access,
\* as the row is still marked deleted.
Revived(k) == member[k].deleted /\ member[k].status = "active"

DeleteWorkspace(by, t) ==
    /\ tenants[t].state = "live" /\ t \notin Personal
    /\ ActiveOwner(t, by)
    /\ tenants' = [tenants EXCEPT ![t] = [state |-> "deleted", by |-> by, grace |-> TRUE]]
    /\ member' = [k \in Pairs |-> IF k[1] = t /\ member[k] # NoRow
                                  THEN [member[k] EXCEPT !.deleted = TRUE] ELSE member[k]]
    /\ snapshot' = [snapshot EXCEPT ![t] = [had |-> {u \in Users : Access(<<t, u>>)},
                                            touched |-> {u \in Users : Revived(<<t, u>>)}]]
    /\ UNCHANGED <<creating, invitation, context, pending, barred>>

\* Mutant: only the membership of the user who restores comes back.
RestoreOwn(by, t) ==
    /\ tenants[t].state = "deleted" /\ tenants[t].grace /\ tenants[t].by = by
    /\ tenants' = [tenants EXCEPT ![t] = [state |-> "live", by |-> Owner[t], grace |-> FALSE]]
    /\ member' = [member EXCEPT ![<<t, by>>].deleted = FALSE]
    /\ UNCHANGED <<creating, invitation, context, pending, barred, snapshot>>

\* All memberships that are marked deleted come back, whoever marked them.
RestoreWorkspace(by, t) ==
    /\ tenants[t].state = "deleted" /\ tenants[t].grace /\ tenants[t].by = by
    /\ tenants' = [tenants EXCEPT ![t] = [state |-> "live", by |-> Owner[t], grace |-> FALSE]]
    /\ member' = [k \in Pairs |-> IF k[1] = t THEN [member[k] EXCEPT !.deleted = FALSE]
                                              ELSE member[k]]
    /\ UNCHANGED <<creating, invitation, context, pending, barred, snapshot>>

GraceEnds(t) ==
    /\ tenants[t].grace
    /\ tenants' = [tenants EXCEPT ![t].grace = FALSE]
    /\ UNCHANGED <<creating, member, invitation, context, pending, barred, snapshot>>

(***************************************************************************)
(* Invitations.                                                            *)
(***************************************************************************)
\* The check ignores an expired invitation, the unique index does not.
Invite(by, k) ==
    /\ ActiveOwner(k[1], by) /\ tenants[k[1]].state = "live"
    /\ ~Access(k)
    /\ invitation[k] = "none"
    /\ invitation' = [invitation EXCEPT ![k] = "open"]
    /\ UNCHANGED <<tenants, creating, member, context, pending, barred, snapshot>>

InvitationExpires(k) ==
    /\ invitation[k] = "open"
    /\ invitation' = [invitation EXCEPT ![k] = "expired"]
    /\ UNCHANGED <<tenants, creating, member, context, pending, barred, snapshot>>

\* Mutant: an existing row is overwritten (ON CONFLICT DO UPDATE).
AcceptUpserts(k) ==
    /\ invitation[k] = "open"
    /\ invitation' = [invitation EXCEPT ![k] = "none"]
    /\ member' = [member EXCEPT ![k] = ActiveRow("member")]
    /\ UNCHANGED <<tenants, creating, context, pending, barred, snapshot>>

\* The insert of a second row for the pair fails, and nothing is changed; the
\* state of the workspace is not looked at.
Accept(k) ==
    /\ invitation[k] = "open"
    /\ \/ Access(k) /\ UNCHANGED <<member, pending, barred, snapshot>>
       \/ member[k] = NoRow /\ Write(k, ActiveRow("member"))
    /\ invitation' = [invitation EXCEPT ![k] = "none"]
    /\ UNCHANGED <<tenants, creating, context>>

CancelInvitation(by, k) ==
    /\ invitation[k] # "none" /\ ActiveOwner(k[1], by)
    /\ invitation' = [invitation EXCEPT ![k] = "none"]
    /\ UNCHANGED <<tenants, creating, member, context, pending, barred, snapshot>>

(***************************************************************************)
(* The administration.                                                     *)
(***************************************************************************)
\* POST: an insert, or a restoration of a membership that is marked deleted.
AdminAdd(k, role) ==
    /\ tenants[k[1]].state # "none"
    /\ member[k] = NoRow \/ member[k].deleted
    /\ Write(k, ActiveRow(role))
    /\ UNCHANGED <<tenants, creating, invitation, context>>

\* PATCH of a user: role and status, of a membership marked deleted too; PATCH
\* of a membership does the same, of the other memberships only.
AdminUpdate(k, role, status) ==
    /\ member[k] # NoRow /\ <<member[k].role, member[k].status>> # <<role, status>>
    /\ Write(k, [member[k] EXCEPT !.role = role, !.status = status])
    /\ UNCHANGED <<tenants, creating, invitation, context>>

\* PATCH with action "restore".
AdminRestore(k) ==
    /\ member[k].deleted
    /\ Write(k, ActiveRow(member[k].role))
    /\ UNCHANGED <<tenants, creating, invitation, context>>

\* Mutant: only deleted_at is set.
RemoveKeepsStatus(k) ==
    /\ Owner[k[1]] # k[2] /\ member[k] # NoRow /\ ~member[k].deleted
    /\ member' = [member EXCEPT ![k].deleted = TRUE]
    /\ barred' = barred \cup {k}
    /\ UNCHANGED <<tenants, creating, invitation, context, pending, snapshot>>

\* DELETE: without effect, yet successful, on a membership marked deleted.
AdminRemove(k) ==
    /\ Owner[k[1]] # k[2] /\ member[k] # NoRow /\ ~member[k].deleted
    /\ Write(k, [member[k] EXCEPT !.deleted = TRUE, !.status = "removed"])
    /\ UNCHANGED <<tenants, creating, invitation, context>>

\* switch_tenant, called by the user.
SwitchTenant(u, t) ==
    /\ Access(<<t, u>>)
    /\ context' = [context EXCEPT ![u] = t]
    /\ UNCHANGED <<tenants, creating, member, invitation, pending, barred, snapshot>>

\* mark_membership_events_processed: the user closes the notification.
Dismiss(u) ==
    /\ pending[u] # {}
    /\ pending' = [pending EXCEPT ![u] = {}]
    /\ UNCHANGED <<tenants, creating, member, invitation, context, barred, snapshot>>

TenantStep(t) ==
    \/ InsertTenant(t) \/ InsertOwner(t) \/ InsertOwnerFails(t) \/ GraceEnds(t)
    \/ \E by \in Users : DeleteWorkspace(by, t) \/ RestoreWorkspace(by, t)

InvitationStep(k) ==
    \/ InvitationExpires(k) \/ Accept(k)
    \/ \E by \in Users : Invite(by, k) \/ CancelInvitation(by, k)

AdminStep(k) ==
    \/ AdminRestore(k) \/ AdminRemove(k)
    \/ \E role \in Roles : AdminAdd(k, role)
    \/ \E role \in Roles, status \in Status : AdminUpdate(k, role, status)

(***************************************************************************)
(* Properties.                                                             *)
(***************************************************************************)
\* A user who was suspended or removed stays out until the administration
\* takes that back: no deletion and restoration of the workspace, and no
\* invitation, gives access again.
BarredStaysOut == \A k \in barred : ~Access(k)

\* Restoring a workspace gives access to exactly those who had it when it was
\* deleted, but for the memberships changed in between, and for removed members
\* whose status the administration set back to active; although
\* restore_workspace cannot tell its own marks from those of earlier removals
\* (initial_schemas.sql 2148).
RestoreExact ==
    [][\A t \in Tenants :
          tenants[t].state = "deleted" /\ tenants'[t].state = "live"
          => \A u \in Users \ snapshot[t].touched :
                Access(<<t, u>>)' <=> u \in snapshot[t].had]_wsVars

\* Whoever deletes and restores, and whatever the administration does to the
\* other members: an owner the administration does not reach has access to the
\* workspace, as its owner, whenever it is not deleted.
OwnerFollows ==
    \A t \in Tenants :
        LET k == <<t, Owner[t]>> IN
        k \notin Managed /\ member[k] # NoRow
        => (tenants[t].state = "live" => ActiveOwner(t, Owner[t]))
=============================================================================
