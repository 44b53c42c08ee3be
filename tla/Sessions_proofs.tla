--------------------------- MODULE Sessions_proofs ---------------------------
(***************************************************************************)
(* Proofs about Workspaces and Sessions, for any users, tenants and        *)
(* devices, and any values of the two limits.                              *)
(***************************************************************************)
EXTENDS Sessions, TLAPS

\* What a step does to the database.
DatabaseStep ==
    \/ WorkspaceStep
    \/ \E u \in Users, t \in Tenants : CreatePersonal(u, t)
    \/ UNCHANGED wsVars

\* Every step of the system is one of the database, or leaves it alone.
LEMMA StepsOfDatabase == ASSUME [Next]_vars PROVE DatabaseStep
<1>1. CASE UNCHANGED vars
  BY <1>1 DEF vars, DatabaseStep
<1>2. ASSUME NEW d \in Devices, Login(d) PROVE DatabaseStep
  <2>1. UserOf[d] \in Users
    BY DevicesAssumption
  <2>2. QED  BY <1>2, <2>1 DEF Login, DatabaseStep
<1>3. ASSUME NEW d \in Devices, SessionStep(d) PROVE DatabaseStep
  BY <1>3 DEF SessionStep, Cached, Validate, ReadContext, Verify, Store, DatabaseStep
<1>4. ASSUME NEW d \in Devices, Monitor(d) PROVE DatabaseStep
  <2>1. UserOf[d] \in Users /\ Target(UserOf[d]) \subseteq Tenants
    BY DevicesAssumption DEF Target, UserTenants
  <2>2. \E t \in Tenants : SwitchTenant(UserOf[d], t)
    BY <1>4, <2>1 DEF Monitor
  <2>3. QED  BY <2>1, <2>2 DEF DatabaseStep, WorkspaceStep
<1>5. ASSUME NEW u \in SessionUsers, Ban(u) PROVE DatabaseStep
  BY <1>5 DEF Ban, DatabaseStep
<1>6. CASE Tick
  BY <1>6 DEF Tick, DatabaseStep
<1>7. QED
  BY <1>1, <1>2, <1>3, <1>4, <1>5, <1>6 DEF Next, DatabaseStep

-----------------------------------------------------------------------------
(* The type of the database.                                               *)

\* Writing a row keeps the shape of what is written.
LEMMA WriteType ==
    ASSUME WorkspacesTypeOK, NEW k \in Pairs, NEW row \in Row, Write(k, row)
    PROVE  /\ member' \in [Pairs -> Row \cup {NoRow}]
           /\ pending' \in [Users -> SUBSET Tenants]
           /\ barred' \in SUBSET Pairs
           /\ snapshot' \in [Tenants -> [had : SUBSET Users, touched : SUBSET Users]]
<1>1. k[1] \in Tenants /\ k[2] \in Users
  BY DEF Pairs
<1>2. QED  BY SMTT(30), <1>1 DEF Write, WorkspacesTypeOK

\* A new active membership is a row.
LEMMA ActiveRowType == ASSUME NEW role \in Roles PROVE ActiveRow(role) \in Row
  BY DEF ActiveRow, Row, Status, Roles

\* A pair of the administration is a pair of a tenant and a user.
LEMMA ManagedPairs == Managed \subseteq Pairs
  BY ManagedAssumption DEF Pairs

\* Taking the mark of deletion from a row, or from no row, changes nothing else.
LEMMA Unmarked ==
    ASSUME NEW r \in Row \cup {NoRow}
    PROVE  LET q == [r EXCEPT !.deleted = FALSE]
           IN /\ q \in Row \cup {NoRow} /\ ~q.deleted
              /\ q.role = r.role /\ q.status = r.status
              /\ r = NoRow <=> q = NoRow
<1> DEFINE q == [r EXCEPT !.deleted = FALSE]
<1>1. CASE r \in Row
  <2>1. q \in Row /\ ~q.deleted /\ q.role = r.role /\ q.status = r.status
    BY <1>1 DEF Row
  <2>2. q # NoRow /\ r # NoRow
    BY <1>1, <2>1 DEF Row, NoRow, Roles
  <2>3. QED  BY <2>1, <2>2
<1>2. CASE r = NoRow
  <2> DEFINE Empty == [role : {"none"}, status : {"none"}, deleted : {FALSE}]
  <2>1. r \in Empty
    BY <1>2 DEF NoRow
  <2>2. q \in Empty
    BY <2>1
  <2>3. \A s \in Empty : s = NoRow
    <3>1. \A s \in Empty : s = [role |-> s.role, status |-> s.status, deleted |-> s.deleted]
      OBVIOUS
    <3>2. \A s \in Empty : s.role = "none" /\ s.status = "none" /\ s.deleted = FALSE
      OBVIOUS
    <3>3. QED  BY <3>1, <3>2 DEF NoRow
  <2>4. q = NoRow
    BY <2>2, <2>3
  <2>5. QED  BY <1>2, <2>4 DEF NoRow
<1>3. QED  BY <1>1, <1>2

\* The end of the grace period keeps the shape of a tenant.
LEMMA GraceType ==
    ASSUME WorkspacesTypeOK, NEW t \in Tenants
    PROVE [tenants[t] EXCEPT !.grace = FALSE]
              \in [state : {"none", "live", "deleted"}, by : Users, grace : BOOLEAN]
<1>1. tenants[t] \in [state : {"none", "live", "deleted"}, by : Users, grace : BOOLEAN]
  BY DEF WorkspacesTypeOK
<1>2. \A r \in [state : {"none", "live", "deleted"}, by : Users, grace : BOOLEAN] :
          [r EXCEPT !.grace = FALSE]
              \in [state : {"none", "live", "deleted"}, by : Users, grace : BOOLEAN]
  OBVIOUS
<1>3. QED  BY <1>1, <1>2

\* The operations on a workspace keep the type of the database.
LEMMA TenantType ==
    ASSUME WorkspacesTypeOK, NEW t \in Tenants, TenantStep(t) PROVE WorkspacesTypeOK'
<1> USE TenantsAssumption DEF WorkspacesTypeOK
<1>1. CASE InsertTenant(t)
  <2>1. tenants' \in [Tenants -> [state : {"none", "live", "deleted"}, by : Users, grace : BOOLEAN]]
    BY <1>1 DEF InsertTenant
  <2>2. QED  BY <1>1, <2>1 DEF InsertTenant
<1>2. CASE InsertOwner(t)
  <2>1. <<t, Owner[t]>> \in Pairs /\ ActiveRow("owner") \in Row
    BY ActiveRowType DEF Pairs, Roles
  <2>2. QED  BY <1>2, <2>1, WriteType DEF InsertOwner
<1>3. CASE InsertOwnerFails(t)
  <2>1. CASE UNCHANGED <<tenants, member, invitation, barred>>
    BY <1>3, <2>1 DEF InsertOwnerFails
  <2>2. CASE /\ tenants' = [tenants EXCEPT ![t].state = "none"]
             /\ member' = [k \in Pairs |-> IF k[1] = t THEN NoRow ELSE member[k]]
             /\ invitation' = [k \in Pairs |-> IF k[1] = t THEN "none" ELSE invitation[k]]
             /\ barred' = {k \in barred : k[1] # t}
    <3>1. tenants' \in [Tenants -> [state : {"none", "live", "deleted"}, by : Users, grace : BOOLEAN]]
      BY SMTT(30), <2>2
    <3>2. member' \in [Pairs -> Row \cup {NoRow}]
      BY <2>2
    <3>3. invitation' \in [Pairs -> {"none", "open", "expired"}]
      BY <2>2
    <3>4. QED  BY <1>3, <2>2, <3>1, <3>2, <3>3 DEF InsertOwnerFails
  <2>3. QED  BY <1>3, <2>1, <2>2 DEF InsertOwnerFails
<1>4. CASE GraceEnds(t)
  <2>1. [tenants[t] EXCEPT !.grace = FALSE]
            \in [state : {"none", "live", "deleted"}, by : Users, grace : BOOLEAN]
    BY GraceType
  <2>3. tenants' \in [Tenants -> [state : {"none", "live", "deleted"}, by : Users, grace : BOOLEAN]]
    BY <1>4, <2>1 DEF GraceEnds
  <2>2. QED  BY <1>4, <2>3 DEF GraceEnds
<1>5. ASSUME NEW by \in Users, DeleteWorkspace(by, t) PROVE WorkspacesTypeOK'
  <2>1. \A r \in Row : [r EXCEPT !.deleted = TRUE] \in Row
    BY DEF Row
  <2>2. member' \in [Pairs -> Row \cup {NoRow}]
    <3>1. ASSUME NEW k \in Pairs
          PROVE  (IF k[1] = t /\ member[k] # NoRow THEN [member[k] EXCEPT !.deleted = TRUE]
                                                  ELSE member[k]) \in Row \cup {NoRow}
      BY <2>1
    <3>2. QED  BY <1>5, <3>1 DEF DeleteWorkspace
  <2>3. tenants' \in [Tenants -> [state : {"none", "live", "deleted"}, by : Users, grace : BOOLEAN]]
    BY <1>5 DEF DeleteWorkspace
  <2>4. snapshot' \in [Tenants -> [had : SUBSET Users, touched : SUBSET Users]]
    BY <1>5 DEF DeleteWorkspace
  <2>5. QED  BY <1>5, <2>2, <2>3, <2>4 DEF DeleteWorkspace
<1>6. ASSUME NEW by \in Users, RestoreWorkspace(by, t) PROVE WorkspacesTypeOK'
  <2>1. \A r \in Row \cup {NoRow} : [r EXCEPT !.deleted = FALSE] \in Row \cup {NoRow}
    BY Unmarked
  <2>2. member' \in [Pairs -> Row \cup {NoRow}]
    BY <1>6, <2>1 DEF RestoreWorkspace
  <2>3. tenants' \in [Tenants -> [state : {"none", "live", "deleted"}, by : Users, grace : BOOLEAN]]
    BY <1>6 DEF RestoreWorkspace
  <2>4. QED  BY <1>6, <2>2, <2>3 DEF RestoreWorkspace
<1>7. QED
  BY <1>1, <1>2, <1>3, <1>4, <1>5, <1>6 DEF TenantStep

\* So do the operations on an invitation ...
LEMMA InvitationType ==
    ASSUME WorkspacesTypeOK, NEW k \in Pairs, InvitationStep(k) PROVE WorkspacesTypeOK'
<1> USE DEF WorkspacesTypeOK
<1>1. CASE InvitationExpires(k)
  BY <1>1 DEF InvitationExpires
<1>2. CASE Accept(k)
  <2>1. ActiveRow("member") \in Row
    BY ActiveRowType DEF Roles
  <2>2. QED  BY <1>2, <2>1, WriteType DEF Accept
<1>3. ASSUME NEW by \in Users, Invite(by, k) \/ CancelInvitation(by, k) PROVE WorkspacesTypeOK'
  BY <1>3 DEF Invite, CancelInvitation
<1>4. QED
  BY <1>1, <1>2, <1>3 DEF InvitationStep

\* ... those of the administration ...
LEMMA AdminType ==
    ASSUME WorkspacesTypeOK, NEW k \in Pairs, AdminStep(k) PROVE WorkspacesTypeOK'
<1>1. ASSUME NEW row \in Row, Write(k, row), UNCHANGED <<tenants, creating, invitation, context>>
      PROVE WorkspacesTypeOK'
  BY <1>1, WriteType DEF WorkspacesTypeOK
<1>2. member[k] # NoRow => member[k] \in Row
  BY DEF WorkspacesTypeOK
<1>3. ASSUME NEW role \in Roles, AdminAdd(k, role) PROVE WorkspacesTypeOK'
  BY <1>1, <1>3, ActiveRowType DEF AdminAdd
<1>4. ASSUME NEW role \in Roles, NEW status \in Status, AdminUpdate(k, role, status)
      PROVE WorkspacesTypeOK'
  <2>1. [member[k] EXCEPT !.role = role, !.status = status] \in Row
    BY <1>2, <1>4 DEF AdminUpdate, Row
  <2>2. QED  BY <1>1, <1>4, <2>1 DEF AdminUpdate
<1>5. CASE AdminRestore(k)
  <2>1. member[k] # NoRow
    BY <1>5 DEF AdminRestore, NoRow
  <2>2. member[k].role \in Roles
    BY <1>2, <2>1 DEF Row
  <2>3. QED  BY <1>1, <1>5, <2>2, ActiveRowType DEF AdminRestore
<1>6. CASE AdminRemove(k)
  <2>1. [member[k] EXCEPT !.deleted = TRUE, !.status = "removed"] \in Row
    BY <1>2, <1>6 DEF AdminRemove, Row, Status
  <2>2. QED  BY <1>1, <1>6, <2>1 DEF AdminRemove
<1>7. QED
  BY <1>3, <1>4, <1>5, <1>6 DEF AdminStep

\* ... and every step of the database.
LEMMA DatabaseType == ASSUME WorkspacesTypeOK, DatabaseStep PROVE WorkspacesTypeOK'
<1>1. ASSUME NEW t \in Tenants, TenantStep(t) PROVE WorkspacesTypeOK'
  BY <1>1, TenantType
<1>2. ASSUME NEW k \in Managed, InvitationStep(k) \/ AdminStep(k) PROVE WorkspacesTypeOK'
  BY <1>2, ManagedPairs, InvitationType, AdminType
<1>3. ASSUME NEW u \in Users, Dismiss(u) PROVE WorkspacesTypeOK'
  BY <1>3 DEF Dismiss, WorkspacesTypeOK
<1>4. ASSUME NEW u \in Users, NEW t \in Tenants, SwitchTenant(u, t) PROVE WorkspacesTypeOK'
  BY <1>4 DEF SwitchTenant, WorkspacesTypeOK
<1>5. ASSUME NEW u \in Users, NEW t \in Tenants, CreatePersonal(u, t) PROVE WorkspacesTypeOK'
  <2>1. <<t, u>> \in Pairs /\ ActiveRow("owner") \in Row
    BY ActiveRowType DEF Pairs, Roles
  <2>2. QED  BY ZenonT(60), <1>5, <2>1, WriteType DEF CreatePersonal, WorkspacesTypeOK
<1>6. CASE UNCHANGED wsVars
  BY <1>6 DEF wsVars, WorkspacesTypeOK
<1>7. QED
  BY <1>1, <1>2, <1>3, <1>4, <1>5, <1>6 DEF DatabaseStep, WorkspaceStep

-----------------------------------------------------------------------------
(* What the rows of the database say about each other.  BarredStaysOut and  *)
(* OwnerFollows are not inductive: a restoration takes the marks of         *)
(* deletion away, so that what keeps a barred user out, and an owner in, is *)
(* the status, and a new tenant finds no memberships because a tenant that  *)
(* does not exist has none.                                                 *)

BarredInactive == \A k \in barred : member[k].status # "active"

Founded ==
    \A t \in Tenants : tenants[t].state = "none" =>
        t \notin creating /\ \A u \in Users : /\ member[<<t, u>>] = NoRow
                                              /\ invitation[<<t, u>>] = "none"

OwnerRow ==
    \A t \in Tenants :
        LET row == member[<<t, Owner[t]>>] IN
        <<t, Owner[t]>> \notin Managed /\ row # NoRow
        => /\ row.role = "owner" /\ row.status = "active"
           /\ tenants[t].state = "live" => ~row.deleted

Kept ==
    \A t \in Tenants : tenants[t].state = "deleted" =>
        \A u \in Users \ snapshot[t].touched :
            member[<<t, u>>].status = "active" <=> u \in snapshot[t].had

DatabaseInv == WorkspacesTypeOK /\ BarredInactive /\ Founded /\ OwnerRow /\ Kept

\* What the writing of one row leaves of DatabaseInv, for any tenants' of which
\* those that were not marked deleted are not marked now.
LEMMA WriteKeeps ==
    ASSUME DatabaseInv, NEW k \in Pairs, NEW row \in Row, Write(k, row),
           \A t \in Tenants : tenants'[t].state = "deleted" => tenants[t].state = "deleted"
    PROVE  BarredInactive' /\ Kept'
<1>1. member' = [member EXCEPT ![k] = row] /\ DOMAIN member = Pairs
  BY DEF Write, DatabaseInv, WorkspacesTypeOK
<1>2. BarredInactive'
  <2>1. barred \subseteq Pairs
    BY DEF DatabaseInv, WorkspacesTypeOK
  <2>2. ASSUME NEW j \in barred' PROVE member'[j].status # "active"
    <3>1. CASE j = k
      BY <1>1, <2>2, <3>1 DEF Write
    <3>2. CASE j # k
      <4>1. j \in barred
        BY <2>2, <3>2 DEF Write
      <4>2. QED  BY <1>1, <2>1, <3>2, <4>1 DEF DatabaseInv, BarredInactive
    <3>3. QED  BY <3>1, <3>2
  <2>3. QED  BY <2>2 DEF BarredInactive
<1>3. Kept'
  <2>1. k[1] \in Tenants /\ k[2] \in Users /\ k = <<k[1], k[2]>>
    BY DEF Pairs
  <2>2. snapshot' = [snapshot EXCEPT ![k[1]].touched = @ \cup {k[2]}]
    BY DEF Write
  <2>3. ASSUME NEW t \in Tenants, tenants'[t].state = "deleted",
               NEW u \in Users \ snapshot'[t].touched
        PROVE  member'[<<t, u>>].status = "active" <=> u \in snapshot'[t].had
    <3>1. snapshot[t] \in [had : SUBSET Users, touched : SUBSET Users]
      BY DEF DatabaseInv, WorkspacesTypeOK
    <3>2. /\ snapshot'[t].had = snapshot[t].had
          /\ snapshot[t].touched \subseteq snapshot'[t].touched
          /\ t = k[1] => k[2] \in snapshot'[t].touched
      BY <2>1, <2>2, <3>1 DEF DatabaseInv, WorkspacesTypeOK
    <3>3. <<t, u>> # k /\ <<t, u>> \in Pairs
      BY <2>1, <2>3, <3>2 DEF Pairs
    <3>4. QED  BY <1>1, <2>3, <3>2, <3>3 DEF DatabaseInv, Kept
  <2>4. QED  BY <2>3 DEF Kept
<1>4. QED  BY <1>2, <1>3

\* A write for a pair of the administration, in a tenant that exists.
LEMMA ManagedWriteKeeps ==
    ASSUME DatabaseInv, NEW k \in Managed, NEW row \in Row, Write(k, row),
           tenants[k[1]].state # "none",
           UNCHANGED <<tenants, creating>>,
           \A j \in Pairs : j = k \/ invitation'[j] = invitation[j]
    PROVE  BarredInactive' /\ Founded' /\ OwnerRow' /\ Kept'
<1>1. k \in Pairs /\ k[1] \in Tenants /\ k = <<k[1], k[2]>>
  BY ManagedPairs DEF Pairs
<1>2. BarredInactive' /\ Kept'
  BY <1>1, WriteKeeps
<1>3. \A j \in Pairs : j # k => member'[j] = member[j]
  BY DEF Write, DatabaseInv, WorkspacesTypeOK
<1>4. Founded'
  <2>1. ASSUME NEW t \in Tenants, tenants[t].state = "none"
        PROVE  /\ t \notin creating
               /\ \A u \in Users : member'[<<t, u>>] = NoRow /\ invitation'[<<t, u>>] = "none"
    <3>1. \A u \in Users : <<t, u>> # k /\ <<t, u>> \in Pairs
      BY <1>1, <2>1 DEF Pairs
    <3>2. QED  BY <1>3, <2>1, <3>1 DEF DatabaseInv, Founded
  <2>2. QED  BY <2>1 DEF Founded
<1>5. OwnerRow'
  <2>1. ASSUME NEW t \in Tenants, <<t, Owner[t]>> \notin Managed
        PROVE  member'[<<t, Owner[t]>>] = member[<<t, Owner[t]>>]
    <3>1. <<t, Owner[t]>> # k /\ <<t, Owner[t]>> \in Pairs
      BY <2>1, TenantsAssumption DEF Pairs
    <3>2. QED  BY <1>3, <3>1
  <2>2. QED  BY <2>1 DEF DatabaseInv, OwnerRow
<1>6. QED  BY <1>2, <1>4, <1>5

\* The administration keeps DatabaseInv ...
LEMMA AdminKeeps ==
    ASSUME DatabaseInv, NEW k \in Managed, AdminStep(k)
    PROVE  BarredInactive' /\ Founded' /\ OwnerRow' /\ Kept'
<1>1. k \in Pairs /\ k[1] \in Tenants /\ k[2] \in Users /\ k = <<k[1], k[2]>>
  BY ManagedPairs DEF Pairs
<1>2. member[k] # NoRow => tenants[k[1]].state # "none" /\ member[k] \in Row
  BY <1>1 DEF DatabaseInv, Founded, WorkspacesTypeOK
<1>3. ASSUME NEW row \in Row, Write(k, row), tenants[k[1]].state # "none",
             UNCHANGED <<tenants, creating, invitation, context>>
      PROVE  BarredInactive' /\ Founded' /\ OwnerRow' /\ Kept'
  BY <1>3, ManagedWriteKeeps
<1>4. ASSUME NEW role \in Roles, AdminAdd(k, role)
      PROVE  BarredInactive' /\ Founded' /\ OwnerRow' /\ Kept'
  BY <1>3, <1>4, ActiveRowType DEF AdminAdd
<1>5. ASSUME NEW role \in Roles, NEW status \in Status, AdminUpdate(k, role, status)
      PROVE  BarredInactive' /\ Founded' /\ OwnerRow' /\ Kept'
  <2>1. [member[k] EXCEPT !.role = role, !.status = status] \in Row
    BY <1>2, <1>5 DEF AdminUpdate, Row
  <2>2. QED  BY <1>2, <1>3, <1>5, <2>1 DEF AdminUpdate
<1>6. CASE AdminRestore(k)
  <2>1. member[k] # NoRow
    BY <1>6 DEF AdminRestore, NoRow
  <2>2. member[k].role \in Roles
    BY <1>2, <2>1 DEF Row
  <2>3. QED  BY <1>2, <1>3, <1>6, <2>1, <2>2, ActiveRowType DEF AdminRestore
<1>7. CASE AdminRemove(k)
  <2>1. [member[k] EXCEPT !.deleted = TRUE, !.status = "removed"] \in Row
    BY <1>2, <1>7 DEF AdminRemove, Row, Status
  <2>2. QED  BY <1>2, <1>3, <1>7, <2>1 DEF AdminRemove
<1>8. QED
  BY <1>4, <1>5, <1>6, <1>7 DEF AdminStep

\* ... and so do invitations.
LEMMA InvitationKeeps ==
    ASSUME DatabaseInv, NEW k \in Managed, InvitationStep(k)
    PROVE  BarredInactive' /\ Founded' /\ OwnerRow' /\ Kept'
<1>1. k \in Pairs /\ k[1] \in Tenants /\ k[2] \in Users /\ k = <<k[1], k[2]>>
  BY ManagedPairs DEF Pairs
<1>2. invitation[k] # "none" => tenants[k[1]].state # "none"
  BY <1>1 DEF DatabaseInv, Founded
<1>3. invitation' = [invitation EXCEPT ![k] = invitation'[k]] /\ DOMAIN invitation = Pairs
  BY <1>1 DEF InvitationStep, InvitationExpires, Accept, Invite, CancelInvitation,
              DatabaseInv, WorkspacesTypeOK
<1>4. \A j \in Pairs : j = k \/ invitation'[j] = invitation[j]
  BY <1>3
<1>5. tenants[k[1]].state # "none" /\ UNCHANGED <<tenants, creating>>
  BY <1>2 DEF InvitationStep, InvitationExpires, Accept, Invite, CancelInvitation
<1>6. CASE UNCHANGED <<member, barred, snapshot>>
  <2>1. Founded'
    <3>1. ASSUME NEW t \in Tenants, tenants[t].state = "none", NEW u \in Users
          PROVE  invitation'[<<t, u>>] = invitation[<<t, u>>]
      <4>1. <<t, u>> # k /\ <<t, u>> \in Pairs
        BY <1>1, <1>5, <3>1 DEF Pairs
      <4>2. QED  BY <1>4, <4>1
    <3>2. QED  BY <1>5, <1>6, <3>1 DEF DatabaseInv, Founded
  <2>2. QED
    BY <1>5, <1>6, <2>1 DEF DatabaseInv, BarredInactive, OwnerRow, Kept
<1>7. CASE Write(k, ActiveRow("member"))
  <2>1. ActiveRow("member") \in Row
    BY ActiveRowType DEF Roles
  <2>2. QED  BY <1>4, <1>5, <1>7, <2>1, ManagedWriteKeeps
<1>8. QED
  BY <1>6, <1>7 DEF InvitationStep, InvitationExpires, Accept, Invite, CancelInvitation

\* A first membership written for the owner of a tenant.
LEMMA OwnerWriteKeeps ==
    ASSUME DatabaseInv, NEW t \in Tenants,
           Write(<<t, Owner[t]>>, ActiveRow("owner")), creating' \subseteq creating,
           invitation' = invitation, tenants'[t].state # "none",
           \A s \in Tenants : s # t => tenants'[s] = tenants[s],
           tenants'[t].state = "deleted" => tenants[t].state = "deleted"
    PROVE  BarredInactive' /\ Founded' /\ OwnerRow' /\ Kept'
<1>1. <<t, Owner[t]>> \in Pairs /\ ActiveRow("owner") \in Row
  BY ActiveRowType, TenantsAssumption DEF Pairs, Roles
<1>2. \A s \in Tenants : tenants'[s].state = "deleted" => tenants[s].state = "deleted"
  OBVIOUS
<1>3. BarredInactive' /\ Kept'
  BY <1>1, <1>2, WriteKeeps
<1>4. member' = [member EXCEPT ![<<t, Owner[t]>>] = ActiveRow("owner")] /\ DOMAIN member = Pairs
  BY DEF Write, DatabaseInv, WorkspacesTypeOK
<1>5. \A s \in Tenants, u \in Users : s # t => member'[<<s, u>>] = member[<<s, u>>]
  BY <1>4 DEF Pairs
<1>6. Founded'
  BY <1>5 DEF DatabaseInv, Founded
<1>7. OwnerRow'
  <2>1. member'[<<t, Owner[t]>>] = [role |-> "owner", status |-> "active", deleted |-> FALSE]
    BY <1>1, <1>4 DEF ActiveRow
  <2>2. \A s \in Tenants : s # t => member'[<<s, Owner[s]>>] = member[<<s, Owner[s]>>]
    BY <1>5, TenantsAssumption
  <2>3. QED  BY <2>1, <2>2 DEF DatabaseInv, OwnerRow
<1>8. QED  BY <1>3, <1>6, <1>7

\* The operations on a workspace keep DatabaseInv.
LEMMA TenantKeeps ==
    ASSUME DatabaseInv, NEW t \in Tenants, TenantStep(t)
    PROVE  BarredInactive' /\ Founded' /\ OwnerRow' /\ Kept'
<1> USE TenantsAssumption DEF DatabaseInv
<1>0. \A s \in Tenants :
          tenants[s] \in [state : {"none", "live", "deleted"}, by : Users, grace : BOOLEAN]
  BY DEF WorkspacesTypeOK
<1>1. CASE InsertTenant(t)
  <2>1. /\ tenants'[t].state = "live" /\ tenants[t].state = "none"
        /\ \A s \in Tenants : s # t => tenants'[s] = tenants[s]
        /\ creating' = creating \cup {t}
        /\ UNCHANGED <<member, invitation, barred, snapshot>>
    BY <1>1 DEF InsertTenant, WorkspacesTypeOK
  <2>2. BarredInactive'
    BY <2>1 DEF BarredInactive
  <2>3. Founded'
    BY <2>1 DEF Founded
  <2>4. OwnerRow'
    <3>1. member[<<t, Owner[t]>>] = NoRow
      BY <2>1 DEF Founded
    <3>2. QED  BY <2>1, <3>1 DEF OwnerRow
  <2>5. Kept'
    BY <2>1 DEF Kept
  <2>6. QED  BY <2>2, <2>3, <2>4, <2>5
<1>2. CASE InsertOwner(t)
  <2>1. tenants[t].state # "none"
    BY <1>2 DEF InsertOwner, Founded
  <2>2. QED  BY <1>2, <2>1, OwnerWriteKeeps DEF InsertOwner
<1>3. CASE InsertOwnerFails(t)
  <2>1. CASE UNCHANGED <<tenants, member, invitation, barred>>
    BY <1>3, <2>1 DEF InsertOwnerFails, BarredInactive, Founded, OwnerRow, Kept
  <2>2. CASE /\ tenants' = [tenants EXCEPT ![t].state = "none"]
             /\ member' = [k \in Pairs |-> IF k[1] = t THEN NoRow ELSE member[k]]
             /\ invitation' = [k \in Pairs |-> IF k[1] = t THEN "none" ELSE invitation[k]]
             /\ barred' = {k \in barred : k[1] # t}
    <3>1. /\ tenants'[t].state = "none"
          /\ \A s \in Tenants : s # t => tenants'[s] = tenants[s]
      BY <1>0, <2>2 DEF WorkspacesTypeOK
    <3>2. \A s \in Tenants, u \in Users :
              /\ member'[<<s, u>>] = IF s = t THEN NoRow ELSE member[<<s, u>>]
              /\ invitation'[<<s, u>>] = IF s = t THEN "none" ELSE invitation[<<s, u>>]
      BY <2>2 DEF Pairs
    <3>3. BarredInactive'
      BY <2>2 DEF BarredInactive, WorkspacesTypeOK
    <3>4. Founded'
      BY <1>3, <3>1, <3>2 DEF InsertOwnerFails, Founded
    <3>5. OwnerRow'
      BY <3>1, <3>2 DEF OwnerRow
    <3>6. Kept'
      BY <1>3, <3>1, <3>2 DEF InsertOwnerFails, Kept
    <3>7. QED  BY <3>3, <3>4, <3>5, <3>6
  <2>3. QED  BY <1>3, <2>1, <2>2 DEF InsertOwnerFails
<1>4. CASE GraceEnds(t)
  <2>1. \A s \in Tenants : tenants'[s].state = tenants[s].state
    BY <1>0, <1>4 DEF GraceEnds, WorkspacesTypeOK
  <2>2. QED
    BY <1>4, <2>1 DEF GraceEnds, BarredInactive, Founded, OwnerRow, Kept
<1>5. ASSUME NEW by \in Users, DeleteWorkspace(by, t)
      PROVE  BarredInactive' /\ Founded' /\ OwnerRow' /\ Kept'
  <2>1. /\ tenants'[t].state = "deleted"
        /\ \A s \in Tenants : s # t => tenants'[s] = tenants[s]
        /\ UNCHANGED <<creating, invitation, barred>>
    BY <1>5 DEF DeleteWorkspace, WorkspacesTypeOK
  <2>2. \A k \in Pairs :
            /\ k[1] # t \/ member[k] = NoRow => member'[k] = member[k]
            /\ member[k] # NoRow => /\ member'[k].status = member[k].status
                                    /\ member'[k].role = member[k].role
                                    /\ member'[k] # NoRow
    BY <1>5 DEF DeleteWorkspace, WorkspacesTypeOK, Row, NoRow, Status
  <2>3. BarredInactive'
    BY <2>1, <2>2 DEF BarredInactive, WorkspacesTypeOK
  <2>4. Founded'
    BY <2>1, <2>2 DEF Founded, Pairs
  <2>5. OwnerRow'
    BY <2>1, <2>2 DEF OwnerRow, Pairs
  <2>6. Kept'
    <3>1. \A s \in Tenants : s # t => snapshot'[s] = snapshot[s]
      BY <1>5 DEF DeleteWorkspace, WorkspacesTypeOK
    <3>2. \A s \in Tenants, u \in Users :
              member'[<<s, u>>].status = member[<<s, u>>].status
      BY <2>2 DEF Pairs
    <3>3. ASSUME NEW u \in Users \ snapshot'[t].touched
          PROVE  member[<<t, u>>].status = "active" <=> u \in snapshot'[t].had
      <4>1. /\ u \in snapshot'[t].had <=> Access(<<t, u>>)
            /\ ~Revived(<<t, u>>)
        BY <1>5, <3>3 DEF DeleteWorkspace, WorkspacesTypeOK
      <4>2. QED  BY <4>1 DEF Access, Revived
    <3>4. QED  BY <2>1, <3>1, <3>2, <3>3 DEF Kept
  <2>7. QED  BY <2>3, <2>4, <2>5, <2>6
<1>6. ASSUME NEW by \in Users, RestoreWorkspace(by, t)
      PROVE  BarredInactive' /\ Founded' /\ OwnerRow' /\ Kept'
  <2>1. /\ tenants'[t].state = "live" /\ tenants[t].state = "deleted"
        /\ \A s \in Tenants : s # t => tenants'[s] = tenants[s]
        /\ UNCHANGED <<creating, invitation, barred, snapshot>>
    BY <1>6 DEF RestoreWorkspace, WorkspacesTypeOK
  <2>2. ASSUME NEW k \in Pairs
        PROVE  /\ k[1] # t => member'[k] = member[k]
               /\ k[1] = t => member'[k] = [member[k] EXCEPT !.deleted = FALSE]
               /\ member'[k].status = member[k].status
               /\ member'[k].role = member[k].role
               /\ member[k] = NoRow => member'[k] = NoRow
               /\ k[1] = t => ~member'[k].deleted
    BY <1>6, Unmarked DEF RestoreWorkspace, WorkspacesTypeOK
  <2>3. BarredInactive'
    BY ZenonT(60), <2>1, <2>2 DEF BarredInactive, WorkspacesTypeOK
  <2>4. Founded'
    BY ZenonT(60), <2>1, <2>2 DEF Founded, Pairs
  <2>5. OwnerRow'
    BY ZenonT(60), <2>1, <2>2 DEF OwnerRow, Pairs
  <2>6. Kept'
    BY ZenonT(60), <2>1, <2>2 DEF Kept, Pairs
  <2>7. QED  BY <2>3, <2>4, <2>5, <2>6
<1>7. QED
  BY <1>1, <1>2, <1>3, <1>4, <1>5, <1>6 DEF TenantStep

\* Every step of the system keeps DatabaseInv.
LEMMA DatabaseKeeps == ASSUME DatabaseInv, [Next]_vars PROVE DatabaseInv'
<1>1. WorkspacesTypeOK'
  BY StepsOfDatabase, DatabaseType DEF DatabaseInv
<1>2. ASSUME NEW t \in Tenants, TenantStep(t) PROVE DatabaseInv'
  BY <1>1, <1>2, TenantKeeps DEF DatabaseInv
<1>3. ASSUME NEW k \in Managed, InvitationStep(k) \/ AdminStep(k) PROVE DatabaseInv'
  BY <1>1, <1>3, InvitationKeeps, AdminKeeps DEF DatabaseInv
<1>4. ASSUME UNCHANGED <<tenants, creating, member, invitation, barred, snapshot>>
      PROVE  DatabaseInv'
  BY <1>1, <1>4 DEF DatabaseInv, BarredInactive, Founded, OwnerRow, Kept
<1>5. ASSUME NEW u \in Users, NEW t \in Tenants, CreatePersonal(u, t) PROVE DatabaseInv'
  <2>1. /\ tenants'[t].state = "live"
        /\ \A s \in Tenants : s # t => tenants'[s] = tenants[s]
    BY <1>5 DEF CreatePersonal, DatabaseInv, WorkspacesTypeOK
  <2>2. Write(<<t, Owner[t]>>, ActiveRow("owner")) /\ UNCHANGED <<creating, invitation>>
    BY <1>5 DEF CreatePersonal
  <2>3. QED  BY <1>1, <2>1, <2>2, OwnerWriteKeeps DEF DatabaseInv
<1>6. QED
  BY <1>2, <1>3, <1>4, <1>5, StepsOfDatabase
  DEF DatabaseStep, WorkspaceStep, Dismiss, SwitchTenant, wsVars

\* The empty database satisfies it.
LEMMA DatabaseInit == Init => DatabaseInv
<1> SUFFICES ASSUME WorkspacesInit PROVE DatabaseInv
  BY DEF Init
<1>1. WorkspacesTypeOK
  BY TenantsAssumption DEF WorkspacesInit, WorkspacesTypeOK
<1>2. BarredInactive /\ Kept
  BY DEF WorkspacesInit, BarredInactive, Kept
<1>3. Founded /\ OwnerRow
  <2>1. \A t \in Tenants, u \in Users : <<t, u>> \in Pairs
    BY DEF Pairs
  <2>2. \A t \in Tenants : Owner[t] \in Users
    BY TenantsAssumption
  <2>3. QED  BY <2>1, <2>2 DEF WorkspacesInit, Founded, OwnerRow
<1>4. QED  BY <1>1, <1>2, <1>3 DEF DatabaseInv

\* DatabaseInv, the strengthening of the properties below, always holds.
THEOREM DatabaseSafe == Spec => []DatabaseInv
<1>1. DatabaseInv /\ [Next]_vars => DatabaseInv'
  BY DatabaseKeeps
<1>2. QED  BY DatabaseInit, <1>1, PTL DEF Spec

-----------------------------------------------------------------------------
(* The properties of the database.                                         *)

\* Whatever is created, deleted, restored, invited, accepted and changed by the
\* administration, a user who was suspended or removed has no access until the
\* administration takes that back.
THEOREM BarredUsersStayOut == Spec => []BarredStaysOut
<1>1. DatabaseInv => BarredStaysOut
  BY DEF DatabaseInv, BarredInactive, BarredStaysOut, Access
<1>2. QED  BY <1>1, DatabaseSafe, PTL

\* An owner the administration does not reach has access to the workspace, as its
\* owner, whenever it is not deleted.
THEOREM OwnersFollow == Spec => []OwnerFollows
<1>1. DatabaseInv => OwnerFollows
  BY DEF DatabaseInv, OwnerRow, OwnerFollows, ActiveOwner, Access
<1>2. QED  BY <1>1, DatabaseSafe, PTL

\* Restoring a workspace gives access to exactly those who had it when it was
\* deleted, but for the memberships changed in between and the revived ones.
THEOREM RestorationIsExact == Spec => RestoreExact
<1> DEFINE Exact ==
      \A t \in Tenants :
          tenants[t].state = "deleted" /\ tenants'[t].state = "live"
          => \A u \in Users \ snapshot[t].touched :
                Access(<<t, u>>)' <=> u \in snapshot[t].had
<1>1. ASSUME DatabaseInv, [Next]_vars PROVE [Exact]_wsVars
  <2>1. ASSUME NEW t \in Tenants, tenants[t].state = "deleted", tenants'[t].state = "live"
        PROVE  \E by \in Users : RestoreWorkspace(by, t)
    <3>1. ASSUME NEW s \in Tenants, TenantStep(s) PROVE \E by \in Users : RestoreWorkspace(by, t)
      <4>1. \A r \in Tenants : tenants[r] \in [state : {"none", "live", "deleted"}, by : Users, grace : BOOLEAN]
        BY <1>1 DEF DatabaseInv, WorkspacesTypeOK
      <4>2. tenants' = [tenants EXCEPT ![s] = tenants'[s]] /\ DOMAIN tenants = Tenants
        BY <1>1, <3>1 DEF TenantStep, InsertTenant, InsertOwner, InsertOwnerFails, GraceEnds,
                    DeleteWorkspace, RestoreWorkspace, DatabaseInv, WorkspacesTypeOK
      <4>3. s = t
        BY <2>1, <4>2
      <4>4. QED
        BY <1>1, <2>1, <3>1, <4>1, <4>3
        DEF TenantStep, InsertTenant, InsertOwner, InsertOwnerFails, GraceEnds,
            DeleteWorkspace, DatabaseInv, WorkspacesTypeOK
    <3>2. ASSUME NEW u \in Users, NEW s \in Tenants, CreatePersonal(u, s) PROVE FALSE
      BY <1>1, <2>1, <3>2 DEF CreatePersonal, DatabaseInv, WorkspacesTypeOK
    <3>3. ASSUME UNCHANGED tenants PROVE FALSE
      BY <2>1, <3>3
    <3>4. QED
      BY <1>1, <3>1, <3>2, <3>3, StepsOfDatabase
      DEF DatabaseStep, WorkspaceStep, InvitationStep, InvitationExpires, Accept, Invite,
          CancelInvitation, AdminStep, AdminAdd, AdminUpdate, AdminRestore, AdminRemove,
          Dismiss, SwitchTenant, wsVars
  <2>2. ASSUME NEW t \in Tenants, tenants[t].state = "deleted", tenants'[t].state = "live",
               NEW u \in Users \ snapshot[t].touched
        PROVE  Access(<<t, u>>)' <=> u \in snapshot[t].had
    <3>1. member[<<t, u>>].status = "active" <=> u \in snapshot[t].had
      BY <1>1, <2>2 DEF DatabaseInv, Kept
    <3>2. <<t, u>> \in Pairs /\ member[<<t, u>>] \in Row \cup {NoRow}
      BY <1>1 DEF Pairs, DatabaseInv, WorkspacesTypeOK
    <3>3. member'[<<t, u>>] = [member[<<t, u>>] EXCEPT !.deleted = FALSE]
      BY <2>1, <2>2, <3>2 DEF RestoreWorkspace
    <3>4. member'[<<t, u>>].status = member[<<t, u>>].status /\ ~member'[<<t, u>>].deleted
      BY <3>2, <3>3, Unmarked
    <3>5. QED  BY <3>1, <3>4 DEF Access
  <2>3. QED  BY <2>2
<1>2. QED  BY <1>1, DatabaseSafe, PTL DEF Spec, RestoreExact

-----------------------------------------------------------------------------
(* The type of the sessions.                                               *)

Tokens == [tenant : Tenants \cup {NoTenant, Unusable}, age : 0..Interval + 1,
           checked : BOOLEAN, in : BOOLEAN]
Entries == [valid : BOOLEAN, tenant : Tenants \cup {NoTenant}, age : 0..TTL + 1]
Validations == [at : {"idle", "context", "verify", "store"}, tenant : Tenants \cup {NoTenant},
                ok : BOOLEAN, age : 0..1]

SessionsTypeOK ==
    /\ token \in [Devices -> Tokens]
    /\ cache \in [SessionUsers -> Entries]
    /\ val \in [Devices -> Validations]
    /\ errors \in 0..MaxErrors
    /\ banned \in SUBSET SessionUsers

\* The values that steps give to tokens, entries and validations.
LEMMA SessionValues ==
    /\ NoToken \in Tokens /\ NoEntry \in Entries /\ Idle \in Validations
    /\ \A old \in Tokens, t \in Tenants \cup {NoTenant}, age \in 0..Interval + 1 :
          Adopt(old, t, age) \in Tokens
    /\ \A d \in Devices : UserOf[d] \in SessionUsers
<1>1. NoToken \in Tokens /\ NoEntry \in Entries /\ Idle \in Validations
  BY TimesAssumption DEF NoToken, NoEntry, Idle, Tokens, Entries, Validations
<1>2. ASSUME NEW old \in Tokens, NEW t \in Tenants \cup {NoTenant}, NEW age \in 0..Interval + 1
      PROVE  Adopt(old, t, age) \in Tokens
  BY DEF Adopt, Tokens
<1>3. \A d \in Devices : UserOf[d] \in SessionUsers
  BY DEF SessionUsers
<1>4. QED  BY <1>1, <1>2, <1>3

\* The steps of one device keep the type of the sessions.
LEMMA DeviceType ==
    ASSUME SessionsTypeOK, DatabaseInv, NEW d \in Devices,
           Login(d) \/ SessionStep(d) \/ Monitor(d)
    PROVE  SessionsTypeOK'
<1> USE DEF SessionsTypeOK
<1>1. /\ UserOf[d] \in SessionUsers /\ UserOf[d] \in Users
      /\ token[d] \in Tokens /\ cache[UserOf[d]] \in Entries /\ val[d] \in Validations
      /\ context[UserOf[d]] \in Tenants \cup {NoTenant}
  BY SessionValues, DevicesAssumption DEF DatabaseInv, WorkspacesTypeOK
<1>2. CASE Login(d)
  <2>1. \A t \in Tenants \cup {NoTenant, Unusable} :
            [tenant |-> t, age |-> 0, checked |-> FALSE, in |-> TRUE] \in Tokens
    BY TimesAssumption DEF Tokens
  <2>2. errors' \in 0..MaxErrors
    BY <1>2, TimesAssumption DEF Login, Error
  <2>3. QED  BY <1>1, <1>2, <2>1, <2>2 DEF Login, Enter
<1>3. CASE Cached(d)
  <2>1. PICK renew \in BOOLEAN :
            token' = [token EXCEPT ![d] =
                         IF ~cache[UserOf[d]].valid THEN NoToken
                         ELSE Adopt(token[d], cache[UserOf[d]].tenant,
                                    IF renew THEN 0 ELSE token[d].age)]
    BY <1>3 DEF Cached
  <2>2. (IF renew THEN 0 ELSE token[d].age) \in 0..Interval + 1
    BY <1>1, TimesAssumption DEF Tokens
  <2>3. cache[UserOf[d]].tenant \in Tenants \cup {NoTenant}
    BY <1>1 DEF Entries
  <2>4. token' \in [Devices -> Tokens]
    BY <1>1, <2>1, <2>2, <2>3, SessionValues
  <2>5. QED  BY <1>3, <2>4 DEF Cached
<1>4. CASE Validate(d)
  <2>1. \A at \in {"store", "context"} : [val[d] EXCEPT !.at = at] \in Validations
    BY <1>1 DEF Validations
  <2>2. val' \in [Devices -> Validations] /\ token' \in [Devices -> Tokens]
    BY <1>1, <1>4, <2>1, SessionValues DEF Validate
  <2>3. errors' \in 0..MaxErrors
    BY <1>4, TimesAssumption DEF Validate, Error
  <2>4. QED  BY <1>4, <2>2, <2>3 DEF Validate
<1>5. CASE ReadContext(d)
  <2>1. \A t \in Tenants \cup {NoTenant}, at \in {"store", "verify"}, ok \in BOOLEAN :
            /\ [val[d] EXCEPT !.tenant = t, !.at = at, !.ok = ok] \in Validations
            /\ [val[d] EXCEPT !.at = at, !.ok = ok] \in Validations
    BY <1>1 DEF Validations
  <2>2. val' \in [Devices -> Validations]
    BY <1>1, <1>5, <2>1 DEF ReadContext
  <2>3. errors' \in 0..MaxErrors
    BY <1>5, TimesAssumption DEF ReadContext, Error
  <2>4. QED  BY <1>5, <2>2, <2>3 DEF ReadContext
<1>6. CASE Verify(d)
  <2>1. \A ok \in BOOLEAN : /\ [val[d] EXCEPT !.at = "store", !.ok = ok] \in Validations
                            /\ [val[d] EXCEPT !.at = "store"] \in Validations
    BY <1>1 DEF Validations
  <2>2. val' \in [Devices -> Validations]
    BY <1>1, <1>6, <2>1 DEF Verify, HasAccess
  <2>3. errors' \in 0..MaxErrors
    BY <1>6, TimesAssumption DEF Verify, Error
  <2>4. QED  BY <1>6, <2>2, <2>3 DEF Verify
<1>7. CASE Store(d)
  <2>1. /\ val[d].ok \in BOOLEAN /\ val[d].tenant \in Tenants \cup {NoTenant}
        /\ val[d].age \in 0..Interval + 1
    BY <1>1, TimesAssumption DEF Validations
  <2>2. [valid |-> val[d].ok, age |-> 0,
         tenant |-> IF val[d].ok THEN val[d].tenant ELSE NoTenant] \in Entries
    BY <2>1, TimesAssumption DEF Entries
  <2>3. cache' \in [SessionUsers -> Entries]
    BY <1>1, <1>7, <2>2 DEF Store
  <2>4. token' \in [Devices -> Tokens]
    BY <1>1, <1>7, <2>1, SessionValues DEF Store
  <2>5. val' \in [Devices -> Validations]
    BY <1>7, SessionValues DEF Store
  <2>6. QED  BY <1>7, <2>3, <2>4, <2>5 DEF Store
<1>8. CASE Monitor(d)
  BY <1>8 DEF Monitor
<1>9. QED
  BY <1>2, <1>3, <1>4, <1>5, <1>6, <1>7, <1>8 DEF SessionStep

\* So does the passing of time.
LEMMA TickType == ASSUME SessionsTypeOK, Tick PROVE SessionsTypeOK'
<1> USE DEF SessionsTypeOK
<1>1. token' \in [Devices -> Tokens]
  <2>1. ASSUME NEW r \in Tokens, r.age <= Interval PROVE [r EXCEPT !.age = @ + 1] \in Tokens
    BY <2>1, TimesAssumption DEF Tokens
  <2>2. QED  BY <2>1 DEF Tick
<1>2. cache' \in [SessionUsers -> Entries]
  <2>1. ASSUME NEW r \in Entries, r.age < TTL PROVE [r EXCEPT !.age = @ + 1] \in Entries
    BY <2>1, TimesAssumption DEF Entries
  <2>2. QED  BY <2>1, SessionValues DEF Tick
<1>3. val' \in [Devices -> Validations]
  <2>1. \A r \in Validations : [r EXCEPT !.age = 1] \in Validations
    BY DEF Validations
  <2>2. QED  BY <2>1, SessionValues DEF Tick
<1>4. QED  BY <1>1, <1>2, <1>3 DEF Tick

\* The times of the history stay within their bound.
LEMMA AgesType ==
    ASSUME ages \in [SessionUsers -> [context : [Tenants -> 0..Far], active : [Tenants -> 0..Far],
                                      account : 0..Far]],
           NEW tick \in BOOLEAN, Stamp(tick)
    PROVE  ages' \in [SessionUsers -> [context : [Tenants -> 0..Far], active : [Tenants -> 0..Far],
                                       account : 0..Far]]
<1>1. Far \in Nat
  BY TimesAssumption DEF Far, Bound
<1>2. \A now \in BOOLEAN, old \in 0..Far : Age(now, old, tick) \in 0..Far
  BY <1>1 DEF Age
<1>3. ASSUME NEW u \in SessionUsers
      PROVE  /\ [t \in Tenants |-> Age(context'[u] = t, ages[u].context[t], tick)] \in [Tenants -> 0..Far]
             /\ [t \in Tenants |-> Age(HasAccess(t, u)', ages[u].active[t], tick)] \in [Tenants -> 0..Far]
             /\ Age(u \notin banned', ages[u].account, tick) \in 0..Far
  BY <1>2 DEF HasAccess
<1>4. QED  BY <1>3 DEF Stamp

\* The whole type invariant.
THEOREM TypeCorrect == Spec => []TypeOK
<1> DEFINE Times == ages \in [SessionUsers -> [context : [Tenants -> 0..Far],
                                               active : [Tenants -> 0..Far], account : 0..Far]]
<1>1. Init => SessionsTypeOK /\ Times
  <2>1. Far \in Nat /\ 0 \in 0..MaxErrors
    BY TimesAssumption DEF Far, Bound
  <2>2. QED  BY <2>1, SessionValues DEF Init, SessionsTypeOK
<1>2. ASSUME DatabaseInv, SessionsTypeOK, Times, [Next]_vars PROVE SessionsTypeOK' /\ Times'
  <2>1. SessionsTypeOK'
    <3>1. ASSUME NEW u \in SessionUsers, Ban(u) PROVE SessionsTypeOK'
      BY <1>2, <3>1 DEF Ban, SessionsTypeOK
    <3>2. ASSUME UNCHANGED <<token, cache, val, errors, banned>> PROVE SessionsTypeOK'
      BY <1>2, <3>2 DEF SessionsTypeOK
    <3>3. QED
      BY <1>2, <3>1, <3>2, DeviceType, TickType DEF Next, vars, sVars
  <2>2. Times'
    <3>1. CASE UNCHANGED vars
      BY <1>2, <3>1 DEF vars, sVars
    <3>2. CASE \E tick \in BOOLEAN : Stamp(tick)
      BY <1>2, <3>2, AgesType
    <3>3. QED  BY <1>2, <3>1, <3>2 DEF Next
  <2>3. QED  BY <2>1, <2>2
<1>3. DatabaseInv /\ SessionsTypeOK /\ Times => TypeOK
  BY DEF DatabaseInv, SessionsTypeOK, Tokens, Entries, Validations, TypeOK
<1>4. DatabaseInv /\ [Next]_vars => DatabaseInv'
  BY DatabaseKeeps
<1>5. QED  BY <1>1, <1>2, <1>3, <1>4, DatabaseInit, PTL DEF Spec

-----------------------------------------------------------------------------
(* Tokens are grounded.                                                    *)

\* A user whose device is logged in, or validating, has a current tenant: a login without
\* one creates the personal tenant, and no operation takes the current tenant away.
Signed ==
    \A d \in Devices : token[d].in \/ val[d] # Idle => context[UserOf[d]] \in Tenants

\* The tenant was the current one of the user, accessible, and the account in good order,
\* each of them at most n units ago.
Fresh(u, t, n) ==
    /\ t \in Tenants
    /\ ages[u].context[t] <= n /\ ages[u].active[t] <= n /\ ages[u].account <= n

\* What a validation has read is as old as the validation, at most.
ReadFresh(d) ==
    LET u == UserOf[d]
        v == val[d]
    IN /\ v.at \in {"context", "verify"} => ages[u].account <= v.age
       /\ v.at = "verify" => v.tenant \in Tenants /\ ages[u].context[v.tenant] <= v.age
       /\ v.at = "store" /\ v.ok => Fresh(u, v.tenant, v.age)

\* A cached answer was read in the unit before it was stored.
CacheFresh(u) ==
    cache[u].valid => cache[u].age <= TTL /\ Fresh(u, cache[u].tenant, cache[u].age + 1)

\* A token names what was read, or found in the cache, when it was renewed; that of a new
\* login names what was current then and has not been validated.
TokenFresh(d) ==
    LET u == UserOf[d]
        t == token[d].tenant
        n == token[d].age + TTL + 1
    IN token[d].in /\ token[d].age <= Interval /\ t \in Tenants
       => /\ ages[u].context[t] <= n
          /\ token[d].checked => Fresh(u, t, n)

\* Where every remote call has answered, the age of a token bounds that of what it says.
Grounds ==
    errors = 0 => /\ \A d \in Devices : ReadFresh(d) /\ TokenFresh(d)
                  /\ \A u \in SessionUsers : CacheFresh(u)

\* The types that the lemmas below rely on.
Typed == TypeOK /\ DatabaseInv

\* The shapes of what a step reads.
LEMMA Shapes ==
    ASSUME Typed
    PROVE  /\ \A d \in Devices : token[d] \in Tokens /\ val[d] \in Validations /\ UserOf[d] \in SessionUsers
           /\ \A u \in SessionUsers : /\ cache[u] \in Entries
                                      /\ ages[u].account \in 0..Far
                                      /\ \A t \in Tenants : /\ ages[u].context[t] \in 0..Far
                                                            /\ ages[u].active[t] \in 0..Far
           /\ token \in [Devices -> Tokens] /\ val \in [Devices -> Validations]
           /\ cache \in [SessionUsers -> Entries]
           /\ Far \in Nat
<1>1. Far \in Nat
  BY TimesAssumption DEF Far, Bound
<1>2. /\ token \in [Devices -> Tokens] /\ val \in [Devices -> Validations]
      /\ cache \in [SessionUsers -> Entries]
  BY DEF Typed, TypeOK, Tokens, Validations, Entries
<1>3. \A u \in SessionUsers : ages[u] \in [context : [Tenants -> 0..Far], active : [Tenants -> 0..Far],
                                           account : 0..Far]
  BY DEF Typed, TypeOK
<1> QED  BY <1>1, <1>2, <1>3, SessionValues

\* An account that is no longer in good order ages by one in a unit.
LEMMA AccountStep ==
    ASSUME Typed, NEW tick \in BOOLEAN, Stamp(tick), NEW u \in SessionUsers
    PROVE  /\ ages'[u].account <= ages[u].account + (IF tick THEN 1 ELSE 0)
           /\ u \notin banned' => ages'[u].account = 0
           /\ ages'[u].account \in Nat
<1>1. ages[u].account \in Nat
  BY Shapes
<1>2. ages'[u].account = Age(u \notin banned', ages[u].account, tick)
  BY DEF Stamp
<1> QED  BY <1>1, <1>2 DEF Age

\* In a unit a fact that is no longer true ages by one, and between two units not at all.
LEMMA AgesStep ==
    ASSUME Typed, NEW tick \in BOOLEAN, Stamp(tick), NEW u \in SessionUsers, NEW t \in Tenants
    PROVE  LET k == IF tick THEN 1 ELSE 0
           IN /\ ages'[u].context[t] <= ages[u].context[t] + k
              /\ ages'[u].active[t] <= ages[u].active[t] + k
              /\ ages'[u].account <= ages[u].account + k
              /\ context'[u] = t => ages'[u].context[t] = 0
              /\ HasAccess(t, u)' => ages'[u].active[t] = 0
              /\ u \notin banned' => ages'[u].account = 0
              /\ ages'[u].context[t] \in Nat /\ ages'[u].active[t] \in Nat /\ ages'[u].account \in Nat
<1>1. /\ ages[u].context[t] \in Nat /\ ages[u].active[t] \in Nat /\ ages[u].account \in Nat
  BY Shapes
<1>2. /\ ages'[u].context[t] = Age(context'[u] = t, ages[u].context[t], tick)
      /\ ages'[u].active[t] = Age(HasAccess(t, u)', ages[u].active[t], tick)
      /\ ages'[u].account = Age(u \notin banned', ages[u].account, tick)
  BY DEF Stamp
<1>3. \A now \in BOOLEAN, old \in Nat :
         /\ Age(now, old, tick) \in Nat
         /\ Age(now, old, tick) <= old + (IF tick THEN 1 ELSE 0)
         /\ now => Age(now, old, tick) = 0
  BY DEF Age
<1>4. (context'[u] = t) \in BOOLEAN /\ HasAccess(t, u)' \in BOOLEAN /\ (u \notin banned') \in BOOLEAN
  BY DEF HasAccess
<1> QED  BY <1>1, <1>2, <1>3, <1>4

\* Between two units what is fresh stays so.
LEMMA FreshKept ==
    ASSUME Typed, Stamp(FALSE), NEW u \in SessionUsers, NEW t, NEW n \in Nat, Fresh(u, t, n)
    PROVE  Fresh(u, t, n)'
<1>1. t \in Tenants
  BY DEF Fresh
<1>2. ages[u].context[t] \in Nat /\ ages[u].active[t] \in Nat /\ ages[u].account \in Nat
  BY <1>1, Shapes
<1>3. /\ ages'[u].context[t] <= ages[u].context[t] + 0 /\ ages'[u].context[t] \in Nat
      /\ ages'[u].active[t] <= ages[u].active[t] + 0 /\ ages'[u].active[t] \in Nat
      /\ ages'[u].account <= ages[u].account + 0 /\ ages'[u].account \in Nat
  BY <1>1, AgesStep
<1> QED  BY <1>1, <1>2, <1>3 DEF Fresh

\* Between two units what a device or a cached entry says stays as good as it is.
LEMMA FrameKept ==
    ASSUME Typed, Stamp(FALSE)
    PROVE  /\ \A d \in Devices : val'[d] = val[d] /\ ReadFresh(d) => ReadFresh(d)'
           /\ \A d \in Devices : token'[d] = token[d] /\ TokenFresh(d) => TokenFresh(d)'
           /\ \A u \in SessionUsers : cache'[u] = cache[u] /\ CacheFresh(u) => CacheFresh(u)'
<1>1. ASSUME NEW d \in Devices, val'[d] = val[d], ReadFresh(d) PROVE ReadFresh(d)'
  <2> DEFINE u == UserOf[d]
             v == val[d]
  <2>1. u \in SessionUsers /\ v.age \in Nat /\ ages[u].account \in Nat
    BY Shapes DEF Validations
  <2>2. v.at \in {"context", "verify"} => ages'[u].account <= v.age
    <3>1. ages'[u].account \in Nat /\ ages'[u].account <= ages[u].account + 0
      BY <2>1, AccountStep
    <3> QED  BY <1>1, <2>1, <3>1 DEF ReadFresh
  <2>3. v.at = "verify" => v.tenant \in Tenants /\ ages'[u].context[v.tenant] <= v.age
    <3>1. SUFFICES ASSUME v.at = "verify" PROVE v.tenant \in Tenants /\ ages'[u].context[v.tenant] <= v.age
      OBVIOUS
    <3>2. v.tenant \in Tenants /\ ages[u].context[v.tenant] <= v.age /\ ages[u].context[v.tenant] \in Nat
      BY <1>1, <2>1, <3>1, Shapes DEF ReadFresh
    <3>3. ages'[u].context[v.tenant] \in Nat /\ ages'[u].context[v.tenant] <= ages[u].context[v.tenant] + 0
      BY <2>1, <3>2, AgesStep
    <3> QED  BY <2>1, <3>2, <3>3
  <2>4. v.at = "store" /\ v.ok => Fresh(u, v.tenant, v.age)'
    BY <1>1, <2>1, FreshKept DEF ReadFresh, Fresh
  <2> QED  BY <1>1, <2>2, <2>3, <2>4 DEF ReadFresh, Fresh
<1>2. ASSUME NEW d \in Devices, token'[d] = token[d], TokenFresh(d) PROVE TokenFresh(d)'
  <2> DEFINE u == UserOf[d]
             t == token[d].tenant
             n == token[d].age + TTL + 1
  <2>1. u \in SessionUsers /\ n \in Nat
    BY Shapes, TimesAssumption DEF Tokens
  <2> SUFFICES ASSUME token[d].in, token[d].age <= Interval, t \in Tenants
               PROVE  /\ ages'[u].context[t] <= n
                      /\ token[d].checked => Fresh(u, t, n)'
    BY <1>2 DEF TokenFresh, Fresh
  <2>2. ages[u].context[t] <= n /\ ages[u].context[t] \in Nat
    BY <1>2, <2>1, Shapes DEF TokenFresh
  <2>3. ages'[u].context[t] \in Nat /\ ages'[u].context[t] <= ages[u].context[t] + 0
    BY <2>1, AgesStep
  <2>4. ages'[u].context[t] <= n
    BY <2>1, <2>2, <2>3
  <2>5. token[d].checked => Fresh(u, t, n)'
    BY <1>2, <2>1, FreshKept DEF TokenFresh, Fresh
  <2> QED  BY <2>4, <2>5
<1>3. ASSUME NEW u \in SessionUsers, cache'[u] = cache[u], CacheFresh(u) PROVE CacheFresh(u)'
  <2>1. cache[u].age + 1 \in Nat
    BY Shapes, TimesAssumption DEF Entries
  <2> QED  BY <1>3, <2>1, FreshKept DEF CacheFresh, Fresh
<1> QED  BY <1>1, <1>2, <1>3

\* What is read under way says nothing after a logout.
LEMMA LoggedOut ==
    ASSUME NEW d \in Devices, token'[d] = NoToken PROVE TokenFresh(d)'
  BY DEF NoToken, TokenFresh

\* A token that takes a fresh answer is as fresh as the answer allows.
LEMMA AdoptFresh ==
    ASSUME Typed, NEW d \in Devices, NEW t \in Tenants, NEW age \in 0..Interval + 1,
           token'[d] = Adopt(token[d], t, age), Fresh(UserOf[d], t, age + TTL + 1)'
    PROVE  TokenFresh(d)'
<1>1. t # NoTenant
  BY TenantsAssumption
<1>2. token[d] \in Tokens
  BY Shapes
<1>3. token'[d].tenant = t /\ token'[d].age = age
  BY <1>1, <1>2 DEF Adopt, Tokens
<1> QED  BY <1>3 DEF TokenFresh, Fresh

\* The steps of a device that change its token only.
LEMMA TokenSteps ==
    ASSUME Typed, Signed, Grounds, NEW d \in Devices, Login(d) \/ Cached(d), Stamp(FALSE)
    PROVE  Grounds'
<1> DEFINE u == UserOf[d]
<1> SUFFICES ASSUME errors' = 0 PROVE Grounds'
  BY DEF Grounds
<1>1. /\ UNCHANGED <<cache, val, errors, banned>>
      /\ \A e \in Devices \ {d} : token'[e] = token[e]
      /\ u \in SessionUsers /\ token[d] \in Tokens /\ cache[u] \in Entries
  <2>1. errors \in Nat
    BY TimesAssumption DEF Typed, TypeOK, SessionsTypeOK
  <2>2. UNCHANGED errors
    BY <2>1 DEF Login, Cached, Error
  <2> QED  BY <2>2, Shapes DEF Login, Enter, Cached
<1>2. /\ \A e \in Devices : ReadFresh(e) /\ TokenFresh(e)
      /\ \A w \in SessionUsers : CacheFresh(w)
  BY <1>1 DEF Grounds
<1>3. TokenFresh(d)'
  <2>1. CASE Login(d)
    <3>1. PICK t \in Tenants \cup {Unusable} :
              token'[d] = [tenant |-> t, age |-> 0, checked |-> FALSE, in |-> TRUE]
              /\ (t \in Tenants => t = context[u] /\ UNCHANGED context)
      <4>1. context[u] \in Tenants \cup {NoTenant}
        BY <1>1, DevicesAssumption DEF Typed, TypeOK, WorkspacesTypeOK
      <4> QED  BY <2>1, <4>1, Shapes, UnusableAssumption DEF Login, Enter, wsVars
    <3>2. t \in Tenants => ages'[u].context[t] = 0
      BY <1>1, <3>1, AgesStep
    <3> QED  BY <3>1, <3>2, TimesAssumption DEF TokenFresh
  <2>2. CASE Cached(d)
    <3>1. PICK age \in {0, token[d].age} :
              token'[d] = IF ~cache[u].valid THEN NoToken ELSE Adopt(token[d], cache[u].tenant, age)
      BY <2>2, Shapes DEF Cached
    <3>2. CASE ~cache[u].valid
      BY <3>1, <3>2, LoggedOut
    <3>3. CASE cache[u].valid
      <4>1. cache[u].age <= TTL /\ Fresh(u, cache[u].tenant, cache[u].age + 1) /\ cache[u].age \in Nat
        BY <1>1, <1>2, <3>3 DEF CacheFresh, Entries
      <4>2. age \in 0..Interval + 1
        BY <1>1, TimesAssumption DEF Tokens
      <4>3. Fresh(u, cache[u].tenant, cache[u].age + 1)'
        <5> DEFINE t == cache[u].tenant
                   n == cache[u].age + 1
        <5>1. Fresh(u, t, n) /\ n \in Nat
          BY <4>1
        <5> HIDE DEF t, n
        <5>2. t \in Tenants /\ ages'[u].context[t] <= n /\ ages'[u].active[t] <= n /\ ages'[u].account <= n
          BY <1>1, <5>1, FreshKept DEF Fresh
        <5> QED  BY <1>1, <5>2 DEF Fresh, t, n
      <4> DEFINE t == cache[u].tenant
      <4>4. Fresh(u, t, age + TTL + 1)'
        <5>1. /\ t \in Tenants
              /\ ages'[u].context[t] \in Nat /\ ages'[u].active[t] \in Nat /\ ages'[u].account \in Nat
          BY <1>1, <4>1, AgesStep DEF Fresh
        <5> QED  BY <1>1, <4>1, <4>2, <4>3, <5>1, TimesAssumption DEF Fresh
      <4>5. t \in Tenants /\ token'[d] = Adopt(token[d], t, age)
        BY <3>1, <3>3, <4>1 DEF Fresh
      <4>6. t' = t
        BY <1>1
      <4> QED  BY <4>2, <4>4, <4>5, <4>6, AdoptFresh DEF Fresh
    <3> QED  BY <3>2, <3>3
  <2> QED  BY <2>1, <2>2
<1> QED  BY <1>1, <1>2, <1>3, FrameKept DEF Grounds

\* The steps of a device that change its validation only: what they read is true now.
LEMMA ReadSteps ==
    ASSUME Typed, Signed, Grounds, NEW d \in Devices,
           Validate(d) \/ ReadContext(d) \/ Verify(d), Stamp(FALSE)
    PROVE  Grounds'
<1> DEFINE u == UserOf[d]
<1> SUFFICES ASSUME errors' = 0 PROVE Grounds'
  BY DEF Grounds
<1>0. errors \in Nat /\ errors = 0
  <2>1. errors \in 0..MaxErrors
    BY DEF Typed, TypeOK
  <2>2. errors' \in {errors, errors + 1}
    BY DEF Validate, ReadContext, Verify, Error
  <2> QED  BY <2>1, <2>2, TimesAssumption
<1>1. /\ UNCHANGED <<wsVars, cache, token, errors, banned>>
      /\ \A e \in Devices \ {d} : val'[e] = val[e]
      /\ u \in SessionUsers /\ val[d] \in Validations /\ val \in [Devices -> Validations]
  BY <1>0, Shapes DEF Validate, ReadContext, Verify, Error
<1>2. /\ \A e \in Devices : ReadFresh(e) /\ TokenFresh(e)
      /\ \A w \in SessionUsers : CacheFresh(w)
  BY <1>0 DEF Grounds
<1>3. val[d].age \in Nat /\ ages[u].account \in Nat
  BY <1>1, Shapes DEF Validations
<1>4. ReadFresh(d)'
  <2>1. CASE Validate(d)
    <3>1. val'[d] = [val[d] EXCEPT !.at = IF u \in banned THEN "store" ELSE "context"] /\ val[d] = Idle
      BY <1>0, <1>1, <2>1 DEF Validate, Error, Ready
    <3>2. val'[d].ok = FALSE /\ val'[d].age = 0 /\ val'[d].at = IF u \in banned THEN "store" ELSE "context"
      BY <3>1 DEF Idle
    <3>3. u \notin banned => ages'[u].account = 0
      BY <1>1, AccountStep
    <3> QED  BY <3>2, <3>3 DEF ReadFresh
  <2>2. CASE ReadContext(d)
    <3> DEFINE t == context[u]
    <3>1. t \in Tenants /\ t # NoTenant
      BY <2>2, TenantsAssumption DEF Signed, ReadContext, Idle
    <3>2. val' = [val EXCEPT ![d].tenant = t, ![d].at = "verify", ![d].ok = FALSE]
      <4>1. ~Error
        BY <1>0 DEF Error
      <4> QED  BY <2>2, <3>1, <4>1 DEF ReadContext
    <3>3. val'[d].tenant = t /\ val'[d].at = "verify" /\ val'[d].age = val[d].age
      BY <1>1, <3>2 DEF Validations
    <3>4. ages'[u].context[t] = 0
      BY <1>1, <3>1, AgesStep DEF wsVars
    <3>5. ages'[u].account \in Nat /\ ages'[u].account <= ages[u].account + 0
      BY <1>1, AccountStep
    <3>6. ages[u].account <= val[d].age
      BY <1>2, <2>2 DEF ReadFresh, ReadContext
    <3> QED  BY <1>3, <3>1, <3>3, <3>4, <3>5, <3>6 DEF ReadFresh
  <2>3. CASE Verify(d)
    <3>1. PICK t \in Tenants : t = val[d].tenant /\ ages[u].context[t] <= val[d].age
      BY <1>2, <2>3 DEF ReadFresh, Verify
    <3>2. ages[u].account <= val[d].age
      BY <1>2, <2>3 DEF ReadFresh, Verify
    <3>3. val' = [val EXCEPT ![d].at = "store", ![d].ok = HasAccess(t, u)]
      <4>1. ~Error
        BY <1>0 DEF Error
      <4> QED  BY <2>3, <3>1, <4>1 DEF Verify
    <3>4. /\ val'[d].tenant = t /\ val'[d].at = "store" /\ val'[d].age = val[d].age
          /\ val'[d].ok = HasAccess(t, u)
      BY <1>1, <3>1, <3>3 DEF Validations
    <3>5. HasAccess(t, u)' <=> HasAccess(t, u)
      BY <1>1 DEF HasAccess, wsVars
    <3>6. ages[u].context[t] \in Nat
      BY <1>1, Shapes
    <3>7. /\ ages'[u].context[t] \in Nat /\ ages'[u].context[t] <= ages[u].context[t] + 0
          /\ ages'[u].account \in Nat /\ ages'[u].account <= ages[u].account + 0
          /\ HasAccess(t, u)' => ages'[u].active[t] = 0
      BY <1>1, AgesStep
    <3> QED  BY <1>3, <3>1, <3>2, <3>4, <3>5, <3>6, <3>7 DEF ReadFresh, Fresh
  <2> QED  BY <2>1, <2>2, <2>3
<1> QED  BY <1>1, <1>2, <1>4, FrameKept DEF Grounds

\* The end of a validation: the token and the cached entry take what was read.
LEMMA StoreStep ==
    ASSUME Typed, Signed, Grounds, NEW d \in Devices, Store(d), Stamp(FALSE)
    PROVE  Grounds'
<1> DEFINE u == UserOf[d]
           v == val[d]
<1> SUFFICES ASSUME errors' = 0 PROVE Grounds'
  BY DEF Grounds
<1>1. /\ UNCHANGED <<wsVars, errors, banned>>
      /\ \A e \in Devices \ {d} : val'[e] = val[e] /\ token'[e] = token[e]
      /\ \A w \in SessionUsers \ {u} : cache'[w] = cache[w]
      /\ u \in SessionUsers /\ v \in Validations
      /\ val'[d] = Idle
      /\ token'[d] = IF v.ok THEN Adopt(token[d], v.tenant, v.age) ELSE NoToken
      /\ \/ cache'[u] = cache[u]
         \/ cache'[u] = [valid |-> v.ok, age |-> 0, tenant |-> IF v.ok THEN v.tenant ELSE NoTenant]
  BY Shapes DEF Store
<1>2. /\ \A e \in Devices : ReadFresh(e) /\ TokenFresh(e)
      /\ \A w \in SessionUsers : CacheFresh(w)
  BY <1>1 DEF Grounds
<1>3. ReadFresh(d)'
  BY <1>1 DEF ReadFresh, Idle
<1>4. v.age \in {0, 1}
  BY <1>1 DEF Validations
<1>5. v.ok => \E t \in Tenants, n \in {0, 1} : t = v.tenant /\ n = v.age /\ Fresh(u, t, n)'
  <2> SUFFICES ASSUME v.ok
               PROVE  \E t \in Tenants, n \in {0, 1} : t = v.tenant /\ n = v.age /\ Fresh(u, t, n)'
    OBVIOUS
  <2>1. Fresh(u, v.tenant, v.age)
    BY <1>2 DEF ReadFresh, Store
  <2>2. PICK t \in Tenants : t = v.tenant
    BY <2>1 DEF Fresh
  <2>3. PICK n \in {0, 1} : n = v.age
    BY <1>4
  <2>4. Fresh(u, t, n)'
    BY <1>1, <2>1, <2>2, <2>3, FreshKept
  <2> QED  BY <2>2, <2>3, <2>4
<1>6. TokenFresh(d)'
  <2>1. CASE ~v.ok
    BY <1>1, <2>1, LoggedOut
  <2>2. CASE v.ok
    <3>1. PICK t \in Tenants, n \in {0, 1} : t = v.tenant /\ n = v.age /\ Fresh(u, t, n)'
      BY <1>5, <2>2
    <3>2. n \in 0..Interval + 1
      BY TimesAssumption
    <3>3. /\ ages'[u].context[t] \in Nat /\ ages'[u].active[t] \in Nat /\ ages'[u].account \in Nat
      BY <1>1, AgesStep
    <3>4. Fresh(u, t, n + TTL + 1)'
      BY <3>1, <3>2, <3>3, TimesAssumption DEF Fresh
    <3> QED  BY <1>1, <2>2, <3>1, <3>2, <3>4, AdoptFresh
  <2> QED  BY <2>1, <2>2
<1>7. CacheFresh(u)'
  <2>1. CASE cache'[u] = cache[u]
    BY <1>1, <1>2, <2>1, FrameKept
  <2>2. CASE cache'[u] = [valid |-> v.ok, age |-> 0, tenant |-> IF v.ok THEN v.tenant ELSE NoTenant]
    <3>1. CASE ~v.ok
      BY <2>2, <3>1 DEF CacheFresh
    <3>2. CASE v.ok
      <4>1. PICK t \in Tenants, n \in {0, 1} : t = v.tenant /\ n = v.age /\ Fresh(u, t, n)'
        BY <1>5, <3>2
      <4>2. /\ ages'[u].context[t] \in Nat /\ ages'[u].active[t] \in Nat /\ ages'[u].account \in Nat
        BY <1>1, AgesStep
      <4>3. Fresh(u, t, 1)'
        BY <4>1, <4>2 DEF Fresh
      <4>4. cache'[u].tenant = t /\ cache'[u].age = 0
        BY <2>2, <3>2, <4>1
      <4> QED  BY <4>3, <4>4, TimesAssumption DEF CacheFresh, Fresh
    <3> QED  BY <3>1, <3>2
  <2> QED  BY <1>1, <2>1, <2>2
<1> QED  BY <1>1, <1>2, <1>3, <1>6, <1>7, FrameKept DEF Grounds

\* A unit passes: everything that is remembered ages, and so does what it speaks of.
LEMMA TickStep ==
    ASSUME Typed, Grounds, Tick, Stamp(TRUE)
    PROVE  Grounds'
<1> SUFFICES ASSUME errors' = 0 PROVE Grounds'
  BY DEF Grounds
<1>1. /\ \A d \in Devices : ReadFresh(d) /\ TokenFresh(d)
      /\ \A w \in SessionUsers : CacheFresh(w)
  BY DEF Grounds, Tick
<1>2. ASSUME NEW u \in SessionUsers, NEW t, NEW n \in Nat, Fresh(u, t, n)
      PROVE  Fresh(u, t, n + 1)'
  <2>1. t \in Tenants
    BY <1>2 DEF Fresh
  <2>2. /\ ages[u].context[t] \in Nat /\ ages[u].active[t] \in Nat /\ ages[u].account \in Nat
    BY <2>1, Shapes
  <2>3. /\ ages'[u].context[t] \in Nat /\ ages'[u].active[t] \in Nat /\ ages'[u].account \in Nat
        /\ ages'[u].context[t] <= ages[u].context[t] + 1
        /\ ages'[u].active[t] <= ages[u].active[t] + 1
        /\ ages'[u].account <= ages[u].account + 1
    BY <2>1, AgesStep
  <2> QED  BY <1>2, <2>1, <2>2, <2>3 DEF Fresh
<1>3. ASSUME NEW d \in Devices PROVE ReadFresh(d)'
  <2> DEFINE u == UserOf[d]
             v == val[d]
  <2>1. u \in SessionUsers /\ v \in Validations /\ v.age = 0 /\ ages[u].account \in Nat
    BY Shapes DEF Tick
  <2>2. CASE v = Idle
    BY <2>2 DEF Tick, ReadFresh, Idle
  <2>3. CASE v # Idle
    <3>1. val'[d].at = v.at /\ val'[d].tenant = v.tenant /\ val'[d].ok = v.ok /\ val'[d].age = 1
      BY <2>1, <2>3 DEF Tick, Validations
    <3>2. ages'[u].account \in Nat /\ ages'[u].account <= ages[u].account + 1
      BY <2>1, AccountStep
    <3>3. v.at = "verify" => v.tenant \in Tenants /\ ages'[u].context[v.tenant] <= 1
      <4> SUFFICES ASSUME v.at = "verify" PROVE v.tenant \in Tenants /\ ages'[u].context[v.tenant] <= 1
        OBVIOUS
      <4>1. PICK t \in Tenants : t = v.tenant /\ ages[u].context[t] <= 0
        BY <1>1, <2>1 DEF ReadFresh
      <4>2. ages[u].context[t] \in Nat
        BY <2>1, Shapes
      <4>3. ages'[u].context[t] \in Nat /\ ages'[u].context[t] <= ages[u].context[t] + 1
        BY <2>1, AgesStep
      <4> QED  BY <4>1, <4>2, <4>3
    <3>4. v.at = "store" /\ v.ok => \E t : t = v.tenant /\ Fresh(u, t, 1)'
      <4> SUFFICES ASSUME v.at = "store", v.ok PROVE \E t : t = v.tenant /\ Fresh(u, t, 1)'
        OBVIOUS
      <4>1. PICK t : t = v.tenant
        OBVIOUS
      <4>2. Fresh(u, t, 0)
        BY <1>1, <2>1, <4>1 DEF ReadFresh
      <4>3. Fresh(u, t, 0 + 1)'
        BY <1>2, <2>1, <4>2
      <4> QED  BY <4>1, <4>3
    <3> QED  BY <1>1, <2>1, <3>1, <3>2, <3>3, <3>4 DEF ReadFresh, Fresh
  <2> QED  BY <2>2, <2>3
<1>4. ASSUME NEW d \in Devices PROVE TokenFresh(d)'
  <2> DEFINE u == UserOf[d]
             k == token[d]
  <2>1. u \in SessionUsers /\ k \in Tokens
    BY Shapes
  <2>2. CASE ~(k.in /\ k.age <= Interval)
    BY <2>2 DEF Tick, TokenFresh
  <2>3. CASE k.in /\ k.age <= Interval
    <3>1. /\ token'[d].tenant = k.tenant /\ token'[d].age = k.age + 1 /\ token'[d].checked = k.checked
          /\ k.age \in Nat
      BY <2>1, <2>3, TimesAssumption DEF Tick, Tokens
    <3>2. PICK n \in Nat : n = k.age + TTL + 1
      BY <3>1, TimesAssumption
    <3>3. ASSUME NEW t \in Tenants, t = k.tenant PROVE ages'[u].context[t] <= n + 1
      <4>1. ages[u].context[t] <= n
        BY <1>1, <2>3, <3>2, <3>3 DEF TokenFresh
      <4>2. ages[u].context[t] \in Nat
        BY <2>1, Shapes
      <4>3. ages'[u].context[t] \in Nat /\ ages'[u].context[t] <= ages[u].context[t] + 1
        BY <2>1, AgesStep
      <4> QED  BY <4>1, <4>2, <4>3
    <3>4. ASSUME NEW t \in Tenants, t = k.tenant, k.checked PROVE Fresh(u, t, n + 1)'
      <4>1. Fresh(u, t, n)
        BY <1>1, <2>3, <3>2, <3>4 DEF TokenFresh
      <4> QED  BY <1>2, <2>1, <4>1
    <3>5. token'[d].age + TTL + 1 = n + 1
      BY <3>1, <3>2, TimesAssumption
    <3> QED  BY <3>1, <3>3, <3>4, <3>5 DEF TokenFresh, Fresh
  <2> QED  BY <2>2, <2>3
<1>5. ASSUME NEW u \in SessionUsers PROVE CacheFresh(u)'
  <2> DEFINE e == cache[u]
  <2>1. e \in Entries
    BY Shapes
  <2>2. CASE e.age < TTL
    <3>1. cache'[u].valid = e.valid /\ cache'[u].tenant = e.tenant /\ cache'[u].age = e.age + 1
      BY <2>1, <2>2, TimesAssumption DEF Tick, Entries
    <3>2. PICK n \in Nat : n = e.age + 1
      BY <2>1, TimesAssumption DEF Entries
    <3>3. PICK t : t = e.tenant
      OBVIOUS
    <3>4. e.valid => Fresh(u, t, n + 1)'
      BY <1>1, <1>2, <3>2, <3>3 DEF CacheFresh
    <3>5. cache'[u].age <= TTL
      BY <2>1, <2>2, <3>1, TimesAssumption DEF Entries
    <3> QED  BY <3>1, <3>2, <3>3, <3>4, <3>5 DEF CacheFresh, Fresh
  <2>3. CASE ~(e.age < TTL)
    BY <2>3 DEF Tick, CacheFresh, NoEntry
  <2> QED  BY <2>2, <2>3
<1> QED  BY <1>3, <1>4, <1>5 DEF Grounds

\* The current tenant of a user is changed for another one, never taken away.
LEMMA ContextStays ==
    ASSUME WorkspacesTypeOK, [Next]_vars, NEW u \in Users, context[u] \in Tenants
    PROVE  context'[u] \in Tenants
<1>1. \/ UNCHANGED context
      \/ \E w \in Users, t \in Tenants : context' = [context EXCEPT ![w] = t]
  BY StepsOfDatabase
  DEF DatabaseStep, WorkspaceStep, TenantStep, InsertTenant, InsertOwner, InsertOwnerFails, GraceEnds,
      DeleteWorkspace, RestoreWorkspace, InvitationStep, InvitationExpires, Accept, Invite,
      CancelInvitation, AdminStep, AdminAdd, AdminUpdate, AdminRestore, AdminRemove,
      Dismiss, SwitchTenant, CreatePersonal, wsVars
<1> QED  BY <1>1 DEF WorkspacesTypeOK

\* Only a login makes a session, and it finds or makes a current tenant.
LEMMA SignedKept == ASSUME Typed, Signed, [Next]_vars PROVE Signed'
<1> SUFFICES ASSUME NEW e \in Devices, token'[e].in \/ val'[e] # Idle
             PROVE  context'[UserOf[e]] \in Tenants
  BY DEF Signed
<1>0. UserOf[e] \in Users /\ WorkspacesTypeOK
  BY DevicesAssumption DEF Typed, TypeOK
<1>1. CASE token[e].in \/ val[e] # Idle
  BY <1>0, <1>1, ContextStays DEF Signed
<1>2. CASE ~token[e].in /\ val[e] = Idle
  <2>1. ASSUME NEW d \in Devices, Login(d) PROVE context'[UserOf[e]] \in Tenants
    <3>1. CASE e = d
      <4>1. context[UserOf[e]] \in Tenants \cup {NoTenant}
        BY <1>0 DEF WorkspacesTypeOK
      <4>2. CASE context[UserOf[e]] # NoTenant
        BY <1>0, <4>1, <4>2, ContextStays
      <4>3. CASE context[UserOf[e]] = NoTenant
        BY <1>0, <2>1, <3>1, <4>3 DEF Login, CreatePersonal, WorkspacesTypeOK
      <4> QED  BY <4>2, <4>3
    <3>2. CASE e # d
      <4>1. token'[e] = token[e] /\ val'[e] = val[e]
        BY <2>1, <3>2, Shapes DEF Login, Enter
      <4> QED  BY <1>2, <4>1
    <3> QED  BY <3>1, <3>2
  <2>2. ASSUME NEW d \in Devices, SessionStep(d) \/ Monitor(d) PROVE FALSE
    <3>1. token[d].in \/ val[d].at # "idle"
      BY <2>2 DEF SessionStep, Cached, Validate, ReadContext, Verify, Store, Monitor, Ready
    <3>2. e # d
      BY <1>2, <3>1 DEF Idle
    <3>3. token'[e] = token[e] /\ val'[e] = val[e]
      BY <2>2, <3>2, Shapes
      DEF SessionStep, Cached, Validate, ReadContext, Verify, Store, Monitor
    <3> QED  BY <1>2, <3>3
  <2>3. ASSUME Tick PROVE FALSE
    BY <1>2, <2>3 DEF Tick
  <2>4. ASSUME UNCHANGED <<token, val>> PROVE FALSE
    BY <1>2, <2>4
  <2> QED  BY <2>1, <2>2, <2>3, <2>4 DEF Next, Ban, vars, sVars
<1> QED  BY <1>1, <1>2

\* Every step keeps what tokens, entries and validations say grounded.
LEMMA GroundsKept == ASSUME Typed, Signed, Grounds, [Next]_vars PROVE Grounds'
<1>1. CASE UNCHANGED vars
  BY <1>1 DEF vars, sVars, Grounds, ReadFresh, TokenFresh, CacheFresh, Fresh
<1>2. CASE Tick /\ Stamp(TRUE)
  BY <1>2, TickStep
<1>3. ASSUME UNCHANGED <<token, cache, val, errors>>, Stamp(FALSE) PROVE Grounds'
  BY <1>3, FrameKept DEF Grounds
<1>4. ASSUME NEW d \in Devices, Login(d) \/ SessionStep(d) \/ Monitor(d), Stamp(FALSE) PROVE Grounds'
  BY <1>3, <1>4, TokenSteps, ReadSteps, StoreStep DEF SessionStep, Monitor
<1>5. ASSUME NEW u \in SessionUsers, Ban(u), Stamp(FALSE) PROVE Grounds'
  BY <1>3, <1>5 DEF Ban
<1> QED  BY <1>1, <1>2, <1>3, <1>4, <1>5 DEF Next

\* A token that is accepted without validation names a tenant that was the current one of
\* its user at most TTL + Interval + 1 units ago; once validated, the membership was active
\* and the account in good order within that time: for any limits, users and devices.
THEOREM TokensAreGrounded == Spec => []TokenGrounded
<1>1. Init => Signed /\ Grounds
  BY DEF Init, Signed, Grounds, ReadFresh, TokenFresh, CacheFresh, NoToken, NoEntry, Idle
<1>2. Typed /\ Signed /\ Grounds /\ [Next]_vars => Signed' /\ Grounds'
  BY SignedKept, GroundsKept
<1>3. Typed /\ Grounds => TokenGrounded
  <2> SUFFICES ASSUME Typed, Grounds, NEW d \in Devices,
                      token[d].in, token[d].age <= Interval, token[d].tenant \in Tenants, errors = 0
               PROVE  /\ ages[UserOf[d]].context[token[d].tenant] <= Bound
                      /\ token[d].checked => /\ ages[UserOf[d]].active[token[d].tenant] <= Bound
                                             /\ ages[UserOf[d]].account <= Bound
    BY DEF TokenGrounded
  <2>1. PICK t \in Tenants : t = token[d].tenant
    OBVIOUS
  <2>2. /\ UserOf[d] \in SessionUsers /\ token[d].age \in Nat
        /\ ages[UserOf[d]].context[t] \in Nat /\ ages[UserOf[d]].active[t] \in Nat
        /\ ages[UserOf[d]].account \in Nat
    BY Shapes DEF Tokens
  <2>3. /\ ages[UserOf[d]].context[t] <= token[d].age + TTL + 1
        /\ token[d].checked => Fresh(UserOf[d], t, token[d].age + TTL + 1)
    BY <2>1 DEF Grounds, TokenFresh
  <2> QED  BY <2>1, <2>2, <2>3, TimesAssumption DEF Fresh, Bound
<1> QED  BY <1>1, <1>2, <1>3, DatabaseSafe, TypeCorrect, PTL DEF Spec, Typed

=============================================================================
