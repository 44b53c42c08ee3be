------------------------------ MODULE Sessions ------------------------------
(***************************************************************************)
(* The sessions of the web application on top of Workspaces: the token of  *)
(* every device (auth/options.ts), its validation against the database     *)
(* (auth/sessionValidation.ts), the cache of validations that all devices  *)
(* and instances share, and the monitor of memberships in the browser.     *)
(* Time is counted in units of 5 minutes, which SESSION_VALIDATION_-       *)
(* INTERVAL_MS and CACHE_TTL_SECONDS both are: what is k units old was     *)
(* written more than k - 1 and less than k + 1 units ago, so that at the   *)
(* very age of a limit both answers are possible.                          *)
(***************************************************************************)
EXTENDS Workspaces

CONSTANTS
    Devices,    \* one session each, with one request under way at a time
    UserOf,     \* the user of every device
    Interval,   \* units after which a token is validated again
    TTL,        \* units a cached validation lives
    MaxErrors,  \* bound on the remote calls that answer with an error
    Unusable    \* the answer of create_personal_tenant, taken for a tenant's id

SessionUsers == {UserOf[d] : d \in Devices}

ASSUME DevicesAssumption == UserOf \in [Devices -> Users]
ASSUME TimesAssumption == Interval \in Nat \ {0} /\ TTL \in Nat \ {0} /\ MaxErrors \in Nat
ASSUME UnusableAssumption == Unusable \notin Tenants \cup {NoTenant}

VARIABLES
    token,   \* the token of every device
    cache,   \* the cached validation of every user
    val,     \* the validation under way on every device
    errors,  \* remote calls that have answered with an error
    banned,  \* users with banned_until or deleted_at in their metadata
    ages     \* history: when a context, an active membership, an account in
             \* good order was last true, in units

sVars == <<token, cache, val, errors, banned, ages>>
vars == <<wsVars, sVars>>

\* The longest time between reading the database and the last request that is
\* answered with what was read: the validation's own unit, the life of the
\* cached answer, the life of the token that is renewed with it.
Bound == TTL + Interval + 1
Far == Bound + 1

NoToken == [tenant |-> NoTenant, age |-> 0, checked |-> FALSE, in |-> FALSE]
NoEntry == [valid |-> FALSE, tenant |-> NoTenant, age |-> TTL + 1]
Idle == [at |-> "idle", tenant |-> NoTenant, ok |-> FALSE, age |-> 0]

TypeOK ==
    /\ WorkspacesTypeOK
    /\ token \in [Devices -> [tenant : Tenants \cup {NoTenant, Unusable}, age : 0..Interval + 1,
                              checked : BOOLEAN, in : BOOLEAN]]
    /\ cache \in [SessionUsers -> [valid : BOOLEAN, tenant : Tenants \cup {NoTenant}, age : 0..TTL + 1]]
    /\ val \in [Devices -> [at : {"idle", "context", "verify", "store"},
                            tenant : Tenants \cup {NoTenant}, ok : BOOLEAN, age : 0..1]]
    /\ errors \in 0..MaxErrors
    /\ banned \in SUBSET SessionUsers
    /\ ages \in [SessionUsers -> [context : [Tenants -> 0..Far], active : [Tenants -> 0..Far],
                           account : 0..Far]]

Init ==
    /\ WorkspacesInit
    /\ token = [d \in Devices |-> NoToken]
    /\ cache = [u \in SessionUsers |-> NoEntry]
    /\ val = [d \in Devices |-> Idle]
    /\ errors = 0
    /\ banned = {}
    /\ ages = [u \in SessionUsers |-> [context |-> [t \in Tenants |-> Far],
                                active |-> [t \in Tenants |-> Far], account |-> 0]]

\* The answer of verify_tenant_access, which does not look at deleted_at.
HasAccess(t, u) == member[<<t, u>>].status = "active"

Age(now, old, tick) ==
    IF now THEN 0 ELSE IF tick /\ old < Far THEN old + 1 ELSE old

Stamp(tick) ==
    ages' = [u \in SessionUsers |->
        [context |-> [t \in Tenants |-> Age(context'[u] = t, ages[u].context[t], tick)],
         active  |-> [t \in Tenants |-> Age(HasAccess(t, u)', ages[u].active[t], tick)],
         account |-> Age(u \notin banned', ages[u].account, tick)]]

\* A remote call answers with an error, which its caller takes for "no data".
Error == errors < MaxErrors /\ errors' = errors + 1

\* The personal workspace of the user exists, and is returned as it is.
HasPersonal(u) == \E t \in Personal : Owner[t] = u /\ tenants[t].state # "none"

\* The token of a session that starts with tenant t.
Enter(d, t) ==
    token' = [token EXCEPT ![d] = [tenant |-> t, age |-> 0, checked |-> FALSE, in |-> TRUE]]

\* authorize: the context of the user, unverified; a new user gets a workspace, and so does
\* one whose context could not be read.
Login(d) ==
    LET u == UserOf[d]
    IN  /\ token[d] = NoToken
        /\ \/ /\ context[u] # NoTenant
              /\ Enter(d, context[u])
              /\ UNCHANGED <<wsVars, errors>>
           \/ /\ IF context[u] = NoTenant THEN UNCHANGED errors ELSE Error
              /\ \E t \in Tenants : CreatePersonal(u, t)
              /\ Enter(d, Unusable)
           \/ /\ context[u] # NoTenant /\ Error
              /\ HasPersonal(u)
              /\ Enter(d, Unusable)
              /\ UNCHANGED wsVars
        /\ UNCHANGED <<cache, val, banned>>

Ready(d) == token[d].in /\ val[d] = Idle

\* The token after a validation: an answer without tenant keeps the old one.
Adopt(old, tenant, age) ==
    [old EXCEPT !.tenant = IF tenant = NoTenant THEN @ ELSE tenant,
                !.checked = @ \/ tenant # NoTenant,
                !.age = age]

\* Mutant: an answer from the cache gives the cached entry a new life.
CachedSlides(d) ==
    LET entry == cache[UserOf[d]] IN
    /\ Ready(d) /\ entry # NoEntry
    /\ \E renew \in BOOLEAN :
          /\ IF renew THEN token[d].age >= Interval ELSE token[d].age <= Interval
          /\ token' = [token EXCEPT ![d] =
                          IF ~entry.valid THEN NoToken
                          ELSE Adopt(@, entry.tenant, IF renew THEN 0 ELSE @.age)]
          /\ cache' = IF renew THEN [cache EXCEPT ![UserOf[d]].age = 0] ELSE cache
    /\ UNCHANGED <<wsVars, val, errors, banned>>

\* A request finds a cached validation: before the interval is over it adopts
\* its tenant, afterwards it counts as a validation.
Cached(d) ==
    LET entry == cache[UserOf[d]] IN
    /\ Ready(d) /\ entry # NoEntry
    /\ \E renew \in BOOLEAN :
          /\ IF renew THEN token[d].age >= Interval ELSE token[d].age <= Interval
          /\ token' = [token EXCEPT ![d] =
                          IF ~entry.valid THEN NoToken
                          ELSE Adopt(@, entry.tenant, IF renew THEN 0 ELSE @.age)]
    /\ UNCHANGED <<wsVars, cache, val, errors, banned>>

\* Without a cached answer, or without the cache, the user is looked up.
Validate(d) ==
    LET u == UserOf[d] IN
    /\ Ready(d) /\ token[d].age >= Interval
    /\ \/ /\ val' = [val EXCEPT ![d].at = IF u \in banned THEN "store" ELSE "context"]
          /\ UNCHANGED <<token, errors>>
       \/ Error /\ val' = [val EXCEPT ![d].at = "store"] /\ UNCHANGED token
       \/ Error /\ token' = [token EXCEPT ![d] = NoToken] /\ UNCHANGED val
    /\ UNCHANGED <<wsVars, cache, banned>>

\* Mutant: the tenant that is verified is the token's.
ReadToken(d) ==
    /\ val[d].at = "context"
    /\ val' = [val EXCEPT ![d].tenant = token[d].tenant, ![d].at = "verify"]
    /\ UNCHANGED <<wsVars, token, cache, errors, banned>>

\* Without a current tenant there is nothing to verify, and the user is valid.
ReadContext(d) ==
    /\ val[d].at = "context"
    /\ \/ /\ val' = [val EXCEPT ![d].tenant = context[UserOf[d]],
                                ![d].at = IF context[UserOf[d]] = NoTenant THEN "store"
                                                                           ELSE "verify",
                                ![d].ok = context[UserOf[d]] = NoTenant]
          /\ UNCHANGED errors
       \/ Error /\ val' = [val EXCEPT ![d].at = "store", ![d].ok = TRUE]
    /\ UNCHANGED <<wsVars, token, cache, banned>>

\* verify_tenant_access.  When access is lost get_user_tenants is asked for
\* the workspaces of the caller, and the caller is the service: it answers
\* none, no workspace is switched to and the user is not valid.
Verify(d) ==
    LET u == UserOf[d] IN
    /\ val[d].at = "verify"
    /\ \/ /\ val' = [val EXCEPT ![d].at = "store", ![d].ok = HasAccess(val[d].tenant, u)]
          /\ UNCHANGED errors
       \/ Error /\ val' = [val EXCEPT ![d].at = "store"]
    /\ UNCHANGED <<wsVars, token, cache, banned>>

\* Mutant: a valid answer renews the token and leaves its tenant.
StoreTenantKept(d) ==
    LET u == UserOf[d] IN
    /\ val[d].at = "store"
    /\ \/ cache' = [cache EXCEPT ![u] = [valid |-> val[d].ok, tenant |-> NoTenant, age |-> 0]]
       \/ UNCHANGED cache
    /\ token' = [token EXCEPT ![d] = IF val[d].ok THEN Adopt(@, NoTenant, val[d].age)
                                                  ELSE NoToken]
    /\ val' = [val EXCEPT ![d] = Idle]
    /\ UNCHANGED <<wsVars, errors, banned>>

\* The answer is cached, unless the cache is out of reach, and the token takes
\* it; a token that is not valid becomes empty, which is a logout.
Store(d) ==
    LET u == UserOf[d] IN
    /\ val[d].at = "store"
    /\ \/ cache' = [cache EXCEPT ![u] = [valid |-> val[d].ok, age |-> 0,
                                         tenant |-> IF val[d].ok THEN val[d].tenant ELSE NoTenant]]
       \/ UNCHANGED cache
    /\ token' = [token EXCEPT ![d] = IF val[d].ok THEN Adopt(@, val[d].tenant, val[d].age)
                                                  ELSE NoToken]
    /\ val' = [val EXCEPT ![d] = Idle]
    /\ UNCHANGED <<wsVars, errors, banned>>

\* useMembershipMonitor: a suspension in the current workspace makes the browser
\* switch to another one, the personal one first.
Target(u) ==
    IF UserTenants(u) \cap Personal # {} THEN UserTenants(u) \cap Personal ELSE UserTenants(u)

Monitor(d) ==
    LET u == UserOf[d] IN
    /\ Ready(d) /\ token[d].tenant \in pending[u]
    /\ \E t \in Target(u) : SwitchTenant(u, t)
    /\ UNCHANGED <<token, cache, val, errors, banned>>

Ban(u) ==
    /\ u \notin banned
    /\ banned' = banned \cup {u}
    /\ UNCHANGED <<wsVars, token, cache, val, errors>>

\* A unit passes; a validation takes less than one, a cached entry disappears.
Tick ==
    /\ \A d \in Devices : val[d].age = 0
    /\ token' = [d \in Devices |->
                    IF token[d].in /\ token[d].age <= Interval
                    THEN [token[d] EXCEPT !.age = @ + 1] ELSE token[d]]
    /\ cache' = [u \in SessionUsers |-> IF cache[u].age < TTL THEN [cache[u] EXCEPT !.age = @ + 1]
                                                       ELSE NoEntry]
    /\ val' = [d \in Devices |-> IF val[d] = Idle THEN Idle ELSE [val[d] EXCEPT !.age = 1]]
    /\ UNCHANGED <<wsVars, errors, banned>>

SessionStep(d) == Cached(d) \/ Validate(d) \/ ReadContext(d) \/ Verify(d) \/ Store(d)

WorkspaceStep ==
    \/ \E t \in Tenants : TenantStep(t)
    \/ \E k \in Managed : InvitationStep(k) \/ AdminStep(k)
    \/ \E u \in Users : Dismiss(u) \/ \E t \in Tenants : SwitchTenant(u, t)

Next ==
    \/ Tick /\ Stamp(TRUE)
    \/ /\ \/ \E d \in Devices : Login(d) \/ SessionStep(d) \/ Monitor(d)
          \/ \E u \in SessionUsers : Ban(u)
          \/ WorkspaceStep /\ UNCHANGED <<token, cache, val, errors, banned>>
       /\ Stamp(FALSE)

\* Time passes, remote calls return, and a device stays in use: it logs in
\* again, sends requests, and runs the monitor, every 10 seconds.
Fairness ==
    /\ WF_vars(Tick /\ Stamp(TRUE))
    /\ \A d \in Devices : /\ WF_vars(Login(d) /\ Stamp(FALSE))
                          /\ WF_vars(SessionStep(d) /\ Stamp(FALSE))
                          /\ WF_vars(Monitor(d) /\ Stamp(FALSE))

Spec == Init /\ [][Next]_vars /\ Fairness

(***************************************************************************)
(* Properties.                                                             *)
(***************************************************************************)
\* A token that is still accepted without validation names a tenant that was
\* the user's current one at most Bound units ago; once it has been validated,
\* the membership was active and the account in good order within that time.
\* With both limits at 5 minutes a user who loses access can go on for 15, the
\* time of the validation included (options.ts 22, distributedValidationCache.ts
\* 39), although each limit by itself says 5.
TokenGrounded ==
    \A d \in Devices :
        LET u == UserOf[d]
            t == token[d].tenant
        IN token[d].in /\ token[d].age <= Interval /\ t \in Tenants /\ errors = 0
           => /\ ages[u].context[t] <= Bound
              /\ token[d].checked => /\ ages[u].active[t] <= Bound
                                     /\ ages[u].account <= Bound

\* Once the current tenant of a user no longer changes and is accessible, every
\* device gets there and stays there: no cached answer, of another tenant or of a
\* failed validation, keeps it away for ever, and the token of a new user that
\* names no tenant at all does not remain.
Settled(u, t) == context[u] = t /\ HasAccess(t, u) /\ u \notin banned

DevicesSettle ==
    \A d \in Devices, t \in Tenants :
        <>[]Settled(UserOf[d], t) => <>[](token[d].in /\ token[d].tenant = t)

=============================================================================
