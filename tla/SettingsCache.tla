---------------------------- MODULE SettingsCache ----------------------------
(***************************************************************************)
(* The settings of one tenant behind a cache: the LLM policy of the tenant *)
(* (CachingPolicyStore) and the configuration of its conversations         *)
(* (CachingConversationConfigStore), which follow the same scheme.  Rows   *)
(* are in the database; a read asks Redis first and fills it with what the *)
(* database answers, to live for a while; a write changes the row and then *)
(* drops a key of the cache.  Redis and the database answer each request   *)
(* on its own, so that reads and writes of different instances of the      *)
(* application interleave between any two of them.                         *)
(*                                                                         *)
(* The writes are numbered in the order in which the database commits      *)
(* them; what a reader has read is the number of the last write before it, *)
(* and which of the tenant's rows, since there may be several.             *)
(***************************************************************************)
EXTENDS Integers

CONSTANTS
    Callers,    \* reads under way at a time, one each
    Writers,    \* writes under way at a time, one each
    MaxWrites,  \* bound on the writes of a behaviour
    MaxErrors,  \* bound on the requests that fail
    Ttl,        \* units of time an entry of the cache lives
    Patience    \* units within which what was read is in the cache or has failed to be

ASSUME BoundsAssumption ==
    /\ MaxWrites \in Nat
    /\ MaxErrors \in Nat
    /\ Ttl \in Nat
    /\ Patience \in Nat

VARIABLES
    count,    \* the writes committed
    level,    \* what every one of them changed
    kind,     \* whether it set it or deleted it
    age,      \* units since it was committed, up to Bound
    cache,    \* the entries of Redis
    call,     \* the reads under way
    drop,     \* the write every writer has yet to drop a key for, or 0
    missed,   \* history: the writes no key was dropped for
    errors    \* the requests that have failed

cacheVars == <<count, level, kind, age, cache, call, drop, missed, errors>>

\* The policy of the tenant, one row; its configuration, any number of rows; the
\* configuration of a user in it, one row.  Nothing writes the global configuration: its
\* tenant_id 'global' is no uuid.
Levels == {"policy", "tenant", "user"}

\* A key of the cache is named after the level whose writes drop it.
Keys == Levels

\* The levels an entry is made of: a user's configuration is merged with the tenant's.
Reads(k) == IF k = "user" THEN {"tenant", "user"} ELSE {k}

\* Mutant: a user's configuration drops the key of the tenant.
TenantKeyOf(l) == IF l = "user" THEN "tenant" ELSE l

\* The key a write drops, cacheKey of the level's own ids.
KeyOf(l) == l

Writes == 1..MaxWrites
Bound == Ttl + Patience

Call == [pc : {"idle", "get", "read", "fill", "answer"}, key : Keys, at : 0..MaxWrites,
         row : 0..MaxWrites, due : SUBSET Writes, waited : 0..Patience]

Entry == [at : 0..MaxWrites, row : 0..MaxWrites, left : 0..Ttl, late : BOOLEAN]

Idle == [pc |-> "idle", key |-> "policy", at |-> 0, row |-> 0, due |-> {}, waited |-> 0]

CacheTypeOK ==
    /\ count \in 0..MaxWrites
    /\ level \in [Writes -> Levels]
    /\ kind \in [Writes -> {"set", "delete"}]
    /\ age \in [Writes -> 0..Bound]
    /\ cache \in [Keys -> Entry]
    /\ call \in [Callers -> Call]
    /\ drop \in [Writers -> 0..MaxWrites]
    /\ missed \in SUBSET Writes
    /\ errors \in 0..MaxErrors

\* No rows and an empty cache.
CacheInit ==
    /\ count = 0
    /\ level = [v \in Writes |-> "policy"]
    /\ kind = [v \in Writes |-> "set"]
    /\ age = [v \in Writes |-> 0]
    /\ cache = [k \in Keys |-> [at |-> 0, row |-> 0, left |-> 0, late |-> FALSE]]
    /\ call = [c \in Callers |-> Idle]
    /\ drop = [w \in Writers |-> 0]
    /\ missed = {}
    /\ errors = 0

\* The writes that key k is about, of those after number n.
Later(k, n) == {v \in Writes : n < v /\ v <= count /\ level[v] \in Reads(k)}

\* The last write to the policy's row up to number n, as a set.
LastWrite(n) ==
    {v \in Writes : v <= n /\ level[v] = "policy"
                      /\ \A u \in Writes : v < u /\ u <= n => level[u] # "policy"}

\* Whether the row of the policy is there after write n.
Exists(n) == \E v \in LastWrite(n) : kind[v] = "set"

\* The rows of the tenant's configuration after write n, each the number of its write: every
\* upsert inserts one, since its user_id is NULL, which UNIQUE does not compare; a deletion
\* takes them all.
TenantRows(n) ==
    {v \in Writes : /\ v <= n /\ level[v] = "tenant" /\ kind[v] = "set"
                    /\ \A u \in Writes : v < u /\ u <= n /\ level[u] = "tenant" => kind[u] = "set"}

\* The tenant's row that a read of key k after write n shows, or 0: the query orders the rows
\* by level only, and the one that happens to come last wins.
Shown(k, n) == IF k = "policy" \/ TenantRows(n) = {} THEN {0} ELSE TenantRows(n)

-----------------------------------------------------------------------------
(* Reads: getPolicy and getConfig. *)

Become(c, next) == call' = [call EXCEPT ![c] = next]

\* The call goes on, with what it has read.
To(c, pc, at, row) == Become(c, [pc |-> pc, key |-> call[c].key, at |-> at, row |-> row,
                                 due |-> call[c].due, waited |-> 0])

Fail == errors < MaxErrors /\ errors' = errors + 1

\* due: the writes that are no longer news, history.
Ask(c, k) ==
    /\ call[c].pc = "idle"
    /\ Become(c, [pc |-> "get", key |-> k, at |-> 0, row |-> 0,
                  due |-> {v \in Later(k, 0) : age[v] = Bound}, waited |-> 0])
    /\ UNCHANGED <<count, level, kind, age, cache, drop, missed, errors>>

\* Mutant: every hit gives the entry its whole life again.
HitRenews(c) ==
    LET k == call[c].key
    IN  /\ call[c].pc = "get"
        /\ cache[k].left > 0
        /\ To(c, "answer", cache[k].at, cache[k].row)
        /\ cache' = [cache EXCEPT ![k] = [cache[k] EXCEPT !.left = Ttl]]
        /\ UNCHANGED <<count, level, kind, age, drop, missed, errors>>

Hit(c) ==
    LET k == call[c].key
    IN  /\ call[c].pc = "get"
        /\ cache[k].left > 0
        /\ To(c, "answer", cache[k].at, cache[k].row)
        /\ UNCHANGED <<count, level, kind, age, cache, drop, missed, errors>>

\* The key is not there, or Redis does not answer: on to the database.
Miss(c) ==
    /\ call[c].pc = "get"
    /\ \/ cache[call[c].key].left = 0 /\ UNCHANGED errors
       \/ Fail
    /\ To(c, "read", call[c].at, 0)
    /\ UNCHANGED <<count, level, kind, age, cache, drop, missed>>

\* A policy that is not there is not cached; a configuration always is.
Read(c) ==
    /\ call[c].pc = "read"
    /\ \E row \in Shown(call[c].key, count) :
         To(c, IF call[c].key = "policy" /\ ~Exists(count) THEN "answer" ELSE "fill", count, row)
    /\ UNCHANGED <<count, level, kind, age, cache, drop, missed, errors>>

\* The error of the database is the caller's.
ReadFails(c) ==
    /\ call[c].pc = "read"
    /\ Fail
    /\ Become(c, Idle)
    /\ UNCHANGED <<count, level, kind, age, cache, drop, missed>>

\* late, history: a write came between the read and the fill.
Fill(c) ==
    LET k == call[c].key
    IN  /\ call[c].pc = "fill"
        /\ cache' = [cache EXCEPT ![k] = [at |-> call[c].at, row |-> call[c].row,
                                         left |-> Ttl,
                                         late |-> Later(k, call[c].at) # {}]]
        /\ To(c, "answer", call[c].at, call[c].row)
        /\ UNCHANGED <<count, level, kind, age, drop, missed, errors>>

\* The error is logged and what was read is answered all the same.
FillFails(c) ==
    /\ call[c].pc = "fill"
    /\ Fail
    /\ To(c, "answer", call[c].at, call[c].row)
    /\ UNCHANGED <<count, level, kind, age, cache, drop, missed>>

Answer(c) ==
    /\ call[c].pc = "answer"
    /\ Become(c, Idle)
    /\ UNCHANGED <<count, level, kind, age, cache, drop, missed, errors>>

-----------------------------------------------------------------------------
(* Writes: setPolicy, deletePolicy, setTenantConfig, setUserConfig, delete... *)

Commit(l, how) ==
    /\ count < MaxWrites
    /\ count' = count + 1
    /\ level' = [level EXCEPT ![count + 1] = l]
    /\ kind' = [kind EXCEPT ![count + 1] = how]

\* The database commits and answers; the key is dropped next.  Only the store behind the
\* cache can delete a policy, and drops no key.
Write(w, l, how) ==
    /\ drop[w] = 0
    /\ Commit(l, how)
    /\ IF l = "policy" /\ how = "delete"
         THEN missed' = missed \cup {count + 1} /\ UNCHANGED drop
         ELSE drop' = [drop EXCEPT ![w] = count + 1] /\ UNCHANGED missed
    /\ UNCHANGED <<age, cache, call, errors>>

\* The database commits and its answer is lost: the error ends the write.
WriteUnanswered(w, l, how) ==
    /\ drop[w] = 0
    /\ Fail
    /\ Commit(l, how)
    /\ missed' = missed \cup {count + 1}
    /\ UNCHANGED <<age, cache, call, drop>>

Drop(w) ==
    /\ drop[w] # 0
    /\ cache' = [cache EXCEPT ![KeyOf(level[drop[w]])] = [@ EXCEPT !.left = 0]]
    /\ drop' = [drop EXCEPT ![w] = 0]
    /\ UNCHANGED <<count, level, kind, age, call, missed, errors>>

\* Redis refuses, which is logged or ignored, or the instance stops.
DropFails(w) ==
    /\ drop[w] # 0
    /\ Fail
    /\ missed' = missed \cup {drop[w]}
    /\ drop' = [drop EXCEPT ![w] = 0]
    /\ UNCHANGED <<count, level, kind, age, cache, call>>

-----------------------------------------------------------------------------
\* A unit of time passes; no reader is longer than Patience on its way to the cache.
Tick ==
    /\ \A c \in Callers : call[c].pc = "fill" => call[c].waited < Patience
    /\ cache' = [k \in Keys |-> [cache[k] EXCEPT !.left = IF @ = 0 THEN 0 ELSE @ - 1]]
    /\ age' = [v \in Writes |-> IF v <= count /\ age[v] < Bound THEN age[v] + 1 ELSE age[v]]
    /\ call' = [c \in Callers |->
         IF call[c].pc = "fill" THEN [call[c] EXCEPT !.waited = @ + 1] ELSE call[c]]
    /\ UNCHANGED <<count, level, kind, drop, missed, errors>>

\* The steps of a call up to its answer.
Reading(c) ==
    \/ Hit(c)
    \/ Miss(c)
    \/ Read(c)
    \/ ReadFails(c)
    \/ Fill(c)
    \/ FillFails(c)

Writing(w) ==
    \/ \E l \in Levels, how \in {"set", "delete"} : Write(w, l, how) \/ WriteUnanswered(w, l, how)
    \/ Drop(w)
    \/ DropFails(w)

CacheNext ==
    \/ \E c \in Callers : (\E k \in Keys : Ask(c, k)) \/ Reading(c) \/ Answer(c)
    \/ \E w \in Writers : Writing(w)
    \/ Tick

CacheSpec == CacheInit /\ [][CacheNext]_cacheVars

-----------------------------------------------------------------------------
(* Properties. *)

\* A write takes hold once it is Bound old, whatever became of the dropping of its key and
\* whichever readers were on their way to the cache: a call that starts then is answered
\* with what is there after it.  Of the tenant's configuration that means that no deleted row
\* is shown, and that one is shown if there is any: not that it is the one set last, which
\* the code does not provide for.
SettingsTakeHold ==
    \A c \in Callers : call[c].pc = "answer" =>
        \A v \in call[c].due :
            /\ level[v] # "tenant" => v <= call[c].at
            /\ level[v] = "tenant" /\ kind[v] = "delete" => call[c].row = 0 \/ v < call[c].row
            /\ level[v] = "tenant" /\ kind[v] = "set" =>
                 \/ call[c].row # 0
                 \/ \E u \in Writes : /\ v < u /\ u <= call[c].at
                                      /\ level[u] = "tenant" /\ kind[u] = "delete"

\* A live entry lacks a write to its own level only if the key of that write is
\* still to be dropped, or was not, or if the entry was filled by a reader that the write
\* overtook.  (A write of the tenant's level drops no user's key, so that a user's entry may
\* lack it in any case.)
StaleOnlyExcused ==
    \A k \in Keys : cache[k].left > 0 /\ ~cache[k].late =>
        \A v \in Later(k, cache[k].at) :
            level[v] = k => v \in missed \/ \E w \in Writers : drop[w] = v
==============================================================================
