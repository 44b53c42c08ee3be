-------------------------- MODULE LlmRouting_proofs --------------------------
(***************************************************************************)
(* Proofs about LlmRouting: a change of the settings takes hold within     *)
(* Bound, for any number of readers, writers, writes and failures, and no  *)
(* call is routed otherwise than a policy of that time says.               *)
(***************************************************************************)
EXTENDS LlmRouting, TLAPS

\* What a reader and the cache know was written; the writes a reader must not miss are in
\* what it has read from the database.
ReaderKnows(r) ==
    /\ r.at <= count
    /\ r.pc # "fill" => r.waited = 0
    /\ \A v \in r.due : v <= count /\ age[v] = Bound /\ level[v] \in Reads(r.key)
    /\ r.pc \in {"fill", "answer"} => \A v \in r.due : v <= r.at

\* A write that a reader on its way to the cache lacks is no older than its way.
ReaderFresh(r) == r.pc = "fill" => \A v \in Later(r.key, r.at) : age[v] <= r.waited

\* A write that a live entry lacks is not older than Bound when the entry expires.
EntryFresh(k) ==
    /\ cache[k].at <= count
    /\ cache[k].left > 0 => \A v \in Later(k, cache[k].at) : age[v] + cache[k].left <= Bound

Excused(v) == v \in missed \/ \E w \in Writers : drop[w] = v

\* The part of StaleOnlyExcused about one key.
EntryExcused(k) ==
    cache[k].left > 0 /\ ~cache[k].late =>
        \A v \in Later(k, cache[k].at) : level[v] = k => Excused(v)

WritesKnown ==
    /\ \A w \in Writers : drop[w] <= count
    /\ \A v \in Writes : v > count => age[v] = 0

CacheInv ==
    /\ CacheTypeOK
    /\ WritesKnown
    /\ \A c \in Callers : ReaderKnows(call[c]) /\ ReaderFresh(call[c])
    /\ \A k \in Keys : EntryFresh(k) /\ EntryExcused(k)

\* The number 0 is of no write, so that nothing is known at the start.
LEMMA CacheInitial == CacheInit => CacheInv
  <1> SUFFICES ASSUME CacheInit PROVE CacheInv
    OBVIOUS
  <1> USE BoundsAssumption DEF CacheInit
  <1>1. CacheTypeOK
    BY DEF CacheTypeOK, Idle, Call, Entry, Keys, Levels, Writes, Bound
  <1>2. WritesKnown
    BY DEF WritesKnown
  <1>3. \A n \in Nat, k \in Keys : Later(k, n) = {}
    BY DEF Later, Writes
  <1>4. \A c \in Callers : ReaderKnows(call[c]) /\ ReaderFresh(call[c])
    <2> TAKE c \in Callers
    <2>1. call[c] = [pc |-> "idle", key |-> "policy", at |-> 0, row |-> 0, due |-> {},
                    waited |-> 0]
      BY DEF Idle
    <2> QED
      BY <2>1 DEF ReaderKnows, ReaderFresh
  <1>5. \A k \in Keys : EntryFresh(k) /\ EntryExcused(k)
    BY DEF EntryFresh, EntryExcused
  <1> QED
    BY <1>1, <1>2, <1>4, <1>5 DEF CacheInv

-----------------------------------------------------------------------------
(* The steps of the readers. *)

\* A step of one reader that leaves rows and cache alone keeps the invariant if the reader
\* does.
LEMMA ReaderStep ==
    ASSUME CacheInv, NEW c \in Callers, NEW next \in Call, Become(c, next),
           ReaderKnows(next), ReaderFresh(next), errors' \in 0..MaxErrors,
           UNCHANGED <<count, level, kind, age, cache, drop, missed>>
    PROVE  CacheInv'
  <1>1. CacheTypeOK'
    BY DEF CacheInv, CacheTypeOK, Become
  <1>2. WritesKnown'
    BY DEF CacheInv, WritesKnown
  <1>3. \A k, n : Later(k, n)' = Later(k, n)
    BY DEF Later
  <1>4. \A d \in Callers : (ReaderKnows(call[d]) /\ ReaderFresh(call[d]))'
    <2> TAKE d \in Callers
    <2>1. call'[d] = call[d] \/ call'[d] = next
      BY DEF Become, CacheInv, CacheTypeOK
    <2> QED
      BY <2>1, <1>3 DEF CacheInv, ReaderKnows, ReaderFresh
  <1>5. \A k \in Keys : (EntryFresh(k) /\ EntryExcused(k))'
    BY <1>3 DEF CacheInv, EntryFresh, EntryExcused, Excused
  <1> QED
    BY <1>1, <1>2, <1>4, <1>5 DEF CacheInv

\* A reader that is idle knows nothing and is late for nothing.
LEMMA IdleReader ==
    ASSUME CacheInv PROVE Idle \in Call /\ ReaderKnows(Idle) /\ ReaderFresh(Idle)
  BY BoundsAssumption
     DEF CacheInv, CacheTypeOK, Idle, Call, Keys, Levels, ReaderKnows, ReaderFresh

\* The reader goes on to pc, with what it has read.
At(r, pc, at, row) ==
    [pc |-> pc, key |-> r.key, at |-> at, row |-> row, due |-> r.due, waited |-> 0]

\* A call begins: the writes of age Bound are its due.
LEMMA AskStep == ASSUME CacheInv, NEW c \in Callers, NEW k \in Keys, Ask(c, k) PROVE CacheInv'
  <1> DEFINE due == {v \in Later(k, 0) : age[v] = Bound}
             next == [pc |-> "get", key |-> k, at |-> 0, row |-> 0, due |-> due, waited |-> 0]
  <1>1. due \subseteq Writes
    BY DEF Later
  <1>2. \A v \in due : v <= count /\ age[v] = Bound /\ level[v] \in Reads(k)
    BY DEF Later
  <1>5. Become(c, next) /\ errors' \in 0..MaxErrors
    BY DEF Ask, CacheInv, CacheTypeOK
  <1> HIDE DEF due
  <1>7. count \in Nat /\ 0 \in 0..MaxWrites /\ 0 \in 0..Patience
    BY BoundsAssumption DEF CacheInv, CacheTypeOK
  <1>3. next \in Call
    BY <1>1, <1>7 DEF Call
  <1>4. ReaderKnows(next) /\ ReaderFresh(next)
    BY <1>2, <1>7 DEF ReaderKnows, ReaderFresh
  <1> QED
    BY <1>3, <1>4, <1>5, ReaderStep DEF Ask

\* A hit: an entry that is still live lacks no write of the call's due.
LEMMA HitStep == ASSUME CacheInv, NEW c \in Callers, Hit(c) PROVE CacheInv'
  <1> DEFINE r == call[c]
             k == r.key
             next == At(r, "answer", cache[k].at, cache[k].row)
  <1>1. r \in Call /\ k \in Keys /\ cache[k] \in Entry /\ ReaderKnows(r)
    BY DEF CacheInv, CacheTypeOK, Call
  <1>3. next \in Call
    BY <1>1, BoundsAssumption DEF Call, Entry, At
  <1>4. \A v \in r.due : v <= cache[k].at
    <2> SUFFICES ASSUME NEW v \in r.due, ~(v <= cache[k].at) PROVE FALSE
      OBVIOUS
    <2>1. v \in Writes /\ v <= count /\ age[v] = Bound /\ level[v] \in Reads(k)
      BY <1>1 DEF ReaderKnows, Call
    <2>2. v \in Later(k, cache[k].at)
      BY <2>1, <1>1 DEF Later, Writes, Entry
    <2>3. age[v] + cache[k].left <= Bound /\ cache[k].left > 0
      BY <2>2, <1>1 DEF Hit, CacheInv, EntryFresh
    <2> QED
      BY <2>1, <2>3, <1>1, BoundsAssumption DEF Entry, Bound
  <1>5. ReaderKnows(next) /\ ReaderFresh(next)
    <2>1. cache[k].at <= count
      BY <1>1 DEF CacheInv, EntryFresh
    <2> QED
      BY <2>1, <1>1, <1>4 DEF ReaderKnows, ReaderFresh, At
  <1>6. Become(c, next) /\ errors' \in 0..MaxErrors
    BY DEF Hit, To, At, CacheInv, CacheTypeOK
  <1> QED
    BY <1>3, <1>5, <1>6, ReaderStep DEF Hit

\* On to the database.
LEMMA MissStep == ASSUME CacheInv, NEW c \in Callers, Miss(c) PROVE CacheInv'
  <1> DEFINE r == call[c]
             next == At(r, "read", r.at, 0)
  <1>1. r \in Call /\ ReaderKnows(r)
    BY DEF CacheInv, CacheTypeOK
  <1>2. next \in Call
    BY <1>1, BoundsAssumption DEF Call, At
  <1>3. ReaderKnows(next) /\ ReaderFresh(next)
    BY <1>1 DEF ReaderKnows, ReaderFresh, At
  <1>4. Become(c, next) /\ errors' \in 0..MaxErrors
    BY BoundsAssumption DEF Miss, To, At, Fail, CacheInv, CacheTypeOK
  <1> QED
    BY <1>2, <1>3, <1>4, ReaderStep DEF Miss

\* The database answers with every write so far.
LEMMA ReadStep == ASSUME CacheInv, NEW c \in Callers, Read(c) PROVE CacheInv'
  <1> DEFINE r == call[c]
             pc == IF r.key = "policy" /\ ~Exists(count) THEN "answer" ELSE "fill"
  <1>1. r \in Call /\ ReaderKnows(r) /\ count \in 0..MaxWrites /\ pc \in {"answer", "fill"}
    BY DEF CacheInv, CacheTypeOK
  <1>2. PICK row \in Shown(r.key, count) : Become(c, At(r, pc, count, row))
    BY DEF Read, To, At
  <1>3. errors' \in 0..MaxErrors
    BY DEF Read, CacheInv, CacheTypeOK
  <1>4. row \in 0..MaxWrites
    BY BoundsAssumption DEF Shown, TenantRows, Writes
  <1> DEFINE next == At(r, pc, count, row)
  <1> HIDE DEF pc
  <1>5. next \in Call /\ count \in Nat
    BY <1>1, <1>4, BoundsAssumption DEF Call, At
  <1>6. Later(r.key, count) = {}
    BY <1>5 DEF Later, Writes
  <1>7. ReaderKnows(next) /\ ReaderFresh(next)
    BY <1>1, <1>5, <1>6 DEF ReaderKnows, ReaderFresh, At
  <1> QED
    BY <1>2, <1>3, <1>5, <1>7, ReaderStep DEF Read

\* The error of the database ends the call.
LEMMA ReadFailsStep == ASSUME CacheInv, NEW c \in Callers, ReadFails(c) PROVE CacheInv'
  <1>1. errors' \in 0..MaxErrors
    BY BoundsAssumption DEF ReadFails, Fail, CacheInv, CacheTypeOK
  <1> QED
    BY <1>1, IdleReader, ReaderStep DEF ReadFails

\* The answer is used.
LEMMA AnswerStep == ASSUME CacheInv, NEW c \in Callers, Answer(c) PROVE CacheInv'
  <1>1. errors' \in 0..MaxErrors
    BY DEF Answer, CacheInv, CacheTypeOK
  <1> QED
    BY <1>1, IdleReader, ReaderStep DEF Answer

\* A reader that has read, cached or not, may answer.
LEMMA Filled ==
    ASSUME CacheInv, NEW c \in Callers, call[c].pc = "fill",
           NEW next, next = At(call[c], "answer", call[c].at, call[c].row)
    PROVE  next \in Call /\ ReaderKnows(next) /\ ReaderFresh(next)
  <1>1. call[c] \in Call /\ ReaderKnows(call[c])
    BY DEF CacheInv, CacheTypeOK
  <1> QED
    BY <1>1, BoundsAssumption DEF ReaderKnows, ReaderFresh, At, Call

\* What was read is answered though it is not cached.
LEMMA FillFailsStep == ASSUME CacheInv, NEW c \in Callers, FillFails(c) PROVE CacheInv'
  <1>1. errors' \in 0..MaxErrors
    BY BoundsAssumption DEF FillFails, Fail, CacheInv, CacheTypeOK
  <1> QED
    BY <1>1, Filled, ReaderStep DEF FillFails, To, At

\* The entry lives for Ttl; what it lacks is no older than the reader's way.
LEMMA FillStep == ASSUME CacheInv, NEW c \in Callers, Fill(c) PROVE CacheInv'
  <1> DEFINE r == call[c]
             key == r.key
             entry == [at |-> r.at, row |-> r.row, left |-> Ttl, late |-> Later(key, r.at) # {}]
             next == At(r, "answer", r.at, r.row)
  <1>1. r \in Call /\ ReaderKnows(r) /\ ReaderFresh(r)
    BY DEF CacheInv, CacheTypeOK
  <1>2. next \in Call /\ ReaderKnows(next) /\ ReaderFresh(next)
    BY Filled DEF Fill
  <1>3. entry \in Entry
    BY <1>1, BoundsAssumption DEF Entry, Call
  <1>4. cache' = [cache EXCEPT ![key] = entry] /\ Become(c, next)
    BY DEF Fill, To, At
  <1>5. CacheTypeOK'
    BY <1>2, <1>3, <1>4 DEF CacheInv, CacheTypeOK, Fill, Become
  <1>6. WritesKnown'
    BY DEF CacheInv, WritesKnown, Fill
  <1>7. \A k, n : Later(k, n)' = Later(k, n)
    BY DEF Later, Fill
  <1>8. \A d \in Callers : (ReaderKnows(call[d]) /\ ReaderFresh(call[d]))'
    <2> TAKE d \in Callers
    <2>1. call'[d] = call[d] \/ call'[d] = next
      BY <1>4 DEF Become, CacheInv, CacheTypeOK
    <2> QED
      BY <2>1, <1>2, <1>7 DEF CacheInv, ReaderKnows, ReaderFresh, Fill
  <1>9. ASSUME NEW k \in Keys PROVE (EntryFresh(k) /\ EntryExcused(k))'
    <2>1. CASE k = key
      <3>1. cache'[k] = entry
        BY <1>4, <2>1 DEF CacheInv, CacheTypeOK
      <3>2. \A v \in Later(k, r.at) : age[v] <= r.waited /\ r.waited <= Patience /\ age[v] \in Nat
        BY <1>1, <2>1, BoundsAssumption
           DEF ReaderFresh, Fill, Call, Later, CacheInv, CacheTypeOK, Bound
      <3>3. \A v \in Later(k, r.at) : age[v] + Ttl <= Bound
        BY <3>2, <1>1, BoundsAssumption DEF Bound, Call
      <3>4. r.at <= count
        BY <1>1 DEF ReaderKnows
      <3>5. entry.at = r.at /\ entry.left = Ttl /\ (~entry.late => Later(k, r.at) = {})
        BY <2>1
      <3>6. age' = age /\ count' = count
        BY DEF Fill
      <3> HIDE DEF entry
      <3>7. EntryFresh(k)'
        BY <3>1, <3>3, <3>4, <3>5, <1>7, <3>6 DEF EntryFresh
      <3>8. EntryExcused(k)'
        BY <3>1, <3>5, <1>7 DEF EntryExcused
      <3> QED
        BY <3>7, <3>8
    <2>2. CASE k # key
      <3>1. cache'[k] = cache[k]
        BY <1>4, <2>2 DEF CacheInv, CacheTypeOK
      <3> QED
        BY <3>1, <1>7 DEF CacheInv, EntryFresh, EntryExcused, Excused, Fill
    <2> QED
      BY <2>1, <2>2
  <1> QED
    BY <1>5, <1>6, <1>8, <1>9 DEF CacheInv

-----------------------------------------------------------------------------
(* The steps of the writers, and time. *)

\* A write is new to every reader and every entry; nothing is due yet that it replaces.
LEMMA Committed ==
    ASSUME CacheInv, NEW l \in Levels, NEW how \in {"set", "delete"}, Commit(l, how),
           age' = age, cache' = cache, call' = call,
           drop' \in [Writers -> 0..MaxWrites], \A w \in Writers : drop'[w] <= count + 1,
           missed' \in SUBSET Writes, errors' \in 0..MaxErrors,
           NEW CONSTANT n, n = count + 1, Excused(n)', \A v \in Writes : Excused(v) => Excused(v)'
    PROVE  CacheInv'
  <1>1. count \in 0..MaxWrites /\ count' = n /\ n \in Writes
    BY BoundsAssumption DEF CacheInv, CacheTypeOK, Commit, Writes
  <1>2. /\ level' \in [Writes -> Levels]
        /\ kind' \in [Writes -> {"set", "delete"}]
        /\ \A v \in Writes : v <= count => level'[v] = level[v]
    BY <1>1 DEF CacheInv, CacheTypeOK, Commit, Writes
  <1>3. age[n] = 0
    BY <1>1 DEF CacheInv, WritesKnown
  <1>4. ASSUME NEW k, NEW m, NEW v \in Later(k, m)' PROVE v = n \/ v \in Later(k, m)
    BY <1>1, <1>2 DEF Later, Writes
  <1>5. CacheTypeOK'
    BY <1>1, <1>2 DEF CacheInv, CacheTypeOK, Writes
  <1>6. WritesKnown'
    BY <1>1 DEF CacheInv, WritesKnown, Writes
  <1>7. \A c \in Callers : (ReaderKnows(call[c]) /\ ReaderFresh(call[c]))'
    <2> TAKE c \in Callers
    <2>1. call[c] \in Call /\ ReaderKnows(call[c]) /\ ReaderFresh(call[c]) /\ call'[c] = call[c]
      BY DEF CacheInv, CacheTypeOK
    <2>2. call[c].due \subseteq Writes /\ call[c].at \in Nat /\ call[c].waited \in Nat
      BY <2>1, BoundsAssumption DEF Call
    <2>3. ReaderKnows(call[c])'
      <3>1. /\ call[c].at <= n
            /\ \A v \in call[c].due : v <= n /\ level'[v] \in Reads(call[c].key)
        BY <2>1, <2>2, <1>1, <1>2 DEF ReaderKnows, Writes
      <3> QED
        BY <2>1, <3>1, <1>1 DEF ReaderKnows
    <2>4. ReaderFresh(call[c])'
      BY <2>1, <2>2, <1>3, <1>4 DEF ReaderFresh
    <2> QED
      BY <2>3, <2>4
  <1>8. \A k \in Keys : (EntryFresh(k) /\ EntryExcused(k))'
    <2> TAKE k \in Keys
    <2>1. /\ EntryFresh(k) /\ EntryExcused(k)
          /\ cache' = cache /\ cache[k].left \in 0..Ttl /\ cache[k].at \in Nat
      BY BoundsAssumption DEF CacheInv, CacheTypeOK, Entry
    <2>2. EntryFresh(k)'
      BY <2>1, <1>1, <1>3, <1>4, BoundsAssumption DEF EntryFresh, Bound
    <2>3. \A v \in Later(k, cache[k].at) : v \in Writes /\ v <= count
      BY DEF Later
    <2>4. EntryExcused(k)'
      <3>1. SUFFICES ASSUME cache[k].left > 0, ~cache[k].late,
                            NEW v \in Later(k, cache[k].at)', level'[v] = k
                     PROVE  Excused(v)'
        BY <2>1 DEF EntryExcused
      <3>2. CASE v = n
        BY <3>2
      <3>3. CASE v # n
        <4>1. v \in Later(k, cache[k].at)
          BY <3>3, <1>4, <2>1
        <4>2. Excused(v) /\ v \in Writes
          BY <4>1, <3>1, <2>1, <2>3, <1>2 DEF EntryExcused
        <4> QED
          BY <4>2
      <3> QED
        BY <3>2, <3>3
    <2> QED
      BY <2>2, <2>4
  <1> QED
    BY <1>5, <1>6, <1>7, <1>8 DEF CacheInv

\* The row is changed and its key not dropped yet, or never.
LEMMA WriteStep ==
    ASSUME CacheInv, NEW w \in Writers, NEW l \in Levels, NEW how \in {"set", "delete"},
           Write(w, l, how)
    PROVE  CacheInv'
  <1>1. /\ count + 1 \in Writes /\ count + 1 \in 0..MaxWrites /\ Commit(l, how)
        /\ errors' \in 0..MaxErrors
    BY BoundsAssumption DEF CacheInv, CacheTypeOK, Write, Commit, Writes
  <1>2. drop \in [Writers -> 0..MaxWrites] /\ missed \in SUBSET Writes
    BY DEF CacheInv, CacheTypeOK
  <1>3. \A x \in Writers : drop[x] <= count /\ drop[x] \in Nat /\ count \in Nat
    BY <1>2, BoundsAssumption DEF CacheInv, CacheTypeOK, WritesKnown
  <1> PICK n \in Writes : n = count + 1
    BY <1>1
  <1>4. CASE missed' = missed \cup {n} /\ drop' = drop
    <2>1. Excused(n)' /\ \A v \in Writes : Excused(v) => Excused(v)'
      BY <1>4 DEF Excused
    <2>2. drop' \in [Writers -> 0..MaxWrites] /\ \A x \in Writers : drop'[x] <= count + 1
      BY <1>2, <1>3, <1>4
    <2>3. missed' \in SUBSET Writes
      BY <1>2, <1>4
    <2> QED
      BY <1>1, <2>1, <2>2, <2>3, Committed DEF Write
  <1>5. CASE drop' = [drop EXCEPT ![w] = n] /\ missed' = missed
    <2>1. /\ drop'[w] = n
          /\ \A x \in Writers \ {w} : drop'[x] = drop[x]
      BY <1>5, <1>2
    <2>2. Excused(n)'
      BY <2>1 DEF Excused
    <2>3. \A v \in Writes : Excused(v) => Excused(v)'
      BY <2>1, <1>5 DEF Excused, Write, Writes
    <2>4. drop' \in [Writers -> 0..MaxWrites] /\ \A x \in Writers : drop'[x] <= count + 1
      BY <1>1, <1>2, <1>3, <1>5
    <2> QED
      BY <1>1, <1>2, <1>5, <2>2, <2>3, <2>4, Committed DEF Write
  <1> QED
    BY <1>4, <1>5 DEF Write

\* The writer does not know of its own write.
LEMMA WriteUnansweredStep ==
    ASSUME CacheInv, NEW w \in Writers, NEW l \in Levels, NEW how \in {"set", "delete"},
           WriteUnanswered(w, l, how)
    PROVE  CacheInv'
  <1>1. count + 1 \in Writes /\ Commit(l, how) /\ errors' \in 0..MaxErrors
    BY BoundsAssumption DEF CacheInv, CacheTypeOK, WriteUnanswered, Fail, Commit, Writes
  <1>2. /\ drop \in [Writers -> 0..MaxWrites] /\ missed' \in SUBSET Writes
        /\ \A x \in Writers : drop[x] <= count + 1
    BY <1>1, BoundsAssumption DEF CacheInv, CacheTypeOK, WritesKnown, WriteUnanswered
  <1> PICK n \in Writes : n = count + 1
    BY <1>1
  <1>3. Excused(n)' /\ \A v \in Writes : Excused(v) => Excused(v)'
    BY DEF Excused, WriteUnanswered
  <1> QED
    BY <1>1, <1>2, <1>3, Committed DEF WriteUnanswered

\* With the key of its row gone, a write needs no excuse any more.
LEMMA DropStep == ASSUME CacheInv, NEW w \in Writers, Drop(w) PROVE CacheInv'
  <1> DEFINE v == drop[w]
  <1>1. v \in Writes /\ level[v] \in Keys
    BY BoundsAssumption DEF Drop, CacheInv, CacheTypeOK, Writes, Keys
  <1>2. /\ cache \in [Keys -> Entry]
        /\ cache'[level[v]] = [cache[level[v]] EXCEPT !.left = 0]
        /\ \A k \in Keys \ {level[v]} : cache'[k] = cache[k]
    BY <1>1 DEF Drop, KeyOf, CacheInv, CacheTypeOK
  <1>3. [cache[level[v]] EXCEPT !.left = 0] \in Entry
    BY <1>1, <1>2, BoundsAssumption DEF Entry
  <1>4. CacheTypeOK'
    BY <1>1, <1>3, BoundsAssumption DEF Drop, KeyOf, CacheInv, CacheTypeOK
  <1>5. WritesKnown'
    BY BoundsAssumption DEF CacheInv, CacheTypeOK, WritesKnown, Drop
  <1>6. \A k, n : Later(k, n)' = Later(k, n)
    BY DEF Later, Drop
  <1>7. \A c \in Callers : (ReaderKnows(call[c]) /\ ReaderFresh(call[c]))'
    BY <1>6 DEF CacheInv, ReaderKnows, ReaderFresh, Drop
  <1>8. ASSUME NEW k \in Keys PROVE (EntryFresh(k) /\ EntryExcused(k))'
    <2>1. CASE k = level[v]
      <3>1. cache'[k].left = 0 /\ cache'[k].at = cache[k].at
        BY <2>1, <1>1, <1>2 DEF Entry
      <3> QED
        BY <3>1 DEF EntryFresh, EntryExcused, CacheInv, Drop
    <2>2. CASE k # level[v]
      <3>1. cache'[k] = cache[k]
        BY <1>2, <2>2
      <3>2. \A u : u # v /\ Excused(u) => Excused(u)'
        BY DEF Excused, Drop, CacheInv, CacheTypeOK
      <3>3. EntryExcused(k)'
        BY <3>1, <3>2, <2>2, <1>6 DEF EntryExcused, CacheInv, Drop
      <3> QED
        BY <3>1, <3>3, <1>6 DEF EntryFresh, CacheInv, Drop
    <2> QED
      BY <2>1, <2>2
  <1> QED
    BY <1>4, <1>5, <1>7, <1>8 DEF CacheInv

\* The key stays, and the write is one of those missed.
LEMMA DropFailsStep == ASSUME CacheInv, NEW w \in Writers, DropFails(w) PROVE CacheInv'
  <1>1. drop \in [Writers -> 0..MaxWrites] /\ drop[w] \in Writes
    BY BoundsAssumption DEF DropFails, CacheInv, CacheTypeOK, Writes
  <1>2. CacheTypeOK'
    BY <1>1, BoundsAssumption DEF DropFails, Fail, CacheInv, CacheTypeOK
  <1>3. WritesKnown'
    BY BoundsAssumption DEF CacheInv, CacheTypeOK, WritesKnown, DropFails
  <1>4. \A k, n : Later(k, n)' = Later(k, n)
    BY DEF Later, DropFails
  <1>5. \A c \in Callers : (ReaderKnows(call[c]) /\ ReaderFresh(call[c]))'
    BY <1>4 DEF CacheInv, ReaderKnows, ReaderFresh, DropFails
  <1>6. \A u : Excused(u) => Excused(u)'
    BY <1>1 DEF Excused, DropFails
  <1>7. \A k \in Keys : (EntryFresh(k) /\ EntryExcused(k))'
    BY <1>4, <1>6 DEF CacheInv, EntryFresh, EntryExcused, DropFails
  <1> QED
    BY <1>2, <1>3, <1>5, <1>7 DEF CacheInv

\* Writes, entries and readers grow older together.
LEMMA TickStep == ASSUME CacheInv, Tick PROVE CacheInv'
  <1> USE BoundsAssumption
  <1>1. /\ age' \in [Writes -> 0..Bound]
        /\ \A v \in Writes : age'[v] <= age[v] + 1 /\ (age[v] = Bound => age'[v] = Bound)
        /\ \A v \in Writes : v > count => age'[v] = age[v]
    BY DEF Tick, CacheInv, CacheTypeOK, Bound, Writes
  <1>2. ASSUME NEW k \in Keys
        PROVE  /\ cache'[k] \in Entry
               /\ cache'[k].at = cache[k].at /\ cache'[k].late = cache[k].late
               /\ cache'[k].left > 0 => cache[k].left > 0 /\ cache'[k].left = cache[k].left - 1
    <2> DEFINE e == cache[k]
    <2>1. e \in Entry
      BY DEF CacheInv, CacheTypeOK
    <2>2. cache'[k] = [e EXCEPT !.left = IF e.left = 0 THEN 0 ELSE e.left - 1]
      BY DEF Tick
    <2> HIDE DEF e
    <2>3. /\ cache'[k].left = IF e.left = 0 THEN 0 ELSE e.left - 1
          /\ cache'[k].at = e.at /\ cache'[k].late = e.late
      BY <2>1, <2>2 DEF Entry
    <2>4. cache'[k] \in Entry
      BY <2>1, <2>2 DEF Entry
    <2> QED
      BY <2>1, <2>3, <2>4 DEF Entry, e
  <1>3. ASSUME NEW c \in Callers
        PROVE  /\ call'[c] \in Call
               /\ call'[c].pc = call[c].pc /\ call'[c].key = call[c].key
               /\ call'[c].at = call[c].at /\ call'[c].due = call[c].due
               /\ call'[c].waited = IF call[c].pc = "fill" THEN call[c].waited + 1
                                                          ELSE call[c].waited
    <2>1. call[c] \in Call
      BY DEF CacheInv, CacheTypeOK
    <2> QED
      BY <2>1 DEF Tick, Call
  <1>4. CacheTypeOK'
    BY <1>1, <1>2, <1>3 DEF Tick, CacheInv, CacheTypeOK
  <1>5. WritesKnown'
    BY <1>1 DEF Tick, CacheInv, WritesKnown
  <1>6. \A k, n : Later(k, n)' = Later(k, n) /\ Later(k, n) \subseteq Writes
    BY DEF Later, Tick
  <1>7. ASSUME NEW c \in Callers PROVE (ReaderKnows(call[c]) /\ ReaderFresh(call[c]))'
    <2>1. /\ call[c] \in Call /\ ReaderKnows(call[c]) /\ ReaderFresh(call[c])
          /\ call[c].due \subseteq Writes
          /\ age \in [Writes -> 0..Bound] /\ call[c].waited \in Nat
      BY DEF CacheInv, CacheTypeOK, Call
    <2>2. ReaderKnows(call[c])'
      BY <2>1, <1>1, <1>3 DEF ReaderKnows, Tick
    <2>3. ReaderFresh(call[c])'
      BY <2>1, <1>1, <1>3, <1>6 DEF ReaderFresh, Bound
    <2> QED
      BY <2>2, <2>3
  <1>8. ASSUME NEW k \in Keys PROVE (EntryFresh(k) /\ EntryExcused(k))'
    <2>1. EntryFresh(k) /\ EntryExcused(k) /\ cache[k] \in Entry /\ age \in [Writes -> 0..Bound]
      BY DEF CacheInv, CacheTypeOK
    <2>2. EntryFresh(k)'
      BY <2>1, <1>1, <1>2, <1>6 DEF EntryFresh, Entry, Bound, Tick
    <2>3. EntryExcused(k)'
      BY <2>1, <1>2, <1>6 DEF EntryExcused, Excused, Tick
    <2> QED
      BY <2>2, <2>3
  <1> QED
    BY <1>4, <1>5, <1>7, <1>8 DEF CacheInv

\* Every step of the cache keeps the invariant.
LEMMA CacheStep == CacheInv /\ [CacheNext]_cacheVars => CacheInv'
  <1> SUFFICES ASSUME CacheInv, [CacheNext]_cacheVars PROVE CacheInv'
    OBVIOUS
  <1>1. ASSUME NEW c \in Callers, NEW k \in Keys, Ask(c, k) PROVE CacheInv'
    BY <1>1, AskStep
  <1>2. ASSUME NEW c \in Callers, Reading(c) PROVE CacheInv'
    BY <1>2, HitStep, MissStep, ReadStep, ReadFailsStep, FillStep, FillFailsStep DEF Reading
  <1>3. ASSUME NEW c \in Callers, Answer(c) PROVE CacheInv'
    BY <1>3, AnswerStep
  <1>4. ASSUME NEW w \in Writers, Writing(w) PROVE CacheInv'
    BY <1>4, WriteStep, WriteUnansweredStep, DropStep, DropFailsStep DEF Writing
  <1>5. CASE UNCHANGED cacheVars
    BY <1>5
       DEF cacheVars, CacheInv, CacheTypeOK, WritesKnown, ReaderKnows, ReaderFresh, EntryFresh,
           EntryExcused, Excused, Later
  <1> QED
    BY <1>1, <1>2, <1>3, <1>4, <1>5, TickStep DEF CacheNext

-----------------------------------------------------------------------------
(* The tenant's rows. *)

\* A reader that has read holds a row of the database as it was then.
ReaderRow(r) == r.pc \in {"fill", "answer"} => r.row \in Shown(r.key, r.at)

\* So does a live entry.
EntryRow(k) == cache[k].left > 0 => cache[k].row \in Shown(k, cache[k].at)

RowInv ==
    /\ \A c \in Callers : ReaderRow(call[c])
    /\ \A k \in Keys : EntryRow(k)

\* Which rows were there after a write does not change with later writes.
LEMMA RowsStay ==
    ASSUME CacheInv, [CacheNext]_cacheVars, NEW k, NEW n \in 0..count
    PROVE  Shown(k, n)' = Shown(k, n)
  <1>1. count \in Nat
    BY BoundsAssumption DEF CacheInv, CacheTypeOK
  <1>2. \A v \in Writes : v <= count => level'[v] = level[v] /\ kind'[v] = kind[v]
    <2>1. CASE level' = level /\ kind' = kind
      BY <2>1
    <2>2. ASSUME NEW l, NEW how, Commit(l, how)
          PROVE  \A v \in Writes : v <= count => level'[v] = level[v] /\ kind'[v] = kind[v]
      BY <1>1, <2>2 DEF Commit, CacheInv, CacheTypeOK, Writes
    <2> QED
      BY <2>1, <2>2
         DEF CacheNext, cacheVars, Reading, Writing, Ask, Hit, Miss, Read, ReadFails, Fill,
             FillFails, Answer, Write, WriteUnanswered, Drop, DropFails, Tick
  <1>3. TenantRows(n)' = TenantRows(n)
    BY <1>1, <1>2 DEF TenantRows, Writes
  <1> QED
    BY <1>3 DEF Shown

\* What a reader that has read holds after a step: what it held, what the entry held that it
\* hit, or what the database has just answered.
LEMMA CallSteps ==
    ASSUME CacheInv, [CacheNext]_cacheVars, NEW d \in Callers, call'[d].pc \in {"fill", "answer"}
    PROVE  \E n \in 0..count :
             /\ call'[d].at = n
             /\ call'[d].row \in Shown(call'[d].key, n)
                  \/ \/ /\ call[d].pc \in {"fill", "answer"} /\ call[d].at = n
                        /\ call'[d].key = call[d].key /\ call'[d].row = call[d].row
                     \/ /\ cache[call'[d].key].left > 0 /\ cache[call'[d].key].at = n
                        /\ call'[d].row = cache[call'[d].key].row
  <1>0. /\ call \in [Callers -> Call] /\ cache \in [Keys -> Entry]
        /\ call[d].at \in 0..count /\ cache[call[d].key].at \in 0..count /\ count \in 0..count
    BY BoundsAssumption DEF CacheInv, CacheTypeOK, ReaderKnows, EntryFresh, Call, Entry
  <1>1. ASSUME call'[d] = call[d] PROVE call[d].pc \in {"fill", "answer"}
    BY <1>1
  <1>2. ASSUME NEW c \in Callers, Hit(c), c = d
        PROVE  /\ call'[d].key = call[d].key /\ cache[call[d].key].left > 0
               /\ call'[d].at = cache[call[d].key].at /\ call'[d].row = cache[call[d].key].row
    BY <1>0, <1>2 DEF Hit, To, Become
  <1>3. ASSUME NEW c \in Callers, Read(c), c = d
        PROVE  call'[d].at = count /\ call'[d].row \in Shown(call'[d].key, count)
    BY <1>0, <1>3 DEF Read, To, Become
  <1>4. ASSUME NEW c \in Callers, Fill(c) \/ FillFails(c), c = d
        PROVE  /\ call[d].pc = "fill" /\ call'[d].key = call[d].key
               /\ call'[d].at = call[d].at /\ call'[d].row = call[d].row
    BY <1>0, <1>4 DEF Fill, FillFails, To, Become
  <1>5. ASSUME NEW c \in Callers, NEW k \in Keys, Ask(c, k) PROVE c # d
    BY <1>0, <1>5 DEF Ask, Become
  <1>6. ASSUME NEW c \in Callers, Miss(c) \/ ReadFails(c) \/ Answer(c) PROVE c # d
    BY <1>0, <1>6 DEF Miss, ReadFails, Answer, To, Become, Idle
  <1>7. ASSUME NEW c \in Callers, c # d,
               Reading(c) \/ Answer(c) \/ \E k \in Keys : Ask(c, k)
        PROVE  call'[d] = call[d]
    BY <1>0, <1>7
       DEF Reading, Hit, Miss, Read, ReadFails, Fill, FillFails, Answer, Ask, To, Become
  <1>8. ASSUME NEW w \in Writers, Writing(w) PROVE call'[d] = call[d]
    BY <1>8 DEF Writing, Write, WriteUnanswered, Drop, DropFails
  <1>9. CASE Tick
    <2>1. /\ call'[d].pc = call[d].pc /\ call'[d].key = call[d].key
          /\ call'[d].at = call[d].at /\ call'[d].row = call[d].row
      BY <1>0, <1>9 DEF Tick, Call
    <2> QED
      BY <1>0, <2>1
  <1>10. CASE call'[d] = call[d]
    BY <1>0, <1>1, <1>10
  <1>11. ASSUME NEW c \in Callers, Reading(c) PROVE call'[d] = call[d] \/ c = d
    BY <1>7, <1>11
  <1>12. ASSUME Reading(d)
         PROVE  Hit(d) \/ Read(d) \/ Fill(d) \/ FillFails(d)
    BY <1>6, <1>12 DEF Reading
  <1>13. CASE Hit(d)
    BY <1>0, <1>2, <1>13
  <1>14. CASE Read(d)
    BY <1>0, <1>3, <1>14
  <1>15. CASE Fill(d) \/ FillFails(d)
    BY <1>0, <1>4, <1>15
  <1>16. CASE UNCHANGED cacheVars
    BY <1>10, <1>16 DEF cacheVars
  <1> QED
    BY <1>5, <1>6, <1>7, <1>8, <1>9, <1>10, <1>11, <1>12, <1>13, <1>14, <1>15, <1>16 DEF CacheNext

\* A live entry is as it was before the step, or a reader has filled it.
LEMMA EntrySteps ==
    ASSUME CacheInv, [CacheNext]_cacheVars, NEW k \in Keys, cache'[k].left > 0
    PROVE  \/ /\ cache[k].left > 0
              /\ cache'[k].at = cache[k].at /\ cache'[k].row = cache[k].row
           \/ \E c \in Callers : /\ call[c].pc = "fill" /\ call[c].key = k
                                 /\ cache'[k].at = call[c].at /\ cache'[k].row = call[c].row
  <1>0. cache \in [Keys -> Entry] /\ \A c \in Callers : call[c].key \in Keys
    BY DEF CacheInv, CacheTypeOK, Call
  <1>1. CASE cache' = cache
    BY <1>1
  <1>2. ASSUME NEW c \in Callers, Fill(c)
        PROVE  \/ cache'[k] = cache[k]
               \/ /\ call[c].pc = "fill" /\ call[c].key = k
                  /\ cache'[k].at = call[c].at /\ cache'[k].row = call[c].row
    BY <1>0, <1>2 DEF Fill
  <1>3. ASSUME NEW w \in Writers, Drop(w) PROVE cache'[k] = cache[k]
    BY <1>0, <1>3 DEF Drop, Entry
  <1>4. CASE Tick
    <2>1. cache'[k] = [cache[k] EXCEPT !.left = IF @ = 0 THEN 0 ELSE @ - 1]
      BY <1>4 DEF Tick
    <2>2. cache[k] \in Entry /\ cache[k].left \in Nat
      BY <1>0, BoundsAssumption DEF Entry
    <2> QED
      BY <2>1, <2>2 DEF Entry
  <1> QED
    BY <1>1, <1>2, <1>3, <1>4
       DEF CacheNext, cacheVars, Reading, Writing, Ask, Hit, Miss, Read, ReadFails, FillFails,
           Answer, Write, WriteUnanswered, DropFails

\* Readers and entries hold rows that were there when the database was read.
LEMMA RowStep == CacheInv /\ RowInv /\ [CacheNext]_cacheVars => RowInv'
  <1> SUFFICES ASSUME CacheInv, RowInv, [CacheNext]_cacheVars PROVE RowInv'
    OBVIOUS
  <1>1. ASSUME NEW d \in Callers, call'[d].pc \in {"fill", "answer"}
        PROVE  (call[d].row \in Shown(call[d].key, call[d].at))'
    <2>1. PICK n \in 0..count :
             /\ call'[d].at = n
             /\ call'[d].row \in Shown(call'[d].key, n)
                  \/ \/ /\ call[d].pc \in {"fill", "answer"} /\ call[d].at = n
                        /\ call'[d].key = call[d].key /\ call'[d].row = call[d].row
                     \/ /\ cache[call'[d].key].left > 0 /\ cache[call'[d].key].at = n
                        /\ call'[d].row = cache[call'[d].key].row
      BY <1>1, CallSteps
    <2>2. PICK k \in Keys : k = call'[d].key
      <3>1. call' \in [Callers -> Call]
        BY CacheStep DEF CacheInv, CacheTypeOK
      <3> QED
        BY <3>1 DEF Call
    <2>3. call'[d].row \in Shown(k, n)
      BY <2>1, <2>2 DEF RowInv, ReaderRow, EntryRow
    <2>4. Shown(k, n)' = Shown(k, n)
      BY RowsStay
    <2> QED
      BY <2>1, <2>2, <2>3, <2>4 DEF Shown, TenantRows
  <1>2. ASSUME NEW k \in Keys, cache'[k].left > 0
        PROVE  (cache[k].row \in Shown(k, cache[k].at))'
    <2>1. PICK n \in 0..count : cache'[k].at = n /\ cache'[k].row \in Shown(k, n)
      <3>1. cache[k].at \in 0..count /\ \A c \in Callers : call[c].at \in 0..count
        BY BoundsAssumption DEF CacheInv, CacheTypeOK, ReaderKnows, EntryFresh, Call, Entry
      <3> QED
        BY <1>2, <3>1, EntrySteps DEF RowInv, ReaderRow, EntryRow
    <2>2. Shown(k, n)' = Shown(k, n)
      BY RowsStay
    <2> QED
      BY <2>1, <2>2 DEF Shown, TenantRows
  <1> QED
    BY <1>1, <1>2 DEF RowInv, ReaderRow, EntryRow

\* The invariants say what the properties say.
LEMMA CacheInvSuffices == CacheInv /\ RowInv => SettingsTakeHold /\ StaleOnlyExcused
  <1> SUFFICES ASSUME CacheInv, RowInv PROVE SettingsTakeHold /\ StaleOnlyExcused
    OBVIOUS
  <1>1. StaleOnlyExcused
    BY DEF CacheInv, EntryExcused, Excused, StaleOnlyExcused
  <1>2. ASSUME NEW c \in Callers, call[c].pc = "answer", NEW v \in call[c].due
        PROVE  /\ level[v] # "tenant" => v <= call[c].at
               /\ level[v] = "tenant" /\ kind[v] = "delete" => call[c].row = 0 \/ v < call[c].row
               /\ level[v] = "tenant" /\ kind[v] = "set" =>
                    \/ call[c].row # 0
                    \/ \E u \in Writes : /\ v < u /\ u <= call[c].at
                                         /\ level[u] = "tenant" /\ kind[u] = "delete"
    <2>1. v \in Writes /\ v <= call[c].at /\ level[v] \in Reads(call[c].key)
      BY <1>2 DEF CacheInv, CacheTypeOK, ReaderKnows, Call
    <2>2. call[c].row \in Shown(call[c].key, call[c].at)
      BY <1>2 DEF RowInv, ReaderRow
    <2>3. \A u \in Writes : u \in Nat /\ kind[u] \in {"set", "delete"}
      BY DEF CacheInv, CacheTypeOK, Writes
    <2>4. ASSUME level[v] = "tenant", kind[v] = "delete", call[c].row # 0 PROVE v < call[c].row
      <3>1. call[c].row \in TenantRows(call[c].at)
        BY <2>2, <2>4 DEF Shown
      <3> QED
        BY <2>1, <2>3, <2>4, <3>1 DEF TenantRows
    <2>5. ASSUME level[v] = "tenant", kind[v] = "set", call[c].row = 0
          PROVE  \E u \in Writes : /\ v < u /\ u <= call[c].at
                                   /\ level[u] = "tenant" /\ kind[u] = "delete"
      <3>1. call[c].key # "policy"
        BY <2>1, <2>5 DEF Reads
      <3>2. 0 \notin TenantRows(call[c].at)
        BY DEF TenantRows, Writes
      <3>3. TenantRows(call[c].at) = {}
        BY <2>2, <2>5, <3>1, <3>2 DEF Shown
      <3> QED
        BY <2>1, <2>3, <2>5, <3>3 DEF TenantRows
    <2> QED
      BY <2>1, <2>4, <2>5
  <1> QED
    BY <1>1, <1>2 DEF SettingsTakeHold

\* Every step of the router is one of the cache or leaves it alone.
LEMMA RouterUsesCache == [Next]_vars => [CacheNext]_cacheVars
  <1> SUFFICES ASSUME Next PROVE [CacheNext]_cacheVars
    BY DEF vars
  <1>1. ASSUME NEW c \in Callers, NEW k \in Keys, Begin(c, k) PROVE CacheNext
    BY <1>1 DEF Begin, CacheNext
  <1>2. ASSUME NEW c \in Callers, Step(c) PROVE [CacheNext]_cacheVars
    BY <1>2 DEF Step, Route, Return, CacheNext
  <1>3. ASSUME NEW w \in Writers, NEW p \in Policies, SetPolicy(w, p) PROVE CacheNext
    <2>1. Writing(w)
      BY <1>3 DEF SetPolicy, Writing, Levels
    <2> QED
      BY <2>1 DEF CacheNext
  <1>4. ASSUME NEW w \in Writers, OtherWrite(w) PROVE CacheNext
    BY <1>4 DEF OtherWrite, Writing, CacheNext
  <1>5. ASSUME NEW w \in Writers, Dropping(w) PROVE CacheNext
    BY <1>5 DEF Dropping, Writing, CacheNext
  <1>6. CASE Pass
    BY <1>6 DEF Pass, CacheNext
  <1> QED
    BY <1>1, <1>2, <1>3, <1>4, <1>5, <1>6 DEF Next

\* In every behaviour of the router the invariants of the cache hold.
LEMMA CacheInvAlways == Spec => [](CacheInv /\ RowInv)
  <1>1. Init => CacheInv /\ RowInv
    <2>1. CacheInit => RowInv
      BY DEF CacheInit, RowInv, ReaderRow, EntryRow, Idle
    <2> QED
      BY <2>1, CacheInitial DEF Init
  <1>2. CacheInv /\ RowInv /\ [Next]_vars => CacheInv' /\ RowInv'
    BY CacheStep, RowStep, RouterUsesCache
  <1> QED
    BY <1>1, <1>2, PTL DEF Spec

\* SettingsTakeHold, for any number of callers and writers: a call that starts when a write
\* is Bound old is answered with what is there after it, though its key may not have been
\* dropped; of several rows of the tenant with one that was not deleted.
THEOREM SettingsTakeHoldAlways == Spec => []SettingsTakeHold
  BY CacheInvAlways, CacheInvSuffices, PTL

\* StaleOnlyExcused, for any number of callers and writers: a live entry lacks a write to
\* its own row only for a reason.
THEOREM StalenessIsExcused == Spec => []StaleOnlyExcused
  BY CacheInvAlways, CacheInvSuffices, PTL

-----------------------------------------------------------------------------
(* The router. *)

\* The last write to the policy's row, if there is one, is a write.
LEMMA InForceIsPolicy ==
    ASSUME TypeOK, NEW n PROVE InForce(n) \in Policy
  <1>1. NoPolicy \in Policy
    BY RoutingAssumption DEF NoPolicy, Policy, EgressModes, Unset
  <1>2. CASE Exists(n)
    <2>1. PICK u : u \in LastWrite(n)
      BY <1>2 DEF Exists
    <2>2. (CHOOSE v \in LastWrite(n) : TRUE) \in LastWrite(n)
      BY <2>1
    <2>3. LastWrite(n) \subseteq Writes
      BY DEF LastWrite
    <2> QED
      BY <1>2, <2>2, <2>3 DEF InForce, TypeOK
  <1> QED
    BY <1>1, <1>2 DEF InForce

\* A candidate yields an egress mode.
LEMMA ModeIsEgressMode ==
    ASSUME NEW p \in Policy, NEW o \in Option PROVE Mode(p, o) \in EgressModes
  BY RoutingAssumption DEF Mode, Apply, Policy, Option

\* The mode by the code is the mode by its rule.
LEMMA ModeByRule ==
    ASSUME NEW p \in Policy, NEW o \in Option
    PROVE  \E i \in Counts(p, o) : /\ Mode(p, o) = Given(p, o)[i].mode
                                  /\ \A j \in Counts(p, o) : j <= i
  <1> DEFINE g1 == [mode |-> BaseMode, ok |-> TRUE]
             g2 == [mode |-> p.mode, ok |-> p.mode # "off" \/ p.off]
             g3 == [mode |-> p.userMode,
                    ok |-> o.user /\ (p.userMode # "off" \/ AllowsOff(p, o))]
             g4 == [mode |-> o.override, ok |-> o.override # "off" \/ AllowsOff(p, o)]
             m2 == Apply(BaseMode, p.mode, p.off)
             m3 == Apply(m2, IF o.user THEN p.userMode ELSE Unset, AllowsOff(p, o))
  <1>1. /\ Given(p, o)[1] = g1 /\ Given(p, o)[2] = g2
        /\ Given(p, o)[3] = g3 /\ Given(p, o)[4] = g4
    BY DEF Given
  <1>2. BaseMode # Unset
    BY RoutingAssumption DEF EgressModes, Unset
  <1>3. /\ 1 \in Counts(p, o)
        /\ 2 \in Counts(p, o) <=> p.mode # Unset /\ (p.mode # "off" \/ p.off)
        /\ 3 \in Counts(p, o) <=>
             p.userMode # Unset /\ o.user /\ (p.userMode # "off" \/ AllowsOff(p, o))
        /\ 4 \in Counts(p, o) <=>
             o.override # Unset /\ (o.override # "off" \/ AllowsOff(p, o))
    <2>1. g1.mode # Unset /\ g1.ok
      BY <1>2
    <2>2. \A i : i \in Counts(p, o) <=>
                  i \in 1..4 /\ Given(p, o)[i].mode # Unset /\ Given(p, o)[i].ok
      BY DEF Counts
    <2>3. 1 \in 1..4 /\ 2 \in 1..4 /\ 3 \in 1..4 /\ 4 \in 1..4
      OBVIOUS
    <2>4. /\ g2.mode = p.mode /\ (g2.ok <=> p.mode # "off" \/ p.off)
          /\ g3.mode = p.userMode
          /\ g3.ok <=> o.user /\ (p.userMode # "off" \/ AllowsOff(p, o))
          /\ g4.mode = o.override /\ (g4.ok <=> o.override # "off" \/ AllowsOff(p, o))
      OBVIOUS
    <2> HIDE DEF g1, g2, g3, g4
    <2> QED
      BY <1>1, <2>1, <2>2, <2>3, <2>4
  <1>4. Counts(p, o) \subseteq 1..4
    BY DEF Counts
  <1>5. Mode(p, o) = Apply(m3, o.override, AllowsOff(p, o))
    BY DEF Mode
  <1>6. CASE 4 \in Counts(p, o)
    <2>1. Mode(p, o) = Given(p, o)[4].mode
      BY <1>1, <1>3, <1>5, <1>6 DEF Apply
    <2> QED
      BY <1>4, <1>6, <2>1
  <1>7. CASE 4 \notin Counts(p, o) /\ 3 \in Counts(p, o)
    <2>1. Mode(p, o) = Given(p, o)[3].mode
      BY <1>1, <1>3, <1>5, <1>7 DEF Apply
    <2> QED
      BY <1>4, <1>7, <2>1
  <1>8. CASE 4 \notin Counts(p, o) /\ 3 \notin Counts(p, o) /\ 2 \in Counts(p, o)
    <2>1. Mode(p, o) = Given(p, o)[2].mode
      BY <1>1, <1>3, <1>5, <1>8 DEF Apply
    <2> QED
      BY <1>4, <1>8, <2>1
  <1>9. CASE 4 \notin Counts(p, o) /\ 3 \notin Counts(p, o) /\ 2 \notin Counts(p, o)
    <2>1. Mode(p, o) = Given(p, o)[1].mode
      BY <1>1, <1>3, <1>5, <1>9 DEF Apply
    <2> QED
      BY <1>3, <1>4, <1>9, <2>1
  <1> QED
    BY <1>6, <1>7, <1>8, <1>9

\* The provider by the code is the provider by its rule.
LEMMA RoutedCallObeys ==
    ASSUME TypeOK, NEW p \in Policy, NEW o \in Option
    PROVE  Obeys(p, [to |-> Provider(p, o), mode |-> Mode(p, o), options |-> o])
  <1> DEFINE e == Entries(p, o)
             named == e \o <<p.default>>
             to == Provider(p, o)
  <1>1. e \in Seq(STRING) /\ p.default \in STRING
    <2>1. p.tasks \in Seq(STRING) /\ p.default \in STRING
      BY DEF Policy
    <2>2. e = p.tasks \/ e = <<>>
      BY DEF Entries
    <2>3. <<>> \in Seq(STRING)
      OBVIOUS
    <2> HIDE DEF e
    <2> QED
      BY <2>1, <2>2, <2>3
  <1>2. named[1] = IF e # <<>> THEN e[1] ELSE p.default
    BY <1>1
  <1>3. IsIn("local", named) <=> IsIn("local", e) \/ p.default = "local"
    <2>1. /\ DOMAIN named = 1..Len(e) + 1 /\ DOMAIN e = 1..Len(e) /\ Len(e) \in Nat
          /\ \A i \in 1..Len(e) : named[i] = e[i]
          /\ named[Len(e) + 1] = p.default
      BY <1>1
    <2> HIDE DEF e, named
    <2>2. \A i \in 1..Len(e) + 1 : i \in 1..Len(e) \/ i = Len(e) + 1
      BY <2>1
    <2>3. 1..Len(e) \subseteq 1..Len(e) + 1 /\ Len(e) + 1 \in 1..Len(e) + 1
      BY <2>1
    <2> QED
      BY <2>1, <2>2, <2>3 DEF IsIn
  <1>4. CASE p.remote
    <2>1. to = IF named[1] \in providers THEN named[1] ELSE "refused"
      BY <1>2, <1>4 DEF Provider
    <2>2. "refused" \notin providers
      BY RoutingAssumption DEF TypeOK
    <2> QED
      BY <1>4, <2>1, <2>2, ModeByRule DEF Obeys
  <1>5. CASE ~p.remote
    <2>1. to = IF IsIn("local", named) /\ "local" \in providers THEN "local" ELSE "refused"
      BY <1>3, <1>5 DEF Provider
    <2> QED
      BY <1>5, <2>1, ModeByRule DEF Obeys
  <1> QED
    BY <1>4, <1>5

\* What a call that has been routed holds to: the policy of the write its reader has read.
CallObeys(c) ==
    outcome[c] # NoCall =>
        /\ call[c].pc = "answer" /\ call[c].key = "policy"
        /\ Obeys(InForce(call[c].at), outcome[c])

RouterInv ==
    /\ CacheInv
    /\ TypeOK
    /\ \A c \in Callers : CallObeys(c)

\* The invariant says what the properties say.
LEMMA RouterInvSuffices == RouterInv => ObeysRecentPolicy
  <1> SUFFICES ASSUME RouterInv, NEW c \in Callers, outcome[c].to # "nobody"
               PROVE  \E n \in 0..count : /\ \A v \in call[c].due : v <= n
                                          /\ Obeys(InForce(n), outcome[c])
    BY DEF ObeysRecentPolicy
  <1>1. outcome[c] # NoCall
    BY DEF NoCall
  <1>2. CallObeys(c) /\ ReaderKnows(call[c]) /\ call[c] \in Call /\ count \in Nat
    BY BoundsAssumption DEF RouterInv, CacheInv, CacheTypeOK
  <1>3. call[c].at \in 0..count
    BY <1>2 DEF ReaderKnows, Call
  <1> QED
    BY <1>1, <1>2, <1>3 DEF CallObeys, ReaderKnows

\* Nobody has been routed at the start.
LEMMA RouterInitial == Init => RouterInv
  <1> SUFFICES ASSUME Init PROVE RouterInv
    OBVIOUS
  <1>1. CacheInv
    BY CacheInitial DEF Init
  <1>2. NoPolicy \in Policy
    BY RoutingAssumption DEF NoPolicy, Policy, EgressModes, Unset
  <1>3. NoCall.options \in Option /\ NoCall.to = "nobody" /\ NoCall.mode \in EgressModes
    BY RoutingAssumption DEF NoCall, Option
  <1>4. NoCall \in [to : {"nobody", "refused"} \cup providers, mode : EgressModes,
                   options : Option]
    BY <1>3 DEF NoCall
  <1>5. TypeOK
    BY <1>1, <1>2, <1>4 DEF Init, TypeOK, CacheInv
  <1>6. \A c \in Callers : CallObeys(c)
    BY DEF Init, CallObeys
  <1> QED
    BY <1>1, <1>5, <1>6 DEF RouterInv

\* A policy that was in force stays the one that was.
LEMMA PastIsKept ==
    ASSUME RouterInv, NEW n \in 0..count,
           \A v \in Writes : v <= count =>
               level'[v] = level[v] /\ kind'[v] = kind[v] /\ policy'[v] = policy[v]
    PROVE  InForce(n)' = InForce(n)
  <1>1. count \in Nat
    BY BoundsAssumption DEF RouterInv, CacheInv, CacheTypeOK
  <1>2. LastWrite(n)' = LastWrite(n)
    BY <1>1 DEF LastWrite, Writes
  <1>3. \A v \in LastWrite(n) : v \in Writes /\ v <= count
    BY <1>1 DEF LastWrite, Writes
  <1>4. Exists(n)' = Exists(n)
    BY <1>2, <1>3 DEF Exists
  <1>5. ASSUME Exists(n) PROVE (CHOOSE v \in LastWrite(n) : TRUE) \in LastWrite(n)
    BY <1>5 DEF Exists
  <1> QED
    BY <1>2, <1>3, <1>4, <1>5 DEF InForce

\* A step that changes neither the policies there are nor an outcome keeps the invariant.
LEMMA CacheKeepsRouter ==
    ASSUME RouterInv, CacheInv', UNCHANGED <<providers, outcome>>,
           policy' \in [Writes -> Policy],
           \A v \in Writes : v <= count =>
               level'[v] = level[v] /\ kind'[v] = kind[v] /\ policy'[v] = policy[v],
           \A c \in Callers : call[c].pc = "answer" => call'[c] = call[c]
    PROVE  RouterInv'
  <1>1. TypeOK'
    BY DEF RouterInv, TypeOK, CacheInv
  <1>2. \A c \in Callers : CallObeys(c)'
    <2> SUFFICES ASSUME NEW c \in Callers, outcome[c] # NoCall
                 PROVE  CallObeys(c)'
      BY DEF CallObeys
    <2>1. CallObeys(c) /\ call'[c] = call[c]
      BY DEF RouterInv, CallObeys
    <2>2. call[c].at \in 0..count
      BY BoundsAssumption DEF RouterInv, CacheInv, CacheTypeOK, ReaderKnows, Call
    <2> PICK n \in 0..count : n = call[c].at
      BY <2>2
    <2>3. InForce(n)' = InForce(n)
      BY PastIsKept
    <2> DEFINE p == InForce(call[c].at)
               o == outcome[c]
    <2>4. Obeys(p, o) /\ call[c].pc = "answer" /\ call[c].key = "policy"
      BY <2>1 DEF CallObeys
    <2>5. p' = p /\ o' = o /\ providers' = providers
      BY <2>1, <2>3
    <2> HIDE DEF p, o
    <2>6. Counts(p, o.options)' = Counts(p, o.options) /\ Given(p, o.options)' = Given(p, o.options)
      BY <2>5 DEF Counts, Given
    <2>7. Obeys(p, o)'
      BY <2>4, <2>5, <2>6 DEF Obeys
    <2> USE DEF p, o
    <2> QED
      BY <2>1, <2>4, <2>7 DEF CallObeys
  <1> QED
    BY <1>1, <1>2 DEF RouterInv

\* A step of one reader that is not at its answer disturbs no other call.
LEMMA ReadingKeepsRouter ==
    ASSUME RouterInv, CacheInv', NEW c \in Callers, NEW next, Become(c, next),
           call[c].pc # "answer", UNCHANGED <<count, level, kind, providers, policy, outcome>>
    PROVE  RouterInv'
  <1>1. \A d \in Callers : call[d].pc = "answer" => call'[d] = call[d]
    BY DEF Become, RouterInv, CacheInv, CacheTypeOK
  <1> QED
    BY <1>1, CacheKeepsRouter DEF RouterInv, TypeOK

\* The call is routed as the policy says that was read.
LEMMA RouteKeepsRouter ==
    ASSUME RouterInv, CacheInv', NEW c \in Callers, NEW o \in Options, Route(c, o)
    PROVE  RouterInv'
  <1> DEFINE p == InForce(call[c].at)
             out == [to |-> Provider(p, o), mode |-> Mode(p, o), options |-> o]
  <1>1. TypeOK /\ p \in Policy /\ o \in Option
    BY InForceIsPolicy, RoutingAssumption DEF RouterInv
  <1>2. outcome' = [outcome EXCEPT ![c] = out]
    BY DEF Route
  <1>3. Obeys(p, out)
    BY <1>1, RoutedCallObeys
  <1>4. out \in [to : {"nobody", "refused"} \cup providers, mode : EgressModes,
                options : Option]
    <2>1. Provider(p, o) \in {"refused"} \cup providers
      BY DEF Provider
    <2> QED
      BY <1>1, <2>1, ModeIsEgressMode
  <1> HIDE DEF out
  <1>5. TypeOK'
    BY <1>1, <1>2, <1>4 DEF Route, TypeOK, CacheInv
  <1>6. /\ providers' = providers /\ call' = call
        /\ call[c].pc = "answer" /\ call[c].key = "policy"
    BY DEF Route, cacheVars
  <1>7. \A n : InForce(n)' = InForce(n)
    BY DEF InForce, Exists, LastWrite, Route, cacheVars
  <1>8. \A q, x : Obeys(q, x)' = Obeys(q, x)
    BY <1>6 DEF Obeys, Counts, Given
  <1>9. ASSUME NEW d \in Callers PROVE CallObeys(d)'
    <2>1. CASE d = c
      <3>1. outcome'[d] = out
        BY <1>1, <1>2, <2>1 DEF TypeOK
      <3> QED
        BY <2>1, <3>1, <1>3, <1>6, <1>7, <1>8 DEF CallObeys
    <2>2. CASE d # c
      <3>1. outcome'[d] = outcome[d]
        BY <1>1, <1>2, <2>2 DEF TypeOK
      <3> QED
        BY <3>1, <1>6, <1>7, <1>8 DEF CallObeys, RouterInv
    <2> QED
      BY <2>1, <2>2
  <1> QED
    BY <1>5, <1>9 DEF RouterInv

\* The caller has its answer.
LEMMA ReturnKeepsRouter ==
    ASSUME RouterInv, CacheInv', NEW c \in Callers, Return(c) PROVE RouterInv'
  <1>1. TypeOK'
    <2>1. NoCall \in [to : {"nobody", "refused"} \cup providers, mode : EgressModes,
                     options : Option]
      BY RoutingAssumption DEF NoCall, Option
    <2> HIDE DEF NoCall
    <2> QED
      BY <2>1 DEF RouterInv, TypeOK, Return, CacheInv
  <1>2. ASSUME NEW d \in Callers PROVE CallObeys(d)'
    <2>1. CASE d = c
      BY <2>1 DEF CallObeys, Return, RouterInv, TypeOK
    <2>2. CASE d # c
      <3>1. outcome'[d] = outcome[d] /\ call'[d] = call[d]
        BY <2>2 DEF Return, Answer, Become, RouterInv, TypeOK, CacheTypeOK
      <3>2. \A n : InForce(n)' = InForce(n)
        BY DEF InForce, Exists, LastWrite, Return, Answer
      <3>3. \A q, x : Obeys(q, x)' = Obeys(q, x)
        BY DEF Obeys, Counts, Given, Return
      <3> QED
        BY <3>1, <3>2, <3>3 DEF CallObeys, RouterInv
    <2> QED
      BY <2>1, <2>2
  <1> QED
    BY <1>1, <1>2 DEF RouterInv

\* A write changes what is in force only from its own number on.
LEMMA WriteKeepsRouter ==
    ASSUME RouterInv, CacheInv', NEW w \in Writers, NEW l \in Levels,
           NEW how \in {"set", "delete"}, Write(w, l, how) \/ WriteUnanswered(w, l, how),
           UNCHANGED <<providers, outcome>>, policy' \in [Writes -> Policy],
           \A v \in Writes : v <= count => policy'[v] = policy[v]
    PROVE  RouterInv'
  <1>1. call' = call /\ Commit(l, how) /\ count \in Nat
    BY BoundsAssumption DEF Write, WriteUnanswered, RouterInv, CacheInv, CacheTypeOK
  <1>2. \A v \in Writes : v <= count =>
          level'[v] = level[v] /\ kind'[v] = kind[v] /\ policy'[v] = policy[v]
    BY <1>1 DEF Commit, Writes, RouterInv, CacheInv, CacheTypeOK
  <1> QED
    BY <1>1, <1>2, CacheKeepsRouter

\* The policy set is the one of the write's number.
LEMMA SetPolicyKeepsRouter ==
    ASSUME RouterInv, CacheInv', NEW w \in Writers, NEW p \in Policies, SetPolicy(w, p)
    PROVE  RouterInv'
  <1>1. /\ count' = count + 1 /\ count + 1 \in Writes
        /\ Write(w, "policy", "set") \/ WriteUnanswered(w, "policy", "set")
    BY BoundsAssumption
       DEF SetPolicy, Write, WriteUnanswered, Commit, Writes, RouterInv, CacheInv, CacheTypeOK
  <1>2. p \in Policy /\ policy \in [Writes -> Policy]
    BY RoutingAssumption DEF RouterInv, TypeOK
  <1>3. policy' = [policy EXCEPT ![count + 1] = p]
    BY <1>1 DEF SetPolicy
  <1>4. policy' \in [Writes -> Policy]
    BY <1>1, <1>2, <1>3
  <1>5. \A v \in Writes : v <= count => policy'[v] = policy[v]
    BY <1>1, <1>2, <1>3, BoundsAssumption DEF Writes, RouterInv, CacheInv, CacheTypeOK
  <1>6. UNCHANGED <<providers, outcome>>
    BY DEF SetPolicy
  <1> QED
    BY <1>1, <1>4, <1>5, <1>6, WriteKeepsRouter DEF Levels

\* Other writes leave the policies as they were, and take one out of force at most.
LEMMA OtherWriteKeepsRouter ==
    ASSUME RouterInv, CacheInv', NEW w \in Writers, OtherWrite(w) PROVE RouterInv'
  <1>1. UNCHANGED <<providers, policy, outcome>>
    BY DEF OtherWrite
  <1>2. PICK l \in Levels, how \in {"set", "delete"} :
          Write(w, l, how) \/ WriteUnanswered(w, l, how)
    BY DEF OtherWrite
  <1> QED
    BY <1>1, <1>2, WriteKeepsRouter DEF RouterInv, TypeOK

\* Time, or a key dropped: no reader at its answer moves.
LEMMA OthersKeepRouter ==
    ASSUME RouterInv, CacheInv', UNCHANGED <<count, level, kind, providers, policy, outcome>>,
           \A c \in Callers : call[c].pc = "answer" => call'[c] = call[c]
    PROVE  RouterInv'
  BY CacheKeepsRouter DEF RouterInv, TypeOK

\* Every step of the router keeps its invariant.
LEMMA RouterStep == RouterInv /\ [Next]_vars => RouterInv'
  <1> SUFFICES ASSUME RouterInv, [Next]_vars PROVE RouterInv'
    OBVIOUS
  <1>1. CacheInv'
    BY CacheStep, RouterUsesCache DEF RouterInv
  <1>2. ASSUME NEW c \in Callers, NEW k \in Keys, Begin(c, k) PROVE RouterInv'
    <2>1. call[c].pc # "answer"
      BY <1>2 DEF Begin, Ask
    <2> QED
      BY <1>1, <1>2, <2>1, ReadingKeepsRouter DEF Begin, Ask
  <1>3. ASSUME NEW c \in Callers, Reading(c), UNCHANGED <<providers, policy, outcome>>
        PROVE  RouterInv'
    <2>1. /\ call[c].pc # "answer" /\ UNCHANGED <<count, level, kind>>
          /\ \E next : Become(c, next)
      BY <1>3 DEF Reading, Hit, Miss, Read, ReadFails, Fill, FillFails, To
    <2> QED
      BY <1>1, <1>3, <2>1, ReadingKeepsRouter
  <1>4. ASSUME NEW c \in Callers, Step(c) PROVE RouterInv'
    BY <1>1, <1>3, <1>4, RouteKeepsRouter, ReturnKeepsRouter DEF Step
  <1>5. ASSUME NEW w \in Writers, Dropping(w) PROVE RouterInv'
    BY <1>1, <1>5, OthersKeepRouter DEF Dropping, Drop, DropFails
  <1>6. CASE Pass
    <2>1. \A c \in Callers : call[c].pc = "answer" => call'[c] = call[c]
      BY <1>6 DEF Pass, Tick
    <2> QED
      BY <1>1, <1>6, <2>1, OthersKeepRouter DEF Pass, Tick
  <1>7. CASE UNCHANGED vars
    BY <1>1, <1>7, OthersKeepRouter DEF vars, cacheVars
  <1> QED
    BY <1>1, <1>2, <1>4, <1>5, <1>6, <1>7, SetPolicyKeepsRouter, OtherWriteKeepsRouter DEF Next

\* In every behaviour of the router its invariant holds.
LEMMA RouterInvAlways == Spec => []RouterInv
  BY RouterInitial, RouterStep, PTL DEF Spec

\* TypeOK, for any number of callers and writers: with it, no call reaches a provider that
\* the router was not created with.
THEOREM TypeCorrect == Spec => []TypeOK
  <1>1. RouterInv => TypeOK
    BY DEF RouterInv
  <1> QED
    BY <1>1, RouterInvAlways, PTL

\* ObeysRecentPolicy, for any number of callers and writers and all policies: every call is
\* made as a policy says that was in force less than Bound before the call began.
THEOREM RecentPolicyIsObeyed == Spec => []ObeysRecentPolicy
  BY RouterInvAlways, RouterInvSuffices, PTL
==============================================================================
