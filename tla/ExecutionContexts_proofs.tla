-------------------------- MODULE ExecutionContexts_proofs --------------------------
(***************************************************************************)
(* Proofs about ExecutionContexts: the shape of its state, the isolation   *)
(* of paths, the refinement of PathBindings and the account of every       *)
(* running sandbox, for any number of instances, paths, requests,          *)
(* janitors, contexts and sandboxes and under every failure; and that      *)
(* kills spare the users, under every failure but a lost reply.            *)
(***************************************************************************)
EXTENDS ExecutionContexts, TLAPS

\* Where a request holds a sandbox it created and no row names.
Creating == {"insert", "refetch", "yield", "join"}

\* Where a request refers to a row of its path, and where it holds a sandbox.
WithContext == {"touch", "reconnect", "discard", "yield", "join", "ready", "using"}
WithSandbox == Creating \cup {"abort", "ready", "using"}

\* A row that has been inserted names a path and a sandbox that exists.
RowsInv ==
    \A c \in Contexts :
        /\ rows[c].open => Named(c)
        /\ Named(c) => /\ rows[c].path \in Paths
                       /\ rows[c].sandbox \in Sandboxes
                       /\ e2b[rows[c].sandbox] # "none"

\* What a request remembers between two awaits.
RequestsInv ==
    \A r \in Requests :
        /\ ~At(r, "idle") => req[r].inst \in Instances /\ req[r].path \in Paths
        /\ req[r].pc \in WithContext => /\ req[r].ctx \in Contexts
                                        /\ Named(req[r].ctx)
                                        /\ rows[req[r].ctx].path = req[r].path
        /\ req[r].pc \in WithSandbox => req[r].sb \in Sandboxes /\ e2b[req[r].sb] # "none"
        /\ req[r].pc \in {"ready", "using"} => rows[req[r].ctx].sandbox = req[r].sb

\* A sandbox that its creator has not recorded is named by no row and held by no other.
UnrecordedInv ==
    \A r \in Requests : req[r].pc \in Creating =>
        /\ \A c \in Contexts : Named(c) => rows[c].sandbox # req[r].sb
        /\ \A q \in Requests \ {r} : req[q].pc \in Creating => req[q].sb # req[r].sb

\* A janitor works on rows that have been inserted.
JanitorsInv ==
    \A j \in Janitors :
        /\ ~Working(j, "idle") => jan[j].inst \in Instances
        /\ jan[j].pc \in {"forget", "mark"} => jan[j].ctx \in Contexts /\ Named(jan[j].ctx)
        /\ \A c \in jan[j].todo : Named(c)

IInv ==
    /\ TypeOK
    /\ RowIsolation
    /\ CacheIsolation
    /\ RowsInv
    /\ RequestsInv
    /\ UnrecordedInv
    /\ JanitorsInv

\* Initially nothing is stored, cached or under way.
LEMMA InitInv == Init => IInv
  BY NoneAssumption DEF Init, IInv, TypeOK, RowIsolation, CacheIsolation, RowsInv, RequestsInv,
     UnrecordedInv,
     JanitorsInv, NoRow, Row, IdleReq, Request, IdleJan, Janitor, Named, At, Working, Creating,
     WithContext, WithSandbox

\* A step that keeps, for every row, whether it is named, its path and its sandbox.
SameNames ==
    \A c \in Contexts :
        /\ Named(c)' <=> Named(c)
        /\ Named(c) => rows'[c].path = rows[c].path /\ rows'[c].sandbox = rows[c].sandbox

\* Rewriting a row that is named, by any store operation but the insert.
LEMMA SetRowKeeps ==
    ASSUME TypeOK, NEW c \in Contexts, Named(c),
           NEW st \in {"creating", "ready", "terminated"}, NEW op \in BOOLEAN, NEW ex \in BOOLEAN,
           SetRow(c, st, op, ex)
    PROVE  SameNames /\ rows' \in [Contexts -> Row]
<1>1. rows[c].path \in Paths \cup {None} /\ rows[c].sandbox \in Sandboxes \cup {0}
  BY DEF TypeOK, Row
<1>2. rows' \in [Contexts -> Row]
  BY <1>1 DEF TypeOK, Row, SetRow
<1>3. SameNames
  BY DEF SameNames, SetRow, Named, TypeOK
<1> QED  BY <1>2, <1>3

\* Two rows go on naming different sandboxes if no row is inserted.
LEMMA RowIsolationKept ==
    ASSUME RowIsolation, SameNames
    PROVE  RowIsolation'
  BY DEF RowIsolation, SameNames, Named

\* What no row names stays so if no row is inserted and no request has a new sandbox.
LEMMA UnrecordedKept ==
    ASSUME UnrecordedInv, SameNames,
           \A q \in Requests : req'[q].pc \in Creating =>
               req[q].pc \in Creating /\ req'[q].sb = req[q].sb
    PROVE  UnrecordedInv'
  BY DEF UnrecordedInv, SameNames, Named

\* A step to the next call has the right shape if what it remembers has.
LEMMA GotoType ==
    ASSUME TypeOK, NEW r \in Requests, NEW c \in Contexts \cup {0},
           NEW s \in Sandboxes \cup {0},
           NEW pc \in {"idle", "touch", "reconnect", "discard", "create", "insert",
                  "refetch", "yield", "join", "abort", "ready", "using"},
           Goto(r, pc, c, s)
    PROVE  req' \in [Requests -> Request]
<1>1. req[r].inst \in Instances \cup {None} /\ req[r].path \in Paths \cup {None}
  BY DEF TypeOK, Request
<1> QED  BY <1>1 DEF TypeOK, Request, Goto

\* A step of a janitor has the right shape if what it still has to do has.
LEMMA MoveType ==
    ASSUME TypeOK, NEW j \in Janitors, NEW c \in Contexts \cup {0}, NEW T \in SUBSET Contexts,
           NEW pc \in {"idle", "next", "forget", "mark", "closing"},
           Move(j, pc, c, T)
    PROVE  jan' \in [Janitors -> Janitor]
<1>1. /\ jan[j].inst \in Instances \cup {None}
      /\ jan[j].job \in {"none", "merge", "sweep", "shutdown"}
  BY DEF TypeOK, Janitor
<1> QED  BY <1>1 DEF TypeOK, Janitor, Move

\* The first query of a request refers it to a row of its path, or to none.
LEMMA LookupInv ==
    ASSUME IInv, NEW r \in Requests, NEW i \in Instances, NEW p \in Paths, Lookup(r, i, p)
    PROVE  IInv'
<1> USE DEF Lookup, OpenOn
<1>a. SameNames
  BY DEF SameNames, Named
<1>1. TypeOK'
  BY DEF IInv, TypeOK, Request, IdleReq, Row
<1>2. RowIsolation'
  BY DEF IInv, RowIsolation, Named
<1>3. CacheIsolation'
  BY DEF IInv, CacheIsolation, Named
<1>4. RowsInv'
  BY DEF IInv, RowsInv, Named
<1>5. RequestsInv'
  BY DEF IInv, RequestsInv, RowsInv, CacheIsolation, UnrecordedInv, JanitorsInv, TypeOK,
     IdleReq, Named, At, Working, Creating, WithContext, WithSandbox
<1>6. UnrecordedInv'
  <2>1. \A q \in Requests : req'[q].pc \in Creating => req[q].pc \in Creating /\ req'[q].sb = req[q].sb
    BY DEF IInv, TypeOK, IdleReq, Creating
  <2> QED  BY <1>a, <2>1, UnrecordedKept DEF IInv
<1>7. JanitorsInv'
  BY DEF IInv, JanitorsInv, Named, Working
<1> QED  BY <1>1, <1>2, <1>3, <1>4, <1>5, <1>6, <1>7 DEF IInv

\* Touching a row keeps its path and sandbox; the cached sandbox is the row's.
LEMMA TouchInv ==
    ASSUME IInv, NEW r \in Requests, Touch(r)
    PROVE  IInv'
<1> USE DEF Touch, TouchRow, SetRow, Return, Goto
<1>a. SameNames /\ rows' \in [Contexts -> Row]
  <2>1. req[r].ctx \in Contexts /\ Named(req[r].ctx)
    BY DEF IInv, RequestsInv, At, WithContext
  <2>2. rows[req[r].ctx].status \in {"creating", "ready", "terminated"} /\ rows[req[r].ctx].open \in BOOLEAN
    BY <2>1 DEF IInv, TypeOK, Row, Named
  <2> QED  BY <2>1, <2>2, SetRowKeeps DEF IInv
<1>b. req[r].ctx \in Contexts /\ req[r].inst \in Instances /\ cache[req[r].inst][req[r].ctx] \in Sandboxes \cup {0}
  BY DEF IInv, TypeOK, RequestsInv, At, WithContext
<1>1. TypeOK'
  <2>1. rows' \in [Contexts -> Row]
    BY <1>a
  <2>2. req' \in [Requests -> Request]
    BY <1>b, GotoType DEF IInv
  <2> QED
    BY <2>1, <2>2 DEF IInv, TypeOK
<1>2. RowIsolation'
  BY <1>a, RowIsolationKept DEF IInv
<1>3. CacheIsolation'
  BY DEF IInv, CacheIsolation, Named
<1>4. RowsInv'
  BY DEF IInv, RowsInv, Named
<1>5. RequestsInv'
  BY DEF IInv, RequestsInv, RowsInv, CacheIsolation, UnrecordedInv, JanitorsInv, TypeOK,
     IdleReq, Named, At, Working, Creating, WithContext, WithSandbox
<1>6. UnrecordedInv'
  <2>1. \A q \in Requests : req'[q].pc \in Creating => req[q].pc \in Creating /\ req'[q].sb = req[q].sb
    BY DEF IInv, TypeOK, IdleReq, Creating
  <2> QED  BY <1>a, <2>1, UnrecordedKept DEF IInv
<1>7. JanitorsInv'
  BY DEF IInv, JanitorsInv, Named, Working
<1> QED  BY <1>1, <1>2, <1>3, <1>4, <1>5, <1>6, <1>7 DEF IInv

\* Reconnecting caches and returns the sandbox that the row of the path names.
LEMMA ReconnectInv ==
    ASSUME IInv, NEW r \in Requests, Reconnect(r, "reconnect", "discard") \/ Reconnect(r, "join", "abort")
    PROVE  IInv'
<1> USE DEF Reconnect, Return, Goto, CacheSet, Running
<1>a. SameNames
  BY DEF SameNames, Named
<1>b. /\ req[r].ctx \in Contexts /\ req[r].inst \in Instances
      /\ rows[req[r].ctx].sandbox \in Sandboxes
      /\ req[r].sb \in Sandboxes \cup {0}
  BY DEF IInv, TypeOK, Request, RowsInv, RequestsInv, At, WithContext
<1>1. TypeOK'
  <2>1. cache' \in [Instances -> [Contexts -> Sandboxes \cup {0}]]
    BY <1>b DEF IInv, TypeOK
  <2>2. req' \in [Requests -> Request]
    BY <1>b, GotoType DEF IInv, Goto
  <2> QED
    BY <2>1, <2>2 DEF IInv, TypeOK
<1>2. RowIsolation'
  BY DEF IInv, RowIsolation, Named
<1>3. CacheIsolation'
  BY DEF IInv, CacheIsolation, TypeOK, RequestsInv, Named, At, WithContext
<1>4. RowsInv'
  BY DEF IInv, RowsInv, Named
<1>5. RequestsInv'
  BY DEF IInv, RequestsInv, RowsInv, CacheIsolation, UnrecordedInv, JanitorsInv, TypeOK,
     IdleReq, Named, At, Working, Creating, WithContext, WithSandbox
<1>6. UnrecordedInv'
  <2>1. \A q \in Requests : req'[q].pc \in Creating => req[q].pc \in Creating /\ req'[q].sb = req[q].sb
    BY DEF IInv, TypeOK, IdleReq, Creating
  <2> QED  BY <1>a, <2>1, UnrecordedKept DEF IInv
<1>7. JanitorsInv'
  BY DEF IInv, JanitorsInv, Named, Working
<1> QED  BY <1>1, <1>2, <1>3, <1>4, <1>5, <1>6, <1>7 DEF IInv

\* Closing a row keeps its path and sandbox.
LEMMA DiscardInv ==
    ASSUME IInv, NEW r \in Requests, Discard(r)
    PROVE  IInv'
<1> USE DEF Discard, CloseRow, SetRow, Goto, Running
<1>a. SameNames /\ rows' \in [Contexts -> Row]
  BY SetRowKeeps DEF IInv, RequestsInv, At, WithContext
<1>1. TypeOK'
  <2>1. rows' \in [Contexts -> Row]
    BY <1>a
  <2>2. e2b' \in [Sandboxes -> {"none", "running", "dead"}]
    BY DEF IInv, TypeOK
  <2>3. cache' \in [Instances -> [Contexts -> Sandboxes \cup {0}]]
    BY DEF IInv, TypeOK
  <2>4. req' \in [Requests -> Request]
    BY DEF IInv, TypeOK, Request, IdleReq
  <2>5. jan' \in [Janitors -> Janitor]
    BY DEF IInv, TypeOK
  <2>6. lost' \in SUBSET Sandboxes
    BY DEF IInv, TypeOK
  <2> QED
    BY <2>1, <2>2, <2>3, <2>4, <2>5, <2>6 DEF IInv, TypeOK
<1>2. RowIsolation'
  BY <1>a, RowIsolationKept DEF IInv
<1>3. CacheIsolation'
  BY DEF IInv, CacheIsolation, Named
<1>4. RowsInv'
  BY DEF IInv, RowsInv, TypeOK, Row, RequestsInv, Named, At, WithContext
<1>5. RequestsInv'
  BY DEF IInv, RequestsInv, RowsInv, CacheIsolation, UnrecordedInv, JanitorsInv, TypeOK,
     IdleReq, Named, At, Working, Creating, WithContext, WithSandbox
<1>6. UnrecordedInv'
  BY DEF IInv, UnrecordedInv, RequestsInv, RowsInv, JanitorsInv, TypeOK, IdleReq, Named, At,
     Working, Creating, WithContext, WithSandbox
<1>7. JanitorsInv'
  BY DEF IInv, JanitorsInv, Named, Working
<1> QED  BY <1>1, <1>2, <1>3, <1>4, <1>5, <1>6, <1>7 DEF IInv

\* A sandbox that has just been created is named by no row and held by no other request.
LEMMA CreateInv ==
    ASSUME IInv, NEW r \in Requests, Create(r)
    PROVE  IInv'
<1> USE DEF Create, FreshSandbox, Goto
<1>1. TypeOK'
  BY DEF IInv, TypeOK, Request, IdleReq, Row
<1>2. RowIsolation'
  BY DEF IInv, RowIsolation, Named
<1>3. CacheIsolation'
  BY DEF IInv, CacheIsolation, Named
<1>4. RowsInv'
  BY DEF IInv, RowsInv, Named
<1>5. RequestsInv'
  BY DEF IInv, RequestsInv, TypeOK, IdleReq, Named, At, WithContext, WithSandbox
<1>6. UnrecordedInv'
  BY DEF IInv, UnrecordedInv, RequestsInv, RowsInv, JanitorsInv, TypeOK, IdleReq, Named, At,
     Working, Creating, WithContext, WithSandbox
<1>7. JanitorsInv'
  BY DEF IInv, JanitorsInv, Named, Working
<1> QED  BY <1>1, <1>2, <1>3, <1>4, <1>5, <1>6, <1>7 DEF IInv

\* An insert names a sandbox that no other row names and no other request will insert.
LEMMA InsertInv ==
    ASSUME IInv, NEW r \in Requests, Insert(r)
    PROVE  IInv'
<1>1. /\ req[r].path \in Paths
      /\ req[r].sb \in Sandboxes
      /\ e2b[req[r].sb] # "none"
      /\ \A c \in Contexts : Named(c) => rows[c].sandbox # req[r].sb
  BY DEF Insert, IInv, RequestsInv, UnrecordedInv, At, WithSandbox, Creating
<1>2. CASE Goto(r, "refetch", 0, req[r].sb) /\ UNCHANGED rows
  <2> USE <1>2 DEF Goto, Insert
  <2>a. SameNames
    BY DEF SameNames, Named
  <2>1. TypeOK'
    BY <1>1, GotoType DEF IInv, TypeOK
  <2>2. RowIsolation'
    BY <2>a, RowIsolationKept DEF IInv
  <2>3. CacheIsolation'
    BY DEF IInv, CacheIsolation, Named
  <2>4. RowsInv'
    BY DEF IInv, RowsInv, Named
  <2>5. RequestsInv'
    BY <1>1 DEF IInv, RequestsInv, TypeOK, Named, At, WithContext, WithSandbox, Creating
  <2>6. UnrecordedInv'
    <3>1. \A q \in Requests : req'[q].pc \in Creating => req[q].pc \in Creating /\ req'[q].sb = req[q].sb
      BY DEF IInv, TypeOK, Creating, At
    <3> QED  BY <2>a, <3>1, UnrecordedKept DEF IInv
  <2>7. JanitorsInv'
    BY DEF IInv, JanitorsInv, Named, Working
  <2> QED  BY <2>1, <2>2, <2>3, <2>4, <2>5, <2>6, <2>7 DEF IInv
<1>3. ASSUME NEW c \in Contexts, InsertRow(c, req[r].path, req[r].sb),
             Goto(r, "ready", c, req[r].sb) \/ Goto(r, "abort", 0, req[r].sb)
      PROVE  IInv'
  <2>a. UNCHANGED <<e2b, cache, jan, lost>> /\ At(r, "insert")
    BY DEF Insert
  <2>b. /\ ~Named(c)
        /\ rows'[c] = [status |-> "creating", path |-> req[r].path, sandbox |-> req[r].sb,
                       open |-> TRUE, expired |-> FALSE]
        /\ \A d \in Contexts \ {c} : rows'[d] = rows[d]
    BY <1>3 DEF InsertRow, FreshContext, Named, IInv, TypeOK
  <2>c. \A d \in Contexts : Named(d)' <=> Named(d) \/ d = c
    BY <2>b DEF Named
  <2>d. /\ \A q \in Requests \ {r} : req'[q] = req[q]
        /\ req'[r].pc \in {"ready", "abort"}
        /\ req'[r].pc = "ready" => req'[r].ctx = c
        /\ req'[r].inst = req[r].inst /\ req'[r].path = req[r].path /\ req'[r].sb = req[r].sb
    BY <1>3 DEF Goto, IInv, TypeOK
  <2>1. TypeOK'
    <3>1. rows' \in [Contexts -> Row]
      BY <1>1, <1>3 DEF InsertRow, IInv, TypeOK, Row
    <3>2. req' \in [Requests -> Request]
      BY <1>1, <1>3, GotoType DEF IInv
    <3> QED  BY <2>a, <3>1, <3>2 DEF IInv, TypeOK
  <2>2. RowIsolation'
    BY <1>1, <2>b, <2>c DEF IInv, RowIsolation
  <2>3. CacheIsolation'
    BY <2>a, <2>b, <2>c DEF IInv, CacheIsolation
  <2>4. RowsInv'
    BY <1>1, <2>a, <2>b, <2>c DEF IInv, RowsInv
  <2>5. RequestsInv'
    <3> SUFFICES ASSUME NEW q \in Requests
                 PROVE  /\ ~At(q, "idle")' => req'[q].inst \in Instances /\ req'[q].path \in Paths
                        /\ req'[q].pc \in WithContext => /\ req'[q].ctx \in Contexts
                                                         /\ Named(req[q].ctx)'
                                                         /\ rows'[req'[q].ctx].path = req'[q].path
                        /\ req'[q].pc \in WithSandbox => req'[q].sb \in Sandboxes /\ e2b'[req'[q].sb] # "none"
                        /\ req'[q].pc \in {"ready", "using"} => rows'[req'[q].ctx].sandbox = req'[q].sb
      BY DEF RequestsInv, At
    <3>1. CASE q = r
      BY <1>1, <2>a, <2>b, <2>c, <2>d, <3>1 DEF IInv, RequestsInv, At, WithContext, Named
    <3>2. CASE q # r
      <4>1. req'[q] = req[q]
        BY <2>d, <3>2
      <4>2. req[q].pc \in WithContext => req[q].ctx \in Contexts /\ Named(req[q].ctx) /\ req[q].ctx # c
        BY <2>b DEF IInv, RequestsInv
      <4>3. req[q].pc \in {"ready", "using"} => req[q].pc \in WithContext
        BY DEF WithContext
      <4> QED  BY <2>a, <2>b, <2>c, <4>1, <4>2, <4>3 DEF IInv, RequestsInv, At, Named
    <3> QED  BY <3>1, <3>2
  <2>6. UnrecordedInv'
    <3> SUFFICES ASSUME NEW q \in Requests, req'[q].pc \in Creating
                 PROVE  /\ \A d \in Contexts : Named(d)' => rows'[d].sandbox # req'[q].sb
                        /\ \A k \in Requests \ {q} : req'[k].pc \in Creating => req'[k].sb # req'[q].sb
      BY DEF UnrecordedInv
    <3>1. q # r /\ req'[q] = req[q] /\ req[r].pc \in Creating
      BY <2>a, <2>d DEF Creating, At
    <3>2. req[q].sb # req[r].sb
      BY <3>1 DEF IInv, UnrecordedInv
    <3>3. \A d \in Contexts : Named(d)' => rows'[d].sandbox # req'[q].sb
      BY <2>b, <2>c, <3>1, <3>2 DEF IInv, UnrecordedInv
    <3>4. \A k \in Requests \ {q} : req'[k].pc \in Creating => req[k].pc \in Creating /\ req'[k].sb = req[k].sb
      BY <2>d, <3>1
    <3> QED  BY <3>1, <3>3, <3>4 DEF IInv, UnrecordedInv
  <2>7. JanitorsInv'
    <3>1. \A j \in Janitors : jan[j].todo \subseteq Contexts
      BY DEF IInv, TypeOK, Janitor
    <3> QED  BY <2>a, <2>c, <3>1 DEF IInv, JanitorsInv, Working, Named
  <2> QED  BY <2>1, <2>2, <2>3, <2>4, <2>5, <2>6, <2>7 DEF IInv
<1> QED  BY <1>2, <1>3 DEF Insert

\* The row found after a conflict is one of the path of the request.
LEMMA RefetchInv ==
    ASSUME IInv, NEW r \in Requests, Refetch(r)
    PROVE  IInv'
<1> USE DEF Refetch, OpenOn, Goto
<1>1. TypeOK'
  BY DEF IInv, TypeOK, Request, IdleReq, Row
<1>2. RowIsolation'
  BY DEF IInv, RowIsolation, Named
<1>3. CacheIsolation'
  BY DEF IInv, CacheIsolation, Named
<1>4. RowsInv'
  BY DEF IInv, RowsInv, Named
<1>5. RequestsInv'
  BY DEF IInv, RequestsInv, RowsInv, CacheIsolation, UnrecordedInv, JanitorsInv, TypeOK,
     IdleReq, Named, At, Working, Creating, WithContext, WithSandbox
<1>6. UnrecordedInv'
  BY DEF IInv, UnrecordedInv, TypeOK, IdleReq, Named, At, Creating
<1>7. JanitorsInv'
  BY DEF IInv, JanitorsInv, Named, Working
<1> QED  BY <1>1, <1>2, <1>3, <1>4, <1>5, <1>6, <1>7 DEF IInv

\* A kill changes no row and nothing that is remembered.
LEMMA YieldInv ==
    ASSUME IInv, NEW r \in Requests, Yield(r)
    PROVE  IInv'
<1> USE DEF Yield, Kill, Goto, Running
<1>1. TypeOK'
  BY DEF IInv, TypeOK, Request, IdleReq, Row
<1>2. RowIsolation'
  BY DEF IInv, RowIsolation, Named
<1>3. CacheIsolation'
  BY DEF IInv, CacheIsolation, Named
<1>4. RowsInv'
  BY DEF IInv, RowsInv, TypeOK, Row, RequestsInv, Named, At, WithContext
<1>5. RequestsInv'
  BY DEF IInv, RequestsInv, RowsInv, CacheIsolation, UnrecordedInv, JanitorsInv, TypeOK,
     IdleReq, Named, At, Working, Creating, WithContext, WithSandbox
<1>6. UnrecordedInv'
  BY DEF IInv, UnrecordedInv, TypeOK, IdleReq, Named, At, Creating
<1>7. JanitorsInv'
  BY DEF IInv, JanitorsInv, Named, Working
<1> QED  BY <1>1, <1>2, <1>3, <1>4, <1>5, <1>6, <1>7 DEF IInv

\* The catch block ends the request, after a kill.
LEMMA AbortInv ==
    ASSUME IInv, NEW r \in Requests, Abort(r)
    PROVE  IInv'
<1> USE DEF Abort, Kill, Finish, Running
<1>1. TypeOK'
  BY DEF IInv, TypeOK, Request, IdleReq, Row
<1>2. RowIsolation'
  BY DEF IInv, RowIsolation, Named
<1>3. CacheIsolation'
  BY DEF IInv, CacheIsolation, Named
<1>4. RowsInv'
  BY DEF IInv, RowsInv, TypeOK, Row, RequestsInv, Named, At, WithContext
<1>5. RequestsInv'
  BY DEF IInv, RequestsInv, RowsInv, CacheIsolation, UnrecordedInv, JanitorsInv, TypeOK,
     IdleReq, Named, At, Working, Creating, WithContext, WithSandbox
<1>6. UnrecordedInv'
  BY DEF IInv, UnrecordedInv, TypeOK, IdleReq, Named, At, Creating
<1>7. JanitorsInv'
  BY DEF IInv, JanitorsInv, Named, Working
<1> QED  BY <1>1, <1>2, <1>3, <1>4, <1>5, <1>6, <1>7 DEF IInv

\* Marking a row ready keeps its path and sandbox; what is cached is the row's sandbox.
LEMMA ReadyInv ==
    ASSUME IInv, NEW r \in Requests, Ready(r)
    PROVE  IInv'
<1> USE DEF Ready, ReadyRow, SetRow, CacheSet, Return, Goto
<1>a. SameNames /\ rows' \in [Contexts -> Row]
  <2>1. req[r].ctx \in Contexts /\ Named(req[r].ctx)
    BY DEF IInv, RequestsInv, At, WithContext
  <2>2. rows[req[r].ctx].open \in BOOLEAN /\ rows[req[r].ctx].expired \in BOOLEAN
    BY <2>1 DEF IInv, TypeOK, Row
  <2> QED  BY <2>1, <2>2, SetRowKeeps DEF IInv
<1>1. TypeOK'
  <2>1. rows' \in [Contexts -> Row]
    BY <1>a
  <2>2. e2b' \in [Sandboxes -> {"none", "running", "dead"}]
    BY DEF IInv, TypeOK
  <2>3. cache' \in [Instances -> [Contexts -> Sandboxes \cup {0}]]
    BY DEF IInv, TypeOK, Request, RequestsInv, At, WithContext
  <2>4. req' \in [Requests -> Request]
    BY DEF IInv, TypeOK, Request, IdleReq
  <2>5. jan' \in [Janitors -> Janitor]
    BY DEF IInv, TypeOK
  <2>6. lost' \in SUBSET Sandboxes
    BY DEF IInv, TypeOK
  <2> QED
    BY <2>1, <2>2, <2>3, <2>4, <2>5, <2>6 DEF IInv, TypeOK
<1>2. RowIsolation'
  BY <1>a, RowIsolationKept DEF IInv
<1>3. CacheIsolation'
  BY DEF IInv, CacheIsolation, TypeOK, RequestsInv, Named, At, WithContext
<1>4. RowsInv'
  BY DEF IInv, RowsInv, TypeOK, Row, RequestsInv, Named, At, WithContext
<1>5. RequestsInv'
  BY DEF IInv, RequestsInv, TypeOK, IdleReq, Named, At, WithContext, WithSandbox
<1>6. UnrecordedInv'
  BY DEF IInv, UnrecordedInv, RequestsInv, RowsInv, JanitorsInv, TypeOK, IdleReq, Named, At,
     Working, Creating, WithContext, WithSandbox
<1>7. JanitorsInv'
  BY DEF IInv, JanitorsInv, Named, Working
<1> QED  BY <1>1, <1>2, <1>3, <1>4, <1>5, <1>6, <1>7 DEF IInv

\* Refusals, errors and returns end a request, or send it to the catch block.
LEMMA EndInv ==
    ASSUME IInv, NEW r \in Requests, Refuse(r) \/ StoreError(r) \/ Release(r)
    PROVE  IInv'
<1> USE DEF Refuse, StoreError, Release, Finish, Goto
<1>b. req[r].sb \in Sandboxes \cup {0}
  BY DEF IInv, TypeOK, Request
<1>1. TypeOK'
  <2>1. req' \in [Requests -> Request]
    <3>1. CASE req' = [req EXCEPT ![r] = IdleReq]
      BY <3>1 DEF IInv, TypeOK, IdleReq, Request
    <3>2. CASE Goto(r, "abort", 0, req[r].sb)
      BY <1>b, <3>2, GotoType DEF IInv
    <3> QED  BY <3>1, <3>2
  <2> QED
    BY <2>1 DEF IInv, TypeOK
<1>2. RowIsolation'
  BY DEF IInv, RowIsolation, Named
<1>3. CacheIsolation'
  BY DEF IInv, CacheIsolation, Named
<1>4. RowsInv'
  BY DEF IInv, RowsInv, Named
<1>5. RequestsInv'
  BY DEF IInv, RequestsInv, RowsInv, CacheIsolation, UnrecordedInv, JanitorsInv, TypeOK,
     IdleReq, Named, At, Working, Creating, WithContext, WithSandbox
<1>6. UnrecordedInv'
  BY DEF IInv, UnrecordedInv, TypeOK, IdleReq, Named, At, Creating
<1>7. JanitorsInv'
  BY DEF IInv, JanitorsInv, Named, Working
<1> QED  BY <1>1, <1>2, <1>3, <1>4, <1>5, <1>6, <1>7 DEF IInv

\* A janitor starts on rows that have been inserted.
LEMMA StartInv ==
    ASSUME IInv, NEW j \in Janitors, NEW job \in {"merge", "sweep", "shutdown"},
           NEW i \in Instances, NEW T \in SUBSET Contexts, \A c \in T : Named(c),
           StartJob(j, job, i, T)
    PROVE  IInv'
<1> USE DEF StartJob
<1>1. TypeOK'
  BY DEF IInv, TypeOK, Janitor, IdleJan
<1>2. RowIsolation'
  BY DEF IInv, RowIsolation, Named
<1>3. CacheIsolation'
  BY DEF IInv, CacheIsolation, Named
<1>4. RowsInv'
  BY DEF IInv, RowsInv, Named
<1>5. RequestsInv'
  BY DEF IInv, RequestsInv, Named, At
<1>6. UnrecordedInv'
  BY DEF IInv, UnrecordedInv, Named
<1>7. JanitorsInv'
  BY DEF IInv, JanitorsInv, Named, Working
<1> QED  BY <1>1, <1>2, <1>3, <1>4, <1>5, <1>6, <1>7 DEF IInv

\* Taking up the next row changes no row.
LEMMA TakeInv ==
    ASSUME IInv, NEW j \in Janitors, NEW c \in Contexts, Take(j, c)
    PROVE  IInv'
<1> USE DEF Take, Kill, Running, Move
<1>b. jan[j].todo \in SUBSET Contexts
  BY DEF IInv, TypeOK, Janitor
<1>1. TypeOK'
  <2>1. jan' \in [Janitors -> Janitor]
    BY <1>b, MoveType DEF IInv, Move
  <2> QED
    BY <2>1 DEF IInv, TypeOK
<1>2. RowIsolation'
  BY DEF IInv, RowIsolation, Named
<1>3. CacheIsolation'
  BY DEF IInv, CacheIsolation, Named
<1>4. RowsInv'
  BY DEF IInv, RowsInv, TypeOK, Row, RequestsInv, Named, At, WithContext
<1>5. RequestsInv'
  BY DEF IInv, RequestsInv, TypeOK, IdleReq, Named, At, WithContext, WithSandbox
<1>6. UnrecordedInv'
  BY DEF IInv, UnrecordedInv, Named
<1>7. JanitorsInv'
  BY DEF IInv, JanitorsInv, TypeOK, IdleJan, Named, Working
<1> QED  BY <1>1, <1>2, <1>3, <1>4, <1>5, <1>6, <1>7 DEF IInv

\* Emptying an entry of the Map breaks nothing that is cached.
LEMMA ForgetInv ==
    ASSUME IInv, NEW j \in Janitors, Forget(j)
    PROVE  IInv'
<1> USE DEF Forget, CacheSet, Move
<1>1. TypeOK'
  BY DEF IInv, TypeOK, Janitor, IdleJan
<1>2. RowIsolation'
  BY DEF IInv, RowIsolation, Named
<1>3. CacheIsolation'
  BY DEF IInv, CacheIsolation, Named
<1>4. RowsInv'
  BY DEF IInv, RowsInv, Named
<1>5. RequestsInv'
  BY DEF IInv, RequestsInv, Named, At
<1>6. UnrecordedInv'
  BY DEF IInv, UnrecordedInv, Named
<1>7. JanitorsInv'
  BY DEF IInv, JanitorsInv, Named, Working
<1> QED  BY <1>1, <1>2, <1>3, <1>4, <1>5, <1>6, <1>7 DEF IInv

\* A janitor closes a row, which keeps its path and sandbox, and goes on or rests.
LEMMA MarkInv ==
    ASSUME IInv, NEW j \in Janitors, Mark(j)
    PROVE  IInv'
<1> USE DEF Mark, CloseRow, SetRow, Rest, Move, Running
<1>a. SameNames /\ rows' \in [Contexts -> Row]
  <2>1. CASE UNCHANGED rows
    BY <2>1 DEF SameNames, Named, IInv, TypeOK
  <2>2. CASE CloseRow(jan[j].ctx)
    BY <2>2, SetRowKeeps DEF IInv, JanitorsInv, Working
  <2> QED  BY <2>1, <2>2
<1>1. TypeOK'
  <2>1. rows' \in [Contexts -> Row]
    BY <1>a
  <2>2. e2b' \in [Sandboxes -> {"none", "running", "dead"}]
    BY DEF IInv, TypeOK
  <2>3. cache' \in [Instances -> [Contexts -> Sandboxes \cup {0}]]
    BY DEF IInv, TypeOK
  <2>4. req' \in [Requests -> Request]
    BY DEF IInv, TypeOK
  <2>5. jan' \in [Janitors -> Janitor]
    BY DEF IInv, TypeOK, Janitor, IdleJan
  <2>6. lost' \in SUBSET Sandboxes
    BY DEF IInv, TypeOK
  <2> QED
    BY <2>1, <2>2, <2>3, <2>4, <2>5, <2>6 DEF IInv, TypeOK
<1>2. RowIsolation'
  BY <1>a, RowIsolationKept DEF IInv
<1>3. CacheIsolation'
  BY DEF IInv, CacheIsolation, TypeOK, RequestsInv, Named, At, WithContext
<1>4. RowsInv'
  BY DEF IInv, RowsInv, RequestsInv, JanitorsInv, TypeOK, Row, Named, At, Working, Creating,
     WithContext, WithSandbox
<1>5. RequestsInv'
  BY <1>a DEF IInv, RequestsInv, SameNames, At, WithContext
<1>6. UnrecordedInv'
  BY <1>a, UnrecordedKept DEF IInv
<1>7. JanitorsInv'
  <2>1. \A k \in Janitors \ {j} : jan'[k] = jan[k]
    BY DEF IInv, TypeOK
  <2>2. /\ jan'[j].pc \in {"idle", "next"}
        /\ jan'[j].pc = "next" => jan'[j].inst = jan[j].inst
        /\ jan'[j].todo \subseteq jan[j].todo
    BY DEF IInv, TypeOK, IdleJan
  <2>3. jan[j].todo \subseteq Contexts /\ \A k \in Janitors : jan[k].ctx \in Contexts \cup {0} /\ jan[k].todo \subseteq Contexts
    BY DEF IInv, TypeOK, Janitor
  <2> QED  BY <1>a, <2>1, <2>2, <2>3 DEF IInv, JanitorsInv, SameNames, Working
<1> QED  BY <1>1, <1>2, <1>3, <1>4, <1>5, <1>6, <1>7 DEF IInv

\* The shutdown kills sandboxes and empties a Map.
LEMMA ShutdownInv ==
    ASSUME IInv, NEW j \in Janitors, (\E c \in Contexts : ShutdownKill(j, c)) \/ ShutdownClear(j)
    PROVE  IInv'
<1> USE DEF ShutdownKill, ShutdownClear, Kill, Running, Move, Rest
<1>1. TypeOK'
  <2>1. rows' \in [Contexts -> Row]
    BY DEF IInv, TypeOK
  <2>2. e2b' \in [Sandboxes -> {"none", "running", "dead"}]
    BY DEF IInv, TypeOK
  <2>3. cache' \in [Instances -> [Contexts -> Sandboxes \cup {0}]]
    BY DEF IInv, TypeOK
  <2>4. req' \in [Requests -> Request]
    BY DEF IInv, TypeOK
  <2>5. jan' \in [Janitors -> Janitor]
    BY DEF IInv, TypeOK, Janitor, IdleJan
  <2>6. lost' \in SUBSET Sandboxes
    BY DEF IInv, TypeOK
  <2> QED
    BY <2>1, <2>2, <2>3, <2>4, <2>5, <2>6 DEF IInv, TypeOK
<1>2. RowIsolation'
  BY DEF IInv, RowIsolation, Named
<1>3. CacheIsolation'
  <2>1. CASE \E c \in Contexts : ShutdownKill(j, c)
    BY <2>1 DEF IInv, CacheIsolation, Named
  <2>2. CASE ShutdownClear(j)
    <3>1. ASSUME NEW i \in Instances, NEW c \in Contexts, cache'[i][c] # 0
          PROVE  Named(c)' /\ cache'[i][c] = rows'[c].sandbox
      <4>1. cache'[i][c] = cache[i][c]
        BY <2>2, <3>1 DEF IInv, TypeOK
      <4> QED  BY <2>2, <3>1, <4>1 DEF IInv, CacheIsolation, Named
    <3> QED  BY <3>1 DEF CacheIsolation
  <2> QED  BY <2>1, <2>2
<1>4. RowsInv'
  BY DEF IInv, RowsInv, TypeOK, Row, RequestsInv, Named, At, WithContext
<1>5. RequestsInv'
  BY DEF IInv, RequestsInv, TypeOK, IdleReq, Named, At, WithContext, WithSandbox
<1>6. UnrecordedInv'
  BY DEF IInv, UnrecordedInv, Named
<1>7. JanitorsInv'
  BY DEF IInv, JanitorsInv, TypeOK, IdleJan, Named, Working
<1> QED  BY <1>1, <1>2, <1>3, <1>4, <1>5, <1>6, <1>7 DEF IInv

\* Expiry keeps the path and the sandbox of a row.
LEMMA ExpireInv ==
    ASSUME IInv, NEW c \in Contexts, Expire(c)
    PROVE  IInv'
<1> USE DEF Expire, SetRow
<1>1. TypeOK'
  BY DEF IInv, TypeOK, Request, IdleReq, Row
<1>2. RowIsolation'
  BY DEF IInv, RowIsolation, Named
<1>3. CacheIsolation'
  BY DEF IInv, CacheIsolation, Named
<1>4. RowsInv'
  BY DEF IInv, RowsInv, Named
<1>5. RequestsInv'
  BY DEF IInv, RequestsInv, Named, At
<1>6. UnrecordedInv'
  BY DEF IInv, UnrecordedInv, Named
<1>7. JanitorsInv'
  BY DEF IInv, JanitorsInv, Named, Working
<1> QED  BY <1>1, <1>2, <1>3, <1>4, <1>5, <1>6, <1>7 DEF IInv

\* A sandbox that ends on its own still exists.
LEMMA TimeoutInv ==
    ASSUME IInv, NEW s \in Sandboxes, SandboxTimeout(s)
    PROVE  IInv'
<1> USE DEF SandboxTimeout
<1>1. TypeOK'
  BY DEF IInv, TypeOK
<1>2. RowIsolation'
  BY DEF IInv, RowIsolation, Named
<1>3. CacheIsolation'
  BY DEF IInv, CacheIsolation, Named
<1>4. RowsInv'
  BY DEF IInv, RowsInv, Named
<1>5. RequestsInv'
  BY DEF IInv, RequestsInv, Named, At
<1>6. UnrecordedInv'
  BY DEF IInv, UnrecordedInv, Named
<1>7. JanitorsInv'
  BY DEF IInv, JanitorsInv, Named, Working
<1> QED  BY <1>1, <1>2, <1>3, <1>4, <1>5, <1>6, <1>7 DEF IInv

\* A crash leaves an instance with nothing cached and nothing under way.
LEMMA CrashInv ==
    ASSUME IInv, NEW i \in Instances, Crash(i)
    PROVE  IInv'
<1> USE DEF Crash, Running, Unrecorded
<1>1. TypeOK'
  <2>1. rows' \in [Contexts -> Row]
    BY DEF IInv, TypeOK
  <2>2. e2b' \in [Sandboxes -> {"none", "running", "dead"}]
    BY DEF IInv, TypeOK
  <2>3. cache' \in [Instances -> [Contexts -> Sandboxes \cup {0}]]
    BY DEF IInv, TypeOK
  <2>4. req' \in [Requests -> Request]
    BY DEF IInv, TypeOK, Request, IdleReq
  <2>5. jan' \in [Janitors -> Janitor]
    BY DEF IInv, TypeOK, Janitor, IdleJan
  <2>6. lost' \in SUBSET Sandboxes
    BY DEF IInv, TypeOK
  <2> QED
    BY <2>1, <2>2, <2>3, <2>4, <2>5, <2>6 DEF IInv, TypeOK
<1>2. RowIsolation'
  BY DEF IInv, RowIsolation, Named
<1>3. CacheIsolation'
  BY DEF IInv, CacheIsolation, Named
<1>4. RowsInv'
  BY DEF IInv, RowsInv, Named
<1>5. RequestsInv'
  BY DEF IInv, RequestsInv, RowsInv, CacheIsolation, UnrecordedInv, JanitorsInv, TypeOK,
     IdleReq, Named, At, Working, Creating, WithContext, WithSandbox
<1>6. UnrecordedInv'
  BY DEF IInv, UnrecordedInv, TypeOK, IdleReq, Named, At, Creating
<1>7. JanitorsInv'
  BY DEF IInv, JanitorsInv, TypeOK, IdleJan, Named, Working
<1> QED  BY <1>1, <1>2, <1>3, <1>4, <1>5, <1>6, <1>7 DEF IInv

\* Every step of Next keeps the inductive invariant.
LEMMA NextInv == IInv /\ [Next]_vars => IInv'
<1> SUFFICES ASSUME IInv, [Next]_vars PROVE IInv'
  OBVIOUS
<1>1. CASE UNCHANGED vars
  BY <1>1 DEF vars, IInv, TypeOK, RowIsolation, CacheIsolation, RowsInv, RequestsInv,
     UnrecordedInv, JanitorsInv, Named, At, Working
<1>2. ASSUME NEW r \in Requests, NEW i \in Instances, NEW p \in Paths, Lookup(r, i, p) PROVE IInv'
  BY <1>2, LookupInv
<1>3. ASSUME NEW r \in Requests, RequestStep(r) \/ Release(r) PROVE IInv'
  BY <1>3, TouchInv, ReconnectInv, DiscardInv, CreateInv, InsertInv, RefetchInv, YieldInv,
     AbortInv, ReadyInv, EndInv DEF RequestStep
<1>4. ASSUME NEW j \in Janitors, NEW i \in Instances, NEW p \in Paths, Merge(j, i, p) PROVE IInv'
  <2>1. OpenOn(p) \in SUBSET Contexts /\ \A c \in OpenOn(p) : Named(c)
    BY DEF OpenOn, IInv, RowsInv
  <2> QED  BY <1>4, <2>1, StartInv DEF Merge
<1>5. ASSUME NEW j \in Janitors, NEW i \in Instances, Sweep(j, i) PROVE IInv'
  <2>1. \A T \in SUBSET Expired : T \in SUBSET Contexts /\ \A c \in T : Named(c)
    BY DEF Expired, IInv, RowsInv
  <2> QED  BY <1>5, <2>1, StartInv DEF Sweep
<1>6. ASSUME NEW j \in Janitors, NEW i \in Instances, Shutdown(j, i) PROVE IInv'
  <2>1. /\ {c \in Contexts : cache[i][c] # 0} \in SUBSET Contexts
        /\ \A c \in {d \in Contexts : cache[i][d] # 0} : Named(c)
    BY DEF IInv, CacheIsolation
  <2> QED  BY <1>6, <2>1, StartInv DEF Shutdown
<1>7. ASSUME NEW j \in Janitors, JanitorStep(j) PROVE IInv'
  BY <1>7, TakeInv, ForgetInv, MarkInv, ShutdownInv DEF JanitorStep
<1>8. ASSUME NEW c \in Contexts, Expire(c) PROVE IInv'
  BY <1>8, ExpireInv
<1>9. ASSUME NEW s \in Sandboxes, SandboxTimeout(s) PROVE IInv'
  BY <1>9, TimeoutInv
<1>10. ASSUME NEW i \in Instances, Crash(i) PROVE IInv'
  BY <1>10, CrashInv
<1> QED
  BY <1>1, <1>2, <1>3, <1>4, <1>5, <1>6, <1>7, <1>8, <1>9, <1>10 DEF Next

\* The inductive invariant holds in every state of every behaviour.
LEMMA Invariance == Spec => []IInv
<1>1. Init => IInv
  BY InitInv
<1>2. IInv /\ [Next]_vars => IInv'
  BY NextInv
<1> QED  BY <1>1, <1>2, PTL DEF Spec

\* The state always has its shape.
THEOREM TypeCorrect == Spec => []TypeOK
<1>1. IInv => TypeOK
  BY DEF IInv
<1> QED  BY <1>1, Invariance, PTL

\* No sandbox ever serves two paths: not through the table, not through the in-memory
\* Map of an instance, not through what a request remembered across its awaits.
THEOREM Isolation == Spec => []PathIsolation
<1>1. IInv => PathIsolation
  <2> SUFFICES ASSUME IInv PROVE PathIsolation
    OBVIOUS
  <2>1. UseIsolation
    <3> SUFFICES ASSUME NEW r \in Requests, At(r, "using")
                 PROVE  \E c \in Contexts : Named(c) /\ rows[c].path = req[r].path
                                                     /\ rows[c].sandbox = req[r].sb
      BY DEF UseIsolation
    <3>1. /\ req[r].ctx \in Contexts /\ Named(req[r].ctx)
          /\ rows[req[r].ctx].path = req[r].path /\ rows[req[r].ctx].sandbox = req[r].sb
      BY DEF IInv, RequestsInv, At, WithContext
    <3> QED  BY <3>1
  <2> QED  BY <2>1 DEF IInv, PathIsolation
<1> QED  BY <1>1, Invariance, PTL

-----------------------------------------------------------------------------
(* ExecutionContexts implements PathBindings. *)

\* Steps that open, close and insert no row leave the bindings alone.
LEMMA SameBindings ==
    ASSUME SameNames, \A c \in Contexts : rows'[c].open = rows[c].open,
           \A c \in Contexts : rows[c].open => Named(c)
    PROVE  Bound' = Bound /\ Ever' = Ever
<1>1. Bound' = Bound
  BY DEF Bound, SameNames
<1>2. Ever' = Ever
  BY DEF Ever, SameNames, Named
<1> QED  BY <1>1, <1>2

\* A step that ends some requests, or none, and leaves the bindings alone.
LEMMA DropStep ==
    ASSUME IInv, Bound' = Bound, Ever' = Ever,
           \A q \in Requests : \/ Held'[q] = {}
                               \/ Held'[q] = Held[q]
    PROVE  Bindings!Next
<1> DEFINE R == {q \in Requests : Held'[q] = {}}
<1>1. Held' = [q \in Requests |-> IF q \in R THEN {} ELSE Held[q]]
  BY DEF Held
<1> QED  BY <1>1 DEF Bindings!Next, Bindings!Drop

\* A step that hands request r, which held nothing, the sandbox of a row of its path.
LEMMA HandStep ==
    ASSUME IInv, Bound' = Bound, Ever' = Ever, NEW r \in Requests, NEW c \in Contexts,
           ~At(r, "using"), Named(c), rows[c].path = req[r].path,
           Goto(r, "using", c, rows[c].sandbox)
    PROVE  Bindings!Next
<1> DEFINE b == <<rows[c].path, rows[c].sandbox>>
<1>1. b \in Ever /\ b \in Paths \X Sandboxes
  BY DEF Ever, IInv, RowsInv
<1>2. Held' = [Held EXCEPT ![r] = {b}]
  BY DEF Held, Goto, At, IInv, TypeOK
<1>3. Held[r] = {}
  BY DEF Held
<1> QED  BY <1>1, <1>2, <1>3 DEF Bindings!Next, Bindings!Hand, Bindings!Bindings

\* A step that closes a row unbinds its path, if it was open.
LEMMA CloseStep ==
    ASSUME IInv, NEW c \in Contexts, Named(c), CloseRow(c), Held' = Held
    PROVE  Bindings!Next \/ UNCHANGED Bindings!bindVars
<1> DEFINE b == <<rows[c].path, rows[c].sandbox>>
<1>1. SameNames
  BY SetRowKeeps DEF CloseRow, IInv
<1>2. Ever' = Ever
  BY <1>1 DEF Ever, SameNames, Named
<1>3. /\ \A d \in Contexts \ {c} : rows'[d] = rows[d]
      /\ rows'[c].open = FALSE
  BY DEF CloseRow, SetRow, IInv, TypeOK
<1>4. CASE rows[c].open
  <2>1. b \in Bound /\ b \in Paths \X Sandboxes
    BY <1>4 DEF Bound, IInv, RowsInv
  <2>2. \A d \in Contexts \ {c} : rows[d].open => rows[d].sandbox # rows[c].sandbox
    BY DEF IInv, RowIsolation, RowsInv
  <2>3. Bound' = Bound \ {b}
    <3>1. ASSUME NEW x \in Bound' PROVE x \in Bound \ {b}
      BY <1>3, <2>2 DEF Bound
    <3>2. ASSUME NEW x \in Bound \ {b} PROVE x \in Bound'
      BY <1>3 DEF Bound
    <3> QED  BY <3>1, <3>2
  <2> QED  BY <1>2, <2>1, <2>3 DEF Bindings!Next, Bindings!Unbind, Bindings!Bindings
<1>5. CASE ~rows[c].open
  <2>1. \A d \in Contexts : rows'[d].open = rows[d].open
    BY <1>3, <1>5 DEF IInv, TypeOK, Row
  <2> QED  BY <1>1, <2>1, SameBindings DEF IInv, RowsInv, Bindings!bindVars
<1> QED  BY <1>4, <1>5

\* A step that inserts a row binds its path to a sandbox never bound before.
LEMMA InsertStep ==
    ASSUME IInv, NEW r \in Requests, NEW c \in Contexts, At(r, "insert"),
           InsertRow(c, req[r].path, req[r].sb), Held' = Held
    PROVE  Bindings!Next
<1> DEFINE p == req[r].path
           s == req[r].sb
<1>1. p \in Paths /\ s \in Sandboxes /\ \A d \in Contexts : Named(d) => rows[d].sandbox # s
  BY DEF IInv, RequestsInv, UnrecordedInv, At, WithSandbox, Creating
<1>2. /\ ~Named(c) /\ ~rows[c].open
      /\ rows'[c].path = p /\ rows'[c].sandbox = s /\ rows'[c].open /\ Named(c)'
      /\ \A d \in Contexts \ {c} : rows'[d] = rows[d]
  BY DEF InsertRow, FreshContext, Named, IInv, TypeOK, RowsInv
<1>3. Bound' = Bound \cup {<<p, s>>}
  <2>1. ASSUME NEW x \in Bound' PROVE x \in Bound \cup {<<p, s>>}
    BY <1>2 DEF Bound
  <2>2. ASSUME NEW x \in Bound \cup {<<p, s>>} PROVE x \in Bound'
    BY <1>2 DEF Bound
  <2> QED  BY <2>1, <2>2
<1>4. Ever' = Ever \cup {<<p, s>>}
  <2>1. ASSUME NEW x \in Ever' PROVE x \in Ever \cup {<<p, s>>}
    BY <1>2 DEF Ever, Named
  <2>2. ASSUME NEW x \in Ever \cup {<<p, s>>} PROVE x \in Ever'
    BY <1>2 DEF Ever, Named
  <2> QED  BY <2>1, <2>2
<1>5. \A b \in Bound : b[1] # p
  BY DEF Bound, InsertRow, OpenOn
<1>6. \A e \in Ever : e[2] # s
  BY <1>1 DEF Ever
<1> QED  BY <1>1, <1>3, <1>4, <1>5, <1>6 DEF Bindings!Next, Bindings!Bind

\* What the other requests hold is left alone by a step of r.
LEMMA HeldByOthers ==
    ASSUME NEW r \in Requests, req'[r].pc # "using",
           \A q \in Requests \ {r} : req'[q] = req[q]
    PROVE  Held'[r] = {} /\ \A q \in Requests \ {r} : Held'[q] = Held[q]
<1>1. \A q \in Requests \ {r} : At(q, "using")' <=> At(q, "using")
  BY DEF At
<1>2. ~At(r, "using")'
  BY DEF At
<1> QED  BY <1>1, <1>2 DEF Held

\* Every request step implements a step of PathBindings.
LEMMA RequestRefines ==
    ASSUME IInv, NEW r \in Requests, RequestStep(r) \/ Release(r)
    PROVE  Bindings!Next \/ UNCHANGED Bindings!bindVars
<1>1. ASSUME UNCHANGED rows,
             \/ Finish(r)
             \/ \E pc \in {"reconnect", "discard", "insert", "refetch", "yield", "join", "abort"},
                   c \in Contexts \cup {0}, s \in Sandboxes \cup {0} : Goto(r, pc, c, s)
      PROVE  Bindings!Next
  <2>1. Bound' = Bound /\ Ever' = Ever
    BY <1>1 DEF Bound, Ever, Named
  <2>2. req'[r].pc # "using" /\ \A q \in Requests \ {r} : req'[q] = req[q]
    BY <1>1 DEF Finish, Goto, IdleReq, IInv, TypeOK
  <2> QED  BY <2>1, <2>2, HeldByOthers, DropStep
<1>2. req[r].sb \in Sandboxes \cup {0} /\ req[r].ctx \in Contexts \cup {0}
  BY DEF IInv, TypeOK, Request
<1>3. req[r].pc \in WithContext => /\ req[r].ctx \in Contexts /\ Named(req[r].ctx)
                                   /\ rows[req[r].ctx].path = req[r].path
                                   /\ req[r].inst \in Instances
  BY DEF IInv, RequestsInv, At, WithContext
<1>4. ~At(r, "using") /\ req[r].pc # "using" => Held[r] = {}
  BY DEF Held
<1>5. CASE Touch(r)
  <2> DEFINE c == req[r].ctx
             s == cache[req[r].inst][c]
  <2>1. c \in Contexts /\ Named(c) /\ rows[c].path = req[r].path /\ req[r].inst \in Instances
    BY <1>3, <1>5 DEF Touch, At, WithContext
  <2>2. rows[c].status \in {"creating", "ready", "terminated"} /\ rows[c].open \in BOOLEAN
    BY <2>1 DEF IInv, TypeOK, Row, Named
  <2>3. SameNames
    BY <1>5, <2>1, <2>2, SetRowKeeps DEF IInv, Touch, TouchRow
  <2>4. \A d \in Contexts : rows'[d].open = rows[d].open
    BY <1>5, <2>1 DEF Touch, TouchRow, SetRow, IInv, TypeOK
  <2>5. Bound' = Bound /\ Ever' = Ever
    BY <2>3, <2>4, SameBindings DEF IInv, RowsInv
  <2>6. CASE s # 0
    <3>1. s = rows[c].sandbox
      BY <2>1, <2>6 DEF IInv, CacheIsolation
    <3>2. Goto(r, "using", c, rows[c].sandbox)
      BY <1>5, <2>6, <3>1 DEF Touch, Return
    <3>3. ~At(r, "using")
      BY <1>5 DEF Touch, At
    <3> QED  BY <2>1, <2>5, <3>2, <3>3, HandStep
  <2>7. CASE s = 0
    <3>1. Goto(r, "reconnect", c, 0)
      BY <1>5, <2>7 DEF Touch
    <3>2. \A q \in Requests : Held'[q] = {} \/ Held'[q] = Held[q]
      BY <3>1 DEF Held, At, Goto, IInv, TypeOK
    <3> QED  BY <2>5, <3>2, DropStep
  <2> QED  BY <2>6, <2>7
<1>6. ASSUME NEW from \in {"reconnect", "join"}, NEW failed \in {"discard", "abort"},
             Reconnect(r, from, failed)
      PROVE  Bindings!Next
  <2> DEFINE c == req[r].ctx
  <2>1. c \in Contexts /\ Named(c) /\ rows[c].path = req[r].path /\ ~At(r, "using")
    BY <1>3, <1>6 DEF Reconnect, At, WithContext
  <2>2. UNCHANGED rows
    BY <1>6 DEF Reconnect
  <2>3. CASE Goto(r, "using", c, rows[c].sandbox)
    <3>1. Bound' = Bound /\ Ever' = Ever
      BY <2>2 DEF Bound, Ever, Named
    <3> QED  BY <2>1, <2>3, <3>1, HandStep
  <2>4. CASE Goto(r, failed, c, req[r].sb)
    BY <1>1, <1>2, <2>2, <2>4
  <2> QED  BY <1>6, <2>3, <2>4 DEF Reconnect, Return
<1>7. CASE Discard(r)
  <2>1. Held' = Held
    BY <1>7 DEF Discard, Held, Goto, At, IInv, TypeOK
  <2>2. req[r].ctx \in Contexts /\ Named(req[r].ctx) /\ CloseRow(req[r].ctx)
    BY <1>3, <1>7 DEF Discard, At, WithContext
  <2> QED  BY <2>1, <2>2, CloseStep
<1>8. CASE Create(r)
  BY <1>1, <1>8 DEF Create
<1>9. CASE Insert(r)
  <2>1. CASE Goto(r, "refetch", 0, req[r].sb) /\ UNCHANGED rows
    BY <1>1, <1>2, <2>1
  <2>2. ASSUME NEW c \in Contexts, InsertRow(c, req[r].path, req[r].sb),
               Goto(r, "ready", c, req[r].sb) \/ Goto(r, "abort", 0, req[r].sb)
        PROVE  Bindings!Next
    <3>1. req[r].pc # "using" /\ req'[r].pc # "using" /\ \A q \in Requests \ {r} : req'[q] = req[q]
      BY <1>9, <2>2 DEF Insert, Goto, At, IInv, TypeOK
    <3>2. Held[r] = {}
      BY <3>1 DEF Held, At
    <3>3. Held' = Held
      BY <3>1, <3>2, HeldByOthers DEF Held
    <3> QED  BY <1>9, <2>2, <3>3, InsertStep DEF Insert
  <2> QED  BY <1>9, <2>1, <2>2 DEF Insert
<1>10. CASE Refetch(r)
  <2>1. \A c \in OpenOn(req[r].path) : c \in Contexts
    BY DEF OpenOn
  <2> QED  BY <1>1, <1>2, <1>10, <2>1 DEF Refetch
<1>11. CASE Yield(r)
  BY <1>1, <1>2, <1>11 DEF Yield
<1>12. CASE Ready(r)
  <2> DEFINE c == req[r].ctx
  <2>1. /\ c \in Contexts /\ Named(c) /\ rows[c].path = req[r].path
        /\ rows[c].sandbox = req[r].sb /\ ~At(r, "using")
    BY <1>3, <1>12 DEF Ready, At, WithContext, IInv, RequestsInv
  <2>2. rows[c].open \in BOOLEAN /\ rows[c].expired \in BOOLEAN
    BY <2>1 DEF IInv, TypeOK, Row
  <2>3. SameNames
    BY <1>12, <2>1, <2>2, SetRowKeeps DEF IInv, Ready, ReadyRow
  <2>4. \A d \in Contexts : rows'[d].open = rows[d].open
    BY <1>12, <2>1 DEF Ready, ReadyRow, SetRow, IInv, TypeOK
  <2>5. Bound' = Bound /\ Ever' = Ever
    BY <2>3, <2>4, SameBindings DEF IInv, RowsInv
  <2>6. Goto(r, "using", c, rows[c].sandbox)
    BY <1>12, <2>1 DEF Ready, Return
  <2> QED  BY <2>1, <2>5, <2>6, HandStep
<1>13. CASE Refuse(r) \/ Abort(r) \/ StoreError(r) \/ Release(r)
  BY <1>1, <1>2, <1>13 DEF Refuse, Abort, StoreError, Release
<1> QED
  BY <1>5, <1>6, <1>7, <1>8, <1>9, <1>10, <1>11, <1>12, <1>13 DEF RequestStep

\* Every step of the system implements a step of PathBindings, or changes nothing there.
LEMMA StepRefines == IInv /\ [Next]_vars => [Bindings!Next]_Bindings!bindVars
<1> SUFFICES ASSUME IInv, [Next]_vars
             PROVE  Bindings!Next \/ UNCHANGED Bindings!bindVars
  OBVIOUS
<1>1. ASSUME UNCHANGED <<rows, req>> PROVE UNCHANGED Bindings!bindVars
  BY <1>1 DEF Bindings!bindVars, Bound, Ever, Held, Named, At
<1>2. ASSUME NEW r \in Requests, NEW i \in Instances, NEW p \in Paths, Lookup(r, i, p)
      PROVE  Bindings!Next
  <2>1. Bound' = Bound /\ Ever' = Ever
    BY <1>2 DEF Lookup, Bound, Ever, Named
  <2>2. req'[r].pc # "using" /\ \A q \in Requests \ {r} : req'[q] = req[q]
    BY <1>2 DEF Lookup, IInv, TypeOK
  <2> QED  BY <2>1, <2>2, HeldByOthers, DropStep
<1>3. ASSUME NEW j \in Janitors, Mark(j) PROVE Bindings!Next \/ UNCHANGED Bindings!bindVars
  <2>1. Held' = Held
    BY <1>3 DEF Mark, Held, At
  <2>2. jan[j].ctx \in Contexts /\ Named(jan[j].ctx)
    BY <1>3 DEF Mark, Working, IInv, JanitorsInv
  <2>3. CASE CloseRow(jan[j].ctx)
    BY <2>1, <2>2, <2>3, CloseStep
  <2>4. CASE UNCHANGED rows
    BY <1>1, <1>3, <2>4 DEF Mark
  <2> QED  BY <1>3, <2>3, <2>4 DEF Mark
<1>4. ASSUME NEW c \in Contexts, Expire(c) PROVE UNCHANGED Bindings!bindVars
  <2>1. Held' = Held
    BY <1>4 DEF Expire, Held, At
  <2>2. Named(c) /\ rows[c].status \in {"creating", "ready", "terminated"}
    BY <1>4 DEF Expire, IInv, RowsInv, TypeOK, Row, Named
  <2>3. SameNames
    BY <1>4, <2>2, SetRowKeeps DEF IInv, Expire
  <2>4. \A d \in Contexts : rows'[d].open = rows[d].open
    BY <1>4 DEF Expire, SetRow, IInv, TypeOK
  <2> QED  BY <2>1, <2>3, <2>4, SameBindings DEF IInv, RowsInv, Bindings!bindVars
<1>5. ASSUME NEW i \in Instances, Crash(i) PROVE Bindings!Next
  <2>1. Bound' = Bound /\ Ever' = Ever
    BY <1>5 DEF Crash, Bound, Ever, Named
  <2>2. \A q \in Requests : Held'[q] = {} \/ Held'[q] = Held[q]
    BY <1>5 DEF Crash, Held, At, IdleReq
  <2> QED  BY <2>1, <2>2, DropStep
<1>6. ASSUME NEW j \in Janitors, JanitorStep(j)
      PROVE  Mark(j) \/ UNCHANGED <<rows, req>>
  BY <1>6 DEF JanitorStep, Take, ShutdownKill, Forget, ShutdownClear
<1>7. ASSUME NEW j \in Janitors, NEW i \in Instances,
             (\E p \in Paths : Merge(j, i, p)) \/ Sweep(j, i) \/ Shutdown(j, i)
      PROVE  UNCHANGED <<rows, req>>
  BY <1>7 DEF Merge, Sweep, Shutdown, StartJob
<1>8. ASSUME NEW s \in Sandboxes, SandboxTimeout(s) PROVE UNCHANGED <<rows, req>>
  BY <1>8 DEF SandboxTimeout
<1>9. UNCHANGED vars => UNCHANGED <<rows, req>>
  BY DEF vars
<1> QED
  BY <1>1, <1>2, <1>3, <1>4, <1>5, <1>6, <1>7, <1>8, <1>9, RequestRefines DEF Next

\* Whatever the instances, janitors and failures do, every path has one binding at a time,
\* a sandbox is bound to one path for ever, and a request is handed a sandbox of its path.
THEOREM Refinement == Spec => ImplementsBindings
<1>1. Init => Bindings!Init
  BY DEF Init, Bindings!Init, Bound, Ever, Held, Named, At, NoRow, IdleReq
<1>2. IInv /\ [Next]_vars => [Bindings!Next]_Bindings!bindVars
  BY StepRefines
<1> QED  BY <1>1, <1>2, Invariance, PTL DEF Spec, ImplementsBindings, Bindings!Spec
-----------------------------------------------------------------------------
(* No sandbox is left running silently. *)

\* When the loser of a race goes on to join the winner, the sandbox it created has been
\* killed, or given up when the kill failed.
WrittenOff ==
    \A r \in Requests : At(r, "join") => req[r].sb \in lost \/ e2b[req[r].sb] = "dead"

\* The ways in which somebody still answers for a sandbox.
Accounted(s) ==
    \/ s \in lost
    \/ \E c \in Contexts : rows[c].open /\ rows[c].sandbox = s
    \/ \E r \in Requests : s \in Unrecorded(r)

\* What is dead stays dead, and what has been given up stays on the list.
LEMMA DeadStaysDead ==
    ASSUME IInv, Next
    PROVE  lost \subseteq lost' /\ \A s \in Sandboxes : e2b[s] = "dead" => e2b'[s] = "dead"
<1>k. ASSUME NEW s, Kill(s)
      PROVE  lost \subseteq lost' /\ \A t \in Sandboxes : e2b[t] = "dead" => e2b'[t] = "dead"
  BY <1>k DEF Kill, IInv, TypeOK
<1>c. ASSUME NEW c, CloseRow(c) PROVE lost \subseteq lost'
  BY <1>c DEF CloseRow
<1>1. ASSUME NEW r \in Requests, NEW i \in Instances, NEW p \in Paths, Lookup(r, i, p)
      PROVE  UNCHANGED <<e2b, lost>>
  BY <1>1 DEF Lookup
<1>2. ASSUME NEW r \in Requests, RequestStep(r) \/ Release(r), ~Create(r), ~Discard(r),
             ~Yield(r), ~Abort(r)
      PROVE  UNCHANGED <<e2b, lost>>
  BY <1>2 DEF RequestStep, Release, Touch, Reconnect, Refuse, Insert, Refetch, Ready, StoreError
<1>3. ASSUME NEW r \in Requests, Create(r)
      PROVE  UNCHANGED lost /\ \A s \in Sandboxes : e2b[s] = "dead" => e2b'[s] = "dead"
  BY <1>3 DEF Create, FreshSandbox, IInv, TypeOK
<1>4. ASSUME NEW r \in Requests, Discard(r)
      PROVE  lost \subseteq lost' /\ UNCHANGED e2b
  BY <1>4, <1>c DEF Discard
<1>5. ASSUME NEW r \in Requests, Yield(r) \/ Abort(r)
      PROVE  Kill(req[r].sb)
  BY <1>5 DEF Yield, Abort
<1>6. ASSUME NEW j \in Janitors, NEW i \in Instances,
             (\E p \in Paths : Merge(j, i, p)) \/ Sweep(j, i) \/ Shutdown(j, i)
      PROVE  UNCHANGED <<e2b, lost>>
  BY <1>6 DEF Merge, Sweep, Shutdown, StartJob
<1>7. ASSUME NEW j \in Janitors, JanitorStep(j)
      PROVE  (\E s \in Sandboxes \cup {0} : Kill(s)) \/ (lost \subseteq lost' /\ UNCHANGED e2b)
  <2>1. ASSUME NEW c \in Contexts, ShutdownKill(j, c) PROVE Kill(rows[c].sandbox)
    BY <2>1 DEF ShutdownKill
  <2>2. ASSUME NEW c \in Contexts, Take(j, c)
        PROVE  Kill(cache[jan[j].inst][c]) \/ UNCHANGED <<e2b, lost>>
    BY <2>2 DEF Take
  <2>3. \A c \in Contexts : rows[c].sandbox \in Sandboxes \cup {0}
    BY DEF IInv, TypeOK, Row
  <2>4. ASSUME NEW c \in Contexts, Take(j, c)
        PROVE  cache[jan[j].inst][c] \in Sandboxes \cup {0}
    BY <2>4 DEF Take, Working, IInv, TypeOK, JanitorsInv
  <2>5. ASSUME Forget(j) \/ ShutdownClear(j) PROVE UNCHANGED <<e2b, lost>>
    BY <2>5 DEF Forget, ShutdownClear
  <2>6. ASSUME Mark(j) PROVE lost \subseteq lost' /\ UNCHANGED e2b
    BY <1>c, <2>6 DEF Mark
  <2> QED  BY <1>7, <2>1, <2>2, <2>3, <2>4, <2>5, <2>6 DEF JanitorStep
<1>8. ASSUME NEW c \in Contexts, Expire(c) PROVE UNCHANGED <<e2b, lost>>
  BY <1>8 DEF Expire
<1>9. ASSUME NEW s \in Sandboxes, SandboxTimeout(s)
      PROVE  UNCHANGED lost /\ \A t \in Sandboxes : e2b[t] = "dead" => e2b'[t] = "dead"
  BY <1>9 DEF SandboxTimeout, IInv, TypeOK
<1>10. ASSUME NEW i \in Instances, Crash(i) PROVE lost \subseteq lost' /\ UNCHANGED e2b
  BY <1>10 DEF Crash
<1> QED
  BY <1>k, <1>1, <1>2, <1>3, <1>4, <1>5, <1>6, <1>7, <1>8, <1>9, <1>10 DEF Next

\* A request joins the winner of its race only after the kill of its own sandbox.
LEMMA WrittenOffKept == IInv /\ WrittenOff /\ [Next]_vars => WrittenOff'
<1> SUFFICES ASSUME IInv, WrittenOff, Next PROVE WrittenOff'
  BY DEF WrittenOff, vars, At
<1> SUFFICES ASSUME NEW q \in Requests, At(q, "join")'
             PROVE  req'[q].sb \in lost' \/ e2b'[req'[q].sb] = "dead"
  BY DEF WrittenOff
<1>1. lost \subseteq lost' /\ \A s \in Sandboxes : e2b[s] = "dead" => e2b'[s] = "dead"
  BY DeadStaysDead
<1>2. CASE At(q, "join") /\ req'[q] = req[q]
  <2>1. req[q].sb \in Sandboxes
    BY <1>2 DEF IInv, RequestsInv, At, WithSandbox, Creating
  <2> QED  BY <1>1, <1>2, <2>1 DEF WrittenOff
<1>3. ASSUME NEW r \in Requests, NEW i \in Instances, NEW p \in Paths, Lookup(r, i, p)
      PROVE  At(q, "join") /\ req'[q] = req[q]
  BY <1>3 DEF Lookup, At, IInv, TypeOK
<1>4. ASSUME NEW r \in Requests, RequestStep(r) \/ Release(r), r # q
      PROVE  At(q, "join") /\ req'[q] = req[q]
  BY <1>4 DEF RequestStep, Release, Touch, Reconnect, Discard, Create, Refuse, Insert, Refetch,
     Yield, Abort, Ready, StoreError, Goto, Return, Finish, At, IInv, TypeOK
<1>5. ASSUME Yield(q) PROVE req'[q].sb \in lost' \/ e2b'[req'[q].sb] = "dead"
  <2>1. req'[q].sb = req[q].sb /\ req[q].sb \in Sandboxes
    BY <1>5 DEF Yield, Goto, At, IInv, TypeOK, RequestsInv, WithSandbox, Creating
  <2> QED  BY <1>5, <2>1 DEF Yield, Kill, IInv, TypeOK
<1>6. ASSUME RequestStep(q) \/ Release(q), ~Yield(q) PROVE FALSE
  BY <1>6 DEF RequestStep, Release, Touch, Reconnect, Discard, Create, Refuse, Insert, Refetch,
     Abort, Ready, StoreError, Goto, Return, Finish, IdleReq, At, IInv, TypeOK
<1>7. ASSUME NEW j \in Janitors, NEW i \in Instances,
             (\E p \in Paths : Merge(j, i, p)) \/ Sweep(j, i) \/ Shutdown(j, i) \/ JanitorStep(j)
      PROVE  UNCHANGED req
  BY <1>7 DEF Merge, Sweep, Shutdown, StartJob, JanitorStep, Take, ShutdownKill, Forget, Mark,
     ShutdownClear
<1>8. ASSUME NEW j \in Janitors, JanitorStep(j) PROVE UNCHANGED req
  BY <1>8 DEF JanitorStep, Take, ShutdownKill, Forget, Mark, ShutdownClear
<1>9. ASSUME NEW c \in Contexts, Expire(c) PROVE UNCHANGED req
  BY <1>9 DEF Expire
<1>10. ASSUME NEW s \in Sandboxes, SandboxTimeout(s) PROVE UNCHANGED req
  BY <1>10 DEF SandboxTimeout
<1>11. ASSUME NEW i \in Instances, Crash(i) PROVE At(q, "join") /\ req'[q] = req[q]
  BY <1>11 DEF Crash, At, IdleReq, IInv, TypeOK
<1> QED
  BY <1>2, <1>3, <1>4, <1>5, <1>6, <1>7, <1>8, <1>9, <1>10, <1>11 DEF Next, At

\* Somebody goes on answering for a sandbox that runs if what named it still does, has
\* passed it to a row, or has killed it or given it up.
LEMMA AccountedKept ==
    ASSUME NEW s \in Sandboxes, Accounted(s), lost \subseteq lost', e2b'[s] = "running",
           \A c \in Contexts : rows[c].open /\ rows[c].sandbox = s =>
               s \in lost' \/ (rows'[c].open /\ rows'[c].sandbox = s),
           \A r \in Requests : s \in Unrecorded(r) => Accounted(s)'
    PROVE  Accounted(s)'
  BY DEF Accounted

\* A step that opens or closes no row, names no sandbox and changes no request.
LEMMA LeakIdle ==
    ASSUME NoSilentLeak, lost \subseteq lost', UNCHANGED req,
           \A s \in Sandboxes : e2b'[s] = "running" => e2b[s] = "running",
           \A c \in Contexts : rows[c].open => rows'[c].open /\ rows'[c].sandbox = rows[c].sandbox
    PROVE  NoSilentLeak'
<1> SUFFICES ASSUME NEW s \in Sandboxes, e2b'[s] = "running" PROVE Accounted(s)'
  BY DEF NoSilentLeak, Accounted, Running
<1>1. Accounted(s)
  BY DEF NoSilentLeak, Accounted, Running
<1>2. \A r \in Requests : Unrecorded(r)' = Unrecorded(r)
  BY DEF Unrecorded
<1> QED  BY <1>1, <1>2 DEF Accounted

\* A row is closed: what still runs in it is given up.
LEMMA LeakClose ==
    ASSUME IInv, NoSilentLeak, NEW c \in Contexts, Named(c), CloseRow(c), UNCHANGED e2b,
           \A r \in Requests : Unrecorded(r)' = Unrecorded(r)
    PROVE  NoSilentLeak'
<1> SUFFICES ASSUME NEW s \in Sandboxes, e2b'[s] = "running" PROVE Accounted(s)'
  BY DEF NoSilentLeak, Accounted, Running
<1>1. Accounted(s) /\ Running(s)
  BY DEF NoSilentLeak, Accounted, Running
<1>2. lost \subseteq lost'
  BY DEF CloseRow
<1>3. CASE rows[c].sandbox = s
  BY <1>1, <1>3 DEF CloseRow, Accounted
<1>4. CASE rows[c].sandbox # s
  <2>1. \A d \in Contexts : rows[d].open /\ rows[d].sandbox = s => rows'[d] = rows[d]
    BY <1>4 DEF CloseRow, SetRow, IInv, TypeOK
  <2> QED  BY <1>1, <1>2, <2>1 DEF Accounted
<1> QED  BY <1>3, <1>4

\* A step of request r that takes nothing it answers for out of its hands.
LEMMA LeakRequest ==
    ASSUME IInv, NoSilentLeak, NEW r \in Requests, lost \subseteq lost',
           \A q \in Requests \ {r} : req'[q] = req[q],
           \A s \in Sandboxes : e2b'[s] = "running" => e2b[s] = "running" \/ Accounted(s)',
           \A s \in Sandboxes : s \in Unrecorded(r) /\ e2b'[s] = "running" => Accounted(s)',
           \A c \in Contexts : rows[c].open => rows'[c].open /\ rows'[c].sandbox = rows[c].sandbox
    PROVE  NoSilentLeak'
<1> SUFFICES ASSUME NEW s \in Sandboxes, e2b'[s] = "running", e2b[s] = "running" PROVE Accounted(s)'
  BY DEF NoSilentLeak, Accounted, Running
<1>1. Accounted(s)
  BY DEF NoSilentLeak, Accounted, Running
<1>2. \A q \in Requests \ {r} : Unrecorded(q)' = Unrecorded(q)
  BY DEF Unrecorded
<1>3. \A q \in Requests : s \in Unrecorded(q) => Accounted(s)'
  BY <1>2 DEF Accounted
<1> QED  BY <1>1, <1>3, AccountedKept

\* The steps of a request that touch no row: what it answered for it still answers for,
\* or has killed or given up.
LEMMA LeakCalls ==
    ASSUME IInv, NoSilentLeak, WrittenOff, NEW r \in Requests,
           \/ Reconnect(r, "reconnect", "discard") \/ Reconnect(r, "join", "abort")
           \/ Refuse(r) \/ Refetch(r) \/ Yield(r) \/ Abort(r) \/ StoreError(r) \/ Release(r)
    PROVE  NoSilentLeak'
<1>1. UNCHANGED rows /\ \A q \in Requests \ {r} : req'[q] = req[q]
  BY DEF Reconnect, Refuse, Refetch, Yield, Abort, StoreError, Release, Goto, Return, Finish,
     IInv, TypeOK
<1>2. CASE Reconnect(r, "join", "abort")
  <2>1. UNCHANGED <<e2b, lost>>
    BY <1>2 DEF Reconnect
  <2>2. \A s \in Sandboxes : s \in Unrecorded(r) /\ e2b'[s] = "running" => s \in lost'
    BY <1>2, <2>1 DEF WrittenOff, Unrecorded, Reconnect, At
  <2> QED  BY <1>1, <2>1, <2>2, LeakRequest DEF Accounted
<1>3. CASE Reconnect(r, "reconnect", "discard")
  <2>1. UNCHANGED <<e2b, lost>> /\ Unrecorded(r) = {}
    BY <1>3 DEF Reconnect, Unrecorded, At
  <2> QED  BY <1>1, <2>1, LeakRequest
<1>4. CASE Refuse(r) \/ Release(r)
  <2>1. UNCHANGED <<e2b, lost>> /\ Unrecorded(r) = {}
    BY <1>4 DEF Refuse, Release, Unrecorded, At
  <2> QED  BY <1>1, <2>1, LeakRequest
<1>5. CASE Refetch(r)
  <2>1. UNCHANGED <<e2b, lost>> /\ Unrecorded(r)' = Unrecorded(r)
    BY <1>5 DEF Refetch, Unrecorded, At, Goto, IInv, TypeOK
  <2> QED  BY <1>1, <2>1, LeakRequest DEF Accounted
<1>6. CASE Yield(r) \/ Abort(r)
  <2>1. Kill(req[r].sb) /\ Unrecorded(r) = {req[r].sb}
    BY <1>6 DEF Yield, Abort, Unrecorded, At
  <2>2. /\ lost \subseteq lost'
        /\ \A s \in Sandboxes : e2b'[s] = "running" => e2b[s] = "running"
        /\ \A s \in Sandboxes : s = req[r].sb /\ e2b'[s] = "running" => s \in lost'
    BY <2>1 DEF Kill, IInv, TypeOK
  <2> QED  BY <1>1, <2>1, <2>2, LeakRequest DEF Accounted
<1>7. CASE StoreError(r)
  <2>1. UNCHANGED <<e2b, lost>>
    BY <1>7 DEF StoreError
  <2>2. CASE req[r].pc \in {"touch", "discard", "ready"}
    <3>1. Unrecorded(r) = {}
      BY <2>2 DEF Unrecorded
    <3> QED  BY <1>1, <2>1, <3>1, LeakRequest
  <2>3. CASE req[r].pc \in {"insert", "refetch"} /\ Goto(r, "abort", 0, req[r].sb)
    <3>1. Unrecorded(r)' = Unrecorded(r)
      BY <2>3 DEF Unrecorded, Goto, IInv, TypeOK
    <3> QED  BY <1>1, <2>1, <3>1, LeakRequest DEF Accounted
  <2> QED  BY <1>7, <2>2, <2>3 DEF StoreError
<1> QED  BY <1>2, <1>3, <1>4, <1>5, <1>6, <1>7

\* The steps that write a row without closing it: an insert answers for the sandbox it
\* names from then on.
LEMMA LeakWrites ==
    ASSUME IInv, NoSilentLeak, NEW r \in Requests, Touch(r) \/ Insert(r) \/ Ready(r)
    PROVE  NoSilentLeak'
<1>1. UNCHANGED <<e2b, lost>> /\ \A q \in Requests \ {r} : req'[q] = req[q]
  BY DEF Touch, Insert, Ready, Goto, Return, IInv, TypeOK
<1>2. CASE Touch(r) \/ Ready(r)
  <2>1. Unrecorded(r) = {}
    BY <1>2 DEF Touch, Ready, Unrecorded, At
  <2>2. req[r].ctx \in Contexts
    BY <1>2 DEF Touch, Ready, At, IInv, RequestsInv, WithContext
  <2>3. \A c \in Contexts : rows[c].open => rows'[c].open /\ rows'[c].sandbox = rows[c].sandbox
    BY <1>2, <2>2 DEF Touch, TouchRow, Ready, ReadyRow, SetRow, IInv, TypeOK
  <2> QED  BY <1>1, <2>1, <2>3, LeakRequest
<1>3. ASSUME NEW c \in Contexts, InsertRow(c, req[r].path, req[r].sb), At(r, "insert")
      PROVE  NoSilentLeak'
  <2>1. /\ rows'[c].open /\ rows'[c].sandbox = req[r].sb
        /\ ~rows[c].open
        /\ \A d \in Contexts \ {c} : rows'[d] = rows[d]
    BY <1>3 DEF InsertRow, FreshContext, IInv, TypeOK, RowsInv, Named
  <2>2. \A s \in Sandboxes : s \in Unrecorded(r) => Accounted(s)'
    BY <1>3, <2>1 DEF Unrecorded, Accounted, At
  <2> QED  BY <1>1, <2>1, <2>2, LeakRequest
<1>4. CASE UNCHANGED rows /\ At(r, "insert") /\ Goto(r, "refetch", 0, req[r].sb)
  <2>1. Unrecorded(r)' = Unrecorded(r)
    BY <1>4 DEF Unrecorded, At, Goto, IInv, TypeOK
  <2> QED  BY <1>1, <1>4, <2>1, LeakRequest DEF Accounted
<1> QED  BY <1>2, <1>3, <1>4 DEF Insert

\* A request answers for the sandbox it has just created.
LEMMA LeakCreate ==
    ASSUME IInv, NoSilentLeak, NEW r \in Requests, Create(r)
    PROVE  NoSilentLeak'
<1>1. PICK s \in Sandboxes : e2b' = [e2b EXCEPT ![s] = "running"] /\ Goto(r, "insert", 0, s)
  BY DEF Create
<1>2. UNCHANGED <<rows, lost>> /\ Unrecorded(r) = {} /\ \A q \in Requests \ {r} : req'[q] = req[q]
  BY <1>1 DEF Create, Unrecorded, At, Goto, IInv, TypeOK
<1>3. Unrecorded(r)' = {s}
  BY <1>1 DEF Unrecorded, Goto, IInv, TypeOK
<1>4. \A t \in Sandboxes : e2b'[t] = "running" => e2b[t] = "running" \/ Accounted(t)'
  BY <1>1, <1>3 DEF Accounted, IInv, TypeOK
<1> QED  BY <1>2, <1>4, LeakRequest

\* A crash gives up what the requests of the instance had created and not recorded.
LEMMA LeakCrash ==
    ASSUME IInv, NoSilentLeak, NEW i \in Instances, Crash(i)
    PROVE  NoSilentLeak'
<1> SUFFICES ASSUME NEW s \in Sandboxes, e2b'[s] = "running" PROVE Accounted(s)'
  BY DEF NoSilentLeak, Accounted, Running
<1>1. UNCHANGED <<rows, e2b>> /\ lost \subseteq lost'
  BY DEF Crash
<1>2. Accounted(s) /\ Running(s)
  BY <1>1 DEF NoSilentLeak, Accounted, Running
<1>3. ASSUME NEW r \in Requests, s \in Unrecorded(r) PROVE Accounted(s)'
  <2>1. CASE req[r].inst = i
    BY <1>2, <1>3, <2>1 DEF Crash, Accounted
  <2>2. CASE req[r].inst # i
    <3>1. Unrecorded(r)' = Unrecorded(r)
      BY <2>2 DEF Crash, Unrecorded
    <3> QED  BY <1>3, <3>1 DEF Accounted
  <2> QED  BY <2>1, <2>2
<1> QED  BY <1>1, <1>2, <1>3, AccountedKept

\* The steps of the janitors: a kill that fails and a row that is closed give up what runs.
LEMMA LeakJanitors ==
    ASSUME IInv, NoSilentLeak, NEW j \in Janitors, JanitorStep(j)
    PROVE  NoSilentLeak'
<1>1. CASE Mark(j)
  <2>1. UNCHANGED <<e2b, req>> /\ \A r \in Requests : Unrecorded(r)' = Unrecorded(r)
    BY <1>1 DEF Mark, Unrecorded
  <2>2. jan[j].ctx \in Contexts /\ Named(jan[j].ctx)
    BY <1>1 DEF Mark, Working, IInv, JanitorsInv
  <2> QED  BY <1>1, <2>1, <2>2, LeakClose, LeakIdle DEF Mark
<1>2. ASSUME NEW c \in Contexts, Take(j, c) \/ ShutdownKill(j, c)
      PROVE  NoSilentLeak'
  <2>1. UNCHANGED <<rows, req>>
    BY <1>2 DEF Take, ShutdownKill
  <2>2. lost \subseteq lost' /\ \A s \in Sandboxes : e2b'[s] = "running" => e2b[s] = "running"
    BY <1>2 DEF Take, ShutdownKill, Kill, IInv, TypeOK
  <2> QED  BY <2>1, <2>2, LeakIdle
<1>3. CASE Forget(j) \/ ShutdownClear(j)
  BY <1>3, LeakIdle DEF Forget, ShutdownClear
<1> QED  BY <1>1, <1>2, <1>3 DEF JanitorStep

\* No step of the system takes a running sandbox out of everybody's sight.
LEMMA LeakKept == IInv /\ WrittenOff /\ NoSilentLeak /\ [Next]_vars => NoSilentLeak'
<1> SUFFICES ASSUME IInv, WrittenOff, NoSilentLeak, [Next]_vars PROVE NoSilentLeak'
  OBVIOUS
<1>1. CASE UNCHANGED vars
  BY <1>1, LeakIdle DEF vars
<1>2. ASSUME NEW r \in Requests, NEW i \in Instances, NEW p \in Paths, Lookup(r, i, p)
      PROVE  NoSilentLeak'
  <2>1. UNCHANGED <<rows, e2b, lost>> /\ Unrecorded(r) = {} /\ \A q \in Requests \ {r} : req'[q] = req[q]
    BY <1>2 DEF Lookup, Unrecorded, At, IInv, TypeOK
  <2> QED  BY <2>1, LeakRequest
<1>3. ASSUME NEW r \in Requests, Discard(r) PROVE NoSilentLeak'
  <2>1. /\ req[r].ctx \in Contexts /\ Named(req[r].ctx) /\ CloseRow(req[r].ctx)
        /\ UNCHANGED e2b
    BY <1>3 DEF Discard, At, IInv, RequestsInv, WithContext
  <2>2. \A q \in Requests : Unrecorded(q)' = Unrecorded(q)
    BY <1>3 DEF Discard, Unrecorded, At, Goto, IInv, TypeOK
  <2> QED  BY <2>1, <2>2, LeakClose
<1>4. ASSUME NEW r \in Requests, RequestStep(r) \/ Release(r) PROVE NoSilentLeak'
  BY <1>3, <1>4, LeakCalls, LeakWrites, LeakCreate DEF RequestStep
<1>5. ASSUME NEW j \in Janitors, NEW i \in Instances,
             (\E p \in Paths : Merge(j, i, p)) \/ Sweep(j, i) \/ Shutdown(j, i)
      PROVE  NoSilentLeak'
  <2>1. UNCHANGED <<rows, e2b, req, lost>>
    BY <1>5 DEF Merge, Sweep, Shutdown, StartJob
  <2> QED  BY <2>1, LeakIdle
<1>6. ASSUME NEW c \in Contexts, Expire(c) PROVE NoSilentLeak'
  <2>1. \A d \in Contexts : rows[d].open => rows'[d].open /\ rows'[d].sandbox = rows[d].sandbox
    BY <1>6 DEF Expire, SetRow, IInv, TypeOK
  <2> QED  BY <1>6, <2>1, LeakIdle DEF Expire
<1>7. ASSUME NEW s \in Sandboxes, SandboxTimeout(s) PROVE NoSilentLeak'
  <2>1. \A t \in Sandboxes : e2b'[t] = "running" => e2b[t] = "running"
    BY <1>7 DEF SandboxTimeout, IInv, TypeOK
  <2> QED  BY <1>7, <2>1, LeakIdle DEF SandboxTimeout
<1> QED
  BY <1>1, <1>2, <1>4, <1>5, <1>6, <1>7, LeakJanitors, LeakCrash DEF Next

\* A sandbox that runs is named by an open row, in the hands of the request that created
\* it, or was given up at a known step: its kill failed, its row was closed while it ran,
\* or the instance that had just created it crashed.
THEOREM NothingLeaksSilently == Spec => []NoSilentLeak
<1>1. Init => WrittenOff /\ NoSilentLeak
  BY DEF Init, WrittenOff, NoSilentLeak, At, Running, IdleReq
<1>2. IInv /\ WrittenOff /\ NoSilentLeak /\ [Next]_vars => WrittenOff' /\ NoSilentLeak'
  BY WrittenOffKept, LeakKept
<1> QED  BY <1>1, <1>2, Invariance, PTL DEF Spec

-----------------------------------------------------------------------------
(* No kill under a user. *)

\* Unless replies get lost, what the catch block is about to kill is named by no row and
\* was created by nobody else: an insert that took effect was answered.
AbortedUnnamed ==
    "reply" \notin Faults =>
        \A r \in Requests : At(r, "abort") =>
            /\ \A c \in Contexts : Named(c) => rows[c].sandbox # req[r].sb
            /\ \A q \in Requests \ {r} : req[q].pc \in Creating => req[q].sb # req[r].sb

\* A request reaches its catch block with what it created, and a row never names that.
LEMMA AbortedKept == IInv /\ AbortedUnnamed /\ [Next]_vars => AbortedUnnamed'
<1> SUFFICES ASSUME IInv, AbortedUnnamed, [Next]_vars, "reply" \notin Faults,
                    NEW q \in Requests, At(q, "abort")'
             PROVE  /\ \A c \in Contexts : Named(c)' => rows'[c].sandbox # req'[q].sb
                    /\ \A k \in Requests \ {q} : req'[k].pc \in Creating => req'[k].sb # req'[q].sb
  BY DEF AbortedUnnamed
\* Nothing new is named or created.
<1>0. ASSUME \A c \in Contexts : Named(c)' => Named(c) /\ rows'[c].sandbox = rows[c].sandbox,
             req[q].pc \in Creating \cup {"abort"}, req'[q].sb = req[q].sb,
             \A k \in Requests \ {q} : req'[k].pc \in Creating =>
                 req[k].pc \in Creating /\ req'[k].sb = req[k].sb
      PROVE  /\ \A c \in Contexts : Named(c)' => rows'[c].sandbox # req'[q].sb
             /\ \A k \in Requests \ {q} : req'[k].pc \in Creating => req'[k].sb # req'[q].sb
  <2>1. CASE req[q].pc \in Creating
    BY <1>0, <2>1 DEF IInv, UnrecordedInv
  <2>2. CASE req[q].pc = "abort"
    BY <1>0, <2>2 DEF AbortedUnnamed, At
  <2> QED  BY <1>0, <2>1, <2>2
<1>1. CASE UNCHANGED <<rows, req>>
  BY <1>0, <1>1 DEF Named, At
<1>2. ASSUME NEW r \in Requests, NEW i \in Instances, NEW p \in Paths, Lookup(r, i, p)
      PROVE  /\ UNCHANGED rows
             /\ \A k \in Requests \ {r} : req'[k] = req[k]
             /\ req'[r].pc \in {"touch", "create"}
  BY <1>2 DEF Lookup, IInv, TypeOK
\* A request that creates nothing, and records nothing.
<1>3. ASSUME NEW r \in Requests,
             \A c \in Contexts : Named(c)' => Named(c) /\ rows'[c].sandbox = rows[c].sandbox,
             \A k \in Requests \ {r} : req'[k] = req[k],
             req'[r].pc \in Creating \cup {"abort"} =>
                 req[r].pc \in Creating /\ req'[r].sb = req[r].sb
      PROVE  /\ \A c \in Contexts : Named(c)' => rows'[c].sandbox # req'[q].sb
             /\ \A k \in Requests \ {q} : req'[k].pc \in Creating => req'[k].sb # req'[q].sb
  <2>1. req[q].pc \in Creating \cup {"abort"} /\ req'[q].sb = req[q].sb
    BY <1>3 DEF At
  <2>2. \A k \in Requests \ {q} : req'[k].pc \in Creating =>
            req[k].pc \in Creating /\ req'[k].sb = req[k].sb
    BY <1>3
  <2> QED  BY <1>0, <1>3, <2>1, <2>2
<1>4. ASSUME NEW r \in Requests, RequestStep(r) \/ Release(r)
      PROVE  \A k \in Requests \ {r} : req'[k] = req[k]
  BY <1>4 DEF RequestStep, Release, Touch, Reconnect, Discard, Create, Refuse, Insert, Refetch,
     Yield, Abort, Ready, StoreError, Goto, Return, Finish, IInv, TypeOK
<1>5. ASSUME NEW c \in Contexts, Named(c), NEW st \in {"creating", "ready", "terminated"},
             NEW op \in BOOLEAN, NEW ex \in BOOLEAN, SetRow(c, st, op, ex)
      PROVE  \A d \in Contexts : Named(d)' => Named(d) /\ rows'[d].sandbox = rows[d].sandbox
  BY <1>5, SetRowKeeps DEF IInv, SameNames
<1>6. ASSUME NEW r \in Requests, Touch(r) \/ Discard(r) \/ Ready(r)
      PROVE  /\ \A c \in Contexts : Named(c)' => Named(c) /\ rows'[c].sandbox = rows[c].sandbox
             /\ req'[r].pc \notin Creating \cup {"abort"}
  <2>1. /\ req[r].ctx \in Contexts /\ Named(req[r].ctx)
        /\ rows[req[r].ctx] \in Row /\ rows[req[r].ctx].status # "none"
    BY <1>6 DEF Touch, Discard, Ready, At, IInv, TypeOK, RequestsInv, WithContext, Named
  <2>2. req'[r].pc \notin Creating \cup {"abort"}
    BY <1>6 DEF Touch, Discard, Ready, Goto, Return, IInv, TypeOK, Creating
  <2>3. CASE Touch(r)
    BY <1>5, <2>1, <2>2, <2>3 DEF Touch, TouchRow, Row
  <2>4. CASE Discard(r)
    BY <1>5, <2>1, <2>2, <2>4 DEF Discard, CloseRow
  <2>5. CASE Ready(r)
    BY <1>5, <2>1, <2>2, <2>5 DEF Ready, ReadyRow, Row
  <2> QED  BY <1>6, <2>3, <2>4, <2>5
<1>7. ASSUME NEW r \in Requests,
             \/ Reconnect(r, "reconnect", "discard") \/ Reconnect(r, "join", "abort")
             \/ Refuse(r) \/ Refetch(r) \/ Yield(r) \/ Abort(r) \/ StoreError(r) \/ Release(r)
      PROVE  /\ UNCHANGED rows
             /\ req'[r].pc \in Creating \cup {"abort"} =>
                    req[r].pc \in Creating /\ req'[r].sb = req[r].sb
  BY <1>7 DEF Reconnect, Refuse, Refetch, Yield, Abort, StoreError, Release, Goto, Return, Finish,
     IdleReq, At, IInv, TypeOK, Creating
<1>8. ASSUME NEW r \in Requests, Create(r)
      PROVE  /\ \A c \in Contexts : Named(c)' => rows'[c].sandbox # req'[q].sb
             /\ \A k \in Requests \ {q} : req'[k].pc \in Creating => req'[k].sb # req'[q].sb
  <2>1. PICK s \in Sandboxes : e2b[s] = "none" /\ Goto(r, "insert", 0, s)
    BY <1>8 DEF Create, FreshSandbox
  <2>2. UNCHANGED rows /\ req'[r].pc = "insert" /\ req'[r].sb = s /\ \A k \in Requests \ {r} : req'[k] = req[k]
    BY <1>8, <2>1 DEF Create, Goto, IInv, TypeOK
  <2>3. q # r /\ req'[q] = req[q] /\ At(q, "abort")
    BY <2>2 DEF At
  <2>4. req[q].sb # s
    BY <2>1, <2>3 DEF IInv, RequestsInv, At, WithSandbox
  <2> QED  BY <2>2, <2>3, <2>4 DEF AbortedUnnamed, Named
<1>9. ASSUME NEW r \in Requests, Insert(r)
      PROVE  /\ \A c \in Contexts : Named(c)' => rows'[c].sandbox # req'[q].sb
             /\ \A k \in Requests \ {q} : req'[k].pc \in Creating => req'[k].sb # req'[q].sb
  <2>1. req[r].pc = "insert"
    BY <1>9 DEF Insert, At
  <2>2. CASE UNCHANGED rows /\ Goto(r, "refetch", 0, req[r].sb)
    <3>1. /\ \A k \in Requests \ {r} : req'[k] = req[k]
          /\ req'[r].pc = "refetch" /\ req'[r].sb = req[r].sb
      BY <2>2 DEF Goto, IInv, TypeOK
    <3> QED  BY <1>3, <2>1, <2>2, <3>1 DEF Creating, Named
  <2>3. ASSUME NEW c \in Contexts, InsertRow(c, req[r].path, req[r].sb),
               Goto(r, "ready", c, req[r].sb)
        PROVE  /\ \A d \in Contexts : Named(d)' => rows'[d].sandbox # req'[q].sb
               /\ \A k \in Requests \ {q} : req'[k].pc \in Creating => req'[k].sb # req'[q].sb
    <3>1. /\ \A k \in Requests \ {r} : req'[k] = req[k]
          /\ req'[r].pc = "ready"
      BY <2>3 DEF Goto, IInv, TypeOK
    <3>2. q # r /\ req'[q] = req[q] /\ At(q, "abort")
      BY <3>1 DEF At
    <3>3. req[r].sb # req[q].sb
      BY <2>1, <3>2 DEF AbortedUnnamed, Creating
    <3>4. \A d \in Contexts : Named(d)' => rows'[d].sandbox = req[r].sb
                                          \/ (Named(d) /\ rows'[d].sandbox = rows[d].sandbox)
      BY <2>3 DEF InsertRow, Named, IInv, TypeOK
    <3>5. \A k \in Requests \ {q} : req'[k].pc \in Creating => k # r /\ req'[k] = req[k]
      BY <3>1 DEF Creating
    <3> QED  BY <3>2, <3>3, <3>4, <3>5 DEF AbortedUnnamed
  <2> QED  BY <1>9, <2>2, <2>3 DEF Insert
<1>10. ASSUME NEW r \in Requests, RequestStep(r) \/ Release(r)
       PROVE  /\ \A c \in Contexts : Named(c)' => rows'[c].sandbox # req'[q].sb
              /\ \A k \in Requests \ {q} : req'[k].pc \in Creating => req'[k].sb # req'[q].sb
  <2>1. CASE Create(r) \/ Insert(r)
    BY <1>8, <1>9, <2>1
  <2>2. CASE Touch(r) \/ Discard(r) \/ Ready(r)
    BY <1>3, <1>4, <1>6, <1>10, <2>2
  <2>3. CASE \/ Reconnect(r, "reconnect", "discard") \/ Reconnect(r, "join", "abort")
             \/ Refuse(r) \/ Refetch(r) \/ Yield(r) \/ Abort(r) \/ StoreError(r) \/ Release(r)
    <3>1. \A c \in Contexts : Named(c)' => Named(c) /\ rows'[c].sandbox = rows[c].sandbox
      BY <1>7, <2>3 DEF Named
    <3> QED  BY <1>3, <1>4, <1>7, <1>10, <2>3, <3>1
  <2> QED  BY <1>10, <2>1, <2>2, <2>3 DEF RequestStep
<1>11. ASSUME NEW j \in Janitors, NEW i \in Instances,
              (\E p \in Paths : Merge(j, i, p)) \/ Sweep(j, i) \/ Shutdown(j, i)
       PROVE  UNCHANGED <<rows, req>>
  BY <1>11 DEF Merge, Sweep, Shutdown, StartJob
<1>12. ASSUME NEW j \in Janitors, Mark(j)
       PROVE  /\ \A c \in Contexts : Named(c)' => Named(c) /\ rows'[c].sandbox = rows[c].sandbox
              /\ UNCHANGED req
  <2>1. jan[j].ctx \in Contexts /\ Named(jan[j].ctx)
    BY <1>12 DEF Mark, Working, IInv, JanitorsInv
  <2> QED  BY <1>5, <1>12, <2>1 DEF Mark, CloseRow, Named
<1>13. ASSUME NEW c \in Contexts, Expire(c)
       PROVE  /\ \A d \in Contexts : Named(d)' => Named(d) /\ rows'[d].sandbox = rows[d].sandbox
              /\ UNCHANGED req
  <2>1. Named(c) /\ rows[c].status \in {"creating", "ready", "terminated"}
    BY <1>13 DEF Expire, Named, IInv, RowsInv, TypeOK, Row
  <2> QED  BY <1>5, <1>13, <2>1 DEF Expire
<1>14. ASSUME UNCHANGED req,
              \A c \in Contexts : Named(c)' => Named(c) /\ rows'[c].sandbox = rows[c].sandbox
       PROVE  /\ \A c \in Contexts : Named(c)' => rows'[c].sandbox # req'[q].sb
              /\ \A k \in Requests \ {q} : req'[k].pc \in Creating => req'[k].sb # req'[q].sb
  BY <1>0, <1>14 DEF At
<1>15. ASSUME NEW j \in Janitors, JanitorStep(j) PROVE Mark(j) \/ UNCHANGED <<rows, req>>
  BY <1>15 DEF JanitorStep, Take, ShutdownKill, Forget, ShutdownClear
<1>16. ASSUME NEW s \in Sandboxes, SandboxTimeout(s) PROVE UNCHANGED <<rows, req>>
  BY <1>16 DEF SandboxTimeout
<1>17. ASSUME NEW i \in Instances, Crash(i)
       PROVE  /\ \A c \in Contexts : Named(c)' => rows'[c].sandbox # req'[q].sb
              /\ \A k \in Requests \ {q} : req'[k].pc \in Creating => req'[k].sb # req'[q].sb
  <2>1. UNCHANGED rows /\ \A k \in Requests : req'[k] = req[k] \/ req'[k].pc = "idle"
    BY <1>17 DEF Crash, IdleReq
  <2> QED  BY <1>0, <2>1 DEF Named, Creating, At
<1>18. ASSUME NEW r \in Requests, NEW i \in Instances, NEW p \in Paths, Lookup(r, i, p)
       PROVE  /\ \A c \in Contexts : Named(c)' => rows'[c].sandbox # req'[q].sb
              /\ \A k \in Requests \ {q} : req'[k].pc \in Creating => req'[k].sb # req'[q].sb
  BY <1>2, <1>3, <1>18 DEF Creating, Named
<1> QED
  BY <1>1, <1>10, <1>11, <1>12, <1>13, <1>14, <1>15, <1>16, <1>17, <1>18 DEF Next, vars

\* A kill of what one request created spares the sandbox every other request uses.
LEMMA KillSpares ==
    ASSUME IInv, AbortedUnnamed, "reply" \notin Faults, NEW r \in Requests, NEW s \in Sandboxes,
           Yield(r) \/ Abort(r), Running(s), e2b'[s] = "dead", NEW q \in Requests,
           At(q, "using")
    PROVE  req[q].sb # s
<1>1. s = req[r].sb
  BY DEF Yield, Abort, Kill, Running, IInv, TypeOK
<1>2. \A c \in Contexts : Named(c) => rows[c].sandbox # req[r].sb
  BY DEF Yield, Abort, At, AbortedUnnamed, IInv, UnrecordedInv, Creating
<1>3. /\ req[q].ctx \in Contexts /\ Named(req[q].ctx)
      /\ rows[req[q].ctx].sandbox = req[q].sb
  BY DEF IInv, RequestsInv, At, WithContext
<1> QED  BY <1>1, <1>2, <1>3

\* Unless the reply of an insert that took effect is lost, the kill of the loser of a race
\* or of the catch block never hits a sandbox another request runs code in.
THEOREM KillsSpareUsers ==
    ASSUME "reply" \notin Faults
    PROVE  Spec => NoKillUnderUser
<1>1. Init => AbortedUnnamed
  BY DEF Init, AbortedUnnamed, At, IdleReq
<1>2. IInv /\ AbortedUnnamed /\ [Next]_vars => AbortedUnnamed'
  BY AbortedKept
<1>3. IInv /\ AbortedUnnamed /\ [Next]_vars
        => [\A r \in Requests, s \in Sandboxes : (Yield(r) \/ Abort(r)) /\ Running(s) /\ e2b'[s] = "dead"
              => \A q \in Requests \ {r} : ~(At(q, "using") /\ req[q].sb = s)]_vars
  BY KillSpares
<1> QED  BY <1>1, <1>2, <1>3, Invariance, PTL DEF Spec, NoKillUnderUser
================================================================================
