-------------------------- MODULE InventoryProofs --------------------------
(***************************************************************************)
(* Type correctness of Inventory for every set of entry points, and the    *)
(* absence of overselling for the entry points that take the inventory     *)
(* mutex, for every number of requests, reservations, room types and rooms.*)
(* Then who waits for whom (a poster is in no deadlock), and what a row    *)
(* says: its nights agree with its dates, its price covers its stay.       *)
(* Last, the arithmetic of every path that checks availability, for one    *)
(* request at a time.                                                      *)
(***************************************************************************)
EXTENDS Inventory, FiniteSetTheorems, TLAPS

USE DEF locks

\* What the step of a request says about the rest of it.
RequestShape ==
    \A w \in Workers : req[w] # Idle =>
        /\ req[w].pc \in {"rowlock", "property", "update", "charge"}
             => req[w].op \notin InsertPaths
        /\ req[w].op \notin InsertPaths => /\ req[w].id \in Res
                                           /\ res[req[w].id] \in Row
        /\ req[w].op = "split" => req[w].seen \in Row

TypeInv == TypeOK /\ RequestShape

LEMMA IdleIsNoRequest == Idle \notin Request /\ NoRow \notin Row
  BY DEF Idle, Request, Steps, NoRow, Row

\* Ending a request keeps the types and leaves the other requests alone.
LEMMA EndKeepsTypes ==
  ASSUME TypeOK, NEW w \in Workers, End(w)
  PROVE  /\ inv' \in [Types -> Workers \cup {Free}]
         /\ row' \in [Res -> Workers \cup {Free}]
         /\ prop' \in Workers \cup {Free}
         /\ propKeys' \subseteq Workers
         /\ typeKeys' \in [Types -> SUBSET Workers]
         /\ req' \in [Workers -> Request \cup {Idle}]
         /\ req'[w] = Idle
         /\ \A v \in Workers : v # w => req'[v] = req[v]
  BY DEF TypeOK, End

LEMMA NewRowType ==
  ASSUME NEW q \in Request, q.op = "split" => q.seen \in Row
  PROVE  NewRow(q) \in Row
<1>1. q.to \in Spans /\ q.to.type \in Types /\ q.to.arr \in Days /\ q.to.dep \in Days
  BY DEF Request, Spans
<1>2. q.to.dep - q.to.arr \in Int
  BY <1>1, ConstantsAssumption DEF Days
<1>3. (IF q.op = "accept" THEN {q.to} ELSE {}) \in {{}} \cup {{s} : s \in Spans}
  BY <1>1
<1>4. (IF q.op = "split" THEN q.seen.nights ELSE q.to.dep - q.to.arr) \in Int
  BY <1>2 DEF Row
<1> QED
  BY <1>1, <1>3, <1>4 DEF NewRow, Row

LEMMA UpdatedRowType ==
  ASSUME NEW q \in Request, NEW x \in Row
  PROVE  UpdatedRow(q, x) \in Row
<1>1. q.to \in Spans /\ q.to.type \in Types /\ q.to.arr \in Days /\ q.to.dep \in Days
  BY DEF Request, Spans
<1>2. q.to.dep - q.to.arr \in Int
  BY <1>1, ConstantsAssumption DEF Days
<1>3. (IF q.op = "amend" THEN {q.to} ELSE x.priced) \in {{}} \cup {{s} : s \in Spans}
  BY <1>1 DEF Row
<1>4. (IF q.set \cap {"arr", "dep"} # {} THEN q.to.dep - q.to.arr ELSE x.nights) \in Int
  BY <1>2 DEF Row
<1> QED
  BY <1>1, <1>3, <1>4 DEF UpdatedRow, Row

LEMMA StayOfType == ASSUME NEW x \in Row PROVE StayOf(x) \in Spans
  BY DEF StayOf, Spans, Row

\* A request that starts with the right types, and names an existing row when
\* it is not an insertion, keeps the invariant.
LEMMA StartKeepsTypes ==
  ASSUME TypeInv, NEW w \in Workers, NEW q \in Request, Start(w, q),
         q.pc \in {"rowlock", "property", "update", "charge"} => q.op \notin InsertPaths,
         q.op \notin InsertPaths => q.id \in Res /\ res[q.id] \in Row,
         q.op = "split" => q.seen \in Row
  PROVE  TypeInv'
<1>1. TypeOK'
  BY DEF TypeInv, TypeOK, Start
<1>2. RequestShape'
  <2> SUFFICES ASSUME NEW v \in Workers, req'[v] # Idle
               PROVE /\ req'[v].pc \in {"rowlock", "property", "update", "charge"}
                          => req'[v].op \notin InsertPaths
                     /\ req'[v].op \notin InsertPaths => /\ req'[v].id \in Res
                                                         /\ res'[req'[v].id] \in Row
                     /\ req'[v].op = "split" => req'[v].seen \in Row
    BY DEF RequestShape
  <2>1. CASE v = w
    BY <2>1 DEF TypeInv, TypeOK, Start
  <2>2. CASE v # w
    BY <2>2 DEF TypeInv, TypeOK, RequestShape, Start
  <2> QED BY <2>1, <2>2
<1> QED BY <1>1, <1>2 DEF TypeInv

LEMMA BeginKeepsTypes ==
  ASSUME TypeInv, NEW w \in Workers, Begin(w)
  PROVE  TypeInv'
<1> USE ConstantsAssumption
<1>0. \A r \in Res : res[r] # NoRow => res[r] \in Row
  BY DEF TypeInv, TypeOK
<1>1. CASE BeginInsert(w)
  <2>1. PICK op \in InsertPaths, to \in Stays :
           Start(w, [pc |-> IF op \in {"create", "accept"} THEN "lock" ELSE "check",
                     op |-> op, id |-> NoRes, to |-> to, set |-> Fields,
                     seen |-> NoRow])
    BY <1>1 DEF BeginInsert
  <2> DEFINE q == [pc |-> IF op \in {"create", "accept"} THEN "lock" ELSE "check",
                   op |-> op, id |-> NoRes, to |-> to, set |-> Fields, seen |-> NoRow]
  <2>2. q \in Request
    BY DEF Request, Steps, AllPaths, InsertPaths, Stays
  <2>3. q.pc \notin {"rowlock", "property", "update", "charge"} /\ q.op \in InsertPaths
        /\ q.op # "split"
    BY DEF InsertPaths
  <2> HIDE DEF q
  <2> QED BY <2>1, <2>2, <2>3, StartKeepsTypes DEF q
<1>2. CASE BeginModify(w)
  <2>1. PICK r \in Res, to \in Spans, set \in SUBSET Fields \ {{}} :
           /\ res[r] # NoRow
           /\ Start(w, [pc |-> IF to = StayOf(res[r]) THEN "update" ELSE "lock",
                        op |-> "modify", id |-> r, to |-> to, set |-> set,
                        seen |-> res[r]])
    BY <1>2 DEF BeginModify
  <2> DEFINE q == [pc |-> IF to = StayOf(res[r]) THEN "update" ELSE "lock",
                   op |-> "modify", id |-> r, to |-> to, set |-> set, seen |-> res[r]]
  <2>2. q \in Request
    BY <1>0, <2>1 DEF Request, Steps, AllPaths, ModifyPaths
  <2>3. q.op \notin InsertPaths /\ q.id \in Res /\ res[q.id] \in Row /\ q.op # "split"
    BY <1>0, <2>1 DEF InsertPaths
  <2> HIDE DEF q
  <2> QED BY <2>1, <2>2, <2>3, StartKeepsTypes DEF q
<1>3. CASE BeginChannelModify(w)
  <2>1. PICK r \in Res, to \in Stays :
           /\ res[r] # NoRow
           /\ Start(w, [pc |-> "check", op |-> "channelModify", id |-> r,
                        to |-> to, set |-> Fields, seen |-> res[r]])
    BY <1>3 DEF BeginChannelModify
  <2> DEFINE q == [pc |-> "check", op |-> "channelModify", id |-> r,
                   to |-> to, set |-> Fields, seen |-> res[r]]
  <2>2. q \in Request
    BY <1>0, <2>1 DEF Request, Steps, AllPaths, ModifyPaths, Stays
  <2>3. q.op \notin InsertPaths /\ q.id \in Res /\ res[q.id] \in Row /\ q.op # "split"
    BY <1>0, <2>1 DEF InsertPaths
  <2> HIDE DEF q
  <2> QED BY <2>1, <2>2, <2>3, StartKeepsTypes DEF q
<1>4. CASE BeginConnectModify(w)
  <2>1. PICK r \in Res, to \in Stays :
           /\ res[r] # NoRow
           /\ Start(w, [pc |-> "check", op |-> "connectModify", id |-> r,
                        to |-> to, set |-> Fields, seen |-> res[r]])
    BY <1>4 DEF BeginConnectModify
  <2> DEFINE q == [pc |-> "check", op |-> "connectModify", id |-> r,
                   to |-> to, set |-> Fields, seen |-> res[r]]
  <2>2. q \in Request
    BY <1>0, <2>1 DEF Request, Steps, AllPaths, ModifyPaths, Stays
  <2>3. q.op \notin InsertPaths /\ q.id \in Res /\ res[q.id] \in Row /\ q.op # "split"
    BY <1>0, <2>1 DEF InsertPaths
  <2> HIDE DEF q
  <2> QED BY <2>1, <2>2, <2>3, StartKeepsTypes DEF q
<1>5. CASE BeginAmend(w)
  <2>1. PICK r \in Res, a \in Days, d \in Days :
           /\ res[r] # NoRow
           /\ Start(w, [pc |-> "rowlock", op |-> "amend", id |-> r,
                        to |-> [type |-> res[r].type, arr |-> a, dep |-> d],
                        set |-> {"arr", "dep"}, seen |-> NoRow])
    BY <1>5 DEF BeginAmend
  <2> DEFINE q == [pc |-> "rowlock", op |-> "amend", id |-> r,
                   to |-> [type |-> res[r].type, arr |-> a, dep |-> d],
                   set |-> {"arr", "dep"}, seen |-> NoRow]
  <2>2. q \in Request
    <3>1. [type |-> res[r].type, arr |-> a, dep |-> d] \in Spans
      BY <1>0, <2>1 DEF Row, Spans
    <3> QED BY <3>1 DEF Request, Steps, AllPaths, ModifyPaths, Fields
  <2>3. q.op \notin InsertPaths /\ q.id \in Res /\ res[q.id] \in Row /\ q.op # "split"
    BY <1>0, <2>1 DEF InsertPaths
  <2> HIDE DEF q
  <2> QED BY <2>1, <2>2, <2>3, StartKeepsTypes DEF q
<1>6. CASE BeginPost(w)
  <2>1. PICK r \in Res, op \in {"postNight", "postOnce"} :
           /\ res[r] # NoRow
           /\ Start(w, [pc |-> "rowlock", op |-> op, id |-> r,
                        to |-> StayOf(res[r]), set |-> {}, seen |-> NoRow])
    BY <1>6 DEF BeginPost
  <2> DEFINE q == [pc |-> "rowlock", op |-> op, id |-> r,
                   to |-> StayOf(res[r]), set |-> {}, seen |-> NoRow]
  <2>2. q \in Request
    BY <1>0, <2>1, StayOfType DEF Request, Steps, AllPaths
  <2>3. q.op \notin InsertPaths /\ q.id \in Res /\ res[q.id] \in Row /\ q.op # "split"
    BY <1>0, <2>1 DEF InsertPaths
  <2> HIDE DEF q
  <2> QED BY <2>1, <2>2, <2>3, StartKeepsTypes DEF q
<1>7. CASE BeginSplit(w)
  <2>1. PICK r \in Res, t \in Types :
           /\ res[r] # NoRow
           /\ Start(w, [pc |-> "insert", op |-> "split", id |-> r,
                        to |-> [StayOf(res[r]) EXCEPT !.type = t],
                        set |-> Fields, seen |-> res[r]])
    BY <1>7 DEF BeginSplit
  <2> DEFINE q == [pc |-> "insert", op |-> "split", id |-> r,
                   to |-> [StayOf(res[r]) EXCEPT !.type = t],
                   set |-> Fields, seen |-> res[r]]
  <2>2. q \in Request
    <3>1. [StayOf(res[r]) EXCEPT !.type = t] \in Spans
      BY <1>0, <2>1, StayOfType DEF Spans
    <3> QED BY <3>1, <1>0, <2>1 DEF Request, Steps, AllPaths
  <2>3. q.op \notin InsertPaths /\ q.id \in Res /\ res[q.id] \in Row /\ q.seen \in Row
    BY <1>0, <2>1 DEF InsertPaths
  <2> HIDE DEF q
  <2> QED BY <2>1, <2>2, <2>3, StartKeepsTypes DEF q
<1>8. CASE BeginUpgrade(w)
  <2>1. PICK r \in Res, t \in Types :
           /\ res[r] # NoRow
           /\ Start(w, [pc |-> "update", op |-> "upgrade", id |-> r,
                        to |-> [StayOf(res[r]) EXCEPT !.type = t],
                        set |-> {"type"}, seen |-> res[r]])
    BY <1>8 DEF BeginUpgrade
  <2> DEFINE q == [pc |-> "update", op |-> "upgrade", id |-> r,
                   to |-> [StayOf(res[r]) EXCEPT !.type = t],
                   set |-> {"type"}, seen |-> res[r]]
  <2>2. q \in Request
    <3>1. [StayOf(res[r]) EXCEPT !.type = t] \in Spans
      BY <1>0, <2>1, StayOfType DEF Spans
    <3> QED BY <3>1, <1>0, <2>1 DEF Request, Steps, AllPaths, Fields
  <2>3. q.op \notin InsertPaths /\ q.id \in Res /\ res[q.id] \in Row /\ q.op # "split"
    BY <1>0, <2>1 DEF InsertPaths
  <2> HIDE DEF q
  <2> QED BY <2>1, <2>2, <2>3, StartKeepsTypes DEF q
<1> QED BY <1>1, <1>2, <1>3, <1>4, <1>5, <1>6, <1>7, <1>8 DEF Begin

\* The steps of a request after its start.
LEMMA ProceedKeepsTypes ==
  ASSUME TypeInv, NEW w \in Workers, Proceed(w) \/ Abort(w)
  PROVE  TypeInv'
<1> USE ConstantsAssumption
<1> DEFINE q == req[w]
<1>0. /\ q \in Request \cup {Idle}
      /\ q.pc \in Steps => q # Idle
      /\ q # Idle => q \in Request
  BY DEF TypeInv, TypeOK, Idle, Steps
<1>end. ASSUME End(w), UNCHANGED busy,
               res' \in [Res -> Row \cup {NoRow}],
               \A r \in Res : res[r] \in Row => res'[r] \in Row
        PROVE  TypeInv'
  <2>1. TypeOK'
    BY <1>end, EndKeepsTypes DEF TypeInv, TypeOK
  <2>2. RequestShape'
    <3> SUFFICES ASSUME NEW v \in Workers, req'[v] # Idle
                 PROVE /\ req'[v].pc \in {"rowlock", "property", "update", "charge"}
                            => req'[v].op \notin InsertPaths
                       /\ req'[v].op \notin InsertPaths => /\ req'[v].id \in Res
                                                           /\ res'[req'[v].id] \in Row
                       /\ req'[v].op = "split" => req'[v].seen \in Row
      BY DEF RequestShape
    <3>1. v # w /\ req'[v] = req[v]
      BY <1>end, EndKeepsTypes DEF TypeInv
    <3> QED BY <3>1, <1>end DEF TypeInv, RequestShape
  <2> QED BY <2>1, <2>2 DEF TypeInv
<1>step. ASSUME NEW p \in Request, q # Idle, req' = [req EXCEPT ![w] = p],
                p.op = q.op, p.id = q.id, UNCHANGED <<res, busy>>,
                p.pc \in {"rowlock", "property", "update", "charge"}
                   => p.op \notin InsertPaths,
                p.op = "split" => p.seen \in Row,
                inv' \in [Types -> Workers \cup {Free}],
                row' \in [Res -> Workers \cup {Free}],
                prop' \in Workers \cup {Free},
                UNCHANGED <<propKeys, typeKeys>>
         PROVE  TypeInv'
  <2>1. TypeOK'
    BY <1>step DEF TypeInv, TypeOK
  <2>2. RequestShape'
    <3> SUFFICES ASSUME NEW v \in Workers, req'[v] # Idle
                 PROVE /\ req'[v].pc \in {"rowlock", "property", "update", "charge"}
                            => req'[v].op \notin InsertPaths
                       /\ req'[v].op \notin InsertPaths => /\ req'[v].id \in Res
                                                           /\ res'[req'[v].id] \in Row
                       /\ req'[v].op = "split" => req'[v].seen \in Row
      BY DEF RequestShape
    <3>1. CASE v = w
      BY <3>1, <1>step DEF TypeInv, TypeOK, RequestShape
    <3>2. CASE v # w
      BY <3>2, <1>step DEF TypeInv, TypeOK, RequestShape
    <3> QED BY <3>1, <3>2
  <2> QED BY <2>1, <2>2 DEF TypeInv
<1>1. CASE LockRow(w)
  <2>0. q # Idle /\ q \in Request /\ q.pc = "rowlock"
    BY <1>0, <1>1 DEF LockRow, Steps
  <2>1. q.op \notin InsertPaths /\ q.id \in Res /\ res[q.id] \in Row
    BY <2>0 DEF TypeInv, RequestShape
  <2> DEFINE p == [q EXCEPT !.pc = IF q.op = "amend" THEN "property" ELSE "charge",
                            !.seen = res[q.id], !.to.type = res[q.id].type]
  <2>2. [q.to EXCEPT !.type = res[q.id].type] \in Spans
    BY <2>0, <2>1 DEF Request, Spans, Row
  <2>3. p \in Request /\ p.op = q.op /\ p.id = q.id /\ p.seen \in Row
    BY <2>0, <2>1, <2>2 DEF Request, Steps
  <2>4. req' = [req EXCEPT ![w] = p]
    BY <1>1 DEF LockRow
  <2> HIDE DEF p
  <2>5. row' \in [Res -> Workers \cup {Free}]
    BY <1>1, <2>1 DEF LockRow, TypeInv, TypeOK
  <2>6. UNCHANGED <<res, busy, inv, prop, propKeys, typeKeys>>
    BY <1>1 DEF LockRow
  <2> QED BY <2>0, <2>1, <2>3, <2>4, <2>5, <2>6, <1>step DEF TypeInv, TypeOK
<1>2. CASE LockProperty(w)
  <2>0. q # Idle /\ q \in Request
    BY <1>0, <1>2 DEF LockProperty, Steps
  <2>1. [q EXCEPT !.pc = "lock"] \in Request
    BY <2>0 DEF Request, Steps
  <2>2. req' = [req EXCEPT ![w] = [q EXCEPT !.pc = "lock"]] /\ prop' = w
        /\ UNCHANGED <<res, busy, inv, row, propKeys, typeKeys>>
    BY <1>2 DEF LockProperty, Goto
  <2> QED BY <2>0, <2>1, <2>2, <1>step DEF TypeInv, TypeOK, Request, RequestShape
<1>3. CASE LockInventory(w)
  <2>0. q # Idle /\ q \in Request
    BY <1>0, <1>3 DEF LockInventory, Steps
  <2>1. [q EXCEPT !.pc = "check"] \in Request
    BY <2>0 DEF Request, Steps
  <2>2. req' = [req EXCEPT ![w] = [q EXCEPT !.pc = "check"]]
        /\ UNCHANGED <<res, busy, row, prop, propKeys, typeKeys>>
    BY <1>3 DEF LockInventory, Goto
  <2>3. inv' \in [Types -> Workers \cup {Free}]
    BY <1>3 DEF LockInventory, TypeInv, TypeOK
  <2> QED BY <2>0, <2>1, <2>2, <2>3, <1>step DEF TypeInv, TypeOK, Request, RequestShape
<1>4. CASE CheckPasses(w)
  <2> DEFINE p == [q EXCEPT !.pc = IF q.op \in InsertPaths THEN "insert" ELSE "update"]
  <2>0. q # Idle /\ q \in Request
    BY <1>0, <1>4 DEF CheckPasses, Steps
  <2>1. p \in Request
    BY <2>0 DEF Request, Steps
  <2>2. req' = [req EXCEPT ![w] = p] /\ UNCHANGED <<res, busy, locks>>
    BY <1>4 DEF CheckPasses, Goto
  <2>3. p.op = q.op /\ p.id = q.id /\ p.seen = q.seen
        /\ (p.pc \in {"rowlock", "property", "update", "charge"} => p.op \notin InsertPaths)
    BY <2>0 DEF Request
  <2> HIDE DEF p
  <2> QED BY <2>0, <2>1, <2>2, <2>3, <1>step DEF TypeInv, TypeOK, RequestShape
<1>5. CASE CheckFails(w)
  BY <1>5, <1>end DEF CheckFails, TypeInv, TypeOK
<1>6. CASE Insert(w)
  <2>0. q # Idle /\ q \in Request
    BY <1>0, <1>6 DEF Insert, Steps
  <2>1. NewRow(q) \in Row
    BY <2>0, NewRowType DEF TypeInv, RequestShape
  <2>2. PICK r \in Res : res[r] = NoRow /\ res' = [res EXCEPT ![r] = NewRow(q)]
    BY <1>6 DEF Insert
  <2>3. res' \in [Res -> Row \cup {NoRow}] /\ \A s \in Res : res[s] \in Row => res'[s] \in Row
    BY <2>1, <2>2 DEF TypeInv, TypeOK
  <2> QED BY <1>6, <2>3, <1>end DEF Insert
<1>7. CASE Update(w)
  <2>0. q # Idle /\ q \in Request
    BY <1>0, <1>7 DEF Update, Steps
  <2>1. q.id \in Res /\ res[q.id] \in Row
    BY <2>0, <1>7 DEF Update, TypeInv, RequestShape
  <2>2. UpdatedRow(q, res[q.id]) \in Row
    BY <2>0, <2>1, UpdatedRowType
  <2>3. res' = [res EXCEPT ![q.id] = UpdatedRow(q, res[q.id])]
    BY <1>7 DEF Update
  <2>4. res' \in [Res -> Row \cup {NoRow}] /\ \A s \in Res : res[s] \in Row => res'[s] \in Row
    BY <2>1, <2>2, <2>3 DEF TypeInv, TypeOK
  <2> QED BY <1>7, <2>4, <1>end DEF Update
<1>8. CASE PostCharge(w)
  BY <1>8, <1>end DEF PostCharge, TypeInv, TypeOK
<1>9. CASE Abort(w)
  BY <1>9, <1>end DEF Abort, TypeInv, TypeOK
<1>10. CASE ShareProperty(w) \/ ShareType(w) \/ LockUpdated(w)
  <2>0. q # Idle /\ q \in Request
    BY <1>0, <1>10 DEF ShareProperty, ShareType, LockUpdated, Steps
  <2>1. q.to.type \in Types
    BY <2>0 DEF Request, Spans
  <2>2. UNCHANGED <<res, busy, inv, prop, req>>
    BY <1>10 DEF ShareProperty, ShareType, LockUpdated
  <2>3. propKeys' \subseteq Workers /\ typeKeys' \in [Types -> SUBSET Workers]
        /\ row' \in [Res -> Workers \cup {Free}]
    BY <1>10 DEF ShareProperty, ShareType, LockUpdated, TypeInv, TypeOK
  <2> QED BY <2>2, <2>3 DEF TypeInv, TypeOK, RequestShape
<1> QED BY <1>1, <1>2, <1>3, <1>4, <1>5, <1>6, <1>7, <1>8, <1>9, <1>10 DEF Proceed

LEMMA TypeInvInductive == TypeInv /\ [Next]_vars => TypeInv'
<1> SUFFICES ASSUME TypeInv, [Next]_vars PROVE TypeInv'
  OBVIOUS
<1>1. ASSUME NEW w \in Workers, Begin(w) \/ Proceed(w) \/ Abort(w) PROVE TypeInv'
  BY <1>1, BeginKeepsTypes, ProceedKeepsTypes
<1>2. ASSUME NEW r \in Res, Release(r) PROVE TypeInv'
  <2>1. res[r] \in Row /\ [res[r] EXCEPT !.status = "released"] \in Row
    BY <1>2 DEF Release, TypeInv, TypeOK, Row
  <2>2. res' = [res EXCEPT ![r] = [res[r] EXCEPT !.status = "released"]]
        /\ UNCHANGED <<busy, locks, req>>
    BY <1>2 DEF Release
  <2> QED BY <2>1, <2>2 DEF TypeInv, TypeOK, RequestShape
<1>3. ASSUME NEW f \in Feeds, SyncImportFeed(f) PROVE TypeInv'
  <2>1. PICK nights \in SUBSET (0..(Horizon - 1)) : busy' = [busy EXCEPT ![f] = nights]
    BY <1>3 DEF SyncImportFeed
  <2>2. nights \in SUBSET Days
    BY ConstantsAssumption DEF Days
  <2>3. busy' \in [Feeds -> SUBSET Days] /\ UNCHANGED <<res, locks, req>>
    BY <2>1, <2>2, <1>3 DEF SyncImportFeed, TypeInv, TypeOK
  <2> QED BY <2>3 DEF TypeInv, TypeOK, RequestShape
<1>4. CASE UNCHANGED vars
  BY <1>4 DEF vars, TypeInv, TypeOK, RequestShape
<1> QED BY <1>1, <1>2, <1>3, <1>4 DEF Next

LEMMA TypeInvInitially == Init => TypeInv
  BY ConstantsAssumption DEF Init, TypeInv, TypeOK, RequestShape

\* Every reachable state is well typed, whichever entry points are in use: a
\* request that waits for or writes a row always names one that exists.
THEOREM TypeCorrect == Spec => []TypeOK
<1>1. TypeInv => TypeOK
  BY DEF TypeInv
<1> QED BY <1>1, TypeInvInitially, TypeInvInductive, PTL DEF Spec

-----------------------------------------------------------------------------
(* No overselling on the paths that take the inventory mutex *)

CanonicalPaths == {"create", "accept", "amend", "postNight", "postOnce",
                   "release", "ical"}

\* The row a request does not count against itself.
Own(q) == IF q.op = "amend" THEN {q.id} ELSE {}

\* Sold over an explicit table, so that it can be applied to res and to res'.
SoldIn(table, t, n) == {r \in Res : Occupies(table[r], t, n)}

\* There is room for q in the table.
Room(table, q) ==
    \A n \in Nights(q.to) :
        Cardinality(SoldIn(table, q.to.type, n) \ Own(q)) < Capacity(q.to.type)

WithinCapacity(table) ==
    \A t \in Types, n \in 0..(Horizon - 1) :
        Cardinality(SoldIn(table, t, n)) <= Capacity(t)

\* Which step belongs to which path.
ShapeOf(table, q) ==
    /\ q.op \in {"create", "accept", "amend", "postNight", "postOnce"}
    /\ q.op \in {"create", "accept"} => q.pc \in {"lock", "check", "insert"}
    /\ q.op \in {"postNight", "postOnce"} => q.pc \in {"rowlock", "charge"}
    /\ q.op = "amend" => /\ q.pc \in {"rowlock", "property", "lock", "check", "update"}
                         /\ q.set = {"arr", "dep"}
                         /\ q.to.type = table[q.id].type

PathShape == \A w \in Workers : req[w] # Idle => ShapeOf(res, req[w])

\* From the check on, a request holds the mutex of its room type.
HoldsMutex ==
    \A w \in Workers :
        req[w].pc \in {"check", "insert", "update"} => inv[req[w].to.type] = w

\* What the check found still holds when the request writes.
CheckStillHolds ==
    \A w \in Workers : req[w].pc \in {"insert", "update"} => Room(res, req[w])

MutexInv == TypeInv /\ PathShape /\ HoldsMutex /\ CheckStillHolds /\ WithinCapacity(res)

LEMMA CapacityType == \A t \in Types : Capacity(t) \in Nat
<1> TAKE t \in Types
<1>1. Rooms[t] \in Nat /\ OverbookingPct \in Nat
  BY ConstantsAssumption
<1>2. Rooms[t] * OverbookingPct \in Nat
  BY <1>1
<1>3. \A k \in Nat : k \div 100 \in Nat
  OBVIOUS
<1> QED BY <1>1, <1>2, <1>3 DEF Capacity

LEMMA SoldFinite ==
  ASSUME NEW table, NEW t, NEW n, NEW X
  PROVE  /\ IsFiniteSet(SoldIn(table, t, n)) /\ IsFiniteSet(SoldIn(table, t, n) \ X)
         /\ Cardinality(SoldIn(table, t, n)) \in Nat
         /\ Cardinality(SoldIn(table, t, n) \ X) \in Nat
<1>1. SoldIn(table, t, n) \in SUBSET Res /\ SoldIn(table, t, n) \ X \in SUBSET Res
  BY DEF SoldIn
<1> QED BY <1>1, ConstantsAssumption, FS_Subset, FS_CardinalityType

\* A check that passes leaves room for one more reservation on every night.
LEMMA CheckFindsRoom ==
  ASSUME NEW q \in Request, Fits(q), q.op \in {"create", "accept", "amend"}
  PROVE  Room(res, q)
<1> SUFFICES ASSUME NEW n \in Nights(q.to)
             PROVE  Cardinality(SoldIn(res, q.to.type, n) \ Own(q)) < Capacity(q.to.type)
  BY DEF Room
<1>1. q.to.type \in Types
  BY DEF Request, Spans
<1>2. GiveBack(q, n) = 0
  BY DEF GiveBack
<1>3. Available(q.to.type, n, Own(q)) + 0 > 0
  BY <1>2 DEF Fits, Own
<1>4. Cardinality(ImportedBusy(q.to.type, n)) \in Nat
  BY ConstantsAssumption, FS_Subset, FS_CardinalityType DEF ImportedBusy
<1>5. Cardinality(SoldIn(res, q.to.type, n) \ Own(q)) \in Nat
  BY SoldFinite
<1>6. Capacity(q.to.type) \in Nat
  BY <1>1, CapacityType
<1>7. Sold(q.to.type, n) = SoldIn(res, q.to.type, n)
  BY DEF Sold, SoldIn
<1> QED BY <1>3, <1>4, <1>5, <1>6, <1>7 DEF Available

\* A set that gains at most one element over a smaller one.
LEMMA OneMore ==
  ASSUME NEW S, NEW T, NEW x, IsFiniteSet(S), T \subseteq S \cup {x}
  PROVE  Cardinality(T) <= Cardinality(S) + 1
<1>1. Cardinality(S) \in Nat
  BY FS_CardinalityType
<1>2. IsFiniteSet(S \cup {x})
  BY FS_AddElement
<1>3. Cardinality(S \cup {x}) = Cardinality(S) \/ Cardinality(S \cup {x}) = Cardinality(S) + 1
  BY FS_AddElement
<1>4. T \in SUBSET (S \cup {x})
  OBVIOUS
<1>5. IsFiniteSet(T) /\ Cardinality(T) <= Cardinality(S \cup {x})
  BY <1>2, <1>4, FS_Subset
<1>6. Cardinality(T) \in Nat
  BY <1>5, FS_CardinalityType
<1> QED BY <1>1, <1>3, <1>5, <1>6

\* Fewer occupied rows never hurt.
LEMMA FewerRows ==
  ASSUME NEW table, NEW next, NEW t \in Types, NEW n, NEW X,
         SoldIn(next, t, n) \subseteq SoldIn(table, t, n)
  PROVE  /\ Cardinality(SoldIn(next, t, n)) <= Cardinality(SoldIn(table, t, n))
         /\ Cardinality(SoldIn(next, t, n) \ X) <= Cardinality(SoldIn(table, t, n) \ X)
<1>1. SoldIn(next, t, n) \in SUBSET SoldIn(table, t, n)
      /\ SoldIn(next, t, n) \ X \in SUBSET (SoldIn(table, t, n) \ X)
  OBVIOUS
<1>2. IsFiniteSet(SoldIn(table, t, n)) /\ IsFiniteSet(SoldIn(table, t, n) \ X)
  BY SoldFinite
<1> QED BY <1>1, <1>2, FS_Subset

\* Room for a request survives when its room type gains no occupied night.
LEMMA RoomKept ==
  ASSUME NEW table, NEW next, NEW q \in Request, Room(table, q),
         \A n \in Nights(q.to) : SoldIn(next, q.to.type, n) \subseteq SoldIn(table, q.to.type, n)
  PROVE  Room(next, q)
<1> SUFFICES ASSUME NEW n \in Nights(q.to)
             PROVE  Cardinality(SoldIn(next, q.to.type, n) \ Own(q)) < Capacity(q.to.type)
  BY DEF Room
<1>1. q.to.type \in Types
  BY DEF Request, Spans
<1>2. Cardinality(SoldIn(table, q.to.type, n) \ Own(q)) < Capacity(q.to.type)
  BY DEF Room
<1>3. Cardinality(SoldIn(next, q.to.type, n) \ Own(q))
        <= Cardinality(SoldIn(table, q.to.type, n) \ Own(q))
  BY <1>1, FewerRows
<1>4. /\ Cardinality(SoldIn(table, q.to.type, n) \ Own(q)) \in Nat
      /\ Cardinality(SoldIn(next, q.to.type, n) \ Own(q)) \in Nat
      /\ Capacity(q.to.type) \in Nat
  BY <1>1, SoldFinite, CapacityType
<1> QED BY <1>2, <1>3, <1>4

\* So does the bound itself.
LEMMA CapacityKept ==
  ASSUME NEW table, NEW next, WithinCapacity(table),
         \A t \in Types, n \in 0..(Horizon - 1) :
             SoldIn(next, t, n) \subseteq SoldIn(table, t, n)
  PROVE  WithinCapacity(next)
<1> SUFFICES ASSUME NEW t \in Types, NEW n \in 0..(Horizon - 1)
             PROVE  Cardinality(SoldIn(next, t, n)) <= Capacity(t)
  BY DEF WithinCapacity
<1>1. Cardinality(SoldIn(table, t, n)) <= Capacity(t)
  BY DEF WithinCapacity
<1>2. Cardinality(SoldIn(next, t, n)) <= Cardinality(SoldIn(table, t, n))
  BY FewerRows
<1>3. /\ Cardinality(SoldIn(table, t, n)) \in Nat
      /\ Cardinality(SoldIn(next, t, n)) \in Nat
      /\ Capacity(t) \in Nat
  BY SoldFinite, CapacityType
<1> QED BY <1>1, <1>2, <1>3

\* Writing row r for a request that has room keeps every night within capacity.
LEMMA WriteFits ==
  ASSUME NEW table, NEW next, NEW q \in Request, NEW r \in Res,
         WithinCapacity(table), Room(table, q),
         q.op = "amend" => q.id = r,
         \A s \in Res \ {r} : next[s] = table[s],
         q.op # "amend" => table[r] = NoRow,
         next[r].type = q.to.type,
         next[r].arr = q.to.arr, next[r].dep = q.to.dep
  PROVE  /\ WithinCapacity(next)
         /\ \A t \in Types \ {q.to.type}, n \in Int :
               SoldIn(next, t, n) \subseteq SoldIn(table, t, n)
<1>0. q.to \in Spans /\ q.to.type \in Types /\ q.to.arr \in Int /\ q.to.dep \in Int
  BY ConstantsAssumption DEF Request, Spans, Days
<1>1. \A t \in Types, n \in Int :
         SoldIn(next, t, n) \subseteq (SoldIn(table, t, n) \ Own(q)) \cup {r}
  BY DEF SoldIn, Own
<1>2. \A t \in Types, n \in Int : ~ Occupies(next[r], t, n)
         => SoldIn(next, t, n) \subseteq SoldIn(table, t, n)
  BY DEF SoldIn
<1>3. WithinCapacity(next)
  <2> SUFFICES ASSUME NEW t \in Types, NEW n \in 0..(Horizon - 1)
               PROVE  Cardinality(SoldIn(next, t, n)) <= Capacity(t)
    BY DEF WithinCapacity
  <2>0. n \in Int
    BY ConstantsAssumption
  <2>3. /\ Cardinality(SoldIn(table, t, n)) \in Nat
        /\ Cardinality(SoldIn(table, t, n) \ Own(q)) \in Nat
        /\ Cardinality(SoldIn(next, t, n)) \in Nat
        /\ Capacity(t) \in Nat
    BY SoldFinite, CapacityType
  <2>1. CASE Occupies(next[r], t, n)
    <3>1. t = q.to.type /\ n \in Nights(q.to)
      BY <2>1, <2>0, <1>0 DEF Occupies, Nights
    <3>2. Cardinality(SoldIn(table, t, n) \ Own(q)) < Capacity(t)
      BY <3>1 DEF Room
    <3>3. IsFiniteSet(SoldIn(table, t, n) \ Own(q))
      BY SoldFinite
    <3>4. Cardinality(SoldIn(next, t, n)) <= Cardinality(SoldIn(table, t, n) \ Own(q)) + 1
      BY <1>1, <2>0, <3>3, OneMore
    <3> QED BY <3>2, <3>4, <2>3
  <2>2. CASE ~ Occupies(next[r], t, n)
    <3>1. Cardinality(SoldIn(next, t, n)) <= Cardinality(SoldIn(table, t, n))
      BY <1>2, <2>2, <2>0, FewerRows
    <3>2. Cardinality(SoldIn(table, t, n)) <= Capacity(t)
      BY DEF WithinCapacity
    <3> QED BY <3>1, <3>2, <2>3
  <2> QED BY <2>1, <2>2
<1>4. \A t \in Types \ {q.to.type}, n \in Int : SoldIn(next, t, n) \subseteq SoldIn(table, t, n)
  BY <1>2 DEF Occupies
<1> QED BY <1>3, <1>4

\* A step that only changes the request of w, and at most takes locks.
LEMMA Moves ==
  ASSUME MutexInv, TypeInv', UNCHANGED res,
         NEW w \in Workers, NEW q \in Request, req' = [req EXCEPT ![w] = q],
         ShapeOf(res, q),
         \A v \in Workers \ {w}, t \in Types : inv[t] = v => inv'[t] = v,
         q.pc \in {"check", "insert", "update"} => inv'[q.to.type] = w,
         q.pc \in {"insert", "update"} => Room(res, q)
  PROVE  MutexInv'
<1>0. req \in [Workers -> Request \cup {Idle}] /\ Idle.pc = "idle"
  BY DEF MutexInv, TypeInv, TypeOK, Idle
<1>1. req'[w] = q /\ \A v \in Workers \ {w} : req'[v] = req[v]
  BY <1>0
<1>2. PathShape'
  <2> SUFFICES ASSUME NEW v \in Workers, req'[v] # Idle PROVE ShapeOf(res', req'[v])
    BY DEF PathShape, ShapeOf
  <2> QED BY <1>1 DEF MutexInv, PathShape
<1>3. HoldsMutex'
  <2> SUFFICES ASSUME NEW v \in Workers, req'[v].pc \in {"check", "insert", "update"}
               PROVE  inv'[req'[v].to.type] = v
    BY DEF HoldsMutex
  <2>1. CASE v = w
    BY <1>1, <2>1
  <2>2. CASE v # w
    <3>1. req'[v] = req[v] /\ inv[req[v].to.type] = v
      BY <1>1, <2>2 DEF MutexInv, HoldsMutex
    <3>2. req[v] \in Request
      BY <1>0, <3>1
    <3>3. req[v].to.type \in Types
      BY <3>2 DEF Request, Spans
    <3> QED BY <2>2, <3>1, <3>3
  <2> QED BY <2>1, <2>2
<1>4. CheckStillHolds'
  <2> SUFFICES ASSUME NEW v \in Workers, req'[v].pc \in {"insert", "update"}
               PROVE  Room(res', req'[v])
    BY DEF CheckStillHolds, Room, SoldIn, Occupies, Own, Capacity
  <2> QED BY <1>1 DEF MutexInv, CheckStillHolds
<1>5. WithinCapacity(res)'
  BY DEF MutexInv, WithinCapacity, SoldIn, Occupies
<1> QED BY <1>2, <1>3, <1>4, <1>5 DEF MutexInv

\* A step that ends the request of w after writing nothing or a row that fits.
LEMMA Ends ==
  ASSUME MutexInv, TypeInv', NEW w \in Workers, End(w), WithinCapacity(res'),
         \A r \in Res : res[r] \in Row => res'[r].type = res[r].type,
         \A v \in Workers \ {w} : req[v].pc \in {"insert", "update"} => Room(res', req[v])
  PROVE  MutexInv'
<1>0. req \in [Workers -> Request \cup {Idle}] /\ Idle.pc = "idle"
      /\ inv \in [Types -> Workers \cup {Free}]
  BY DEF MutexInv, TypeInv, TypeOK, Idle
<1>1. req'[w] = Idle /\ \A v \in Workers \ {w} : req'[v] = req[v]
  BY <1>0 DEF End
<1>2. PathShape'
  <2> SUFFICES ASSUME NEW v \in Workers, req'[v] # Idle PROVE ShapeOf(res', req'[v])
    BY DEF PathShape, ShapeOf
  <2>1. v # w /\ req'[v] = req[v] /\ ShapeOf(res, req[v])
    BY <1>1 DEF MutexInv, PathShape
  <2>2. req[v].op = "amend" => req[v].id \in Res /\ res[req[v].id] \in Row
    BY <2>1, <1>1 DEF MutexInv, TypeInv, RequestShape, InsertPaths
  <2> QED BY <2>1, <2>2 DEF ShapeOf
<1>3. HoldsMutex'
  <2> SUFFICES ASSUME NEW v \in Workers, req'[v].pc \in {"check", "insert", "update"}
               PROVE  inv'[req'[v].to.type] = v
    BY DEF HoldsMutex
  <2>1. v # w /\ req'[v] = req[v] /\ inv[req[v].to.type] = v /\ req[v] # Idle
    BY <1>0, <1>1 DEF MutexInv, HoldsMutex
  <2>2. req[v] \in Request
    BY <1>0, <2>1
  <2>3. req[v].to.type \in Types
    BY <2>2 DEF Request, Spans
  <2> QED BY <2>1, <2>3 DEF End
<1>4. CheckStillHolds'
  <2> SUFFICES ASSUME NEW v \in Workers, req'[v].pc \in {"insert", "update"}
               PROVE  Room(res', req'[v])
    BY DEF CheckStillHolds, Room, SoldIn, Occupies, Own, Capacity
  <2>1. v # w /\ req'[v] = req[v]
    BY <1>0, <1>1
  <2> QED BY <2>1
<1>5. WithinCapacity(res)'
  BY DEF WithinCapacity, SoldIn, Occupies
<1> QED BY <1>2, <1>3, <1>4, <1>5 DEF MutexInv

\* The writer of room type t is alone: another request that holds a mutex holds
\* that of another type, and its check is not disturbed by rows of type t.
LEMMA OthersKeepRoom ==
  ASSUME MutexInv, NEW w \in Workers, NEW next, NEW t \in Types, inv[t] = w,
         \A u \in Types \ {t}, n \in Int : SoldIn(next, u, n) \subseteq SoldIn(res, u, n)
  PROVE  \A v \in Workers \ {w} : req[v].pc \in {"insert", "update"} => Room(next, req[v])
<1> SUFFICES ASSUME NEW v \in Workers \ {w}, req[v].pc \in {"insert", "update"}
             PROVE  Room(next, req[v])
  OBVIOUS
<1>1. req[v] \in Request
  BY DEF MutexInv, TypeInv, TypeOK, Idle
<1>2. req[v].to \in Spans /\ req[v].to.type \in Types
  BY <1>1 DEF Request, Spans
<1>3. inv[req[v].to.type] = v
  BY DEF MutexInv, HoldsMutex
<1>4. req[v].to.type # t
  BY <1>3
<1>5. \A n \in Nights(req[v].to) : n \in Int
  BY <1>2, ConstantsAssumption DEF Nights, Spans, Days
<1>6. Room(res, req[v])
  BY DEF MutexInv, CheckStillHolds
<1> QED BY <1>1, <1>2, <1>4, <1>5, <1>6, RoomKept

LEMMA BeginKeepsMutexInv ==
  ASSUME Paths \subseteq CanonicalPaths, MutexInv, TypeInv', NEW w \in Workers, Begin(w)
  PROVE  MutexInv'
<1> USE ConstantsAssumption
<1>0. TypeInv
  BY DEF MutexInv
<1>1. ASSUME NEW q \in Request, Start(w, q), ShapeOf(res, q),
             q.pc \notin {"check", "insert", "update"}
      PROVE  MutexInv'
  BY <1>1, Moves DEF Start
<1>2. ASSUME NEW q, Start(w, q), q.pc # "idle"
      PROVE  q.op \in CanonicalPaths /\ q \in Request
  <2>1. req'[w] = q /\ q.op \in Paths /\ req' \in [Workers -> Request \cup {Idle}]
    BY <1>0, <1>2 DEF Start, TypeInv, TypeOK
  <2> QED BY <1>2, <2>1 DEF Idle
<1>3. CASE BeginInsert(w)
  <2>1. PICK op \in InsertPaths, to \in Stays :
           Start(w, [pc |-> IF op \in {"create", "accept"} THEN "lock" ELSE "check",
                     op |-> op, id |-> NoRes, to |-> to, set |-> Fields,
                     seen |-> NoRow])
    BY <1>3 DEF BeginInsert
  <2>2. op \in {"create", "accept"}
    BY <2>1, <1>2 DEF CanonicalPaths, InsertPaths
  <2> QED BY <2>1, <2>2, <1>1, <1>2 DEF ShapeOf
<1>4. ~ (\/ BeginModify(w) \/ BeginChannelModify(w) \/ BeginConnectModify(w)
         \/ BeginUpgrade(w) \/ BeginSplit(w))
  <2>1. {"modify", "channelModify", "connectModify", "upgrade", "split"} \cap Paths = {}
    BY DEF CanonicalPaths
  <2>2. ~ BeginModify(w)
    BY <2>1 DEF BeginModify, Start
  <2>3. ~ BeginChannelModify(w)
    BY <2>1 DEF BeginChannelModify, Start
  <2>4. ~ BeginConnectModify(w)
    BY <2>1 DEF BeginConnectModify, Start
  <2>5. ~ BeginSplit(w)
    BY <2>1 DEF BeginSplit, Start
  <2>6. ~ BeginUpgrade(w)
    BY <2>1 DEF BeginUpgrade, Start
  <2> QED BY <2>2, <2>3, <2>4, <2>5, <2>6
<1>5. CASE BeginAmend(w)
  <2>1. PICK r \in Res, a \in Days, d \in Days :
           Start(w, [pc |-> "rowlock", op |-> "amend", id |-> r,
                     to |-> [type |-> res[r].type, arr |-> a, dep |-> d],
                     set |-> {"arr", "dep"}, seen |-> NoRow])
    BY <1>5 DEF BeginAmend
  <2> QED BY <2>1, <1>1, <1>2 DEF ShapeOf
<1>6. CASE BeginPost(w)
  <2>1. PICK r \in Res, op \in {"postNight", "postOnce"} :
           Start(w, [pc |-> "rowlock", op |-> op, id |-> r,
                     to |-> StayOf(res[r]), set |-> {}, seen |-> NoRow])
    BY <1>6 DEF BeginPost
  <2> QED BY <2>1, <1>1, <1>2 DEF ShapeOf
<1> QED BY <1>3, <1>4, <1>5, <1>6 DEF Begin

LEMMA ProceedKeepsMutexInv ==
  ASSUME Paths \subseteq CanonicalPaths, MutexInv, TypeInv', NEW w \in Workers,
         Proceed(w) \/ Abort(w)
  PROVE  MutexInv'
<1> DEFINE q == req[w]
<1>0. req \in [Workers -> Request \cup {Idle}] /\ Idle.pc = "idle" /\ TypeInv
  BY DEF MutexInv, TypeInv, TypeOK, Idle
<1>1. q # Idle
  BY <1>0 DEF Proceed, Abort, LockRow, LockProperty, LockInventory, CheckPasses,
              CheckFails, ShareProperty, ShareType, Insert, LockUpdated, Update, PostCharge
<1>2. q \in Request /\ q.to \in Spans /\ q.to.type \in Types /\ q.to.arr \in Int
      /\ q.to.dep \in Int /\ ShapeOf(res, q)
  BY <1>0, <1>1, ConstantsAssumption DEF MutexInv, PathShape, Request, Spans, Days
<1>3. q.op \notin {"create", "accept"} => q.id \in Res /\ res[q.id] \in Row
  BY <1>0, <1>1, <1>2 DEF TypeInv, RequestShape, ShapeOf, InsertPaths
<1>4. ASSUME End(w), UNCHANGED res PROVE MutexInv'
  <2>1. WithinCapacity(res') /\ \A v \in Workers \ {w} :
            req[v].pc \in {"insert", "update"} => Room(res', req[v])
    BY <1>4 DEF MutexInv, CheckStillHolds
  <2> QED BY <1>4, <2>1, Ends
<1>5. CASE LockRow(w)
  <2> DEFINE p == [q EXCEPT !.pc = IF q.op = "amend" THEN "property" ELSE "charge",
                            !.seen = res[q.id], !.to.type = res[q.id].type]
  <2>1. req' = [req EXCEPT ![w] = p] /\ UNCHANGED <<res, inv>> /\ q.pc = "rowlock"
    BY <1>0, <1>5 DEF LockRow
  <2>2. p \in Request
    BY <1>2, <1>3, <2>1 DEF ShapeOf, Request, Spans, Steps, Row
  <2>3. ShapeOf(res, p) /\ p.pc \notin {"check", "insert", "update"}
    BY <1>2, <2>1 DEF ShapeOf, Request, Spans
  <2> HIDE DEF p
  <2> QED BY <2>1, <2>2, <2>3, Moves
<1>6. CASE LockProperty(w)
  <2> DEFINE p == [q EXCEPT !.pc = "lock"]
  <2>1. req' = [req EXCEPT ![w] = p] /\ UNCHANGED <<res, inv>> /\ q.pc = "property"
    BY <1>0, <1>6 DEF LockProperty, Goto
  <2>2. p \in Request /\ ShapeOf(res, p) /\ p.pc = "lock"
    BY <1>2, <2>1 DEF ShapeOf, Request, Steps
  <2> HIDE DEF p
  <2> QED BY <2>1, <2>2, Moves
<1>7. CASE LockInventory(w)
  <2> DEFINE p == [q EXCEPT !.pc = "check"]
  <2>1. /\ req' = [req EXCEPT ![w] = p] /\ UNCHANGED res /\ q.pc = "lock"
        /\ inv[q.to.type] = Free /\ inv' = [inv EXCEPT ![q.to.type] = w]
    BY <1>0, <1>7 DEF LockInventory, Goto
  <2>2. p \in Request /\ ShapeOf(res, p) /\ p.pc = "check" /\ p.to = q.to
    BY <1>2, <2>1 DEF ShapeOf, Request, Steps
  <2>3. inv'[q.to.type] = w
        /\ \A v \in Workers \ {w}, t \in Types : inv[t] = v => inv'[t] = v
    BY <1>0, <1>2, <2>1, ConstantsAssumption DEF TypeInv, TypeOK
  <2> HIDE DEF p
  <2> QED BY <2>1, <2>2, <2>3, Moves
<1>8. CASE CheckPasses(w)
  <2> DEFINE p == [q EXCEPT !.pc = IF q.op \in InsertPaths THEN "insert" ELSE "update"]
  <2>1. req' = [req EXCEPT ![w] = p] /\ UNCHANGED <<res, inv>> /\ q.pc = "check" /\ Fits(q)
    BY <1>0, <1>8 DEF CheckPasses, Goto
  <2>2. q.op \in {"create", "accept", "amend"}
    BY <1>2, <2>1 DEF ShapeOf
  <2>3. Room(res, q) /\ inv[q.to.type] = w
    BY <1>2, <2>1, <2>2, CheckFindsRoom DEF MutexInv, HoldsMutex
  <2>4. p \in Request /\ ShapeOf(res, p) /\ p.to = q.to /\ p.op = q.op /\ p.id = q.id
    BY <1>2, <2>1, <2>2 DEF ShapeOf, Request, Steps, InsertPaths
  <2>5. Room(res, p)
    BY <2>3, <2>4 DEF Room, Own
  <2> HIDE DEF p
  <2> QED BY <2>1, <2>3, <2>4, <2>5, Moves
<1>9. CASE CheckFails(w) \/ PostCharge(w) \/ Abort(w)
  BY <1>4, <1>9 DEF CheckFails, PostCharge, Abort
<1>10. CASE Insert(w)
  <2>1. PICK r \in Res : res[r] = NoRow /\ res' = [res EXCEPT ![r] = NewRow(q)]
    BY <1>10 DEF Insert
  <2>2. q.pc = "insert" /\ q.op # "amend"
    BY <1>2, <1>10 DEF Insert, ShapeOf
  <2>3. Room(res, q) /\ inv[q.to.type] = w /\ WithinCapacity(res)
    BY <2>2 DEF MutexInv, CheckStillHolds, HoldsMutex
  <2>4. /\ res'[r].type = q.to.type /\ res'[r].arr = q.to.arr /\ res'[r].dep = q.to.dep
        /\ \A s \in Res \ {r} : res'[s] = res[s]
    BY <1>0, <2>1 DEF NewRow, TypeInv, TypeOK
  <2>5. WithinCapacity(res') /\ \A t \in Types \ {q.to.type}, n \in Int :
                                   SoldIn(res', t, n) \subseteq SoldIn(res, t, n)
    <3>1. (q.op = "amend" => q.id = r) /\ (q.op # "amend" => res[r] = NoRow)
      BY <2>1, <2>2
    <3> QED BY <1>2, <2>3, <2>4, <3>1, WriteFits
  <2>6. \A v \in Workers \ {w} : req[v].pc \in {"insert", "update"} => Room(res', req[v])
    BY <1>2, <2>3, <2>5, OthersKeepRoom
  <2>7. \A s \in Res : res[s] \in Row => res'[s].type = res[s].type
    BY <2>1, <2>4, IdleIsNoRequest
  <2> QED BY <1>10, <2>5, <2>6, <2>7, Ends DEF Insert
<1>11. CASE Update(w)
  <2>1. res' = [res EXCEPT ![q.id] = UpdatedRow(q, res[q.id])] /\ q.pc = "update"
    BY <1>11 DEF Update
  <2>2. q.op = "amend" /\ q.set = {"arr", "dep"} /\ q.to.type = res[q.id].type
    BY <1>2, <2>1 DEF ShapeOf
  <2>3. Room(res, q) /\ inv[q.to.type] = w /\ WithinCapacity(res)
    BY <2>1 DEF MutexInv, CheckStillHolds, HoldsMutex
  <2>4. q.id \in Res /\ res[q.id] \in Row
    BY <1>3, <2>2
  <2>5. /\ res'[q.id].type = q.to.type /\ res'[q.id].arr = q.to.arr
        /\ res'[q.id].dep = q.to.dep /\ \A s \in Res \ {q.id} : res'[s] = res[s]
    BY <1>0, <2>1, <2>2, <2>4 DEF UpdatedRow, TypeInv, TypeOK, Row
  <2>6. WithinCapacity(res') /\ \A t \in Types \ {q.to.type}, n \in Int :
                                   SoldIn(res', t, n) \subseteq SoldIn(res, t, n)
    BY <1>2, <2>2, <2>3, <2>4, <2>5, WriteFits
  <2>7. \A v \in Workers \ {w} : req[v].pc \in {"insert", "update"} => Room(res', req[v])
    BY <1>2, <2>3, <2>6, OthersKeepRoom
  <2>8. \A s \in Res : res[s] \in Row => res'[s].type = res[s].type
    BY <2>2, <2>5
  <2> QED BY <1>11, <2>6, <2>7, <2>8, Ends DEF Update
<1>12. CASE ShareProperty(w) \/ ShareType(w) \/ LockUpdated(w)
  <2>1. UNCHANGED <<res, req, inv>>
    BY <1>12 DEF ShareProperty, ShareType, LockUpdated
  <2>2. req' = [req EXCEPT ![w] = q]
    BY <1>0, <2>1
  <2>3. /\ q.pc \in {"check", "insert", "update"} => inv'[q.to.type] = w
        /\ q.pc \in {"insert", "update"} => Room(res, q)
    BY <2>1 DEF MutexInv, HoldsMutex, CheckStillHolds
  <2> HIDE DEF q
  <2> QED BY <1>2, <2>1, <2>2, <2>3, Moves
<1> QED BY <1>5, <1>6, <1>7, <1>8, <1>9, <1>10, <1>11, <1>12 DEF Proceed

LEMMA MutexInvInductive ==
  ASSUME Paths \subseteq CanonicalPaths
  PROVE  MutexInv /\ [Next]_vars => MutexInv'
<1> SUFFICES ASSUME MutexInv, [Next]_vars PROVE MutexInv'
  OBVIOUS
<1>0. TypeInv /\ TypeInv'
  BY TypeInvInductive DEF MutexInv
<1>1. ASSUME NEW w \in Workers, Begin(w) \/ Proceed(w) \/ Abort(w) PROVE MutexInv'
  BY <1>0, <1>1, BeginKeepsMutexInv, ProceedKeepsMutexInv
<1>2. ASSUME UNCHANGED <<inv, req>>,
             \A r \in Res : res[r] \in Row => res'[r].type = res[r].type,
             \A t \in Types, n \in Int : SoldIn(res', t, n) \subseteq SoldIn(res, t, n)
      PROVE  MutexInv'
  <2>1. WithinCapacity(res')
    BY <1>2, CapacityKept, ConstantsAssumption DEF MutexInv
  <2>2. CheckStillHolds'
    <3> SUFFICES ASSUME NEW v \in Workers, req'[v].pc \in {"insert", "update"}
                 PROVE  Room(res', req'[v])
      BY DEF CheckStillHolds, Room, SoldIn, Occupies, Own, Capacity
    <3>0. req'[v] = req[v]
      BY <1>2
    <3>1. req[v] \in Request /\ Room(res, req[v])
      BY <1>0, <3>0 DEF MutexInv, CheckStillHolds, TypeInv, TypeOK, Idle
    <3>2. req[v].to.type \in Types /\ \A n \in Nights(req[v].to) : n \in Int
      BY <3>1, ConstantsAssumption DEF Request, Spans, Days, Nights
    <3> QED BY <1>2, <3>0, <3>1, <3>2, RoomKept
  <2>3. HoldsMutex'
    BY <1>2 DEF MutexInv, HoldsMutex
  <2>4. PathShape'
    <3> SUFFICES ASSUME NEW v \in Workers, req[v] # Idle PROVE ShapeOf(res', req[v])
      BY <1>2 DEF PathShape, ShapeOf
    <3>1. ShapeOf(res, req[v])
      BY DEF MutexInv, PathShape
    <3>2. req[v].op = "amend" => req[v].id \in Res /\ res[req[v].id] \in Row
      BY <1>0 DEF TypeInv, RequestShape, InsertPaths
    <3> QED BY <1>2, <3>1, <3>2 DEF ShapeOf
  <2>5. WithinCapacity(res)'
    BY <2>1 DEF WithinCapacity, SoldIn, Occupies
  <2> QED BY <1>0, <2>2, <2>3, <2>4, <2>5 DEF MutexInv
<1>3. ASSUME NEW r \in Res, Release(r) PROVE MutexInv'
  <2>1. res[r] \in Row
    BY <1>0, <1>3 DEF Release, TypeInv, TypeOK
  <2>2. /\ res'[r].type = res[r].type /\ res'[r].status = "released"
        /\ \A s \in Res \ {r} : res'[s] = res[s]
    BY <1>0, <1>3, <2>1 DEF Release, TypeInv, TypeOK, Row
  <2>3. \A t \in Types, n \in Int : SoldIn(res', t, n) \subseteq SoldIn(res, t, n)
    BY <2>2 DEF SoldIn, Occupies
  <2> QED BY <1>2, <1>3, <2>2, <2>3 DEF Release
<1>4. ASSUME NEW f \in Feeds, SyncImportFeed(f) PROVE MutexInv'
  BY <1>2, <1>4 DEF SyncImportFeed
<1>5. CASE UNCHANGED vars
  BY <1>2, <1>5 DEF vars
<1> QED BY <1>1, <1>3, <1>4, <1>5 DEF Next

LEMMA MutexInvInitially == Init => MutexInv
<1> SUFFICES ASSUME Init PROVE MutexInv
  OBVIOUS
<1>1. TypeInv /\ PathShape /\ HoldsMutex /\ CheckStillHolds
  BY TypeInvInitially DEF Init, PathShape, HoldsMutex, CheckStillHolds, Idle
<1>2. \A t \in Types, n \in Int : SoldIn(res, t, n) = {}
  BY DEF Init, SoldIn, Occupies, NoRow
<1>3. WithinCapacity(res)
  <2> SUFFICES ASSUME NEW t \in Types, NEW n \in 0..(Horizon - 1)
               PROVE  Cardinality(SoldIn(res, t, n)) <= Capacity(t)
    BY DEF WithinCapacity
  <2>1. SoldIn(res, t, n) = {} /\ Cardinality({}) = 0 /\ Capacity(t) \in Nat
    BY <1>2, FS_EmptySet, CapacityType, ConstantsAssumption
  <2>2. Cardinality(SoldIn(res, t, n)) = 0
    BY <2>1
  <2> QED BY <2>1, <2>2
<1> QED BY <1>1, <1>3 DEF MutexInv

\* While every insertion and amendment takes the inventory mutex (create, accept
\* and amendStay, beside postings, releases and feed imports), no night of any
\* room type is ever sold beyond its capacity: the check of a request cannot go
\* stale before its write, because whoever could disturb it holds another mutex.
THEOREM MutexPreventsOverselling ==
  ASSUME Paths \subseteq CanonicalPaths
  PROVE  Spec => []NoOversell
<1>1. MutexInv => NoOversell
  BY DEF MutexInv, WithinCapacity, NoOversell, SoldIn, Sold
<1> QED BY <1>1, MutexInvInitially, MutexInvInductive, PTL DEF Spec

-----------------------------------------------------------------------------
(* Posting and deadlock, for every set of entry points *)

\* How far a request has come, and what its reservation is.
Standing(w) ==
    /\ req[w].op = "amend" =>
         /\ req[w].pc \in {"rowlock", "property", "lock", "check", "update"}
         /\ res[req[w].id].priced # {}
         /\ req[w].pc # "rowlock" => row[req[w].id] = w
    /\ req[w].op = "modify" /\ req[w].pc \in {"lock", "check"} => res[req[w].id].priced = {}
    /\ req[w].pc = "rowlock" => req[w].op \in {"amend", "postNight", "postOnce"}
    /\ req[w].pc = "property" => req[w].op = "amend"
    /\ req[w].pc = "lock" => req[w].op \in {"create", "accept", "modify", "amend"}
    /\ req[w].pc = "charge" =>
         /\ req[w].op \in {"postNight", "postOnce"}
         /\ req[w].seen.priced # {} => res[req[w].id].priced # {}

\* The locks a request holds at its step.
LocksOf(w) ==
    /\ \A t \in Types : inv[t] = w =>
         /\ req[w].pc \in {"check", "insert", "update"}
         /\ req[w].op \in {"create", "accept", "modify", "amend"}
         /\ req[w].op = "modify" => res[req[w].id].priced = {}
    /\ \A r \in Res : row[r] = w =>
         /\ req[w].pc \in {"property", "lock", "check", "update", "charge"}
         /\ req[w].pc # "update" => req[w].op \in {"amend", "postNight", "postOnce"}
         /\ req[w].id = r
    /\ prop = w => req[w].pc \in {"lock", "check", "update"} /\ req[w].op = "amend"
    /\ w \in propKeys => req[w].pc = "insert"
    /\ \A t \in Types : w \in typeKeys[t] => req[w].pc = "insert"

\* FOR UPDATE of the property excludes every key share of it.
PropertyExclusive == prop = Free \/ propKeys = {}

LockInv ==
    /\ TypeInv
    /\ \A w \in Workers : req[w] # Idle => Standing(w)
    /\ \A w \in Workers : LocksOf(w)
    /\ PropertyExclusive

\* A row is priced from its insertion on, or never.
PricedSame == \A r \in Res : res[r] \in Row => (res'[r].priced = {} <=> res[r].priced = {})

\* A step of w leaves the requests and the locks of the others alone.
OthersSame(w) ==
    \A v \in Workers \ {w} :
        /\ req'[v] = req[v]
        /\ \A t \in Types : inv'[t] = v <=> inv[t] = v
        /\ \A r \in Res : row'[r] = v <=> row[r] = v
        /\ prop' = v <=> prop = v
        /\ v \in propKeys' <=> v \in propKeys
        /\ \A t \in Types : v \in typeKeys'[t] <=> v \in typeKeys[t]

LEMMA LocksKept ==
  ASSUME LockInv, TypeInv', PricedSame, NEW w, OthersSame(w), PropertyExclusive',
         w \in Workers => (req'[w] # Idle => Standing(w)') /\ LocksOf(w)'
  PROVE  LockInv'
<1>1. ASSUME NEW v \in Workers, v # w
      PROVE  (req'[v] # Idle => Standing(v)') /\ LocksOf(v)'
  <2>1. /\ req'[v] = req[v]
        /\ \A t \in Types : inv'[t] = v <=> inv[t] = v
        /\ \A r \in Res : row'[r] = v <=> row[r] = v
        /\ prop' = v <=> prop = v
        /\ v \in propKeys' <=> v \in propKeys
        /\ \A t \in Types : v \in typeKeys'[t] <=> v \in typeKeys[t]
    BY <1>1 DEF OthersSame
  <2>2. (req[v] # Idle => Standing(v)) /\ LocksOf(v)
    BY DEF LockInv
  <2>3. ASSUME req[v] # Idle, req[v].op \notin InsertPaths
        PROVE  req[v].id \in Res /\ (res'[req[v].id].priced = {} <=> res[req[v].id].priced = {})
    BY <2>3 DEF LockInv, TypeInv, RequestShape, PricedSame
  <2>4. "amend" \notin InsertPaths /\ "modify" \notin InsertPaths
        /\ "postNight" \notin InsertPaths /\ "postOnce" \notin InsertPaths
    BY DEF InsertPaths
  <2>5. req'[v] # Idle => Standing(v)'
    BY <2>1, <2>2, <2>3, <2>4 DEF Standing
  <2>6. Idle.pc = "idle"
    BY DEF Idle
  <2>7. LocksOf(v)'
    BY <2>1, <2>2, <2>3, <2>4, <2>6 DEF LocksOf
  <2> QED BY <2>5, <2>7
<1> QED BY <1>1 DEF LockInv

LEMMA EndKeepsLocks ==
  ASSUME LockInv, TypeInv', PricedSame, NEW w \in Workers, End(w)
  PROVE  LockInv'
<1>1. TypeOK
  BY DEF LockInv, TypeInv
<1>2. req'[w] = Idle
  BY <1>1 DEF TypeOK, End
<1>3. OthersSame(w)
  BY <1>1, ConstantsAssumption DEF OthersSame, TypeOK, End
<1>4. LocksOf(w)'
  <2>1. /\ \A t \in Types : inv'[t] # w
        /\ \A r \in Res : row'[r] # w
        /\ prop' # w
        /\ w \notin propKeys' /\ \A t \in Types : w \notin typeKeys'[t]
    BY <1>1, ConstantsAssumption DEF TypeOK, End
  <2> QED BY <2>1 DEF LocksOf
<1>5. PropertyExclusive'
  BY DEF LockInv, PropertyExclusive, End
<1> QED BY <1>2, <1>3, <1>4, <1>5, LocksKept

\* A request starts without locks.
LEMMA StartKeepsLocks ==
  ASSUME LockInv, TypeInv', NEW w \in Workers, NEW q, Start(w, q),
         q.pc \in {"rowlock", "lock", "check", "insert", "update"},
         q.pc = "rowlock" => q.op \in {"amend", "postNight", "postOnce"},
         q.pc = "lock" => q.op \in {"create", "accept", "modify"},
         q.op = "amend" => q.pc = "rowlock" /\ res[q.id].priced # {},
         q.op = "modify" => q.pc \in {"lock", "update"} /\ (q.pc = "lock" => res[q.id].priced = {})
  PROVE  LockInv'
<1>1. TypeOK /\ LocksOf(w) /\ req[w] = Idle
  BY DEF LockInv, TypeInv, Start
<1>2. UNCHANGED <<res, locks>>
  BY DEF Start
<1>3. PricedSame /\ PropertyExclusive'
  BY <1>2 DEF PricedSame, LockInv, PropertyExclusive
<1>4. OthersSame(w)
  BY <1>1, <1>2 DEF OthersSame, TypeOK, Start
<1>5. Idle.pc = "idle"
  BY DEF Idle
<1>6. LocksOf(w)'
  BY <1>1, <1>2, <1>5 DEF LocksOf
<1>7. req'[w] = q
  BY <1>1 DEF TypeOK, Start
<1>8. Standing(w)'
  BY <1>2, <1>7 DEF Standing
<1> QED BY <1>3, <1>4, <1>6, <1>8, LocksKept

LEMMA BeginKeepsLocks ==
  ASSUME LockInv, TypeInv', NEW w \in Workers, Begin(w)
  PROVE  LockInv'
<1>1. CASE BeginInsert(w)
  <2>1. PICK op \in InsertPaths, to \in Stays :
           Start(w, [pc |-> IF op \in {"create", "accept"} THEN "lock" ELSE "check",
                     op |-> op, id |-> NoRes, to |-> to, set |-> Fields, seen |-> NoRow])
    BY <1>1 DEF BeginInsert
  <2> DEFINE q == [pc |-> IF op \in {"create", "accept"} THEN "lock" ELSE "check",
                   op |-> op, id |-> NoRes, to |-> to, set |-> Fields, seen |-> NoRow]
  <2>2. /\ q.pc \in {"lock", "check"} /\ q.op \notin {"amend", "modify"}
        /\ q.pc = "lock" => q.op \in {"create", "accept"}
    BY DEF InsertPaths
  <2> HIDE DEF q
  <2> QED BY <2>1, <2>2, StartKeepsLocks DEF q
<1>2. CASE BeginModify(w)
  <2>1. PICK r \in Res, to \in Spans, set \in SUBSET Fields \ {{}} :
           /\ res[r].priced # {} => to = StayOf(res[r])
           /\ Start(w, [pc |-> IF to = StayOf(res[r]) THEN "update" ELSE "lock",
                        op |-> "modify", id |-> r, to |-> to, set |-> set, seen |-> res[r]])
    BY <1>2 DEF BeginModify
  <2> DEFINE q == [pc |-> IF to = StayOf(res[r]) THEN "update" ELSE "lock",
                   op |-> "modify", id |-> r, to |-> to, set |-> set, seen |-> res[r]]
  <2>2. /\ q.pc \in {"lock", "update"} /\ q.op = "modify"
        /\ q.pc = "lock" => res[q.id].priced = {}
    BY <2>1
  <2> HIDE DEF q
  <2> QED BY <2>1, <2>2, StartKeepsLocks DEF q
<1>3. CASE BeginChannelModify(w)
  <2>1. PICK r \in Res, to \in Stays :
           Start(w, [pc |-> "check", op |-> "channelModify", id |-> r,
                     to |-> to, set |-> Fields, seen |-> res[r]])
    BY <1>3 DEF BeginChannelModify
  <2> DEFINE q == [pc |-> "check", op |-> "channelModify", id |-> r,
                   to |-> to, set |-> Fields, seen |-> res[r]]
  <2>2. q.pc = "check" /\ q.op = "channelModify"
    OBVIOUS
  <2> HIDE DEF q
  <2> QED BY <2>1, <2>2, StartKeepsLocks DEF q
<1>4. CASE BeginConnectModify(w)
  <2>1. PICK r \in Res, to \in Stays :
           Start(w, [pc |-> "check", op |-> "connectModify", id |-> r,
                     to |-> to, set |-> Fields, seen |-> res[r]])
    BY <1>4 DEF BeginConnectModify
  <2> DEFINE q == [pc |-> "check", op |-> "connectModify", id |-> r,
                   to |-> to, set |-> Fields, seen |-> res[r]]
  <2>2. q.pc = "check" /\ q.op = "connectModify"
    OBVIOUS
  <2> HIDE DEF q
  <2> QED BY <2>1, <2>2, StartKeepsLocks DEF q
<1>5. CASE BeginAmend(w)
  <2>1. PICK r \in Res, a \in Days, d \in Days :
           /\ res[r].priced # {}
           /\ Start(w, [pc |-> "rowlock", op |-> "amend", id |-> r,
                        to |-> [type |-> res[r].type, arr |-> a, dep |-> d],
                        set |-> {"arr", "dep"}, seen |-> NoRow])
    BY <1>5 DEF BeginAmend
  <2> DEFINE q == [pc |-> "rowlock", op |-> "amend", id |-> r,
                   to |-> [type |-> res[r].type, arr |-> a, dep |-> d],
                   set |-> {"arr", "dep"}, seen |-> NoRow]
  <2>2. q.pc = "rowlock" /\ q.op = "amend" /\ res[q.id].priced # {}
    BY <2>1
  <2> HIDE DEF q
  <2> QED BY <2>1, <2>2, StartKeepsLocks DEF q
<1>6. CASE BeginPost(w)
  <2>1. PICK r \in Res, op \in {"postNight", "postOnce"} :
           Start(w, [pc |-> "rowlock", op |-> op, id |-> r,
                     to |-> StayOf(res[r]), set |-> {}, seen |-> NoRow])
    BY <1>6 DEF BeginPost
  <2> DEFINE q == [pc |-> "rowlock", op |-> op, id |-> r,
                   to |-> StayOf(res[r]), set |-> {}, seen |-> NoRow]
  <2>2. q.pc = "rowlock" /\ q.op \in {"postNight", "postOnce"}
    OBVIOUS
  <2> HIDE DEF q
  <2> QED BY <2>1, <2>2, StartKeepsLocks DEF q
<1>7. CASE BeginSplit(w)
  <2>1. PICK r \in Res, t \in Types :
           Start(w, [pc |-> "insert", op |-> "split", id |-> r,
                     to |-> [StayOf(res[r]) EXCEPT !.type = t], set |-> Fields, seen |-> res[r]])
    BY <1>7 DEF BeginSplit
  <2> DEFINE q == [pc |-> "insert", op |-> "split", id |-> r,
                   to |-> [StayOf(res[r]) EXCEPT !.type = t], set |-> Fields, seen |-> res[r]]
  <2>2. q.pc = "insert" /\ q.op = "split"
    OBVIOUS
  <2> HIDE DEF q
  <2> QED BY <2>1, <2>2, StartKeepsLocks DEF q
<1>8. CASE BeginUpgrade(w)
  <2>1. PICK r \in Res, t \in Types :
           Start(w, [pc |-> "update", op |-> "upgrade", id |-> r,
                     to |-> [StayOf(res[r]) EXCEPT !.type = t], set |-> {"type"}, seen |-> res[r]])
    BY <1>8 DEF BeginUpgrade
  <2> DEFINE q == [pc |-> "update", op |-> "upgrade", id |-> r,
                   to |-> [StayOf(res[r]) EXCEPT !.type = t], set |-> {"type"}, seen |-> res[r]]
  <2>2. q.pc = "update" /\ q.op = "upgrade"
    OBVIOUS
  <2> HIDE DEF q
  <2> QED BY <2>1, <2>2, StartKeepsLocks DEF q
<1> QED BY <1>1, <1>2, <1>3, <1>4, <1>5, <1>6, <1>7, <1>8 DEF Begin

LEMMA ProceedKeepsLocks ==
  ASSUME LockInv, TypeInv', NEW w \in Workers, Proceed(w) \/ Abort(w)
  PROVE  LockInv'
<1> DEFINE q == req[w]
<1>0. /\ TypeOK /\ RequestShape /\ Idle.pc = "idle" /\ Free # w
      /\ req \in [Workers -> Request \cup {Idle}] /\ inv \in [Types -> Workers \cup {Free}]
      /\ row \in [Res -> Workers \cup {Free}] /\ typeKeys \in [Types -> SUBSET Workers]
      /\ PropertyExclusive
  BY ConstantsAssumption DEF LockInv, TypeInv, TypeOK, Idle
<1>1. q # Idle
  BY <1>0 DEF Proceed, Abort, LockRow, LockProperty, LockInventory, CheckPasses,
              CheckFails, ShareProperty, ShareType, Insert, LockUpdated, Update, PostCharge
<1>2. q \in Request /\ Standing(w) /\ LocksOf(w)
  BY <1>0, <1>1 DEF LockInv
<1>3. q.op \notin InsertPaths => q.id \in Res /\ res[q.id] \in Row
  BY <1>0, <1>1 DEF RequestShape
<1>4. q.to.type \in Types
  BY <1>2 DEF Request, Spans
<1>same. ASSUME UNCHANGED res PROVE PricedSame
  BY <1>same DEF PricedSame
<1>5. CASE LockRow(w)
  <2> DEFINE p == [q EXCEPT !.pc = IF q.op = "amend" THEN "property" ELSE "charge",
                            !.seen = res[q.id], !.to.type = res[q.id].type]
  <2>1. /\ req' = [req EXCEPT ![w] = p] /\ q.pc = "rowlock"
        /\ UNCHANGED <<res, inv, prop, propKeys, typeKeys>>
        /\ row[q.id] = Free /\ row' = [row EXCEPT ![q.id] = w]
    <3>1. req' = [req EXCEPT ![w] = p]
      BY <1>5 DEF LockRow
    <3> QED BY <1>5, <3>1 DEF LockRow
  <2>2. q.op \in {"amend", "postNight", "postOnce"} /\ q.id \in Res
    BY <1>2, <1>3, <2>1 DEF Standing, InsertPaths
  <2>3. /\ p.op = q.op /\ p.id = q.id /\ p.seen = res[q.id]
        /\ p.pc = (IF q.op = "amend" THEN "property" ELSE "charge")
    BY <1>2 DEF Request
  <2> HIDE DEF p
  <2>4. req'[w] = p /\ \A v \in Workers \ {w} : req'[v] = req[v]
    BY <1>0, <2>1
  <2>5. row'[q.id] = w /\ \A r \in Res \ {q.id} : row'[r] = row[r]
    BY <1>0, <2>1, <2>2
  <2>6. OthersSame(w)
    BY <1>0, <2>1, <2>4, <2>5, ConstantsAssumption DEF OthersSame
  <2>7. Standing(w)'
    BY <1>2, <2>1, <2>2, <2>3, <2>4, <2>5 DEF Standing
  <2>8. LocksOf(w)'
    BY <1>2, <2>1, <2>2, <2>3, <2>4, <2>5 DEF LocksOf
  <2>9. PropertyExclusive'
    BY <1>0, <2>1 DEF PropertyExclusive
  <2> QED BY <1>same, <2>1, <2>6, <2>7, <2>8, <2>9, LocksKept
<1>6. CASE LockProperty(w)
  <2> DEFINE p == [q EXCEPT !.pc = "lock"]
  <2>1. /\ req' = [req EXCEPT ![w] = p] /\ q.pc = "property" /\ propKeys = {}
        /\ UNCHANGED <<res, inv, row, propKeys, typeKeys>>
        /\ prop = Free /\ prop' = w
    BY <1>0, <1>6 DEF LockProperty, Goto
  <2>2. q.op = "amend"
    BY <1>2, <2>1 DEF Standing
  <2>3. p.op = q.op /\ p.id = q.id /\ p.pc = "lock"
    BY <1>2 DEF Request
  <2> HIDE DEF p
  <2>4. req'[w] = p /\ \A v \in Workers \ {w} : req'[v] = req[v]
    BY <1>0, <2>1
  <2>5. OthersSame(w)
    BY <2>1, <2>4, ConstantsAssumption DEF OthersSame
  <2>6. Standing(w)'
    BY <1>2, <2>1, <2>2, <2>3, <2>4 DEF Standing
  <2>7. LocksOf(w)'
    BY <1>2, <2>1, <2>2, <2>3, <2>4 DEF LocksOf
  <2>8. PropertyExclusive'
    BY <2>1 DEF PropertyExclusive
  <2> QED BY <1>same, <2>1, <2>5, <2>6, <2>7, <2>8, LocksKept
<1>7. CASE LockInventory(w)
  <2> DEFINE p == [q EXCEPT !.pc = "check"]
  <2>1. /\ req' = [req EXCEPT ![w] = p] /\ q.pc = "lock"
        /\ UNCHANGED <<res, row, prop, propKeys, typeKeys>>
        /\ inv[q.to.type] = Free /\ inv' = [inv EXCEPT ![q.to.type] = w]
    BY <1>0, <1>7 DEF LockInventory, Goto
  <2>2. q.op \in {"create", "accept", "modify", "amend"}
    BY <1>2, <2>1 DEF Standing
  <2>3. p.op = q.op /\ p.id = q.id /\ p.pc = "check"
    BY <1>2 DEF Request
  <2> HIDE DEF p
  <2>4. req'[w] = p /\ \A v \in Workers \ {w} : req'[v] = req[v]
    BY <1>0, <2>1
  <2>5. inv'[q.to.type] = w /\ \A t \in Types \ {q.to.type} : inv'[t] = inv[t]
    BY <1>0, <1>4, <2>1
  <2>6. OthersSame(w)
    BY <2>1, <2>4, <2>5, ConstantsAssumption DEF OthersSame
  <2>7. Standing(w)'
    BY <1>2, <2>1, <2>2, <2>3, <2>4 DEF Standing
  <2>8. LocksOf(w)'
    BY <1>2, <2>1, <2>2, <2>3, <2>4, <2>7 DEF LocksOf, Standing
  <2>9. PropertyExclusive'
    BY <1>0, <2>1 DEF PropertyExclusive
  <2> QED BY <1>same, <2>1, <2>6, <2>7, <2>8, <2>9, LocksKept
<1>8. CASE CheckPasses(w)
  <2> DEFINE p == [q EXCEPT !.pc = IF q.op \in InsertPaths THEN "insert" ELSE "update"]
  <2>1. req' = [req EXCEPT ![w] = p] /\ UNCHANGED <<res, locks>> /\ q.pc = "check"
    BY <1>0, <1>8 DEF CheckPasses, Goto
  <2>2. /\ p.op = q.op /\ p.id = q.id
        /\ p.pc = (IF q.op \in InsertPaths THEN "insert" ELSE "update")
    BY <1>2 DEF Request
  <2> HIDE DEF p
  <2>3. req'[w] = p /\ \A v \in Workers \ {w} : req'[v] = req[v]
    BY <1>0, <2>1
  <2>4. OthersSame(w)
    BY <2>1, <2>3 DEF OthersSame
  <2>5. Standing(w)'
    BY <1>2, <2>1, <2>2, <2>3 DEF Standing, InsertPaths
  <2>6. LocksOf(w)'
    BY <1>2, <2>1, <2>2, <2>3 DEF LocksOf, InsertPaths
  <2>7. PropertyExclusive'
    BY <1>0, <2>1 DEF PropertyExclusive
  <2> QED BY <1>same, <2>1, <2>4, <2>5, <2>6, <2>7, LocksKept
<1>9. CASE CheckFails(w) \/ PostCharge(w) \/ Abort(w)
  BY <1>same, <1>9, EndKeepsLocks DEF CheckFails, PostCharge, Abort
<1>10. CASE Insert(w)
  <2>1. PICK r \in Res : res[r] = NoRow /\ res' = [res EXCEPT ![r] = NewRow(q)]
    BY <1>10 DEF Insert
  <2>2. PricedSame
    BY <1>0, <2>1, IdleIsNoRequest DEF PricedSame, TypeOK
  <2> QED BY <1>10, <2>2, EndKeepsLocks DEF Insert
<1>11. CASE Update(w)
  <2>1. res' = [res EXCEPT ![q.id] = UpdatedRow(q, res[q.id])] /\ q.pc = "update"
    BY <1>11 DEF Update
  <2>2. q.op \notin InsertPaths
    BY <1>0, <1>1, <2>1 DEF RequestShape
  <2>3. UpdatedRow(q, res[q.id]).priced = (IF q.op = "amend" THEN {q.to} ELSE res[q.id].priced)
    BY <1>3, <2>2 DEF UpdatedRow, Row
  <2>4. q.op = "amend" => res[q.id].priced # {}
    BY <1>2 DEF Standing
  <2>5. PricedSame
    BY <1>0, <1>3, <2>1, <2>2, <2>3, <2>4 DEF PricedSame, TypeOK
  <2> QED BY <1>11, <2>5, EndKeepsLocks DEF Update
<1>12. CASE ShareProperty(w) \/ ShareType(w)
  <2>1. UNCHANGED <<res, req, inv, row, prop>> /\ q.pc = "insert"
    BY <1>12 DEF ShareProperty, ShareType
  <2>2. /\ \A v \in Workers \ {w} : v \in propKeys' <=> v \in propKeys
        /\ \A v \in Workers \ {w}, t \in Types : v \in typeKeys'[t] <=> v \in typeKeys[t]
    BY <1>0, <1>4, <1>12 DEF ShareProperty, ShareType
  <2>3. OthersSame(w)
    BY <2>1, <2>2 DEF OthersSame
  <2>4. Standing(w)'
    BY <1>2, <2>1 DEF Standing
  <2>5. LocksOf(w)'
    BY <1>2, <2>1 DEF LocksOf
  <2>6. PropertyExclusive'
    BY <1>0, <1>12 DEF PropertyExclusive, ShareProperty, ShareType
  <2> QED BY <1>same, <2>1, <2>3, <2>4, <2>5, <2>6, LocksKept
<1>13. CASE LockUpdated(w)
  <2>1. /\ UNCHANGED <<res, req, inv, prop, propKeys, typeKeys>> /\ q.pc = "update"
        /\ row[q.id] = Free /\ row' = [row EXCEPT ![q.id] = w]
    BY <1>13 DEF LockUpdated
  <2>2. q.id \in Res
    BY <1>0, <1>1, <1>3, <2>1 DEF RequestShape
  <2>3. row'[q.id] = w /\ \A r \in Res \ {q.id} : row'[r] = row[r]
    BY <1>0, <2>1, <2>2
  <2>4. OthersSame(w)
    BY <2>1, <2>3, ConstantsAssumption DEF OthersSame
  <2>5. Standing(w)'
    BY <1>2, <2>1, <2>3 DEF Standing
  <2>6. LocksOf(w)'
    BY <1>2, <2>1, <2>3 DEF LocksOf
  <2>7. PropertyExclusive'
    BY <1>0, <2>1 DEF PropertyExclusive
  <2> QED BY <1>same, <2>1, <2>4, <2>5, <2>6, <2>7, LocksKept
<1> QED BY <1>5, <1>6, <1>7, <1>8, <1>9, <1>10, <1>11, <1>12, <1>13 DEF Proceed

LEMMA LockInvInductive == LockInv /\ [Next]_vars => LockInv'
<1> SUFFICES ASSUME LockInv, [Next]_vars PROVE LockInv'
  OBVIOUS
<1>0. TypeInv /\ TypeInv'
  BY TypeInvInductive DEF LockInv
<1>1. ASSUME NEW w \in Workers, Begin(w) \/ Proceed(w) \/ Abort(w) PROVE LockInv'
  BY <1>0, <1>1, BeginKeepsLocks, ProceedKeepsLocks
<1>2. ASSUME UNCHANGED <<locks, req>>, PricedSame PROVE LockInv'
  <2>1. OthersSame(Free) /\ PropertyExclusive'
    BY <1>2 DEF OthersSame, LockInv, PropertyExclusive
  <2> QED BY <1>0, <1>2, <2>1, LocksKept, ConstantsAssumption
<1>3. ASSUME NEW r \in Res, Release(r) PROVE LockInv'
  <2>1. res[r] \in Row
    BY <1>0, <1>3 DEF Release, TypeInv, TypeOK
  <2>2. res'[r].priced = res[r].priced /\ \A s \in Res \ {r} : res'[s] = res[s]
    BY <1>0, <1>3, <2>1 DEF Release, TypeInv, TypeOK, Row
  <2>3. PricedSame
    BY <2>2 DEF PricedSame
  <2> QED BY <1>2, <1>3, <2>3 DEF Release
<1>4. ASSUME NEW f \in Feeds, SyncImportFeed(f) PROVE LockInv'
  BY <1>2, <1>4 DEF SyncImportFeed, PricedSame
<1>5. CASE UNCHANGED vars
  BY <1>2, <1>5 DEF vars, PricedSame
<1> QED BY <1>1, <1>3, <1>4, <1>5 DEF Next

LEMMA LockInvInitially == Init => LockInv
<1> SUFFICES ASSUME Init PROVE LockInv
  OBVIOUS
<1>1. TypeInv /\ \A w \in Workers : req[w] = Idle
  BY TypeInvInitially DEF Init
<1>2. PropertyExclusive /\ \A w \in Workers : LocksOf(w)
  BY ConstantsAssumption DEF Init, LocksOf, PropertyExclusive
<1> QED BY <1>1, <1>2 DEF LockInv

\* w holds a lock or a key share.
HoldsLock(w) ==
    \/ prop = w
    \/ w \in propKeys
    \/ \E t \in Types : inv[t] = w \/ w \in typeKeys[t]
    \/ \E r \in Res : row[r] = w

\* Whom somebody waits for holds a lock; a wait for a reservation row comes
\* before the first lock, in an UPDATE that has no row yet, or in a split that
\* already shares the property.
LEMMA WaitedForHolds ==
  ASSUME TypeInv, NEW v \in Workers, NEW u \in WaitsFor(v)
  PROVE  /\ u # v /\ u # Free /\ HoldsLock(u)
         /\ \/ \E t \in Types : inv[t] = u \/ u \in typeKeys[t]
            \/ prop = u \/ u \in propKeys
            \/ /\ req[v].id \in Res /\ row[req[v].id] = u
               /\ \/ req[v].pc \in {"rowlock", "update"}
                  \/ req[v].pc = "insert" /\ v \in propKeys
<1> DEFINE q == req[v]
<1>1. u \in Holders(v) /\ u # v /\ u # Free
  BY DEF WaitsFor
<1>2. q.pc \in Steps
  <2>1. ASSUME q = Idle PROVE FALSE
    <3>1. Holders(v) = {}
      BY <2>1 DEF Holders, Idle
    <3> QED BY <1>1, <3>1
  <2> QED BY <2>1 DEF TypeInv, TypeOK, Request
<1>3. q \in Request /\ q # Idle
  BY <1>2 DEF TypeInv, TypeOK, Idle, Steps
<1>4. q.to.type \in Types
  BY <1>3 DEF Request, Spans
<1>5. q.pc \in {"rowlock", "update"} \/ q.op = "split" => q.id \in Res
  BY <1>3 DEF TypeInv, RequestShape, InsertPaths
<1>6. CASE q.pc = "rowlock"
  BY <1>1, <1>5, <1>6 DEF Holders, HoldsLock
<1>7. CASE q.pc = "property"
  BY <1>1, <1>7 DEF Holders, HoldsLock
<1>8. CASE q.pc = "lock"
  BY <1>1, <1>4, <1>8 DEF Holders, HoldsLock
<1>9. CASE q.pc = "insert" /\ ~ ParentsShared(v)
  <2>1. u \in {prop, inv[q.to.type]}
    BY <1>1, <1>9 DEF Holders
  <2> QED BY <1>1, <1>4, <2>1 DEF HoldsLock
<1>10. CASE q.pc = "insert" /\ ParentsShared(v)
  <2>1. q.op = "split" /\ u = row[q.id] /\ v \in propKeys
    BY <1>1, <1>10 DEF Holders, ParentsShared
  <2> QED BY <1>1, <1>5, <1>10, <2>1 DEF HoldsLock
<1>11. CASE q.pc = "update" /\ row[q.id] # v
  BY <1>1, <1>5, <1>11 DEF Holders, HoldsLock
<1>12. CASE q.pc = "update" /\ row[q.id] = v
  <2>1. u = inv[q.to.type]
    BY <1>1, <1>12 DEF Holders
  <2> QED BY <1>1, <1>4, <2>1 DEF HoldsLock
<1>13. CASE q.pc = "charge"
  BY <1>1, <1>13 DEF Holders, HoldsLock
<1>14. CASE q.pc = "check"
  BY <1>1, <1>14 DEF Holders
<1> QED BY <1>2, <1>6, <1>7, <1>8, <1>9, <1>10, <1>11, <1>12, <1>13, <1>14 DEF Steps

\* Whoever waits for the poster of an accepted reservation while somebody has
\* locked the property holds nothing: the reservation row is the first lock of
\* an amendment, a generic modify of an accepted stay takes no mutex, the other
\* updates take their row first, and a split that has come to its source row
\* shares the property.
LEMMA WaiterHoldsNothing ==
  ASSUME LockInv, NEW w \in Workers, req[w].pc = "charge", req[w].seen.priced # {},
         NEW u \in Workers, w \in WaitsFor(u), prop # Free
  PROVE  ~ HoldsLock(u)
<1>1. TypeInv /\ LocksOf(w) /\ LocksOf(u) /\ req[w] # Idle /\ Idle.pc = "idle"
      /\ propKeys = {}
  BY DEF LockInv, Idle, PropertyExclusive
<1>2. /\ u # w
      /\ req[u].id \in Res /\ row[req[u].id] = w
      /\ req[u].pc \in {"rowlock", "update"}
  BY <1>1, WaitedForHolds DEF LocksOf
<1>3. req[u].id = req[w].id
  BY <1>1, <1>2 DEF LocksOf
<1>4. req[u] # Idle
  BY <1>1, <1>2
<1>5. Standing(u) /\ Standing(w)
  BY <1>1, <1>4 DEF LockInv
<1>6. res[req[u].id].priced # {}
  BY <1>3, <1>5 DEF Standing
<1>7. req[u].pc # "rowlock" => req[u].op # "amend"
  BY <1>2, <1>5 DEF Standing
<1>8. CASE req[u].pc = "rowlock"
  BY <1>1, <1>8 DEF LocksOf, HoldsLock
<1>9. CASE req[u].pc = "update"
  <2>1. \A t \in Types : inv[t] # u
    <3> SUFFICES ASSUME NEW t \in Types, inv[t] = u PROVE FALSE
      OBVIOUS
    <3>1. req[u].op \in {"create", "accept", "modify", "amend"} /\ (req[u].op = "modify" => res[req[u].id].priced = {})
      BY <1>1 DEF LocksOf
    <3>2. req[u].op \notin InsertPaths
      BY <1>1, <1>4, <1>9 DEF TypeInv, RequestShape
    <3> QED BY <1>6, <1>7, <1>9, <3>1, <3>2 DEF InsertPaths
  <2>2. (\A r \in Res : row[r] # u) /\ prop # u
    <3>1. \A r \in Res : row[r] = u => req[u].id = r
      BY <1>1 DEF LocksOf
    <3>2. row[req[u].id] # u
      BY <1>2
    <3> QED BY <1>1, <1>7, <1>9, <3>1, <3>2 DEF LocksOf
  <2>3. u \notin propKeys /\ \A t \in Types : u \notin typeKeys[t]
    BY <1>1, <1>9 DEF LocksOf
  <2> QED BY <2>1, <2>2, <2>3 DEF HoldsLock
<1> QED BY <1>2, <1>8, <1>9

\* Whichever entry points run, a poster that holds the pricing lock of an
\* accepted reservation is never part of a deadlock: it waits for the request
\* that locked the property, so nobody shares the property, so the request that
\* waits for the poster holds no lock and nobody waits for that one.
THEOREM PostersOutsideCycles == Spec => []PostingOutsideCycles
<1>1. ASSUME LockInv, NEW w \in Workers, req[w].pc = "charge", req[w].seen.priced # {}, InCycle(w)
      PROVE  FALSE
  <2>1. PICK k \in 1..Cardinality(Workers) : \E p \in [0..k -> Workers] :
          p[0] = w /\ p[k] = w /\ \A i \in 0..(k - 1) : p[i + 1] \in WaitsFor(p[i])
    BY <1>1 DEF InCycle
  <2>2. PICK p \in [0..k -> Workers] :
          p[0] = w /\ p[k] = w /\ \A i \in 0..(k - 1) : p[i + 1] \in WaitsFor(p[i])
    BY <2>1
  <2>3. k \in Int /\ k >= 1
    BY <2>1
  <2>4. k - 1 \in 0..(k - 1) /\ (k - 1) + 1 = k /\ p[k - 1] \in Workers
    BY <2>2, <2>3
  <2>5. w \in WaitsFor(p[k - 1])
    BY <2>2, <2>4
  <2>6. TypeInv
    BY <1>1 DEF LockInv
  <2>7. p[k - 1] # w
    BY <2>4, <2>5, <2>6, WaitedForHolds
  <2>8. k # 1
    BY <2>2, <2>7
  <2>9. k - 2 \in 0..(k - 1) /\ (k - 2) + 1 = k - 1 /\ p[k - 2] \in Workers
    BY <2>2, <2>3, <2>8
  <2>10. p[k - 1] \in WaitsFor(p[k - 2])
    BY <2>2, <2>9
  <2>11. prop # Free
    <3>1. 0 \in 0..(k - 1) /\ 0 + 1 = 1
      BY <2>3
    <3>2. p[1] \in WaitsFor(w)
      BY <2>2, <3>1
    <3>3. Holders(w) = {prop}
      BY <1>1 DEF Holders
    <3> QED BY <3>2, <3>3 DEF WaitsFor
  <2>12. ~ HoldsLock(p[k - 1])
    BY <1>1, <2>4, <2>5, <2>11, WaiterHoldsNothing
  <2> QED BY <2>6, <2>9, <2>10, <2>12, WaitedForHolds
<1>2. LockInv => PostingOutsideCycles
  BY <1>1 DEF PostingOutsideCycles
<1> QED BY <1>2, LockInvInitially, LockInvInductive, PTL DEF Spec

-----------------------------------------------------------------------------
(* What the rows say: the nights column and the pricing snapshot *)

\* The accepted pricing snapshot covers exactly the stay of its reservation:
\* generic modify refuses to move an accepted stay and amendStay replaces the
\* snapshot together with the dates.
SnapshotCoversStay ==
    \A r \in Res : res[r] # NoRow =>
        res[r].priced \subseteq {StayOf(res[r])}

\* The denormalised nights column agrees with the dates of its row.
NightsMatchDates ==
    \A r \in Res : res[r] # NoRow =>
        res[r].nights = res[r].dep - res[r].arr /\ res[r].nights > 0

\* How a request opens, per entry point.
Opening(q) ==
    /\ q.op \in InsertPaths \cup {"amend", "channelModify", "connectModify"} => q.to.arr < q.to.dep
    /\ q.op = "split" =>
         /\ q.id \in Res /\ res[q.id] \in Row /\ q.seen = res[q.id]
         /\ q.to.arr = q.seen.arr /\ q.to.dep = q.seen.dep
    /\ q.op \in {"channelModify", "connectModify"} => q.set = Fields
    /\ q.op = "channelModify" => res[q.id].priced = {}
    /\ q.op \in {"modify", "channelModify"} => q.seen = res[q.id]
    /\ q.op = "modify" => \A f \in Fields \ q.set : q.to[f] = res[q.id][f]
    /\ q.op = "modify" /\ q.pc = "update" => q.to = StayOf(res[q.id])
    /\ q.op = "modify" /\ q.set \cap {"arr", "dep"} # {} => q.to.arr < q.to.dep
    /\ q.op = "amend" => q.pc = "rowlock" /\ q.set = {"arr", "dep"}
    /\ q.op = "upgrade" => q.set = {"type"}
    /\ q.op \in {"postNight", "postOnce"} => q.set = {}
    /\ q.pc = "check" => q.op \in InsertPaths \cup {"channelModify", "connectModify"}
    /\ q.pc = "update" => q.op \in {"modify", "upgrade"}
    /\ q.pc = "insert" <=> q.op = "split"
    /\ q.op \notin {"release", "ical"}

LEMMA Opens ==
  ASSUME TypeInv, NEW w \in Workers, Begin(w)
  PROVE  \E q : Start(w, q) /\ Opening(q)
<1> USE DEF InsertPaths
<1>0. \A r \in Res : res[r] # NoRow => res[r] \in Row
  BY DEF TypeInv, TypeOK
<1>1. CASE BeginInsert(w)
  <2>1. PICK op \in InsertPaths, to \in Stays :
           Start(w, [pc |-> IF op \in {"create", "accept"} THEN "lock" ELSE "check",
                     op |-> op, id |-> NoRes, to |-> to, set |-> Fields, seen |-> NoRow])
    BY <1>1 DEF BeginInsert
  <2> DEFINE q == [pc |-> IF op \in {"create", "accept"} THEN "lock" ELSE "check",
                   op |-> op, id |-> NoRes, to |-> to, set |-> Fields, seen |-> NoRow]
  <2>2. Opening(q)
    BY DEF Opening, Stays
  <2> QED BY <2>1, <2>2
<1>2. CASE BeginModify(w)
  <2>1. PICK r \in Res, to \in Spans, set \in SUBSET Fields \ {{}} :
           /\ \A f \in Fields \ set : to[f] = res[r][f]
           /\ set \cap {"arr", "dep"} # {} => to \in Stays
           /\ Start(w, [pc |-> IF to = StayOf(res[r]) THEN "update" ELSE "lock",
                        op |-> "modify", id |-> r, to |-> to, set |-> set, seen |-> res[r]])
    BY <1>2 DEF BeginModify
  <2> DEFINE q == [pc |-> IF to = StayOf(res[r]) THEN "update" ELSE "lock",
                   op |-> "modify", id |-> r, to |-> to, set |-> set, seen |-> res[r]]
  <2>2. Opening(q)
    BY <2>1 DEF Opening, Stays
  <2> QED BY <2>1, <2>2
<1>3. CASE BeginChannelModify(w)
  <2>1. PICK r \in Res, to \in Stays :
           /\ res[r].priced = {}
           /\ Start(w, [pc |-> "check", op |-> "channelModify", id |-> r,
                        to |-> to, set |-> Fields, seen |-> res[r]])
    BY <1>3 DEF BeginChannelModify
  <2> DEFINE q == [pc |-> "check", op |-> "channelModify", id |-> r,
                   to |-> to, set |-> Fields, seen |-> res[r]]
  <2>2. Opening(q)
    BY <2>1 DEF Opening, Stays
  <2> QED BY <2>1, <2>2
<1>4. CASE BeginConnectModify(w)
  <2>1. PICK r \in Res, to \in Stays :
           Start(w, [pc |-> "check", op |-> "connectModify", id |-> r,
                     to |-> to, set |-> Fields, seen |-> res[r]])
    BY <1>4 DEF BeginConnectModify
  <2> DEFINE q == [pc |-> "check", op |-> "connectModify", id |-> r,
                   to |-> to, set |-> Fields, seen |-> res[r]]
  <2>2. Opening(q)
    BY DEF Opening, Stays
  <2> QED BY <2>1, <2>2
<1>5. CASE BeginAmend(w)
  <2>1. PICK r \in Res, a \in Days, d \in Days :
           /\ a < d
           /\ Start(w, [pc |-> "rowlock", op |-> "amend", id |-> r,
                        to |-> [type |-> res[r].type, arr |-> a, dep |-> d],
                        set |-> {"arr", "dep"}, seen |-> NoRow])
    BY <1>5 DEF BeginAmend
  <2> DEFINE q == [pc |-> "rowlock", op |-> "amend", id |-> r,
                   to |-> [type |-> res[r].type, arr |-> a, dep |-> d],
                   set |-> {"arr", "dep"}, seen |-> NoRow]
  <2>2. Opening(q)
    BY <2>1 DEF Opening
  <2> QED BY <2>1, <2>2
<1>6. CASE BeginPost(w)
  <2>1. PICK r \in Res, op \in {"postNight", "postOnce"} :
           Start(w, [pc |-> "rowlock", op |-> op, id |-> r,
                     to |-> StayOf(res[r]), set |-> {}, seen |-> NoRow])
    BY <1>6 DEF BeginPost
  <2> DEFINE q == [pc |-> "rowlock", op |-> op, id |-> r,
                   to |-> StayOf(res[r]), set |-> {}, seen |-> NoRow]
  <2>2. Opening(q)
    BY DEF Opening
  <2> QED BY <2>1, <2>2
<1>7. CASE BeginSplit(w)
  <2>1. PICK r \in Res, t \in Types :
           /\ res[r] # NoRow
           /\ Start(w, [pc |-> "insert", op |-> "split", id |-> r,
                        to |-> [StayOf(res[r]) EXCEPT !.type = t], set |-> Fields, seen |-> res[r]])
    BY <1>7 DEF BeginSplit
  <2> DEFINE q == [pc |-> "insert", op |-> "split", id |-> r,
                   to |-> [StayOf(res[r]) EXCEPT !.type = t], set |-> Fields, seen |-> res[r]]
  <2>2. Opening(q)
    BY <1>0, <2>1 DEF Opening, StayOf
  <2> QED BY <2>1, <2>2
<1>8. CASE BeginUpgrade(w)
  <2>1. PICK r \in Res, t \in Types :
           Start(w, [pc |-> "update", op |-> "upgrade", id |-> r,
                     to |-> [StayOf(res[r]) EXCEPT !.type = t], set |-> {"type"}, seen |-> res[r]])
    BY <1>8 DEF BeginUpgrade
  <2> DEFINE q == [pc |-> "update", op |-> "upgrade", id |-> r,
                   to |-> [StayOf(res[r]) EXCEPT !.type = t], set |-> {"type"}, seen |-> res[r]]
  <2>2. Opening(q)
    BY DEF Opening
  <2> QED BY <2>1, <2>2
<1> QED BY <1>1, <1>2, <1>3, <1>4, <1>5, <1>6, <1>7, <1>8 DEF Begin

\* What a request keeps from its step q to its step p.
Carries(q, p) ==
    /\ p.op = q.op /\ p.id = q.id /\ p.set = q.set
    /\ p.to.arr = q.to.arr /\ p.to.dep = q.to.dep
    /\ q.op \in {"split", "modify", "channelModify"} => p.seen = q.seen
    /\ q.pc # "rowlock" => p.to.type = q.to.type
    /\ q.pc = "rowlock" => p.to.type = res[q.id].type
    /\ q.pc # "insert" /\ p.pc # "rowlock"
    /\ p.pc = "check" => q.pc = "lock"
    /\ p.pc = "insert" => q.pc = "check" /\ q.op \in InsertPaths
    /\ p.pc = "update" => q.pc = "check" /\ q.op \notin InsertPaths
    /\ p.pc \in {"insert", "update"} => Fits(q)

\* A granted request inserts, updates, ends without a write, or goes on.
LEMMA Goes ==
  ASSUME LockInv, NEW w \in Workers, Proceed(w) \/ Abort(w)
  PROVE  /\ req[w] \in Request /\ req[w] # Idle /\ Standing(w)
         /\ \/ Insert(w)
            \/ Update(w)
            \/ End(w) /\ UNCHANGED res
            \/ UNCHANGED <<res, req>>
            \/ /\ UNCHANGED res
               /\ \E p : req' = [req EXCEPT ![w] = p] /\ Carries(req[w], p)
<1> DEFINE q == req[w]
<1>0. TypeOK /\ RequestShape /\ Idle.pc = "idle" /\ req \in [Workers -> Request \cup {Idle}]
  BY DEF LockInv, TypeInv, TypeOK, Idle
<1>1. q # Idle
  BY <1>0 DEF Proceed, Abort, LockRow, LockProperty, LockInventory, CheckPasses,
              CheckFails, ShareProperty, ShareType, Insert, LockUpdated, Update, PostCharge
<1>2. q \in Request /\ Standing(w)
  BY <1>0, <1>1 DEF LockInv
<1>3. q.to \in Spans
  BY <1>2 DEF Request
<1>4. CASE LockRow(w)
  <2> DEFINE p == [q EXCEPT !.pc = IF q.op = "amend" THEN "property" ELSE "charge",
                            !.seen = res[q.id], !.to.type = res[q.id].type]
  <2>1. req' = [req EXCEPT ![w] = p] /\ UNCHANGED res /\ q.pc = "rowlock"
    BY <1>0, <1>4 DEF LockRow
  <2>2. q.op \notin {"split", "modify", "channelModify"}
    BY <1>2, <2>1 DEF Standing
  <2>3. Carries(q, p)
    BY <1>2, <1>3, <2>1, <2>2 DEF Carries, Request, Spans
  <2> QED BY <1>1, <1>2, <2>1, <2>3
<1>5. CASE LockProperty(w)
  <2> DEFINE p == [q EXCEPT !.pc = "lock"]
  <2>1. req' = [req EXCEPT ![w] = p] /\ UNCHANGED res /\ q.pc = "property"
    BY <1>0, <1>5 DEF LockProperty, Goto
  <2>2. Carries(q, p)
    BY <1>2, <2>1 DEF Carries, Request
  <2> QED BY <1>1, <1>2, <2>1, <2>2
<1>6. CASE LockInventory(w)
  <2> DEFINE p == [q EXCEPT !.pc = "check"]
  <2>1. req' = [req EXCEPT ![w] = p] /\ UNCHANGED res /\ q.pc = "lock"
    BY <1>0, <1>6 DEF LockInventory, Goto
  <2>2. Carries(q, p)
    BY <1>2, <2>1 DEF Carries, Request
  <2> QED BY <1>1, <1>2, <2>1, <2>2
<1>7. CASE CheckPasses(w)
  <2> DEFINE p == [q EXCEPT !.pc = IF q.op \in InsertPaths THEN "insert" ELSE "update"]
  <2>1. req' = [req EXCEPT ![w] = p] /\ UNCHANGED res /\ q.pc = "check" /\ Fits(q)
    BY <1>0, <1>7 DEF CheckPasses, Goto
  <2>2. Carries(q, p)
    BY <1>2, <2>1 DEF Carries, Request
  <2> QED BY <1>1, <1>2, <2>1, <2>2
<1>8. CASE CheckFails(w) \/ PostCharge(w) \/ Abort(w)
  BY <1>1, <1>2, <1>8 DEF CheckFails, PostCharge, Abort
<1>9. CASE ShareProperty(w) \/ ShareType(w) \/ LockUpdated(w)
  BY <1>1, <1>2, <1>9 DEF ShareProperty, ShareType, LockUpdated
<1> QED BY <1>1, <1>2, <1>4, <1>5, <1>6, <1>7, <1>8, <1>9 DEF Proceed

Alone == \A v, w \in Workers : v = w

\* What the dates of a request are worth when it writes them.  A modification
\* is alone, and the dates it does not set are still those it read.
Dated(table, q) ==
    /\ q.op = "modify" =>
         /\ Alone
         /\ q.set \cap {"arr", "dep"} # {} => q.to.arr < q.to.dep
         /\ "arr" \notin q.set => table[q.id].arr = q.to.arr
         /\ "dep" \notin q.set => table[q.id].dep = q.to.dep
    /\ q.op \in InsertPaths \cup {"split", "amend", "channelModify", "connectModify"}
         => q.to.arr < q.to.dep
    /\ q.op = "split" => q.seen.nights = q.to.dep - q.to.arr
    /\ q.op \in {"amend", "channelModify", "connectModify"} => {"arr", "dep"} \subseteq q.set
    /\ q.op \in {"upgrade", "postNight", "postOnce"} => q.set \cap {"arr", "dep"} = {}
    /\ q.pc = "insert" => q.op \in InsertPaths \cup {"split"}
    /\ q.op = "split" => q.pc = "insert"
    /\ q.op \notin {"release", "ical"}

DateInv ==
    /\ LockInv
    /\ \A w \in Workers : req[w] # Idle => Dated(res, req[w])
    /\ NightsMatchDates

\* A row whose nights column is right.
Counted(x) == x.nights = x.dep - x.arr /\ x.nights > 0

LEMMA InsertCounts ==
  ASSUME NEW q \in Request, Dated(res, q), q.op \in InsertPaths \cup {"split"}
  PROVE  Counted(NewRow(q))
<1>1. q.to \in Spans
  BY DEF Request
<1>2. q.to.arr \in Int /\ q.to.dep \in Int
  BY <1>1, ConstantsAssumption DEF Spans, Days
<1> QED BY <1>2 DEF Dated, NewRow, Counted

LEMMA UpdateCounts ==
  ASSUME NEW q \in Request, Dated(res, q), NEW x \in Row, x = res[q.id], Counted(x),
         q.pc = "update", q.op \notin InsertPaths
  PROVE  Counted(UpdatedRow(q, x))
<1>1. q.to \in Spans
  BY DEF Request
<1>2. /\ q.to.arr \in Int /\ q.to.dep \in Int
      /\ x.arr \in Int /\ x.dep \in Int /\ x.nights \in Int
  BY <1>1, ConstantsAssumption DEF Spans, Days, Row
<1>3. LET y == UpdatedRow(q, x) IN
      /\ y.arr = (IF "arr" \in q.set THEN q.to.arr ELSE x.arr)
      /\ y.dep = (IF "dep" \in q.set THEN q.to.dep ELSE x.dep)
      /\ y.nights = (IF q.set \cap {"arr", "dep"} # {} THEN q.to.dep - q.to.arr ELSE x.nights)
  BY DEF UpdatedRow, Row
<1>4. q.op \in {"amend", "channelModify", "connectModify", "modify", "upgrade", "postNight", "postOnce"}
  BY DEF Request, Dated, AllPaths, InsertPaths, ModifyPaths
<1>5. CASE q.op \in {"amend", "channelModify", "connectModify"}
  <2>1. "arr" \in q.set /\ "dep" \in q.set /\ q.to.arr < q.to.dep
    BY <1>5 DEF Dated
  <2> QED BY <1>2, <1>3, <2>1 DEF Counted
<1>6. CASE q.op \in {"upgrade", "postNight", "postOnce"}
  <2>1. "arr" \notin q.set /\ "dep" \notin q.set /\ q.set \cap {"arr", "dep"} = {}
    BY <1>6 DEF Dated
  <2> QED BY <1>2, <1>3, <2>1 DEF Counted
<1>7. CASE q.op = "modify" /\ q.set \cap {"arr", "dep"} # {}
  <2>1. /\ q.to.arr < q.to.dep
        /\ "arr" \notin q.set => x.arr = q.to.arr
        /\ "dep" \notin q.set => x.dep = q.to.dep
    BY <1>7 DEF Dated
  <2> QED BY <1>2, <1>3, <1>7, <2>1 DEF Counted
<1>8. CASE q.op = "modify" /\ q.set \cap {"arr", "dep"} = {}
  <2>1. "arr" \notin q.set /\ "dep" \notin q.set
    BY <1>8
  <2> QED BY <1>2, <1>3, <1>8, <2>1 DEF Counted
<1> QED BY <1>4, <1>5, <1>6, <1>7, <1>8

LEMMA DateInvInductive ==
  ASSUME Alone \/ "modify" \notin Paths
  PROVE  DateInv /\ [Next]_vars => DateInv'
<1> SUFFICES ASSUME DateInv, [Next]_vars PROVE DateInv'
  OBVIOUS
<1>0. /\ LockInv /\ LockInv' /\ TypeInv /\ TypeOK /\ RequestShape
      /\ req \in [Workers -> Request \cup {Idle}] /\ res \in [Res -> Row \cup {NoRow}]
  BY LockInvInductive DEF DateInv, LockInv, TypeInv, TypeOK
<1>1. \A r \in Res : res[r] # NoRow => res[r] \in Row /\ Counted(res[r])
  BY <1>0 DEF DateInv, NightsMatchDates, Counted
<1>2. \A w \in Workers : req[w] # Idle => Dated(res, req[w])
  BY DEF DateInv
<1>same. ASSUME UNCHANGED res PROVE NightsMatchDates'
  BY <1>same DEF DateInv, NightsMatchDates
<1>put. ASSUME NEW r \in Res, NEW x, res' = [res EXCEPT ![r] = x], Counted(x)
        PROVE  NightsMatchDates'
  BY <1>0, <1>1, <1>put DEF NightsMatchDates, Counted
<1>go. ASSUME NEW w \in Workers, NEW q, req' = [req EXCEPT ![w] = q], q # Idle => Dated(res', q)
       PROVE  (\A v \in Workers : req[v] # Idle => Dated(res, req[v]))'
  <2>1. req'[w] = q /\ \A v \in Workers \ {w} : req'[v] = req[v]
    BY <1>0, <1>go
  <2>2. ASSUME NEW v \in Workers \ {w}, req[v] # Idle PROVE Dated(res', req[v])
    BY <1>2, <2>2 DEF Dated, Alone
  <2>3. \A v \in Workers : req'[v] # Idle => Dated(res', req'[v])
    BY <1>go, <2>1, <2>2
  <2> QED BY <2>3 DEF Dated
<1>end. ASSUME NEW w \in Workers, End(w)
        PROVE  (\A v \in Workers : req[v] # Idle => Dated(res, req[v]))'
  BY <1>go, <1>end DEF End
<1>still. ASSUME UNCHANGED <<res, req>> PROVE DateInv'
  BY <1>0, <1>2, <1>same, <1>still DEF DateInv
<1>3. ASSUME NEW w \in Workers, Begin(w) PROVE DateInv'
  <2>1. PICK q : Start(w, q) /\ Opening(q)
    BY <1>0, <1>3, Opens
  <2>2. q.op \in Paths /\ q.op \in AllPaths
    BY <2>1, ConstantsAssumption DEF Start
  <2>3. q.op = "split" => q.to.arr < q.to.dep /\ q.seen.nights = q.to.dep - q.to.arr
    <3>1. ASSUME q.op = "split" PROVE q.seen \in Row /\ Counted(q.seen)
      BY <1>1, <2>1, <3>1, IdleIsNoRequest DEF Opening
    <3>2. ASSUME q.seen \in Row PROVE q.seen.arr \in Int /\ q.seen.dep \in Int
      BY <3>2, ConstantsAssumption DEF Row, Days
    <3> QED BY <2>1, <3>1, <3>2 DEF Opening, Counted
  <2>4. Dated(res, q)
    <3>1. q.op = "modify" => /\ "arr" \notin q.set => res[q.id].arr = q.to.arr
                             /\ "dep" \notin q.set => res[q.id].dep = q.to.dep
      BY <2>1 DEF Opening, Fields
    <3>2. q.op = "modify" => Alone
      BY <2>2
    <3> QED BY <2>1, <2>2, <2>3, <3>1, <3>2 DEF Opening, Dated, Fields
  <2>5. UNCHANGED res /\ req' = [req EXCEPT ![w] = q]
    BY <2>1 DEF Start
  <2> QED BY <1>0, <1>same, <1>go, <2>4, <2>5 DEF DateInv
<1>4. ASSUME NEW w \in Workers, Proceed(w) \/ Abort(w) PROVE DateInv'
  <2> DEFINE q == req[w]
  <2>1. /\ q \in Request /\ Dated(res, q) /\ q # Idle
        /\ q.op \notin InsertPaths => q.id \in Res /\ res[q.id] \in Row
    BY <1>0, <1>2, <1>4, Goes DEF RequestShape
  <2>2. CASE Insert(w)
    <3>1. PICK r \in Res : res' = [res EXCEPT ![r] = NewRow(q)]
      BY <2>2 DEF Insert
    <3>2. q.op \in InsertPaths \cup {"split"}
      BY <2>1, <2>2 DEF Insert, Dated
    <3> QED BY <1>0, <1>put, <1>end, <2>1, <2>2, <3>1, <3>2, InsertCounts DEF Insert, DateInv
  <2>3. CASE Update(w)
    <3>1. q.pc = "update" /\ q.op \notin InsertPaths
      BY <1>0, <2>1, <2>3 DEF Update, RequestShape
    <3>2. Counted(UpdatedRow(q, res[q.id]))
      BY <1>1, <2>1, <3>1, UpdateCounts, IdleIsNoRequest
    <3> QED BY <1>0, <1>put, <1>end, <2>1, <2>3, <3>1, <3>2 DEF Update, DateInv
  <2>4. CASE End(w) /\ UNCHANGED res
    BY <1>0, <1>same, <1>end, <2>4 DEF DateInv
  <2>5. CASE UNCHANGED res /\ \E p : req' = [req EXCEPT ![w] = p] /\ Carries(q, p)
    <3>1. PICK p : req' = [req EXCEPT ![w] = p] /\ Carries(q, p)
      BY <2>5
    <3>2. Dated(res, p)
      BY <2>1, <3>1 DEF Dated, Carries
    <3> QED BY <1>0, <1>same, <1>go, <2>5, <3>1, <3>2 DEF DateInv
  <2> QED BY <1>0, <1>4, <1>still, <2>2, <2>3, <2>4, <2>5, Goes
<1>5. ASSUME NEW r \in Res, Release(r) PROVE DateInv'
  <2>1. UNCHANGED req /\ res' = [res EXCEPT ![r] = [res[r] EXCEPT !.status = "released"]] /\ res[r] # NoRow
    BY <1>5 DEF Release
  <2>2. Counted([res[r] EXCEPT !.status = "released"])
    BY <1>1, <2>1 DEF Counted, Row
  <2>3. \A s \in Res : res[s] \in Row => res'[s].arr = res[s].arr /\ res'[s].dep = res[s].dep
    BY <1>0, <1>1, <2>1 DEF Row
  <2>4. ASSUME NEW v \in Workers, req[v] # Idle PROVE Dated(res', req[v])
    <3>1. req[v].op = "modify" => req[v].id \in Res /\ res[req[v].id] \in Row
      BY <1>0, <2>4 DEF RequestShape, InsertPaths
    <3> QED BY <1>2, <2>3, <2>4, <3>1 DEF Dated
  <2>5. (\A v \in Workers : req[v] # Idle => Dated(res, req[v]))'
    BY <2>1, <2>4 DEF Dated
  <2> QED BY <1>0, <1>put, <2>1, <2>2, <2>5 DEF DateInv
<1> QED BY <1>3, <1>4, <1>5, <1>still DEF Next, SyncImportFeed, vars

\* The nights column of every row agrees with its dates, whatever the entry
\* points do, unless ReservationService.modify, which writes one date of the
\* dto and a nights column counted from dates it read before its lock, meets
\* another request.
THEOREM NightsAgree ==
  ASSUME Alone \/ "modify" \notin Paths
  PROVE  Spec => []NightsMatchDates
<1>1. Init => DateInv
  BY LockInvInitially DEF Init, DateInv, NightsMatchDates
<1>2. DateInv => NightsMatchDates
  BY DEF DateInv
<1> QED BY <1>1, <1>2, DateInvInductive, PTL DEF Spec

\* The entry points that move a stay without its pricing lock.
Unpriced == {"modify", "connectModify", "upgrade"}

\* An amendment that has its pricing lock knows the room type of its row; the
\* other requests that reach an update leave accepted stays alone.
Covering(w) ==
    /\ req[w].op \notin Unpriced
    /\ req[w].op = "amend" =>
         /\ req[w].set = {"arr", "dep"}
         /\ req[w].pc # "rowlock" => req[w].to.type = res[req[w].id].type
    /\ req[w].op = "channelModify" => res[req[w].id].priced = {}
    /\ req[w].pc = "check" => req[w].op \in InsertPaths \cup {"amend", "channelModify"}
    /\ req[w].pc = "update" => req[w].op \in {"amend", "channelModify"}

SnapshotInv ==
    /\ LockInv
    /\ \A w \in Workers : req[w] # Idle => Covering(w)
    /\ SnapshotCoversStay

\* A row whose snapshot, if it has one, is its stay.
Covered(x) == x.priced \subseteq {StayOf(x)}

LEMMA InsertCovers == ASSUME NEW q \in Request PROVE Covered(NewRow(q))
<1>1. q.to \in Spans
  BY DEF Request
<1>2. q.to = [type |-> q.to.type, arr |-> q.to.arr, dep |-> q.to.dep]
  BY <1>1 DEF Spans
<1>3. StayOf(NewRow(q)) = q.to
  BY <1>2 DEF StayOf, NewRow
<1> QED BY <1>3 DEF Covered, NewRow

LEMMA UpdateCovers ==
  ASSUME NEW q \in Request, NEW x \in Row, Covered(x),
         \/ q.op = "amend" /\ q.set = {"arr", "dep"} /\ q.to.type = x.type
         \/ q.op = "channelModify" /\ x.priced = {}
  PROVE  Covered(UpdatedRow(q, x))
<1>1. q.to \in Spans
  BY DEF Request
<1>2. q.to = [type |-> q.to.type, arr |-> q.to.arr, dep |-> q.to.dep]
  BY <1>1 DEF Spans
<1>3. LET y == UpdatedRow(q, x) IN
      /\ y.type = (IF "type" \in q.set THEN q.to.type ELSE x.type)
      /\ y.arr = (IF "arr" \in q.set THEN q.to.arr ELSE x.arr)
      /\ y.dep = (IF "dep" \in q.set THEN q.to.dep ELSE x.dep)
      /\ y.priced = (IF q.op = "amend" THEN {q.to} ELSE x.priced)
  BY DEF UpdatedRow, Row
<1> QED BY <1>2, <1>3 DEF Covered, StayOf

\* What a step of w keeps of the rows that matter to the others.
TypesKept(w) ==
    \A v \in Workers \ {w} : \A r \in Res :
        row[r] = v /\ res[r] \in Row => res'[r].type = res[r].type

LEMMA CoveringKept ==
  ASSUME SnapshotInv, PricedSame, NEW w, NEW v \in Workers \ {w}, TypesKept(w),
         req'[v] = req[v], req[v] # Idle
  PROVE  Covering(v)'
<1>1. Covering(v) /\ Standing(v) /\ RequestShape
  BY DEF SnapshotInv, LockInv, TypeInv
<1>2. req[v].op \in {"amend", "channelModify"} => req[v].id \in Res /\ res[req[v].id] \in Row
  BY <1>1 DEF RequestShape, InsertPaths
<1>3. req[v].op = "channelModify" => res'[req[v].id].priced = {}
  BY <1>1, <1>2 DEF PricedSame, Covering
<1>4. req[v].op = "amend" /\ req[v].pc # "rowlock" => res'[req[v].id].type = res[req[v].id].type
  BY <1>1, <1>2 DEF TypesKept, Standing
<1> QED BY <1>1, <1>3, <1>4 DEF Covering

LEMMA SnapshotInvInductive ==
  ASSUME Unpriced \cap Paths = {}
  PROVE  SnapshotInv /\ [Next]_vars => SnapshotInv'
<1> SUFFICES ASSUME SnapshotInv, [Next]_vars PROVE SnapshotInv'
  OBVIOUS
<1>0. /\ LockInv /\ LockInv' /\ TypeInv /\ TypeOK /\ RequestShape /\ NoRow \notin Row
      /\ req \in [Workers -> Request \cup {Idle}] /\ res \in [Res -> Row \cup {NoRow}]
  BY LockInvInductive, IdleIsNoRequest DEF SnapshotInv, LockInv, TypeInv, TypeOK
<1>1. \A r \in Res : res[r] # NoRow => res[r] \in Row /\ Covered(res[r])
  BY <1>0 DEF SnapshotInv, SnapshotCoversStay, Covered
<1>same. ASSUME UNCHANGED res
         PROVE  SnapshotCoversStay' /\ PricedSame /\ \A w : TypesKept(w)
  BY <1>same DEF SnapshotInv, SnapshotCoversStay, StayOf, PricedSame, TypesKept
<1>put. ASSUME NEW r \in Res, NEW x, res' = [res EXCEPT ![r] = x], Covered(x)
        PROVE  SnapshotCoversStay'
  BY <1>0, <1>1, <1>put DEF SnapshotCoversStay, Covered, StayOf
<1>go. ASSUME NEW w \in Workers, NEW q, req' = [req EXCEPT ![w] = q], PricedSame, TypesKept(w),
              q # Idle => Covering(w)'
       PROVE  \A v \in Workers : req'[v] # Idle => Covering(v)'
  <2> SUFFICES ASSUME NEW v \in Workers, req'[v] # Idle PROVE Covering(v)'
    OBVIOUS
  <2>1. CASE v = w
    BY <1>0, <1>go, <2>1
  <2>2. CASE v # w
    BY <1>0, <1>go, <2>2, CoveringKept
  <2> QED BY <2>1, <2>2
<1>kept. ASSUME UNCHANGED req, PricedSame, TypesKept(Free), SnapshotCoversStay' PROVE SnapshotInv'
  BY <1>0, <1>kept, CoveringKept, ConstantsAssumption DEF SnapshotInv
<1>still. ASSUME UNCHANGED <<res, req>> PROVE SnapshotInv'
  BY <1>same, <1>kept, <1>still
<1>2. ASSUME NEW w \in Workers, Begin(w) PROVE SnapshotInv'
  <2>1. PICK q : Start(w, q) /\ Opening(q)
    BY <1>0, <1>2, Opens
  <2>2. UNCHANGED res /\ req' = [req EXCEPT ![w] = q] /\ q.op \notin Unpriced /\ req'[w] = q
    BY <1>0, <2>1 DEF Start
  <2>3. Covering(w)'
    BY <2>1, <2>2 DEF Opening, Covering, Unpriced
  <2> QED BY <1>0, <1>same, <1>go, <2>2, <2>3 DEF SnapshotInv
<1>3. ASSUME NEW w \in Workers, Proceed(w) \/ Abort(w) PROVE SnapshotInv'
  <2> DEFINE q == req[w]
  <2>1. /\ q \in Request /\ Covering(w) /\ Standing(w) /\ q # Idle
        /\ q.op \notin InsertPaths => q.id \in Res /\ res[q.id] \in Row
    BY <1>0, <1>3, Goes DEF SnapshotInv, RequestShape
  <2>2. CASE Insert(w)
    <3>1. PICK r \in Res : res[r] = NoRow /\ res' = [res EXCEPT ![r] = NewRow(q)]
      BY <2>2 DEF Insert
    <3>2. PricedSame /\ TypesKept(w)
      BY <1>0, <3>1 DEF PricedSame, TypesKept
    <3>3. req' = [req EXCEPT ![w] = Idle]
      BY <2>2 DEF Insert, End
    <3> QED BY <1>0, <1>put, <1>go, <2>1, <3>1, <3>2, <3>3, InsertCovers DEF SnapshotInv
  <2>3. CASE Update(w)
    <3>1. /\ q.op \in {"amend", "channelModify"} /\ q.id \in Res /\ res[q.id] \in Row
          /\ res' = [res EXCEPT ![q.id] = UpdatedRow(q, res[q.id])]
          /\ req' = [req EXCEPT ![w] = Idle]
      BY <2>1, <2>3 DEF Update, End, Covering, InsertPaths
    <3>2. \/ q.op = "amend" /\ q.set = {"arr", "dep"} /\ q.to.type = res[q.id].type
          \/ q.op = "channelModify" /\ res[q.id].priced = {}
      BY <2>1, <2>3, <3>1 DEF Update, Covering
    <3>3. Covered(UpdatedRow(q, res[q.id]))
      BY <1>0, <1>1, <2>1, <3>1, <3>2, UpdateCovers
    <3>4. /\ UpdatedRow(q, res[q.id]).priced = (IF q.op = "amend" THEN {q.to} ELSE res[q.id].priced)
          /\ q.op = "amend" => res[q.id].priced # {}
      BY <2>1, <3>1 DEF UpdatedRow, Row, Standing
    <3>5. PricedSame
      BY <1>0, <3>1, <3>4 DEF PricedSame
    <3>6. \A v \in Workers \ {w} : row[q.id] # v
      BY <2>3 DEF Update
    <3>7. TypesKept(w)
      BY <1>0, <3>1, <3>6 DEF TypesKept
    <3> QED BY <1>0, <1>put, <1>go, <3>1, <3>3, <3>5, <3>7 DEF SnapshotInv
  <2>4. CASE End(w) /\ UNCHANGED res
    BY <1>0, <1>same, <1>go, <2>4 DEF SnapshotInv, End
  <2>5. CASE UNCHANGED res /\ \E p : req' = [req EXCEPT ![w] = p] /\ Carries(q, p)
    <3>1. PICK p : req' = [req EXCEPT ![w] = p] /\ Carries(q, p)
      BY <2>5
    <3>2. req'[w] = p /\ UNCHANGED res
      BY <1>0, <2>5, <3>1
    <3>3. p.pc = "check" => q.op \in InsertPaths \cup {"amend", "channelModify"}
      BY <2>1, <3>1 DEF Carries, Standing, Covering, Unpriced, InsertPaths
    <3>4. p.pc = "update" => q.op \in {"amend", "channelModify"}
      BY <2>1, <3>1 DEF Carries, Covering
    <3>5. Covering(w)'
      BY <2>1, <3>1, <3>2, <3>3, <3>4 DEF Covering, Carries
    <3> QED BY <1>0, <1>same, <1>go, <3>1, <3>2, <3>5 DEF SnapshotInv
  <2> QED BY <1>0, <1>3, <1>still, <2>2, <2>3, <2>4, <2>5, Goes
<1>5. ASSUME NEW r \in Res, Release(r) PROVE SnapshotInv'
  <2> DEFINE x == [res[r] EXCEPT !.status = "released"]
  <2>1. UNCHANGED req /\ res' = [res EXCEPT ![r] = x] /\ res[r] # NoRow
    BY <1>5 DEF Release
  <2>2. res[r] \in Row /\ Covered(res[r])
    BY <1>1, <2>1
  <2>3. x.priced = res[r].priced /\ x.type = res[r].type /\ x.arr = res[r].arr /\ x.dep = res[r].dep
    BY <2>2 DEF Row
  <2> HIDE DEF x
  <2>4. Covered(x)
    BY <2>2, <2>3 DEF Covered, StayOf
  <2>5. PricedSame /\ TypesKept(Free)
    BY <1>0, <2>1, <2>3 DEF PricedSame, TypesKept
  <2> QED BY <1>put, <1>kept, <2>1, <2>4, <2>5
<1> QED BY <1>2, <1>3, <1>5, <1>still DEF Next, SyncImportFeed, vars

\* Among the entry points that respect an accepted price (creation, acceptance,
\* amendStay, the channel's modification, split, posting and release), for any
\* number of concurrent requests: a snapshot covers exactly the stay of its
\* reservation.  amendStay holds the reservation row from the moment it reads
\* the room type until it writes dates and snapshot together.
THEOREM SnapshotExact ==
  ASSUME {"modify", "connectModify", "upgrade"} \cap Paths = {}
  PROVE  Spec => []SnapshotCoversStay
<1>1. Init => SnapshotInv
  BY LockInvInitially DEF Init, SnapshotInv, SnapshotCoversStay
<1>2. SnapshotInv => SnapshotCoversStay
  BY DEF SnapshotInv
<1>3. SnapshotInv /\ [Next]_vars => SnapshotInv'
  BY SnapshotInvInductive DEF Unpriced
<1> QED BY <1>1, <1>2, <1>3, PTL DEF Spec

-----------------------------------------------------------------------------
(* One request at a time: the arithmetic of every path that checks *)

\* The paths that write a row without an availability check.
Unchecked == {"split", "upgrade"}

\* On every night of stay s the rows other than those of X leave a unit free.
Gap(table, s, X) ==
    \A n \in Nights(s) : Cardinality(SoldIn(table, s.type, n) \ X) < Capacity(s.type)

\* The row a request modifies still has the dates and type it read, though it
\* may have been released.
FreshIn(table, q) ==
    q.op \in ModifyPaths /\ q.pc # "rowlock" =>
      /\ \A f \in Fields \ q.set : table[q.id][f] = q.to[f]
      /\ q.op \in {"modify", "channelModify"} =>
           \A f \in Fields : q.seen[f] = table[q.id][f]

\* What the write of a request needs.
FittingIn(table, q) ==
    /\ q.op \notin Unchecked
    /\ q.op = "amend" => q.set = {"arr", "dep"}
    /\ q.pc = "check" => q.op \in InsertPaths \cup ModifyPaths
    /\ q.pc = "insert" => q.op \in InsertPaths /\ Gap(table, q.to, {})
    /\ q.pc = "update" => /\ q.op \in ModifyPaths
                          /\ table[q.id].status = "held" => Gap(table, q.to, {q.id})

AloneInv ==
    /\ LockInv
    /\ WithinCapacity(res)
    /\ \A w \in Workers : req[w] # Idle => FreshIn(res, req[w]) /\ FittingIn(res, req[w])

\* Setting fewer rows aside needs more room.
LEMMA GapOfMore ==
  ASSUME NEW table, NEW s \in Spans, NEW X, Gap(table, s, {})
  PROVE  Gap(table, s, X)
<1> SUFFICES ASSUME NEW n \in Nights(s)
             PROVE  Cardinality(SoldIn(table, s.type, n) \ X) < Capacity(s.type)
  BY DEF Gap
<1> DEFINE S == SoldIn(table, s.type, n)
<1>1. S \ {} = S /\ S \ X \in SUBSET S
  OBVIOUS
<1>2. IsFiniteSet(S) /\ Cardinality(S) \in Nat /\ Cardinality(S \ X) \in Nat
      /\ Capacity(s.type) \in Nat
  BY SoldFinite, CapacityType DEF Spans
<1>3. Cardinality(S \ {}) < Capacity(s.type)
  BY DEF Gap
<1>4. Cardinality(S \ X) <= Cardinality(S)
  BY <1>1, <1>2, FS_Subset
<1> HIDE DEF S
<1>5. Cardinality(S \ X) < Capacity(s.type)
  BY <1>1, <1>2, <1>3, <1>4
<1> QED BY <1>5 DEF S

\* A night a held row occupies has room for that row.
LEMMA OwnNight ==
  ASSUME NEW table, WithinCapacity(table), NEW r \in Res, NEW t \in Types,
         NEW n \in 0..(Horizon - 1), Occupies(table[r], t, n)
  PROVE  Cardinality(SoldIn(table, t, n) \ {r}) < Capacity(t)
<1> DEFINE S == SoldIn(table, t, n)
<1>1. r \in S /\ Cardinality(S) <= Capacity(t)
  BY DEF SoldIn, WithinCapacity
<1>2. IsFiniteSet(S) /\ Cardinality(S) \in Nat /\ Capacity(t) \in Nat
  BY SoldFinite, CapacityType
<1>3. Cardinality(S \ {r}) = Cardinality(S) - 1
  BY <1>1, <1>2, FS_RemoveElement
<1> HIDE DEF S
<1>4. Cardinality(S \ {r}) < Capacity(t)
  BY <1>1, <1>2, <1>3
<1> QED BY <1>4 DEF S

\* The nights of a stay are days before the horizon.
LEMMA NightsBefore ==
  ASSUME NEW s \in Spans
  PROVE  \A n \in Nights(s) : n \in 0..(Horizon - 1) /\ n \in Int /\ s.arr <= n /\ n < s.dep
<1>1. s.arr \in 0..Horizon /\ s.dep \in 0..Horizon /\ Horizon \in Nat
  BY ConstantsAssumption DEF Spans, Days
<1> QED BY <1>1 DEF Nights

\* Writing row r into a gap, or as one that counts no more, oversells nothing.
LEMMA WriteInGap ==
  ASSUME NEW table, NEW next, NEW s \in Spans, NEW r \in Res, WithinCapacity(table),
         \A x \in Res \ {r} : next[x] = table[x],
         next[r].status = "held" =>
           /\ Gap(table, s, {r})
           /\ next[r].type = s.type /\ next[r].arr = s.arr /\ next[r].dep = s.dep
  PROVE  WithinCapacity(next)
<1> SUFFICES ASSUME NEW t \in Types, NEW n \in 0..(Horizon - 1)
             PROVE  Cardinality(SoldIn(next, t, n)) <= Capacity(t)
  BY DEF WithinCapacity
<1>0. s.arr \in Int /\ s.dep \in Int /\ n \in Int
  BY ConstantsAssumption DEF Spans, Days
<1>1. /\ Cardinality(SoldIn(table, t, n)) \in Nat
      /\ Cardinality(SoldIn(table, t, n) \ {r}) \in Nat
      /\ Cardinality(SoldIn(next, t, n)) \in Nat
      /\ Capacity(t) \in Nat
      /\ IsFiniteSet(SoldIn(table, t, n) \ {r})
  BY SoldFinite, CapacityType
<1>2. CASE Occupies(next[r], t, n)
  <2>1. t = s.type /\ n \in Nights(s) /\ Gap(table, s, {r})
    BY <1>0, <1>2 DEF Occupies, Nights
  <2>2. Cardinality(SoldIn(table, t, n) \ {r}) < Capacity(t)
    BY <2>1 DEF Gap
  <2>3. SoldIn(next, t, n) \subseteq (SoldIn(table, t, n) \ {r}) \cup {r}
    BY DEF SoldIn
  <2>4. Cardinality(SoldIn(next, t, n)) <= Cardinality(SoldIn(table, t, n) \ {r}) + 1
    BY <1>1, <2>3, OneMore
  <2> QED BY <1>1, <2>2, <2>4
<1>3. CASE ~ Occupies(next[r], t, n)
  <2>1. SoldIn(next, t, n) \subseteq SoldIn(table, t, n)
    BY <1>3 DEF SoldIn
  <2>2. Cardinality(SoldIn(next, t, n)) <= Cardinality(SoldIn(table, t, n))
    BY <2>1, FewerRows
  <2>3. Cardinality(SoldIn(table, t, n)) <= Capacity(t)
    BY DEF WithinCapacity
  <2> QED BY <1>1, <2>2, <2>3
<1> QED BY <1>2, <1>3

\* A check that passes finds a gap: on a night where the request gets its unit
\* back the row still occupies that unit, on any other a unit is free.
LEMMA CheckFindsGap ==
  ASSUME WithinCapacity(res), NEW q \in Request, Fits(q), q.pc = "check",
         q.op \in InsertPaths \cup ModifyPaths, FreshIn(res, q),
         q.op \notin InsertPaths => q.id \in Res
  PROVE  /\ q.op \in InsertPaths => Gap(res, q.to, {})
         /\ q.op \in ModifyPaths /\ res[q.id].status = "held" => Gap(res, q.to, {q.id})
<1>0. q.to \in Spans /\ q.to.type \in Types /\ InsertPaths \cap ModifyPaths = {}
  BY DEF Request, Spans, InsertPaths, ModifyPaths
<1>1. ASSUME NEW n \in Nights(q.to), GiveBack(q, n) = 0
      PROVE  Cardinality(SoldIn(res, q.to.type, n)
                           \ (IF q.op = "amend" THEN {q.id} ELSE {})) < Capacity(q.to.type)
  <2> DEFINE X == IF q.op = "amend" THEN {q.id} ELSE {}
  <2>1. Available(q.to.type, n, X) + 0 > 0
    BY <1>1 DEF Fits
  <2>2. Cardinality(ImportedBusy(q.to.type, n)) \in Nat
    BY ConstantsAssumption, FS_Subset, FS_CardinalityType DEF ImportedBusy
  <2>3. Cardinality(SoldIn(res, q.to.type, n) \ X) \in Nat /\ Capacity(q.to.type) \in Nat
    BY <1>0, SoldFinite, CapacityType
  <2>4. Sold(q.to.type, n) = SoldIn(res, q.to.type, n)
    BY DEF Sold, SoldIn
  <2> HIDE DEF X
  <2>5. Cardinality(SoldIn(res, q.to.type, n) \ X) < Capacity(q.to.type)
    BY <2>1, <2>2, <2>3, <2>4 DEF Available
  <2> QED BY <2>5 DEF X
<1>2. ASSUME NEW n \in Nights(q.to), GiveBack(q, n) # 0, q.op \in ModifyPaths,
             res[q.id].status = "held"
      PROVE  Cardinality(SoldIn(res, q.to.type, n) \ {q.id}) < Capacity(q.to.type)
  <2>1. /\ q.op \in {"modify", "channelModify"} /\ q.seen.type = q.to.type
        /\ q.seen.arr <= n /\ n < q.seen.dep
    BY <1>2 DEF GiveBack
  <2>2. /\ res[q.id].type = q.seen["type"] /\ res[q.id].arr = q.seen["arr"]
        /\ res[q.id].dep = q.seen["dep"]
    BY <1>2, <2>1 DEF FreshIn, Fields
  <2>3. Occupies(res[q.id], q.to.type, n) /\ q.id \in Res /\ n \in 0..(Horizon - 1)
    BY <1>0, <1>2, <2>1, <2>2, NightsBefore DEF Occupies
  <2> QED BY <1>0, <2>3, OwnNight
<1>3. ASSUME q.op \in InsertPaths PROVE Gap(res, q.to, {})
  <2>1. \A n \in Nights(q.to) : GiveBack(q, n) = 0
    BY <1>3 DEF GiveBack, InsertPaths
  <2>2. q.op # "amend"
    BY <1>3 DEF InsertPaths
  <2> QED BY <1>1, <2>1, <2>2 DEF Gap
<1>4. ASSUME q.op \in ModifyPaths, res[q.id].status = "held" PROVE Gap(res, q.to, {q.id})
  <2> SUFFICES ASSUME NEW n \in Nights(q.to)
               PROVE  Cardinality(SoldIn(res, q.to.type, n) \ {q.id}) < Capacity(q.to.type)
    BY DEF Gap
  <2>1. CASE GiveBack(q, n) # 0
    BY <1>2, <1>4, <2>1
  <2>2. CASE GiveBack(q, n) = 0 /\ q.op = "amend"
    BY <1>1, <2>2
  <2>3. CASE GiveBack(q, n) = 0 /\ q.op # "amend"
    <3> DEFINE S == SoldIn(res, q.to.type, n)
    <3>1. Cardinality(S \ {}) < Capacity(q.to.type) /\ S \ {} = S /\ S \ {q.id} \in SUBSET S
      BY <1>1, <2>3
    <3>2. IsFiniteSet(S) /\ Cardinality(S) \in Nat /\ Cardinality(S \ {q.id}) \in Nat
          /\ Capacity(q.to.type) \in Nat
      BY <1>0, SoldFinite, CapacityType
    <3>3. Cardinality(S \ {q.id}) <= Cardinality(S)
      BY <3>1, <3>2, FS_Subset
    <3> HIDE DEF S
    <3>4. Cardinality(S \ {q.id}) < Capacity(q.to.type)
      BY <3>1, <3>2, <3>3
    <3> QED BY <3>4 DEF S
  <2> QED BY <2>1, <2>2, <2>3
<1> QED BY <1>3, <1>4

\* A gap stays a gap when no night gains a row.
LEMMA GapKept ==
  ASSUME NEW table, NEW next, NEW s \in Spans, NEW X, Gap(table, s, X),
         \A n \in Int : SoldIn(next, s.type, n) \subseteq SoldIn(table, s.type, n)
  PROVE  Gap(next, s, X)
<1> SUFFICES ASSUME NEW n \in Nights(s)
             PROVE  Cardinality(SoldIn(next, s.type, n) \ X) < Capacity(s.type)
  BY DEF Gap
<1>1. s.type \in Types /\ n \in Int
  BY NightsBefore DEF Spans
<1>2. Cardinality(SoldIn(next, s.type, n) \ X) <= Cardinality(SoldIn(table, s.type, n) \ X)
  BY <1>1, FewerRows
<1>3. Cardinality(SoldIn(table, s.type, n) \ X) < Capacity(s.type)
  BY DEF Gap
<1>4. /\ Cardinality(SoldIn(table, s.type, n) \ X) \in Nat
      /\ Cardinality(SoldIn(next, s.type, n) \ X) \in Nat
      /\ Capacity(s.type) \in Nat
  BY <1>1, SoldFinite, CapacityType
<1> QED BY <1>2, <1>3, <1>4

\* How a request opens when every path in use checks.
LEMMA OpensFitting ==
  ASSUME TypeInv, WithinCapacity(res), Paths \cap Unchecked = {}, NEW q \in Request,
         q.op \in Paths, Opening(q),
         q.op \notin InsertPaths => q.id \in Res /\ res[q.id] \in Row
  PROVE  FreshIn(res, q) /\ FittingIn(res, q)
<1>1. FreshIn(res, q)
  BY DEF Opening, FreshIn, ModifyPaths, Fields
<1>2. q.op \notin {"split", "upgrade"}
  BY DEF Unchecked
<1>3. ASSUME q.pc = "update", res[q.id].status = "held" PROVE Gap(res, q.to, {q.id})
  <2>1. q.op = "modify" /\ q.to = StayOf(res[q.id])
    BY <1>2, <1>3 DEF Opening
  <2>2. q.id \in Res /\ res[q.id] \in Row /\ q.to \in Spans /\ q.to.type \in Types
    BY <2>1, StayOfType DEF InsertPaths, Spans
  <2>3. q.to.type = res[q.id].type /\ q.to.arr = res[q.id].arr /\ q.to.dep = res[q.id].dep
    BY <2>1 DEF StayOf
  <2>4. ASSUME NEW n \in Nights(q.to)
        PROVE  Cardinality(SoldIn(res, q.to.type, n) \ {q.id}) < Capacity(q.to.type)
    <3>1. Occupies(res[q.id], q.to.type, n) /\ n \in 0..(Horizon - 1)
      BY <1>3, <2>2, <2>3, NightsBefore DEF Occupies
    <3> QED BY <2>2, <3>1, OwnNight
  <2> QED BY <2>4 DEF Gap
<1>4. FittingIn(res, q)
  BY <1>2, <1>3 DEF Opening, FittingIn, Unchecked, ModifyPaths
<1> QED BY <1>1, <1>4

\* A request that goes on still fits.
LEMMA CarriesFitting ==
  ASSUME WithinCapacity(res), NEW w \in Workers, req[w] \in Request, Standing(w),
         FreshIn(res, req[w]), FittingIn(res, req[w]), NEW p, Carries(req[w], p),
         req[w].op \notin InsertPaths => req[w].id \in Res
  PROVE  FreshIn(res, p) /\ FittingIn(res, p)
<1> DEFINE q == req[w]
<1>1. FreshIn(res, p)
  <2>1. CASE q.pc = "rowlock"
    BY <2>1 DEF Standing, Carries, FreshIn, FittingIn, ModifyPaths, Fields
  <2>2. CASE q.pc # "rowlock"
    BY <2>2 DEF Carries, FreshIn, Fields
  <2> QED BY <2>1, <2>2
<1>2. p.pc = "check" => q.op \in InsertPaths \cup ModifyPaths
  BY DEF Standing, Carries, InsertPaths, ModifyPaths
<1>3. ASSUME NEW X, q.pc = "check", Gap(res, q.to, X) PROVE Gap(res, p.to, X)
  BY <1>3 DEF Carries, Gap, Nights
<1>4. ASSUME p.pc \in {"insert", "update"}
      PROVE  /\ q.pc = "check" /\ Fits(q) /\ q.op \in InsertPaths \cup ModifyPaths
             /\ q.op \in InsertPaths => Gap(res, q.to, {})
             /\ q.op \in ModifyPaths /\ res[q.id].status = "held" => Gap(res, q.to, {q.id})
  <2>1. q.pc = "check" /\ Fits(q) /\ q.op \in InsertPaths \cup ModifyPaths
    BY <1>4 DEF Carries, FittingIn
  <2> QED BY <2>1, CheckFindsGap
<1>5. FittingIn(res, p)
  BY <1>2, <1>3, <1>4 DEF Carries, FittingIn
<1> QED BY <1>1, <1>5

LEMMA AloneInvInductive ==
  ASSUME Alone, Paths \cap Unchecked = {}
  PROVE  AloneInv /\ [Next]_vars => AloneInv'
<1> SUFFICES ASSUME AloneInv, [Next]_vars PROVE AloneInv'
  OBVIOUS
<1>0. /\ LockInv /\ LockInv' /\ TypeInv /\ TypeOK /\ RequestShape /\ WithinCapacity(res)
      /\ TypeInv' /\ RequestShape'
      /\ req \in [Workers -> Request \cup {Idle}] /\ res \in [Res -> Row \cup {NoRow}]
      /\ req' \in [Workers -> Request \cup {Idle}]
  BY LockInvInductive DEF AloneInv, LockInv, TypeInv, TypeOK
<1>go. ASSUME NEW w \in Workers, WithinCapacity(res'),
              req'[w] # Idle => FreshIn(res', req'[w]) /\ FittingIn(res', req'[w])
       PROVE  AloneInv'
  <2>1. \A v \in Workers : req'[v] # Idle => FreshIn(res', req'[v]) /\ FittingIn(res', req'[v])
    BY <1>go DEF Alone
  <2>2. (\A v \in Workers : req[v] # Idle => FreshIn(res, req[v]) /\ FittingIn(res, req[v]))'
    BY <2>1 DEF FreshIn, FittingIn, Gap, SoldIn, Occupies, Capacity
  <2>3. WithinCapacity(res)'
    BY <1>go DEF WithinCapacity, SoldIn, Occupies
  <2> QED BY <1>0, <2>2, <2>3 DEF AloneInv
<1>end. ASSUME NEW w \in Workers, End(w), WithinCapacity(res') PROVE AloneInv'
  <2>1. req'[w] = Idle
    BY <1>0, <1>end DEF End
  <2> QED BY <1>go, <1>end, <2>1
<1>still. ASSUME UNCHANGED <<res, req>> PROVE AloneInv'
  <2>1. WithinCapacity(res)'
    BY <1>0, <1>still DEF WithinCapacity, SoldIn, Occupies
  <2>2. CASE Workers = {}
    BY <1>0, <2>1, <2>2 DEF AloneInv
  <2>3. ASSUME NEW w \in Workers PROVE AloneInv'
    BY <1>0, <1>still, <1>go DEF AloneInv
  <2> QED BY <2>2, <2>3
<1>1. ASSUME NEW w \in Workers, Begin(w) PROVE AloneInv'
  <2>1. PICK q : Start(w, q) /\ Opening(q)
    BY <1>0, <1>1, Opens
  <2>2. q.op \in Paths /\ UNCHANGED res /\ req'[w] = q
    BY <1>0, <2>1 DEF Start
  <2>3. CASE q # Idle
    <3>1. q \in Request /\ (q.op \notin InsertPaths => q.id \in Res /\ res[q.id] \in Row)
      BY <1>0, <2>2, <2>3 DEF RequestShape
    <3>2. FreshIn(res, q) /\ FittingIn(res, q)
      BY <1>0, <2>1, <2>2, <3>1, OpensFitting
    <3> QED BY <1>0, <1>go, <2>2, <3>2
  <2>4. CASE q = Idle
    BY <1>0, <1>go, <2>2, <2>4
  <2> QED BY <2>3, <2>4
<1>2. ASSUME NEW w \in Workers, Proceed(w) \/ Abort(w) PROVE AloneInv'
  <2> DEFINE q == req[w]
  <2>1. /\ q \in Request /\ q # Idle /\ Standing(w) /\ q.to \in Spans
        /\ q.op \notin InsertPaths => q.id \in Res /\ res[q.id] \in Row
        /\ FreshIn(res, q) /\ FittingIn(res, q)
    BY <1>0, <1>2, Goes DEF RequestShape, AloneInv, Request
  <2>2. CASE Insert(w)
    <3>1. PICK r \in Res : res' = [res EXCEPT ![r] = NewRow(q)]
      BY <2>2 DEF Insert
    <3>2. Gap(res, q.to, {r})
      BY <2>1, <2>2, GapOfMore DEF Insert, FittingIn
    <3>3. /\ res'[r].type = q.to.type /\ res'[r].arr = q.to.arr /\ res'[r].dep = q.to.dep
          /\ \A s \in Res \ {r} : res'[s] = res[s]
      BY <1>0, <3>1 DEF NewRow
    <3>4. WithinCapacity(res')
      BY <1>0, <2>1, <3>2, <3>3, WriteInGap
    <3> QED BY <1>end, <2>2, <3>4 DEF Insert
  <2>3. CASE Update(w)
    <3>1. /\ q.pc = "update" /\ q.op \in ModifyPaths
          /\ res' = [res EXCEPT ![q.id] = UpdatedRow(q, res[q.id])]
      BY <2>1, <2>3 DEF Update, FittingIn
    <3>2. q.id \in Res /\ res[q.id] \in Row /\ q.op # "upgrade"
      BY <2>1, <3>1 DEF ModifyPaths, InsertPaths
    <3>3. res'[q.id] = UpdatedRow(q, res[q.id]) /\ \A s \in Res \ {q.id} : res'[s] = res[s]
      BY <1>0, <3>1, <3>2
    <3>4. \A f \in Fields : f \notin q.set => res[q.id][f] = q.to[f]
      BY <2>1, <3>1 DEF FreshIn
    <3>5. /\ "type" \notin q.set => res[q.id].type = q.to.type
          /\ "arr" \notin q.set => res[q.id].arr = q.to.arr
          /\ "dep" \notin q.set => res[q.id].dep = q.to.dep
      BY <3>4 DEF Fields
    <3>6. /\ res'[q.id].type = q.to.type /\ res'[q.id].arr = q.to.arr
          /\ res'[q.id].dep = q.to.dep /\ res'[q.id].status = res[q.id].status
      BY <3>2, <3>3, <3>5 DEF UpdatedRow, Row
    <3>7. res'[q.id].status = "held" => Gap(res, q.to, {q.id})
      BY <2>1, <3>1, <3>6 DEF FittingIn
    <3>8. WithinCapacity(res')
      <4> HIDE DEF q
      <4> QED BY <1>0, <2>1, <3>2, <3>3, <3>6, <3>7, WriteInGap
    <3> QED BY <1>end, <2>3, <3>8 DEF Update
  <2>4. CASE End(w) /\ UNCHANGED res
    BY <1>0, <1>end, <2>4
  <2>5. CASE UNCHANGED res /\ \E p : req' = [req EXCEPT ![w] = p] /\ Carries(q, p)
    <3>1. PICK p : req' = [req EXCEPT ![w] = p] /\ Carries(q, p)
      BY <2>5
    <3>2. FreshIn(res, p) /\ FittingIn(res, p) /\ req'[w] = p
      BY <1>0, <2>1, <3>1, CarriesFitting
    <3> QED BY <1>0, <1>go, <2>5, <3>2
  <2> QED BY <1>0, <1>2, <1>still, <2>2, <2>3, <2>4, <2>5, Goes
<1>3. ASSUME NEW r \in Res, Release(r) PROVE AloneInv'
  <2>1. UNCHANGED req /\ res[r] \in Row /\ res' = [res EXCEPT ![r].status = "released"]
    BY <1>0, <1>3 DEF Release
  <2>2. /\ \A f \in Fields : res'[r][f] = res[r][f]
        /\ res'[r].status = "released" /\ \A s \in Res \ {r} : res'[s] = res[s]
    BY <1>0, <2>1 DEF Fields, Row
  <2>3. \A t \in Types, n \in Int : SoldIn(res', t, n) \subseteq SoldIn(res, t, n)
    BY <2>2 DEF SoldIn, Occupies
  <2>4. WithinCapacity(res')
    BY <1>0, <2>3, CapacityKept, ConstantsAssumption
  <2>5. ASSUME NEW w \in Workers, req[w] # Idle
        PROVE  FreshIn(res', req[w]) /\ FittingIn(res', req[w])
    <3> DEFINE q == req[w]
    <3>1. /\ q \in Request /\ FreshIn(res, q) /\ FittingIn(res, q) /\ q.to \in Spans
          /\ q.to.type \in Types /\ (q.op \notin InsertPaths => q.id \in Res)
      BY <1>0, <2>5 DEF AloneInv, RequestShape, Request, Spans
    <3>2. q.op \in ModifyPaths => q.id \in Res
      BY <3>1 DEF ModifyPaths, InsertPaths
    <3>3. FreshIn(res', q)
      BY <2>2, <3>1, <3>2 DEF FreshIn
    <3>4. \A X : Gap(res, q.to, X) => Gap(res', q.to, X)
      BY <2>3, <3>1, GapKept
    <3>5. q.op \in ModifyPaths /\ res'[q.id].status = "held" => res[q.id].status = "held"
      BY <2>2, <3>2
    <3>6. FittingIn(res', q)
      BY <3>1, <3>4, <3>5 DEF FittingIn
    <3> QED BY <3>3, <3>6
  <2>6. CASE Workers = {}
    BY <1>0, <2>4, <2>6 DEF AloneInv, WithinCapacity, SoldIn, Occupies
  <2>7. ASSUME NEW w \in Workers PROVE AloneInv'
    BY <1>go, <2>1, <2>4, <2>5
  <2> QED BY <2>6, <2>7
<1> QED BY <1>1, <1>2, <1>3, <1>still DEF Next, SyncImportFeed, vars

\* With one request at a time, no path that asks searchAvailability oversells
\* a night, mutex or not, while rows are released and feeds imported at any
\* point: the clamp at zero, the unit a modification gives back to itself and the
\* row an amendment leaves out never count a unit twice.  Splitting a party and a
\* guest's upgrade do not ask and are left out.
THEOREM CheckedPathsFit ==
  ASSUME Alone, Paths \cap Unchecked = {}
  PROVE  Spec => []NoOversell
<1>1. Init => AloneInv
  BY LockInvInitially, MutexInvInitially DEF Init, AloneInv, MutexInv
<1>2. AloneInv => NoOversell
  BY DEF AloneInv, WithinCapacity, NoOversell, SoldIn, Sold
<1> QED BY <1>1, <1>2, AloneInvInductive, PTL DEF Spec
=============================================================================
