---------------------------- MODULE FolioProofs -----------------------------
(***************************************************************************)
(* Reversals, groups and locked rows of the folio ledger, for every number *)
(* of requests, folios, charges and keys.                                  *)
(*                                                                         *)
(* The argument is the row locks: a request that reverses a charge holds   *)
(* the charge's row FOR UPDATE from its look-up of an earlier reversal to  *)
(* its commit (Reversing), update locks exclude each other (Exclusive),    *)
(* and rows without a commit belong to the request that inserted them      *)
(* (Owned).  A step of one request therefore leaves alone what the others  *)
(* rely on (Apart); what is left is the request's own step.                *)
(*                                                                         *)
(* The stored balance is right for one request at a time (Alone): with two *)
(* of them recalculateBalance may store a sum that is out of date.         *)
(***************************************************************************)
EXTENDS Folio, FiniteSetTheorems, TLAPS

-----------------------------------------------------------------------------
(* The inductive invariant *)

Holds(w, c) == [by |-> w, row |-> c, mode |-> "update"] \in lock

\* Nobody else holds any lock on a row that is locked FOR UPDATE.
Exclusive ==
    \A l, m \in lock : l.row = m.row /\ l.mode = "update" => l.by = m.by

\* A component of an accepted price.
KeyedChild(c) ==
    /\ ~ charge[c].reversal
    /\ charge[c].parent # None
    /\ charge[charge[c].parent].key # None

\* A row of an open transaction is one its request has inserted.
Owned(c) ==
    LET w == charge[c].tx
        q == req[w]
        x == charge[c].original
    IN  /\ q # Idle
        /\ \/ /\ q.op = "reverse" /\ q.pc \in {"children", "sum", "write"}
              /\ charge[c].reversal
              /\ Holds(w, x)
              /\ x \in q.on \/ (~ charge[x].reversal /\ charge[x].parent \in q.on)
           \/ /\ q.op = "postKeyed" /\ q.pc \in {"tax", "sum", "write"}
              /\ ~ charge[c].reversal
              /\ charge[c].key # None => c \in q.on

RowsInv ==
    \A c \in Rows :
        /\ charge[c].reversal => charge[c].original \in Committed
        /\ ~ charge[c].reversal /\ charge[c].parent # None =>
             /\ charge[c].parent \in Rows
             /\ charge[charge[c].parent].tx \in {None, charge[c].tx}
        /\ charge[c].key # None => ~ charge[c].reversal /\ charge[c].parent = None
        /\ charge[c].tx # None => Owned(c)

\* A charge has one reversal at most, committed or not.
Singles ==
    \A d, e \in Rows :
        charge[d].reversal /\ charge[e].reversal /\ charge[d].original = charge[e].original => d = e

\* A committed accepted price is whole, and so are its reversals.
GroupInv ==
    \A c \in Committed : charge[c].key # None =>
        /\ ChildrenOf(c) # {}
        /\ \A d \in ChildrenOf(c) :
             /\ d \in Committed /\ charge[d].folio = charge[c].folio
             /\ (ReversalsOf(c) \cap Committed = {}) <=> (ReversalsOf(d) \cap Committed = {})

\* Which steps an operation has.
Staged(w) ==
    /\ req[w].op = "reverse" => req[w].pc \in {"original", "insert", "children", "sum", "write"}
    /\ req[w].op \in {"post", "postKeyed"} => req[w].pc \in {"insert", "tax", "sum", "write"}
    /\ req[w].op = "pay" => req[w].pc \in {"insert", "sum", "write"}
    /\ req[w].op \in {"transfer", "move"} => req[w].pc \in {"first", "second", "check", "move"}
    /\ req[w].op \notin {"reverse", "post", "postKeyed", "pay", "transfer", "move"} => req[w].pc = "status"

Reversing(w) ==
    req[w].op = "reverse" =>
      \E c \in Committed :
        /\ req[w].on = {c}
        /\ req[w].pc # "original" =>
             /\ Holds(w, c)
             /\ ~ charge[c].locked /\ ~ charge[c].reversal /\ ~ KeyedChild(c)
        /\ req[w].pc = "insert" => ReversalsOf(c) = {}
        /\ req[w].pc \in {"children", "sum", "write"} => \E d \in ReversalsOf(c) : charge[d].tx = w
        /\ req[w].pc \in {"sum", "write"} /\ charge[c].key # None =>
             \A d \in ChildrenOf(c) : \E e \in ReversalsOf(d) : charge[e].tx \in {None, w}

Posting(w) ==
    /\ req[w].op = "post" /\ req[w].pc = "tax" =>
         \A c \in req[w].on : c \in Committed /\ charge[c].key = None
    /\ req[w].op = "postKeyed" /\ req[w].pc \in {"tax", "sum", "write"} =>
         \E c \in Rows :
           /\ req[w].on = {c}
           /\ charge[c].tx = w /\ ~ charge[c].reversal /\ charge[c].parent = None /\ charge[c].folio = req[w].f
           /\ \A d \in ChildrenOf(c) : charge[d].tx = w /\ charge[d].folio = req[w].f

Moving(w) ==
    req[w].pc = "move" => \A c \in req[w].on : c \in Committed /\ charge[c].key = None /\ ~ KeyedChild(c)

Serving(w) == req[w] # Idle => Staged(w) /\ Reversing(w) /\ Posting(w) /\ Moving(w)

\* The day close of the whole property locks no component before its base.
LockedUp ==
    \A c \in Rows :
        ~ charge[c].reversal /\ charge[c].parent # None /\ charge[c].locked => charge[charge[c].parent].locked

IInv ==
    /\ TypeOK /\ Exclusive /\ RowsInv /\ Singles /\ GroupInv
    /\ \A w \in Workers : Serving(w)
    /\ "lockFolio" \notin Ops => LockedUp

-----------------------------------------------------------------------------
(* Rows, locks and requests *)

LEMMA RowFacts ==
    ASSUME TypeOK, NEW c \in Charges
    PROVE  /\ c \in Rows <=> charge[c].tx # "absent"
           /\ c \in Rows => charge[c] \in Charge
           /\ c \notin Rows => charge[c] = NoCharge
           /\ c \in Rows => charge[c].tx \in Workers \cup {None}
<1>1. charge[c] \in Charge \cup {NoCharge}
  BY DEF TypeOK
<1>2. CASE charge[c] \in Charge
  <2>1. charge[c].tx \in Workers \cup {None}
    BY <1>2 DEF Charge
  <2>2. charge[c].tx # "absent"
    BY <2>1, FolioAssumption
  <2>3. charge[c] # NoCharge
    BY <2>2 DEF NoCharge
  <2> QED BY <1>2, <2>1, <2>2, <2>3 DEF Rows
<1>3. CASE charge[c] = NoCharge
  BY <1>3 DEF Rows, NoCharge
<1> QED BY <1>1, <1>2, <1>3

\* The same of the rows after a step.
LEMMA RowFactsNext ==
    ASSUME TypeOK', NEW c \in Charges
    PROVE  /\ c \in Rows' <=> charge'[c].tx # "absent"
           /\ c \in Rows' => charge'[c] \in Charge
           /\ c \in Rows' => charge'[c].tx \in Workers \cup {None}
<1>1. charge'[c] \in Charge \cup {NoCharge}
  BY DEF TypeOK
<1>2. CASE charge'[c] \in Charge
  <2>1. charge'[c].tx \in Workers \cup {None}
    BY <1>2 DEF Charge
  <2>2. charge'[c].tx # "absent"
    BY <2>1, FolioAssumption
  <2>3. charge'[c] # NoCharge
    BY <2>2 DEF NoCharge
  <2> QED BY <1>2, <2>1, <2>2, <2>3 DEF Rows
<1>3. CASE charge'[c] = NoCharge
  BY <1>3 DEF Rows, NoCharge
<1> QED BY <1>1, <1>2, <1>3

LEMMA RequestRow ==
    ASSUME TypeOK, NEW w \in Workers, req[w].pc \in Steps
    PROVE  req[w] \in Request /\ req[w] # Idle
BY DEF TypeOK, Idle, Steps

\* A lock that is needed and granted is nobody else's.
LEMMA GrantedApart ==
    ASSUME TypeOK, NEW w \in Workers, Granted(w), NEW n \in Needs(req[w]), NEW m \in lock, m.by # w, m.row = n.row
    PROVE  m.mode # "update" /\ n.mode # "update"
<1>1. <<m.mode, n.mode>> \in Compatible
  BY DEF Granted, WaitsFor
<1> QED BY <1>1 DEF Compatible

\* The locks of one request change, and exclude the others still.
LockStep(w) ==
    /\ lock' \subseteq Lock
    /\ Exclusive'
    /\ \A l \in Lock : l.by # w => (l \in lock' <=> l \in lock)

LEMMA NoLockStep ==
    ASSUME TypeOK, Exclusive, lock' = lock, NEW w
    PROVE  LockStep(w)
BY DEF TypeOK, Exclusive, LockStep

LEMMA ReleaseStep ==
    ASSUME TypeOK, Exclusive, NEW w, Release(w)
    PROVE  LockStep(w)
BY DEF TypeOK, Exclusive, LockStep, Release

LEMMA TakeStep ==
    ASSUME TypeOK, Exclusive, NEW w \in Workers, Granted(w), Take(w),
           \A n \in Needs(req[w]) : n.row \in Folios \cup Charges /\ n.mode \in Modes
    PROVE  LockStep(w) /\ lock \subseteq lock'
<1> DEFINE new == {[by |-> w, row |-> n.row, mode |-> n.mode] : n \in Needs(req[w])}
<1>1. lock' = lock \cup new
  BY DEF Take
<1>2. ASSUME NEW l \in new
      PROVE  /\ l \in Lock /\ l.by = w
             /\ \E n \in Needs(req[w]) : l.row = n.row /\ l.mode = n.mode
  BY DEF Lock
<1> HIDE DEF new
<1>3. \A l \in new, m \in lock : l.row = m.row /\ (l.mode = "update" \/ m.mode = "update") => l.by = m.by
  BY <1>2, GrantedApart
<1>4. \A l, m \in new : l.by = m.by
  BY <1>2
<1>5. Exclusive'
  BY <1>1, <1>3, <1>4 DEF Exclusive
<1>6. lock' \subseteq Lock
  BY <1>1, <1>2 DEF TypeOK
<1> QED BY <1>1, <1>2, <1>5, <1>6 DEF LockStep

-----------------------------------------------------------------------------
(* What a step of one request leaves alone *)

SameRow(c) ==
    /\ charge'[c].reversal <=> charge[c].reversal
    /\ charge'[c].parent = charge[c].parent
    /\ charge'[c].original = charge[c].original
    /\ charge'[c].key = charge[c].key

\* The open transaction of w goes on, is undone, or commits.
Pending == \A c \in Rows : c \in Rows' /\ charge'[c].tx = charge[c].tx
Undone(w) ==
    /\ Rows' \subseteq Rows
    /\ \A c \in Rows : charge[c].tx = w => c \notin Rows'
    /\ \A c \in Rows : charge[c].tx # w => c \in Rows' /\ charge'[c].tx = charge[c].tx
Done(w) ==
    /\ Rows' = Rows
    /\ \A c \in Rows : charge[c].tx = w => charge'[c].tx = None
    /\ \A c \in Rows : charge[c].tx # w => charge'[c].tx = charge[c].tx

\* A row w has inserted.
Inserted(w, c) ==
    /\ ~ charge'[c].locked
    /\ \/ /\ charge'[c].reversal /\ charge'[c].key = None /\ charge'[c].tx = w
          /\ charge'[c].original \in Committed
          /\ [by |-> w, row |-> charge'[c].original, mode |-> "update"] \in lock'
       \/ /\ ~ charge'[c].reversal /\ charge'[c].parent = None
          /\ charge'[c].tx \in {None, w} /\ (charge'[c].key # None => charge'[c].tx = w)
       \/ /\ ~ charge'[c].reversal /\ charge'[c].parent \in Rows /\ charge'[c].key = None
          /\ \/ /\ charge[charge'[c].parent].tx = None /\ charge[charge'[c].parent].key = None
                /\ charge'[c].tx = None
             \/ charge[charge'[c].parent].tx = w /\ charge'[c].tx = w

Apart(w) ==
    /\ TypeOK'
    /\ LockStep(w)
    /\ \A v \in Workers \ {w} : req'[v] = req[v]
    /\ Pending \/ Undone(w) \/ Done(w)
    /\ \A c \in Rows : c \in Rows' =>
         /\ SameRow(c)
         /\ charge'[c].locked <=> charge[c].locked
         /\ charge'[c].folio # charge[c].folio =>
              c \in Committed /\ charge[c].key = None /\ ~ KeyedChild(c)
    /\ \A c \in Rows' : c \notin Rows => Inserted(w, c)

LEMMA CommittedStays ==
    ASSUME IInv, NEW w, w # None, Apart(w), NEW c \in Committed
    PROVE  c \in Committed' /\ c \in Rows /\ c \in Rows' /\ SameRow(c) /\ (charge'[c].locked <=> charge[c].locked)
<1>1. c \in Rows /\ charge[c].tx = None
  BY DEF Committed
<1>2. c \in Rows' /\ charge'[c].tx = None
  BY <1>1 DEF Apart, Pending, Undone, Done
<1> QED BY <1>1, <1>2 DEF Committed, Apart

LEMMA OthersRowStays ==
    ASSUME IInv, NEW w, Apart(w), NEW c \in Rows, charge[c].tx # w
    PROVE  c \in Rows' /\ charge'[c].tx = charge[c].tx /\ SameRow(c)
BY DEF Apart, Pending, Undone, Done

\* The components of a committed accepted price are the ones it was posted with.
LEMMA KeyedChildren ==
    ASSUME IInv, NEW w, w # None, Apart(w), NEW c \in Committed, charge[c].key # None
    PROVE  ChildrenOf(c)' = ChildrenOf(c) /\ ChildrenOf(c) \subseteq Committed
<1>1. ChildrenOf(c) \subseteq Committed
  BY DEF IInv, GroupInv
<1>2. ASSUME NEW d \in ChildrenOf(c) PROVE d \in ChildrenOf(c)'
  BY <1>1, <1>2, CommittedStays DEF ChildrenOf, SameRow
<1>3. ASSUME NEW d \in ChildrenOf(c)' PROVE d \in ChildrenOf(c)
  <2>1. d \in Rows' /\ ~ charge'[d].reversal /\ charge'[d].parent = c
    BY DEF ChildrenOf
  <2>2. CASE d \in Rows
    BY <2>1, <2>2 DEF ChildrenOf, Apart, SameRow
  <2>3. CASE d \notin Rows
    <3>1. Inserted(w, d)
      BY <2>1, <2>3 DEF Apart
    <3>2. c \in Rows /\ charge[c].tx = None /\ c # None
      BY FolioAssumption DEF Committed, Rows
    <3> QED BY <2>1, <3>1, <3>2 DEF Inserted
  <2> QED BY <2>2, <2>3
<1> QED BY <1>1, <1>2, <1>3

LEMMA LockStays ==
    ASSUME TypeOK, NEW w, LockStep(w), NEW v \in Workers, v # w, NEW c \in Charges
    PROVE  Holds(v, c)' <=> Holds(v, c)
<1> DEFINE l == [by |-> v, row |-> c, mode |-> "update"]
<1>1. l \in Lock /\ l.by # w
  BY DEF Lock, Modes
<1> QED BY <1>1 DEF LockStep, Holds

\* A committed row is no component of an accepted price after the step either.
LEMMA KeyedChildStays ==
    ASSUME IInv, NEW w, w # None, Apart(w), NEW c \in Committed
    PROVE  KeyedChild(c)' <=> KeyedChild(c)
<1>1. SameRow(c) /\ c \in Rows /\ charge[c].tx = None
  BY CommittedStays DEF Committed
<1>2. CASE ~ charge[c].reversal /\ charge[c].parent # None
  <2>1. charge[c].parent \in Committed
    BY <1>1, <1>2 DEF IInv, RowsInv, Committed
  <2>2. charge'[charge[c].parent].key = charge[charge[c].parent].key
    BY <2>1, CommittedStays DEF SameRow
  <2> QED BY <1>1, <1>2, <2>2 DEF KeyedChild, SameRow
<1>3. CASE charge[c].reversal \/ charge[c].parent = None
  BY <1>1, <1>3 DEF KeyedChild, SameRow
<1> QED BY <1>2, <1>3

\* The reversals there are after the step, of a charge another request holds.
LEMMA HeldStays ==
    ASSUME IInv, NEW w, w # None, Apart(w), NEW v \in Workers, v # w, NEW c \in Charges, Holds(v, c)
    PROVE  ReversalsOf(c)' \subseteq ReversalsOf(c)
<1> SUFFICES ASSUME NEW d \in ReversalsOf(c)' PROVE d \in ReversalsOf(c)
  OBVIOUS
<1>1. d \in Rows' /\ charge'[d].reversal /\ charge'[d].original = c
  BY DEF ReversalsOf
<1>2. CASE d \in Rows
  BY <1>1, <1>2 DEF ReversalsOf, Apart, SameRow
<1>3. CASE d \notin Rows
  <2>1. Inserted(w, d)
    BY <1>1, <1>3 DEF Apart
  <2>2. [by |-> w, row |-> c, mode |-> "update"] \in lock'
    BY <1>1, <2>1 DEF Inserted
  <2>3. [by |-> v, row |-> c, mode |-> "update"] \in lock'
    BY LockStays DEF Holds, Apart, IInv
  <2>4. \A l, m \in lock' : l.row = m.row /\ l.mode = "update" => l.by = m.by
    BY DEF Apart, LockStep, Exclusive
  <2> QED BY <2>2, <2>3, <2>4
<1> QED BY <1>2, <1>3

LEMMA OthersReversing ==
    ASSUME IInv, NEW w, w # None, Apart(w), NEW v \in Workers, v # w, req[v].op = "reverse", Reversing(v)
    PROVE  Reversing(v)'
<1>1. req'[v] = req[v]
  BY DEF Apart
<1>2. PICK c \in Committed :
        /\ req[v].on = {c}
        /\ req[v].pc # "original" =>
             /\ Holds(v, c)
             /\ ~ charge[c].locked /\ ~ charge[c].reversal /\ ~ KeyedChild(c)
        /\ req[v].pc = "insert" => ReversalsOf(c) = {}
        /\ req[v].pc \in {"children", "sum", "write"} => \E d \in ReversalsOf(c) : charge[d].tx = v
        /\ req[v].pc \in {"sum", "write"} /\ charge[c].key # None =>
             \A d \in ChildrenOf(c) : \E e \in ReversalsOf(d) : charge[e].tx \in {None, v}
  BY DEF Reversing
<1>3. /\ c \in Committed' /\ c \in Charges /\ SameRow(c) /\ (charge'[c].locked <=> charge[c].locked)
      /\ KeyedChild(c)' <=> KeyedChild(c)
  BY CommittedStays, KeyedChildStays DEF Committed, Rows
<1>4. Holds(v, c)' <=> Holds(v, c)
  BY <1>3, LockStays DEF IInv, Apart
<1>5. ASSUME NEW x \in Charges, NEW d \in ReversalsOf(x), charge[d].tx \in {None, v}
      PROVE  d \in ReversalsOf(x)' /\ charge'[d].tx = charge[d].tx
  <2>1. d \in Rows /\ charge[d].tx # w
    BY <1>5 DEF ReversalsOf
  <2> QED BY <2>1, OthersRowStays DEF ReversalsOf, SameRow
<1>6. ASSUME req[v].pc = "insert" PROVE ReversalsOf(c)' = {}
  BY <1>2, <1>3, <1>6, HeldStays
<1>7. ASSUME req[v].pc \in {"children", "sum", "write"} PROVE \E d \in ReversalsOf(c)' : charge'[d].tx = v
  BY <1>2, <1>3, <1>5, <1>7
<1>8. ASSUME req[v].pc \in {"sum", "write"}, charge'[c].key # None
      PROVE  \A d \in ChildrenOf(c)' : \E e \in ReversalsOf(d)' : charge'[e].tx \in {None, v}
  <2>1. ChildrenOf(c)' = ChildrenOf(c) /\ ChildrenOf(c) \subseteq Charges
    BY <1>3, <1>8, KeyedChildren DEF SameRow, ChildrenOf, Rows
  <2>2. \A d \in ChildrenOf(c) : \E e \in ReversalsOf(d) : charge[e].tx \in {None, v}
    BY <1>2, <1>3, <1>8 DEF SameRow
  <2>3. ASSUME NEW d \in ChildrenOf(c) PROVE \E e \in ReversalsOf(d)' : charge'[e].tx \in {None, v}
    <3>1. PICK e \in ReversalsOf(d) : charge[e].tx \in {None, v}
      BY <2>2
    <3>2. e \in ReversalsOf(d)' /\ charge'[e].tx = charge[e].tx
      BY <1>5, <2>1, <3>1
    <3> QED BY <3>1, <3>2
  <2> QED BY <2>1, <2>3
<1> QED BY <1>1, <1>2, <1>3, <1>4, <1>6, <1>7, <1>8 DEF Reversing, SameRow

LEMMA OthersPosting ==
    ASSUME IInv, NEW w, w # None, Apart(w), NEW v \in Workers, v # w, Posting(v)
    PROVE  Posting(v)'
<1>1. req'[v] = req[v]
  BY DEF Apart
<1>2. ASSUME req[v].op = "post", req[v].pc = "tax", NEW c \in req[v].on
      PROVE  c \in Committed' /\ charge'[c].key = None
  BY <1>2, CommittedStays DEF Posting, SameRow
<1>3. ASSUME req[v].op = "postKeyed", req[v].pc \in {"tax", "sum", "write"}
      PROVE  \E c \in Rows' :
               /\ req[v].on = {c}
               /\ charge'[c].tx = v /\ ~ charge'[c].reversal /\ charge'[c].parent = None /\ charge'[c].folio = req[v].f
               /\ \A d \in ChildrenOf(c)' : charge'[d].tx = v /\ charge'[d].folio = req[v].f
  <2>1. PICK c \in Rows :
           /\ req[v].on = {c}
           /\ charge[c].tx = v /\ ~ charge[c].reversal /\ charge[c].parent = None /\ charge[c].folio = req[v].f
           /\ \A d \in ChildrenOf(c) : charge[d].tx = v /\ charge[d].folio = req[v].f
    BY <1>3 DEF Posting
  <2>2. v # None
    BY FolioAssumption
  <2>3. ASSUME NEW d \in Rows, charge[d].tx = v
        PROVE  d \in Rows' /\ charge'[d].tx = v /\ SameRow(d) /\ charge'[d].folio = charge[d].folio
    <3>1. d \in Rows' /\ charge'[d].tx = v /\ SameRow(d)
      BY <2>3, OthersRowStays
    <3>2. d \notin Committed
      BY <2>2, <2>3 DEF Committed
    <3> QED BY <3>1, <3>2 DEF Apart
  <2>4. ASSUME NEW d \in ChildrenOf(c)' PROVE charge'[d].tx = v /\ charge'[d].folio = req[v].f
    <3>1. d \in Rows' /\ ~ charge'[d].reversal /\ charge'[d].parent = c
      BY DEF ChildrenOf
    <3>2. CASE d \in Rows
      <4>1. d \in ChildrenOf(c)
        BY <3>1, <3>2 DEF ChildrenOf, Apart, SameRow
      <4> QED BY <2>1, <2>3, <3>2, <4>1
    <3>3. CASE d \notin Rows
      <4>1. Inserted(w, d) /\ c # None
        BY <3>1, <3>3, FolioAssumption DEF Apart, Rows
      <4> QED BY <2>1, <2>2, <3>1, <4>1 DEF Inserted
    <3> QED BY <3>2, <3>3
  <2>5. c \in Rows' /\ charge'[c].tx = v /\ SameRow(c) /\ charge'[c].folio = charge[c].folio
    BY <2>1, <2>3
  <2> QED BY <2>1, <2>4, <2>5 DEF SameRow
<1> QED BY <1>1, <1>2, <1>3 DEF Posting

LEMMA Others ==
    ASSUME IInv, NEW w, w # None, Apart(w), NEW v \in Workers, v # w
    PROVE  Serving(v)'
<1>1. req'[v] = req[v]
  BY DEF Apart
<1>2. CASE req[v] = Idle
  BY <1>1, <1>2 DEF Serving
<1>3. CASE req[v] # Idle
  <2>1. Staged(v) /\ Reversing(v) /\ Posting(v) /\ Moving(v)
    BY <1>3 DEF IInv, Serving
  <2>2. Staged(v)'
    BY <1>1, <2>1 DEF Staged
  <2>3. Reversing(v)'
    BY <1>1, <2>1, OthersReversing DEF Reversing
  <2>4. Posting(v)'
    BY <2>1, OthersPosting
  <2>5. ASSUME req[v].pc = "move", NEW c \in req[v].on
        PROVE  c \in Committed' /\ charge'[c].key = None /\ ~ KeyedChild(c)'
    BY <2>1, <2>5, CommittedStays, KeyedChildStays DEF Moving, SameRow
  <2>6. Moving(v)'
    BY <1>1, <2>5 DEF Moving
  <2> QED BY <2>2, <2>3, <2>4, <2>6 DEF Serving
<1> QED BY <1>2, <1>3

\* The rows of w's transaction after its step are still accounted for.
OwnRows(w) == \A c \in Charges : c \in Rows' /\ charge'[c].tx = w => Owned(c)'

LEMMA OthersOwned ==
    ASSUME IInv, NEW w, w # None, Apart(w), NEW c \in Rows, charge[c].tx \notin {None, w}
    PROVE  Owned(c)'
<1>1. charge[c].tx \in Workers /\ c \in Charges
  BY RowFacts DEF Rows, IInv
<1>2. PICK v \in Workers : v = charge[c].tx /\ v # w
  BY <1>1
<1>3. Owned(c)
  BY DEF IInv, RowsInv
<1>4. req'[v] = req[v] /\ charge'[c].tx = v /\ SameRow(c)
  BY <1>2, OthersRowStays DEF Apart
<1>5. PICK x : x = charge[c].original
  OBVIOUS
<1>6. ASSUME charge[c].reversal
      PROVE  x \in Charges /\ SameRow(x) /\ (Holds(v, x)' <=> Holds(v, x))
  <2>1. x \in Committed
    BY <1>5, <1>6 DEF IInv, RowsInv
  <2>2. x \in Charges /\ SameRow(x)
    BY <2>1, CommittedStays DEF Committed, Rows
  <2> QED BY <1>2, <2>2, LockStays DEF IInv, Apart
<1> QED BY <1>2, <1>3, <1>4, <1>5, <1>6 DEF Owned, SameRow

LEMMA RowsKeep ==
    ASSUME IInv, NEW w, w # None, Apart(w), OwnRows(w)
    PROVE  RowsInv'
<1> SUFFICES ASSUME NEW c \in Rows'
             PROVE  /\ charge'[c].reversal => charge'[c].original \in Committed'
                    /\ ~ charge'[c].reversal /\ charge'[c].parent # None =>
                         /\ charge'[c].parent \in Rows'
                         /\ charge'[charge'[c].parent].tx \in {None, charge'[c].tx}
                    /\ charge'[c].key # None => ~ charge'[c].reversal /\ charge'[c].parent = None
                    /\ charge'[c].tx # None => Owned(c)'
  BY DEF RowsInv
<1>1. c \in Charges /\ TypeOK'
  BY DEF Rows, Apart
<1>2. CASE c \in Rows
  <2>1. SameRow(c)
    BY <1>2 DEF Apart
  <2>2. /\ charge[c].reversal => charge[c].original \in Committed
        /\ ~ charge[c].reversal /\ charge[c].parent # None =>
             /\ charge[c].parent \in Rows
             /\ charge[charge[c].parent].tx \in {None, charge[c].tx}
        /\ charge[c].key # None => ~ charge[c].reversal /\ charge[c].parent = None
        /\ charge[c].tx # None => Owned(c)
    BY <1>2 DEF IInv, RowsInv
  <2>3. charge'[c].reversal => charge'[c].original \in Committed'
    BY <2>1, <2>2, CommittedStays DEF SameRow
  <2>4. ASSUME ~ charge'[c].reversal, charge'[c].parent # None
        PROVE  charge'[c].parent \in Rows' /\ charge'[charge'[c].parent].tx \in {None, charge'[c].tx}
    <3>1. PICK p \in Rows : p = charge[c].parent /\ charge[p].tx \in {None, charge[c].tx}
      BY <2>1, <2>2, <2>4 DEF SameRow
    <3>2. p \in Rows' /\ charge'[p].tx \in {None, charge'[c].tx}
      BY <1>2, <3>1 DEF Apart, Pending, Undone, Done
    <3> QED BY <2>1, <3>1, <3>2 DEF SameRow
  <2>5. ASSUME charge'[c].tx # None PROVE Owned(c)'
    <3>1. CASE charge'[c].tx = w
      BY <1>1, <3>1 DEF OwnRows
    <3>2. CASE charge'[c].tx # w
      <4>1. charge[c].tx \notin {None, w}
        BY <1>2, <2>5, <3>2 DEF Apart, Pending, Undone, Done
      <4> QED BY <1>2, <4>1, OthersOwned
    <3> QED BY <3>1, <3>2
  <2> QED BY <2>1, <2>2, <2>3, <2>4, <2>5 DEF SameRow
<1>3. CASE c \notin Rows
  <2>1. Inserted(w, c) /\ Pending
    BY <1>3 DEF Apart, Undone, Done
  <2>2. charge'[c].reversal => charge'[c].original \in Committed'
    BY <2>1, CommittedStays DEF Inserted
  <2>3. ASSUME ~ charge'[c].reversal, charge'[c].parent # None
        PROVE  charge'[c].parent \in Rows' /\ charge'[charge'[c].parent].tx \in {None, charge'[c].tx}
    BY <2>1, <2>3 DEF Inserted, Pending
  <2>4. charge'[c].key # None => ~ charge'[c].reversal /\ charge'[c].parent = None
    BY <2>1 DEF Inserted
  <2>5. charge'[c].tx # None => Owned(c)'
    BY <1>1, <2>1 DEF Inserted, OwnRows
  <2> QED BY <2>2, <2>3, <2>4, <2>5
<1> QED BY <1>2, <1>3

\* w reverses nothing that has a reversal, and nothing twice.
NewSingles ==
    \A d, e \in Rows' : d \notin Rows /\ charge'[d].reversal =>
        /\ e \in Rows /\ charge[e].reversal => charge[e].original # charge'[d].original
        /\ e \notin Rows /\ charge'[e].reversal /\ charge'[e].original = charge'[d].original => d = e

LEMMA SinglesKeep ==
    ASSUME IInv, NEW w, Apart(w), NewSingles
    PROVE  Singles'
<1> SUFFICES ASSUME NEW d \in Rows', NEW e \in Rows',
                    charge'[d].reversal, charge'[e].reversal, charge'[d].original = charge'[e].original
             PROVE  d = e
  BY DEF Singles
<1>1. \A c \in Rows : c \in Rows' => SameRow(c)
  BY DEF Apart
<1>2. CASE d \in Rows /\ e \in Rows
  BY <1>1, <1>2 DEF IInv, Singles, SameRow
<1>3. CASE d \notin Rows
  BY <1>1, <1>3 DEF NewSingles, SameRow
<1>4. CASE e \notin Rows
  BY <1>1, <1>4 DEF NewSingles, SameRow
<1> QED BY <1>2, <1>3, <1>4

\* Until the transaction commits, the committed reversals are the ones before.
LEMMA GroupKeep ==
    ASSUME IInv, NEW w, w # None, Apart(w), Pending \/ Undone(w)
    PROVE  GroupInv'
<1>1. \A c \in Rows : c \in Rows' => SameRow(c) /\ charge'[c].tx = charge[c].tx
  BY DEF Apart, Pending, Undone
<1>2. ASSUME NEW x PROVE ReversalsOf(x)' \cap Committed' = ReversalsOf(x) \cap Committed
  <2>1. ASSUME NEW d \in ReversalsOf(x) \cap Committed PROVE d \in ReversalsOf(x)' \cap Committed'
    BY <2>1, CommittedStays DEF ReversalsOf, SameRow
  <2>2. ASSUME NEW d \in ReversalsOf(x)' \cap Committed' PROVE d \in ReversalsOf(x) \cap Committed
    <3>1. d \in Rows' /\ charge'[d].reversal /\ charge'[d].original = x /\ charge'[d].tx = None
      BY DEF ReversalsOf, Committed
    <3>2. CASE d \in Rows
      BY <1>1, <3>1, <3>2 DEF ReversalsOf, Committed, SameRow
    <3>3. CASE d \notin Rows
      BY <3>1, <3>3 DEF Apart, Inserted
    <3> QED BY <3>2, <3>3
  <2> QED BY <2>1, <2>2
<1> SUFFICES ASSUME NEW c \in Committed', charge'[c].key # None
             PROVE  /\ ChildrenOf(c)' # {}
                    /\ \A d \in ChildrenOf(c)' :
                         /\ d \in Committed' /\ charge'[d].folio = charge'[c].folio
                         /\ (ReversalsOf(c)' \cap Committed' = {}) <=> (ReversalsOf(d)' \cap Committed' = {})
  BY DEF GroupInv
<1>3. c \in Rows' /\ charge'[c].tx = None /\ c \in Charges
  BY DEF Committed, Rows
<1>4. c \in Rows
  <2>1. ASSUME c \notin Rows PROVE FALSE
    BY <1>3, <2>1 DEF Apart, Inserted
  <2> QED BY <2>1
<1>5. c \in Committed /\ charge[c].key # None
  BY <1>1, <1>3, <1>4 DEF Committed, SameRow
<1>6. ChildrenOf(c)' = ChildrenOf(c) /\ ChildrenOf(c) \subseteq Committed
  BY <1>5, KeyedChildren
<1>7. charge'[c].folio = charge[c].folio
  BY <1>3, <1>4, <1>5 DEF Apart
<1>8. ASSUME NEW d \in ChildrenOf(c) PROVE d \in Committed' /\ charge'[d].folio = charge[d].folio
  <2>1. d \in Rows /\ KeyedChild(d)
    BY <1>3, <1>5, FolioAssumption DEF ChildrenOf, KeyedChild
  <2>2. d \in Committed' /\ d \in Rows'
    BY <1>6, CommittedStays
  <2> QED BY <2>1, <2>2 DEF Apart
<1>9. ChildrenOf(c) # {}
  BY <1>5 DEF IInv, GroupInv
<1>10. ASSUME NEW d \in ChildrenOf(c)
       PROVE  /\ charge[d].folio = charge[c].folio
              /\ (ReversalsOf(c) \cap Committed = {}) <=> (ReversalsOf(d) \cap Committed = {})
  BY <1>5 DEF IInv, GroupInv
<1> QED BY <1>2, <1>6, <1>7, <1>8, <1>9, <1>10

LEMMA LockedUpKeep ==
    ASSUME IInv, NEW w, w # None, Apart(w), RowsInv', LockedUp
    PROVE  LockedUp'
<1> SUFFICES ASSUME NEW c \in Rows', ~ charge'[c].reversal, charge'[c].parent # None, charge'[c].locked
             PROVE  charge'[charge'[c].parent].locked
  BY DEF LockedUp
<1>1. c \in Rows
  <2>1. ASSUME c \notin Rows PROVE FALSE
    BY <2>1 DEF Apart, Inserted
  <2> QED BY <2>1
<1>2. PICK p : p = charge[c].parent
  OBVIOUS
<1>3. p = charge'[c].parent /\ p # None /\ ~ charge[c].reversal /\ charge[c].locked
  BY <1>1, <1>2 DEF Apart, SameRow
<1>4. p \in Rows /\ charge[p].locked
  BY <1>1, <1>2, <1>3 DEF IInv, RowsInv, LockedUp
<1>5. p \in Rows'
  BY <1>3 DEF RowsInv
<1> QED BY <1>3, <1>4, <1>5 DEF Apart

\* What a step leaves of the rows: links and locked flags last, and a new
\* reversal is not committed yet.
Lasting ==
    \A c \in Rows' :
        /\ c \in Rows => SameRow(c) /\ (charge[c].locked => charge'[c].locked)
        /\ c \notin Rows /\ charge'[c].reversal => charge'[c].tx # None

\* A step of w keeps the invariant when it keeps what w itself relies on.
LEMMA StepKeeps ==
    ASSUME IInv, NEW w \in Workers, Apart(w), OwnRows(w), NewSingles, Serving(w)',
           Pending \/ Undone(w) \/ GroupInv'
    PROVE  IInv' /\ Lasting
<1>1. w # None
  BY FolioAssumption
<1>2. TypeOK' /\ Exclusive'
  BY DEF Apart, LockStep
<1>3. RowsInv'
  BY <1>1, RowsKeep
<1>4. Singles'
  BY SinglesKeep
<1>5. GroupInv'
  BY <1>1, GroupKeep
<1>6. \A v \in Workers : Serving(v)'
  BY <1>1, Others
<1>7. "lockFolio" \notin Ops => LockedUp'
  BY <1>1, <1>3, LockedUpKeep DEF IInv
<1>8. Lasting
  BY <1>1 DEF Lasting, Apart, Inserted
<1> QED BY <1>2, <1>3, <1>4, <1>5, <1>6, <1>7, <1>8 DEF IInv

-----------------------------------------------------------------------------
(* Steps that leave the charges alone *)

LEMMA ChargesSame ==
    ASSUME charge' = charge
    PROVE  /\ Rows' = Rows /\ Committed' = Committed
           /\ \A c : ReversalsOf(c)' = ReversalsOf(c) /\ ChildrenOf(c)' = ChildrenOf(c)
           /\ \A c : KeyedChild(c)' <=> KeyedChild(c)
BY DEF Rows, Committed, ReversalsOf, ChildrenOf, KeyedChild

LEMMA SameChargesStep ==
    ASSUME IInv, NEW w \in Workers, charge' = charge, TypeOK', LockStep(w),
           \A v \in Workers \ {w} : req'[v] = req[v], Serving(w)',
           \A c \in Rows : charge[c].tx = w => Owned(c)'
    PROVE  IInv' /\ Lasting
<1>1. Rows' = Rows
  BY ChargesSame
<1>2. Pending
  BY <1>1 DEF Pending
<1>3. Apart(w)
  BY <1>1, <1>2 DEF Apart, SameRow
<1>4. OwnRows(w) /\ NewSingles
  BY <1>1 DEF OwnRows, NewSingles
<1> QED BY <1>2, <1>3, <1>4, StepKeeps

\* A request without rows of its own ends, or begins.
LEMMA NoRowsStep ==
    ASSUME IInv, NEW w \in Workers, charge' = charge, TypeOK', LockStep(w),
           \A v \in Workers \ {w} : req'[v] = req[v], Serving(w)',
           req[w] # Idle => req[w].op \notin {"reverse", "postKeyed"} \/ req[w].pc \in {"insert", "original"}
    PROVE  IInv' /\ Lasting
<1>1. ASSUME NEW c \in Rows, charge[c].tx = w PROVE FALSE
  <2>1. Owned(c)
    BY <1>1, FolioAssumption DEF IInv, RowsInv
  <2> QED BY <1>1, <2>1 DEF Owned
<1> QED BY <1>1, SameChargesStep

LEMMA StartStep ==
    ASSUME IInv, NEW w \in Workers, NEW q \in Request, Start(w, q),
           \/ q.op \in {"post", "postKeyed", "pay"} /\ q.pc = "insert"
           \/ q.op = "reverse" /\ q.pc = "original" /\ \E c \in Committed : q.on = {c}
           \/ q.op \in {"transfer", "move"} /\ q.pc = "first"
           \/ q.op \in {"settle", "close"} /\ q.pc = "status"
    PROVE  IInv' /\ Lasting
<1>1. TypeOK /\ Exclusive
  BY DEF IInv
<1>2. req' = [req EXCEPT ![w] = q] /\ charge' = charge /\ lock' = lock /\ req[w] = Idle
  BY DEF Start
<1>3. req'[w] = q /\ \A v \in Workers \ {w} : req'[v] = req[v]
  BY <1>1, <1>2 DEF TypeOK
<1>4. TypeOK'
  BY <1>1, <1>2 DEF TypeOK, Start
<1>5. LockStep(w)
  BY <1>1, <1>2, NoLockStep
<1>6. Staged(w)' /\ Posting(w)' /\ Moving(w)'
  BY <1>3 DEF Staged, Posting, Moving
<1>7. Reversing(w)'
  BY <1>2, <1>3, ChargesSame DEF Reversing
<1>8. Serving(w)'
  BY <1>6, <1>7 DEF Serving
<1> QED BY <1>2, <1>3, <1>4, <1>5, <1>8, NoRowsStep

LEMMA NewRequestTyped ==
    ASSUME NEW op \in AllOps, NEW pc \in Steps, NEW f \in Folios
    PROVE  NewRequest(op, pc, f) \in Request
BY DEF NewRequest, Request

LEMMA BeginKeeps ==
    ASSUME IInv, NEW w \in Workers, Begin(w)
    PROVE  IInv' /\ Lasting
<1>1. PICK f \in Folios : \/ BeginPost(w, f) \/ BeginPay(w, f) \/ BeginReverse(w, f) \/ BeginTransfer(w, f)
                          \/ BeginMove(w, f) \/ BeginSettle(w, f) \/ BeginClose(w, f)
  BY DEF Begin
<1>2. CASE BeginPost(w, f)
  <2>1. CASE Start(w, NewRequest("post", "insert", f))
    <3>1. NewRequest("post", "insert", f) \in Request
      BY NewRequestTyped DEF AllOps, Steps
    <3> QED BY <2>1, <3>1, StartStep DEF NewRequest
  <2>2. ASSUME NEW k \in Keys, Start(w, [NewRequest("postKeyed", "insert", f) EXCEPT !.key = k])
        PROVE  IInv' /\ Lasting
    <3> DEFINE q == [NewRequest("postKeyed", "insert", f) EXCEPT !.key = k]
    <3>1. q \in Request /\ q.op = "postKeyed" /\ q.pc = "insert"
      BY DEF NewRequest, Request, AllOps, Steps
    <3> HIDE DEF q
    <3>2. Start(w, q)
      BY <2>2 DEF q
    <3> QED BY <3>1, <3>2, StartStep
  <2> QED BY <1>2, <2>1, <2>2 DEF BeginPost
<1>3. CASE BeginPay(w, f)
  <2>1. NewRequest("pay", "insert", f) \in Request
    BY NewRequestTyped DEF AllOps, Steps
  <2> QED BY <1>3, <2>1, StartStep DEF BeginPay, NewRequest
<1>4. CASE BeginReverse(w, f)
  <2>1. PICK c \in CommittedOn(f) : Start(w, [NewRequest("reverse", "original", f) EXCEPT !.on = {c}])
    BY <1>4 DEF BeginReverse
  <2> DEFINE q == [NewRequest("reverse", "original", f) EXCEPT !.on = {c}]
  <2>2. c \in Committed /\ c \in Charges
    BY DEF CommittedOn, Committed, Rows
  <2>3. q \in Request /\ q.op = "reverse" /\ q.pc = "original" /\ q.on = {c}
    BY <2>2 DEF NewRequest, Request, AllOps, Steps
  <2> HIDE DEF q
  <2>4. Start(w, q)
    BY <2>1 DEF q
  <2> QED BY <2>2, <2>3, <2>4, StartStep
<1>5. CASE BeginTransfer(w, f)
  <2>1. PICK g \in Folios \ {f}, c \in CommittedOn(f) :
             Start(w, [NewRequest("transfer", "first", f) EXCEPT !.to = g, !.on = {c}])
    BY <1>5 DEF BeginTransfer
  <2> DEFINE q == [NewRequest("transfer", "first", f) EXCEPT !.to = g, !.on = {c}]
  <2>2. c \in Charges
    BY DEF CommittedOn, Committed, Rows
  <2>3. q \in Request /\ q.op = "transfer" /\ q.pc = "first"
    <3> DEFINE r == NewRequest("transfer", "first", f)
    <3>1. r \in Request /\ r.op = "transfer" /\ r.pc = "first"
      BY DEF NewRequest, Request, AllOps, Steps
    <3> HIDE DEF r
    <3>2. [r EXCEPT !.to = g, !.on = {c}] \in Request
      BY <2>2, <3>1 DEF Request
    <3>3. [r EXCEPT !.to = g, !.on = {c}].op = "transfer" /\ [r EXCEPT !.to = g, !.on = {c}].pc = "first"
      BY <3>1 DEF Request
    <3> QED BY <3>2, <3>3 DEF r
  <2> HIDE DEF q
  <2>4. Start(w, q)
    BY <2>1 DEF q
  <2> QED BY <2>3, <2>4, StartStep
<1>6. CASE BeginMove(w, f)
  <2>1. PICK g \in Folios \ {f} : Start(w, [NewRequest("move", "first", f) EXCEPT !.to = g])
    BY <1>6 DEF BeginMove
  <2> DEFINE q == [NewRequest("move", "first", f) EXCEPT !.to = g]
  <2>2. q \in Request /\ q.op = "move" /\ q.pc = "first"
    BY DEF NewRequest, Request, AllOps, Steps
  <2> HIDE DEF q
  <2>3. Start(w, q)
    BY <2>1 DEF q
  <2> QED BY <2>2, <2>3, StartStep
<1>7. CASE BeginSettle(w, f)
  <2>1. NewRequest("settle", "status", f) \in Request
    BY NewRequestTyped DEF AllOps, Steps
  <2> QED BY <1>7, <2>1, StartStep DEF BeginSettle, NewRequest
<1>8. CASE BeginClose(w, f)
  <2>1. NewRequest("close", "status", f) \in Request
    BY NewRequestTyped DEF AllOps, Steps
  <2> QED BY <1>8, <2>1, StartStep DEF BeginClose, NewRequest
<1> QED BY <1>1, <1>2, <1>3, <1>4, <1>5, <1>6, <1>7, <1>8

-----------------------------------------------------------------------------
(* What the steps of a request share *)

LEMMA NeedsTyped ==
    ASSUME NEW q \in Request
    PROVE  \A n \in Needs(q) : n.row \in Folios \cup Charges /\ n.mode \in Modes
<1>1. q.f \in Folios /\ q.to \in Folios /\ q.on \subseteq Charges /\ q.pc \in Steps
  BY DEF Request
<1>2. ASSUME NEW S \in SUBSET (Folios \cup Charges), NEW m \in Modes
      PROVE  \A n \in On(S, m) : n.row \in Folios \cup Charges /\ n.mode \in Modes
  BY DEF On
<1>3. "share" \in Modes /\ "write" \in Modes /\ "update" \in Modes
  BY DEF Modes
<1>4. Smaller(q) \in Folios /\ Larger(q) \in Folios
  BY <1>1 DEF Smaller, Larger
<1>5. UNION {ChildrenOf(c) \cap Committed : c \in q.on} \subseteq Charges
  BY DEF Committed, Rows
<1>6. CASE q.pc = "insert"
  BY <1>1, <1>2, <1>3, <1>6 DEF Needs
<1>7. CASE q.pc = "tax"
  BY <1>1, <1>2, <1>3, <1>7 DEF Needs
<1>8. CASE q.pc \in {"write", "status"}
  BY <1>1, <1>2, <1>3, <1>8 DEF Needs
<1>9. CASE q.pc \in {"original", "move"}
  BY <1>1, <1>2, <1>3, <1>9 DEF Needs
<1>10. CASE q.pc = "children"
  <2>1. Needs(q) = On(UNION {ChildrenOf(c) \cap Committed : c \in q.on}, "update")
    BY <1>10 DEF Needs
  <2> QED BY <1>2, <1>3, <1>5, <2>1
<1>11. CASE q.pc = "first"
  BY <1>2, <1>3, <1>4, <1>11 DEF Needs
<1>12. CASE q.pc = "second"
  BY <1>2, <1>3, <1>4, <1>12 DEF Needs
<1>13. CASE q.pc \in {"sum", "check"}
  BY <1>13 DEF Needs
<1> QED BY <1>1, <1>6, <1>7, <1>8, <1>9, <1>10, <1>11, <1>12, <1>13 DEF Steps

LEMMA TakesLocks ==
    ASSUME IInv, NEW w \in Workers, Granted(w), Take(w)
    PROVE  LockStep(w) /\ lock \subseteq lock'
<1>1. TypeOK /\ Exclusive
  BY DEF IInv
<1>2. req[w] \in Request
  BY <1>1 DEF Granted, TypeOK
<1> QED BY <1>1, <1>2, NeedsTyped, TakeStep

ReqTyped == req \in [Workers -> Request \cup {Idle}]

LEMMA EndOfRequest ==
    ASSUME IInv, NEW w \in Workers, End(w)
    PROVE  /\ ReqTyped' /\ req'[w] = Idle /\ Serving(w)' /\ LockStep(w)
           /\ \A v \in Workers \ {w} : req'[v] = req[v]
<1>1. TypeOK /\ Exclusive
  BY DEF IInv
<1>2. req' = [req EXCEPT ![w] = Idle] /\ Release(w)
  BY DEF End
<1>3. ReqTyped' /\ req'[w] = Idle /\ \A v \in Workers \ {w} : req'[v] = req[v]
  BY <1>1, <1>2 DEF TypeOK, ReqTyped
<1>4. LockStep(w)
  BY <1>1, <1>2, ReleaseStep
<1> QED BY <1>3, <1>4 DEF Serving

\* w goes on to another step of the same request.
Onward(w, pc) ==
    /\ ReqTyped' /\ req'[w] \in Request /\ req'[w] # Idle
    /\ req'[w].pc = pc /\ req'[w].op = req[w].op /\ req'[w].f = req[w].f /\ req'[w].to = req[w].to
    /\ \A v \in Workers \ {w} : req'[v] = req[v]

LEMMA GoesTo ==
    ASSUME TypeOK, NEW w \in Workers, req[w].pc \in Steps, NEW pc \in Steps, Goto(w, pc)
    PROVE  Onward(w, pc) /\ req'[w].on = req[w].on
<1>1. req[w] \in Request
  BY RequestRow
<1> DEFINE new == [req[w] EXCEPT !.pc = pc]
<1>2. new \in Request
  BY <1>1 DEF Request
<1>3. new.pc = pc /\ new.op = req[w].op /\ new.f = req[w].f /\ new.to = req[w].to /\ new.on = req[w].on
  BY <1>1 DEF Request
<1>4. req' = [req EXCEPT ![w] = new]
  BY DEF Goto
<1> HIDE DEF new
<1>5. new # Idle
  BY <1>3 DEF Idle, Steps
<1>6. ReqTyped' /\ req'[w] = new /\ \A v \in Workers \ {w} : req'[v] = req[v]
  BY <1>2, <1>4 DEF TypeOK, ReqTyped
<1> QED BY <1>2, <1>3, <1>5, <1>6 DEF Onward

\* The same when the request also remembers its charges.
LEMMA GoesToWith ==
    ASSUME TypeOK, NEW w \in Workers, req[w].pc \in Steps, NEW pc \in Steps, NEW S \in SUBSET Charges,
           req' = [req EXCEPT ![w].pc = pc, ![w].on = S]
    PROVE  Onward(w, pc) /\ req'[w].on = S
<1>1. req[w] \in Request
  BY RequestRow
<1> DEFINE new == [req[w] EXCEPT !.pc = pc, !.on = S]
<1>2. new \in Request
  BY <1>1 DEF Request
<1>3. new.pc = pc /\ new.op = req[w].op /\ new.f = req[w].f /\ new.to = req[w].to /\ new.on = S
  BY <1>1 DEF Request
<1>4. req' = [req EXCEPT ![w] = new]
  OBVIOUS
<1> HIDE DEF new
<1>5. new # Idle
  BY <1>3 DEF Idle, Steps
<1>6. ReqTyped' /\ req'[w] = new /\ \A v \in Workers \ {w} : req'[v] = req[v]
  BY <1>2, <1>4 DEF TypeOK, ReqTyped
<1> QED BY <1>2, <1>3, <1>5, <1>6 DEF Onward

\* Rows inserted by w stay accounted for while its transaction goes on.
LEMMA OwnedOnward ==
    ASSUME IInv, NEW w \in Workers, NEW pc \in {"tax", "sum", "write"}, Onward(w, pc),
           req'[w].on = req[w].on, lock \subseteq lock', pc = "tax" => req[w].op = "postKeyed",
           NEW c \in Rows, charge[c].tx = w, charge'[c] = charge[c],
           \A x \in Committed : charge'[x] = charge[x]
    PROVE  Owned(c)'
<1>1. Owned(c) /\ (charge[c].reversal => charge[c].original \in Committed)
  BY FolioAssumption DEF IInv, RowsInv
<1>2. PICK x : x = charge[c].original
  OBVIOUS
<1>3. charge[c].reversal => charge'[x] = charge[x] /\ (Holds(w, x) => Holds(w, x)')
  BY <1>1, <1>2 DEF Holds
<1> QED BY <1>1, <1>2, <1>3 DEF Owned, Onward

LEMMA NetTyped ==
    ASSUME NEW S \in SUBSET Charges
    PROVE  Net(S) \in Int
<1>1. /\ IsFiniteSet({c \in S : ~ charge[c].reversal})
      /\ IsFiniteSet({c \in S : charge[c].reversal})
  BY FolioAssumption, FS_Subset
<1> QED BY <1>1, FS_CardinalityType DEF Net

LEMMA RecordPaymentKeeps ==
    ASSUME IInv, NEW w \in Workers, RecordPayment(w)
    PROVE  IInv' /\ Lasting
<1>1. TypeOK /\ Exclusive
  BY DEF IInv
<1>2. /\ req[w].pc = "insert" /\ req[w].op = "pay" /\ charge' = charge /\ lock' = lock /\ folio' = folio
      /\ Goto(w, "sum") /\ paid' = [paid EXCEPT ![req[w].f] = @ + 1]
  BY DEF RecordPayment
<1>3. Onward(w, "sum") /\ req[w].f \in Folios
  BY <1>1, <1>2, GoesTo, RequestRow DEF Steps, Request
<1>4. TypeOK'
  BY <1>1, <1>2, <1>3 DEF TypeOK, Onward, ReqTyped
<1>5. Serving(w)'
  BY <1>2, <1>3 DEF Serving, Staged, Reversing, Posting, Moving, Onward
<1> QED BY <1>1, <1>2, <1>3, <1>4, <1>5, NoLockStep, NoRowsStep DEF Onward

\* The row locks a statement needs are held after it.
LEMMA Taken ==
    ASSUME NEW w, Take(w), NEW c, [row |-> c, mode |-> "update"] \in Needs(req[w])
    PROVE  Holds(w, c)'
<1> DEFINE n == [row |-> c, mode |-> "update"]
<1>1. [by |-> w, row |-> n.row, mode |-> n.mode] \in lock'
  BY DEF Take
<1> QED BY <1>1 DEF Holds

\* Under the row lock of c the look-up of its reversals misses none.
LEMMA NoneHidden ==
    ASSUME IInv, NEW w \in Workers, Granted(w), NEW c \in Charges,
           [row |-> c, mode |-> "update"] \in Needs(req[w]), ReversalsOf(c) \cap VisibleTo(w) = {}
    PROVE  ReversalsOf(c) = {}
<1> SUFFICES ASSUME NEW d \in ReversalsOf(c) PROVE FALSE
  OBVIOUS
<1>1. d \in Rows /\ charge[d].reversal /\ charge[d].original = c /\ d \in Charges
  BY DEF ReversalsOf, Rows
<1>2. charge[d].tx \notin {None, w}
  BY <1>1 DEF VisibleTo
<1>3. PICK v : v = charge[d].tx /\ v # w
  BY <1>2
<1>4. Holds(v, c)
  BY <1>1, <1>2, <1>3 DEF IInv, RowsInv, Owned
<1> DEFINE m == [by |-> v, row |-> c, mode |-> "update"]
           n == [row |-> c, mode |-> "update"]
<1>5. m \in lock /\ m.by # w /\ m.row = n.row /\ n \in Needs(req[w]) /\ m.mode = "update" /\ TypeOK
  BY <1>3, <1>4 DEF Holds, IInv
<1> HIDE DEF m, n
<1> QED BY <1>5, GrantedApart

LEMMA LockOriginalKeeps ==
    ASSUME IInv, NEW w \in Workers, LockOriginal(w)
    PROVE  IInv' /\ Lasting
<1>1. TypeOK
  BY DEF IInv
<1>2. req[w].pc = "original" /\ Granted(w) /\ Goto(w, "insert") /\ Take(w) /\ UNCHANGED <<charge, folio, paid>>
  BY DEF LockOriginal
<1>3. Onward(w, "insert") /\ req'[w].on = req[w].on
  BY <1>1, <1>2, GoesTo DEF Steps
<1>4. LockStep(w) /\ lock \subseteq lock'
  BY <1>2, TakesLocks
<1>5. TypeOK'
  BY <1>1, <1>2, <1>3, <1>4 DEF TypeOK, Onward, ReqTyped, LockStep
<1>6. Staged(w) /\ Reversing(w)
  BY <1>2 DEF IInv, Serving, Granted
<1>7. req[w].op = "reverse"
  BY <1>2, <1>6 DEF Staged
<1>8. PICK c \in Committed : req[w].on = {c}
  BY <1>6, <1>7 DEF Reversing
<1>9. /\ charge[c].folio = req[w].f
      /\ ~ charge[c].locked /\ ~ charge[c].reversal
      /\ charge[c].key = None => ~ InAcceptedGroup(c, req[w].f)
      /\ ReversalsOf(c) \cap VisibleTo(w) = {}
  BY <1>8 DEF LockOriginal
<1>10. c \in Charges /\ c \in Rows /\ charge[c].tx = None
  BY DEF Committed, Rows
<1>11. [row |-> c, mode |-> "update"] \in Needs(req[w])
  BY <1>2, <1>8 DEF Needs, On
<1>12. Holds(w, c)'
  BY <1>2, <1>11, Taken
<1>13. ~ KeyedChild(c)
  <2> SUFFICES ASSUME KeyedChild(c) PROVE FALSE
    OBVIOUS
  <2>1. PICK p \in Rows : p = charge[c].parent /\ charge[p].tx = None /\ charge[p].key # None
    BY <1>10 DEF KeyedChild, IInv, RowsInv
  <2>2. p \in Committed /\ c \in ChildrenOf(p)
    BY <1>9, <1>10, <2>1 DEF Committed, ChildrenOf
  <2>3. charge[c].folio = charge[p].folio
    BY <2>1, <2>2 DEF IInv, GroupInv
  <2>4. InAcceptedGroup(c, req[w].f)
    BY <1>9, <2>1, <2>3 DEF InAcceptedGroup
  <2>5. charge[c].key # None
    BY <1>9, <2>4
  <2> QED BY <1>10, <2>5 DEF KeyedChild, IInv, RowsInv
<1>14. ReversalsOf(c) = {}
  BY <1>2, <1>9, <1>10, <1>11, NoneHidden
<1>15. charge' = charge
  BY <1>2
<1>16. c \in Committed' /\ ReversalsOf(c)' = {} /\ ~ KeyedChild(c)'
  BY <1>13, <1>14, <1>15, ChargesSame
<1>17. Reversing(w)'
  BY <1>3, <1>8, <1>9, <1>12, <1>15, <1>16 DEF Reversing, Onward
<1>18. Serving(w)'
  BY <1>3, <1>7, <1>17 DEF Serving, Staged, Posting, Moving, Onward
<1> QED BY <1>2, <1>3, <1>4, <1>5, <1>15, <1>18, NoRowsStep DEF Onward

LEMMA LockFolioKeeps ==
    ASSUME IInv, NEW w \in Workers, LockFolio(w)
    PROVE  IInv' /\ Lasting
<1>1. TypeOK
  BY DEF IInv
<1>2. req[w].pc \in {"first", "second"} /\ Granted(w) /\ Take(w) /\ UNCHANGED <<charge, folio, paid>>
  BY DEF LockFolio
<1>3. PICK pc \in {"second", "check"} : Goto(w, pc)
  BY DEF LockFolio
<1>4. Onward(w, pc)
  BY <1>1, <1>2, <1>3, GoesTo DEF Steps
<1>5. LockStep(w)
  BY <1>2, TakesLocks
<1>6. TypeOK'
  BY <1>1, <1>2, <1>4, <1>5 DEF TypeOK, Onward, ReqTyped, LockStep
<1>7. Staged(w)
  BY <1>2 DEF IInv, Serving, Granted
<1>8. req[w].op \in {"transfer", "move"}
  BY <1>2, <1>7 DEF Staged
<1>9. Serving(w)'
  BY <1>3, <1>4, <1>8 DEF Serving, Staged, Reversing, Posting, Moving, Onward
<1> QED BY <1>2, <1>4, <1>5, <1>6, <1>8, <1>9, NoRowsStep DEF Onward

LEMMA CheckTransferKeeps ==
    ASSUME IInv, NEW w \in Workers, CheckTransfer(w)
    PROVE  IInv' /\ Lasting
<1>1. TypeOK /\ Exclusive
  BY DEF IInv
<1>2. req[w].pc = "check" /\ UNCHANGED <<charge, folio, paid, lock>>
  BY DEF CheckTransfer
<1>3. PICK S : /\ S \subseteq CommittedOn(req[w].f)
               /\ \A c \in S : ~ InAcceptedGroup(c, req[w].f)
               /\ req' = [req EXCEPT ![w].pc = "move", ![w].on = S]
  BY DEF CheckTransfer
<1>4. S \in SUBSET Charges
  BY <1>3 DEF CommittedOn, Committed, Rows
<1>5. Onward(w, "move") /\ req'[w].on = S
  BY <1>1, <1>2, <1>3, <1>4, GoesToWith DEF Steps
<1>6. TypeOK'
  BY <1>1, <1>2, <1>5 DEF TypeOK, Onward, ReqTyped
<1>7. Staged(w)
  BY <1>1, <1>2, RequestRow DEF IInv, Serving, Steps
<1>8. req[w].op \in {"transfer", "move"}
  BY <1>2, <1>7 DEF Staged
<1>9. ASSUME NEW c \in S PROVE c \in Committed' /\ charge'[c].key = None /\ ~ KeyedChild(c)'
  <2>1. c \in Committed /\ c \in Rows /\ charge[c].tx = None /\ charge[c].folio = req[w].f /\ charge[c].key = None
    BY <1>3 DEF CommittedOn, Committed, InAcceptedGroup
  <2>2. ~ KeyedChild(c)
    <3> SUFFICES ASSUME KeyedChild(c) PROVE FALSE
      OBVIOUS
    <3>1. PICK p \in Rows : p = charge[c].parent /\ charge[p].tx = None /\ charge[p].key # None
      BY <2>1 DEF KeyedChild, IInv, RowsInv
    <3>2. p \in Committed /\ c \in ChildrenOf(p)
      BY <2>1, <3>1 DEF Committed, ChildrenOf, KeyedChild
    <3>3. charge[c].folio = charge[p].folio
      BY <3>1, <3>2 DEF IInv, GroupInv
    <3> QED BY <1>3, <2>1, <3>1, <3>3 DEF InAcceptedGroup
  <2>3. charge' = charge
    BY <1>2
  <2> QED BY <2>1, <2>2, <2>3, ChargesSame
<1>10. Serving(w)'
  BY <1>5, <1>8, <1>9 DEF Serving, Staged, Reversing, Posting, Moving, Onward
<1> QED BY <1>1, <1>2, <1>5, <1>6, <1>8, <1>10, NoRowsStep, NoLockStep DEF Onward

LEMMA SetStatusKeeps ==
    ASSUME IInv, NEW w \in Workers, SetStatus(w)
    PROVE  IInv' /\ Lasting
<1>1. TypeOK
  BY DEF IInv
<1>2. req[w].pc = "status" /\ Granted(w) /\ End(w) /\ UNCHANGED <<charge, paid>>
  BY DEF SetStatus
<1>3. req[w].f \in Folios
  BY <1>1, <1>2, RequestRow DEF Request, Steps
<1>4. PICK s \in {"settled", "closed"} : folio' = [folio EXCEPT ![req[w].f].status = s]
  BY DEF SetStatus
<1>5. folio' \in [Folios -> [status : {"open", "settled", "closed"}, balance : Int]]
  BY <1>1, <1>3, <1>4 DEF TypeOK
<1>6. /\ ReqTyped' /\ req'[w] = Idle /\ Serving(w)' /\ LockStep(w)
      /\ \A v \in Workers \ {w} : req'[v] = req[v]
  BY <1>2, EndOfRequest
<1>7. TypeOK'
  BY <1>1, <1>2, <1>5, <1>6 DEF TypeOK, ReqTyped, LockStep
<1>8. Staged(w)
  BY <1>2 DEF IInv, Serving, Granted
<1>9. req[w].op \notin {"reverse", "postKeyed"}
  BY <1>2, <1>8 DEF Staged
<1> QED BY <1>2, <1>6, <1>7, <1>9, NoRowsStep

LEMMA SumKeeps ==
    ASSUME IInv, NEW w \in Workers, Sum(w)
    PROVE  IInv' /\ Lasting
<1>1. TypeOK /\ Exclusive
  BY DEF IInv
<1>2. req[w].pc = "sum" /\ UNCHANGED <<charge, folio, paid, lock>>
  BY DEF Sum
<1>3. req[w] \in Request /\ req[w] # Idle
  BY <1>1, <1>2, RequestRow DEF Steps
<1>4. PICK s \in Int : req' = [req EXCEPT ![w].pc = "write", ![w].sum = s]
  <2>1. {c \in VisibleTo(w) : charge[c].folio = req[w].f} \in SUBSET Charges
    BY DEF VisibleTo, Rows
  <2>2. Total(VisibleTo(w), req[w].f) \in Int
    <3>1. paid[req[w].f] \in Int
      BY <1>1, <1>3 DEF TypeOK, Request
    <3> QED BY <2>1, <3>1, NetTyped DEF Total
  <2> QED BY <2>2 DEF Sum
<1> DEFINE new == [req[w] EXCEPT !.pc = "write", !.sum = s]
<1>5. new \in Request
  BY <1>3 DEF Request, Steps
<1>6. /\ new.pc = "write" /\ new.op = req[w].op /\ new.f = req[w].f /\ new.to = req[w].to
      /\ new.on = req[w].on
  BY <1>3 DEF Request
<1>7. req' = [req EXCEPT ![w] = new]
  BY <1>4
<1> HIDE DEF new
<1>8. new # Idle
  BY <1>6 DEF Idle
<1>9. ReqTyped' /\ req'[w] = new /\ \A v \in Workers \ {w} : req'[v] = req[v]
  BY <1>1, <1>5, <1>7 DEF TypeOK, ReqTyped
<1>10. Onward(w, "write") /\ req'[w].on = req[w].on
  BY <1>5, <1>6, <1>8, <1>9 DEF Onward
<1>11. TypeOK'
  BY <1>1, <1>2, <1>9 DEF TypeOK, ReqTyped
<1>12. Staged(w) /\ Reversing(w) /\ Posting(w)
  BY <1>3 DEF IInv, Serving
<1>13. charge' = charge /\ lock' = lock
  BY <1>2
<1>14. \A c : Holds(w, c)' <=> Holds(w, c)
  BY <1>13 DEF Holds
<1>15. Staged(w)' /\ Moving(w)'
  BY <1>2, <1>10, <1>12 DEF Staged, Moving, Onward
<1>16. Reversing(w)'
  BY <1>2, <1>10, <1>12, <1>13, <1>14, ChargesSame DEF Reversing, Onward
<1>17. Posting(w)'
  BY <1>2, <1>10, <1>12, <1>13, ChargesSame DEF Posting, Onward
<1>18. Serving(w)'
  BY <1>15, <1>16, <1>17 DEF Serving
<1>19. ASSUME NEW c \in Rows, charge[c].tx = w PROVE Owned(c)'
  <2>1. lock \subseteq lock' /\ \A x : charge'[x] = charge[x]
    BY <1>13
  <2> QED BY <1>10, <1>19, <2>1, OwnedOnward
<1> QED BY <1>1, <1>9, <1>11, <1>13, <1>18, <1>19, NoLockStep, SameChargesStep

-----------------------------------------------------------------------------
(* Steps that insert a row *)

LEMMA RowInserted ==
    ASSUME TypeOK, NEW c \in Charges \ Rows, NEW new \in Charge, charge' = [charge EXCEPT ![c] = new]
    PROVE  /\ charge' \in [Charges -> Charge \cup {NoCharge}]
           /\ charge'[c] = new
           /\ \A d \in Charges \ {c} : charge'[d] = charge[d]
           /\ Rows' = Rows \cup {c}
           /\ Committed \subseteq Committed'
<1>1. /\ charge' \in [Charges -> Charge \cup {NoCharge}]
      /\ charge'[c] = new
      /\ \A d \in Charges \ {c} : charge'[d] = charge[d]
  BY DEF TypeOK
<1>2. new # NoCharge
  <2>1. new.tx \in Workers \cup {None}
    BY DEF Charge
  <2>2. new.tx # "absent"
    BY <2>1, FolioAssumption
  <2> QED BY <2>2 DEF NoCharge
<1>3. Rows' = Rows \cup {c}
  BY <1>1, <1>2 DEF Rows
<1> QED BY <1>1, <1>3 DEF Committed, Rows

\* w inserts the row c.
LEMMA InsertStep ==
    ASSUME IInv, NEW w \in Workers, NEW c \in Charges \ Rows, NEW new \in Charge,
           charge' = [charge EXCEPT ![c] = new],
           UNCHANGED <<folio, paid>>, ReqTyped', LockStep(w),
           \A v \in Workers \ {w} : req'[v] = req[v], Serving(w)',
           Inserted(w, c), new.reversal => ReversalsOf(new.original) = {},
           \A d \in Rows \cup {c} : charge'[d].tx = w => Owned(d)'
    PROVE  IInv' /\ Lasting
<1>1. TypeOK
  BY DEF IInv
<1>2. /\ charge' \in [Charges -> Charge \cup {NoCharge}]
      /\ charge'[c] = new
      /\ \A d \in Charges \ {c} : charge'[d] = charge[d]
      /\ Rows' = Rows \cup {c}
  BY <1>1, RowInserted
<1>3. TypeOK'
  BY <1>1, <1>2 DEF TypeOK, LockStep, ReqTyped
<1>4. \A d \in Rows : d \in Charges \ {c}
  BY DEF Rows
<1>5. Pending
  BY <1>2, <1>4 DEF Pending
<1>6. Apart(w)
  BY <1>2, <1>3, <1>4, <1>5 DEF Apart, SameRow
<1>7. NewSingles
  BY <1>2, <1>4 DEF NewSingles, ReversalsOf
<1>8. OwnRows(w)
  BY <1>2 DEF OwnRows
<1> QED BY <1>5, <1>6, <1>7, <1>8, StepKeeps

LEMMA NoneOwned ==
    ASSUME IInv, NEW w \in Workers,
           req[w].op \notin {"reverse", "postKeyed"} \/ req[w].pc \in {"insert", "original"}
    PROVE  \A c \in Rows : charge[c].tx # w
<1>1. ASSUME NEW c \in Rows, charge[c].tx = w PROVE FALSE
  <2>1. Owned(c)
    BY <1>1, FolioAssumption DEF IInv, RowsInv
  <2> QED BY <1>1, <2>1 DEF Owned
<1> QED BY <1>1

LEMMA InsertBaseKeeps ==
    ASSUME IInv, NEW w \in Workers, InsertBase(w)
    PROVE  IInv' /\ Lasting
<1>1. TypeOK /\ Exclusive
  BY DEF IInv
<1>2. req[w].pc = "insert" /\ req[w].op = "post" /\ UNCHANGED <<folio, paid, lock>>
  BY DEF InsertBase
<1>3. req[w].f \in Folios
  BY <1>1, <1>2, RequestRow DEF Request, Steps
<1>4. PICK c \in Charges \ Rows :
         /\ charge' = [charge EXCEPT ![c] = Posted(req[w].f, None, None, None)]
         /\ req' = [req EXCEPT ![w].pc = "tax", ![w].on = {c}]
  BY DEF InsertBase
<1>5. Onward(w, "tax") /\ req'[w].on = {c}
  <2>1. {c} \in SUBSET Charges /\ "tax" \in Steps /\ req[w].pc \in Steps
    BY <1>2 DEF Steps
  <2> QED BY <1>1, <1>4, <2>1, GoesToWith
<1> DEFINE new == Posted(req[w].f, None, None, None)
<1>6. /\ new \in Charge /\ ~ new.reversal /\ new.parent = None /\ new.key = None
      /\ ~ new.locked /\ new.tx = None
  BY <1>3 DEF Posted, Charge
<1> HIDE DEF new
<1>7. charge' = [charge EXCEPT ![c] = new]
  BY <1>4 DEF new
<1>8. /\ charge'[c] = new
      /\ \A d \in Charges \ {c} : charge'[d] = charge[d]
      /\ Rows' = Rows \cup {c}
  BY <1>1, <1>6, <1>7, RowInserted
<1>9. Inserted(w, c)
  BY <1>6, <1>8 DEF Inserted
<1>10. c \in Committed' /\ charge'[c].key = None
  BY <1>6, <1>8 DEF Committed
<1>11. Serving(w)'
  BY <1>2, <1>5, <1>10 DEF Serving, Staged, Reversing, Posting, Moving, Onward
<1>12. \A d \in Rows \cup {c} : charge'[d].tx # w
  BY <1>2, <1>6, <1>8, NoneOwned, FolioAssumption DEF Rows
<1>13. LockStep(w)
  BY <1>1, <1>2, NoLockStep
<1> QED BY <1>2, <1>5, <1>6, <1>7, <1>9, <1>11, <1>12, <1>13, InsertStep DEF Onward

LEMMA InsertTaxKeeps ==
    ASSUME IInv, NEW w \in Workers, InsertTax(w)
    PROVE  IInv' /\ Lasting
<1>1. TypeOK /\ Exclusive
  BY DEF IInv
<1>2. req[w].pc = "tax" /\ req[w].op = "post" /\ Goto(w, "sum") /\ UNCHANGED <<folio, paid, lock>>
  BY DEF InsertTax
<1>3. req[w] \in Request /\ req[w] # Idle
  BY <1>1, <1>2, RequestRow DEF Steps
<1>4. Onward(w, "sum")
  BY <1>1, <1>2, GoesTo DEF Steps
<1>5. LockStep(w)
  BY <1>1, <1>2, NoLockStep
<1>6. Serving(w)'
  BY <1>2, <1>4 DEF Serving, Staged, Reversing, Posting, Moving, Onward
<1>7. ASSUME NEW c \in Charges \ Rows, NEW p \in req[w].on,
             charge' = [charge EXCEPT ![c] = Posted(req[w].f, p, None, None)]
      PROVE  IInv' /\ Lasting
  <2>1. p \in Committed /\ charge[p].key = None
    BY <1>2, <1>3 DEF IInv, Serving, Posting
  <2>2. p \in Rows /\ charge[p].tx = None /\ p \in Charges
    BY <2>1 DEF Committed, Rows
  <2> DEFINE new == Posted(req[w].f, p, None, None)
  <2>3. /\ new \in Charge /\ ~ new.reversal /\ new.parent = p /\ new.key = None
        /\ ~ new.locked /\ new.tx = None
    BY <1>3, <2>2 DEF Posted, Charge, Request
  <2> HIDE DEF new
  <2>4. charge' = [charge EXCEPT ![c] = new]
    BY <1>7 DEF new
  <2>5. /\ charge'[c] = new
        /\ \A d \in Charges \ {c} : charge'[d] = charge[d]
        /\ Rows' = Rows \cup {c}
    BY <1>1, <2>3, <2>4, RowInserted
  <2>6. Inserted(w, c)
    BY <2>1, <2>2, <2>3, <2>5 DEF Inserted
  <2>7. \A d \in Rows \cup {c} : charge'[d].tx # w
    BY <1>2, <2>3, <2>5, NoneOwned, FolioAssumption DEF Rows
  <2> QED BY <1>2, <1>4, <1>5, <1>6, <2>3, <2>4, <2>6, <2>7, InsertStep DEF Onward
<1>8. CASE charge' = charge
  <2>1. TypeOK'
    BY <1>1, <1>2, <1>4, <1>8 DEF TypeOK, Onward, ReqTyped
  <2> QED BY <1>2, <1>4, <1>5, <1>6, <1>8, <2>1, NoRowsStep DEF Onward
<1> QED BY <1>7, <1>8 DEF InsertTax

LEMMA InsertKeyedKeeps ==
    ASSUME IInv, NEW w \in Workers, InsertKeyed(w)
    PROVE  IInv' /\ Lasting
<1>1. TypeOK /\ Exclusive
  BY DEF IInv
<1>2. req[w].pc = "insert" /\ req[w].op = "postKeyed" /\ Granted(w) /\ UNCHANGED <<folio, paid>>
  BY DEF InsertKeyed
<1>3. req[w] \in Request
  BY <1>1, <1>2, RequestRow DEF Steps
<1>4. CASE End(w) /\ charge' = charge
  <2>1. /\ ReqTyped' /\ Serving(w)' /\ LockStep(w)
        /\ \A v \in Workers \ {w} : req'[v] = req[v]
    BY <1>4, EndOfRequest
  <2>2. TypeOK'
    BY <1>1, <1>2, <1>4, <2>1 DEF TypeOK, ReqTyped, LockStep
  <2> QED BY <1>2, <1>4, <2>1, <2>2, NoRowsStep
<1>5. ASSUME NEW c \in Charges \ Rows,
             charge' = [charge EXCEPT ![c] = Posted(req[w].f, None, req[w].key, w)],
             req' = [req EXCEPT ![w].pc = "sum", ![w].on = {c}], Take(w)
      PROVE  IInv' /\ Lasting
  <2>1. Onward(w, "sum") /\ req'[w].on = {c}
    <3>1. {c} \in SUBSET Charges /\ "sum" \in Steps /\ req[w].pc \in Steps
      BY <1>2 DEF Steps
    <3> QED BY <1>1, <1>5, <3>1, GoesToWith
  <2> DEFINE new == Posted(req[w].f, None, req[w].key, w)
  <2>2. /\ new \in Charge /\ ~ new.reversal /\ new.parent = None /\ new.folio = req[w].f
        /\ ~ new.locked /\ new.tx = w
    BY <1>3 DEF Posted, Charge, Request
  <2> HIDE DEF new
  <2>3. charge' = [charge EXCEPT ![c] = new]
    BY <1>5 DEF new
  <2>4. /\ charge'[c] = new
        /\ \A d \in Charges \ {c} : charge'[d] = charge[d]
        /\ Rows' = Rows \cup {c}
    BY <1>1, <2>2, <2>3, RowInserted
  <2>5. Inserted(w, c)
    BY <2>2, <2>4 DEF Inserted
  <2>6. LockStep(w)
    BY <1>2, <1>5, TakesLocks
  <2>7. ChildrenOf(c)' = {}
    <3> SUFFICES ASSUME NEW d \in ChildrenOf(c)' PROVE FALSE
      OBVIOUS
    <3>1. d \in Rows' /\ ~ charge'[d].reversal /\ charge'[d].parent = c /\ c # None
      BY FolioAssumption DEF ChildrenOf
    <3>2. d \in Rows /\ charge'[d] = charge[d]
      BY <2>2, <2>4, <3>1 DEF Rows
    <3> QED BY <3>1, <3>2 DEF IInv, RowsInv
  <2>8. Posting(w)'
    BY <1>2, <2>1, <2>2, <2>4, <2>7 DEF Posting, Onward
  <2>9. Serving(w)'
    BY <1>2, <2>1, <2>8 DEF Serving, Staged, Reversing, Moving, Onward
  <2>10. Owned(c)'
    BY <1>2, <2>1, <2>2, <2>4 DEF Owned, Onward
  <2>11. \A d \in Rows : charge'[d].tx # w
    BY <1>2, <2>4, NoneOwned DEF Rows
  <2> QED BY <1>2, <2>1, <2>2, <2>3, <2>5, <2>6, <2>9, <2>10, <2>11, InsertStep DEF Onward
<1> QED BY <1>4, <1>5 DEF InsertKeyed

LEMMA InsertFrozenTaxKeeps ==
    ASSUME IInv, NEW w \in Workers, InsertFrozenTax(w)
    PROVE  IInv' /\ Lasting
<1>1. TypeOK
  BY DEF IInv
<1>2. /\ req[w].pc = "tax" /\ req[w].op = "postKeyed" /\ Granted(w) /\ Goto(w, "sum") /\ Take(w)
      /\ UNCHANGED <<folio, paid>>
  BY DEF InsertFrozenTax
<1>3. req[w] \in Request /\ req[w] # Idle
  BY <1>1, <1>2, RequestRow DEF Steps
<1>4. Onward(w, "sum") /\ req'[w].on = req[w].on
  BY <1>1, <1>2, GoesTo DEF Steps
<1>5. LockStep(w) /\ lock \subseteq lock'
  BY <1>2, TakesLocks
<1>6. PICK p \in Rows :
           /\ req[w].on = {p}
           /\ charge[p].tx = w /\ ~ charge[p].reversal /\ charge[p].parent = None /\ charge[p].folio = req[w].f
           /\ \A d \in ChildrenOf(p) : charge[d].tx = w /\ charge[d].folio = req[w].f
  BY <1>2, <1>3 DEF IInv, Serving, Posting
<1>7. PICK c \in Charges \ Rows : charge' = [charge EXCEPT ![c] = Posted(req[w].f, p, None, w)]
  BY <1>6 DEF InsertFrozenTax
<1> DEFINE new == Posted(req[w].f, p, None, w)
<1>8. /\ new \in Charge /\ ~ new.reversal /\ new.parent = p /\ new.folio = req[w].f /\ new.key = None
      /\ ~ new.locked /\ new.tx = w
  BY <1>3 DEF Posted, Charge, Request, Rows
<1> HIDE DEF new
<1>9. charge' = [charge EXCEPT ![c] = new]
  BY <1>7 DEF new
<1>10. /\ charge'[c] = new
       /\ \A d \in Charges \ {c} : charge'[d] = charge[d]
       /\ Rows' = Rows \cup {c}
  BY <1>1, <1>8, <1>9, RowInserted
<1>11. \A d \in Rows : charge'[d] = charge[d]
  BY <1>10 DEF Rows
<1>12. Inserted(w, c)
  BY <1>6, <1>8, <1>10 DEF Inserted
<1>13. \A d \in ChildrenOf(p)' : charge'[d].tx = w /\ charge'[d].folio = req[w].f
  BY <1>6, <1>8, <1>10, <1>11 DEF ChildrenOf
<1>14. Posting(w)'
  BY <1>2, <1>4, <1>6, <1>10, <1>11, <1>13 DEF Posting, Onward
<1>15. Serving(w)'
  BY <1>2, <1>4, <1>14 DEF Serving, Staged, Reversing, Moving, Onward
<1>16. Owned(c)'
  BY <1>2, <1>4, <1>8, <1>10 DEF Owned, Onward
<1>17. ASSUME NEW d \in Rows, charge'[d].tx = w PROVE Owned(d)'
  <2>1. \A x \in Committed : charge'[x] = charge[x]
    BY <1>11 DEF Committed
  <2> QED BY <1>4, <1>5, <1>11, <1>17, <2>1, OwnedOnward
<1> QED BY <1>2, <1>4, <1>5, <1>8, <1>9, <1>12, <1>15, <1>16, <1>17, InsertStep DEF Onward

LEMMA KeyedChildSame ==
    ASSUME IInv, NEW c \in Committed, \A d \in Rows : charge'[d] = charge[d]
    PROVE  KeyedChild(c)' <=> KeyedChild(c)
<1>1. c \in Rows /\ charge'[c] = charge[c]
  BY DEF Committed
<1>2. ~ charge[c].reversal /\ charge[c].parent # None => charge[c].parent \in Rows
  BY <1>1 DEF IInv, RowsInv
<1> QED BY <1>1, <1>2 DEF KeyedChild

LEMMA InsertReversalKeeps ==
    ASSUME IInv, NEW w \in Workers, InsertReversal(w)
    PROVE  IInv' /\ Lasting
<1>1. TypeOK
  BY DEF IInv
<1>2. /\ req[w].pc = "insert" /\ req[w].op = "reverse" /\ Granted(w) /\ Goto(w, "children") /\ Take(w)
      /\ UNCHANGED <<folio, paid>>
  BY DEF InsertReversal
<1>3. req[w] \in Request /\ req[w] # Idle
  BY <1>1, <1>2, RequestRow DEF Steps
<1>4. Onward(w, "children") /\ req'[w].on = req[w].on
  BY <1>1, <1>2, GoesTo DEF Steps
<1>5. LockStep(w) /\ lock \subseteq lock'
  BY <1>2, TakesLocks
<1>6. PICK c \in Committed :
         /\ req[w].on = {c} /\ Holds(w, c)
         /\ ~ charge[c].locked /\ ~ charge[c].reversal /\ ~ KeyedChild(c)
         /\ ReversalsOf(c) = {}
  BY <1>2, <1>3 DEF IInv, Serving, Reversing
<1>7. PICK d \in Charges \ Rows : charge' = [charge EXCEPT ![d] = Reversed(req[w].f, c, None, w)]
  BY <1>6 DEF InsertReversal
<1>8. c \in Charges /\ c \in Rows /\ charge[c].tx = None
  BY DEF Committed, Rows
<1> DEFINE new == Reversed(req[w].f, c, None, w)
<1>9. /\ new \in Charge /\ new.reversal /\ new.original = c /\ new.key = None
      /\ ~ new.locked /\ new.tx = w
  BY <1>3, <1>8 DEF Reversed, Charge, Request
<1> HIDE DEF new
<1>10. charge' = [charge EXCEPT ![d] = new]
  BY <1>7 DEF new
<1>11. /\ charge'[d] = new
       /\ \A x \in Charges \ {d} : charge'[x] = charge[x]
       /\ Rows' = Rows \cup {d}
       /\ Committed \subseteq Committed'
  BY <1>1, <1>9, <1>10, RowInserted
<1>12. \A x \in Rows : charge'[x] = charge[x]
  BY <1>11 DEF Rows
<1>13. Holds(w, c)'
  BY <1>5, <1>6 DEF Holds
<1>14. Inserted(w, d)
  BY <1>9, <1>11, <1>13 DEF Inserted, Holds
<1>15. d \in ReversalsOf(c)' /\ charge'[d].tx = w
  BY <1>9, <1>11 DEF ReversalsOf
<1>16. ~ KeyedChild(c)' /\ c \in Committed' /\ charge'[c] = charge[c]
  BY <1>6, <1>8, <1>11, <1>12, KeyedChildSame
<1>17. Reversing(w)'
  BY <1>4, <1>6, <1>13, <1>15, <1>16 DEF Reversing, Onward
<1>18. Serving(w)'
  BY <1>2, <1>4, <1>17 DEF Serving, Staged, Posting, Moving, Onward
<1>19. Owned(d)'
  BY <1>2, <1>4, <1>6, <1>9, <1>11, <1>13 DEF Owned, Onward
<1>20. \A x \in Rows : charge'[x].tx # w
  BY <1>2, <1>12, NoneOwned
<1> QED BY <1>2, <1>4, <1>5, <1>6, <1>9, <1>10, <1>14, <1>18, <1>19, <1>20, InsertStep DEF Onward

LEMMA OneToOneOnto ==
    ASSUME NEW S, NEW T, IsFiniteSet(T), NEW f \in [S -> T],
           \A x, y \in S : f[x] = f[y] => x = y, Cardinality(S) = Cardinality(T)
    PROVE  \A t \in T : \E s \in S : f[s] = t
<1>1. f \in Injection(S, T)
  BY DEF Injection, IsInjective
<1>2. f \in Surjection(S, T)
  BY <1>1, FS_Injection
<1> QED BY <1>2 DEF Surjection

\* The reversals of the components, whichever rows they are.
LEMMA ReverseChildrenKeeps ==
    ASSUME IInv, NEW w \in Workers, ReverseChildren(w)
    PROVE  IInv' /\ Lasting
<1>1. TypeOK
  BY DEF IInv
<1>2. req[w].pc = "children" /\ Granted(w) /\ Goto(w, "sum") /\ Take(w) /\ UNCHANGED <<folio, paid>>
  BY DEF ReverseChildren
<1>3. req[w] \in Request /\ req[w] # Idle
  BY <1>1, <1>2, RequestRow DEF Steps
<1>4. Onward(w, "sum") /\ req'[w].on = req[w].on
  BY <1>1, <1>2, GoesTo DEF Steps
<1>5. LockStep(w) /\ lock \subseteq lock'
  BY <1>2, TakesLocks
<1>6. Staged(w) /\ Reversing(w)
  BY <1>3 DEF IInv, Serving
<1>7. req[w].op = "reverse"
  BY <1>2, <1>6 DEF Staged
<1>8. PICK c \in Committed :
         /\ req[w].on = {c} /\ Holds(w, c)
         /\ ~ charge[c].locked /\ ~ charge[c].reversal /\ ~ KeyedChild(c)
         /\ \E d \in ReversalsOf(c) : charge[d].tx = w
  BY <1>2, <1>6, <1>7 DEF Reversing
<1>9. c \in Charges /\ c \in Rows /\ charge[c].tx = None
  BY DEF Committed, Rows
<1> DEFINE kids == ChildrenOf(c) \cap Committed
           todo == {d \in kids : ReversalsOf(d) \cap VisibleTo(w) = {}}
<1>10. kids \subseteq Charges /\ IsFiniteSet(todo)
  <2>1. kids \subseteq Charges /\ todo \subseteq Charges
    BY DEF Committed, Rows
  <2> QED BY <2>1, FolioAssumption, FS_Subset
<1>11. UNION {ChildrenOf(x) \cap Committed : x \in req[w].on} = kids
  BY <1>8
<1>a. PICK base \in Charges, new \in SUBSET (Charges \ Rows) :
         /\ Cardinality(new) = Cardinality(todo)
         /\ \E of \in [new -> todo] :
              /\ \A x, y \in new : of[x] = of[y] => x = y
              /\ charge' = [x \in Charges |-> IF x \in new THEN Reversed(req[w].f, of[x], base, w) ELSE charge[x]]
  <2> DEFINE b == CHOOSE r \in Rows : charge[r].tx = w
  <2>1. b \in Charges
    BY <1>8 DEF ReversalsOf, Rows
  <2>2. \E new \in SUBSET (Charges \ Rows) :
          /\ Cardinality(new) = Cardinality(todo)
          /\ \E of \in [new -> todo] :
               /\ \A x, y \in new : of[x] = of[y] => x = y
               /\ charge' = [x \in Charges |-> IF x \in new THEN Reversed(req[w].f, of[x], b, w) ELSE charge[x]]
    BY <1>11 DEF ReverseChildren
  <2> QED BY <2>1, <2>2
<1>12. PICK of \in [new -> todo] :
         /\ \A x, y \in new : of[x] = of[y] => x = y
         /\ charge' = [x \in Charges |-> IF x \in new THEN Reversed(req[w].f, of[x], base, w) ELSE charge[x]]
  BY <1>a
<1>13. \A d \in kids : [row |-> d, mode |-> "update"] \in Needs(req[w])
  <2>1. Needs(req[w]) = On(kids, "update")
    BY <1>2, <1>11 DEF Needs
  <2> QED BY <2>1 DEF On
<1>14. ASSUME NEW d \in kids PROVE Holds(w, d)'
  BY <1>2, <1>13, Taken
<1>15. \A d \in todo : d \in kids /\ ReversalsOf(d) = {}
  BY <1>2, <1>10, <1>13, NoneHidden
<1>16. \A d \in todo : \E e \in new : of[e] = d
  <2> HIDE DEF kids, todo
  <2>1. IsFiniteSet(todo) /\ Cardinality(new) = Cardinality(todo) /\ of \in [new -> todo]
    BY <1>10, <1>a, <1>12
  <2>2. \A x, y \in new : of[x] = of[y] => x = y
    BY <1>12
  <2> QED BY <2>1, <2>2, OneToOneOnto
<1>17. \A d \in kids : d \in Committed /\ d \in Rows /\ d \in Charges /\ ~ charge[d].reversal /\ charge[d].parent = c
  BY DEF ChildrenOf, Committed, Rows
<1>18. \A d \in kids : d \notin todo => \E e \in ReversalsOf(d) : e \in Rows /\ charge[e].tx \in {None, w}
  BY DEF VisibleTo
<1>19. \A e \in new : of[e] \in todo /\ e \in Charges /\ e \notin Rows
  BY <1>a, <1>12
<1> HIDE DEF kids, todo
<1>20. ASSUME NEW e \in new
       PROVE  /\ charge'[e] \in Charge /\ charge'[e].reversal /\ charge'[e].original = of[e]
              /\ charge'[e].key = None /\ ~ charge'[e].locked /\ charge'[e].tx = w
              /\ charge'[e] # NoCharge
  <2>1. of[e] \in Charges /\ e \in Charges
    BY <1>15, <1>17, <1>19
  <2>2. charge'[e] = Reversed(req[w].f, of[e], base, w)
    BY <1>12, <2>1
  <2> DEFINE r == Reversed(req[w].f, of[e], base, w)
  <2>3. /\ r \in Charge /\ r.reversal /\ r.original = of[e] /\ r.key = None /\ ~ r.locked /\ r.tx = w
    BY <1>3, <2>1 DEF Reversed, Charge, Request
  <2> HIDE DEF r
  <2>4. r # NoCharge
    BY <2>3, FolioAssumption DEF NoCharge
  <2>5. charge'[e] = r
    BY <2>2 DEF r
  <2> QED BY <2>3, <2>4, <2>5
<1>21. \A x \in Charges \ new : charge'[x] = charge[x]
  BY <1>12
<1>22. Rows' = Rows \cup new
  BY <1>19, <1>20, <1>21 DEF Rows
<1>23. \A x \in Rows : charge'[x] = charge[x]
  BY <1>19, <1>21 DEF Rows
<1>24. charge' \in [Charges -> Charge \cup {NoCharge}]
  BY <1>1, <1>12, <1>20, <1>21 DEF TypeOK
<1>25. TypeOK'
  BY <1>1, <1>2, <1>4, <1>5, <1>24 DEF TypeOK, Onward, ReqTyped, LockStep
<1>26. Pending
  BY <1>22, <1>23 DEF Pending
<1>27. ASSUME NEW e \in new PROVE Inserted(w, e)
  <2>1. of[e] \in Committed /\ Holds(w, of[e])'
    BY <1>14, <1>15, <1>17, <1>19
  <2> QED BY <1>20, <2>1 DEF Inserted, Holds
<1>28. Apart(w)
  BY <1>4, <1>5, <1>22, <1>23, <1>25, <1>26, <1>27 DEF Apart, SameRow, Onward
<1>29. NewSingles
  <2> SUFFICES ASSUME NEW d \in new, NEW e \in Rows'
               PROVE  /\ e \in Rows /\ charge[e].reversal => charge[e].original # charge'[d].original
                      /\ e \notin Rows /\ charge'[e].original = charge'[d].original => d = e
    BY <1>22 DEF NewSingles
  <2>1. charge'[d].original = of[d] /\ ReversalsOf(of[d]) = {}
    BY <1>15, <1>19, <1>20
  <2>2. e \in Rows /\ charge[e].reversal => charge[e].original # of[d]
    BY <2>1 DEF ReversalsOf
  <2>3. e \notin Rows => e \in new /\ charge'[e].original = of[e]
    BY <1>20, <1>22
  <2> QED BY <1>12, <2>1, <2>2, <2>3
<1>30. ASSUME NEW e \in Charges, e \in Rows', charge'[e].tx = w PROVE Owned(e)'
  <2>1. CASE e \in Rows
    <3>1. \A x \in Committed : charge'[x] = charge[x]
      BY <1>23 DEF Committed
    <3> QED BY <1>4, <1>5, <1>23, <1>30, <2>1, <3>1, OwnedOnward
  <2>2. CASE e \in new
    <3>1. PICK x \in kids : x = of[e]
      BY <1>15, <1>19, <2>2
    <3>2. charge'[x] = charge[x] /\ ~ charge[x].reversal /\ charge[x].parent \in req[w].on
      BY <1>8, <1>17, <1>23
    <3>3. charge'[e].reversal /\ charge'[e].original = x /\ Holds(w, x)'
      BY <1>14, <1>20, <2>2, <3>1
    <3> QED BY <1>4, <1>7, <1>30, <3>2, <3>3 DEF Owned, Onward
  <2> QED BY <1>22, <1>30, <2>1, <2>2
<1>31. OwnRows(w)
  BY <1>30 DEF OwnRows
<1>32. /\ c \in Committed' /\ ~ KeyedChild(c)' /\ charge'[c] = charge[c] /\ Holds(w, c)'
       /\ \E d \in ReversalsOf(c)' : charge'[d].tx = w
  <2>1. c \in Committed' /\ charge'[c] = charge[c]
    BY <1>9, <1>22, <1>23 DEF Committed
  <2>2. ~ KeyedChild(c)'
    BY <1>8, <1>23, KeyedChildSame
  <2>3. Holds(w, c)'
    BY <1>5, <1>8 DEF Holds
  <2>4. \E d \in ReversalsOf(c)' : charge'[d].tx = w
    BY <1>8, <1>22, <1>23 DEF ReversalsOf
  <2> QED BY <2>1, <2>2, <2>3, <2>4
<1>33. ASSUME charge[c].key # None, NEW d \in ChildrenOf(c)'
       PROVE  \E e \in ReversalsOf(d)' : charge'[e].tx \in {None, w}
  <2>1. d \in ChildrenOf(c)
    BY <1>20, <1>22, <1>23 DEF ChildrenOf
  <2>2. d \in kids
    BY <1>33, <2>1 DEF IInv, GroupInv, kids
  <2>3. CASE d \in todo
    BY <1>16, <1>20, <1>22, <2>3 DEF ReversalsOf
  <2>4. CASE d \notin todo
    BY <1>18, <1>22, <1>23, <2>2, <2>4 DEF ReversalsOf
  <2> QED BY <2>3, <2>4
<1>34. Reversing(w)'
  BY <1>4, <1>8, <1>32, <1>33 DEF Reversing, Onward
<1>35. Serving(w)'
  BY <1>4, <1>7, <1>34 DEF Serving, Staged, Posting, Moving, Onward
<1> QED BY <1>26, <1>28, <1>29, <1>31, <1>35, StepKeeps

-----------------------------------------------------------------------------
(* The end of a transaction *)

LEMMA AbortKeeps ==
    ASSUME IInv, NEW w \in Workers, Abort(w)
    PROVE  IInv' /\ Lasting
<1>1. TypeOK
  BY DEF IInv
<1>2. /\ charge' = [c \in Charges |-> IF charge[c].tx = w THEN NoCharge ELSE charge[c]]
      /\ End(w) /\ UNCHANGED <<folio, paid>>
  BY DEF Abort
<1>3. /\ ReqTyped' /\ req'[w] = Idle /\ Serving(w)' /\ LockStep(w)
      /\ \A v \in Workers \ {w} : req'[v] = req[v]
  BY <1>2, EndOfRequest
<1>4. charge' \in [Charges -> Charge \cup {NoCharge}]
  BY <1>1, <1>2 DEF TypeOK
<1>5. TypeOK'
  BY <1>1, <1>2, <1>3, <1>4 DEF TypeOK, ReqTyped, LockStep
<1>6. Rows' = {c \in Rows : charge[c].tx # w} /\ \A c \in Rows' : charge'[c] = charge[c]
  BY <1>2 DEF Rows
<1>7. Undone(w)
  BY <1>6 DEF Undone
<1>8. Apart(w)
  BY <1>3, <1>5, <1>6, <1>7 DEF Apart, SameRow
<1>9. NewSingles /\ OwnRows(w)
  BY <1>6 DEF NewSingles, OwnRows
<1> QED BY <1>3, <1>7, <1>8, <1>9, StepKeeps

\* The commit of an accepted price, or of a reversal, leaves whole groups.
LEMMA CommitGroups ==
    ASSUME IInv, NEW w \in Workers, w # None, Apart(w), Done(w), req[w] # Idle, req[w].pc = "write",
           ~ (req[w].op = "postKeyed" /\ \A c \in req[w].on : ChildrenOf(c) = {}),
           \A c \in Rows : charge'[c].folio = charge[c].folio
    PROVE  GroupInv'
<1>1. Rows' = Rows /\ \A c \in Rows : SameRow(c) /\ (charge'[c].tx = None <=> charge[c].tx \in {None, w})
  BY DEF Apart, Done
<1>2. Committed' = {c \in Rows : charge[c].tx \in {None, w}}
  BY <1>1 DEF Committed
<1>3. \A c : ReversalsOf(c)' = ReversalsOf(c) /\ ChildrenOf(c)' = ChildrenOf(c)
  BY <1>1 DEF ReversalsOf, ChildrenOf, SameRow
<1>4. Serving(w) /\ RowsInv /\ GroupInv
  BY DEF IInv
<1>5. Reversing(w) /\ Posting(w)
  BY <1>4 DEF Serving
<1> SUFFICES ASSUME NEW c \in Committed', charge[c].key # None
             PROVE  /\ ChildrenOf(c) # {}
                    /\ \A d \in ChildrenOf(c) :
                         /\ d \in Committed' /\ charge[d].folio = charge[c].folio
                         /\ (ReversalsOf(c) \cap Committed' = {}) <=> (ReversalsOf(d) \cap Committed' = {})
  <2>1. \A c \in Committed' : c \in Rows /\ charge'[c].key = charge[c].key /\ charge'[c].folio = charge[c].folio
    BY <1>1, <1>2 DEF SameRow
  <2>2. \A c : \A d \in ChildrenOf(c) : charge'[d].folio = charge[d].folio
    BY DEF ChildrenOf
  <2> QED BY <1>3, <2>1, <2>2 DEF GroupInv
<1>6. c \in Rows /\ charge[c].tx \in {None, w} /\ charge[c].parent = None /\ ~ charge[c].reversal
  BY <1>2, <1>4 DEF RowsInv
<1>7. ASSUME NEW d \in Rows, charge[d].tx = w PROVE Owned(d)
  BY <1>4, <1>7 DEF RowsInv
<1>8. CASE charge[c].tx = w
  <2>1. Owned(c)
    BY <1>6, <1>7, <1>8
  <2>2. req[w].op = "postKeyed" /\ c \in req[w].on
    BY <1>6, <1>8, <2>1 DEF Owned
  <2>3. /\ req[w].on = {c} /\ charge[c].folio = req[w].f
        /\ \A d \in ChildrenOf(c) : charge[d].tx = w /\ charge[d].folio = req[w].f
    BY <1>5, <2>2 DEF Posting
  <2>4. ChildrenOf(c) # {}
    BY <2>2, <2>3
  <2>5. ASSUME NEW x \in Rows, charge[x].tx = w PROVE ReversalsOf(x) = {}
    BY <1>4, <2>5 DEF ReversalsOf, RowsInv, Committed
  <2> QED BY <1>2, <1>6, <1>8, <2>3, <2>4, <2>5 DEF ChildrenOf
<1>9. CASE charge[c].tx = None
  <2>1. c \in Committed
    BY <1>6, <1>9 DEF Committed
  <2>2. /\ ChildrenOf(c) # {}
        /\ \A d \in ChildrenOf(c) :
             /\ d \in Committed /\ charge[d].folio = charge[c].folio
             /\ (ReversalsOf(c) \cap Committed = {}) <=> (ReversalsOf(d) \cap Committed = {})
    BY <1>4, <2>1 DEF GroupInv
  <2>3. Committed \subseteq Committed'
    BY <1>2 DEF Committed
  <2>4. CASE req[w].op = "reverse" /\ c \in req[w].on
    <3>1. /\ \E d \in ReversalsOf(c) : charge[d].tx = w
          /\ \A d \in ChildrenOf(c) : \E e \in ReversalsOf(d) : charge[e].tx \in {None, w}
      BY <1>5, <2>4 DEF Reversing
    <3>2. \A x : \A d \in ReversalsOf(x) : charge[d].tx \in {None, w} => d \in Committed'
      BY <1>2 DEF ReversalsOf
    <3>3. ReversalsOf(c) \cap Committed' # {}
      BY <3>1, <3>2
    <3>4. \A d \in ChildrenOf(c) : ReversalsOf(d) \cap Committed' # {}
      BY <3>1, <3>2
    <3> QED BY <2>2, <2>3, <3>3, <3>4
  <2>5. CASE ~ (req[w].op = "reverse" /\ c \in req[w].on)
    <3>1. ASSUME NEW x \in ChildrenOf(c) \cup {c}, NEW e \in ReversalsOf(x), charge[e].tx = w
          PROVE  FALSE
      <4>1. e \in Rows /\ charge[e].reversal /\ charge[e].original = x /\ Owned(e)
        BY <1>7, <3>1 DEF ReversalsOf
      <4>2. /\ req[w].op = "reverse"
            /\ x \in req[w].on \/ (~ charge[x].reversal /\ charge[x].parent \in req[w].on)
        BY <3>1, <4>1 DEF Owned
      <4>3. PICK y \in Committed : req[w].on = {y} /\ ~ KeyedChild(y) /\ y # None
        BY <1>5, <4>2, FolioAssumption DEF Reversing, Committed, Rows
      <4>4. CASE x = c
        BY <1>6, <2>5, <4>2, <4>3, <4>4
      <4>5. CASE x \in ChildrenOf(c)
        <5>1. ~ charge[x].reversal /\ charge[x].parent = c /\ c # None
          BY <1>6, <4>5, FolioAssumption DEF ChildrenOf, Rows
        <5>2. KeyedChild(x)
          BY <5>1 DEF KeyedChild
        <5> QED BY <2>5, <4>2, <4>3, <5>1, <5>2
      <4> QED BY <4>4, <4>5
    <3>2. ASSUME NEW x \in ChildrenOf(c) \cup {c}
          PROVE  ReversalsOf(x) \cap Committed' = ReversalsOf(x) \cap Committed
      <4>1. \A e \in ReversalsOf(x) : e \in Rows /\ charge[e].tx # w
        BY <3>1 DEF ReversalsOf
      <4> QED BY <1>2, <4>1 DEF Committed
    <3>3. c \in ChildrenOf(c) \cup {c} /\ \A d \in ChildrenOf(c) : d \in ChildrenOf(c) \cup {c}
      OBVIOUS
    <3> QED BY <2>2, <2>3, <3>2, <3>3
  <2> QED BY <2>4, <2>5
<1> QED BY <1>6, <1>8, <1>9

LEMMA WriteKeeps ==
    ASSUME IInv, NEW w \in Workers, Write(w)
    PROVE  IInv' /\ Lasting
<1> DEFINE more == req[w].op = "postKeyed" /\ \A c \in req[w].on : ChildrenOf(c) = {}
<1>1. TypeOK
  BY DEF IInv
<1>2. req[w].pc = "write" /\ Granted(w) /\ paid' = paid
  BY DEF Write
<1>3. req[w] \in Request /\ req[w] # Idle
  BY <1>1, <1>2, RequestRow DEF Steps
<1>4. Posting(w)
  BY <1>3 DEF IInv, Serving
<1>5. ASSUME more, Goto(w, "tax"), Take(w), charge' = charge, folio' = folio
      PROVE  IInv' /\ Lasting
  <2>1. Onward(w, "tax") /\ req'[w].on = req[w].on
    BY <1>1, <1>2, <1>5, GoesTo DEF Steps
  <2>2. LockStep(w) /\ lock \subseteq lock'
    BY <1>2, <1>5, TakesLocks
  <2>3. TypeOK'
    BY <1>1, <1>2, <1>5, <2>1, <2>2 DEF TypeOK, Onward, ReqTyped, LockStep
  <2>4. Posting(w)'
    BY <1>2, <1>4, <1>5, <2>1, ChargesSame DEF Posting, Onward
  <2>5. Serving(w)'
    BY <1>5, <2>1, <2>4 DEF Serving, Staged, Reversing, Moving, Onward
  <2>6. ASSUME NEW c \in Rows, charge[c].tx = w PROVE Owned(c)'
    <3>1. \A x : charge'[x] = charge[x]
      BY <1>5
    <3> QED BY <1>5, <2>1, <2>2, <2>6, <3>1, OwnedOnward
  <2> QED BY <1>5, <2>1, <2>2, <2>3, <2>5, <2>6, SameChargesStep DEF Onward
<1>6. ASSUME ~ more, folio' = [folio EXCEPT ![req[w].f].balance = req[w].sum], CommitRows(w), End(w)
      PROVE  IInv' /\ Lasting
  <2>1. /\ ReqTyped' /\ req'[w] = Idle /\ Serving(w)' /\ LockStep(w)
        /\ \A v \in Workers \ {w} : req'[v] = req[v]
    BY <1>6, EndOfRequest
  <2>2. charge' = [c \in Charges |-> IF charge[c].tx = w THEN [charge[c] EXCEPT !.tx = None] ELSE charge[c]]
    BY <1>6 DEF CommitRows
  <2>3. \A c \in Charges : charge[c].tx # w => charge'[c] = charge[c]
    BY <2>2
  <2>4. ASSUME NEW c \in Charges, charge[c].tx = w
        PROVE  /\ charge'[c] \in Charge /\ charge'[c].tx = None /\ SameRow(c) /\ c \in Rows
               /\ charge'[c].locked = charge[c].locked /\ charge'[c].folio = charge[c].folio
    <3>1. charge[c].tx # "absent"
      BY <2>4, FolioAssumption
    <3>2. charge[c] \in Charge /\ c \in Rows
      BY <1>1, <3>1, RowFacts
    <3>3. charge'[c] = [charge[c] EXCEPT !.tx = None]
      BY <2>2, <2>4
    <3>4. charge'[c] \in Charge
      BY <3>2, <3>3 DEF Charge
    <3> QED BY <3>2, <3>3, <3>4 DEF Charge, SameRow
  <2>5. charge' \in [Charges -> Charge \cup {NoCharge}]
    BY <1>1, <2>2, <2>3, <2>4 DEF TypeOK
  <2>6. folio' \in [Folios -> [status : {"open", "settled", "closed"}, balance : Int]]
    BY <1>1, <1>3, <1>6 DEF TypeOK, Request
  <2>7. TypeOK'
    BY <1>1, <1>2, <2>1, <2>5, <2>6 DEF TypeOK, ReqTyped, LockStep
  <2>8. Rows' = Rows
    <3>1. \A c \in Charges : charge[c].tx = w => c \in Rows'
      BY <2>4, <2>7, RowFactsNext, FolioAssumption
    <3>2. \A c \in Charges : charge[c].tx # w => (c \in Rows' <=> c \in Rows)
      BY <2>3 DEF Rows
    <3>3. Rows \subseteq Charges /\ Rows' \subseteq Charges
      BY DEF Rows
    <3> QED BY <2>4, <3>1, <3>2, <3>3
  <2>9. Rows \subseteq Charges
    BY DEF Rows
  <2>10. Done(w)
    BY <2>3, <2>4, <2>8, <2>9 DEF Done
  <2>11. Apart(w)
    <3>1. ASSUME NEW c \in Rows
          PROVE  SameRow(c) /\ charge'[c].locked = charge[c].locked /\ charge'[c].folio = charge[c].folio
      BY <2>3, <2>4, <2>9 DEF SameRow
    <3> QED BY <2>1, <2>7, <2>8, <2>10, <3>1 DEF Apart
  <2>12. \A c \in Rows : charge'[c].folio = charge[c].folio
    BY <2>3, <2>4, <2>9
  <2>13. w # None
    BY FolioAssumption
  <2>14. GroupInv'
    BY <1>2, <1>3, <1>6, <2>10, <2>11, <2>12, <2>13, CommitGroups
  <2>15. NewSingles /\ OwnRows(w)
    <3>1. \A c \in Rows : charge'[c].tx # w
      BY <2>3, <2>4, <2>9, <2>13
    <3> QED BY <2>8, <3>1 DEF NewSingles, OwnRows
  <2> QED BY <2>1, <2>11, <2>14, <2>15, StepKeeps
<1> QED BY <1>5, <1>6 DEF Write

LEMMA MoveKeeps ==
    ASSUME IInv, NEW w \in Workers, Move(w)
    PROVE  IInv' /\ Lasting
<1>1. TypeOK
  BY DEF IInv
<1>2. /\ req[w].pc = "move" /\ Granted(w) /\ End(w) /\ paid' = paid
      /\ charge' = [c \in Charges |-> IF c \in req[w].on THEN [charge[c] EXCEPT !.folio = req[w].to]
                                                         ELSE charge[c]]
  BY DEF Move
<1>3. req[w] \in Request /\ req[w] # Idle
  BY <1>1, <1>2, RequestRow DEF Steps
<1>4. /\ ReqTyped' /\ Serving(w)' /\ LockStep(w)
      /\ \A v \in Workers \ {w} : req'[v] = req[v]
  BY <1>2, EndOfRequest
<1>5. folio' \in [Folios -> [status : {"open", "settled", "closed"}, balance : Int]]
  <2>1. req[w].f \in Folios /\ req[w].to \in Folios /\ req[w].on \subseteq Charges
    BY <1>3 DEF Request
  <2>2. /\ CommittedOn(req[w].f) \ req[w].on \in SUBSET Charges
        /\ CommittedOn(req[w].to) \cup req[w].on \in SUBSET Charges
    BY <2>1 DEF CommittedOn, Committed, Rows
  <2>3. PICK a \in Int, b \in Int :
          folio' = [folio EXCEPT ![req[w].f].balance = a, ![req[w].to].balance = b]
    <3>1. paid[req[w].f] \in Int /\ paid[req[w].to] \in Int
      BY <1>1, <2>1 DEF TypeOK
    <3>2. /\ Net(CommittedOn(req[w].f) \ req[w].on) - paid[req[w].f] \in Int
          /\ Net(CommittedOn(req[w].to) \cup req[w].on) - paid[req[w].to] \in Int
      BY <2>2, <3>1, NetTyped
    <3> QED BY <3>2 DEF Move
  <2> QED BY <1>1, <2>1, <2>3 DEF TypeOK
<1>6. Staged(w) /\ Moving(w)
  BY <1>3 DEF IInv, Serving
<1>7. \A c \in req[w].on : c \in Committed /\ charge[c].key = None /\ ~ KeyedChild(c)
  BY <1>2, <1>6 DEF Moving
<1>8. \A c \in Charges : c \notin req[w].on => charge'[c] = charge[c]
  BY <1>2
<1>9. ASSUME NEW c \in req[w].on
      PROVE  /\ charge'[c] \in Charge /\ charge'[c].tx = charge[c].tx /\ SameRow(c)
             /\ charge'[c].locked = charge[c].locked /\ c \in Rows
  <2>1. c \in Rows /\ c \in Charges
    BY <1>7 DEF Committed, Rows
  <2>2. charge[c] \in Charge
    BY <1>1, <2>1, RowFacts
  <2>3. charge'[c] = [charge[c] EXCEPT !.folio = req[w].to]
    BY <1>2, <2>1
  <2>4. charge'[c] \in Charge
    BY <1>3, <2>2, <2>3 DEF Charge, Request
  <2> QED BY <2>1, <2>2, <2>3, <2>4 DEF Charge, SameRow
<1>10. charge' \in [Charges -> Charge \cup {NoCharge}]
  BY <1>1, <1>2, <1>8, <1>9 DEF TypeOK
<1>11. TypeOK'
  BY <1>1, <1>2, <1>4, <1>5, <1>10 DEF TypeOK, ReqTyped, LockStep
<1>12. Rows \subseteq Charges /\ Rows' \subseteq Charges
  BY DEF Rows
<1>13. Rows' = Rows
  <2>1. \A c \in Charges : c \in req[w].on => (c \in Rows' <=> c \in Rows)
    BY <1>1, <1>9, <1>11, RowFacts, RowFactsNext
  <2>2. \A c \in Charges : c \notin req[w].on => (c \in Rows' <=> c \in Rows)
    BY <1>8 DEF Rows
  <2> QED BY <1>12, <2>1, <2>2
<1>14. Pending
  BY <1>8, <1>9, <1>12, <1>13 DEF Pending
<1>15. Apart(w)
  <2>1. ASSUME NEW c \in Rows
        PROVE  /\ SameRow(c) /\ charge'[c].locked = charge[c].locked
               /\ charge'[c].folio # charge[c].folio => c \in req[w].on
    BY <1>8, <1>9, <1>12 DEF SameRow
  <2> QED BY <1>4, <1>7, <1>11, <1>13, <1>14, <2>1 DEF Apart
<1>16. req[w].op \in {"transfer", "move"}
  BY <1>2, <1>6 DEF Staged
<1>17. \A c \in Rows : charge[c].tx # w
  BY <1>16, NoneOwned
<1>18. NewSingles /\ OwnRows(w)
  BY <1>13, <1>14, <1>17 DEF NewSingles, OwnRows, Pending
<1> QED BY <1>4, <1>14, <1>15, <1>18, StepKeeps

-----------------------------------------------------------------------------
(* Day close *)

\* Only rows nobody has locked FOR UPDATE or writes are closed.
LEMMA LockRowsKeeps ==
    ASSUME IInv, NEW rows \in SUBSET Committed, LockRows(rows), "lockFolio" \notin Ops => rows = Committed
    PROVE  IInv' /\ Lasting
<1>1. TypeOK
  BY DEF IInv
<1>2. UNCHANGED <<folio, paid, lock, req>>
  BY DEF LockRows
<1>3. PICK S \in SUBSET rows :
         /\ \A c \in S : \A d \in SameDate(c) \cap rows : d \in S \/ charge[d].locked
         /\ \A l \in lock : l.row \in S => l.mode = "share"
         /\ charge' = [c \in Charges |-> IF c \in S THEN [charge[c] EXCEPT !.locked = TRUE] ELSE charge[c]]
  BY DEF LockRows
<1>4. \A c \in Charges : c \notin S => charge'[c] = charge[c]
  BY <1>3
<1>5. S \subseteq Committed /\ S \subseteq Rows /\ S \subseteq Charges
  BY DEF Committed, Rows
<1>6. ASSUME NEW c \in S
      PROVE  /\ charge'[c] \in Charge /\ charge'[c].tx = charge[c].tx /\ SameRow(c)
             /\ charge'[c].folio = charge[c].folio /\ charge'[c].locked
  <2>1. charge[c] \in Charge
    BY <1>1, <1>5, RowFacts
  <2>2. charge'[c] = [charge[c] EXCEPT !.locked = TRUE]
    BY <1>3, <1>5
  <2>3. charge'[c] \in Charge
    BY <2>1, <2>2 DEF Charge
  <2> QED BY <2>1, <2>2, <2>3 DEF Charge, SameRow
<1>7. charge' \in [Charges -> Charge \cup {NoCharge}]
  BY <1>1, <1>3, <1>4, <1>6 DEF TypeOK
<1>8. TypeOK'
  BY <1>1, <1>2, <1>7 DEF TypeOK
<1>9. Rows \subseteq Charges /\ Rows' \subseteq Charges
  BY DEF Rows
<1>10. Rows' = Rows
  <2>1. \A c \in S : c \in Rows' /\ c \in Rows
    BY <1>5, <1>6, <1>8, RowFacts, RowFactsNext, <1>1
  <2>2. \A c \in Charges : c \notin S => (c \in Rows' <=> c \in Rows)
    BY <1>4 DEF Rows
  <2> QED BY <1>9, <2>1, <2>2
<1>11. ASSUME NEW c \in Rows
       PROVE  /\ charge'[c].tx = charge[c].tx /\ SameRow(c) /\ charge'[c].folio = charge[c].folio
              /\ charge'[c].locked <=> (charge[c].locked \/ c \in S)
  BY <1>4, <1>5, <1>6, <1>9 DEF SameRow
<1>12. Committed' = Committed
  BY <1>10, <1>11 DEF Committed
<1>13. \A c : ReversalsOf(c)' = ReversalsOf(c) /\ ChildrenOf(c)' = ChildrenOf(c)
  BY <1>10, <1>11 DEF ReversalsOf, ChildrenOf, SameRow
<1>14. RowsInv
  BY DEF IInv
<1>15. \A c \in Rows : KeyedChild(c)' <=> KeyedChild(c)
  BY <1>11, <1>14 DEF KeyedChild, SameRow, RowsInv
<1>16. \A v, c : Holds(v, c)' <=> Holds(v, c)
  BY <1>2 DEF Holds
<1>17. Exclusive'
  BY <1>2 DEF IInv, Exclusive
<1>18. ASSUME NEW c \in Rows, charge[c].tx # None PROVE Owned(c)'
  <2>1. Owned(c) /\ (charge[c].reversal => charge[c].original \in Rows)
    BY <1>14, <1>18 DEF RowsInv, Committed
  <2>2. PICK x : x = charge[c].original
    OBVIOUS
  <2>3. charge[c].reversal => SameRow(x)
    BY <1>11, <2>1, <2>2
  <2>4. charge'[c].tx = charge[c].tx /\ SameRow(c) /\ req' = req
    BY <1>2, <1>11
  <2> QED BY <1>16, <2>1, <2>2, <2>3, <2>4 DEF Owned, SameRow
<1>19. RowsInv'
  BY <1>10, <1>11, <1>12, <1>14, <1>18 DEF RowsInv, SameRow
<1>20. Singles'
  BY <1>10, <1>11 DEF IInv, Singles, SameRow
<1>21. GroupInv'
  <2>1. Committed \subseteq Rows /\ \A c : ChildrenOf(c) \subseteq Rows
    BY DEF Committed, ChildrenOf
  <2> QED BY <1>11, <1>12, <1>13, <2>1 DEF IInv, GroupInv, SameRow
<1>22. ASSUME NEW v \in Workers PROVE Serving(v)'
  <2>1. CASE req[v] = Idle
    BY <1>2, <2>1 DEF Serving
  <2>2. CASE req[v] # Idle
    <3>1. Staged(v) /\ Reversing(v) /\ Posting(v) /\ Moving(v) /\ req'[v] = req[v]
      BY <1>2, <2>2 DEF IInv, Serving
    <3>2. Staged(v)'
      BY <3>1 DEF Staged
    <3>3. Posting(v)'
      <4>1. \A c : ChildrenOf(c) \subseteq Rows
        BY DEF ChildrenOf
      <4>2. Committed \subseteq Rows
        BY DEF Committed
      <4> QED BY <1>10, <1>11, <1>12, <1>13, <3>1, <4>1, <4>2 DEF Posting, SameRow
    <3>4. Moving(v)'
      <4>1. Committed \subseteq Rows
        BY DEF Committed
      <4> QED BY <1>11, <1>12, <1>15, <3>1, <4>1 DEF Moving, SameRow
    <3>5. Reversing(v)'
      <4>1. CASE req[v].op # "reverse"
        BY <3>1, <4>1 DEF Reversing
      <4>2. CASE req[v].op = "reverse"
        <5>1. PICK c \in Committed :
                /\ req[v].on = {c}
                /\ req[v].pc # "original" =>
                     /\ Holds(v, c)
                     /\ ~ charge[c].locked /\ ~ charge[c].reversal /\ ~ KeyedChild(c)
                /\ req[v].pc = "insert" => ReversalsOf(c) = {}
                /\ req[v].pc \in {"children", "sum", "write"} => \E d \in ReversalsOf(c) : charge[d].tx = v
                /\ req[v].pc \in {"sum", "write"} /\ charge[c].key # None =>
                     \A d \in ChildrenOf(c) : \E e \in ReversalsOf(d) : charge[e].tx \in {None, v}
          BY <3>1, <4>2 DEF Reversing
        <5>2. c \in Rows /\ \A x : ReversalsOf(x) \subseteq Rows
          BY DEF Committed, ReversalsOf
        <5>3. Holds(v, c) => c \notin S
          <6> DEFINE l == [by |-> v, row |-> c, mode |-> "update"]
          <6>1. l.row = c /\ l.mode = "update"
            OBVIOUS
          <6> HIDE DEF l
          <6>2. l \in lock => c \notin S
            BY <1>3, <6>1
          <6> QED BY <6>2 DEF Holds, l
        <5>4. req[v].pc # "original" =>
                     /\ Holds(v, c)'
                     /\ ~ charge'[c].locked /\ ~ charge'[c].reversal /\ ~ KeyedChild(c)'
          BY <1>11, <1>15, <1>16, <5>1, <5>2, <5>3 DEF SameRow
        <5>5. req[v].pc \in {"children", "sum", "write"} => \E d \in ReversalsOf(c)' : charge'[d].tx = v
          BY <1>11, <1>13, <5>1, <5>2
        <5>6. req[v].pc \in {"sum", "write"} /\ charge'[c].key # None =>
                     \A d \in ChildrenOf(c)' : \E e \in ReversalsOf(d)' : charge'[e].tx \in {None, v}
          BY <1>11, <1>13, <5>1, <5>2 DEF SameRow
        <5> QED BY <1>12, <1>13, <3>1, <5>1, <5>4, <5>5, <5>6 DEF Reversing
      <4> QED BY <4>1, <4>2
    <3> QED BY <3>2, <3>3, <3>4, <3>5 DEF Serving
  <2> QED BY <2>1, <2>2
<1>23. ASSUME "lockFolio" \notin Ops PROVE LockedUp'
  <2> SUFFICES ASSUME NEW c \in Rows, ~ charge'[c].reversal, charge'[c].parent # None, charge'[c].locked
               PROVE  charge'[charge'[c].parent].locked
    BY <1>10 DEF LockedUp
  <2>1. PICK p : p = charge[c].parent /\ p = charge'[c].parent
    BY <1>11 DEF SameRow
  <2>2. p \in Rows /\ charge[p].tx \in {None, charge[c].tx} /\ ~ charge[c].reversal
    BY <1>11, <1>14, <2>1 DEF RowsInv, SameRow
  <2>3. CASE charge[c].locked
    <3>1. charge[p].locked
      BY <1>23, <2>1, <2>2, <2>3 DEF IInv, LockedUp
    <3> QED BY <1>11, <2>1, <2>2, <3>1
  <2>4. CASE c \in S
    <3>1. p \in rows /\ p \in SameDate(c)
      BY <1>5, <1>23, <2>1, <2>2, <2>4 DEF Committed, SameDate
    <3>2. p \in S \/ charge[p].locked
      BY <1>3, <2>4, <3>1
    <3> QED BY <1>11, <2>1, <2>2, <3>2
  <2> QED BY <1>11, <2>3, <2>4
<1>24. Lasting
  BY <1>10, <1>11 DEF Lasting
<1> QED BY <1>8, <1>17, <1>19, <1>20, <1>21, <1>22, <1>23, <1>24 DEF IInv

-----------------------------------------------------------------------------
(* Every step *)

LEMMA InitHolds == Init => IInv
<1> SUFFICES ASSUME Init PROVE IInv
  OBVIOUS
<1>1. Rows = {}
  BY DEF Init, Rows
<1>2. Committed = {}
  BY <1>1 DEF Committed
<1>3. TypeOK
  BY FolioAssumption DEF Init, TypeOK
<1>4. Exclusive
  BY DEF Init, Exclusive
<1>5. RowsInv /\ Singles /\ GroupInv /\ LockedUp
  BY <1>1, <1>2 DEF RowsInv, Singles, GroupInv, LockedUp
<1>6. \A w \in Workers : Serving(w)
  BY DEF Init, Serving
<1> QED BY <1>3, <1>4, <1>5, <1>6 DEF IInv

LEMMA NextKeeps ==
    ASSUME IInv, Next
    PROVE  IInv' /\ Lasting
<1>1. ASSUME NEW w \in Workers, Begin(w) PROVE IInv' /\ Lasting
  BY <1>1, BeginKeeps
<1>2. ASSUME NEW w \in Workers, Proceed(w) PROVE IInv' /\ Lasting
  <2>1. CASE InsertBase(w)
    BY <2>1, InsertBaseKeeps
  <2>2. CASE InsertTax(w)
    BY <2>2, InsertTaxKeeps
  <2>3. CASE InsertKeyed(w)
    BY <2>3, InsertKeyedKeeps
  <2>4. CASE InsertFrozenTax(w)
    BY <2>4, InsertFrozenTaxKeeps
  <2>5. CASE RecordPayment(w)
    BY <2>5, RecordPaymentKeeps
  <2>6. CASE LockOriginal(w)
    BY <2>6, LockOriginalKeeps
  <2>7. CASE InsertReversal(w)
    BY <2>7, InsertReversalKeeps
  <2>8. CASE ReverseChildren(w)
    BY <2>8, ReverseChildrenKeeps
  <2>9. CASE Sum(w)
    BY <2>9, SumKeeps
  <2>10. CASE Write(w)
    BY <2>10, WriteKeeps
  <2>11. CASE LockFolio(w)
    BY <2>11, LockFolioKeeps
  <2>12. CASE CheckTransfer(w)
    BY <2>12, CheckTransferKeeps
  <2>13. CASE Move(w)
    BY <2>13, MoveKeeps
  <2>14. CASE SetStatus(w)
    BY <2>14, SetStatusKeeps
  <2> QED BY <1>2, <2>1, <2>2, <2>3, <2>4, <2>5, <2>6, <2>7, <2>8, <2>9, <2>10, <2>11, <2>12, <2>13, <2>14
          DEF Proceed
<1>3. ASSUME NEW w \in Workers, Abort(w) PROVE IInv' /\ Lasting
  BY <1>3, AbortKeeps
<1>4. CASE LockChargesForDate
  <2>1. LockRows(Committed) /\ Committed \in SUBSET Committed
    BY <1>4 DEF LockChargesForDate
  <2> QED BY <2>1, LockRowsKeeps
<1>5. ASSUME NEW f \in Folios, LockCharges(f) PROVE IInv' /\ Lasting
  <2>1. LockRows(CommittedOn(f)) /\ CommittedOn(f) \in SUBSET Committed /\ "lockFolio" \in Ops
    BY <1>5 DEF LockCharges, CommittedOn
  <2> QED BY <2>1, LockRowsKeeps
<1> QED BY <1>1, <1>2, <1>3, <1>4, <1>5 DEF Next

LEMMA StutterKeeps ==
    ASSUME IInv, UNCHANGED vars
    PROVE  IInv'
<1>1. charge' = charge /\ folio' = folio /\ paid' = paid /\ lock' = lock /\ req' = req
  BY DEF vars
<1>2. \A w, c : Holds(w, c)' <=> Holds(w, c)
  BY <1>1 DEF Holds
<1>3. TypeOK' /\ Exclusive'
  BY <1>1 DEF IInv, TypeOK, Exclusive
<1>4. \A c : Owned(c)' <=> Owned(c)
  BY <1>1, <1>2 DEF Owned
<1>5. RowsInv'
  BY <1>1, <1>4, ChargesSame DEF IInv, RowsInv
<1>6. Singles' /\ GroupInv'
  BY <1>1, ChargesSame DEF IInv, Singles, GroupInv
<1>7. LockedUp => LockedUp'
  BY <1>1, ChargesSame DEF LockedUp
<1>8. ASSUME NEW w \in Workers PROVE Serving(w)'
  <2>1. CASE req[w] = Idle
    BY <1>1, <2>1 DEF Serving
  <2>2. CASE req[w] # Idle
    <3>1. Staged(w) /\ Reversing(w) /\ Posting(w) /\ Moving(w)
      BY <2>2 DEF IInv, Serving
    <3>2. Staged(w)' /\ Posting(w)' /\ Moving(w)'
      BY <1>1, <3>1, ChargesSame DEF Staged, Posting, Moving
    <3>3. Reversing(w)'
      BY <1>1, <1>2, <3>1, ChargesSame DEF Reversing
    <3> QED BY <3>2, <3>3 DEF Serving
  <2> QED BY <2>1, <2>2
<1> QED BY <1>3, <1>5, <1>6, <1>7, <1>8 DEF IInv

\* The inductive invariant of the folio ledger holds in every reachable state.
THEOREM Invariant == Spec => []IInv
<1>1. IInv /\ [Next]_vars => IInv'
  BY NextKeeps, StutterKeeps
<1> QED BY InitHolds, <1>1, PTL DEF Spec

\* Type correctness: every charge row, folio, lock and request keeps its shape.
THEOREM TypeCorrect == Spec => []TypeOK
<1>1. IInv => TypeOK
  BY DEF IInv
<1> QED BY <1>1, Invariant, PTL

\* No charge is reversed twice, however reverseCharge runs against itself, the
\* cascade to components, transfers, moves, aborts and the day close.
THEOREM NoDoubleReversal == Spec => []ReversedOnce
<1>1. ASSUME IInv, NEW c \in Charges PROVE Cardinality(ReversalsOf(c)) <= 1
  <2>1. CASE ReversalsOf(c) = {}
    BY <2>1, FS_EmptySet
  <2>2. CASE ReversalsOf(c) # {}
    <3>1. PICK d : d \in ReversalsOf(c)
      BY <2>2
    <3>2. ReversalsOf(c) = {d}
      BY <1>1, <3>1 DEF IInv, Singles, ReversalsOf
    <3>3. Cardinality({d}) = 1
      BY FS_Singleton
    <3> QED BY <3>2, <3>3
  <2> QED BY <2>1, <2>2
<1>2. IInv => ReversedOnce
  BY <1>1 DEF ReversedOnce
<1> QED BY <1>2, Invariant, PTL

\* An accepted base/tax pair is posted whole, stays on one folio and is
\* reversed whole, whatever fails or moves in between.
THEOREM GroupsWhole == Spec => []AcceptedGroupWhole
<1>1. ASSUME IInv, NEW c \in Committed, charge[c].key # None
      PROVE  \E d \in Committed :
               /\ charge[d].parent = c /\ charge[d].folio = charge[c].folio
               /\ (ReversalsOf(c) \cap Committed = {}) <=> (ReversalsOf(d) \cap Committed = {})
  <2>1. PICK d : d \in ChildrenOf(c)
    BY <1>1 DEF IInv, GroupInv
  <2>2. charge[d].parent = c
    BY <2>1 DEF ChildrenOf
  <2> QED BY <1>1, <2>1, <2>2 DEF IInv, GroupInv
<1>2. IInv => AcceptedGroupWhole
  BY <1>1 DEF AcceptedGroupWhole
<1> QED BY <1>2, Invariant, PTL

\* Where the day close runs on the whole property (lockChargesForDate) and
\* nothing locks a single folio, a locked charge is never reversed any more.
THEOREM LockedFinal ==
    ASSUME "lockFolio" \notin Ops
    PROVE  Spec => LockedNotReversed
<1>1. ASSUME IInv, IInv', Lasting, NEW c \in Rows, charge[c].locked, ReversalsOf(c) = {}
      PROVE  ReversalsOf(c)' = {}
  <2> SUFFICES ASSUME NEW e \in ReversalsOf(c)' PROVE FALSE
    OBVIOUS
  <2>1. e \in Rows' /\ charge'[e].reversal /\ charge'[e].original = c
    BY DEF ReversalsOf
  <2>2. e \notin Rows
    BY <1>1, <2>1 DEF Lasting, SameRow, ReversalsOf
  <2>3. charge'[e].tx # None
    BY <1>1, <2>1, <2>2 DEF Lasting
  <2>4. TypeOK' /\ RowsInv' /\ LockedUp' /\ \A v \in Workers : Serving(v)'
    BY <1>1 DEF IInv
  <2>5. c \in Committed' /\ Owned(e)'
    BY <2>1, <2>3, <2>4 DEF RowsInv
  <2>6. c \in Rows' /\ charge'[c].locked
    BY <1>1, <2>5 DEF Committed, Lasting
  <2>7. PICK w : w = charge'[e].tx
    OBVIOUS
  <2>8. w \in Workers
    BY <2>1, <2>3, <2>4, <2>7, RowFactsNext DEF Rows
  <2>9. /\ req'[w] # Idle /\ req'[w].op = "reverse" /\ req'[w].pc \in {"children", "sum", "write"}
        /\ c \in req'[w].on \/ (~ charge'[c].reversal /\ charge'[c].parent \in req'[w].on)
    BY <2>1, <2>5, <2>7 DEF Owned
  <2>10. PICK b : b \in Committed' /\ req'[w].on = {b} /\ ~ charge'[b].locked
    BY <2>4, <2>8, <2>9 DEF Serving, Reversing
  <2>11. CASE c \in req'[w].on
    BY <2>6, <2>10, <2>11
  <2>12. CASE ~ charge'[c].reversal /\ charge'[c].parent \in req'[w].on
    <3>1. charge'[c].parent = b /\ b # None
      BY <2>10, <2>12, FolioAssumption DEF Committed, Rows
    <3>2. charge'[b].locked
      BY <2>4, <2>6, <2>12, <3>1 DEF LockedUp
    <3> QED BY <2>10, <3>2
  <2> QED BY <2>9, <2>11, <2>12
<1>2. IInv /\ [Next]_vars =>
        [\A c \in Rows : charge[c].locked /\ ReversalsOf(c) = {} => ReversalsOf(c)' = {}]_vars
  BY <1>1, NextKeeps
<1> QED BY <1>2, Invariant, PTL DEF Spec, LockedNotReversed

-----------------------------------------------------------------------------
(* The stored balance, one request at a time *)

Alone == \A v, w \in Workers : v = w

Balanced(f) == folio[f].balance = Total(Committed, f)

\* postCharge and recordPayment have committed what they have not summed yet.
Unbooked(q) == q.op \in {"post", "pay"} /\ q.pc # "insert"

\* The balances during a request: only the folio it posts to may lag behind.
Balancing(w) ==
    LET q == req[w] IN
    /\ \A f \in Folios : f # q.f \/ ~ Unbooked(q) => Balanced(f)
    /\ q.pc = "write" => q.sum = Total(VisibleTo(w), q.f)
    /\ \A c \in Rows : charge[c].tx = w => charge[c].folio = q.f
    /\ q.op \in {"transfer", "move"} => q.f # q.to
    /\ q.pc = "move" => \A c \in q.on : c \in CommittedOn(q.f)

BalanceInv ==
    /\ (\A w \in Workers : req[w] = Idle) => \A f \in Folios : Balanced(f)
    /\ \A w \in Workers : req[w] # Idle => Balancing(w)

\* A step that keeps the committed rows and the payments of a folio keeps its balance right.
LEMMA BalancedKept ==
    ASSUME NEW f \in Folios, Balanced(f), folio'[f].balance = folio[f].balance, paid'[f] = paid[f],
           \A c \in Charges : c \in CommittedOn(f)' <=> c \in CommittedOn(f),
           \A c \in CommittedOn(f) : charge'[c].reversal = charge[c].reversal
    PROVE  Balanced(f)'
<1> DEFINE S == {c \in Committed : charge[c].folio = f}
           T == {c \in Committed' : charge'[c].folio = f}
<1>1. S = T
  BY DEF CommittedOn, Committed, Rows
<1>2. {c \in T : ~ charge'[c].reversal} = {c \in S : ~ charge[c].reversal}
  BY <1>1 DEF CommittedOn
<1>3. {c \in T : charge'[c].reversal} = {c \in S : charge[c].reversal}
  BY <1>1 DEF CommittedOn
<1> QED BY <1>2, <1>3 DEF Balanced, Total, Net

\* Under Alone the state is that of w.
LEMMA SoleWorker ==
    ASSUME Alone, NEW w \in Workers,
           req'[w] = Idle => \A f \in Folios : Balanced(f)',
           req'[w] # Idle => Balancing(w)'
    PROVE  BalanceInv'
BY DEF Alone, BalanceInv

\* Steps that write neither rows nor folios.
LEMMA SameBooks ==
    ASSUME charge' = charge, folio' = folio, paid' = paid
    PROVE  /\ \A f : Balanced(f)' <=> Balanced(f)
           /\ \A w, f : Total(VisibleTo(w), f)' = Total(VisibleTo(w), f)
           /\ \A f : CommittedOn(f)' = CommittedOn(f)
           /\ Rows' = Rows
BY DEF Balanced, Total, Net, VisibleTo, CommittedOn, Committed, Rows

LEMMA QuietStep ==
    ASSUME NEW w \in Workers, Balancing(w), NEW pc, Onward(w, pc), charge' = charge, folio' = folio, paid' = paid,
           req[w].op \notin {"post", "pay"} \/ pc # "insert",
           pc = "write" => req'[w].sum = Total(VisibleTo(w), req[w].f),
           pc = "move" => \A c \in req'[w].on : c \in CommittedOn(req[w].f)
    PROVE  Balancing(w)'
<1>1. req'[w].pc = pc /\ req'[w].op = req[w].op /\ req'[w].f = req[w].f /\ req'[w].to = req[w].to
  BY DEF Onward
<1>2. Unbooked(req[w]) => Unbooked(req'[w])
  BY <1>1 DEF Unbooked
<1>3. ASSUME NEW f \in Folios, f # req[w].f \/ ~ Unbooked(req'[w]) PROVE Balanced(f)'
  BY <1>2, <1>3, SameBooks DEF Balancing
<1>4. \A c \in Rows' : charge'[c].tx = w => charge'[c].folio = req[w].f
  BY SameBooks DEF Balancing
<1>5. req[w].op \in {"transfer", "move"} => req[w].f # req[w].to
  BY DEF Balancing
<1>6. pc = "write" => req'[w].sum = Total(VisibleTo(w), req[w].f)'
  <2>1. PICK f : f = req[w].f /\ f = req'[w].f
    BY <1>1
  <2>2. pc = "write" => req'[w].sum = Total(VisibleTo(w), f)'
    BY <2>1, SameBooks
  <2> QED BY <2>1, <2>2 DEF Total
<1>7. pc = "move" => \A c \in req'[w].on : c \in CommittedOn(req[w].f)'
  <2>1. PICK f : f = req[w].f /\ f = req'[w].f
    BY <1>1
  <2>2. pc = "move" => \A c \in req'[w].on : c \in CommittedOn(f)'
    BY <2>1, SameBooks
  <2> QED BY <2>1, <2>2 DEF CommittedOn
<1> QED BY <1>1, <1>3, <1>4, <1>5, <1>6, <1>7 DEF Balancing

\* Steps that insert rows on the folio of the request.
LEMMA InsertsStep ==
    ASSUME IInv, NEW w \in Workers, Balancing(w), NEW pc, Onward(w, pc), pc \notin {"insert", "write", "move"},
           folio' = folio, paid' = paid, NEW N \in SUBSET (Charges \ Rows),
           \A c \in Charges \ N : charge'[c] = charge[c],
           \A c \in N : /\ charge'[c].folio = req[w].f
                        /\ charge'[c].tx = w \/ req[w].op = "post"
    PROVE  Balancing(w)'
<1>1. req'[w].pc = pc /\ req'[w].op = req[w].op /\ req'[w].f = req[w].f /\ req'[w].to = req[w].to
  BY DEF Onward
<1>2. ASSUME NEW f \in Folios, f # req[w].f \/ ~ Unbooked(req'[w]) PROVE Balanced(f)'
  <2>1. Balanced(f)
    BY <1>1, <1>2 DEF Balancing, Unbooked
  <2>2. \A c \in N : c \notin CommittedOn(f)'
    BY <1>1, <1>2, FolioAssumption DEF CommittedOn, Committed, Unbooked
  <2>3. \A c \in N : c \notin CommittedOn(f)
    BY DEF CommittedOn, Committed
  <2>4. \A c \in Charges \ N : c \in CommittedOn(f)' <=> c \in CommittedOn(f)
    BY DEF CommittedOn, Committed, Rows
  <2>5. \A c \in CommittedOn(f) : charge'[c].reversal = charge[c].reversal
    BY <2>3 DEF CommittedOn, Committed, Rows
  <2>6. \A c \in Charges : c \in CommittedOn(f)' <=> c \in CommittedOn(f)
    BY <2>2, <2>3, <2>4
  <2> QED BY <2>1, <2>5, <2>6, BalancedKept
<1>3. ASSUME NEW c \in Rows', charge'[c].tx = w PROVE charge'[c].folio = req[w].f
  <2>1. c \in Charges
    BY DEF Rows
  <2>2. CASE c \in N
    BY <2>2
  <2>3. CASE c \notin N
    BY <1>3, <2>1, <2>3 DEF Balancing, Rows
  <2> QED BY <2>2, <2>3
<1>4. req[w].op \in {"transfer", "move"} => req[w].f # req[w].to
  BY DEF Balancing
<1> QED BY <1>1, <1>2, <1>3, <1>4 DEF Balancing

LEMMA BeginBalances ==
    ASSUME IInv, Alone, BalanceInv, NEW w \in Workers, Begin(w)
    PROVE  BalanceInv'
<1>1. TypeOK
  BY DEF IInv
<1>2. PICK q : /\ Start(w, q) /\ q.pc \notin {"write", "move"}
               /\ q.op \in {"post", "pay"} => q.pc = "insert"
               /\ q.op \in {"transfer", "move"} => q.f # q.to
  <2>1. PICK f \in Folios : \/ BeginPost(w, f) \/ BeginPay(w, f) \/ BeginReverse(w, f) \/ BeginTransfer(w, f)
                            \/ BeginMove(w, f) \/ BeginSettle(w, f) \/ BeginClose(w, f)
    BY DEF Begin
  <2>2. CASE BeginPost(w, f)
    <3>1. CASE Start(w, NewRequest("post", "insert", f))
      BY <3>1 DEF NewRequest
    <3>2. ASSUME NEW k \in Keys, Start(w, [NewRequest("postKeyed", "insert", f) EXCEPT !.key = k])
          PROVE  \E q : /\ Start(w, q) /\ q.pc \notin {"write", "move"}
                        /\ q.op \in {"post", "pay"} => q.pc = "insert"
                        /\ q.op \in {"transfer", "move"} => q.f # q.to
      <4> DEFINE q == [NewRequest("postKeyed", "insert", f) EXCEPT !.key = k]
      <4>1. q.op = "postKeyed" /\ q.pc = "insert"
        BY DEF NewRequest
      <4> HIDE DEF q
      <4>2. Start(w, q)
        BY <3>2 DEF q
      <4> QED BY <4>1, <4>2
    <3> QED BY <2>2, <3>1, <3>2 DEF BeginPost
  <2>3. CASE BeginPay(w, f)
    BY <2>3 DEF BeginPay, NewRequest
  <2>4. CASE BeginReverse(w, f)
    BY <2>4 DEF BeginReverse, NewRequest
  <2>5. CASE BeginTransfer(w, f)
    <3>1. PICK g \in Folios \ {f}, c \in CommittedOn(f) :
               Start(w, [NewRequest("transfer", "first", f) EXCEPT !.to = g, !.on = {c}])
      BY <2>5 DEF BeginTransfer
    <3> DEFINE q == [NewRequest("transfer", "first", f) EXCEPT !.to = g, !.on = {c}]
    <3>2. q.op = "transfer" /\ q.pc = "first" /\ q.f = f /\ q.to = g
      BY DEF NewRequest
    <3> HIDE DEF q
    <3>3. Start(w, q)
      BY <3>1 DEF q
    <3> QED BY <3>2, <3>3
  <2>6. CASE BeginMove(w, f)
    BY <2>6 DEF BeginMove, NewRequest
  <2>7. CASE BeginSettle(w, f)
    BY <2>7 DEF BeginSettle, NewRequest
  <2>8. CASE BeginClose(w, f)
    BY <2>8 DEF BeginClose, NewRequest
  <2> QED BY <2>1, <2>2, <2>3, <2>4, <2>5, <2>6, <2>7, <2>8
<1>3. req[w] = Idle /\ charge' = charge /\ folio' = folio /\ paid' = paid /\ req'[w] = q
  BY <1>1, <1>2 DEF Start, TypeOK
<1>4. \A f \in Folios : Balanced(f)
  BY <1>3 DEF Alone, BalanceInv
<1>5. \A c \in Rows : charge[c].tx # w
  BY <1>3, FolioAssumption DEF IInv, RowsInv, Owned
<1>6. ~ Unbooked(q)
  BY <1>2 DEF Unbooked
<1>7. \A f \in Folios : Balanced(f)'
  BY <1>3, <1>4, SameBooks
<1>8. \A c \in Rows' : charge'[c].tx # w
  BY <1>3, <1>5, SameBooks
<1>9. Balancing(w)'
  BY <1>2, <1>3, <1>7, <1>8 DEF Balancing
<1> QED BY <1>7, <1>9, SoleWorker

LEMMA PaymentBalances ==
    ASSUME IInv, NEW w \in Workers, Balancing(w), RecordPayment(w)
    PROVE  Balancing(w)' /\ req'[w] # Idle
<1>1. TypeOK
  BY DEF IInv
<1>2. /\ req[w].pc = "insert" /\ req[w].op = "pay" /\ charge' = charge /\ folio' = folio
      /\ Goto(w, "sum") /\ paid' = [paid EXCEPT ![req[w].f] = @ + 1]
  BY DEF RecordPayment
<1>3. Onward(w, "sum")
  BY <1>1, <1>2, GoesTo DEF Steps
<1>4. req'[w].pc = "sum" /\ req'[w].op = "pay" /\ req'[w].f = req[w].f
  BY <1>2, <1>3 DEF Onward
<1>5. ASSUME NEW f \in Folios, f # req[w].f PROVE Balanced(f)'
  <2>1. Balanced(f) /\ paid'[f] = paid[f]
    BY <1>1, <1>2, <1>5 DEF Balancing, TypeOK
  <2>2. CommittedOn(f)' = CommittedOn(f)
    BY <1>2 DEF CommittedOn, Committed, Rows
  <2> QED BY <1>2, <2>1, <2>2, BalancedKept
<1>6. \A c \in Rows' : charge'[c].tx # w
  BY <1>2, NoneOwned DEF Rows
<1>7. Unbooked(req'[w])
  BY <1>4 DEF Unbooked
<1>8. Balancing(w)'
  BY <1>4, <1>5, <1>6, <1>7 DEF Balancing
<1> QED BY <1>3, <1>8 DEF Onward

\* The commit of a recalculated balance.
LEMMA CommitBalances ==
    ASSUME IInv, NEW w \in Workers, Balancing(w), req[w] \in Request, req[w].pc = "write", paid' = paid,
           folio' = [folio EXCEPT ![req[w].f].balance = req[w].sum], CommitRows(w)
    PROVE  \A f \in Folios : Balanced(f)'
<1>1. TypeOK /\ req[w].f \in Folios
  BY DEF IInv, Request
<1>2. charge' = [c \in Charges |-> IF charge[c].tx = w THEN [charge[c] EXCEPT !.tx = None] ELSE charge[c]]
  BY DEF CommitRows
<1>3. ASSUME NEW c \in Charges
      PROVE  /\ c \in Rows' <=> c \in Rows
             /\ c \in Committed' <=> c \in VisibleTo(w)
             /\ c \in Rows => charge'[c].folio = charge[c].folio /\ charge'[c].reversal = charge[c].reversal
  <2>1. CASE charge[c].tx = w
    <3>1. charge[c].tx # "absent"
      BY <2>1, FolioAssumption
    <3>2. charge[c] \in Charge /\ c \in Rows
      BY <1>1, <3>1, RowFacts
    <3>3. charge'[c] = [charge[c] EXCEPT !.tx = None]
      BY <1>2, <2>1
    <3>4. charge'[c].tx = None /\ charge'[c].folio = charge[c].folio /\ charge'[c].reversal = charge[c].reversal
      BY <3>2, <3>3 DEF Charge
    <3>5. charge'[c] # NoCharge
      BY <3>4, FolioAssumption DEF NoCharge
    <3> QED BY <2>1, <3>2, <3>4, <3>5 DEF Rows, Committed, VisibleTo
  <2>2. CASE charge[c].tx # w
    BY <1>2, <2>2 DEF Rows, Committed, VisibleTo
  <2> QED BY <2>1, <2>2
<1>4. Committed' = VisibleTo(w)
  BY <1>3 DEF Committed, VisibleTo, Rows
<1>5. \A c \in VisibleTo(w) : charge'[c].folio = charge[c].folio /\ charge'[c].reversal = charge[c].reversal
  BY <1>3 DEF VisibleTo, Rows
<1>6. ASSUME NEW f \in Folios, f = req[w].f PROVE Balanced(f)'
  <2> DEFINE S == {c \in VisibleTo(w) : charge[c].folio = f}
             T == {c \in Committed' : charge'[c].folio = f}
  <2>1. T = S
    BY <1>4, <1>5
  <2>2. {c \in T : ~ charge'[c].reversal} = {c \in S : ~ charge[c].reversal}
    BY <1>5, <2>1
  <2>3. {c \in T : charge'[c].reversal} = {c \in S : charge[c].reversal}
    BY <1>5, <2>1
  <2>4. folio'[f].balance = Total(VisibleTo(w), f)
    BY <1>1, <1>6 DEF Balancing, TypeOK
  <2> QED BY <2>2, <2>3, <2>4 DEF Balanced, Total, Net
<1>7. ASSUME NEW f \in Folios, f # req[w].f PROVE Balanced(f)'
  <2>1. Balanced(f) /\ folio'[f].balance = folio[f].balance
    BY <1>1, <1>7 DEF Balancing, TypeOK
  <2>2. ASSUME NEW c \in Charges PROVE c \in CommittedOn(f)' <=> c \in CommittedOn(f)
    <3>1. c \in CommittedOn(f)' <=> c \in VisibleTo(w) /\ charge[c].folio = f
      BY <1>4, <1>5 DEF CommittedOn
    <3>2. c \in VisibleTo(w) /\ charge[c].folio = f => charge[c].tx # w
      BY <1>7 DEF Balancing, VisibleTo
    <3> QED BY <3>1, <3>2, FolioAssumption DEF CommittedOn, Committed, VisibleTo
  <2>3. \A c \in CommittedOn(f) : charge'[c].reversal = charge[c].reversal
    BY <1>3 DEF CommittedOn, Committed, Rows
  <2> QED BY <2>1, <2>2, <2>3, BalancedKept
<1> QED BY <1>6, <1>7

\* The transfer of charges recalculates both folios.
LEMMA MoveBalances ==
    ASSUME IInv, NEW w \in Workers, Balancing(w), Move(w)
    PROVE  \A f \in Folios : Balanced(f)'
<1>1. /\ req[w].pc = "move" /\ paid' = paid /\ Granted(w)
      /\ charge' = [c \in Charges |-> IF c \in req[w].on THEN [charge[c] EXCEPT !.folio = req[w].to]
                                                         ELSE charge[c]]
  BY DEF Move
<1>2. TypeOK /\ req[w] \in Request /\ Staged(w)
  BY <1>1, RequestRow DEF IInv, Serving, Granted, Steps
<1>3. PICK s, t \in Folios : s = req[w].f /\ t = req[w].to
  BY <1>2 DEF Request
<1>4. req[w].op \in {"transfer", "move"}
  BY <1>1, <1>2 DEF Staged
<1>5. s # t /\ \A c \in req[w].on : c \in CommittedOn(s)
  BY <1>1, <1>3, <1>4 DEF Balancing
<1>6. ~ Unbooked(req[w])
  BY <1>4 DEF Unbooked
<1>7. ASSUME NEW c \in Charges
      PROVE  /\ c \in Committed' <=> c \in Committed
             /\ c \in Committed => charge'[c].reversal = charge[c].reversal
             /\ c \in Committed => charge'[c].folio = IF c \in req[w].on THEN t ELSE charge[c].folio
  <2>1. CASE c \in req[w].on
    <3>1. c \in Rows /\ charge[c] \in Charge /\ charge[c].tx = None
      BY <1>2, <1>5, <2>1, RowFacts DEF CommittedOn, Committed
    <3>2. charge'[c] = [charge[c] EXCEPT !.folio = t]
      BY <1>1, <1>3, <2>1
    <3>3. charge'[c].tx = None /\ charge'[c].folio = t /\ charge'[c].reversal = charge[c].reversal
      BY <3>1, <3>2 DEF Charge
    <3>4. charge'[c] # NoCharge
      BY <3>3, FolioAssumption DEF NoCharge
    <3> QED BY <2>1, <3>1, <3>3, <3>4 DEF Committed, Rows
  <2>2. CASE c \notin req[w].on
    BY <1>1, <2>2 DEF Committed, Rows
  <2> QED BY <2>1, <2>2
<1>8. folio' = [folio EXCEPT ![s].balance = Net(CommittedOn(s) \ req[w].on) - paid[s],
                             ![t].balance = Net(CommittedOn(t) \cup req[w].on) - paid[t]]
  BY <1>3 DEF Move
<1>9. ASSUME NEW f \in Folios, NEW S \in SUBSET Committed, {c \in Committed' : charge'[c].folio = f} = S,
             folio'[f].balance = Net(S) - paid[f]
      PROVE  Balanced(f)'
  <2>1. \A c \in S : charge'[c].reversal = charge[c].reversal
    BY <1>7 DEF Committed, Rows
  <2>2. {c \in S : ~ charge'[c].reversal} = {c \in S : ~ charge[c].reversal}
    BY <2>1
  <2>3. {c \in S : charge'[c].reversal} = {c \in S : charge[c].reversal}
    BY <2>1
  <2> QED BY <1>1, <1>9, <2>2, <2>3 DEF Balanced, Total, Net
<1>10. Committed' = Committed /\ Committed \subseteq Charges
  BY <1>7 DEF Committed, Rows
<1>11. Balanced(s)'
  <2>1. folio'[s].balance = Net(CommittedOn(s) \ req[w].on) - paid[s]
    BY <1>2, <1>5, <1>8 DEF TypeOK
  <2>2. {c \in Committed' : charge'[c].folio = s} = CommittedOn(s) \ req[w].on
    BY <1>5, <1>7, <1>10 DEF CommittedOn
  <2>3. CommittedOn(s) \ req[w].on \in SUBSET Committed
    BY DEF CommittedOn
  <2> QED BY <1>9, <2>1, <2>2, <2>3
<1>12. Balanced(t)'
  <2>1. folio'[t].balance = Net(CommittedOn(t) \cup req[w].on) - paid[t]
    BY <1>2, <1>5, <1>8 DEF TypeOK
  <2>2. {c \in Committed' : charge'[c].folio = t} = CommittedOn(t) \cup req[w].on
    BY <1>5, <1>7, <1>10 DEF CommittedOn
  <2>3. CommittedOn(t) \cup req[w].on \in SUBSET Committed
    BY <1>5 DEF CommittedOn
  <2> QED BY <1>9, <2>1, <2>2, <2>3
<1>13. ASSUME NEW f \in Folios, f # s, f # t PROVE Balanced(f)'
  <2>1. Balanced(f) /\ folio'[f].balance = folio[f].balance
    BY <1>2, <1>6, <1>8, <1>13 DEF Balancing, TypeOK
  <2>2. \A c \in Charges : c \in CommittedOn(f)' <=> c \in CommittedOn(f)
    BY <1>5, <1>7, <1>10, <1>13 DEF CommittedOn
  <2>3. \A c \in CommittedOn(f) : charge'[c].reversal = charge[c].reversal
    BY <1>7, <1>10 DEF CommittedOn
  <2> QED BY <1>1, <2>1, <2>2, <2>3, BalancedKept
<1> QED BY <1>11, <1>12, <1>13

\* A request that gives up, unless it has committed what it has not summed.
LEMMA AbortBalances ==
    ASSUME IInv, "crash" \notin Ops, NEW w \in Workers, Balancing(w), Abort(w)
    PROVE  \A f \in Folios : Balanced(f)'
<1>1. /\ ~ Unbooked(req[w]) /\ folio' = folio /\ paid' = paid
      /\ charge' = [c \in Charges |-> IF charge[c].tx = w THEN NoCharge ELSE charge[c]]
  BY DEF Abort, Unbooked
<1> SUFFICES ASSUME NEW f \in Folios PROVE Balanced(f)'
  OBVIOUS
<1>2. Balanced(f)
  BY <1>1 DEF Balancing
<1>3. w # None
  BY FolioAssumption
<1>4. \A c \in Charges : c \in CommittedOn(f)' <=> c \in CommittedOn(f)
  BY <1>1, <1>3 DEF CommittedOn, Committed, Rows
<1>5. \A c \in CommittedOn(f) : charge'[c].reversal = charge[c].reversal
  BY <1>1, <1>3 DEF CommittedOn, Committed, Rows
<1> QED BY <1>1, <1>2, <1>4, <1>5, BalancedKept

LEMMA StatusBalances ==
    ASSUME IInv, NEW w \in Workers, Balancing(w), SetStatus(w)
    PROVE  \A f \in Folios : Balanced(f)'
<1>1. /\ req[w].pc = "status" /\ Granted(w) /\ charge' = charge /\ paid' = paid
      /\ \E s : folio' = [folio EXCEPT ![req[w].f].status = s]
  BY DEF SetStatus
<1>2. TypeOK /\ Staged(w)
  BY <1>1 DEF IInv, Serving, Granted
<1>3. ~ Unbooked(req[w])
  BY <1>1, <1>2 DEF Staged, Unbooked
<1> SUFFICES ASSUME NEW f \in Folios PROVE Balanced(f)'
  OBVIOUS
<1>4. Balanced(f) /\ folio'[f].balance = folio[f].balance
  BY <1>1, <1>2, <1>3 DEF Balancing, TypeOK
<1>5. CommittedOn(f)' = CommittedOn(f)
  BY <1>1 DEF CommittedOn, Committed, Rows
<1> QED BY <1>1, <1>4, <1>5, BalancedKept

\* The day close changes neither the amounts nor the folios of charges.
LEMMA LockRowsBalances ==
    ASSUME IInv, BalanceInv, NEW rows \in SUBSET Committed, LockRows(rows)
    PROVE  BalanceInv'
<1>1. TypeOK /\ folio' = folio /\ paid' = paid /\ req' = req
  BY DEF IInv, LockRows
<1>2. PICK S \in SUBSET rows :
         charge' = [c \in Charges |-> IF c \in S THEN [charge[c] EXCEPT !.locked = TRUE] ELSE charge[c]]
  BY DEF LockRows
<1>3. ASSUME NEW c \in Charges
      PROVE  /\ c \in Rows' <=> c \in Rows
             /\ c \in Rows => /\ charge'[c].tx = charge[c].tx /\ charge'[c].folio = charge[c].folio
                              /\ charge'[c].reversal = charge[c].reversal
  <2>1. CASE c \in S
    <3>1. c \in Rows /\ charge[c] \in Charge /\ charge[c].tx = None
      BY <1>1, <2>1, RowFacts DEF Committed
    <3>2. charge'[c] = [charge[c] EXCEPT !.locked = TRUE]
      BY <1>2, <2>1
    <3>3. /\ charge'[c].tx = charge[c].tx /\ charge'[c].folio = charge[c].folio
          /\ charge'[c].reversal = charge[c].reversal
      BY <3>1, <3>2 DEF Charge
    <3>4. charge'[c] # NoCharge
      BY <3>1, <3>3, FolioAssumption DEF NoCharge
    <3> QED BY <3>1, <3>3, <3>4 DEF Rows
  <2>2. CASE c \notin S
    BY <1>2, <2>2 DEF Rows
  <2> QED BY <2>1, <2>2
<1>4. Rows' = Rows /\ Rows \subseteq Charges
  BY <1>3 DEF Rows
<1>5. Committed' = Committed /\ \A f : CommittedOn(f)' = CommittedOn(f)
  BY <1>3, <1>4 DEF Committed, CommittedOn
<1>6. ASSUME NEW f \in Folios, Balanced(f) PROVE Balanced(f)'
  <2>1. \A c \in CommittedOn(f) : charge'[c].reversal = charge[c].reversal
    BY <1>3, <1>4 DEF CommittedOn, Committed
  <2> QED BY <1>1, <1>5, <1>6, <2>1, BalancedKept
<1>7. ASSUME NEW w \in Workers, req[w] # Idle PROVE Balancing(w)'
  <2>1. Balancing(w)
    BY <1>7 DEF BalanceInv
  <2>2. PICK f : f = req[w].f
    OBVIOUS
  <2>3. req[w].pc = "write" => req[w].sum = Total(VisibleTo(w), f)'
    <3>1. VisibleTo(w)' = VisibleTo(w)
      BY <1>3, <1>4 DEF VisibleTo
    <3> DEFINE V == {c \in VisibleTo(w) : charge[c].folio = f}
    <3>2. {c \in VisibleTo(w)' : charge'[c].folio = f} = V
      BY <1>3, <1>4, <3>1 DEF VisibleTo
    <3>3. \A c \in V : charge'[c].reversal = charge[c].reversal
      BY <1>3, <1>4 DEF VisibleTo
    <3>4. {c \in V : ~ charge'[c].reversal} = {c \in V : ~ charge[c].reversal}
      BY <3>3
    <3>5. {c \in V : charge'[c].reversal} = {c \in V : charge[c].reversal}
      BY <3>3
    <3>6. Total(VisibleTo(w), f)' = Total(VisibleTo(w), f)
      BY <1>1, <3>2, <3>4, <3>5 DEF Total, Net
    <3> QED BY <2>1, <2>2, <3>6 DEF Balancing
  <2>4. req[w].pc = "write" => req'[w].sum = Total(VisibleTo(w), req[w].f)'
    BY <1>1, <2>2, <2>3 DEF Total
  <2>5. \A c \in Rows' : charge'[c].tx = w => charge'[c].folio = f
    BY <1>3, <1>4, <2>1, <2>2 DEF Balancing
  <2>6. req[w].pc = "move" => \A c \in req[w].on : c \in CommittedOn(f)'
    BY <1>5, <2>1, <2>2 DEF Balancing
  <2>7. req[w].pc = "move" => \A c \in req[w].on : c \in CommittedOn(req[w].f)'
    BY <1>1, <2>2, <2>6 DEF CommittedOn
  <2>8. \A g \in Folios : g # f \/ ~ Unbooked(req[w]) => Balanced(g)'
    BY <1>6, <2>1, <2>2 DEF Balancing
  <2> QED BY <1>1, <2>1, <2>2, <2>4, <2>5, <2>7, <2>8 DEF Balancing
<1> QED BY <1>1, <1>6, <1>7 DEF BalanceInv

LEMMA ProceedBalances ==
    ASSUME IInv, Alone, BalanceInv, NEW w \in Workers, Proceed(w)
    PROVE  BalanceInv'
<1>1. TypeOK
  BY DEF IInv
<1>2. ASSUME req[w].pc \in Steps PROVE req[w] \in Request /\ req[w] # Idle /\ Balancing(w) /\ Staged(w)
  BY <1>1, <1>2, RequestRow DEF BalanceInv, IInv, Serving
<1>3. ASSUME NEW pc, Onward(w, pc), Balancing(w)' PROVE BalanceInv'
  BY <1>3, SoleWorker DEF Onward
<1>4. ASSUME \A f \in Folios : Balanced(f)', End(w) PROVE BalanceInv'
  BY <1>4, EndOfRequest, SoleWorker
<1>5. CASE InsertBase(w)
  <2>1. req[w].pc = "insert" /\ req[w].op = "post" /\ UNCHANGED <<folio, paid, lock>> /\ Balancing(w)
    BY <1>2, <1>5 DEF InsertBase, Steps
  <2>2. PICK c \in Charges \ Rows :
           /\ charge' = [charge EXCEPT ![c] = Posted(req[w].f, None, None, None)]
           /\ req' = [req EXCEPT ![w].pc = "tax", ![w].on = {c}]
    BY <1>5 DEF InsertBase
  <2>3. Onward(w, "tax")
    <3>1. {c} \in SUBSET Charges /\ "tax" \in Steps /\ req[w].pc \in Steps
      BY <2>1 DEF Steps
    <3> QED BY <1>1, <2>2, <3>1, GoesToWith
  <2>4. charge'[c].folio = req[w].f /\ \A d \in Charges \ {c} : charge'[d] = charge[d]
    BY <1>1, <2>2 DEF TypeOK, Posted
  <2>5. {c} \in SUBSET (Charges \ Rows)
    OBVIOUS
  <2>6. Balancing(w)'
    BY <2>1, <2>3, <2>4, <2>5, InsertsStep
  <2> QED BY <1>3, <2>3, <2>6
<1>6. CASE InsertTax(w)
  <2>1. /\ req[w].pc = "tax" /\ req[w].op = "post" /\ Goto(w, "sum") /\ UNCHANGED <<folio, paid, lock>>
        /\ Balancing(w)
    BY <1>2, <1>6 DEF InsertTax, Steps
  <2>2. Onward(w, "sum")
    BY <1>1, <2>1, GoesTo DEF Steps
  <2>3. CASE charge' = charge
    <3>1. Balancing(w)'
      BY <2>1, <2>2, <2>3, QuietStep
    <3> QED BY <1>3, <2>2, <3>1
  <2>4. CASE charge' # charge
    <3>1. PICK c \in Charges \ Rows, p \in req[w].on :
             charge' = [charge EXCEPT ![c] = Posted(req[w].f, p, None, None)]
      BY <1>6, <2>4 DEF InsertTax
    <3>2. charge'[c].folio = req[w].f /\ \A d \in Charges \ {c} : charge'[d] = charge[d]
      BY <1>1, <3>1 DEF TypeOK, Posted
    <3>3. {c} \in SUBSET (Charges \ Rows)
      OBVIOUS
    <3>4. Balancing(w)'
      BY <2>1, <2>2, <3>2, <3>3, InsertsStep
    <3> QED BY <1>3, <2>2, <3>4
  <2> QED BY <2>3, <2>4
<1>7. CASE InsertKeyed(w)
  <2>1. req[w].pc = "insert" /\ req[w].op = "postKeyed" /\ UNCHANGED <<folio, paid>> /\ Balancing(w)
    BY <1>2, <1>7 DEF InsertKeyed, Steps
  <2>2. CASE End(w) /\ UNCHANGED charge
    <3>1. ~ Unbooked(req[w])
      BY <2>1 DEF Unbooked
    <3>2. \A f \in Folios : Balanced(f)'
      BY <2>1, <2>2, <3>1, SameBooks DEF Balancing
    <3> QED BY <1>4, <2>2, <3>2
  <2>3. ASSUME NEW c \in Charges \ Rows, charge' = [charge EXCEPT ![c] = Posted(req[w].f, None, req[w].key, w)],
               req' = [req EXCEPT ![w].pc = "sum", ![w].on = {c}]
        PROVE  BalanceInv'
    <3>1. Onward(w, "sum")
      <4>1. {c} \in SUBSET Charges /\ "sum" \in Steps /\ req[w].pc \in Steps
        BY <2>1 DEF Steps
      <4> QED BY <1>1, <2>3, <4>1, GoesToWith
    <3>2. charge'[c].folio = req[w].f /\ charge'[c].tx = w /\ \A d \in Charges \ {c} : charge'[d] = charge[d]
      BY <1>1, <2>3 DEF TypeOK, Posted
    <3>3. {c} \in SUBSET (Charges \ Rows)
      OBVIOUS
    <3>4. Balancing(w)'
      BY <2>1, <3>1, <3>2, <3>3, InsertsStep
    <3> QED BY <1>3, <3>1, <3>4
  <2> QED BY <1>7, <2>2, <2>3 DEF InsertKeyed
<1>8. CASE InsertFrozenTax(w)
  <2>1. req[w].pc = "tax" /\ req[w].op = "postKeyed" /\ Goto(w, "sum") /\ UNCHANGED <<folio, paid>> /\ Balancing(w)
    BY <1>2, <1>8 DEF InsertFrozenTax, Steps
  <2>2. Onward(w, "sum")
    BY <1>1, <2>1, GoesTo DEF Steps
  <2>3. PICK c \in Charges \ Rows, p \in req[w].on :
           charge' = [charge EXCEPT ![c] = Posted(req[w].f, p, None, w)]
    BY <1>8 DEF InsertFrozenTax
  <2>4. charge'[c].folio = req[w].f /\ charge'[c].tx = w /\ \A d \in Charges \ {c} : charge'[d] = charge[d]
    BY <1>1, <2>3 DEF TypeOK, Posted
  <2>5. {c} \in SUBSET (Charges \ Rows)
    OBVIOUS
  <2>6. Balancing(w)'
    BY <2>1, <2>2, <2>4, <2>5, InsertsStep
  <2> QED BY <1>3, <2>2, <2>6
<1>9. CASE RecordPayment(w)
  <2>1. Balancing(w)
    BY <1>2, <1>9 DEF RecordPayment, Steps
  <2> QED BY <1>9, <2>1, PaymentBalances, SoleWorker
<1>10. CASE LockOriginal(w)
  <2>1. req[w].pc = "original" /\ Goto(w, "insert") /\ UNCHANGED <<charge, folio, paid>>
    BY <1>10 DEF LockOriginal
  <2>2. Balancing(w) /\ Staged(w) /\ Onward(w, "insert")
    BY <1>1, <1>2, <2>1, GoesTo DEF Steps
  <2>3. req[w].op \notin {"post", "pay"}
    BY <2>1, <2>2 DEF Staged
  <2>4. Balancing(w)'
    BY <2>1, <2>2, <2>3, QuietStep
  <2> QED BY <1>3, <2>2, <2>4
<1>11. CASE InsertReversal(w)
  <2>1. req[w].pc = "insert" /\ Goto(w, "children") /\ UNCHANGED <<folio, paid>>
    BY <1>11 DEF InsertReversal
  <2>2. Balancing(w) /\ Onward(w, "children")
    BY <1>1, <1>2, <2>1, GoesTo DEF Steps
  <2>3. PICK d \in Charges \ Rows, c \in req[w].on : charge' = [charge EXCEPT ![d] = Reversed(req[w].f, c, None, w)]
    BY <1>11 DEF InsertReversal
  <2>4. charge'[d].folio = req[w].f /\ charge'[d].tx = w /\ \A e \in Charges \ {d} : charge'[e] = charge[e]
    BY <1>1, <2>3 DEF TypeOK, Reversed
  <2>5. {d} \in SUBSET (Charges \ Rows)
    OBVIOUS
  <2>6. Balancing(w)'
    BY <2>1, <2>2, <2>4, <2>5, InsertsStep
  <2> QED BY <1>3, <2>2, <2>6
<1>12. CASE ReverseChildren(w)
  <2>1. req[w].pc = "children" /\ Goto(w, "sum") /\ UNCHANGED <<folio, paid>>
    BY <1>12 DEF ReverseChildren
  <2>2. Balancing(w) /\ Onward(w, "sum")
    BY <1>1, <1>2, <2>1, GoesTo DEF Steps
  <2> DEFINE base == CHOOSE r \in Rows : charge[r].tx = w
             todo == {d \in UNION {ChildrenOf(c) \cap Committed : c \in req[w].on} :
                         ReversalsOf(d) \cap VisibleTo(w) = {}}
  <2>3. PICK new \in SUBSET (Charges \ Rows) :
           \E of \in [new -> todo] :
             charge' = [c \in Charges |-> IF c \in new THEN Reversed(req[w].f, of[c], base, w) ELSE charge[c]]
    BY <1>12 DEF ReverseChildren
  <2>4. PICK of : charge' = [c \in Charges |-> IF c \in new THEN Reversed(req[w].f, of[c], base, w) ELSE charge[c]]
    BY <2>3
  <2>5. /\ \A c \in Charges \ new : charge'[c] = charge[c]
        /\ \A c \in new : charge'[c].folio = req[w].f /\ charge'[c].tx = w
    BY <2>4 DEF Reversed
  <2>6. Balancing(w)'
    BY <2>1, <2>2, <2>5, InsertsStep
  <2> QED BY <1>3, <2>2, <2>6
<1>13. CASE Sum(w)
  <2>1. /\ req[w].pc = "sum" /\ UNCHANGED <<charge, folio, paid, lock>>
        /\ req' = [req EXCEPT ![w].pc = "write", ![w].sum = Total(VisibleTo(w), req[w].f)]
    BY <1>13 DEF Sum
  <2>2. req[w] \in Request /\ Balancing(w)
    BY <1>2, <2>1 DEF Steps
  <2>3. Onward(w, "write") /\ req'[w].sum = Total(VisibleTo(w), req[w].f)
    <3> DEFINE t == Total(VisibleTo(w), req[w].f)
               new == [req[w] EXCEPT !.pc = "write", !.sum = t]
    <3>1. t \in Int
      <4>1. {c \in VisibleTo(w) : charge[c].folio = req[w].f} \in SUBSET Charges
        BY DEF VisibleTo, Rows
      <4>2. paid[req[w].f] \in Int
        BY <1>1, <2>2 DEF TypeOK, Request
      <4> QED BY <4>1, <4>2, NetTyped DEF Total
    <3> HIDE DEF t
    <3>2. new \in Request
      BY <2>2, <3>1 DEF Request, Steps
    <3>3. /\ new.pc = "write" /\ new.op = req[w].op /\ new.f = req[w].f /\ new.to = req[w].to /\ new.sum = t
      BY <2>2 DEF Request
    <3>4. req' = [req EXCEPT ![w] = new]
      BY <2>1 DEF t
    <3> HIDE DEF new
    <3>5. new # Idle
      BY <3>3 DEF Idle
    <3>6. ReqTyped' /\ req'[w] = new /\ \A v \in Workers \ {w} : req'[v] = req[v]
      BY <1>1, <3>2, <3>4 DEF TypeOK, ReqTyped
    <3> QED BY <3>2, <3>3, <3>5, <3>6 DEF Onward, t
  <2>4. Balancing(w)'
    BY <2>1, <2>2, <2>3, QuietStep
  <2> QED BY <1>3, <2>3, <2>4
<1>14. CASE Write(w)
  <2>1. req[w].pc = "write" /\ paid' = paid
    BY <1>14 DEF Write
  <2>2. req[w] \in Request /\ Balancing(w)
    BY <1>2, <2>1 DEF Steps
  <2>3. ASSUME Goto(w, "tax"), charge' = charge, folio' = folio PROVE BalanceInv'
    <3>1. Onward(w, "tax")
      BY <1>1, <2>1, <2>3, GoesTo DEF Steps
    <3>2. Balancing(w)'
      BY <2>1, <2>2, <2>3, <3>1, QuietStep
    <3> QED BY <1>3, <3>1, <3>2
  <2>4. ASSUME folio' = [folio EXCEPT ![req[w].f].balance = req[w].sum], CommitRows(w), End(w)
        PROVE  BalanceInv'
    BY <1>4, <2>1, <2>2, <2>4, CommitBalances
  <2> QED BY <1>14, <2>3, <2>4 DEF Write
<1>15. CASE LockFolio(w)
  <2>1. req[w].pc \in {"first", "second"} /\ UNCHANGED <<charge, folio, paid>>
    BY <1>15 DEF LockFolio
  <2>2. PICK pc \in {"second", "check"} : Goto(w, pc)
    BY <1>15 DEF LockFolio
  <2>3. Balancing(w) /\ Onward(w, pc)
    BY <1>1, <1>2, <2>1, <2>2, GoesTo DEF Steps
  <2>4. Balancing(w)'
    BY <2>1, <2>3, QuietStep
  <2> QED BY <1>3, <2>3, <2>4
<1>16. CASE CheckTransfer(w)
  <2>1. req[w].pc = "check" /\ UNCHANGED <<charge, folio, paid, lock>>
    BY <1>16 DEF CheckTransfer
  <2>2. PICK S : S \subseteq CommittedOn(req[w].f) /\ req' = [req EXCEPT ![w].pc = "move", ![w].on = S]
    BY <1>16 DEF CheckTransfer
  <2>3. S \in SUBSET Charges
    BY <2>2 DEF CommittedOn, Committed, Rows
  <2>4. Balancing(w) /\ Onward(w, "move") /\ req'[w].on = S
    BY <1>1, <1>2, <2>1, <2>2, <2>3, GoesToWith DEF Steps
  <2>5. Balancing(w)'
    BY <2>1, <2>2, <2>4, QuietStep
  <2> QED BY <1>3, <2>4, <2>5
<1>17. CASE Move(w)
  <2>1. Balancing(w) /\ End(w)
    BY <1>2, <1>17 DEF Move, Steps
  <2> QED BY <1>4, <1>17, <2>1, MoveBalances
<1>18. CASE SetStatus(w)
  <2>1. Balancing(w) /\ End(w)
    BY <1>2, <1>18 DEF SetStatus, Steps
  <2> QED BY <1>4, <1>18, <2>1, StatusBalances
<1> QED BY <1>5, <1>6, <1>7, <1>8, <1>9, <1>10, <1>11, <1>12, <1>13, <1>14, <1>15, <1>16, <1>17, <1>18 DEF Proceed

\* Requests one after the other, none dying between a commit and its sum: the
\* balance recalculateBalance has stored is what charges and payments add up to,
\* through posts, payments, reversals, transfers, moves, aborts and day closes.
THEOREM BalanceRight ==
    ASSUME Alone, "crash" \notin Ops
    PROVE  Spec => []BalanceAtRest
<1>1. Init => BalanceInv
  <2> SUFFICES ASSUME Init PROVE BalanceInv
    OBVIOUS
  <2>1. Rows = {} /\ Committed = {}
    BY DEF Init, Rows, Committed
  <2>2. ASSUME NEW f \in Folios PROVE Balanced(f)
    <3>1. Total(Committed, f) = Cardinality({}) - Cardinality({}) - 0
      <4>1. {c \in Committed : charge[c].folio = f} = {}
        BY <2>1
      <4>2. /\ {c \in {} : ~ charge[c].reversal} = {} /\ {c \in {} : charge[c].reversal} = {}
            /\ paid[f] = 0
        BY DEF Init
      <4> QED BY <4>1, <4>2 DEF Total, Net
    <3>2. folio[f].balance = 0
      BY DEF Init
    <3> QED BY <3>1, <3>2, FS_EmptySet DEF Balanced
  <2> QED BY <2>2 DEF BalanceInv, Init
<1>2. ASSUME IInv, BalanceInv, Next PROVE BalanceInv'
  <2>1. ASSUME NEW w \in Workers, Abort(w) PROVE BalanceInv'
    <3>1. Balancing(w) /\ End(w)
      BY <1>2, <2>1 DEF BalanceInv, Abort
    <3>2. \A f \in Folios : Balanced(f)'
      BY <1>2, <2>1, <3>1, AbortBalances
    <3> QED BY <1>2, <3>1, <3>2, EndOfRequest, SoleWorker
  <2>2. CASE LockChargesForDate
    BY <1>2, <2>2, LockRowsBalances DEF LockChargesForDate
  <2>3. ASSUME NEW f \in Folios, LockCharges(f) PROVE BalanceInv'
    <3>1. CommittedOn(f) \in SUBSET Committed /\ LockRows(CommittedOn(f))
      BY <2>3 DEF LockCharges, CommittedOn
    <3> QED BY <1>2, <3>1, LockRowsBalances
  <2> QED BY <1>2, <2>1, <2>2, <2>3, BeginBalances, ProceedBalances DEF Next
<1>3. ASSUME BalanceInv, UNCHANGED vars PROVE BalanceInv'
  <2>1. charge' = charge /\ folio' = folio /\ paid' = paid /\ req' = req
    BY <1>3 DEF vars
  <2> QED BY <1>3, <2>1 DEF BalanceInv, Balancing, Balanced, Total, Net, VisibleTo, CommittedOn, Committed, Rows
<1>4. BalanceInv => BalanceAtRest
  BY DEF BalanceInv, BalanceAtRest, Balanced
<1> QED BY <1>1, <1>2, <1>3, <1>4, Invariant, PTL DEF Spec

=============================================================================
