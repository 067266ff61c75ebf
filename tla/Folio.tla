------------------------------- MODULE Folio --------------------------------
(***************************************************************************)
(* The folio ledger: charge rows, captured payments and the stored balance *)
(* of each folio, under concurrent requests over PostgreSQL at READ        *)
(* COMMITTED.                                                              *)
(*                                                                         *)
(* postCharge and recordPayment run their statements one by one, without a *)
(* transaction; accepted-price posting, reversals, transfers and moves are *)
(* transactions.  A row a transaction has inserted carries its worker in   *)
(* tx until the commit and is visible to that worker only.  The rows that  *)
(* matter for locking are folios and charges, in three of PostgreSQL's     *)
(* modes: "share" is FOR KEY SHARE (the foreign keys of an INSERT),        *)
(* "write" is FOR NO KEY UPDATE (an UPDATE of plain columns), "update" is  *)
(* FOR UPDATE.  Every charge has the amount 1, its reversal -1.            *)
(***************************************************************************)
EXTENDS Integers, FiniteSets

CONSTANTS
    Workers,      \* concurrent requests
    Folios,       \* folio ids, numbers: transfers lock the smaller one first
    Charges,      \* charge ids
    Keys,         \* source keys of accepted-price postings
    Ops,          \* the operations in use (a subset of AllOps)
    MaxPaid,      \* bound of the model: payments recorded per folio
    MaxPosts,     \* bound of the model: charges posted without a source key
    None

AllOps == {"post", "postKeyed", "pay", "reverse", "transfer", "move", "settle", "close",
           "audit", "lockFolio", "crash"}

ASSUME FolioAssumption ==
    /\ Ops \subseteq AllOps
    /\ Folios \subseteq Nat
    /\ None \notin Workers \cup Charges \cup Keys \cup Folios
    /\ "absent" \notin Workers \cup {None}
    /\ MaxPaid \in Nat /\ MaxPosts \in Nat
    /\ IsFiniteSet(Charges)
    /\ Folios \cap Charges = {}

VARIABLES
    charge,     \* charge[c]: the charges row c, or NoCharge
    folio,      \* folio[f]: status and stored balance
    paid,       \* paid[f]: captured payments of the folio
    lock,       \* row locks held by transactions
    req         \* req[w]: the request worker w is serving

vars == <<charge, folio, paid, lock, req>>

-----------------------------------------------------------------------------
(* Rows, locks and requests *)

NoCharge == [tx |-> "absent"]
Charge == [folio : Folios, reversal : BOOLEAN, parent : Charges \cup {None},
           original : Charges \cup {None}, key : Keys \cup {None},
           locked : BOOLEAN, tx : Workers \cup {None}]

Modes == {"share", "write", "update"}
Lock == [by : Workers, row : Folios \cup Charges, mode : Modes]

\* on: the charges the request is about (the one it posted, reverses or moves).
Steps == {"insert", "tax", "sum", "write", "original", "children",
          "first", "second", "check", "move", "status"}
Request == [pc : Steps, op : AllOps, f : Folios, to : Folios,
            on : SUBSET Charges, key : Keys \cup {None}, sum : Int]
Idle == [pc |-> "idle"]

TypeOK ==
    /\ charge \in [Charges -> Charge \cup {NoCharge}]
    /\ folio \in [Folios -> [status : {"open", "settled", "closed"}, balance : Int]]
    /\ paid \in [Folios -> Nat]
    /\ lock \subseteq Lock
    /\ req \in [Workers -> Request \cup {Idle}]

Init ==
    /\ charge = [c \in Charges |-> NoCharge]
    /\ folio = [f \in Folios |-> [status |-> "open", balance |-> 0]]
    /\ paid = [f \in Folios |-> 0]
    /\ lock = {}
    /\ req = [w \in Workers |-> Idle]

Rows == {c \in Charges : charge[c] # NoCharge}
Committed == {c \in Rows : charge[c].tx = None}
CommittedOn(f) == {c \in Committed : charge[c].folio = f}
VisibleTo(w) == {c \in Rows : charge[c].tx \in {None, w}}

\* The rows that reverse c, and the components posted with c.
ReversalsOf(c) == {d \in Rows : charge[d].reversal /\ charge[d].original = c}
ChildrenOf(c) == {d \in Rows : ~ charge[d].reversal /\ charge[d].parent = c}

\* What the rows of a set add up to.
Net(S) == Cardinality({c \in S : ~ charge[c].reversal})
            - Cardinality({c \in S : charge[c].reversal})

\* recalculateBalance: charges minus payments of folio f.
Total(rows, f) == Net({c \in rows : charge[c].folio = f}) - paid[f]

\* c, or the charge it was posted with, is part of an accepted-price group.
InAcceptedGroup(c, f) ==
    \/ charge[c].key # None
    \/ \E p \in Rows : charge[c].parent = p /\ charge[p].folio = f /\ charge[p].key # None

-----------------------------------------------------------------------------
(* Locking *)

Compatible == {<<"share", "share">>, <<"share", "write">>, <<"write", "share">>}

Smaller(q) == IF q.f < q.to THEN q.f ELSE q.to
Larger(q) == IF q.f < q.to THEN q.to ELSE q.f

On(rows, mode) == {[row |-> r, mode |-> mode] : r \in rows}

\* The row locks the next statement of a request takes.
Needs(q) ==
    CASE q.pc = "insert"                -> On({q.f}, "share")
      [] q.pc = "tax"                   -> On({q.f} \cup q.on, "share")
      [] q.pc \in {"write", "status"}   -> On({q.f}, "write")
      [] q.pc \in {"original", "move"}  -> On(q.on, "update")
      [] q.pc = "children"              ->
            On(UNION {ChildrenOf(c) \cap Committed : c \in q.on}, "update")
      [] q.pc = "first"                 -> On({Smaller(q)}, "update")
      [] q.pc = "second"                -> On({Larger(q)}, "update")
      [] OTHER                          -> {}

WaitsFor(w) ==
    {l.by : l \in {l \in lock : \E n \in Needs(req[w]) :
                      l.by # w /\ l.row = n.row /\ <<l.mode, n.mode>> \notin Compatible}}

Granted(w) == req[w] # Idle /\ WaitsFor(w) = {}

Take(w) == lock' = lock \cup {[by |-> w, row |-> n.row, mode |-> n.mode] :
                                 n \in Needs(req[w])}
Release(w) == lock' = {l \in lock : l.by # w}

-----------------------------------------------------------------------------
(* The start of a request *)

Start(w, q) ==
    /\ req[w] = Idle
    /\ q.op \in Ops
    /\ req' = [req EXCEPT ![w] = q]
    /\ UNCHANGED <<charge, folio, paid, lock>>

NewRequest(op, pc, f) ==
    [pc |-> pc, op |-> op, f |-> f, to |-> f, on |-> {}, key |-> None, sum |-> 0]

PostsLeft ==
    Cardinality({c \in Committed : ~ charge[c].reversal /\ charge[c].parent = None
                                     /\ charge[c].key = None})
      + Cardinality({w \in Workers : req[w] # Idle /\ req[w].op = "post" /\ req[w].pc = "insert"})
      < MaxPosts

BeginPost(w, f) ==
    /\ folio[f].status = "open"
    /\ \/ PostsLeft /\ Start(w, NewRequest("post", "insert", f))
       \/ \E k \in Keys : Start(w, [NewRequest("postKeyed", "insert", f) EXCEPT !.key = k])

BeginPay(w, f) ==
    /\ folio[f].status = "open"
    /\ Start(w, NewRequest("pay", "insert", f))

BeginReverse(w, f) ==
    \E c \in CommittedOn(f) :
        Start(w, [NewRequest("reverse", "original", f) EXCEPT !.on = {c}])

\* transferCharge, and moveTransactions by charge id.
BeginTransfer(w, f) ==
    \E g \in Folios \ {f}, c \in CommittedOn(f) :
        Start(w, [NewRequest("transfer", "first", f) EXCEPT !.to = g, !.on = {c}])

\* moveTransactions by type: the rows are looked up once the folios are locked.
BeginMove(w, f) ==
    \E g \in Folios \ {f} :
        Start(w, [NewRequest("move", "first", f) EXCEPT !.to = g])

BeginSettle(w, f) ==
    /\ folio[f].status = "open"
    /\ folio[f].balance = 0
    /\ Start(w, NewRequest("settle", "status", f))

BeginClose(w, f) ==
    /\ folio[f].status = "settled"
    /\ Start(w, NewRequest("close", "status", f))

-----------------------------------------------------------------------------
(* The steps of a request *)

Goto(w, pc) == req' = [req EXCEPT ![w].pc = pc]
End(w) == req' = [req EXCEPT ![w] = Idle] /\ Release(w)

\* A refusal, an error, a lost connection or a crash: the rows of the
\* transaction disappear.  Without a transaction ("post", "pay") what has been
\* inserted stays, and only a failure can stop the request ("crash").
Abort(w) ==
    /\ req[w] # Idle
    /\ req[w].op \in {"post", "pay"} /\ req[w].pc # "insert" => "crash" \in Ops
    /\ charge' = [c \in Charges |-> IF charge[c].tx = w THEN NoCharge ELSE charge[c]]
    /\ End(w)
    /\ UNCHANGED <<folio, paid>>

\* COMMIT makes the rows of the transaction visible.
CommitRows(w) ==
    charge' = [c \in Charges |-> IF charge[c].tx = w THEN [charge[c] EXCEPT !.tx = None]
                                                     ELSE charge[c]]

\* Mutant: a new row is left without its is_locked.
PostedWithoutLockFlag(f, parent, key, tx) ==
    [folio |-> f, reversal |-> FALSE, parent |-> parent, original |-> None,
     key |-> key, tx |-> tx]

Posted(f, parent, key, tx) ==
    [folio |-> f, reversal |-> FALSE, parent |-> parent, original |-> None,
     key |-> key, locked |-> FALSE, tx |-> tx]

Reversed(f, c, parent, tx) ==
    [folio |-> f, reversal |-> TRUE, parent |-> parent, original |-> c,
     key |-> None, locked |-> FALSE, tx |-> tx]

\* postCharge from the INSERT of the base row on; each statement commits.
InsertBase(w) ==
    LET q == req[w] IN
    /\ q.pc = "insert" /\ q.op = "post" /\ Granted(w)
    /\ \E c \in Charges \ Rows :
         /\ charge' = [charge EXCEPT ![c] = Posted(q.f, None, None, None)]
         /\ req' = [req EXCEPT ![w].pc = "tax", ![w].on = {c}]
    /\ UNCHANGED <<folio, paid, lock>>

\* Live tax rules may yield no tax row.
InsertTax(w) ==
    LET q == req[w] IN
    /\ q.pc = "tax" /\ q.op = "post"
    /\ \/ /\ Granted(w)
          /\ \E c \in Charges \ Rows, p \in q.on :
               charge' = [charge EXCEPT ![c] = Posted(q.f, p, None, None)]
       \/ UNCHANGED charge
    /\ Goto(w, "sum")
    /\ UNCHANGED <<folio, paid, lock>>

\* postChargeFromSnapshotWithOutcome: ON CONFLICT DO NOTHING waits for an
\* uncommitted row with the key; a committed one makes the call a replay.
InsertKeyed(w) ==
    LET q == req[w]
        same == {c \in Rows : charge[c].folio = q.f /\ charge[c].key = q.key}
    IN /\ q.pc = "insert" /\ q.op = "postKeyed" /\ Granted(w)
       /\ same \subseteq Committed
       /\ \/ same # {} /\ End(w) /\ UNCHANGED charge
          \/ /\ same = {}
             /\ \E c \in Charges \ Rows :
                  /\ charge' = [charge EXCEPT ![c] = Posted(q.f, None, q.key, w)]
                  /\ req' = [req EXCEPT ![w].pc = "sum", ![w].on = {c}]
             /\ Take(w)
       /\ UNCHANGED <<folio, paid>>

\* The frozen tax of an accepted price is a second postCharge of the same
\* transaction, which looks at the folio's status again.
InsertFrozenTax(w) ==
    LET q == req[w] IN
    /\ q.pc = "tax" /\ q.op = "postKeyed" /\ Granted(w)
    /\ folio[q.f].status = "open"
    /\ \E c \in Charges \ Rows, p \in q.on :
         charge' = [charge EXCEPT ![c] = Posted(q.f, p, None, w)]
    /\ Goto(w, "sum")
    /\ Take(w)
    /\ UNCHANGED <<folio, paid>>

\* recordPayment: the payment row is committed by its INSERT.
RecordPayment(w) ==
    LET q == req[w] IN
    /\ q.pc = "insert" /\ q.op = "pay" /\ Granted(w)
    /\ paid[q.f] < MaxPaid
    /\ paid' = [paid EXCEPT ![q.f] = @ + 1]
    /\ Goto(w, "sum")
    /\ UNCHANGED <<charge, folio, lock>>

\* Mutant: the original is read without FOR UPDATE.
LockOriginalPlainRead(w) ==
    LET q == req[w] IN
    /\ q.pc = "original"
    /\ \A c \in q.on :
         /\ charge[c].folio = q.f
         /\ ~ charge[c].locked /\ ~ charge[c].reversal
         /\ charge[c].key = None => ~ InAcceptedGroup(c, q.f)
         /\ ReversalsOf(c) \cap VisibleTo(w) = {}
    /\ Goto(w, "insert")
    /\ UNCHANGED <<charge, folio, paid, lock>>

\* reverseCharge: the original row under FOR UPDATE, then its refusals.
LockOriginal(w) ==
    LET q == req[w] IN
    /\ q.pc = "original" /\ Granted(w)
    /\ \A c \in q.on :
         /\ charge[c].folio = q.f
         /\ ~ charge[c].locked /\ ~ charge[c].reversal
         /\ charge[c].key = None => ~ InAcceptedGroup(c, q.f)
         /\ ReversalsOf(c) \cap VisibleTo(w) = {}
    /\ Goto(w, "insert")
    /\ Take(w)
    /\ UNCHANGED <<charge, folio, paid>>

InsertReversal(w) ==
    LET q == req[w] IN
    /\ q.pc = "insert" /\ q.op = "reverse" /\ Granted(w)
    /\ \E d \in Charges \ Rows, c \in q.on :
         charge' = [charge EXCEPT ![d] = Reversed(q.f, c, None, w)]
    /\ Goto(w, "children")
    /\ Take(w)
    /\ UNCHANGED <<folio, paid>>

\* Mutant: components are left to be reversed one by one.
ReverseNoChildren(w) ==
    LET q == req[w] IN
    /\ q.pc = "children" /\ Granted(w)
    /\ Goto(w, "sum")
    /\ UNCHANGED <<charge, folio, paid, lock>>

\* Mutant: the components are read without FOR UPDATE.
ReverseChildrenPlainRead(w) ==
    LET q == req[w]
        todo == {d \in UNION {ChildrenOf(c) \cap Committed : c \in q.on} :
                    ReversalsOf(d) \cap VisibleTo(w) = {}}
        base == CHOOSE r \in Rows : charge[r].tx = w
    IN /\ q.pc = "children"
       /\ \E new \in SUBSET (Charges \ Rows) :
            /\ Cardinality(new) = Cardinality(todo)
            /\ \E of \in [new -> todo] :
                 /\ \A x, y \in new : of[x] = of[y] => x = y
                 /\ charge' = [c \in Charges |->
                                 IF c \in new THEN Reversed(q.f, of[c], base, w) ELSE charge[c]]
       /\ Goto(w, "sum")
       /\ UNCHANGED <<folio, paid, lock>>

\* Every component of the group that is not reversed yet, on whatever folio it
\* is and whether or not it is locked, gets a reversal on the folio of the base.
ReverseChildren(w) ==
    LET q == req[w]
        todo == {d \in UNION {ChildrenOf(c) \cap Committed : c \in q.on} :
                    ReversalsOf(d) \cap VisibleTo(w) = {}}
        base == CHOOSE r \in Rows : charge[r].tx = w
    IN /\ q.pc = "children" /\ Granted(w)
       /\ \E new \in SUBSET (Charges \ Rows) :
            /\ Cardinality(new) = Cardinality(todo)
            /\ \E of \in [new -> todo] :
                 /\ \A x, y \in new : of[x] = of[y] => x = y
                 /\ charge' = [c \in Charges |->
                                 IF c \in new THEN Reversed(q.f, of[c], base, w) ELSE charge[c]]
       /\ Goto(w, "sum")
       /\ Take(w)
       /\ UNCHANGED <<folio, paid>>

\* recalculateBalance: the sums ...
Sum(w) ==
    /\ req[w].pc = "sum"
    /\ req' = [req EXCEPT ![w].pc = "write", ![w].sum = Total(VisibleTo(w), req[w].f)]
    /\ UNCHANGED <<charge, folio, paid, lock>>

\* ... and the UPDATE of the folio, which ends the request or its transaction.
\* An accepted price recalculates once after the base row and once after the tax.
Write(w) ==
    LET q == req[w]
        more == q.op = "postKeyed" /\ \A c \in q.on : ChildrenOf(c) = {}
    IN /\ q.pc = "write" /\ Granted(w)
       /\ \/ more /\ Goto(w, "tax") /\ Take(w) /\ UNCHANGED <<charge, folio>>
          \/ /\ ~ more
             /\ folio' = [folio EXCEPT ![q.f].balance = q.sum]
             /\ CommitRows(w)
             /\ End(w)
       /\ UNCHANGED paid

\* transferCharge and moveTransactions: both folios FOR UPDATE, smaller id first.
LockFolio(w) ==
    /\ req[w].pc \in {"first", "second"} /\ Granted(w)
    /\ Goto(w, IF req[w].pc = "first" THEN "second" ELSE "check")
    /\ Take(w)
    /\ UNCHANGED <<charge, folio, paid>>

\* The charges are read without a lock; a move by type takes all of the type
\* (base rows or components).
CheckTransfer(w) ==
    LET q == req[w]
        here == CommittedOn(q.f)
        types == {{c \in here : charge[c].parent = None}, {c \in here : charge[c].parent # None}}
    IN /\ q.pc = "check"
       /\ folio[q.f].status = "open" /\ folio[q.to].status = "open"
       /\ \E S \in (IF q.op = "move" THEN types ELSE {q.on \cap here}) \ {{}} :
            /\ \A c \in S : ~ charge[c].locked /\ ~ InAcceptedGroup(c, q.f)
            /\ req' = [req EXCEPT ![w].pc = "move", ![w].on = S]
       /\ UNCHANGED <<charge, folio, paid, lock>>

\* Mutant: only the source folio is recalculated.
MoveForgetsTarget(w) ==
    LET q == req[w] IN
    /\ q.pc = "move" /\ Granted(w)
    /\ charge' = [c \in Charges |-> IF c \in q.on THEN [charge[c] EXCEPT !.folio = q.to]
                                                  ELSE charge[c]]
    /\ folio' = [folio EXCEPT ![q.f].balance = Net(CommittedOn(q.f) \ q.on) - paid[q.f]]
    /\ End(w)
    /\ UNCHANGED paid

\* The UPDATE by id, both recalculations and the commit.  Nothing else can
\* reach the two folios in between.
Move(w) ==
    LET q == req[w] IN
    /\ q.pc = "move" /\ Granted(w)
    /\ charge' = [c \in Charges |-> IF c \in q.on THEN [charge[c] EXCEPT !.folio = q.to]
                                                  ELSE charge[c]]
    /\ folio' = [folio EXCEPT ![q.f].balance = Net(CommittedOn(q.f) \ q.on) - paid[q.f],
                              ![q.to].balance = Net(CommittedOn(q.to) \cup q.on) - paid[q.to]]
    /\ End(w)
    /\ UNCHANGED paid

\* settle and close write the status they decided on earlier.
SetStatus(w) ==
    LET q == req[w] IN
    /\ q.pc = "status" /\ Granted(w)
    /\ folio' = [folio EXCEPT ![q.f].status = IF q.op = "settle" THEN "settled" ELSE "closed"]
    /\ End(w)
    /\ UNCHANGED <<charge, paid>>

-----------------------------------------------------------------------------
(* Day close: one UPDATE locks the unlocked rows up to a service date *)

\* Components and reversals have the service date of the row they belong to;
\* rows committed after the statement began are not in its snapshot.
SameDate(c) == {charge[c].parent, charge[c].original} \ {None}

LockRows(rows) ==
    /\ \E S \in SUBSET {c \in rows : ~ charge[c].locked} \ {{}} :
         /\ \A c \in S : \A d \in SameDate(c) \cap rows : d \in S \/ charge[d].locked
         /\ \A l \in lock : l.row \in S => l.mode = "share"
         /\ charge' = [c \in Charges |-> IF c \in S THEN [charge[c] EXCEPT !.locked = TRUE]
                                                    ELSE charge[c]]
    /\ UNCHANGED <<folio, paid, lock, req>>

\* NightAuditService.lockChargesForDate: the whole property.
LockChargesForDate == "audit" \in Ops /\ LockRows(Committed)

\* FolioService.lockCharges: one folio.
LockCharges(f) ==
    "lockFolio" \in Ops /\ LockRows(CommittedOn(f))

Begin(w) ==
    \E f \in Folios :
        \/ BeginPost(w, f)
        \/ BeginPay(w, f)
        \/ BeginReverse(w, f)
        \/ BeginTransfer(w, f)
        \/ BeginMove(w, f)
        \/ BeginSettle(w, f)
        \/ BeginClose(w, f)

Proceed(w) ==
    \/ InsertBase(w)
    \/ InsertTax(w)
    \/ InsertKeyed(w)
    \/ InsertFrozenTax(w)
    \/ RecordPayment(w)
    \/ LockOriginal(w)
    \/ InsertReversal(w)
    \/ ReverseChildren(w)
    \/ Sum(w)
    \/ Write(w)
    \/ LockFolio(w)
    \/ CheckTransfer(w)
    \/ Move(w)
    \/ SetStatus(w)

Next ==
    \/ \E w \in Workers : Begin(w) \/ Proceed(w) \/ Abort(w)
    \/ LockChargesForDate
    \/ \E f \in Folios : LockCharges(f)

Spec == Init /\ [][Next]_vars

-----------------------------------------------------------------------------
(* Properties *)

\* No charge is reversed twice: not by two reversals of it, and not by a
\* reversal of a component racing the reversal of its whole group.  The row
\* lock of reverseCharge makes its look-up of an existing reversal reliable.
ReversedOnce == \A c \in Charges : Cardinality(ReversalsOf(c)) <= 1

\* A charge the day close has locked is not reversed any more, although a
\* reversal checks the lock of the base row only and cascades to components.
LockedNotReversed ==
    [][\A c \in Rows :
         charge[c].locked /\ ReversalsOf(c) = {} => ReversalsOf(c)' = {}]_vars

\* An accepted base/tax pair is posted, kept on one folio and reversed as a
\* whole, whatever fails or moves in between.
AcceptedGroupWhole ==
    \A c \in Committed : charge[c].key # None =>
        \E d \in Committed :
            /\ charge[d].parent = c /\ charge[d].folio = charge[c].folio
            /\ (ReversalsOf(c) \cap Committed = {}) <=> (ReversalsOf(d) \cap Committed = {})

\* When nothing is in flight, the stored balance of every folio is what its
\* charges and payments add up to.
BalanceAtRest ==
    (\A w \in Workers : req[w] = Idle)
      => \A f \in Folios : folio[f].balance = Total(Committed, f)
=============================================================================
