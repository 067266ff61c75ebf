------------------- MODULE BookingRequestAllocationProofs -------------------
(***************************************************************************)
(* The allocation of a booking request's payments to its installments, for *)
(* every amount and every set of payments, claims, installments and        *)
(* workers: what is allocated of a payment is covered by what is left of   *)
(* it, every installment shows its own allocations, and a return releases  *)
(* the newest allocations first.                                           *)
(*                                                                         *)
(* The rows of a payment are kept from the oldest on, each up to what the  *)
(* older ones leave.  So a unit of money kept in a row has a rank: the     *)
(* units in older rows, plus its place in its own.  Ranks differ and none  *)
(* exceeds the net amount, which therefore bounds the number of units.     *)
(* This needs the rows of a payment to be in a total order, which is what  *)
(* the inductive invariant adds (Ordered).  The facts about payments and   *)
(* claims come from the invariant of BookingRequestPaymentProofs.          *)
(***************************************************************************)
EXTENDS BookingRequestPaymentProofs, WellFoundedInduction

USE DEF Summable

-----------------------------------------------------------------------------
(* The inductive invariant *)

RowsTyped == allocs \in [Rows -> Allocation] /\ inst \in [Installments -> Installment]

\* The rows of one payment are in the order they were created.
Ordered ==
    /\ \A x \in Rows :
         /\ allocs[x].amount = 0 => allocs[x] = NoAllocation
         /\ \A y \in allocs[x].older :
              /\ y \in Rows /\ y # x /\ y[1] = x[1]
              /\ allocs[y].amount > 0
              /\ allocs[y].older \subseteq allocs[x].older
    /\ \A x, y \in Rows :
         x # y /\ x[1] = y[1] /\ allocs[x].amount > 0 /\ allocs[y].amount > 0 =>
           x \in allocs[y].older \/ y \in allocs[x].older

AInv == RowsTyped /\ Ordered /\ AllocationsBacked

-----------------------------------------------------------------------------
(* What is kept of the rows of a payment *)

LEMMA RowFields ==
    ASSUME RowsTyped, NEW x \in Rows
    PROVE  /\ allocs[x].amount \in 0..Amount /\ allocs[x].amount \in Nat
           /\ allocs[x].older \in SUBSET Rows /\ allocs[x].older \in Summable
           /\ Total(allocs, allocs[x].older) \in Nat
<1>1. allocs[x] \in Allocation
  BY DEF RowsTyped
<1>2. allocs[x].amount \in 0..Amount /\ allocs[x].older \in SUBSET Rows
  BY <1>1 DEF Allocation
<1>3. Total(allocs, allocs[x].older) \in Nat
  BY <1>2, FiniteSum
<1> QED BY <1>2, <1>3, PaymentAssumption

\* An older row and all before it come before the row.
LEMMA Precedes ==
    ASSUME RowsTyped, Ordered, NEW x \in Rows, NEW y \in allocs[x].older
    PROVE  Total(allocs, allocs[y].older) + allocs[y].amount <= Total(allocs, allocs[x].older)
<1>1. y \in Rows /\ allocs[y].older \subseteq allocs[x].older /\ y \notin allocs[y].older
  BY DEF Ordered
<1>2. allocs[y].older \cup {y} \subseteq allocs[x].older /\ allocs[x].older \in SUBSET Rows
  BY <1>1, RowFields
<1>3. Total(allocs, allocs[y].older \cup {y}) = Total(allocs, allocs[y].older) + allocs[y].amount
  <2>1. allocs[y].older \cup {y} \in Summable
    BY <1>2
  <2> QED BY <1>1, <2>1, RowFields, SumWithOne
<1>4. Total(allocs, allocs[y].older \cup {y}) <= Total(allocs, allocs[x].older)
  BY <1>2, SumOfMore
<1> QED BY <1>3, <1>4

LEMMA KeptOfRow ==
    ASSUME RowsTyped, NEW x \in Rows, NEW net \in Nat
    PROVE  /\ Kept(x, net) \in 0..Amount /\ Kept(x, net) \in Nat
           /\ Kept(x, net) <= allocs[x].amount
           /\ Kept(x, net) > 0 => Total(allocs, allocs[x].older) + Kept(x, net) <= net
           /\ Kept(x, net) < allocs[x].amount =>
                Kept(x, net) = Clip(net - Total(allocs, allocs[x].older))
BY RowFields, PaymentAssumption DEF Kept, Clip

\* What is older than a row that remains is kept in full.
LEMMA OlderKept ==
    ASSUME RowsTyped, Ordered, NEW x \in Rows, NEW y \in allocs[x].older, NEW net \in Nat,
           Kept(x, net) > 0
    PROVE  Kept(y, net) = allocs[y].amount
<1>1. y \in Rows
  BY DEF Ordered
<1>2. Total(allocs, allocs[x].older) + Kept(x, net) <= net
  BY KeptOfRow
<1>3. Total(allocs, allocs[y].older) + allocs[y].amount <= Total(allocs, allocs[x].older)
  BY Precedes
<1>4. /\ Total(allocs, allocs[x].older) \in Nat /\ Total(allocs, allocs[y].older) \in Nat
      /\ allocs[y].amount \in Nat /\ Kept(x, net) \in Nat
  BY <1>1, RowFields, KeptOfRow
<1>5. allocs[y].amount <= net - Total(allocs, allocs[y].older)
  BY <1>2, <1>3, <1>4
<1> QED BY <1>4, <1>5 DEF Kept, Clip

\* The new table and the old one, as ReconcileAllocations relates them.
Reconciled(p, net) ==
    /\ allocs' \in [Rows -> Allocation]
    /\ \A x \in Rows :
         /\ allocs'[x].amount = IF x[1] = p THEN Kept(x, net) ELSE allocs[x].amount
         /\ allocs'[x].amount = 0 => allocs'[x] = NoAllocation
         /\ allocs'[x].amount > 0 => allocs'[x].older = allocs[x].older

LEMMA ReconcileRows ==
    ASSUME RowsTyped, NEW p \in Payments, NEW net \in Nat, net = NetCaptured(claim', p),
           ReconcileAllocations(p)
    PROVE  Reconciled(p, net)
<1> DEFINE kept(x) == IF x[1] = p THEN Kept(x, net) ELSE allocs[x].amount
<1>1. allocs' = [x \in Rows |->
             IF kept(x) = 0 THEN NoAllocation ELSE [allocs[x] EXCEPT !.amount = kept(x)]]
  BY DEF ReconcileAllocations
<1>2. SUFFICES ASSUME NEW x \in Rows
               PROVE  /\ allocs'[x] \in Allocation
                      /\ allocs'[x].amount = kept(x)
                      /\ allocs'[x].amount = 0 => allocs'[x] = NoAllocation
                      /\ allocs'[x].amount > 0 => allocs'[x].older = allocs[x].older
  BY <1>1 DEF Reconciled
<1>3. kept(x) \in 0..Amount
  BY KeptOfRow, RowFields
<1>4. allocs[x] \in Allocation /\ 0 \in 0..Amount
  BY PaymentAssumption DEF RowsTyped
<1>5. allocs'[x] = IF kept(x) = 0 THEN NoAllocation ELSE [allocs[x] EXCEPT !.amount = kept(x)]
  BY <1>1
<1> HIDE DEF kept
<1>6. CASE kept(x) = 0
  BY <1>4, <1>5, <1>6 DEF NoAllocation, Allocation
<1>7. CASE kept(x) # 0
  BY <1>3, <1>4, <1>5, <1>7 DEF NoAllocation, Allocation
<1> QED BY <1>6, <1>7

LEMMA ReconciledOrdered ==
    ASSUME RowsTyped, Ordered, NEW p \in Payments, NEW net \in Nat, Reconciled(p, net)
    PROVE  Ordered'
<1>1. ASSUME NEW x \in Rows, allocs'[x].amount > 0
      PROVE  allocs'[x].older = allocs[x].older /\ allocs[x].amount > 0
  BY <1>1, KeptOfRow, RowFields DEF Reconciled
<1>2. ASSUME NEW x \in Rows, allocs'[x].amount > 0, NEW y \in allocs[x].older
      PROVE  allocs'[y].amount = allocs[y].amount /\ y \in Rows /\ allocs[y].amount > 0
  <2>1. y \in Rows /\ y[1] = x[1] /\ allocs[y].amount > 0
    BY DEF Ordered
  <2>2. CASE x[1] = p
    <3>1. Kept(x, net) > 0
      BY <1>2, <2>2 DEF Reconciled
    <3>2. Kept(y, net) = allocs[y].amount
      BY <1>2, <3>1, OlderKept
    <3> QED BY <2>1, <2>2, <3>2 DEF Reconciled
  <2> QED BY <2>1, <2>2 DEF Reconciled
<1>3. ASSUME NEW x \in Rows
      PROVE  /\ allocs'[x].amount = 0 => allocs'[x] = NoAllocation
             /\ \A y \in allocs'[x].older :
                  /\ y \in Rows /\ y # x /\ y[1] = x[1]
                  /\ allocs'[y].amount > 0
                  /\ allocs'[y].older \subseteq allocs'[x].older
  <2>1. allocs'[x].amount \in Nat
    BY PaymentAssumption DEF Reconciled, Allocation
  <2>2. CASE allocs'[x].amount = 0
    BY <2>2 DEF Reconciled, NoAllocation
  <2>3. CASE allocs'[x].amount > 0
    <3>1. allocs'[x].older = allocs[x].older
      BY <1>1, <2>3
    <3>2. SUFFICES ASSUME NEW y \in allocs[x].older
                   PROVE  /\ y \in Rows /\ y # x /\ y[1] = x[1]
                          /\ allocs'[y].amount > 0
                          /\ allocs'[y].older \subseteq allocs[x].older
      BY <2>3, <3>1
    <3>3. y \in Rows /\ y # x /\ y[1] = x[1] /\ allocs[y].older \subseteq allocs[x].older
      BY DEF Ordered
    <3>4. allocs'[y].amount > 0
      BY <1>2, <2>3
    <3> QED BY <1>1, <3>3, <3>4
  <2> QED BY <2>1, <2>2, <2>3
<1>4. ASSUME NEW x \in Rows, NEW y \in Rows, x # y, x[1] = y[1],
             allocs'[x].amount > 0, allocs'[y].amount > 0
      PROVE  x \in allocs'[y].older \/ y \in allocs'[x].older
  <2>1. allocs[x].amount > 0 /\ allocs[y].amount > 0
    BY <1>1, <1>4
  <2>2. x \in allocs[y].older \/ y \in allocs[x].older
    BY <1>4, <2>1 DEF Ordered
  <2> QED BY <1>1, <1>4, <2>2
<1> QED BY <1>3, <1>4 DEF Ordered

\* The units kept of a payment, each with its rank.
LEMMA Ranked ==
    ASSUME RowsTyped, Ordered, NEW p \in Payments, NEW net \in Nat, Reconciled(p, net)
    PROVE  Total(allocs', AllocatedOf(p)) <= net
<1> DEFINE U == Units(allocs', AllocatedOf(p))
           rank(u) == Total(allocs, allocs[u[1]].older) + u[2]
           f == [u \in U |-> rank(u)]
<1>1. AllocatedOf(p) \in Summable /\ AllocatedOf(p) \subseteq Rows
  BY DEF AllocatedOf, Rows
<1>2. ASSUME NEW u \in U
      PROVE  /\ u[1] \in Rows /\ u[1][1] = p
             /\ u[2] \in Nat /\ u[2] >= 1 /\ u[2] <= Kept(u[1], net)
             /\ u = <<u[1], u[2]>>
  <2>1. u \in AllocatedOf(p) \X (1..Amount) /\ u[2] <= allocs'[u[1]].amount
    BY DEF Units
  <2>2. u[1] \in AllocatedOf(p) /\ u[2] \in 1..Amount /\ u = <<u[1], u[2]>>
    BY <2>1
  <2>3. u[1] \in Rows /\ u[1][1] = p
    BY <1>1, <2>2 DEF AllocatedOf
  <2>4. u[2] <= Kept(u[1], net)
    BY <2>1, <2>3 DEF Reconciled
  <2> QED BY <2>2, <2>3, <2>4, PaymentAssumption
<1> HIDE DEF U
<1>3. ASSUME NEW u \in U
      PROVE  /\ rank(u) \in 1..net
             /\ rank(u) <= Total(allocs, allocs[u[1]].older) + allocs[u[1]].amount
             /\ rank(u) > Total(allocs, allocs[u[1]].older)
             /\ allocs[u[1]].amount > 0
             /\ Total(allocs, allocs[u[1]].older) \in Nat
  <2> DEFINE x == u[1]
             k == u[2]
  <2>1. x \in Rows /\ k \in Nat /\ k >= 1 /\ k <= Kept(x, net)
    BY <1>2
  <2> HIDE DEF x, k
  <2>2. /\ Kept(x, net) \in Nat /\ Kept(x, net) <= allocs[x].amount
        /\ Kept(x, net) > 0 => Total(allocs, allocs[x].older) + Kept(x, net) <= net
    BY <2>1, KeptOfRow
  <2>3. Total(allocs, allocs[x].older) \in Nat /\ allocs[x].amount \in Nat
    BY <2>1, RowFields
  <2>4. /\ Total(allocs, allocs[x].older) + k \in 1..net
        /\ Total(allocs, allocs[x].older) + k <= Total(allocs, allocs[x].older) + allocs[x].amount
        /\ Total(allocs, allocs[x].older) + k > Total(allocs, allocs[x].older)
        /\ allocs[x].amount > 0
    BY <2>1, <2>2, <2>3
  <2> QED BY <2>3, <2>4 DEF x, k
<1>4. ASSUME NEW u \in U, NEW v \in U, u[1] \in allocs[v[1]].older
      PROVE  rank(u) < rank(v)
  <2>1. Total(allocs, allocs[u[1]].older) + allocs[u[1]].amount <= Total(allocs, allocs[v[1]].older)
    BY <1>2, <1>4, Precedes
  <2>2. rank(u) \in Int /\ rank(v) \in Int
    BY <1>3
  <2>3. /\ rank(u) <= Total(allocs, allocs[u[1]].older) + allocs[u[1]].amount
        /\ rank(v) > Total(allocs, allocs[v[1]].older)
    BY <1>3
  <2>4. /\ Total(allocs, allocs[u[1]].older) \in Nat /\ Total(allocs, allocs[v[1]].older) \in Nat
        /\ allocs[u[1]].amount \in Nat
    BY <1>2, RowFields
  <2> HIDE DEF rank
  <2> QED BY <2>1, <2>2, <2>3, <2>4
<1>5. ASSUME NEW u \in U, NEW v \in U, rank(u) = rank(v)
      PROVE  u = v
  <2>1. CASE u[1] = v[1]
    <3>1. u[2] = v[2]
      BY <1>2, <1>5, <2>1, RowFields
    <3> QED BY <1>2, <2>1, <3>1
  <2>2. CASE u[1] # v[1]
    <3>1. u[1] \in allocs[v[1]].older \/ v[1] \in allocs[u[1]].older
      BY <1>2, <1>3, <2>2 DEF Ordered
    <3>2. rank(u) \in Int /\ rank(v) \in Int
      BY <1>3
    <3>3. rank(u) < rank(v) \/ rank(v) < rank(u)
      BY <1>4, <3>1
    <3> HIDE DEF rank
    <3> QED BY <1>5, <3>2, <3>3
  <2> QED BY <2>1, <2>2
<1>6. f \in Injection(U, 1..net)
  BY <1>3, <1>5 DEF Injection, IsInjective
<1>7. Cardinality(U) <= net
  <2>1. IsFiniteSet(1..net) /\ Cardinality(1..net) = net
    BY UpTo
  <2> HIDE DEF f
  <2>2. Cardinality(U) <= Cardinality(1..net)
    BY <1>6, <2>1, FS_Injection
  <2> QED BY <2>1, <2>2
<1>8. Total(allocs', AllocatedOf(p)) = Cardinality(U)
  BY <1>1, FiniteSum DEF U
<1> QED BY <1>7, <1>8

\* Rows that lose money, and rows that do not.
LEMMA SumOfLess ==
    ASSUME NEW as, NEW bs, NEW S \in Summable,
           \A x \in S : bs[x].amount \in Nat /\ as[x].amount \in Nat /\ bs[x].amount <= as[x].amount
    PROVE  Total(bs, S) <= Total(as, S)
<1>1. Units(bs, S) \subseteq Units(as, S)
  <2>1. SUFFICES ASSUME NEW u \in Units(bs, S) PROVE u \in Units(as, S)
    OBVIOUS
  <2>2. u \in S \X (1..Amount) /\ u[2] <= bs[u[1]].amount
    BY DEF Units
  <2>3. u[1] \in S /\ u[2] \in Int
    BY <2>2
  <2>4. /\ bs[u[1]].amount \in Nat /\ as[u[1]].amount \in Nat
        /\ bs[u[1]].amount <= as[u[1]].amount
    BY <2>3
  <2>5. ASSUME NEW k \in Int, NEW m \in Nat, NEW n \in Nat, k <= m, m <= n
        PROVE  k <= n
    BY <2>5
  <2>6. u[2] <= as[u[1]].amount
    BY <2>2, <2>3, <2>4, <2>5, Zenon
  <2> QED BY <2>2, <2>6 DEF Units
<1>2. /\ IsFiniteSet(Units(as, S)) /\ Total(as, S) = Cardinality(Units(as, S))
      /\ Total(bs, S) = Cardinality(Units(bs, S))
  BY FiniteSum
<1>3. Cardinality(Units(bs, S)) <= Cardinality(Units(as, S))
  BY <1>1, <1>2, FS_Subset
<1> QED BY <1>2, <1>3

-----------------------------------------------------------------------------
(* Installments *)

\* Installment i shows its own allocations.
InstallmentRight(i) ==
    /\ inst[i].allocated = Total(allocs, AllocatedTo(i))
    /\ inst[i].allocated <= inst[i].resolved
    /\ inst[i].status = StatusOf(inst[i].allocated, inst[i].resolved)

\* What is left of payment p covers its allocations.
Backing(p) == IF pay[p].status = "captured" THEN NetCaptured(claim, p) ELSE 0
Backed(p) == Total(allocs, AllocatedOf(p)) <= Backing(p)

LEMMA BackedParts ==
    /\ AllocationsBacked <=> (\A p \in Payments : Backed(p)) /\ (\A i \in Installments : InstallmentRight(i))
    /\ AllocationsBacked' <=> (\A p \in Payments : Backed(p)') /\ (\A i \in Installments : InstallmentRight(i)')
BY DEF AllocationsBacked, Backed, Backing, InstallmentRight

LEMMA SummableRows ==
    /\ \A p \in Payments : AllocatedOf(p) \in Summable /\ AllocatedOf(p) \subseteq Rows
    /\ \A i \in Installments : AllocatedTo(i) \in Summable /\ AllocatedTo(i) \subseteq Rows
BY DEF AllocatedOf, AllocatedTo, Rows

LEMMA StatusType ==
    ASSUME NEW n, NEW m
    PROVE  StatusOf(n, m) \in {"unpaid", "partial", "paid"}
BY DEF StatusOf

LEMMA ReconcileInstallments ==
    ASSUME RowsTyped, \A i \in Installments : InstallmentRight(i), NEW p \in Payments, NEW net \in Nat,
           net = NetCaptured(claim', p), Reconciled(p, net), ReconcileAllocations(p)
    PROVE  /\ inst' \in [Installments -> Installment]
           /\ \A i \in Installments : InstallmentRight(i)'
<1> DEFINE kept == [x \in Rows |-> IF x[1] = p THEN Kept(x, NetCaptured(claim', p)) ELSE allocs[x].amount]
           affected == {x[2] : x \in {y \in Rows : kept[y] # allocs[y].amount}}
           total(i) == Total(allocs', AllocatedTo(i))
           changed(i) == [inst[i] EXCEPT !.allocated = total(i), !.status = StatusOf(total(i), inst[i].resolved)]
<1>1. inst' = [i \in Installments |-> IF i \notin affected THEN inst[i] ELSE changed(i)]
  BY DEF ReconcileAllocations
<1>2. \A x \in Rows : kept[x] = allocs'[x].amount
  BY DEF Reconciled
<1>3. ASSUME NEW i \in Installments, i \notin affected
      PROVE  total(i) = Total(allocs, AllocatedTo(i))
  <2>1. \A x \in AllocatedTo(i) : x \in Rows /\ x[2] = i
    BY DEF AllocatedTo, Rows
  <2>2. \A x \in AllocatedTo(i) : allocs'[x].amount = allocs[x].amount
    BY <1>2, <1>3, <2>1
  <2> QED BY <2>2, SummableRows, SameSum
<1>4. ASSUME NEW i \in Installments
      PROVE  total(i) <= Total(allocs, AllocatedTo(i)) /\ total(i) \in Nat /\ Total(allocs, AllocatedTo(i)) \in Nat
  <2>1. ASSUME NEW x \in Rows
        PROVE  allocs'[x].amount \in Nat /\ allocs[x].amount \in Nat /\ allocs'[x].amount <= allocs[x].amount
    BY KeptOfRow, RowFields DEF Reconciled
  <2>2. total(i) <= Total(allocs, AllocatedTo(i))
    BY <2>1, SummableRows, SumOfLess
  <2> QED BY <2>2, SummableRows, FiniteSum
<1> HIDE DEF kept, affected, total
<1>5. ASSUME NEW i \in Installments
      PROVE  inst'[i] \in Installment /\ InstallmentRight(i)'
  <2>1. inst[i] \in Installment
    BY DEF RowsTyped
  <2>2. inst[i].resolved \in Nat
    BY <2>1 DEF Installment
  <2>3. CASE i \notin affected
    <3>1. inst'[i] = inst[i]
      BY <1>1, <2>3
    <3> QED BY <1>3, <2>1, <2>3, <3>1 DEF InstallmentRight, total
  <2>4. CASE i \in affected
    <3>1. inst'[i] = changed(i)
      BY <1>1, <2>4
    <3>2. /\ changed(i) \in Installment /\ changed(i).allocated = total(i)
          /\ changed(i).resolved = inst[i].resolved
          /\ changed(i).status = StatusOf(total(i), inst[i].resolved)
      BY <1>4, <2>1, StatusType DEF Installment
    <3>3. total(i) <= inst[i].resolved
      <4>1. Total(allocs, AllocatedTo(i)) <= inst[i].resolved
        BY DEF InstallmentRight
      <4> QED BY <1>4, <2>2, <4>1
    <3> QED BY <3>1, <3>2, <3>3 DEF InstallmentRight, total
  <2> QED BY <2>3, <2>4
<1> QED BY <1>1, <1>5

LEMMA NetOf ==
    ASSUME NEW cl, NEW p
    PROVE  NetCaptured(cl, p) \in Nat /\ NetCaptured(cl, p) <= Amount
<1>1. Movements(cl, p) \in SUBSET Claims
  BY DEF Movements, Resolutions
<1>2. Total(cl, Movements(cl, p)) \in Nat
  BY <1>1, FiniteSum
<1> QED BY <1>2, PaymentAssumption DEF NetCaptured, Clip

\* The rows of other payments do not matter to p.
LEMMA SameAllocated ==
    ASSUME NEW p \in Payments, \A x \in Rows : x[1] = p => allocs'[x].amount = allocs[x].amount
    PROVE  Total(allocs', AllocatedOf(p)) = Total(allocs, AllocatedOf(p))
<1>1. \A x \in AllocatedOf(p) : allocs'[x].amount = allocs[x].amount
  BY DEF AllocatedOf, Rows
<1> QED BY <1>1, SummableRows, SameSum

\* The movement of a captured payment is booked: its allocations follow.
LEMMA ReconcileKeeps ==
    ASSUME AInv, NEW p \in Payments, ReconcileAllocations(p), pay' = pay, pay[p].status = "captured",
           \A q \in Payments \ {p} : NetCaptured(claim', q) = NetCaptured(claim, q)
    PROVE  AInv'
<1> DEFINE net == NetCaptured(claim', p)
<1>1. net \in Nat
  BY NetOf
<1> HIDE DEF net
<1>2. Reconciled(p, net)
  BY <1>1, ReconcileRows DEF AInv, net
<1>3. Ordered'
  BY <1>1, <1>2, ReconciledOrdered DEF AInv
<1>4. inst' \in [Installments -> Installment] /\ \A i \in Installments : InstallmentRight(i)'
  BY <1>1, <1>2, BackedParts, ReconcileInstallments DEF AInv, net
<1>5. Backed(p)'
  <2>1. Total(allocs', AllocatedOf(p)) <= net
    BY <1>1, <1>2, Ranked DEF AInv
  <2>2. Backing(p)' = net
    BY DEF Backing, net
  <2> QED BY <2>1, <2>2 DEF Backed
<1>6. ASSUME NEW q \in Payments \ {p}
      PROVE  Backed(q)'
  <2>1. Total(allocs', AllocatedOf(q)) = Total(allocs, AllocatedOf(q))
    BY <1>2, SameAllocated DEF Reconciled
  <2>2. Backing(q)' = Backing(q)
    BY DEF Backing
  <2>3. Backed(q)
    BY BackedParts DEF AInv
  <2> QED BY <2>1, <2>2, <2>3 DEF Backed
<1>7. RowsTyped'
  BY <1>2, <1>4 DEF RowsTyped, Reconciled
<1> QED BY <1>3, <1>4, <1>5, <1>6, <1>7, BackedParts DEF AInv

-----------------------------------------------------------------------------
(* Allocating a payment, and the installments themselves *)

LEMMA AvailableIsThere ==
    ASSUME NEW cl, NEW p \in Payments
    PROVE  AvailableToResolve(cl, p) \in Nat /\ AvailableToResolve(cl, p) <= NetCaptured(cl, p)
<1>1. NetCaptured(cl, p) \in Nat
  BY NetOf
<1>2. /\ Retained(cl, p) \in SUBSET Claims
      /\ Resolutions(cl, p, "pending") \in SUBSET Claims
  BY DEF Retained, Resolutions
<1>3. Total(cl, Retained(cl, p)) \in Nat /\ Total(cl, Resolutions(cl, p, "pending")) \in Nat
  BY <1>2, FiniteSum
<1> QED BY <1>1, <1>3 DEF AvailableToResolve, Unresolved, Clip

LEMMA RowWithin ==
    ASSUME RowsTyped, NEW p \in Payments, NEW i \in Installments
    PROVE  allocs[<<p, i>>].amount <= Total(allocs, AllocatedOf(p))
<1> DEFINE x == <<p, i>>
<1>1. x \in Rows /\ {x} \in Summable /\ {x} \subseteq AllocatedOf(p)
  BY DEF Rows, AllocatedOf
<1> HIDE DEF x
<1>2. Total(allocs, {x}) = allocs[x].amount
  BY <1>1, RowFields, SumOfOne
<1>3. Total(allocs, {x}) <= Total(allocs, AllocatedOf(p))
  BY <1>1, SummableRows, SumOfMore
<1> QED BY <1>2, <1>3 DEF x

\* Money is added to one row.
LEMMA SumWithMore ==
    ASSUME NEW as, NEW bs, NEW S \in Summable, NEW x \in S, NEW a \in Nat,
           as[x].amount \in 0..Amount, bs[x].amount \in 0..Amount, bs[x].amount = as[x].amount + a,
           \A y \in S \ {x} : bs[y].amount = as[y].amount
    PROVE  Total(bs, S) = Total(as, S) + a
<1> DEFINE R == S \ {x}
<1>1. R \in Summable /\ x \notin R /\ R \cup {x} = S
  OBVIOUS
<1>2. \A y \in R : bs[y].amount = as[y].amount
  OBVIOUS
<1> HIDE DEF R
<1>3. Total(bs, R) = Total(as, R) /\ Total(as, R) \in Nat
  BY <1>1, <1>2, SameSum, FiniteSum
<1>4. Total(as, S) = Total(as, R) + as[x].amount
  BY <1>1, SumWithOne
<1>5. Total(bs, S) = Total(bs, R) + bs[x].amount
  BY <1>1, SumWithOne
<1>6. ASSUME NEW rest \in Nat, NEW m \in 0..Amount
      PROVE  rest + (m + a) = (rest + m) + a
  BY PaymentAssumption
<1> QED BY <1>3, <1>4, <1>5, <1>6, Zenon

LEMMA AllocateKeeps ==
    ASSUME AInv, NEW p \in Payments, NEW i \in Installments, NEW a \in 1..Amount,
           AllocatePayment(p, i, a)
    PROVE  AInv'
<1> DEFINE x == <<p, i>>
           live == {y \in AllocatedOf(p) : allocs[y].amount > 0}
           row == IF allocs[x].amount > 0 THEN [allocs[x] EXCEPT !.amount = allocs[x].amount + a]
                  ELSE [amount |-> a, older |-> live]
           n == Total(allocs', AllocatedTo(i))
<1> USE PaymentAssumption
<1>1. /\ allocs' = [allocs EXCEPT ![x] = row]
      /\ inst' = [inst EXCEPT ![i].allocated = n, ![i].status = StatusOf(n, inst[i].resolved)]
      /\ UNCHANGED <<pay, claim>> /\ pay[p].status = "captured"
      /\ Total(allocs, AllocatedOf(p)) + a <= AvailableToResolve(claim, p)
      /\ n <= inst[i].resolved
  BY DEF AllocatePayment, AddAllocation
<1>2. x \in Rows /\ x[1] = p /\ x[2] = i
  BY DEF Rows
<1>3. RowsTyped /\ Ordered /\ allocs \in [Rows -> Allocation] /\ allocs[x] \in Allocation
  BY <1>2 DEF AInv, RowsTyped
<1>4. live \subseteq Rows /\ \A y \in Rows : y \in live <=> y[1] = p /\ allocs[y].amount > 0
  BY DEF AllocatedOf, Rows
<1>5. allocs[x].amount \in Nat /\ allocs[x].amount + a <= NetCaptured(claim, p) /\ allocs[x].amount + a <= Amount
  <2>1. allocs[x].amount \in Nat /\ allocs[x].amount <= Total(allocs, AllocatedOf(p))
    BY <1>2, <1>3, RowFields, RowWithin
  <2>2. Total(allocs, AllocatedOf(p)) \in Nat
    BY SummableRows, FiniteSum
  <2>3. /\ AvailableToResolve(claim, p) \in Nat /\ AvailableToResolve(claim, p) <= NetCaptured(claim, p)
        /\ NetCaptured(claim, p) \in Nat /\ NetCaptured(claim, p) <= Amount
    BY AvailableIsThere, NetOf
  <2> HIDE DEF x
  <2> QED BY <1>1, <2>1, <2>2, <2>3
<1> HIDE DEF x, live, n
<1>6. /\ row \in Allocation
      /\ row.amount = allocs[x].amount + a
      /\ row.older = IF allocs[x].amount > 0 THEN allocs[x].older ELSE live
  <2>1. allocs[x].amount + a \in 0..Amount /\ a \in 0..Amount
    BY <1>5
  <2>2. CASE allocs[x].amount > 0
    BY <1>3, <2>1, <2>2 DEF Allocation
  <2>3. CASE ~ (allocs[x].amount > 0)
    <3>1. allocs[x].amount = 0
      BY <1>5, <2>3
    <3> QED BY <1>4, <2>1, <2>3, <3>1 DEF Allocation
  <2> QED BY <2>2, <2>3
<1> HIDE DEF row
<1>7. allocs' \in [Rows -> Allocation] /\ allocs'[x] = row /\ \A y \in Rows \ {x} : allocs'[y] = allocs[y]
  BY <1>1, <1>2, <1>3, <1>6
<1>8. allocs[x].amount \in 0..Amount /\ row.amount \in 0..Amount /\ row.amount > 0
  BY <1>5, <1>6
<1>9. Ordered'
  <2>1. ASSUME NEW y \in Rows, allocs'[y].amount = 0
        PROVE  allocs'[y] = NoAllocation
    BY <1>3, <1>7, <1>8, <2>1 DEF Ordered
  <2>2. \A y \in Rows : allocs[y].amount > 0 => allocs'[y].amount > 0
    BY <1>7, <1>8
  <2>3. \A y \in Rows : allocs[y].amount > 0 => allocs'[y].older = allocs[y].older
    BY <1>6, <1>7
  <2>4. ASSUME NEW y \in Rows, NEW z \in allocs'[y].older
        PROVE  /\ z \in Rows /\ z # y /\ z[1] = y[1] /\ allocs'[z].amount > 0
               /\ allocs'[z].older \subseteq allocs'[y].older
    <3>1. CASE allocs'[y].older = allocs[y].older
      <4>1. /\ z \in Rows /\ z # y /\ z[1] = y[1] /\ allocs[z].amount > 0
            /\ allocs[z].older \subseteq allocs[y].older
        BY <1>3, <2>4, <3>1 DEF Ordered
      <4> QED BY <2>2, <2>3, <3>1, <4>1
    <3>2. CASE allocs'[y].older # allocs[y].older
      <4>1. y = x /\ ~ (allocs[x].amount > 0) /\ allocs'[y].older = live
        BY <1>6, <1>7, <3>2
      <4>2. z \in Rows /\ z[1] = p /\ allocs[z].amount > 0
        BY <1>4, <2>4, <4>1
      <4>3. allocs'[z].older \subseteq live
        <5>1. SUFFICES ASSUME NEW v \in allocs[z].older PROVE v \in live
          BY <2>3, <4>2
        <5>2. v \in Rows /\ v[1] = p /\ allocs[v].amount > 0
          BY <1>3, <4>2 DEF Ordered
        <5> QED BY <1>4, <5>2
      <4> QED BY <1>2, <2>2, <4>1, <4>2, <4>3
    <3> QED BY <3>1, <3>2
  <2>5. ASSUME NEW y \in Rows, NEW z \in Rows, y # z, y[1] = z[1],
               allocs'[y].amount > 0, allocs'[z].amount > 0
        PROVE  y \in allocs'[z].older \/ z \in allocs'[y].older
    <3>1. CASE allocs[y].amount > 0 /\ allocs[z].amount > 0
      BY <1>3, <2>3, <2>5, <3>1 DEF Ordered
    <3>2. CASE ~ (allocs[y].amount > 0)
      <4>1. y = x /\ allocs'[y].older = live
        BY <1>6, <1>7, <2>5, <3>2
      <4>2. allocs[z].amount > 0 /\ z[1] = p
        BY <1>2, <1>7, <2>5, <4>1
      <4> QED BY <1>4, <4>1, <4>2
    <3>3. CASE ~ (allocs[z].amount > 0)
      <4>1. z = x /\ allocs'[z].older = live
        BY <1>6, <1>7, <2>5, <3>3
      <4>2. allocs[y].amount > 0 /\ y[1] = p
        BY <1>2, <1>7, <2>5, <4>1
      <4> QED BY <1>4, <4>1, <4>2
    <3> QED BY <3>1, <3>2, <3>3
  <2> QED BY <2>1, <2>4, <2>5 DEF Ordered
<1>10. ASSUME NEW q \in Payments
       PROVE  Backed(q)'
  <2>1. Backing(q)' = Backing(q)
    BY <1>1 DEF Backing
  <2>2. CASE q = p
    <3>1. x \in AllocatedOf(p)
      BY DEF AllocatedOf, x
    <3>2. Total(allocs', AllocatedOf(p)) = Total(allocs, AllocatedOf(p)) + a
      <4>1. \A y \in AllocatedOf(p) \ {x} : allocs'[y].amount = allocs[y].amount
        BY <1>7, SummableRows
      <4> QED BY <1>6, <1>7, <1>8, <3>1, <4>1, SummableRows, SumWithMore
    <3>3. Total(allocs, AllocatedOf(p)) + a <= NetCaptured(claim, p)
      <4>1. Total(allocs, AllocatedOf(p)) \in Nat
        BY SummableRows, FiniteSum
      <4>2. AvailableToResolve(claim, p) \in Nat /\ AvailableToResolve(claim, p) <= NetCaptured(claim, p)
        BY AvailableIsThere
      <4>3. NetCaptured(claim, p) \in Nat
        BY NetOf
      <4> QED BY <1>1, <4>1, <4>2, <4>3
    <3>4. Backing(p)' = NetCaptured(claim, p)
      BY <1>1 DEF Backing
    <3> QED BY <2>2, <3>2, <3>3, <3>4 DEF Backed
  <2>3. CASE q # p
    <3>1. Total(allocs', AllocatedOf(q)) = Total(allocs, AllocatedOf(q))
      BY <1>2, <1>7, <2>3, SameAllocated
    <3>2. Backed(q)
      BY BackedParts DEF AInv
    <3> QED BY <2>1, <3>1, <3>2 DEF Backed
  <2> QED BY <2>2, <2>3
<1>11. ASSUME NEW j \in Installments
       PROVE  inst'[j] \in Installment /\ InstallmentRight(j)'
  <2>1. inst \in [Installments -> Installment] /\ inst[j] \in Installment
    BY DEF AInv, RowsTyped
  <2>2. CASE j = i
    <3>1. n \in Nat /\ n = Total(allocs', AllocatedTo(i))
      BY SummableRows, FiniteSum DEF n
    <3>2. inst'[i] = [inst[i] EXCEPT !.allocated = n, !.status = StatusOf(n, inst[i].resolved)]
      BY <1>1, <2>1
    <3>3. PICK old \in Installment : old = inst[i]
      BY <2>1, <2>2
    <3>4. PICK st \in {"unpaid", "partial", "paid"} : st = StatusOf(n, inst[i].resolved)
      BY StatusType
    <3>5. inst'[i] = [old EXCEPT !.allocated = n, !.status = st]
      BY <3>2, <3>3, <3>4
    <3>6. inst'[i] \in Installment /\ inst'[i].allocated = n /\ inst'[i].resolved = old.resolved /\ inst'[i].status = st
      BY <3>1, <3>5 DEF Installment
    <3> QED BY <1>1, <2>2, <3>1, <3>3, <3>4, <3>6 DEF InstallmentRight
  <2>3. CASE j # i
    <3>1. inst'[j] = inst[j]
      BY <1>1, <2>1, <2>3
    <3>2. \A y \in AllocatedTo(j) : allocs'[y].amount = allocs[y].amount
      BY <1>2, <1>7, <2>3 DEF AllocatedTo, Rows
    <3>3. Total(allocs', AllocatedTo(j)) = Total(allocs, AllocatedTo(j))
      BY <3>2, SummableRows, SameSum
    <3>4. InstallmentRight(j)
      BY BackedParts DEF AInv
    <3> QED BY <2>1, <3>1, <3>3, <3>4 DEF InstallmentRight
  <2> QED BY <2>2, <2>3
<1>12. inst' \in [Installments -> Installment]
  <2>1. inst' = [j \in Installments |-> inst'[j]]
    BY <1>1 DEF AInv, RowsTyped
  <2> QED BY <1>11, <2>1
<1> QED BY <1>7, <1>9, <1>10, <1>11, <1>12, BackedParts DEF AInv, RowsTyped

\* An installment is created, changed or cut down.
InstallmentWritten(i, new) ==
    /\ new \in Installment
    /\ new.allocated = Total(allocs, AllocatedTo(i))
    /\ new.allocated <= new.resolved
    /\ new.status = StatusOf(new.allocated, new.resolved)
    /\ inst' = [inst EXCEPT ![i] = new]
    /\ UNCHANGED <<allocs, pay, claim>>

LEMMA InstallmentWrittenKeeps ==
    ASSUME AInv, NEW i \in Installments, NEW new, InstallmentWritten(i, new)
    PROVE  AInv'
<1>1. inst \in [Installments -> Installment] /\ new \in Installment
  BY DEF AInv, RowsTyped, InstallmentWritten
<1>2. inst' \in [Installments -> Installment] /\ inst'[i] = new /\ \A j \in Installments \ {i} : inst'[j] = inst[j]
  BY <1>1 DEF InstallmentWritten
<1>3. RowsTyped' /\ Ordered'
  BY <1>2 DEF AInv, RowsTyped, Ordered, InstallmentWritten
<1>4. \A p \in Payments : Backed(p)'
  BY BackedParts DEF AInv, InstallmentWritten, Backed, Backing
<1>5. ASSUME NEW j \in Installments PROVE InstallmentRight(j)'
  BY <1>2, BackedParts DEF AInv, InstallmentWritten, InstallmentRight
<1> QED BY <1>3, <1>4, <1>5, BackedParts DEF AInv

LEMMA InstallmentKeeps ==
    ASSUME AInv, NEW i \in Installments,
           \/ \E a \in 1..Amount : CreateInstallment(i, a) \/ UpdateInstallment(i, a)
           \/ DeleteInstallment(i)
    PROVE  AInv'
<1> DEFINE n == Total(allocs, AllocatedTo(i))
<1> USE PaymentAssumption
<1>1. n \in Nat
  BY SummableRows, FiniteSum
<1>2. ASSUME NEW m \in Nat, n <= m
      PROVE  LET new == [resolved |-> m, allocated |-> n, status |-> StatusOf(n, m)]
             IN  /\ new \in Installment /\ new.allocated = n /\ new.allocated <= new.resolved
                 /\ new.status = StatusOf(new.allocated, new.resolved)
  BY <1>1, <1>2, StatusType DEF Installment
<1>3. \A a \in 1..Amount : a \in Nat
  OBVIOUS
<1>4. ASSUME NEW a \in 1..Amount, CreateInstallment(i, a)
      PROVE  AInv'
  <2>1. inst[i].allocated = 0 /\ inst' = [inst EXCEPT ![i] = [resolved |-> a, allocated |-> 0, status |-> "unpaid"]]
    BY <1>4 DEF CreateInstallment, NoInstallment
  <2>2. n = 0
    BY <2>1, BackedParts DEF AInv, InstallmentRight
  <2>3. inst' = [inst EXCEPT ![i] = [resolved |-> a, allocated |-> n, status |-> StatusOf(n, a)]]
    BY <2>1, <2>2 DEF StatusOf
  <2>4. n <= a
    BY <1>3, <2>2
  <2>5. InstallmentWritten(i, [resolved |-> a, allocated |-> n, status |-> StatusOf(n, a)])
    BY <1>2, <1>3, <1>4, <2>3, <2>4 DEF InstallmentWritten, CreateInstallment
  <2> QED BY <2>5, InstallmentWrittenKeeps
<1>5. ASSUME NEW a \in 1..Amount, UpdateInstallment(i, a)
      PROVE  AInv'
  <2>1. n <= a
    BY <1>1, <1>3, <1>5 DEF UpdateInstallment
  <2>2. InstallmentWritten(i, [resolved |-> a, allocated |-> n, status |-> StatusOf(n, a)])
    BY <1>2, <1>3, <1>5, <2>1 DEF InstallmentWritten, UpdateInstallment
  <2> QED BY <2>2, InstallmentWrittenKeeps
<1>6. CASE DeleteInstallment(i)
  <2> DEFINE new == [resolved |-> n, allocated |-> n, status |-> StatusOf(n, n)]
  <2>1. inst' = [inst EXCEPT ![i] = new] /\ UNCHANGED <<allocs, pay, claim>>
    <3>1. new = IF n = 0 THEN NoInstallment ELSE [resolved |-> n, allocated |-> n, status |-> "paid"]
      BY <1>1 DEF NoInstallment, StatusOf
    <3> HIDE DEF new
    <3> QED BY <1>6, <3>1 DEF DeleteInstallment
  <2>2. InstallmentWritten(i, new)
    BY <1>1, <1>2, <2>1 DEF InstallmentWritten
  <2> QED BY <2>2, InstallmentWrittenKeeps
<1> QED BY <1>4, <1>5, <1>6

-----------------------------------------------------------------------------
(* What is left of a payment *)

\* The claim is a movement of money.
Moved(row) == row.status = "completed" /\ row.type # "retained"

LEMMA SameNet ==
    ASSUME NEW p \in Payments,
           \A r \in Claims :
             /\ (Moved(claim'[r]) /\ claim'[r].payment = p) <=> (Moved(claim[r]) /\ claim[r].payment = p)
             /\ Moved(claim[r]) /\ claim[r].payment = p => claim'[r].amount = claim[r].amount
    PROVE  NetCaptured(claim', p) = NetCaptured(claim, p)
<1> DEFINE M == Movements(claim, p)
<1>1. Movements(claim', p) = M
  BY DEF Movements, Retained, Resolutions, Moved
<1>2. M \in Summable /\ \A r \in M : claim'[r].amount = claim[r].amount
  BY DEF Movements, Retained, Resolutions, Moved
<1>3. Total(claim', M) = Total(claim, M)
  BY <1>2, SameSum
<1> QED BY <1>1, <1>3 DEF NetCaptured

\* Money that does not move leaves every payment as it was.
LEMMA NetLasts ==
    ASSUME IInv, Move, \A r \in Claims : Moved(claim'[r]) => Moved(claim[r]), NEW p \in Payments
    PROVE  NetCaptured(claim', p) = NetCaptured(claim, p)
<1>1. CASE claim' = claim
  BY <1>1
<1>2. ASSUME NEW r \in Claims, ClaimMade(r) \/ ClaimSettled(r)
      PROVE  NetCaptured(claim', p) = NetCaptured(claim, p)
  <2>1. \A q \in Claims \ {r} : claim'[q] = claim[q]
    BY <1>2 DEF ClaimMade, ClaimSettled, ClaimBooked
  <2>2. ~ Moved(claim[r])
    BY <1>2 DEF ClaimMade, ClaimSettled, Moved, NoClaim
  <2> QED BY <2>1, <2>2, SameNet
<1>3. CASE Accept
  BY <1>3, AcceptRows, SameNet DEF Moved
<1> QED BY <1>1, <1>2, <1>3 DEF Move, Silent, PaymentMoves, ClaimRepeated, IntentGrows, RefundGrows, Deny

\* A movement of one payment leaves the others as they were.
LEMMA NetOfOthers ==
    ASSUME IInv, NEW r \in Claims, ClaimMade(r) \/ ClaimSettled(r) \/ ClaimRepeated(r),
           NEW p \in Payments, p # claim'[r].payment
    PROVE  NetCaptured(claim', p) = NetCaptured(claim, p)
<1>1. CASE ClaimRepeated(r)
  BY <1>1 DEF ClaimRepeated
<1>2. CASE ClaimMade(r) \/ ClaimSettled(r)
  <2>1. \A q \in Claims \ {r} : claim'[q] = claim[q]
    BY <1>2 DEF ClaimMade, ClaimSettled, ClaimBooked
  <2>2. ~ (Moved(claim[r]) /\ claim[r].payment = p)
    BY <1>2 DEF ClaimMade, ClaimSettled, Moved, NoClaim
  <2> QED BY <2>1, <2>2, SameNet
<1> QED BY <1>1, <1>2

LEMMA CapturedLasts ==
    ASSUME IInv, Move, NEW p \in Payments, pay[p].status = "captured"
    PROVE  pay'[p].status = "captured"
<1>1. CASE pay' = pay
  BY <1>1
<1>2. CASE Accept
  BY <1>2, AcceptRows
<1>3. ASSUME NEW q \in Payments, PaymentMoves(q)
      PROVE  pay'[p].status = "captured"
  BY <1>3 DEF PaymentMoves
<1> QED BY <1>1, <1>2, <1>3 DEF Move, Silent, ClaimMade, ClaimSettled, ClaimRepeated, ClaimBooked,
            IntentGrows, RefundGrows, Deny

\* Neither a row nor the money behind it goes.
LEMMA QuietKeeps ==
    ASSUME IInv, AInv, Move, UNCHANGED <<allocs, inst>>,
           \A r \in Claims : Moved(claim'[r]) => Moved(claim[r])
    PROVE  AInv'
<1>1. RowsTyped' /\ Ordered'
  BY DEF AInv, RowsTyped, Ordered
<1>2. \A i \in Installments : InstallmentRight(i)'
  BY BackedParts DEF AInv, InstallmentRight
<1>3. ASSUME NEW p \in Payments PROVE Backed(p)'
  <2>1. Total(allocs, AllocatedOf(p)) <= Backing(p) /\ Total(allocs, AllocatedOf(p)) \in Nat
    BY BackedParts, SummableRows, FiniteSum DEF AInv, Backed
  <2>2. NetCaptured(claim', p) = NetCaptured(claim, p) /\ NetCaptured(claim, p) \in Nat
    BY NetLasts, NetOf
  <2>3. Backing(p) <= Backing(p)' /\ Backing(p) \in Nat /\ Backing(p)' \in Nat
    BY <2>2, CapturedLasts DEF Backing
  <2>4. Total(allocs, AllocatedOf(p)) <= Backing(p)'
    BY <2>1, <2>3
  <2> QED BY <2>4 DEF Backed
<1> QED BY <1>1, <1>2, <1>3, BackedParts DEF AInv

LEMMA BookedKeeps ==
    ASSUME IInv, AInv, NEW r \in Claims, BookMovement(r),
           ClaimMade(r) \/ ClaimSettled(r) \/ ClaimRepeated(r)
    PROVE  AInv'
<1> DEFINE p == claim'[r].payment
<1>1. pay' = pay /\ ReconcileAllocations(p)
  BY DEF BookMovement
<1>2. p \in Payments /\ pay[p].status = "captured"
  <2>1. CASE ClaimMade(r)
    BY <2>1 DEF ClaimMade
  <2>2. CASE ClaimSettled(r) \/ ClaimRepeated(r)
    <3>1. claim[r].status # "none" /\ claim'[r].payment = claim[r].payment
      BY <2>2 DEF ClaimSettled, ClaimRepeated, ClaimBooked
    <3>2. claim[r] \in Claim
      BY <3>1, ClaimRow DEF IInv
    <3> QED BY <3>1, <3>2 DEF IInv, RowInv, ClaimKinds, Claim
  <2> QED BY <2>1, <2>2
<1>3. \A q \in Payments \ {p} : NetCaptured(claim', q) = NetCaptured(claim, q)
  BY NetOfOthers
<1> HIDE DEF p
<1> QED BY <1>1, <1>2, <1>3, ReconcileKeeps

LEMMA ChargeRefundedKeeps ==
    ASSUME IInv, AInv, NEW c \in Cards, ChargeRefunded(c)
    PROVE  AInv'
<1>1. /\ UNCHANGED <<pay, claim>> /\ ReconcileAllocations(c)
      /\ \E r \in Claims : claim[r].payment = c /\ "succeeded" \in refund[r]
  BY DEF ChargeRefunded
<1>2. pay[c].status = "captured"
  <2>1. PICK r \in Claims : claim[r].payment = c /\ "succeeded" \in refund[r]
    BY <1>1
  <2>2. claim[r].type = "refund"
    BY <2>1, RefundKind
  <2>3. claim[r].status # "none"
    BY <2>2, ClaimRow DEF IInv, NoClaim
  <2> QED BY <2>1, <2>3 DEF IInv, RowInv, ClaimKinds
<1> QED BY <1>1, <1>2, Apart, ReconcileKeeps

-----------------------------------------------------------------------------
(* Every step *)

Quiet == UNCHANGED <<allocs, inst>> /\ \A r \in Claims : Moved(claim'[r]) => Moved(claim[r])

\* A movement is booked: new, settled, or once more.
Books == \E r \in Claims : BookMovement(r) /\ (ClaimMade(r) \/ ClaimSettled(r) \/ ClaimRepeated(r))

\* A request for money is made, given up or retained: no movement.
LEMMA WrittenQuiet ==
    ASSUME Typed, NEW r \in Claims, NEW row, claim' = [claim EXCEPT ![r] = row],
           UNCHANGED <<allocs, inst>>, ~ Moved(row)
    PROVE  Quiet
BY DEF Quiet, Typed

LEMMA FailRefundQuiet ==
    ASSUME Typed, NEW r \in Claims, FailRefund(r)
    PROVE  Quiet
<1> DEFINE row == [claim[r] EXCEPT !.status = "failed"]
<1>1. claim' = [claim EXCEPT ![r] = row] /\ UNCHANGED <<allocs, inst>>
  BY DEF FailRefund
<1>2. row.status = "failed"
  <2>1. claim[r] \in Claim \cup {NoClaim}
    BY DEF Typed
  <2> QED BY <2>1 DEF Claim, NoClaim
<1> HIDE DEF row
<1> QED BY <1>1, <1>2, WrittenQuiet DEF Moved

LEMMA CompleteRefundBooks ==
    ASSUME IInv, NEW r \in Claims, CompleteRefund(r), UNCHANGED <<intent, refund>>,
           claim[r].status = "pending", "succeeded" \in refund[r], request # "denied"
    PROVE  Books
BY CompleteRefundMove DEF CompleteRefund, Books

LEMMA RepairBooks ==
    ASSUME IInv, NEW r \in Claims, RepairRefund(r), UNCHANGED <<intent, refund>>,
           claim[r].status = "completed", claim[r].type # "retained"
    PROVE  Books
BY RepairMove DEF RepairRefund, Books

LEMMA StaffBooks ==
    ASSUME IInv, Staff
    PROVE  \/ Quiet \/ Books
           \/ \E i \in Installments :
                \/ \E a \in 1..Amount : CreateInstallment(i, a) \/ UpdateInstallment(i, a)
                \/ DeleteInstallment(i)
                \/ \E p \in Payments, a \in 1..Amount : AllocatePayment(p, i, a)
<1>1. CASE Accept
  BY <1>1, AcceptRows DEF Accept, Quiet, Moved
<1>2. CASE Deny
  BY <1>2 DEF Deny, Quiet
<1>3. ASSUME NEW x \in Externals, RecordExternalPayment(x)
      PROVE  Quiet
  BY <1>3 DEF RecordExternalPayment, Quiet
<1>4. ASSUME NEW r \in Claims, NEW x \in Externals, NEW a \in 1..Amount, RecordExternalReturn(r, x, a)
      PROVE  Books
  <2>1. BookMovement(r)
    BY <1>4 DEF RecordExternalReturn
  <2> QED BY <1>4, <2>1, RecordExternalReturnMove DEF Books
<1>5. ASSUME NEW r \in Claims, NEW p \in Payments, NEW a \in 1..Amount, RetainForDenial(r, p, a)
      PROVE  Quiet
  <2> DEFINE row == [payment |-> p, type |-> "retained", amount |-> a, status |-> "completed", folio |-> FALSE]
  <2>1. claim' = [claim EXCEPT ![r] = row] /\ UNCHANGED <<allocs, inst>> /\ ~ Moved(row)
    BY <1>5 DEF RetainForDenial, Moved
  <2> HIDE DEF row
  <2> QED BY <2>1, WrittenQuiet DEF IInv
<1> QED BY <1>1, <1>2, <1>3, <1>4, <1>5 DEF Staff

LEMMA ServeBooks ==
    ASSUME IInv, NEW w \in Workers, Serve(w)
    PROVE  Quiet \/ Books
<1>1. ASSUME NEW c \in Cards, StartCharge(w, c)
      PROVE  Quiet
  BY <1>1 DEF StartCharge, Quiet
<1>2. ASSUME NEW r \in Claims, NEW c \in Cards, NEW a \in 1..Amount, StartRefund(w, r, c, a)
      PROVE  Quiet
  <2> DEFINE row == [payment |-> c, type |-> "refund", amount |-> a, status |-> "pending", folio |-> FALSE]
  <2>1. /\ claim' = [claim EXCEPT ![r] = row] \/ claim' = claim
        /\ UNCHANGED <<allocs, inst>> /\ ~ Moved(row)
    BY <1>2 DEF StartRefund, Moved
  <2> HIDE DEF row
  <2>2. CASE claim' = claim
    BY <2>1, <2>2 DEF Quiet
  <2> QED BY <2>1, <2>2, WrittenQuiet DEF IInv
<1>3. CASE CallCharge(w) \/ CallRefund(w) \/ Crash(w)
  BY <1>3 DEF CallCharge, CallRefund, Crash, ledger, Quiet
<1>4. CASE FinishCharge(w)
  BY <1>4 DEF FinishCharge, ledger, Quiet
<1>5. CASE FinishRefund(w)
  <2>1. PICK r \in Claims : r = req[w].on
    BY <1>5 DEF FinishRefund
  <2>2. /\ Typed /\ claim[r].type = "refund" /\ req[w].result \in refund[r]
        /\ UNCHANGED <<intent, refund>>
    BY <1>5, <2>1, Apart DEF IInv, FinishRefund, Serving, provider
  <2>3. CASE UNCHANGED ledger
    BY <2>3 DEF ledger, Quiet
  <2>4. CASE FailRefund(r)
    BY <2>2, <2>4, FailRefundQuiet
  <2>5. CASE request # "denied" /\ req[w].result = "succeeded" /\ claim[r].status = "pending" /\ CompleteRefund(r)
    BY <2>2, <2>5, CompleteRefundBooks
  <2>6. CASE claim[r].status = "completed" /\ RepairRefund(r)
    BY <2>2, <2>6, RepairBooks
  <2> QED BY <1>5, <2>1, <2>3, <2>4, <2>5, <2>6 DEF FinishRefund
<1> QED BY <1>1, <1>2, <1>3, <1>4, <1>5 DEF Serve

LEMMA OutsideBooks ==
    ASSUME IInv, Settle \/ Webhook \/ Replay
    PROVE  Quiet \/ Books \/ \E c \in Cards : ChargeRefunded(c)
<1>1. CASE Settle
  BY <1>1 DEF Settle, SettleIntent, SettleRefund, ledger, Quiet
<1>2. ASSUME NEW c \in Cards, NEW e \in IntentEvents, PaymentIntentEvent(c, e)
      PROVE  Quiet
  BY <1>2 DEF PaymentIntentEvent, Quiet
<1>3. ASSUME NEW r \in Claims, NEW e \in RefundEvents, RefundUpdated(r, e)
      PROVE  Quiet \/ Books
  <2>1. e \in refund[r] /\ claim[r].type = "refund" /\ UNCHANGED <<intent, refund>> /\ Typed
    BY <1>3, RefundKind DEF RefundUpdated, provider, IInv
  <2>2. CASE FailRefund(r)
    BY <2>1, <2>2, FailRefundQuiet
  <2>3. CASE e = "succeeded" /\ claim[r].status = "pending" /\ request # "denied" /\ CompleteRefund(r)
    BY <2>1, <2>3, CompleteRefundBooks
  <2>4. CASE claim[r].status = "completed" /\ RepairRefund(r)
    BY <2>1, <2>4, RepairBooks
  <2> QED BY <1>3, <2>2, <2>3, <2>4 DEF RefundUpdated
<1>4. ASSUME NEW c \in Cards, ReplayCharge(c)
      PROVE  Quiet
  BY <1>4 DEF ReplayCharge, Quiet
<1>5. ASSUME NEW r \in Claims, ReplayRefund(r)
      PROVE  Books
  BY <1>5, RepairBooks DEF ReplayRefund, provider
<1> QED BY <1>1, <1>2, <1>3, <1>4, <1>5 DEF Webhook, Replay

LEMMA StepKeeps ==
    ASSUME IInv, AInv, [Next]_vars
    PROVE  AInv'
<1>1. CASE UNCHANGED vars
  <2>1. Silent /\ Quiet
    BY <1>1 DEF vars, ledger, provider, Silent, Quiet
  <2> QED BY <2>1, QuietKeeps DEF Move, Quiet
<1>2. CASE Next
  <2>1. Move
    BY <1>2, StepMoves
  <2>2. CASE Quiet
    BY <2>1, <2>2, QuietKeeps DEF Quiet
  <2>3. CASE Books
    BY <2>3, BookedKeeps DEF Books
  <2>4. CASE \E c \in Cards : ChargeRefunded(c)
    BY <2>4, ChargeRefundedKeeps
  <2>5. ASSUME NEW i \in Installments,
               \/ \E a \in 1..Amount : CreateInstallment(i, a) \/ UpdateInstallment(i, a)
               \/ DeleteInstallment(i)
        PROVE  AInv'
    BY <2>5, InstallmentKeeps
  <2>6. ASSUME NEW i \in Installments, NEW p \in Payments, NEW a \in 1..Amount, AllocatePayment(p, i, a)
        PROVE  AInv'
    BY <2>6, AllocateKeeps
  <2>7. CASE Staff
    BY <2>2, <2>3, <2>5, <2>6, <2>7, StaffBooks
  <2>8. CASE \E w \in Workers : Serve(w)
    BY <2>2, <2>3, <2>8, ServeBooks
  <2>9. CASE Settle \/ Webhook \/ Replay
    BY <2>2, <2>3, <2>4, <2>9, OutsideBooks
  <2> QED BY <1>2, <2>7, <2>8, <2>9 DEF Next
<1> QED BY <1>1, <1>2

LEMMA InitAllocations ==
    ASSUME Init
    PROVE  AInv
<1> USE PaymentAssumption
<1>1. \A x \in Rows : allocs[x] = NoAllocation /\ allocs[x].amount = 0 /\ allocs[x].older = {}
  BY DEF Init, NoAllocation
<1>2. NoAllocation \in Allocation /\ NoInstallment \in Installment
  BY DEF NoAllocation, Allocation, NoInstallment, Installment
<1>3. RowsTyped
  BY <1>2 DEF Init, RowsTyped
<1>4. Ordered
  BY <1>1 DEF Ordered
<1>5. ASSUME NEW S \in SUBSET Rows PROVE Total(allocs, S) = 0
  <2>1. Units(allocs, S) = {}
    BY <1>1 DEF Units
  <2> QED BY <2>1, FS_EmptySet DEF Total, Units
<1>6. ASSUME NEW p \in Payments PROVE Backed(p)
  <2>1. Backing(p) = 0
    BY DEF Init, NoPayment, Backing
  <2> QED BY <1>5, <2>1, SummableRows DEF Backed
<1>7. ASSUME NEW i \in Installments PROVE InstallmentRight(i)
  <2>1. inst[i] = NoInstallment
    BY DEF Init
  <2> QED BY <1>5, <2>1, SummableRows DEF InstallmentRight, NoInstallment, StatusOf
<1> QED BY <1>3, <1>4, <1>6, <1>7, BackedParts DEF AInv

\* Allocations and installments are right throughout.
THEOREM AllocationInvariant == Spec => [](IInv /\ AInv)
<1>1. Init => AInv
  BY InitAllocations
<1>2. IInv /\ AInv /\ [Next]_vars => AInv'
  BY StepKeeps
<1> QED BY <1>1, <1>2, Invariant, PTL DEF Spec

\* Installments are backed by money that is still there: however charges,
\* refunds, returns, webhooks and allocations interleave, the allocations of a
\* payment never exceed what refunds have left of it, and every installment
\* shows the sum and the status of its own allocations.
THEOREM InstallmentsBacked == Spec => []AllocationsBacked
<1>1. AInv => AllocationsBacked
  BY DEF AInv
<1> QED BY <1>1, AllocationInvariant, PTL

\* Every row of the ledger, of the provider's books and of the requests keeps
\* its type: in particular no allocation exceeds the amount of a payment.
THEOREM TypeCorrect == Spec => []TypeOK
<1>1. ASSUME IInv, AInv PROVE TypeOK
  <2>1. told \subseteq Events \X (Payments \cup Claims)
    <3>1. Announced
      BY <1>1 DEF IInv
    <3> QED BY <3>1 DEF Announced, Events
  <2> QED BY <1>1, <2>1 DEF IInv, Typed, Statuses, AInv, RowsTyped, TypeOK
<1> QED BY <1>1, AllocationInvariant, PTL

-----------------------------------------------------------------------------
(* The newest rows are released first, and no more than needed *)

LEMMA SmallestOf ==
    ASSUME NEW T \in SUBSET Nat, T # {}
    PROVE  \E m \in T : \A n \in T : m <= n
<1> DEFINE R == OpToRel(<, Nat)
<1>1. IsWellFoundedOn(R, Nat)
  BY NatLessThanWellFounded, Zenon
<1>2. \A m, n \in Nat : <<m, n>> \in R <=> m < n
  BY DEF OpToRel
<1> HIDE DEF R
<1>3. PICK m \in T : \A n \in T : ~ (<<n, m>> \in R)
  BY <1>1, WFMin
<1>4. ASSUME NEW n \in T PROVE m <= n
  <2>1. ~ (n < m)
    BY <1>2, <1>3
  <2> QED BY <2>1
<1> QED BY <1>4

\* Among the rows that lose money there is one with nothing but rows kept in
\* full before it.
LEMMA OldestReduced ==
    ASSUME RowsTyped, Ordered, NEW p \in Payments, NEW net \in Nat,
           NEW x \in AllocatedOf(p), Kept(x, net) < allocs[x].amount
    PROVE  \E y \in AllocatedOf(p) :
             /\ Kept(y, net) < allocs[y].amount
             /\ \A z \in allocs[y].older : Kept(z, net) = allocs[z].amount
<1> DEFINE Red == {y \in AllocatedOf(p) : Kept(y, net) < allocs[y].amount}
           before == {Total(allocs, allocs[y].older) : y \in Red}
<1>1. \A y \in AllocatedOf(p) : y \in Rows /\ y[1] = p
  BY DEF AllocatedOf, Rows
<1>2. before \in SUBSET Nat /\ before # {}
  BY <1>1, RowFields
<1>3. PICK m \in before : \A n \in before : m <= n
  BY <1>2, SmallestOf
<1>4. PICK y \in Red : m = Total(allocs, allocs[y].older)
  BY <1>3
<1>5. y \in Rows /\ y[1] = p
  BY <1>1, <1>4
<1>6. ASSUME NEW z \in allocs[y].older
      PROVE  Kept(z, net) = allocs[z].amount
  <2>1. z \in Rows /\ z[1] = p /\ allocs[z].amount > 0
    BY <1>5 DEF Ordered
  <2>2. Total(allocs, allocs[z].older) + allocs[z].amount <= Total(allocs, allocs[y].older)
    BY <1>5, Precedes
  <2>3. /\ Total(allocs, allocs[z].older) \in Nat /\ Total(allocs, allocs[y].older) \in Nat
        /\ allocs[z].amount \in Nat
    BY <1>5, <2>1, RowFields
  <2>4. ~ (m <= Total(allocs, allocs[z].older))
    BY <1>4, <2>1, <2>2, <2>3
  <2>5. Total(allocs, allocs[z].older) \notin before
    BY <1>3, <2>4
  <2>6. z \in AllocatedOf(p)
    BY <2>1 DEF AllocatedOf, Rows
  <2>7. ~ (Kept(z, net) < allocs[z].amount)
    BY <2>5, <2>6
  <2>8. Kept(z, net) \in Nat /\ Kept(z, net) <= allocs[z].amount
    BY <2>1, KeptOfRow
  <2> QED BY <2>3, <2>7, <2>8
<1> QED BY <1>4, <1>6

\* The rows before one with only full rows before it fit into the net amount.
LEMMA FullRowsFit ==
    ASSUME RowsTyped, Ordered, NEW net \in Nat, NEW y \in Rows,
           \A z \in allocs[y].older : Kept(z, net) = allocs[z].amount
    PROVE  Total(allocs, allocs[y].older) <= net
<1> DEFINE O == allocs[y].older
           T(z) == Total(allocs, allocs[z].older)
<1>1. CASE O = {}
  BY <1>1, SumOfNone
<1>2. CASE O # {}
  <2> DEFINE gap == {T(y) - T(z) : z \in O}
  <2>1. ASSUME NEW z \in O
        PROVE  /\ z \in Rows /\ z[1] = y[1] /\ allocs[z].amount > 0 /\ allocs[z].amount \in Nat
               /\ allocs[z].older \subseteq O
               /\ T(z) \in Nat /\ T(y) \in Nat /\ T(z) + allocs[z].amount <= T(y)
    <3>1. z \in Rows /\ z[1] = y[1] /\ allocs[z].amount > 0 /\ allocs[z].older \subseteq O
      BY DEF Ordered
    <3> QED BY <3>1, RowFields, Precedes
  <2>2. gap \in SUBSET Nat /\ gap # {}
    <3>1. ASSUME NEW z \in O PROVE T(y) - T(z) \in Nat
      <4> HIDE DEF O, T
      <4> QED BY <2>1
    <3> QED BY <1>2, <3>1
  <2>3. PICK m \in gap : \A n \in gap : m <= n
    BY <2>2, SmallestOf
  <2>4. PICK z \in O : m = T(y) - T(z)
    BY <2>3
  <2>5. ASSUME NEW v \in O, v # z
        PROVE  v \in allocs[z].older
    <3>1. v \in allocs[z].older \/ z \in allocs[v].older
      BY <2>1, <2>4, <2>5 DEF Ordered
    <3>2. CASE z \in allocs[v].older
      <4>1. T(z) + allocs[z].amount <= T(v)
        BY <2>1, <3>2, Precedes
      <4>2. m <= T(y) - T(v)
        BY <2>3
      <4>3. /\ T(z) \in Nat /\ T(v) \in Nat /\ T(y) \in Nat /\ allocs[z].amount \in Nat
            /\ allocs[z].amount > 0
        BY <2>1, <2>4
      <4> HIDE DEF T
      <4> QED BY <2>4, <4>1, <4>2, <4>3
    <3> QED BY <3>1, <3>2
  <2>6. O = allocs[z].older \cup {z} /\ z \notin allocs[z].older
    <3>1. z \in Rows
      BY <2>1, <2>4
    <3>2. z \notin allocs[z].older
      BY <3>1 DEF Ordered
    <3>3. allocs[z].older \subseteq O
      BY <2>1, <2>4
    <3> QED BY <2>4, <2>5, <3>2, <3>3
  <2>7. T(y) = T(z) + allocs[z].amount
    <3>1. O \in Summable /\ allocs[z].older \in Summable /\ allocs[z].amount \in 0..Amount
      BY <2>1, RowFields
    <3>2. Total(allocs, allocs[z].older \cup {z}) = Total(allocs, allocs[z].older) + allocs[z].amount
      BY <2>6, <3>1, SumWithOne
    <3> QED BY <2>6, <3>2
  <2>8. Kept(z, net) = allocs[z].amount /\ T(z) + Kept(z, net) <= net
    BY <2>1, KeptOfRow
  <2> QED BY <2>7, <2>8
<1> QED BY <1>1, <1>2

LEMMA NothingWasted ==
    ASSUME RowsTyped, Ordered, NEW p \in Payments, NEW net \in Nat, Reconciled(p, net),
           NEW x \in AllocatedOf(p), Kept(x, net) < allocs[x].amount
    PROVE  Total(allocs', AllocatedOf(p)) = net
<1>1. PICK y \in AllocatedOf(p) :
         /\ Kept(y, net) < allocs[y].amount
         /\ \A z \in allocs[y].older : Kept(z, net) = allocs[z].amount
  BY OldestReduced
<1> DEFINE O == allocs[y].older
<1>2. y \in Rows /\ y[1] = p
  BY DEF AllocatedOf, Rows
<1>3. Total(allocs, O) <= net /\ Total(allocs, O) \in Nat
  BY <1>1, <1>2, FullRowsFit, RowFields
<1>4. allocs'[y].amount = net - Total(allocs, O) /\ allocs'[y].amount \in 0..Amount
  <2>1. Kept(y, net) = Clip(net - Total(allocs, O)) /\ Kept(y, net) \in 0..Amount
    BY <1>1, <1>2, KeptOfRow
  <2>2. allocs'[y].amount = Kept(y, net)
    BY <1>2 DEF Reconciled
  <2> HIDE DEF O
  <2> QED BY <1>3, <2>1, <2>2 DEF Clip
<1>5. \A z \in O : z \in Rows /\ z[1] = p /\ z # y
  BY <1>2 DEF Ordered
<1>6. Total(allocs', O) = Total(allocs, O)
  <2>1. \A z \in O : allocs'[z].amount = allocs[z].amount
    BY <1>1, <1>5 DEF Reconciled
  <2>2. O \in Summable
    BY <1>2, RowFields
  <2> QED BY <2>1, <2>2, SameSum
<1>7. Total(allocs', O \cup {y}) = Total(allocs', O) + allocs'[y].amount
  <2>1. O \in Summable /\ y \notin O /\ O \cup {y} \in Summable
    BY <1>2, <1>5
  <2> HIDE DEF O
  <2> QED BY <1>4, <2>1, SumWithOne
<1>8. Total(allocs', O \cup {y}) <= Total(allocs', AllocatedOf(p))
  <2>1. O \cup {y} \subseteq AllocatedOf(p)
    BY <1>2, <1>5 DEF AllocatedOf, Rows
  <2> HIDE DEF O
  <2> QED BY <2>1, SummableRows, SumOfMore
<1>9. Total(allocs', AllocatedOf(p)) <= net /\ Total(allocs', AllocatedOf(p)) \in Nat
  BY Ranked, SummableRows, FiniteSum
<1> HIDE DEF O
<1> QED BY <1>3, <1>4, <1>6, <1>7, <1>8, <1>9

\* What NewestReleasedFirst says of a step.
ReleasesNewest ==
    \A x \in Rows : allocs'[x].amount < allocs[x].amount =>
      /\ Total(allocs', AllocatedOf(x[1])) = NetCaptured(claim', x[1])
      /\ \A y \in Rows : x \in allocs[y].older => allocs'[y].amount = 0

LEMMA ReconcileReleases ==
    ASSUME AInv, NEW p \in Payments, ReconcileAllocations(p)
    PROVE  ReleasesNewest
<1> DEFINE net == NetCaptured(claim', p)
<1>1. net \in Nat
  BY NetOf
<1> HIDE DEF net
<1>2. RowsTyped /\ Ordered /\ Reconciled(p, net)
  BY <1>1, ReconcileRows DEF AInv, net
<1>3. SUFFICES ASSUME NEW x \in Rows, allocs'[x].amount < allocs[x].amount
               PROVE  /\ Total(allocs', AllocatedOf(x[1])) = NetCaptured(claim', x[1])
                      /\ \A y \in Rows : x \in allocs[y].older => allocs'[y].amount = 0
  BY DEF ReleasesNewest
<1>4. x[1] = p /\ Kept(x, net) < allocs[x].amount
  <2>1. CASE x[1] # p
    <3>1. allocs'[x].amount = allocs[x].amount
      BY <1>2, <2>1 DEF Reconciled
    <3> QED BY <1>2, <1>3, <3>1, RowFields
  <2>2. CASE x[1] = p
    BY <1>2, <1>3, <2>2 DEF Reconciled
  <2> QED BY <2>1, <2>2
<1>5. x \in AllocatedOf(p)
  BY <1>4 DEF AllocatedOf, Rows
<1>6. Total(allocs', AllocatedOf(x[1])) = NetCaptured(claim', x[1])
  BY <1>1, <1>2, <1>4, <1>5, NothingWasted DEF net
<1>7. ASSUME NEW y \in Rows, x \in allocs[y].older
      PROVE  allocs'[y].amount = 0
  <2>1. y[1] = p
    BY <1>2, <1>4, <1>7 DEF Ordered
  <2>2. ~ (Kept(y, net) > 0)
    BY <1>1, <1>2, <1>3, <1>4, <1>7, RowFields, OlderKept
  <2>3. Kept(y, net) \in Nat
    BY <1>1, <1>2, KeptOfRow
  <2>4. allocs'[y].amount = Kept(y, net)
    BY <1>2, <2>1 DEF Reconciled
  <2> QED BY <2>2, <2>3, <2>4
<1> QED BY <1>6, <1>7

LEMMA AllocateReleases ==
    ASSUME AInv, NEW p \in Payments, NEW i \in Installments, NEW a \in 1..Amount,
           AllocatePayment(p, i, a)
    PROVE  ReleasesNewest
<1> DEFINE x == <<p, i>>
           row == IF allocs[x].amount > 0 THEN [allocs[x] EXCEPT !.amount = allocs[x].amount + a]
                  ELSE [amount |-> a, older |-> {y \in AllocatedOf(p) : allocs[y].amount > 0}]
<1>1. x \in Rows /\ RowsTyped /\ allocs[x] \in Allocation /\ allocs[x].amount \in Nat
  BY RowFields DEF AInv, RowsTyped, Rows
<1>2. allocs' = [allocs EXCEPT ![x] = row]
  BY DEF AllocatePayment, AddAllocation
<1> HIDE DEF x
<1>3. row.amount = allocs[x].amount + a
  BY <1>1, PaymentAssumption DEF Allocation
<1> HIDE DEF row
<1>4. ASSUME NEW y \in Rows
      PROVE  ~ (allocs'[y].amount < allocs[y].amount)
  <2>1. CASE y = x
    <3>1. allocs'[y] = row
      BY <1>1, <1>2, <2>1 DEF RowsTyped
    <3>2. allocs[x].amount \in Nat /\ a \in Nat
      BY <1>1, PaymentAssumption
    <3>3. ~ (allocs[x].amount + a < allocs[x].amount)
      BY <3>2
    <3> QED BY <1>3, <2>1, <3>1, <3>3
  <2>2. CASE y # x
    <3>1. allocs'[y] = allocs[y]
      BY <1>1, <1>2, <2>2 DEF RowsTyped
    <3> QED BY <1>1, <3>1, RowFields
  <2> QED BY <2>1, <2>2
<1> QED BY <1>4 DEF ReleasesNewest

LEMMA SameReleases ==
    ASSUME AInv, allocs' = allocs
    PROVE  ReleasesNewest
BY RowFields DEF ReleasesNewest, AInv

LEMMA StepReleases ==
    ASSUME IInv, AInv, [Next]_vars
    PROVE  ReleasesNewest
<1>1. CASE Quiet \/ UNCHANGED vars
  BY <1>1, SameReleases DEF Quiet, vars, ledger
<1>2. CASE Books
  <2>1. PICK r \in Claims : BookMovement(r) /\ (ClaimMade(r) \/ ClaimSettled(r) \/ ClaimRepeated(r))
    BY <1>2 DEF Books
  <2>2. claim'[r].payment \in Payments
    <3>1. CASE ClaimMade(r)
      BY <3>1 DEF ClaimMade
    <3>2. CASE ClaimSettled(r) \/ ClaimRepeated(r)
      <4>1. claim[r].status # "none" /\ claim'[r].payment = claim[r].payment
        BY <3>2 DEF ClaimSettled, ClaimRepeated, ClaimBooked
      <4>2. claim[r] \in Claim
        BY <4>1, ClaimRow DEF IInv
      <4> QED BY <4>1, <4>2 DEF Claim
    <3> QED BY <2>1, <3>1, <3>2
  <2> QED BY <2>1, <2>2, ReconcileReleases DEF BookMovement
<1>3. ASSUME NEW c \in Cards, ChargeRefunded(c)
      PROVE  ReleasesNewest
  BY <1>3, Apart, ReconcileReleases DEF ChargeRefunded
<1>4. ASSUME NEW i \in Installments,
             \/ \E a \in 1..Amount : CreateInstallment(i, a) \/ UpdateInstallment(i, a)
             \/ DeleteInstallment(i)
      PROVE  ReleasesNewest
  BY <1>4, SameReleases DEF CreateInstallment, UpdateInstallment, DeleteInstallment
<1>5. ASSUME NEW i \in Installments, NEW p \in Payments, NEW a \in 1..Amount, AllocatePayment(p, i, a)
      PROVE  ReleasesNewest
  BY <1>5, AllocateReleases
<1>6. CASE Staff
  BY <1>1, <1>2, <1>4, <1>5, <1>6, StaffBooks
<1>7. CASE \E w \in Workers : Serve(w)
  BY <1>1, <1>2, <1>7, ServeBooks
<1>8. CASE Settle \/ Webhook \/ Replay
  BY <1>1, <1>2, <1>3, <1>8, OutsideBooks
<1> QED BY <1>1, <1>6, <1>7, <1>8 DEF Next

\* A return releases the newest allocations first and no more than it has to:
\* a row loses money only when every newer row of its payment is gone, and
\* then what is left of the payment is still allocated to the last unit.
THEOREM OldestKept == Spec => NewestReleasedFirst
<1>1. IInv /\ AInv /\ [Next]_vars => [ReleasesNewest]_vars
  BY StepReleases
<1>2. Spec => [][ReleasesNewest]_vars
  BY <1>1, AllocationInvariant, PTL DEF Spec
<1> QED BY <1>2 DEF NewestReleasedFirst, ReleasesNewest

=============================================================================
