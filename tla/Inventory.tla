----------------------------- MODULE Inventory -----------------------------
(***************************************************************************)
(* Room-type inventory of one property: how many reservations occupy each  *)
(* room type on each night, and every code path that can change that       *)
(* number, as the concurrent requests of an API over one PostgreSQL        *)
(* database at READ COMMITTED.                                             *)
(*                                                                         *)
(* A request is a sequence of steps, each of them one SQL statement (or    *)
(* the statements between two lock acquisitions).  The locks are row       *)
(* locks: the room_types row (the "inventory mutex" of lockInventory), the *)
(* reservation row (withAcceptedPricingLock, and every UPDATE), and the    *)
(* properties row (lockProperty).  A write takes FOR KEY SHARE on the rows *)
(* its foreign keys name, so it waits for a FOR UPDATE holder of the       *)
(* property or of the room type, and makes the next one wait.  Every lock  *)
(* is kept until COMMIT or ROLLBACK.  Dates are day numbers 0..Horizon; a  *)
(* stay occupies the nights arr..dep-1.                                    *)
(***************************************************************************)
EXTENDS Integers, FiniteSets

CONSTANTS
    Workers,        \* concurrent API requests
    Res,            \* reservation ids
    Types,          \* room types
    Feeds,          \* active iCal import feeds
    Horizon,        \* last departure day
    Rooms,          \* Rooms[t]: active rooms of type t
    OverbookingPct, \* properties.overbooking_percentage
    FeedType,       \* FeedType[f]: the room type a feed blocks
    Paths,          \* the entry points in use (a subset of AllPaths)
    Free            \* value of a lock nobody holds

InsertPaths == {"create", "accept", "channelNew", "connectBook"}
ModifyPaths == {"modify", "channelModify", "connectModify", "amend"}
AllPaths == InsertPaths \cup ModifyPaths
              \cup {"upgrade", "split", "postNight", "postOnce", "release", "ical"}

Days == 0..Horizon

ASSUME ConstantsAssumption ==
    /\ Horizon \in Nat
    /\ OverbookingPct \in Nat
    /\ Rooms \in [Types -> Nat]
    /\ FeedType \in [Feeds -> Types]
    /\ Paths \subseteq AllPaths
    /\ Free \notin Workers
    /\ IsFiniteSet(Res) /\ IsFiniteSet(Feeds)

VARIABLES
    res,        \* res[r]: the reservations row r, or NoRow
    busy,       \* busy[f]: nights blocked by the ical_blocks rows of feed f
    inv,        \* inv[t]: who holds the room_types row FOR UPDATE
    row,        \* row[r]: who holds the reservations row
    prop,       \* who holds the properties row FOR UPDATE
    propKeys,   \* who holds the properties row FOR KEY SHARE
    typeKeys,   \* typeKeys[t]: who holds the room_types row FOR KEY SHARE
    req         \* req[w]: the request worker w is serving

locks == <<inv, row, prop, propKeys, typeKeys>>
vars == <<res, busy, locks, req>>

-----------------------------------------------------------------------------
(* Rows and requests *)

NoRow == [status |-> "absent"]
NoRes == "no reservation"

Spans == [type : Types, arr : Days, dep : Days]
Stays == {s \in Spans : s.arr < s.dep}
Nights(s) == s.arr..(s.dep - 1)
StayOf(x) == [type |-> x.type, arr |-> x.arr, dep |-> x.dep]

\* status: "held" stands for every status that searchAvailability counts,
\* "released" for cancelled, no_show and checked_out.  priced: the stay the
\* accepted pricing snapshot covers, or {} when the row has no snapshot.
Row == [status : {"held", "released"}, type : Types, arr : Days, dep : Days,
        nights : Int, priced : {{}} \cup {{s} : s \in Spans}]

Fields == {"type", "arr", "dep"}
Steps == {"rowlock", "property", "lock", "check", "insert", "update", "charge"}
Request == [pc : Steps, op : AllPaths, id : Res \cup {NoRes}, to : Spans,
            set : SUBSET Fields, seen : Row \cup {NoRow}]
Idle == [pc |-> "idle"]

TypeOK ==
    /\ res \in [Res -> Row \cup {NoRow}]
    /\ busy \in [Feeds -> SUBSET Days]
    /\ inv \in [Types -> Workers \cup {Free}]
    /\ row \in [Res -> Workers \cup {Free}]
    /\ prop \in Workers \cup {Free}
    /\ propKeys \subseteq Workers
    /\ typeKeys \in [Types -> SUBSET Workers]
    /\ req \in [Workers -> Request \cup {Idle}]

Init ==
    /\ res = [r \in Res |-> NoRow]
    /\ busy = [f \in Feeds |-> {}]
    /\ inv = [t \in Types |-> Free]
    /\ row = [r \in Res |-> Free]
    /\ prop = Free
    /\ propKeys = {}
    /\ typeKeys = [t \in Types |-> {}]
    /\ req = [w \in Workers |-> Idle]

-----------------------------------------------------------------------------
(* Availability *)

\* The rows that occupy room type t on night n.
Occupies(x, t, n) ==
    x.status = "held" /\ x.type = t /\ x.arr <= n /\ n < x.dep

Sold(t, n) == {r \in Res : Occupies(res[r], t, n)}

\* Import feeds of type t that are busy on night n: one unit per feed.
ImportedBusy(t, n) == {f \in Feeds : FeedType[f] = t /\ n \in busy[f]}

Capacity(t) == Rooms[t] + (Rooms[t] * OverbookingPct) \div 100

\* searchAvailability, without the rows in `except`.  The result is clamped.
Available(t, n, except) ==
    LET left == Capacity(t) - Cardinality(Sold(t, n) \ except)
                            - Cardinality(ImportedBusy(t, n))
    IN IF left > 0 THEN left ELSE 0

\* A modification gets back the unit the row occupied WHEN IT WAS READ.
GiveBack(q, n) ==
    IF q.op \in {"modify", "channelModify"} /\ q.seen.type = q.to.type
       /\ q.seen.arr <= n /\ n < q.seen.dep
    THEN 1 ELSE 0

\* assertFullStayAvailability over the nights asked for.
Fits(q) ==
    /\ \A n \in Nights(q.to) :
          Available(q.to.type, n, IF q.op = "amend" THEN {q.id} ELSE {})
            + GiveBack(q, n) > 0
    /\ q.op = "amend" => q.seen.status = "held"

-----------------------------------------------------------------------------
(* The start of each request: what is read before the first lock or check *)

Start(w, q) ==
    /\ req[w] = Idle
    /\ q.op \in Paths
    /\ req' = [req EXCEPT ![w] = q]
    /\ UNCHANGED <<res, busy, locks>>

\* Bound of the model: a request that will insert starts only while an id is
\* left for it.
IdLeft ==
    Cardinality({w \in Workers : req[w] # Idle /\ req[w].op \in InsertPaths \cup {"split"}})
      < Cardinality({r \in Res : res[r] = NoRow})

\* ReservationService.create, BookingRequestService.accept: mutex first.
\* InboundReservationService.handleNewReservation, ConnectBookingService.book:
\* straight to the availability check.
BeginInsert(w) ==
    \E op \in InsertPaths, to \in Stays :
        /\ IdLeft
        /\ Start(w, [pc |-> IF op \in {"create", "accept"} THEN "lock" ELSE "check",
                     op |-> op, id |-> NoRes, to |-> to, set |-> Fields,
                     seen |-> NoRow])

\* ReservationService.modify up to its transaction.  Fields outside `set` are
\* absent from the dto and keep the value read here.
BeginModify(w) ==
    \E r \in Res, to \in Spans, set \in SUBSET Fields \ {{}} :
        LET x == res[r] IN
        /\ x # NoRow
        /\ x.status = "held"
        /\ \A f \in Fields \ set : to[f] = x[f]
        /\ x.priced # {} => to = StayOf(x)
        /\ (set \cap {"arr", "dep"} # {} \/ to # StayOf(x)) => to \in Stays
        /\ Start(w, [pc |-> IF to = StayOf(x) THEN "update" ELSE "lock",
                     op |-> "modify", id |-> r, to |-> to, set |-> set,
                     seen |-> x])

\* InboundReservationService.handleModification: any status, every field.
BeginChannelModify(w) ==
    \E r \in Res, to \in Stays :
        /\ res[r] # NoRow
        /\ res[r].priced = {}
        /\ Start(w, [pc |-> "check", op |-> "channelModify", id |-> r,
                     to |-> to, set |-> Fields, seen |-> res[r]])

\* ConnectBookingService.modify with a date or room-type change.
BeginConnectModify(w) ==
    \E r \in Res, to \in Stays :
        /\ res[r] # NoRow
        /\ res[r].status = "held"
        /\ Start(w, [pc |-> "check", op |-> "connectModify", id |-> r,
                     to |-> to, set |-> Fields, seen |-> res[r]])

\* BookingRequestService.amendStay: the reservation of an accepted request.
BeginAmend(w) ==
    \E r \in Res, a \in Days, d \in Days :
        /\ res[r] # NoRow
        /\ res[r].priced # {}
        /\ a < d
        /\ Start(w, [pc |-> "rowlock", op |-> "amend", id |-> r,
                     to |-> [type |-> res[r].type, arr |-> a, dep |-> d],
                     set |-> {"arr", "dep"}, seen |-> NoRow])

\* GuestCheckInService.acceptUpsell of a room upgrade: no availability check.
BeginUpgrade(w) ==
    \E r \in Res, t \in Types :
        /\ res[r] # NoRow
        /\ res[r].status = "held"
        /\ Start(w, [pc |-> "update", op |-> "upgrade", id |-> r,
                     to |-> [StayOf(res[r]) EXCEPT !.type = t],
                     set |-> {"type"}, seen |-> res[r]])

\* NightAuditService.postRoomTariffs locks only accepted-price reservations,
\* AncillaryService.postOnceForReservation locks any.
BeginPost(w) ==
    \E r \in Res, op \in {"postNight", "postOnce"} :
        /\ res[r] # NoRow
        /\ res[r].status = "held"
        /\ op = "postNight" => res[r].priced # {}
        /\ Start(w, [pc |-> "rowlock", op |-> op, id |-> r,
                     to |-> StayOf(res[r]), set |-> {}, seen |-> NoRow])

\* ReservationPartyService.split: a sibling row with the dates of the source,
\* no availability check.
BeginSplit(w) ==
    \E r \in Res, t \in Types :
        /\ IdLeft
        /\ res[r] # NoRow
        /\ res[r].status = "held"
        /\ Start(w, [pc |-> "insert", op |-> "split", id |-> r,
                     to |-> [StayOf(res[r]) EXCEPT !.type = t],
                     set |-> Fields, seen |-> res[r]])

-----------------------------------------------------------------------------
(* Locks, checks and writes *)

Goto(w, pc) == req' = [req EXCEPT ![w].pc = pc]

\* COMMIT or ROLLBACK: the request ends and its locks are released.
End(w) ==
    /\ req' = [req EXCEPT ![w] = Idle]
    /\ inv' = [t \in Types |-> IF inv[t] = w THEN Free ELSE inv[t]]
    /\ row' = [r \in Res |-> IF row[r] = w THEN Free ELSE row[r]]
    /\ prop' = IF prop = w THEN Free ELSE prop
    /\ propKeys' = propKeys \ {w}
    /\ typeKeys' = [t \in Types |-> typeKeys[t] \ {w}]

\* Mutant: an amendment locks the property before it waits for the pricing lock.
LockRowAfterProperty(w) ==
    /\ req[w].pc = "rowlock"
    /\ UNCHANGED <<res, busy, inv, propKeys, typeKeys>>
    /\ \/ /\ req[w].op = "amend" /\ prop = Free /\ propKeys = {}
          /\ prop' = w /\ UNCHANGED <<row, req>>
       \/ /\ req[w].op = "amend" => prop = w
          /\ row[req[w].id] = Free
          /\ row' = [row EXCEPT ![req[w].id] = w]
          /\ req' = [req EXCEPT ![w].pc = IF req[w].op = "amend" THEN "lock"
                                                                 ELSE "charge",
                                ![w].seen = res[req[w].id]]
          /\ UNCHANGED prop

\* withAcceptedPricingLock (and lockLinkedReservation, which re-reads the row).
LockRow(w) ==
    /\ req[w].pc = "rowlock"
    /\ row[req[w].id] = Free
    /\ row' = [row EXCEPT ![req[w].id] = w]
    /\ req' = [req EXCEPT ![w].pc = IF req[w].op = "amend" THEN "property"
                                                           ELSE "charge",
                          ![w].seen = res[req[w].id],
                          ![w].to.type = res[req[w].id].type]
    /\ UNCHANGED <<res, busy, inv, prop, propKeys, typeKeys>>

\* lockProperty.  The booking_requests row that lockRequest locks next is not
\* modelled.
LockProperty(w) ==
    /\ req[w].pc = "property"
    /\ prop = Free
    /\ propKeys = {}
    /\ prop' = w
    /\ Goto(w, "lock")
    /\ UNCHANGED <<res, busy, inv, row, propKeys, typeKeys>>

\* Mutant: the room type is read without FOR UPDATE.
LockInventoryPlainRead(w) ==
    /\ req[w].pc = "lock"
    /\ Goto(w, "check")
    /\ UNCHANGED <<res, busy, locks>>

LockInventory(w) ==
    /\ req[w].pc = "lock"
    /\ inv[req[w].to.type] = Free
    /\ typeKeys[req[w].to.type] = {}
    /\ inv' = [inv EXCEPT ![req[w].to.type] = w]
    /\ Goto(w, "check")
    /\ UNCHANGED <<res, busy, row, prop, propKeys, typeKeys>>

CheckPasses(w) ==
    /\ req[w].pc = "check"
    /\ Fits(req[w])
    /\ Goto(w, IF req[w].op \in InsertPaths THEN "insert" ELSE "update")
    /\ UNCHANGED <<res, busy, locks>>

CheckFails(w) ==
    /\ req[w].pc = "check"
    /\ ~ Fits(req[w])
    /\ End(w)
    /\ UNCHANGED <<res, busy>>

\* Mutant: the insert leaves the nights column out.
NewRowWithoutNights(q) ==
    [status |-> "held", type |-> q.to.type, arr |-> q.to.arr, dep |-> q.to.dep,
     priced |-> IF q.op = "accept" THEN {q.to} ELSE {}]

\* The row an insert writes.
NewRow(q) ==
    [status |-> "held", type |-> q.to.type, arr |-> q.to.arr, dep |-> q.to.dep,
     nights |-> IF q.op = "split" THEN q.seen.nights ELSE q.to.dep - q.to.arr,
     priced |-> IF q.op = "accept" THEN {q.to} ELSE {}]

\* The row an update writes over x: only the fields of the dto, and a nights
\* computed from the dates the request saw.  An upgrade also writes back the
\* status it saw.
UpdatedRow(q, x) ==
    [x EXCEPT !.status = IF q.op = "upgrade" THEN "held" ELSE x.status,
              !.type = IF "type" \in q.set THEN q.to.type ELSE x.type,
              !.arr = IF "arr" \in q.set THEN q.to.arr ELSE x.arr,
              !.dep = IF "dep" \in q.set THEN q.to.dep ELSE x.dep,
              !.nights = IF q.set \cap {"arr", "dep"} # {}
                         THEN q.to.dep - q.to.arr ELSE x.nights,
              !.priced = IF q.op = "amend" THEN {q.to} ELSE x.priced]

\* The foreign-key checks of an INSERT share its parent rows, in an order the
\* schema leaves open.  A creation already holds its room type.
ShareProperty(w) ==
    /\ req[w].pc = "insert"
    /\ w \notin propKeys
    /\ prop = Free
    /\ propKeys' = propKeys \cup {w}
    /\ UNCHANGED <<res, busy, inv, row, prop, typeKeys, req>>

ShareType(w) ==
    /\ req[w].pc = "insert"
    /\ w \notin typeKeys[req[w].to.type]
    /\ inv[req[w].to.type] \in {Free, w}
    /\ typeKeys' = [typeKeys EXCEPT ![req[w].to.type] = @ \cup {w}]
    /\ UNCHANGED <<res, busy, inv, row, prop, propKeys, req>>

ParentsShared(w) == w \in propKeys /\ w \in typeKeys[req[w].to.type]

\* The INSERT and the COMMIT.  A split updates its source row in between, still
\* holding the key shares of the sibling it inserted.
Insert(w) ==
    /\ req[w].pc = "insert"
    /\ ParentsShared(w)
    /\ req[w].op = "split" => row[req[w].id] = Free
    /\ \E r \in Res :
         /\ res[r] = NoRow
         /\ res' = [res EXCEPT ![r] = NewRow(req[w])]
    /\ End(w)
    /\ UNCHANGED busy

\* An UPDATE first locks its row (amendStay has locked it long before).
LockUpdated(w) ==
    /\ req[w].pc = "update"
    /\ row[req[w].id] = Free
    /\ row' = [row EXCEPT ![req[w].id] = w]
    /\ UNCHANGED <<res, busy, inv, prop, propKeys, typeKeys, req>>

\* A new room type is a new parent row, to be shared while the row is held.
NewParent(w) ==
    "type" \in req[w].set /\ res[req[w].id].type # req[w].to.type

Update(w) ==
    /\ req[w].pc = "update"
    /\ row[req[w].id] = w
    /\ NewParent(w) => inv[req[w].to.type] \in {Free, w}
    /\ res' = [res EXCEPT ![req[w].id] = UpdatedRow(req[w], @)]
    /\ End(w)
    /\ UNCHANGED busy

\* Posting inserts charges, whose foreign key shares the property row.
PostCharge(w) ==
    /\ req[w].pc = "charge"
    /\ prop = Free
    /\ End(w)
    /\ UNCHANGED <<res, busy>>

\* An error, a lost connection or a crash: PostgreSQL rolls back.
Abort(w) ==
    /\ req[w] # Idle
    /\ End(w)
    /\ UNCHANGED <<res, busy>>

\* cancel, markNoShow, checkOut, the channel's cancellation and the expiry of
\* a payment session: one UPDATE that takes the row out of availability.
Release(r) ==
    /\ "release" \in Paths
    /\ res[r] # NoRow
    /\ res[r].status = "held"
    /\ row[r] = Free
    /\ res' = [res EXCEPT ![r].status = "released"]
    /\ UNCHANGED <<busy, locks, req>>

\* IcalService.syncImportFeed replaces the blocks of one feed.
SyncImportFeed(f) ==
    /\ "ical" \in Paths
    /\ \E nights \in SUBSET (0..(Horizon - 1)) : busy' = [busy EXCEPT ![f] = nights]
    /\ UNCHANGED <<res, locks, req>>

Begin(w) ==
    \/ BeginInsert(w)
    \/ BeginModify(w)
    \/ BeginChannelModify(w)
    \/ BeginConnectModify(w)
    \/ BeginAmend(w)
    \/ BeginUpgrade(w)
    \/ BeginPost(w)
    \/ BeginSplit(w)

Proceed(w) ==
    \/ LockRow(w)
    \/ LockProperty(w)
    \/ LockInventory(w)
    \/ CheckPasses(w)
    \/ CheckFails(w)
    \/ ShareProperty(w)
    \/ ShareType(w)
    \/ Insert(w)
    \/ LockUpdated(w)
    \/ Update(w)
    \/ PostCharge(w)

Next ==
    \/ \E w \in Workers : Begin(w) \/ Proceed(w) \/ Abort(w)
    \/ \E r \in Res : Release(r)
    \/ \E f \in Feeds : SyncImportFeed(f)

Spec == Init /\ [][Next]_vars

-----------------------------------------------------------------------------
(* Wait cycles *)

\* The holders w has to wait for before its next statement can run.
Holders(w) ==
    LET q == req[w]
        t == q.to.type
    IN CASE q.pc = "rowlock"  -> {row[q.id]}
         [] q.pc = "property" -> {prop} \cup propKeys
         [] q.pc = "lock"     -> {inv[t]} \cup typeKeys[t]
         [] q.pc = "insert" /\ ~ ParentsShared(w) ->
               {h \in {prop} : w \notin propKeys} \cup {h \in {inv[t]} : w \notin typeKeys[t]}
         [] q.pc = "insert" /\ ParentsShared(w) -> {h \in {row[q.id]} : q.op = "split"}
         [] q.pc = "update" /\ row[q.id] # w -> {row[q.id]}
         [] q.pc = "update" /\ row[q.id] = w -> {h \in {inv[t]} : NewParent(w)}
         [] q.pc = "charge"   -> {prop}
         [] OTHER             -> {}

WaitsFor(w) == Holders(w) \ {Free, w}

\* w waits, through a chain of lock holders, for itself.
InCycle(w) ==
    \E k \in 1..Cardinality(Workers) : \E p \in [0..k -> Workers] :
        p[0] = w /\ p[k] = w /\ \A i \in 0..(k - 1) : p[i + 1] \in WaitsFor(p[i])

-----------------------------------------------------------------------------
(* Properties *)

\* On every night the reservations that occupy a room type never outnumber its
\* rooms plus the overbooking allowance: the mutex of lockInventory makes the
\* availability check and the insert or amendment one step.
NoOversell ==
    \A t \in Types, n \in 0..(Horizon - 1) : Cardinality(Sold(t, n)) <= Capacity(t)

\* A poster that holds the pricing lock of an accepted reservation is never
\* part of a deadlock: amendStay takes that lock before the property's, and a
\* split that waits for the lock keeps a share of the property that no amendment
\* can have locked.
PostingOutsideCycles ==
    \A w \in Workers :
        req[w].pc = "charge" => (req[w].seen.priced # {} => ~ InCycle(w))
=============================================================================
