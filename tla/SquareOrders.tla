---------------------------- MODULE SquareOrders ----------------------------
(***************************************************************************)
(* The order and payment handlers of the Square vendor                     *)
(* (square/surface/orders.py, square/surface/payments.py) over the         *)
(* machines of square/machine.py.  Every handler runs under the pipeline   *)
(* lock, so each is one step; a refused request leaves no trace and is no   *)
(* step.                                                                   *)
(*                                                                         *)
(* A uid is an integer.  The id stream is deterministic: the k-th draw of  *)
(* the unit yields uid k, and a caller may choose any uid, also one the    *)
(* stream is about to yield.  A line is worth v cents, and v = 0 stands    *)
(* for the line of quantity "0"; a free line of some other quantity, which *)
(* completing keeps, is left out.  Tips are left out: Tender.applied and   *)
(* amount_due never count them.  A fulfillment is its uid and its state v: *)
(* its details, which a patch without a state may rewrite even when it is  *)
(* finished, are left out.                                                 *)
(***************************************************************************)
EXTENDS Integers, FiniteSets, Functions, Sequences, SequencesExt, StateMachine

CONSTANTS
  Orders, Payments,    \* the ids orders and payments may get
  Cents,               \* what a line can be worth
  Amounts,             \* what a payment can be of
  Totals,              \* bound: what the lines of one order may add up to
  LineUids,            \* uids callers choose for lines
  FulfillmentUids,     \* uids callers choose for fulfillments
  FulfillmentMoves,    \* the fulfillment states callers ask for
  MaxDraws,            \* bound on the draws from the id stream
  MaxEntries,          \* bound on the lines and fulfillments that are stored
  MaxPatches,          \* bound on the entries one request states
  Keep,                \* a field the request does not mention
  None, Opaque         \* no order; a payment id this unit does not hold

ASSUME SquareAssumption ==
  /\ Cents \subseteq Int /\ Totals \subseteq Int
  /\ Amounts \subseteq Nat \ {0}
  /\ LineUids \cup FulfillmentUids \subseteq Int \ {0}
  /\ MaxDraws \in Nat /\ MaxPatches \in Nat
  /\ IsFiniteSet(Payments)
  /\ None \notin Orders /\ Opaque \notin Payments

VARIABLES
  orders,              \* order id -> the stored order, or None
  payments,            \* payment id -> the stored payment, or None
  drawn                \* how many ids the stream has yielded

vars == <<orders, payments, drawn>>

ORDER_MACHINE ==
  [to |-> [DRAFT     |-> {"OPEN", "CANCELED"},
           OPEN      |-> {"COMPLETED", "CANCELED"},
           COMPLETED |-> {}, CANCELED |-> {}],
   self |-> {"DRAFT", "OPEN"}]

FULFILLMENT_MACHINE ==
  LET ends == {"COMPLETED", "CANCELED", "FAILED"} IN
  [to |-> [PROPOSED  |-> {"RESERVED", "PREPARED"} \cup ends,
           RESERVED  |-> {"PREPARED"} \cup ends,
           PREPARED  |-> ends,
           COMPLETED |-> {}, CANCELED |-> {}, FAILED |-> {}],
   self |-> {"PROPOSED", "RESERVED", "PREPARED"}]

PAYMENT_MACHINE ==
  [to |-> [APPROVED |-> {"COMPLETED", "CANCELED"},
           COMPLETED |-> {}, CANCELED |-> {}, FAILED |-> {}],
   self |-> {}]

-----------------------------------------------------------------------------
(* Line items and fulfillments: lists of entries [uid, v], merged alike.   *)

Unnamed == 0
UpTo(S, n) == UNION {[1..k -> S] : k \in 0..n}
Uids(list) == {list[i].uid : i \in DOMAIN list}

\* The entry by_uid holds for a uid: the last one of the list.
Latest(list, uid) ==
  list[CHOOSE i \in DOMAIN list :
         list[i].uid = uid /\ \A j \in DOMAIN list : list[j].uid = uid => j <= i]

\* One patch of the sparse merge: in place for a known uid, else appended.
ApplyPatch(list, p) ==
  IF p.uid \in Uids(list)
  THEN [i \in DOMAIN list |-> IF list[i].uid = p.uid /\ p.v # Keep THEN p ELSE list[i]]
  ELSE Append(list, p)

\* The merge rebuilds the list from by_uid, so equal uids become one entry twice.
Merge(list, patches) ==
  LET after[n \in 0..Len(patches)] ==
        IF n = 0 THEN [i \in DOMAIN list |-> Latest(list, list[i].uid)]
        ELSE ApplyPatch(after[n - 1], patches[n])
  IN after[Len(patches)]

\* How many entries up to the i-th the caller left unnamed.
UnnamedUpTo(patches, i) == Cardinality({j \in 1..i : patches[j].uid = Unnamed})
UnnamedIn(patches) == UnnamedUpTo(patches, Len(patches))

\* The patches with their unnamed entries named from start, in order:
\* upwards for uids drawn from the stream, downwards for placeholders.
Named(patches, start, sign) ==
  [i \in DOMAIN patches |->
     IF patches[i].uid = Unnamed
     THEN [patches[i] EXCEPT !.uid = start + sign * UnnamedUpTo(patches, i)]
     ELSE patches[i]]
Minted(patches, start) == Named(patches, start, 1)
Placeholders(patches) == Named(patches, 0, -1)

\* _fresh: the uids this request assigned itself.
Fresh(patches, assigned) ==
  {assigned[i].uid : i \in {j \in DOMAIN patches : patches[j].uid = Unnamed}}

Total(lines) ==
  LET sum[n \in 0..Len(lines)] == IF n = 0 THEN 0 ELSE sum[n - 1] + lines[n].v
  IN sum[Len(lines)]

\* A list without the entries at some places.
Without(list, places) ==
  LET kept[n \in 0..Len(list)] ==
        IF n = 0 THEN <<>>
        ELSE IF n \in places THEN kept[n - 1] ELSE Append(kept[n - 1], list[n])
  IN kept[Len(list)]

\* The quantity cut to an integer before the test.
DropSmallLines(lines) == Without(lines, {i \in DOMAIN lines : lines[i].v \div 4 = 0})
DropZeroLines(lines) == Without(lines, {i \in DOMAIN lines : lines[i].v = 0})

-----------------------------------------------------------------------------
(* Stored entities.  total is what order_total computed when the lines     *)
(* were last written, applied what the tenders count towards it.           *)

Held == {o \in Orders : orders[o] # None}
Taken == {p \in Payments : payments[p] # None}
Draws(n) == drawn + n <= MaxDraws /\ drawn' = drawn + n

Larger(a, b) == IF a > b THEN a ELSE b
amount_due(order) == Larger(0, order.total - order.applied)

\* Without the machine's word on finished orders.
PayableFinished(o) == o \in Held /\ orders[o].state # "DRAFT"

\* _payable_order: a DRAFT and a finished order take no payment.
Payable(o) == o \in Held /\ orders[o].state # "DRAFT" /\ IsMutable(ORDER_MACHINE, orders[o].state)

Complete(order) == [order EXCEPT !.state = "COMPLETED", !.lines = DropZeroLines(@)]

\* apply_tenders: append, and complete the order once nothing is due.
ApplyTenders(order, tenders, amount) ==
  LET paid == [order EXCEPT !.tenders = @ \o tenders, !.applied = @ + amount]
  IN IF paid.state = "OPEN" /\ amount_due(paid) = 0 THEN Complete(paid) ELSE paid

Captured(p, o) == [payments[p] EXCEPT !.status = "COMPLETED", !.order = o]

-----------------------------------------------------------------------------
(* Orders.                                                                 *)

States == DOMAIN ORDER_MACHINE.to
Patches(uids, values) == UpTo([uid : uids \cup {Unnamed}, v : values \cup {Keep}], MaxPatches)
Whole(patches) == \A i \in DOMAIN patches : patches[i].v # Keep

\* A fulfillment created in a state other than PROPOSED moves there.
Startable(state) ==
  state = "PROPOSED" \/ CanTransition(FULFILLMENT_MACHINE, "PROPOSED", state)

\* CreateOrder: everything is validated, then minted in order -- line uids,
\* fulfillment uids, the order id.  A line uid may appear twice.
CreateOrder(o, state, lines, fulfillments) ==
  LET lineUids == UnnamedIn(lines)
      fulfillmentUids == UnnamedIn(fulfillments)
  IN /\ orders[o] = None
     /\ state \in {"OPEN", "DRAFT"}
     /\ Whole(lines) /\ Whole(fulfillments)
     /\ \A i \in DOMAIN fulfillments : Startable(fulfillments[i].v)
     /\ \A i, j \in DOMAIN fulfillments :
          i # j /\ fulfillments[i].uid = fulfillments[j].uid => fulfillments[i].uid = Unnamed
     /\ Total(lines) \in Totals
     /\ Draws(lineUids + fulfillmentUids + 1)
     /\ orders' = [orders EXCEPT ![o] =
          [state |-> state,
           lines |-> Minted(lines, drawn),
           fulfillments |-> Minted(fulfillments, drawn + lineUids),
           total |-> Total(lines), applied |-> 0, tenders |-> <<>>]]
     /\ UNCHANGED payments

\* Every patch of a new line brings its quantity and its price.
Mergeable(list, patches) ==
  \A i \in DOMAIN patches :
    patches[i].v = Keep =>
      patches[i].uid \in Uids(list) \cup {patches[j].uid : j \in 1..(i - 1)}

\* What a request does with line_items: it leaves them out, states a list
\* that is merged (also an empty one), or states null.
Mentions == {"kept", "merged", "wiped"}

\* _apply_line_changes: merge, then clear; a uid in fresh is not cleared.
LineChanges(lines, patches, cleared, mention, fresh) ==
  LET after == IF mention = "merged" THEN Merge(lines, patches) ELSE lines IN
  IF mention = "wiped" THEN <<>>
  ELSE Without(after, {i \in DOMAIN after : after[i].uid \in cleared \ fresh})

\* What the dry run sees: new lines under placeholders.
Probe(lines, patches, cleared, mention) ==
  LET probed == Placeholders(patches)
  IN LineChanges(lines, probed, cleared, mention, Fresh(patches, probed))

\* What the commit writes: new lines under the uids drawn for them.
Commit(lines, patches, cleared, mention) ==
  LET minted == Minted(patches, drawn)
  IN LineChanges(lines, minted, cleared, mention, Fresh(patches, minted))

\* Each fulfillment patch is judged against the stored state; one that names
\* no stored fulfillment must leave the uid to the unit.
FulfillmentsMove(stored, patches) ==
  \A i \in DOMAIN patches :
    IF patches[i].uid = Unnamed
    THEN patches[i].v # Keep /\ Startable(patches[i].v)
    ELSE /\ patches[i].uid \in Uids(stored)
         /\ patches[i].v # Keep =>
              CanTransition(FULFILLMENT_MACHINE, Latest(stored, patches[i].uid).v, patches[i].v)

\* UpdateOrder, by a caller that states the stored version.  The tendered
\* floor is asserted on the dry run, before any uid is drawn.
UpdateOrder(o, next, patches, cleared, mention, moves) ==
  LET order == orders[o]
      lines == Commit(order.lines, patches, cleared, mention)
      merged == Merge(order.fulfillments, Minted(moves, drawn + UnnamedIn(patches)))
      updated == [order EXCEPT !.lines = lines, !.total = Total(lines), !.state = next,
                               !.fulfillments = merged]
  IN /\ o \in Held
     /\ IsMutable(ORDER_MACHINE, order.state)
     /\ CanTransition(ORDER_MACHINE, order.state, next)
     /\ FulfillmentsMove(order.fulfillments, moves)
     /\ Mergeable(order.lines, Placeholders(patches))
     /\ Total(Probe(order.lines, patches, cleared, mention)) >= order.applied
     /\ Total(lines) \in Totals
     /\ Draws(UnnamedIn(patches) + UnnamedIn(moves))
     /\ orders' = [orders EXCEPT ![o] =
          IF next = "COMPLETED" /\ order.state # next THEN Complete(updated) ELSE updated]
     /\ UNCHANGED payments

\* A payment listed twice.
ResolvesTwice(ids, o) ==
  \A i \in DOMAIN ids :
    ids[i] \in Taken /\ payments[ids[i]].status = "APPROVED" /\ payments[ids[i]].order \in {o, None}

\* _resolve_payments: each listed payment is held, listed once, APPROVED and
\* this order's or nobody's.
Resolves(ids, o) ==
  /\ \A i \in DOMAIN ids :
       /\ ids[i] \in Taken
       /\ payments[ids[i]].status = "APPROVED"
       /\ payments[ids[i]].order \in {o, None}
  /\ \A i, j \in DOMAIN ids : i # j => ids[i] # ids[j]
Paid(ids) == FoldLeft(LAMBDA sum, p : sum + payments[p].amount, 0, ids)

PayableNow(o) ==
  /\ o \in Held
  /\ orders[o].state # "DRAFT"
  /\ CanTransition(ORDER_MACHINE, orders[o].state, "COMPLETED")

\* PayOrder with payments this unit holds, which must sum to the due; each is
\* captured after the order has committed.
PayWithPayments(o, ids) ==
  /\ PayableNow(o)
  /\ ids # <<>> /\ Resolves(ids, o)
  /\ Paid(ids) = amount_due(orders[o])
  /\ Draws(Len(ids))
  /\ orders' = [orders EXCEPT ![o] = ApplyTenders(@, ids, amount_due(@))]
  /\ payments' = [p \in Payments |->
       IF \E i \in DOMAIN ids : ids[i] = p THEN Captured(p, o) ELSE payments[p]]

\* PayOrder with n opaque ids, or with none (n = 1) while something is due: a
\* tender for each, the first of which carries exactly the due.
PayOpaque(o, n) ==
  /\ PayableNow(o)
  /\ amount_due(orders[o]) > 0
  /\ Draws(n)
  /\ orders' = [orders EXCEPT ![o] = ApplyTenders(@, [i \in 1..n |-> Opaque], amount_due(@))]
  /\ UNCHANGED payments

\* PayOrder with no id and nothing due: completed without a tender.
PayNothing(o) ==
  /\ PayableNow(o)
  /\ amount_due(orders[o]) = 0
  /\ orders' = [orders EXCEPT ![o] = ApplyTenders(@, <<>>, 0)]
  /\ UNCHANGED <<payments, drawn>>

-----------------------------------------------------------------------------
(* Payments.                                                               *)

\* Measured against the total instead of the rest of it.
WithinTotal(o, amount) == amount <= orders[o].total
WithinDue(o, amount) == amount <= amount_due(orders[o])

\* CreatePayment with autocomplete false: held, APPROVED.
HoldPayment(p, o, amount) ==
  /\ payments[p] = None
  /\ o # None => Payable(o) /\ WithinDue(o, amount)
  /\ Draws(1)
  /\ payments' = [payments EXCEPT ![p] = [status |-> "APPROVED", amount |-> amount, order |-> o]]
  /\ UNCHANGED orders

\* CreatePayment with autocomplete: held and captured in one request, with a
\* tender on its order if it has one.
TakePayment(p, o, amount) ==
  /\ payments[p] = None
  /\ o # None => Payable(o) /\ WithinDue(o, amount)
  /\ Draws(IF o = None THEN 1 ELSE 2)
  /\ payments' = [payments EXCEPT ![p] = [status |-> "COMPLETED", amount |-> amount, order |-> o]]
  /\ orders' = IF o = None THEN orders
               ELSE [orders EXCEPT ![o] = ApplyTenders(@, <<p>>, amount)]

\* CompletePayment: an order that can no longer take the tender leaves the
\* payment APPROVED.
CompletePayment(p) ==
  LET o == payments[p].order IN
  /\ p \in Taken
  /\ CanTransition(PAYMENT_MACHINE, payments[p].status, "COMPLETED")
  /\ o # None => Payable(o) /\ WithinDue(o, payments[p].amount)
  /\ Draws(IF o = None THEN 0 ELSE 1)
  /\ payments' = [payments EXCEPT ![p] = Captured(p, o)]
  /\ orders' = IF o = None THEN orders
               ELSE [orders EXCEPT ![o] = ApplyTenders(@, <<p>>, payments[p].amount)]

CancelPayment(p) ==
  /\ p \in Taken
  /\ CanTransition(PAYMENT_MACHINE, payments[p].status, "CANCELED")
  /\ payments' = [payments EXCEPT ![p].status = "CANCELED"]
  /\ UNCHANGED <<orders, drawn>>

-----------------------------------------------------------------------------

Init ==
  /\ orders = [o \in Orders |-> None]
  /\ payments = [p \in Payments |-> None]
  /\ drawn = 0

\* How many entries are stored; a fulfillment takes the room of two.
Stored(all) ==
  SumFunction([o \in {x \in Orders : all[x] # None} |->
                 Len(all[o].lines) + 2 * Len(all[o].fulfillments)])

Create(o) ==
  \E state \in States, lines \in Patches(LineUids, Cents),
     fulfillments \in Patches(FulfillmentUids, FulfillmentMoves) :
    /\ Len(lines) + Len(fulfillments) <= MaxPatches
    /\ CreateOrder(o, state, lines, fulfillments)
    /\ Stored(orders') <= MaxEntries

\* A request names the uids it likes and those it has read from the order.
Update(o) ==
  /\ o \in Held
  /\ \E patches \in Patches(LineUids \cup Uids(orders[o].lines), Cents),
        cleared \in SUBSET Uids(orders[o].lines) :
       /\ Len(patches) + Cardinality(cleared) <= MaxPatches
       /\ \E moves \in Patches(Uids(orders[o].fulfillments), FulfillmentMoves) :
            /\ Len(patches) + Cardinality(cleared) + Len(moves) <= MaxPatches
            /\ \E next \in States, mention \in Mentions :
                 /\ mention # "merged" => patches = <<>>
                 /\ UpdateOrder(o, next, patches, cleared, mention, moves)
  /\ Stored(orders') <= MaxEntries

Pay(o) ==
  \/ \E ids \in UpTo(Payments, Cardinality(Payments)) : PayWithPayments(o, ids)
  \/ \E n \in 1..MaxDraws : PayOpaque(o, n)
  \/ PayNothing(o)

Tender(p) ==
  \E o \in Orders \cup {None}, amount \in Amounts :
    HoldPayment(p, o, amount) \/ TakePayment(p, o, amount)

Next ==
  \/ \E o \in Orders : Create(o) \/ Update(o) \/ Pay(o)
  \/ \E p \in Payments : Tender(p) \/ CompletePayment(p) \/ CancelPayment(p)

Spec == Init /\ [][Next]_vars

-----------------------------------------------------------------------------
(* Properties.                                                             *)

Entry(values) == [uid : Int, v : values]
OrderRecords ==
  [state : States, lines : Seq(Entry(Cents)),
   fulfillments : Seq(Entry(DOMAIN FULFILLMENT_MACHINE.to)),
   total : Int, applied : Int, tenders : Seq(Payments \cup {Opaque})]
PaymentRecords ==
  [status : DOMAIN PAYMENT_MACHINE.to, amount : Amounts, order : Orders \cup {None}]

\* No marker is a value of what it stands in for.
ASSUME MarkerAssumption ==
  /\ None \notin OrderRecords /\ None \notin PaymentRecords
  /\ Keep \notin Cents /\ Keep \notin DOMAIN FULFILLMENT_MACHINE.to

\* Stored orders and payments are of their entity types.
TypeOK ==
  /\ orders \in [Orders -> OrderRecords \cup {None}]
  /\ payments \in [Payments -> PaymentRecords \cup {None}]
  /\ drawn \in 0..MaxDraws

\* "No route can tender past the total any more" (square/model/order.py:486):
\* over holds placed early, orders shrunk by updates, captures that arrive
\* after other payments and lists of held payments, what the tenders of an
\* order apply never exceeds its total.
NeverOverTendered ==
  \A o \in Held : orders[o].applied <= Larger(0, orders[o].total)

\* The order and the payments tell one story: a payment tendered an order
\* exactly when it was captured for it, and never twice.
TendersMatchCaptures ==
  \A o \in Held :
    /\ \A p \in Payments :
         (\E i \in DOMAIN orders[o].tenders : orders[o].tenders[i] = p)
           <=> (p \in Taken /\ payments[p].status = "COMPLETED" /\ payments[p].order = o)
    /\ \A i, j \in DOMAIN orders[o].tenders :
         orders[o].tenders[i] = orders[o].tenders[j] /\ i # j => orders[o].tenders[i] = Opaque

\* The lines an order shows add up to the total its tenders were measured
\* against: Create and Update compute the one from the other, and completing
\* an order, which drops its zero lines without looking at the total, does not
\* part them ("Removing them changes no total", orders.py:1743).
LinesAddUp == \A o \in Held : Total(orders[o].lines) = orders[o].total

\* A finished order and a finished payment never change again, whichever
\* handler of the two surfaces reaches them (assert_mutable,
\* core/state/machine.py:190).  A finished fulfillment keeps its place, its uid
\* and its state, through merges that patch it and its neighbours; no more is
\* true, since a patch that states no state rewrites its details.
ClosedIsFinal ==
  [][/\ \A o \in Held : IsTerminal(ORDER_MACHINE, orders[o].state) => orders'[o] = orders[o]
     /\ \A p \in Taken : IsTerminal(PAYMENT_MACHINE, payments[p].status) => payments'[p] = payments[p]
     /\ \A o \in Held : \A i \in DOMAIN orders[o].fulfillments :
          IsTerminal(FULFILLMENT_MACHINE, orders[o].fulfillments[i].v) =>
            /\ i \in DOMAIN orders'[o].fulfillments
            /\ orders'[o].fulfillments[i].uid = orders[o].fulfillments[i].uid
            /\ orders'[o].fulfillments[i].v = orders[o].fulfillments[i].v
    ]_vars

=============================================================================
