---------------------------- MODULE CloverOrders ----------------------------
(***************************************************************************)
(* The order and payment handlers of the Clover vendor                     *)
(* (clover/surface/orders.py, clover/surface/payments.py).  Every handler  *)
(* runs under the pipeline lock and is one step; a refused request is no   *)
(* step.  An order owns its total: a client may set it to anything until   *)
(* the first payment locks the order.                                      *)
(***************************************************************************)
EXTENDS Integers, FiniteSets, Functions, StateMachine

CONSTANTS
  Orders, Payments,    \* the ids orders and payments may get
  Totals,              \* the totals clients and carts arrive at
  Amounts,             \* what one payment can be of
  MaxLineItems,        \* MAX_LINE_ITEMS_PER_ORDER, scaled down
  BulkMax,             \* BULK_MAX, scaled down
  None

ASSUME CloverAssumption ==
  /\ Totals \subseteq Int /\ Amounts \subseteq Nat \ {0}
  /\ MaxLineItems \in Nat /\ BulkMax \in Nat

VARIABLES
  orders,              \* order id -> the stored order, or None
  payments             \* payment id -> its amount, or 0 before it exists

cloverVars == <<orders, payments>>

\* A null state reads as open, see _canonical.
ORDER_MACHINE == [to |-> [open |-> {"locked"}, locked |-> {}], self |-> {"open"}]

PaymentStates == {"OPEN", "PARTIALLY_PAID", "PAID"}

\* _require_order: a deleted order is not found.
Found(o) == orders[o] # None /\ ~orders[o].deleted
\* A write that forgets assert_mutable.
WritableLocked(o) == Found(o)
Writable(o) == Found(o) /\ IsMutable(ORDER_MACHINE, orders[o].state)

\* _paid: the sum of the stored payments an order lists.
Paid(amounts, ids) == SumFunction([p \in ids |-> amounts[p]])

\* > for >=.
PaymentStateStrict(paid, total) == IF paid > total THEN "PAID" ELSE "PARTIALLY_PAID"
PaymentState(paid, total) == IF paid >= total THEN "PAID" ELSE "PARTIALLY_PAID"

NewOrder(state, total, lines) ==
  [state |-> state, paymentState |-> "OPEN", total |-> total, lines |-> lines,
   payments |-> {}, deleted |-> FALSE]

\* CreateOrder: any state of the machine, any total, no lines.
CreateOrder(o, state, total) ==
  /\ orders[o] = None
  /\ state \in DOMAIN ORDER_MACHINE.to
  /\ orders' = [orders EXCEPT ![o] = NewOrder(state, total, 0)]
  /\ UNCHANGED payments

\* CreateAtomicOrder: lines and total come from the priced cart.
CreateAtomicOrder(o, total, lines) ==
  /\ orders[o] = None
  /\ lines \in 0..MaxLineItems
  /\ orders' = [orders EXCEPT ![o] = NewOrder("open", total, lines)]
  /\ UNCHANGED payments

\* UpdateOrder: a patch may set the total, and paymentState to OPEN only.
UpdateOrder(o, state, total, paymentState) ==
  /\ Writable(o)
  /\ CanTransition(ORDER_MACHINE, orders[o].state, state)
  /\ paymentState \in {"OPEN", orders[o].paymentState}
  /\ orders' = [orders EXCEPT ![o].state = state, ![o].total = total,
                             ![o].paymentState = paymentState]
  /\ UNCHANGED payments

\* DeleteOrder: soft, and never of a locked order.
DeleteOrder(o) ==
  /\ Writable(o)
  /\ orders' = [orders EXCEPT ![o].deleted = TRUE]
  /\ UNCHANGED payments

\* CreateLineItem and BulkCreateLineItems.  The total is the client's and
\* does not move.
AddLineItems(o, n) ==
  /\ Writable(o)
  /\ n \in 0..BulkMax
  /\ orders[o].lines + n <= MaxLineItems
  /\ orders' = [orders EXCEPT ![o].lines = @ + n]
  /\ UNCHANGED payments

\* CreatePayment: the first payment locks the order; a PAID one takes no more.
CreatePayment(o, p, amount) ==
  LET amounts == [payments EXCEPT ![p] = amount]
      ids == orders[o].payments \cup {p}
  IN /\ Found(o)
     /\ payments[p] = 0
     /\ orders[o].paymentState # "PAID"
     /\ orders[o].state # "locked" => CanTransition(ORDER_MACHINE, orders[o].state, "locked")
     /\ payments' = amounts
     /\ orders' = [orders EXCEPT
          ![o].payments = ids,
          ![o].paymentState =
            PaymentState(Paid(amounts, ids), orders[o].total),
          ![o].state = "locked"]

-----------------------------------------------------------------------------

Init ==
  /\ orders = [o \in Orders |-> None]
  /\ payments = [p \in Payments |-> 0]

Next ==
  \E o \in Orders :
    \/ \E total \in Totals, state \in DOMAIN ORDER_MACHINE.to :
         \/ CreateOrder(o, state, total)
         \/ \E paid \in PaymentStates : UpdateOrder(o, state, total, paid)
    \/ \E total \in Totals, lines \in 0..MaxLineItems : CreateAtomicOrder(o, total, lines)
    \/ \E n \in 1..BulkMax : AddLineItems(o, n)
    \/ DeleteOrder(o)
    \/ \E p \in Payments, amount \in Amounts : CreatePayment(o, p, amount)

Spec == Init /\ [][Next]_cloverVars

-----------------------------------------------------------------------------

OrderRecords ==
  [state : DOMAIN ORDER_MACHINE.to, paymentState : PaymentStates,
   total : Totals, lines : 0..MaxLineItems, payments : SUBSET Payments, deleted : BOOLEAN]

\* Stored orders and payments are of their entity types.
CloverTypeOK ==
  /\ orders \in [Orders -> OrderRecords \cup {None}]
  /\ payments \in [Payments -> Amounts \cup {0}]

\* paymentState "is moved by payments, never set by a client write"
\* (clover/surface/orders.py:746): over client-owned totals, locks set by
\* clients or by payments and payments in any number, it is OPEN exactly
\* without payments, PAID exactly when those listed cover the total.
PaidTellsTheMoney ==
  \A o \in {x \in Orders : orders[x] # None} :
    LET order == orders[o] IN
    /\ order.paymentState = "OPEN" <=> order.payments = {}
    /\ order.paymentState = "PAID" <=>
         order.payments # {} /\ Paid(payments, order.payments) >= order.total
    /\ order.payments # {} => order.state = "locked" /\ ~order.deleted
    /\ \A x \in Orders \ {o} :
         orders[x] # None => orders[x].payments \cap order.payments = {}

\* Money once taken keeps the order it was taken for: "any write to a locked
\* order is a 400" (clover/surface/orders.py:405), so its total, its lines and
\* its place in the list stay, whatever is written next.
PaidOrderStands ==
  [][\A o \in Orders :
      orders[o] # None /\ orders[o].payments # {} =>
        /\ orders'[o].total = orders[o].total /\ orders'[o].lines = orders[o].lines
        /\ ~orders'[o].deleted
        /\ orders[o].payments \subseteq orders'[o].payments]_cloverVars

=============================================================================
