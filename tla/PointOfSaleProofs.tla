------------------------- MODULE PointOfSaleProofs -------------------------
(***************************************************************************)
(* The properties of the vendors a unit can run, for any orders, payments, *)
(* totals and limits: first of Clover on its own, then of the unit, whose  *)
(* steps are steps of each vendor or leave it alone, so that what holds of *)
(* a vendor holds of the unit, then of Toast and of Lightspeed.            *)
(***************************************************************************)
EXTENDS PointOfSale, SetInduction, SequenceTheorems, FiniteSetTheorems, TLAPS

-----------------------------------------------------------------------------
(* Clover.                                                                 *)

Stored == {o \in Orders : orders[o] # None}

(* A payment an order lists has been taken, so a new one is in no list.    *)
ListedAreTaken == \A o \in Stored : \A p \in orders[o].payments : payments[p] # 0

IInv == CloverTypeOK /\ ListedAreTaken /\ PaidTellsTheMoney

(* What the invariant says of one order.                                   *)
Tells(order, amounts) ==
  /\ order.paymentState = "OPEN" <=> order.payments = {}
  /\ order.paymentState = "PAID" <=>
       order.payments # {} /\ Paid(amounts, order.payments) >= order.total
  /\ order.payments # {} => order.state = "locked" /\ ~order.deleted

LEMMA Machine ==
  /\ DOMAIN ORDER_MACHINE.to = {"open", "locked"}
  /\ IsMutable(ORDER_MACHINE, "open") /\ ~IsMutable(ORDER_MACHINE, "locked")
  /\ \A s, t \in DOMAIN ORDER_MACHINE.to : CanTransition(ORDER_MACHINE, s, t) => s = "open"
  BY DEF ORDER_MACHINE, IsMutable, IsTerminal, CanTransition

(* An order that may still be written has taken no money.                  *)
LEMMA WritableIsUnpaid ==
  ASSUME IInv, NEW o \in Orders, Writable(o)
  PROVE  /\ o \in Stored /\ orders[o] \in OrderRecords
         /\ orders[o].payments = {} /\ orders[o].state = "open"
         /\ orders[o].paymentState = "OPEN"
<1>1. o \in Stored /\ orders[o] \in OrderRecords
  BY DEF Writable, Found, Stored, IInv, CloverTypeOK
<1>2. orders[o].state = "open"
  BY <1>1, Machine DEF Writable, OrderRecords
<1> QED
  BY <1>1, <1>2 DEF IInv, PaidTellsTheMoney, Stored

(* A new or rewritten order without payments disturbs no other.            *)
LEMMA WriteUnpaid ==
  ASSUME IInv, NEW o \in Orders, NEW order \in OrderRecords,
         orders[o] # None => orders[o].payments = {},
         order.payments = {}, order.paymentState = "OPEN",
         orders' = [orders EXCEPT ![o] = order], payments' = payments
  PROVE  IInv'
<1>1. CloverTypeOK'
  BY DEF IInv, CloverTypeOK
<1>2. \A x \in Orders : x # o => orders'[x] = orders[x]
  BY DEF IInv, CloverTypeOK
<1>3. orders'[o] = order
  BY DEF IInv, CloverTypeOK
<1>4. ListedAreTaken'
  BY <1>2, <1>3 DEF IInv, ListedAreTaken, Stored
<1>5. PaidTellsTheMoney'
  <2> SUFFICES ASSUME NEW x \in Orders, orders'[x] # None
               PROVE  /\ Tells(orders'[x], payments')
                      /\ \A y \in Orders \ {x} :
                           orders'[y] # None => orders'[y].payments \cap orders'[x].payments = {}
    BY DEF PaidTellsTheMoney, Tells
  <2>1. CASE x = o
    BY <1>3, <2>1 DEF Tells
  <2>2. CASE x # o
    <3>1. Paid(payments', orders'[x].payments) = Paid(payments, orders[x].payments)
      BY <1>2, <2>2
    <3>2. Tells(orders'[x], payments')
      BY <1>2, <2>2, <3>1 DEF IInv, PaidTellsTheMoney, Tells
    <3> QED
      BY <1>2, <1>3, <2>2, <3>2 DEF IInv, PaidTellsTheMoney
  <2> QED
    BY <2>1, <2>2
<1> QED
  BY <1>1, <1>4, <1>5 DEF IInv

(* A new payment goes to one order; the sums of the others stand.          *)
LEMMA TakePayment ==
  ASSUME IInv, NEW o \in Orders, NEW p \in Payments, NEW amount \in Amounts,
         CreatePayment(o, p, amount)
  PROVE  IInv'
<1> DEFINE amounts == [payments EXCEPT ![p] = amount]
<1> DEFINE ids == orders[o].payments \cup {p}
<1> DEFINE state == PaymentState(Paid(amounts, ids), orders[o].total)
<1>1. o \in Stored /\ orders[o] \in OrderRecords /\ ~orders[o].deleted
  BY DEF CreatePayment, Found, Stored, IInv, CloverTypeOK
<1>2. payments' = amounts /\ payments[p] = 0 /\ amounts[p] = amount /\ amount # 0
  BY CloverAssumption DEF CreatePayment, IInv, CloverTypeOK
<1>3. \A q \in Payments : q # p => amounts[q] = payments[q]
  BY DEF IInv, CloverTypeOK
<1>4. orders' = [orders EXCEPT ![o].payments = ids, ![o].paymentState = state, ![o].state = "locked"]
  BY DEF CreatePayment
<1>5. state \in {"PAID", "PARTIALLY_PAID"}
  BY DEF PaymentState
<1>6. state = "PAID" <=> Paid(amounts, ids) >= orders[o].total
  BY DEF PaymentState
<1> HIDE DEF state, amounts
<1>7. /\ orders'[o] = [orders[o] EXCEPT !.payments = ids, !.paymentState = state, !.state = "locked"]
      /\ \A x \in Orders : x # o => orders'[x] = orders[x]
  BY <1>1, <1>4 DEF IInv, CloverTypeOK, OrderRecords
<1>8. /\ orders'[o].payments = ids /\ orders'[o].paymentState = state
      /\ orders'[o].state = "locked" /\ orders'[o].total = orders[o].total
      /\ ~orders'[o].deleted
  BY <1>1, <1>7 DEF OrderRecords
<1>9. orders'[o] \in OrderRecords
  <2>1. state \in PaymentStates /\ ids \in SUBSET Payments /\ "locked" \in DOMAIN ORDER_MACHINE.to
    BY <1>1, <1>5, Machine DEF OrderRecords, PaymentStates
  <2> HIDE DEF ids
  <2> QED
    BY <1>1, <1>7, <2>1 DEF OrderRecords
<1>10. CloverTypeOK'
  <2>1. payments' \in [Payments -> Amounts \cup {0}]
    BY <1>2 DEF CreatePayment, IInv, CloverTypeOK
  <2>2. orders' \in [Orders -> OrderRecords \cup {None}]
    BY <1>4, <1>7, <1>9 DEF IInv, CloverTypeOK
  <2> QED
    BY <2>1, <2>2 DEF CloverTypeOK
<1>11. \A x \in Stored : orders[x].payments \subseteq Payments \ {p}
  BY <1>2 DEF IInv, ListedAreTaken, Stored, CloverTypeOK, OrderRecords
<1>12. ListedAreTaken'
  BY <1>1, <1>2, <1>3, <1>7, <1>8, <1>11 DEF IInv, ListedAreTaken, Stored
<1>13. PaidTellsTheMoney'
  <2> SUFFICES ASSUME NEW x \in Orders, orders'[x] # None
               PROVE  /\ Tells(orders'[x], payments')
                      /\ \A y \in Orders \ {x} :
                           orders'[y] # None => orders'[y].payments \cap orders'[x].payments = {}
    BY DEF PaidTellsTheMoney, Tells
  <2>1. CASE x = o
    <3>1. Tells(orders'[x], payments')
      BY <1>2, <1>5, <1>6, <1>8, <2>1 DEF Tells
    <3>2. \A y \in Stored \ {o} : orders[y].payments \cap ids = {}
      BY <1>1, <1>11 DEF IInv, PaidTellsTheMoney, Stored
    <3> QED
      BY <1>7, <1>8, <2>1, <3>1, <3>2 DEF Stored
  <2>2. CASE x # o
    <3>1. x \in Stored /\ orders'[x] = orders[x]
      BY <1>7, <2>2 DEF Stored
    <3>2. [q \in orders[x].payments |-> payments'[q]] = [q \in orders[x].payments |-> payments[q]]
      BY <1>2, <1>3, <1>11, <3>1
    <3>3. Paid(payments', orders'[x].payments) = Paid(payments, orders[x].payments)
      BY <3>1, <3>2 DEF Paid
    <3>4. Tells(orders'[x], payments')
      BY <3>1, <3>3 DEF IInv, PaidTellsTheMoney, Stored, Tells
    <3>5. \A y \in Orders \ {x} :
            orders'[y] # None => orders'[y].payments \cap orders'[x].payments = {}
      BY <1>1, <1>7, <1>8, <1>11, <3>1 DEF IInv, PaidTellsTheMoney, Stored
    <3> QED
      BY <3>4, <3>5
  <2> QED
    BY <2>1, <2>2
<1> QED
  BY <1>10, <1>12, <1>13 DEF IInv

-----------------------------------------------------------------------------

LEMMA StepIInv == IInv /\ [Next]_cloverVars => IInv'
<1> SUFFICES ASSUME IInv, [Next]_cloverVars PROVE IInv'
  OBVIOUS
<1>1. ASSUME NEW o \in Orders, NEW total \in Totals, NEW state \in DOMAIN ORDER_MACHINE.to,
             CreateOrder(o, state, total)
      PROVE  IInv'
  <2> DEFINE order == NewOrder(state, total, 0)
  <2>1. order \in OrderRecords /\ order.payments = {} /\ order.paymentState = "OPEN"
    BY CloverAssumption DEF NewOrder, OrderRecords, PaymentStates
  <2>2. orders[o] = None /\ orders' = [orders EXCEPT ![o] = order] /\ payments' = payments
    BY <1>1 DEF CreateOrder
  <2> HIDE DEF order
  <2> QED
    BY <2>1, <2>2, WriteUnpaid
<1>2. ASSUME NEW o \in Orders, NEW total \in Totals, NEW lines \in 0..MaxLineItems,
             CreateAtomicOrder(o, total, lines)
      PROVE  IInv'
  <2> DEFINE order == NewOrder("open", total, lines)
  <2>1. order \in OrderRecords /\ order.payments = {} /\ order.paymentState = "OPEN"
    BY Machine DEF NewOrder, OrderRecords, PaymentStates
  <2>2. orders[o] = None /\ orders' = [orders EXCEPT ![o] = order] /\ payments' = payments
    BY <1>2 DEF CreateAtomicOrder
  <2> HIDE DEF order
  <2> QED
    BY <2>1, <2>2, WriteUnpaid
<1>3. ASSUME NEW o \in Orders, NEW total \in Totals, NEW state \in DOMAIN ORDER_MACHINE.to,
             NEW paid \in PaymentStates, UpdateOrder(o, state, total, paid)
      PROVE  IInv'
  <2>1. Writable(o) /\ paid \in {"OPEN", orders[o].paymentState} /\ payments' = payments
    BY <1>3 DEF UpdateOrder
  <2>2. /\ orders[o] \in OrderRecords /\ orders[o].payments = {}
        /\ orders[o].paymentState = "OPEN"
    BY <2>1, WritableIsUnpaid
  <2> DEFINE order == [orders[o] EXCEPT !.state = state, !.total = total, !.paymentState = paid]
  <2>3. order \in OrderRecords /\ order.payments = {} /\ order.paymentState = "OPEN"
    BY <2>1, <2>2 DEF OrderRecords
  <2>4. orders' = [orders EXCEPT ![o] = order]
    BY <1>3, <2>2 DEF UpdateOrder, IInv, CloverTypeOK, OrderRecords
  <2> HIDE DEF order
  <2> QED
    BY <2>1, <2>2, <2>3, <2>4, WriteUnpaid
<1>4. ASSUME NEW o \in Orders, NEW n \in 1..BulkMax, AddLineItems(o, n) PROVE IInv'
  <2>1. Writable(o) /\ orders[o].lines + n <= MaxLineItems /\ payments' = payments
    BY <1>4 DEF AddLineItems
  <2>2. /\ orders[o] \in OrderRecords /\ orders[o].payments = {}
        /\ orders[o].paymentState = "OPEN"
    BY <2>1, WritableIsUnpaid
  <2> DEFINE order == [orders[o] EXCEPT !.lines = @ + n]
  <2>3. orders[o].lines + n \in 0..MaxLineItems
    BY <2>1, <2>2, CloverAssumption DEF OrderRecords
  <2>4. order \in OrderRecords /\ order.payments = {} /\ order.paymentState = "OPEN"
    BY <2>2, <2>3 DEF OrderRecords
  <2>5. orders' = [orders EXCEPT ![o] = order]
    BY <1>4, <2>2 DEF AddLineItems, IInv, CloverTypeOK, OrderRecords
  <2> HIDE DEF order
  <2> QED
    BY <2>1, <2>2, <2>4, <2>5, WriteUnpaid
<1>5. ASSUME NEW o \in Orders, DeleteOrder(o) PROVE IInv'
  <2>1. Writable(o) /\ payments' = payments
    BY <1>5 DEF DeleteOrder
  <2>2. /\ orders[o] \in OrderRecords /\ orders[o].payments = {}
        /\ orders[o].paymentState = "OPEN"
    BY <2>1, WritableIsUnpaid
  <2> DEFINE order == [orders[o] EXCEPT !.deleted = TRUE]
  <2>3. order \in OrderRecords /\ order.payments = {} /\ order.paymentState = "OPEN"
    BY <2>2 DEF OrderRecords
  <2>4. orders' = [orders EXCEPT ![o] = order]
    BY <1>5, <2>2 DEF DeleteOrder, IInv, CloverTypeOK, OrderRecords
  <2> HIDE DEF order
  <2> QED
    BY <2>1, <2>2, <2>3, <2>4, WriteUnpaid
<1>6. ASSUME NEW o \in Orders, NEW p \in Payments, NEW amount \in Amounts,
             CreatePayment(o, p, amount)
      PROVE  IInv'
  BY <1>6, TakePayment
<1>7. CASE UNCHANGED cloverVars
  BY <1>7 DEF cloverVars, IInv, CloverTypeOK, ListedAreTaken, Stored, PaidTellsTheMoney
<1> QED
  BY <1>1, <1>2, <1>3, <1>4, <1>5, <1>6, <1>7 DEF Next

LEMMA InitIInv == Init => IInv
  BY DEF Init, IInv, CloverTypeOK, ListedAreTaken, Stored, PaidTellsTheMoney

LEMMA Invariance == Spec => []IInv
<1>1. IInv /\ [Next]_cloverVars => IInv'
  BY StepIInv
<1> QED
  BY InitIInv, <1>1, PTL DEF Spec

(* Stored orders and payments keep their types.                            *)
THEOREM TypeCorrect == Spec => []CloverTypeOK
  BY Invariance, PTL DEF IInv

(* paymentState tells what the payments of an order amount to, whatever    *)
(* the clients write.                                                      *)
THEOREM PaymentStateIsRight == Spec => []PaidTellsTheMoney
  BY Invariance, PTL DEF IInv

(* An order that has taken money is not written any more.                  *)
LEMMA PaidStandsStep ==
  ASSUME IInv, [Next]_cloverVars, NEW o \in Orders, orders[o] # None, orders[o].payments # {}
  PROVE  /\ orders'[o].total = orders[o].total /\ orders'[o].lines = orders[o].lines
         /\ ~orders'[o].deleted
         /\ orders[o].payments \subseteq orders'[o].payments
<1>1. /\ orders[o] \in OrderRecords /\ ~orders[o].deleted /\ ~Writable(o)
      /\ orders \in [Orders -> OrderRecords \cup {None}]
  BY WritableIsUnpaid DEF IInv, CloverTypeOK, PaidTellsTheMoney
<1>2. ASSUME NEW x \in Orders, NEW total \in Totals, NEW state \in DOMAIN ORDER_MACHINE.to,
             \/ CreateOrder(x, state, total)
             \/ \E paid \in PaymentStates : UpdateOrder(x, state, total, paid)
      PROVE  orders'[o] = orders[o]
  BY <1>1, <1>2 DEF CreateOrder, UpdateOrder
<1>3. ASSUME NEW x \in Orders, NEW total \in Totals, NEW lines \in 0..MaxLineItems,
             CreateAtomicOrder(x, total, lines)
      PROVE  orders'[o] = orders[o]
  BY <1>1, <1>3 DEF CreateAtomicOrder
<1>4. ASSUME NEW x \in Orders, DeleteOrder(x) \/ \E n \in 1..BulkMax : AddLineItems(x, n)
      PROVE  orders'[o] = orders[o]
  BY <1>1, <1>4 DEF DeleteOrder, AddLineItems
<1>5. ASSUME NEW x \in Orders, NEW p \in Payments, NEW amount \in Amounts,
             CreatePayment(x, p, amount)
      PROVE  /\ orders'[o].total = orders[o].total /\ orders'[o].lines = orders[o].lines
             /\ ~orders'[o].deleted
             /\ orders[o].payments \subseteq orders'[o].payments
  <2>1. CASE x = o
    <3> DEFINE ids == orders[o].payments \cup {p}
               state == PaymentState(Paid([payments EXCEPT ![p] = amount], ids), orders[o].total)
    <3>1. orders' = [orders EXCEPT ![o].payments = ids, ![o].paymentState = state,
                                   ![o].state = "locked"]
      BY <1>5, <2>1 DEF CreatePayment
    <3> HIDE DEF state
    <3>2. orders'[o] = [orders[o] EXCEPT !.payments = ids, !.paymentState = state, !.state = "locked"]
      BY <1>1, <3>1 DEF OrderRecords
    <3> QED
      BY <1>1, <3>2 DEF OrderRecords
  <2>2. CASE x # o
    BY <1>1, <1>5, <2>2 DEF CreatePayment
  <2> QED
    BY <2>1, <2>2
<1>6. CASE UNCHANGED cloverVars
  BY <1>1, <1>6 DEF cloverVars
<1> QED
  BY <1>1, <1>2, <1>3, <1>4, <1>5, <1>6 DEF Next

(* Money keeps the order it was taken for: no later write reaches it.      *)
THEOREM MoneyKeepsItsOrder == Spec => PaidOrderStands
<1>1. IInv /\ [Next]_cloverVars =>
        [\A o \in Orders :
          orders[o] # None /\ orders[o].payments # {} =>
            /\ orders'[o].total = orders[o].total /\ orders'[o].lines = orders[o].lines
            /\ ~orders'[o].deleted
            /\ orders[o].payments \subseteq orders'[o].payments]_cloverVars
  BY PaidStandsStep
<1> QED
  BY Invariance, <1>1, PTL DEF Spec, PaidOrderStands

-----------------------------------------------------------------------------
(* The unit.                                                               *)

(* The unit implements the Clover vendor.                                  *)
THEOREM UnitIsClover == UnitSpec => Spec
<1>1. UnitInit => Init
  BY DEF UnitInit
<1>2. [UnitNext]_unitVars => [Next]_cloverVars
  BY DEF UnitNext, Clover_Next, Toast_Next, Lightspeed_Next, unitVars
<1> QED
  BY <1>1, <1>2, PTL DEF UnitSpec, Spec

(* The unit implements the Toast vendor.                                   *)
THEOREM UnitIsToast == UnitSpec => Toast!Spec
<1>1. UnitInit => Toast!Init
  BY DEF UnitInit
<1>2. [UnitNext]_unitVars => [Toast!Next]_(Toast!toastVars)
  BY DEF UnitNext, Clover_Next, Toast_Next, Lightspeed_Next, unitVars, toastUnit, Toast!toastVars
<1> QED
  BY <1>1, <1>2, PTL DEF UnitSpec, Toast!Spec

(* In every unit the paymentState of a Clover order tells its money.       *)
THEOREM UnitTellsTheMoney == UnitSpec => []PaidTellsTheMoney
  BY UnitIsClover, PaymentStateIsRight, PTL

(* In every unit a Clover order that has taken money stands.               *)
THEOREM UnitKeepsPaidOrders == UnitSpec => PaidOrderStands
  BY UnitIsClover, MoneyKeepsItsOrder, PTL

-----------------------------------------------------------------------------
(* Toast: a voided order has no live payment, and nothing reaches it.      *)

IsOrder(r) == r \in [checks : {r.checks}, voided : {r.voided}, paid : {r.paid}]
IsPayment(r) ==
  r \in [order : {r.order}, check : {r.check}, amount : {r.amount},
         tipped : {r.tipped}, voided : {r.voided}]

\* Every payment among pays that names the order is voided.
NoneLive(pays, o) ==
  \A p \in Toast!Ids : pays[p] # None /\ pays[p].order = o => pays[p].voided

VoidInv ==
  /\ toastOrders = [o \in Orders |-> toastOrders[o]]
  /\ toastPayments = [p \in Toast!Ids |-> toastPayments[p]]
  /\ \A o \in Orders : toastOrders[o] # None =>
       /\ IsOrder(toastOrders[o])
       /\ toastOrders[o].voided => NoneLive(toastPayments, o)
  /\ \A p \in Toast!Ids : toastPayments[p] # None => IsPayment(toastPayments[p])

\* A step concerns one order that is not voided, and the payments of it.
Concerns(o, new) ==
  /\ toastOrders[o] = None \/ ~toastOrders[o].voided
  /\ toastOrders' = [toastOrders EXCEPT ![o] = new]
  /\ toastPayments' = [p \in Toast!Ids |-> toastPayments'[p]]
  /\ IsOrder(new)
  /\ new.voided => NoneLive(toastPayments', o)
  /\ \A p \in Toast!Ids :
       toastPayments'[p] # toastPayments[p] =>
         /\ IsPayment(toastPayments'[p]) /\ toastPayments'[p].order = o
         /\ toastPayments[p] = None \/ toastPayments[p].order = o

LEMMA SettledIs ==
  ASSUME NEW pays, NEW o, NEW order, IsOrder(order)
  PROVE  /\ IsOrder(Toast!settle_order(pays, o, order))
         /\ Toast!settle_order(pays, o, order).voided = order.voided
<1> DEFINE checks == [c \in DOMAIN order.checks |->
             [order.checks[c] EXCEPT !.status = Toast!Settled(pays, o, c, order.checks[c])]]
           settled == checks # <<>> /\ \A c \in DOMAIN checks : checks[c].status \in {"PAID", "CLOSED"}
           paid == order.paid \/ settled
           new == [order EXCEPT !.checks = checks, !.paid = paid]
<1>1. Toast!settle_order(pays, o, order) = new
  BY DEF Toast!settle_order, IsOrder
<1> HIDE DEF checks, paid
<1>2. new \in [checks : {checks}, voided : {order.voided}, paid : {paid}]
  BY DEF IsOrder
<1> HIDE DEF new
<1>3. IsOrder(new) /\ new.voided = order.voided
  BY <1>2 DEF IsOrder
<1> QED
  BY <1>1, <1>3

\* What the handlers may do with one order.
ToastAction(o) ==
  \/ \E totals \in Toast!UpTo(CheckTotals, MaxChecks) :
       \E batch \in Toast!Batches(DOMAIN totals) : Toast!CreateOrder(o, totals, batch)
  \/ \E c \in Toast!ChecksOf(o) :
       \/ \E batch \in Toast!Batches({c}) : Toast!AddPayments(o, c, batch)
       \/ \E total \in CheckTotals :
            Toast!AddSelections(o, c, total) \/ Toast!ApplyDiscounts(o, c, total)
  \/ \E p \in Toast!Ids : Toast!UpdateTip(o, p)
  \/ Toast!VoidOrder(o)

LEMMA ToastNext == Toast!Next => \E o \in Orders : ToastAction(o)
BY DEF Toast!Next, ToastAction

(* The steps of the Toast vendor, each about one order.                    *)
LEMMA ToastSteps ==
  ASSUME VoidInv, NEW o \in Orders, ToastAction(o)
  PROVE  \E new : Concerns(o, new)
<1> DEFINE order == toastOrders[o]
<1>2. Toast!Live(o) => order # None /\ ~order.voided /\ IsOrder(order)
  BY DEF Toast!Live, VoidInv
<1>3. ASSUME NEW batch, \A i \in DOMAIN batch : toastPayments[batch[i].id] = None
      PROVE  \A p \in Toast!Ids :
               Toast!Store(o, batch)[p] # toastPayments[p] =>
                 /\ IsPayment(Toast!Store(o, batch)[p]) /\ Toast!Store(o, batch)[p].order = o
                 /\ toastPayments[p] = None
  <2> SUFFICES ASSUME NEW p \in Toast!Ids, Toast!Store(o, batch)[p] # toastPayments[p]
               PROVE  /\ IsPayment(Toast!Store(o, batch)[p]) /\ Toast!Store(o, batch)[p].order = o
                      /\ toastPayments[p] = None
    OBVIOUS
  <2>1. \E i \in DOMAIN batch : batch[i].id = p
    BY DEF Toast!Store
  <2> DEFINE b == batch[CHOOSE i \in DOMAIN batch : batch[i].id = p]
  <2>2. Toast!Store(o, batch)[p]
          = [order |-> o, check |-> b.check, amount |-> b.amount, tipped |-> b.tipped, voided |-> FALSE]
    BY <2>1 DEF Toast!Store
  <2> QED
    BY <1>3, <2>1, <2>2 DEF IsPayment
<1>4. \A batch : Toast!Store(o, batch) = [p \in Toast!Ids |-> Toast!Store(o, batch)[p]]
  BY DEF Toast!Store
<1>5. ASSUME NEW totals, NEW batch, Toast!CreateOrder(o, totals, batch)
      PROVE  \E new : Concerns(o, new)
  <2> DEFINE checks == [c \in DOMAIN totals |-> [total |-> totals[c], status |-> "OPEN"]]
             fresh == [checks |-> checks, voided |-> FALSE, paid |-> FALSE]
             new == IF batch = <<>> THEN fresh
                    ELSE Toast!settle_order(Toast!Store(o, batch), o, fresh)
  <2>1. /\ order = None /\ toastOrders' = [toastOrders EXCEPT ![o] = new]
        /\ toastPayments' = Toast!Store(o, batch)
        /\ \A i \in DOMAIN batch : toastPayments[batch[i].id] = None
    BY <1>5 DEF Toast!CreateOrder, Toast!Accepted
  <2> HIDE DEF checks
  <2>2. IsOrder(fresh) /\ fresh.voided = FALSE
    BY DEF IsOrder
  <2> HIDE DEF fresh
  <2>3. IsOrder(new) /\ ~new.voided
    BY <2>2, SettledIs
  <2> HIDE DEF new
  <2> QED
    BY <1>3, <1>4, <2>1, <2>3 DEF Concerns
<1>6. ASSUME NEW c, NEW batch, Toast!AddPayments(o, c, batch) PROVE \E new : Concerns(o, new)
  <2> DEFINE new == Toast!settle_order(Toast!Store(o, batch), o, order)
  <2>1. /\ Toast!Live(o) /\ toastOrders' = [toastOrders EXCEPT ![o] = new]
        /\ toastPayments' = Toast!Store(o, batch)
        /\ \A i \in DOMAIN batch : toastPayments[batch[i].id] = None
    BY <1>6 DEF Toast!AddPayments, Toast!Accepted, VoidInv
  <2>2. IsOrder(new) /\ ~new.voided
    BY <1>2, <2>1, SettledIs
  <2> HIDE DEF new
  <2> QED
    BY <1>2, <1>3, <1>4, <2>1, <2>2 DEF Concerns
<1>7. ASSUME NEW c, NEW total, Toast!AddSelections(o, c, total) \/ Toast!ApplyDiscounts(o, c, total)
      PROVE  \E new : Concerns(o, new)
  <2> DEFINE checks == [order.checks EXCEPT ![c].total = total]
             changed == [order EXCEPT !.checks = checks]
             settled == Toast!settle_order(toastPayments, o, changed)
  <2>1. Toast!Live(o) /\ toastPayments' = toastPayments
    BY <1>7 DEF Toast!AddSelections, Toast!ApplyDiscounts
  <2>2. \/ toastOrders' = [toastOrders EXCEPT ![o] = changed]
        \/ toastOrders' = [toastOrders EXCEPT ![o] = settled]
    BY <1>2, <1>7, <2>1 DEF Toast!AddSelections, Toast!ApplyDiscounts, VoidInv, IsOrder
  <2> HIDE DEF checks
  <2>3. changed \in [checks : {checks}, voided : {order.voided}, paid : {order.paid}]
    BY <1>2, <2>1 DEF IsOrder
  <2> HIDE DEF changed
  <2>4. IsOrder(changed) /\ ~changed.voided
    BY <1>2, <2>1, <2>3 DEF IsOrder
  <2>5. IsOrder(settled) /\ ~settled.voided
    BY <2>4, SettledIs
  <2> HIDE DEF settled
  <2> QED
    BY <1>2, <2>1, <2>2, <2>4, <2>5 DEF Concerns, VoidInv
<1>8. ASSUME NEW p \in Toast!Ids, Toast!UpdateTip(o, p) PROVE \E new : Concerns(o, new)
  <2> DEFINE tipped == [toastPayments EXCEPT ![p].tipped = TRUE]
             new == Toast!settle_order(tipped, o, order)
             payment == [toastPayments[p] EXCEPT !.tipped = TRUE]
  <2>1. /\ Toast!Live(o) /\ toastOrders' = [toastOrders EXCEPT ![o] = new]
        /\ toastPayments' = tipped
        /\ toastPayments[p] # None /\ toastPayments[p].order = o
    BY <1>2, <1>8 DEF Toast!UpdateTip, VoidInv
  <2>2. /\ tipped[p] = payment /\ \A q \in Toast!Ids : q # p => tipped[q] = toastPayments[q]
        /\ tipped = [q \in Toast!Ids |-> tipped[q]]
    BY DEF VoidInv
  <2>3. IsOrder(new) /\ ~new.voided
    BY <1>2, <2>1, SettledIs
  <2>4. payment \in [order : {toastPayments[p].order}, check : {toastPayments[p].check},
                     amount : {toastPayments[p].amount}, tipped : {TRUE},
                     voided : {toastPayments[p].voided}]
    BY <2>1 DEF VoidInv, IsPayment
  <2> HIDE DEF new, tipped, payment
  <2>5. IsPayment(payment) /\ payment.order = o
    BY <2>1, <2>4 DEF IsPayment
  <2> QED
    BY <1>2, <2>1, <2>2, <2>3, <2>5 DEF Concerns
<1>9. ASSUME Toast!VoidOrder(o) PROVE \E new : Concerns(o, new)
  <2> DEFINE mine == {p \in Toast!Ids : toastPayments[p] # None /\ toastPayments[p].order = o}
             checks == [c \in DOMAIN order.checks |-> [order.checks[c] EXCEPT !.status = "VOIDED"]]
             new == [order EXCEPT !.voided = TRUE, !.checks = checks]
             gone(p) == [toastPayments[p] EXCEPT !.voided = TRUE]
  <2>1. /\ Toast!Live(o) /\ toastOrders' = [toastOrders EXCEPT ![o] = new]
        /\ toastPayments' = [p \in Toast!Ids |-> IF p \in mine THEN gone(p) ELSE toastPayments[p]]
    BY <1>2, <1>9 DEF Toast!VoidOrder, VoidInv, IsOrder
  <2> HIDE DEF checks
  <2>2. new \in [checks : {checks}, voided : {TRUE}, paid : {order.paid}]
    BY <1>2, <2>1 DEF IsOrder
  <2>3. ASSUME NEW p \in mine
        PROVE  IsPayment(gone(p)) /\ gone(p).order = o /\ gone(p).voided
    <3>1. IsPayment(toastPayments[p]) /\ toastPayments[p].order = o
      BY DEF VoidInv
    <3>2. gone(p) \in [order : {o}, check : {toastPayments[p].check},
                       amount : {toastPayments[p].amount}, tipped : {toastPayments[p].tipped},
                       voided : {TRUE}]
      BY <3>1 DEF IsPayment
    <3> HIDE DEF gone
    <3> QED
      BY <3>2 DEF IsPayment
  <2> HIDE DEF new, gone
  <2>4. IsOrder(new)
    BY <2>2 DEF IsOrder
  <2>5. NoneLive(toastPayments', o)
    BY <2>1, <2>3 DEF NoneLive
  <2>6. \A p \in Toast!Ids :
          toastPayments'[p] # toastPayments[p] =>
            IsPayment(toastPayments'[p]) /\ toastPayments'[p].order = o /\ toastPayments[p].order = o
    BY <2>1, <2>3
  <2> QED
    BY <1>2, <2>1, <2>4, <2>5, <2>6 DEF Concerns
<1> QED
  BY <1>5, <1>6, <1>7, <1>8, <1>9 DEF ToastAction

LEMMA VoidStep == VoidInv /\ [Toast!Next]_(Toast!toastVars) => VoidInv'
<1> SUFFICES ASSUME VoidInv, [Toast!Next]_(Toast!toastVars) PROVE VoidInv'
  OBVIOUS
<1>1. CASE UNCHANGED Toast!toastVars
  BY <1>1 DEF Toast!toastVars, VoidInv, NoneLive
<1>2. CASE Toast!Next
  <2>0. PICK o \in Orders : \E r : Concerns(o, r)
    BY <1>2, ToastNext, ToastSteps
  <2>1. PICK new : Concerns(o, new)
    BY <2>0
  <2>2. /\ toastOrders'[o] = new /\ \A x \in Orders : x # o => toastOrders'[x] = toastOrders[x]
        /\ toastOrders' = [x \in Orders |-> toastOrders'[x]]
    BY <2>1 DEF Concerns, VoidInv
  <2>3. ASSUME NEW x \in Orders, x # o, NoneLive(toastPayments, x) PROVE NoneLive(toastPayments', x)
    BY <2>1, <2>3 DEF Concerns, NoneLive
  <2>4. ASSUME NEW x \in Orders, toastOrders'[x] # None
        PROVE  /\ IsOrder(toastOrders'[x])
               /\ toastOrders'[x].voided => NoneLive(toastPayments', x)
    <3>1. CASE x = o
      BY <2>1, <2>2, <3>1 DEF Concerns
    <3>2. CASE x # o
      BY <2>2, <2>3, <2>4, <3>2 DEF VoidInv
    <3> QED
      BY <3>1, <3>2
  <2>5. \A p \in Toast!Ids : toastPayments'[p] # None => IsPayment(toastPayments'[p])
    BY <2>1 DEF Concerns, VoidInv
  <2> QED
    BY <2>1, <2>2, <2>4, <2>5 DEF VoidInv, Concerns
<1> QED
  BY <1>1, <1>2

LEMMA VoidFinalStep ==
  ASSUME VoidInv, Toast!Next, NEW o \in Orders, toastOrders[o] # None, toastOrders[o].voided
  PROVE  /\ toastOrders'[o] = toastOrders[o]
         /\ \A p \in Toast!Ids :
              toastPayments[p] # None /\ toastPayments[p].order = o => toastPayments'[p] = toastPayments[p]
         /\ \A p \in Toast!Ids :
              toastPayments'[p] # None /\ toastPayments'[p].order = o => toastPayments'[p].voided
<1>1. PICK x \in Orders : \E r : Concerns(x, r)
  BY ToastNext, ToastSteps
<1>2. x # o
  BY <1>1 DEF Concerns
<1>3. toastOrders'[o] = toastOrders[o]
  BY <1>1, <1>2 DEF Concerns, VoidInv
<1>4. \A p \in Toast!Ids :
        toastPayments[p] # None /\ toastPayments[p].order = o => toastPayments'[p] = toastPayments[p]
  BY <1>1, <1>2 DEF Concerns
<1>5. \A p \in Toast!Ids :
        toastPayments'[p] # None /\ toastPayments'[p].order = o => toastPayments'[p].voided
  BY <1>1, <1>2 DEF Concerns, VoidInv, NoneLive
<1> QED
  BY <1>3, <1>4, <1>5

(* In every unit a voided Toast order and its payments are out of reach of *)
(* every handler, and none of those payments is live.                      *)
THEOREM UnitVoidsForGood == UnitSpec => VoidedIsFinal
<1>1. Toast!Init => VoidInv
  BY DEF Toast!Init, VoidInv
<1>2. Toast!Spec => []VoidInv
  BY <1>1, VoidStep, PTL DEF Toast!Spec
<1>3. VoidInv /\ [Toast!Next]_(Toast!toastVars) =>
        [\A o \in Orders :
          toastOrders[o] # None /\ toastOrders[o].voided =>
            /\ toastOrders'[o] = toastOrders[o]
            /\ \A p \in Toast!Ids :
                 toastPayments[p] # None /\ toastPayments[p].order = o => toastPayments'[p] = toastPayments[p]
            /\ \A p \in Toast!Ids :
                 toastPayments'[p] # None /\ toastPayments'[p].order = o => toastPayments'[p].voided
        ]_(Toast!toastVars)
  BY VoidFinalStep
<1>4. Toast!Spec => Toast!VoidedIsFinal
  BY <1>2, <1>3, PTL DEF Toast!Spec, Toast!VoidedIsFinal
<1> QED
  BY <1>4, UnitIsToast, PTL DEF VoidedIsFinal

-----------------------------------------------------------------------------
(* Toast: the status of a check tells what it was paid.                    *)

\* What StatusTellsCoverage says of one order.
Covers(pays, o, order, c) == Toast!covered_cents(pays, o, c) >= order.checks[c].total
CheckTold(pays, o, order, c) ==
  LET status == order.checks[c].status IN
  /\ status \in {"OPEN", "PAID", "CLOSED", "VOIDED"}
  /\ status = "OPEN" => Toast!OfCheck(pays, o, c) = {} \/ ~Covers(pays, o, order, c)
  /\ status = "PAID" => Covers(pays, o, order, c) /\ Toast!AwaitingTip(pays, o, c)
  /\ status = "CLOSED" => Covers(pays, o, order, c) /\ ~Toast!AwaitingTip(pays, o, c)
  /\ status = "VOIDED" => order.voided /\ Toast!LiveOf(pays, o, c) = {}
PaidTold(order) ==
  ~order.voided /\ order.checks # <<>> =>
    (order.paid <=> \A c \in DOMAIN order.checks : order.checks[c].status # "OPEN")
Told(pays, o, order) ==
  /\ \A c \in DOMAIN order.checks : CheckTold(pays, o, order, c)
  /\ PaidTold(order)

\* The checks of an order are records with an amount.
Charged(order) ==
  \A c \in DOMAIN order.checks :
    /\ order.checks[c] \in [total : {order.checks[c].total}, status : {order.checks[c].status}]
    /\ order.checks[c].total \in Nat

\* Every payment is for an order that exists.
Pays(pays, orders_) ==
  \A p \in Toast!Ids : pays[p] # None =>
    pays[p] \in Toast!PaymentRecords /\ orders_[pays[p].order] # None

CoverInv ==
  /\ VoidInv
  /\ \A o \in Orders : toastOrders[o] # None =>
       toastOrders[o] \in Toast!OrderRecords /\ Told(toastPayments, o, toastOrders[o])
  /\ Pays(toastPayments, toastOrders)

LEMMA ToldIsTells ==
  (\A o \in Orders : toastOrders[o] # None => Told(toastPayments, o, toastOrders[o]))
    => StatusTellsCoverage
<1> SUFFICES ASSUME NEW o \in Orders, toastOrders[o] # None,
                    Told(toastPayments, o, toastOrders[o])
             PROVE
               LET order == toastOrders[o] IN
               /\ \A c \in DOMAIN order.checks :
                    LET check == order.checks[c]
                        covered == Toast!covered_cents(toastPayments, o, c) >= check.total
                    IN CASE check.status = "OPEN" -> Toast!OfCheck(toastPayments, o, c) = {} \/ ~covered
                         [] check.status = "PAID" -> covered /\ Toast!AwaitingTip(toastPayments, o, c)
                         [] check.status = "CLOSED" -> covered /\ ~Toast!AwaitingTip(toastPayments, o, c)
                         [] check.status = "VOIDED" -> order.voided /\ Toast!LiveOf(toastPayments, o, c) = {}
               /\ ~order.voided /\ order.checks # <<>> =>
                    (order.paid <=> \A c \in DOMAIN order.checks : order.checks[c].status # "OPEN")
  BY DEF StatusTellsCoverage, Toast!StatusTellsCoverage
<1> QED
  BY DEF Told, CheckTold, PaidTold, Covers

(* What a check was paid depends on its payments only.                     *)
LEMMA CoverSame ==
  ASSUME NEW pays, NEW others, NEW o, NEW c,
         \A p \in Toast!Ids :
           /\ p \in Toast!OfCheck(pays, o, c) <=> p \in Toast!OfCheck(others, o, c)
           /\ p \in Toast!OfCheck(pays, o, c) =>
                pays[p].amount = others[p].amount /\ pays[p].voided = others[p].voided
  PROVE  /\ Toast!OfCheck(others, o, c) = Toast!OfCheck(pays, o, c)
         /\ Toast!LiveOf(others, o, c) = Toast!LiveOf(pays, o, c)
         /\ Toast!covered_cents(others, o, c) = Toast!covered_cents(pays, o, c)
<1>1. Toast!OfCheck(others, o, c) = Toast!OfCheck(pays, o, c)
  BY DEF Toast!OfCheck
<1>2. Toast!LiveOf(others, o, c) = Toast!LiveOf(pays, o, c)
  <2>1. Toast!OfCheck(pays, o, c) \subseteq Toast!Ids
    BY DEF Toast!OfCheck
  <2> QED
    BY <1>1, <2>1 DEF Toast!LiveOf
<1>3. \A p \in Toast!LiveOf(pays, o, c) : pays[p].amount = others[p].amount
  BY DEF Toast!LiveOf, Toast!OfCheck
<1>4. [p \in Toast!LiveOf(others, o, c) |-> others[p].amount]
        = [p \in Toast!LiveOf(pays, o, c) |-> pays[p].amount]
  BY <1>2, <1>3
<1> QED
  BY <1>1, <1>2, <1>4 DEF Toast!covered_cents

(* The payments of other orders do not matter.                             *)
LEMMA OtherOrders ==
  ASSUME NEW pays, NEW others, NEW o, NEW order, Told(pays, o, order),
         \A p \in Toast!Ids :
           \/ others[p] = pays[p]
           \/ /\ others[p].order # o
              /\ pays[p] = None \/ pays[p].order # o
  PROVE  Told(others, o, order)
<1>1. ASSUME NEW c \in DOMAIN order.checks PROVE CheckTold(others, o, order, c)
  <2>1. \A p \in Toast!Ids :
          /\ p \in Toast!OfCheck(pays, o, c) <=> p \in Toast!OfCheck(others, o, c)
          /\ p \in Toast!OfCheck(pays, o, c) => others[p] = pays[p]
    BY DEF Toast!OfCheck
  <2>2. /\ Toast!OfCheck(others, o, c) = Toast!OfCheck(pays, o, c)
        /\ Toast!LiveOf(others, o, c) = Toast!LiveOf(pays, o, c)
        /\ Toast!covered_cents(others, o, c) = Toast!covered_cents(pays, o, c)
    BY <2>1, CoverSame
  <2>3. Toast!AwaitingTip(others, o, c) <=> Toast!AwaitingTip(pays, o, c)
    <3>1. \A p \in Toast!LiveOf(pays, o, c) : others[p] = pays[p]
      BY <2>1 DEF Toast!LiveOf, Toast!OfCheck
    <3> QED
      BY <2>2, <3>1 DEF Toast!AwaitingTip
  <2> QED
    BY <2>2, <2>3 DEF Told, CheckTold, Covers
<1> QED
  BY <1>1 DEF Told

(* The sums of the vendor are the sums.                                    *)
LEMMA ToastSums ==
  ASSUME NEW f
  PROVE  Toast!SumFunction(f) = SumFunction(f)
BY Zenon DEF Toast!SumFunction, Toast!SumFunctionOnSet, Toast!FoldFunctionOnSet, Toast!MapThenFoldSet,
   SumFunction, SumFunctionOnSet, FoldFunctionOnSet, MapThenFoldSet

(* What a check was paid is a number.                                      *)
LEMMA CoverIsInt ==
  ASSUME NEW pays, NEW o, NEW c,
         \A p \in Toast!Ids : pays[p] # None => pays[p].amount \in Nat
  PROVE  Toast!covered_cents(pays, o, c) \in Int
<1> DEFINE live == Toast!LiveOf(pays, o, c)
           f == [p \in live |-> pays[p].amount]
<1>1. IsFiniteSet(Toast!Ids)
  BY UnitAssumption, FS_Union DEF UnitAssumption, Toast!Ids
<1>2. live \in SUBSET Toast!Ids /\ \A p \in live : pays[p].amount \in Int
  BY DEF Toast!LiveOf, Toast!OfCheck
<1>3. IsFiniteSet(live)
  BY <1>1, <1>2, FS_Subset
<1>4. SumFunction(f) \in Int
  BY <1>2, <1>3, SumIsInt
<1>5. Toast!covered_cents(pays, o, c) = SumFunction(f)
  BY ToastSums DEF Toast!covered_cents
<1> QED
  BY <1>4, <1>5

\* What an order may look like just before it is settled.
Settleable(pays, o, order) ==
  /\ IsOrder(order) /\ ~order.voided /\ Charged(order)
  /\ \A c \in DOMAIN order.checks :
       LET status == order.checks[c].status IN
       /\ status \in {"OPEN", "PAID", "CLOSED"}
       /\ status = "PAID" => Covers(pays, o, order, c)
       /\ status = "CLOSED" => Covers(pays, o, order, c) /\ ~Toast!AwaitingTip(pays, o, c)
  /\ order.paid /\ order.checks # <<>> =>
       \A c \in DOMAIN order.checks : order.checks[c].status # "OPEN"

(* Settling an order makes its checks tell what they were paid.            *)
LEMMA SettleTells ==
  ASSUME NEW pays, NEW o, NEW order, Settleable(pays, o, order)
  PROVE  /\ Told(pays, o, Toast!settle_order(pays, o, order))
         /\ Charged(Toast!settle_order(pays, o, order))
<1> DEFINE old == order.checks
           status(c) == Toast!Settled(pays, o, c, old[c])
           checks == [c \in DOMAIN old |-> [old[c] EXCEPT !.status = status(c)]]
           settled == checks # <<>> /\ \A c \in DOMAIN checks : checks[c].status \in {"PAID", "CLOSED"}
           paid == order.paid \/ settled
           new == [order EXCEPT !.checks = checks, !.paid = paid]
<1>1. Toast!settle_order(pays, o, order) = new
  BY DEF Toast!settle_order, Settleable, IsOrder
<1>2. ASSUME NEW c \in DOMAIN old
      PROVE  /\ checks[c] \in [total : {old[c].total}, status : {status(c)}]
             /\ status(c) \in {"OPEN", "PAID", "CLOSED"}
             /\ status(c) = "OPEN" =>
                  /\ old[c].status = "OPEN"
                  /\ Toast!OfCheck(pays, o, c) = {} \/ ~Covers(pays, o, order, c)
             /\ status(c) = "PAID" => Covers(pays, o, order, c) /\ Toast!AwaitingTip(pays, o, c)
             /\ status(c) = "CLOSED" => Covers(pays, o, order, c) /\ ~Toast!AwaitingTip(pays, o, c)
  <2>1. checks[c] = [old[c] EXCEPT !.status = status(c)]
    OBVIOUS
  <2> HIDE DEF status, checks
  <2>2. checks[c] \in [total : {old[c].total}, status : {status(c)}]
    BY <2>1 DEF Settleable, Charged
  <2>3. /\ old[c].status \in {"OPEN", "PAID", "CLOSED"}
        /\ old[c].status = "PAID" => Covers(pays, o, order, c)
        /\ old[c].status = "CLOSED" => Covers(pays, o, order, c) /\ ~Toast!AwaitingTip(pays, o, c)
    BY DEF Settleable
  <2> DEFINE covered == Toast!covered_cents(pays, o, c) >= old[c].total
             awaits == Toast!AwaitingTip(pays, o, c)
             some == Toast!OfCheck(pays, o, c) # {}
  <2>4. status(c) = CASE old[c].status = "OPEN" /\ some /\ covered -> IF awaits THEN "PAID" ELSE "CLOSED"
                      [] old[c].status = "PAID" /\ ~awaits -> "CLOSED"
                      [] OTHER -> old[c].status
    BY DEF status, Toast!Settled
  <2>5. covered <=> Covers(pays, o, order, c)
    BY DEF Covers
  <2> HIDE DEF covered, awaits, some
  <2>6. /\ status(c) \in {"OPEN", "PAID", "CLOSED"}
        /\ status(c) = "OPEN" => old[c].status = "OPEN" /\ (~some \/ ~covered)
        /\ status(c) = "PAID" => covered /\ awaits
        /\ status(c) = "CLOSED" => covered /\ ~awaits
    BY <2>3, <2>4, <2>5 DEF awaits
  <2> QED
    BY <2>2, <2>5, <2>6 DEF some, awaits
<1>3. DOMAIN checks = DOMAIN old
  OBVIOUS
<1> HIDE DEF status, checks, paid
<1>4. new \in [checks : {checks}, voided : {order.voided}, paid : {paid}]
  BY DEF Settleable, IsOrder
<1> HIDE DEF new
<1>5. new.checks = checks /\ new.paid = paid /\ ~new.voided
  BY <1>4 DEF Settleable
<1>6. ASSUME NEW c \in DOMAIN checks
      PROVE  /\ checks[c].total = old[c].total /\ checks[c].status = status(c)
             /\ checks[c] \in [total : {checks[c].total}, status : {checks[c].status}]
             /\ old[c].total \in Nat
  BY <1>2, <1>3 DEF Settleable, Charged
<1>7. ASSUME NEW c \in DOMAIN checks PROVE CheckTold(pays, o, new, c)
  <2>1. Covers(pays, o, new, c) <=> Covers(pays, o, order, c)
    BY <1>5, <1>6 DEF Covers
  <2> QED
    BY <1>2, <1>3, <1>5, <1>6, <2>1 DEF CheckTold
<1>8. PaidTold(new)
  <2>1. ASSUME checks # <<>>, order.paid, NEW c \in DOMAIN checks PROVE checks[c].status # "OPEN"
    <3>1. old # <<>>
      BY <1>3, <2>1 DEF checks
    <3>2. old[c].status # "OPEN"
      BY <1>3, <2>1, <3>1 DEF Settleable
    <3> QED
      BY <1>2, <1>3, <1>6, <3>2
  <2>2. checks # <<>> =>
          (settled <=> \A c \in DOMAIN checks : checks[c].status # "OPEN")
    BY <1>2, <1>3, <1>6
  <2> HIDE DEF settled
  <2> QED
    BY <1>5, <2>1, <2>2 DEF PaidTold, paid
<1> QED
  BY <1>1, <1>5, <1>6, <1>7, <1>8 DEF Told, Charged

-----------------------------------------------------------------------------
(* The steps of the Toast vendor keep CoverInv.                            *)

LEMMA RecordsAre ==
  ASSUME NEW order \in Toast!OrderRecords
  PROVE  /\ IsOrder(order) /\ Charged(order) /\ order # None
         /\ order.voided \in BOOLEAN /\ order.paid \in BOOLEAN
         /\ order.checks \in Toast!UpTo(Toast!Checks, MaxChecks)
<1>1. /\ order.voided \in BOOLEAN /\ order.paid \in BOOLEAN
      /\ order.checks \in Toast!UpTo(Toast!Checks, MaxChecks)
      /\ IsOrder(order)
  BY DEF Toast!OrderRecords, IsOrder
<1>2. \A c \in DOMAIN order.checks : order.checks[c] \in Toast!Checks
  BY <1>1 DEF Toast!UpTo
<1>3. Charged(order)
  BY <1>2, UnitAssumption DEF UnitAssumption, Charged, Toast!Checks
<1> QED
  BY <1>1, <1>3, UnitAssumption DEF UnitAssumption

LEMMA ChecksAre ==
  ASSUME NEW checks, NEW old \in Toast!UpTo(Toast!Checks, MaxChecks),
         checks = [c \in DOMAIN old |-> checks[c]],
         \A c \in DOMAIN old : checks[c] \in Toast!Checks
  PROVE  checks \in Toast!UpTo(Toast!Checks, MaxChecks)
<1>1. PICK k \in 0..MaxChecks : old \in [1..k -> Toast!Checks]
  BY DEF Toast!UpTo
<1>2. checks \in [1..k -> Toast!Checks]
  BY <1>1
<1> QED
  BY <1>1, <1>2 DEF Toast!UpTo

LEMMA RecordIs ==
  ASSUME NEW checks \in Toast!UpTo(Toast!Checks, MaxChecks), NEW voided \in BOOLEAN, NEW paid \in BOOLEAN,
         NEW order \in [checks : {checks}, voided : {voided}, paid : {paid}]
  PROVE  order \in Toast!OrderRecords
BY DEF Toast!OrderRecords

LEMMA SettleKeepsRecords ==
  ASSUME NEW pays, NEW o, NEW order \in Toast!OrderRecords
  PROVE  Toast!settle_order(pays, o, order) \in Toast!OrderRecords
<1> DEFINE old == order.checks
           checks == [c \in DOMAIN old |->
             [old[c] EXCEPT !.status = Toast!Settled(pays, o, c, old[c])]]
           settled == checks # <<>> /\ \A c \in DOMAIN checks : checks[c].status \in {"PAID", "CLOSED"}
           paid == order.paid \/ settled
           new == [order EXCEPT !.checks = checks, !.paid = paid]
<1>1. Toast!settle_order(pays, o, order) = new
  BY RecordsAre DEF Toast!settle_order, IsOrder
<1>2. /\ order.voided \in BOOLEAN /\ order.paid \in BOOLEAN /\ IsOrder(order)
      /\ old \in Toast!UpTo(Toast!Checks, MaxChecks)
  BY RecordsAre
<1>3. ASSUME NEW c \in DOMAIN old PROVE checks[c] \in Toast!Checks
  <2> DEFINE status == Toast!Settled(pays, o, c, old[c])
  <2>1. old[c] \in Toast!Checks
    BY <1>2 DEF Toast!UpTo
  <2>2. status \in {"PAID", "CLOSED", old[c].status}
    BY DEF Toast!Settled
  <2>3. checks[c] = [old[c] EXCEPT !.status = status]
    OBVIOUS
  <2> HIDE DEF status, checks
  <2> QED
    BY <2>1, <2>2, <2>3 DEF Toast!Checks, Toast!CHECK_MACHINE
<1>4. checks \in Toast!UpTo(Toast!Checks, MaxChecks)
  <2>1. checks = [c \in DOMAIN old |-> checks[c]]
    OBVIOUS
  <2> HIDE DEF checks
  <2> QED
    BY <1>2, <1>3, <2>1, ChecksAre
<1> HIDE DEF checks
<1>5. paid \in BOOLEAN
  BY <1>2
<1> HIDE DEF paid
<1>6. new \in [checks : {checks}, voided : {order.voided}, paid : {paid}]
  BY <1>2 DEF IsOrder
<1> QED
  BY <1>1, <1>2, <1>4, <1>5, <1>6, RecordIs

\* The payments a batch of requests asks for.
IsBatch(batch) ==
  \A i \in DOMAIN batch :
    /\ batch[i].check \in 1..MaxChecks
    /\ batch[i].amount \in TenderAmounts
    /\ batch[i].tipped \in BOOLEAN

LEMMA BatchesAre ==
  ASSUME NEW checks \in SUBSET (1..MaxChecks), NEW batch \in Toast!Batches(checks)
  PROVE  IsBatch(batch)
<1> DEFINE Requests == [id : Toast!Ids, check : checks, amount : TenderAmounts, tipped : BOOLEAN]
<1>1. PICK k \in 0..MaxBatch : batch \in [1..k -> Requests]
  BY DEF Toast!Batches, Toast!UpTo
<1>2. \A i \in DOMAIN batch : batch[i] \in Requests
  BY <1>1
<1>3. \A r \in Requests :
        r.check \in checks /\ r.amount \in TenderAmounts /\ r.tipped \in BOOLEAN
  OBVIOUS
<1> QED
  BY <1>2, <1>3 DEF IsBatch

(* The payments are records of money.                                      *)
LEMMA PaymentsAre ==
  ASSUME NEW payment \in Toast!PaymentRecords
  PROVE  /\ IsPayment(payment) /\ payment.amount \in Nat /\ payment # None
         /\ payment.order \in Orders
BY UnitAssumption DEF UnitAssumption, Toast!PaymentRecords, IsPayment

\* What a step may leave of a payment: as it was, or a payment of the order o.
PaymentKept(o, p) ==
  \/ toastPayments'[p] = toastPayments[p]
  \/ toastPayments'[p].order = o /\ toastPayments'[p] \in Toast!PaymentRecords

(* What storing an accepted batch does to the payments.                    *)
LEMMA StoreDoes ==
  ASSUME NEW o \in Orders, NEW checks, NEW batch, Toast!Accepted(o, checks, batch), IsBatch(batch),
         NEW p \in Toast!Ids
  PROVE  \/ Toast!Store(o, batch)[p] = toastPayments[p]
         \/ /\ toastPayments[p] = None
            /\ Toast!Store(o, batch)[p].order = o
            /\ Toast!Store(o, batch)[p] \in Toast!PaymentRecords
            /\ \E i \in DOMAIN batch :
                 /\ Toast!Store(o, batch)[p].check = batch[i].check
                 /\ checks[batch[i].check].status = "OPEN"
<1>1. SUFFICES ASSUME \E i \in DOMAIN batch : batch[i].id = p
               PROVE  /\ toastPayments[p] = None
                      /\ Toast!Store(o, batch)[p].order = o
                      /\ Toast!Store(o, batch)[p] \in Toast!PaymentRecords
                      /\ \E i \in DOMAIN batch :
                           /\ Toast!Store(o, batch)[p].check = batch[i].check
                           /\ checks[batch[i].check].status = "OPEN"
  BY DEF Toast!Store
<1> DEFINE i == CHOOSE j \in DOMAIN batch : batch[j].id = p
<1>2. i \in DOMAIN batch /\ batch[i].id = p
  BY <1>1
<1>3. Toast!Store(o, batch)[p] = [order |-> o, check |-> batch[i].check, amount |-> batch[i].amount,
                                  tipped |-> batch[i].tipped, voided |-> FALSE]
  BY <1>1 DEF Toast!Store
<1> HIDE DEF i
<1>4. toastPayments[p] = None /\ checks[batch[i].check].status = "OPEN"
  BY <1>2 DEF Toast!Accepted
<1>5. Toast!Store(o, batch)[p] \in Toast!PaymentRecords
  BY <1>2, <1>3 DEF IsBatch, Toast!PaymentRecords
<1> QED
  BY <1>2, <1>3, <1>4, <1>5 DEF IsBatch

\* What of an order is left to prove when its payments are stored.
Standing(pays, o, order) ==
  /\ order \in Toast!OrderRecords /\ ~order.voided
  /\ Told(pays, o, order)

LEMMA StandingSettles ==
  ASSUME NEW pays, NEW o, NEW order, Standing(pays, o, order)
  PROVE  Settleable(pays, o, order)
<1>1. IsOrder(order) /\ Charged(order) /\ order.paid \in BOOLEAN
  BY RecordsAre DEF Standing
<1>2. ASSUME NEW c \in DOMAIN order.checks
      PROVE  LET status == order.checks[c].status IN
             /\ status \in {"OPEN", "PAID", "CLOSED"}
             /\ status = "PAID" => Covers(pays, o, order, c)
             /\ status = "CLOSED" => Covers(pays, o, order, c) /\ ~Toast!AwaitingTip(pays, o, c)
  BY DEF Standing, Told, CheckTold
<1>3. order.paid /\ order.checks # <<>> =>
        \A c \in DOMAIN order.checks : order.checks[c].status # "OPEN"
  BY <1>1 DEF Standing, Told, PaidTold
<1> QED
  BY <1>1, <1>2, <1>3 DEF Settleable, Standing

(* An order whose payments were stored can be settled.                     *)
LEMMA StoreSettles ==
  ASSUME NEW o \in Orders, NEW order, Settleable(toastPayments, o, order), NEW batch, IsBatch(batch),
         Toast!Accepted(o, order.checks, batch)
  PROVE  Settleable(Toast!Store(o, batch), o, order)
<1> DEFINE pays == Toast!Store(o, batch)
<1>1. ASSUME NEW c \in DOMAIN order.checks, order.checks[c].status # "OPEN"
      PROVE  /\ Toast!covered_cents(pays, o, c) = Toast!covered_cents(toastPayments, o, c)
             /\ Toast!AwaitingTip(pays, o, c) => Toast!AwaitingTip(toastPayments, o, c)
  <2>1. ASSUME NEW p \in Toast!Ids
        PROVE  \/ pays[p] = toastPayments[p]
               \/ toastPayments[p] = None /\ pays[p].check # c
    BY <1>1, StoreDoes
  <2> HIDE DEF pays
  <2>2. \A p \in Toast!Ids :
          /\ p \in Toast!OfCheck(toastPayments, o, c) <=> p \in Toast!OfCheck(pays, o, c)
          /\ p \in Toast!OfCheck(toastPayments, o, c) => pays[p] = toastPayments[p]
    BY <2>1 DEF Toast!OfCheck
  <2>3. /\ Toast!LiveOf(pays, o, c) = Toast!LiveOf(toastPayments, o, c)
        /\ Toast!covered_cents(pays, o, c) = Toast!covered_cents(toastPayments, o, c)
    BY <2>2, CoverSame
  <2>4. \A p \in Toast!LiveOf(toastPayments, o, c) : pays[p] = toastPayments[p]
    BY <2>2 DEF Toast!LiveOf, Toast!OfCheck
  <2> QED
    BY <2>3, <2>4 DEF Toast!AwaitingTip
<1> HIDE DEF pays
<1> QED
  BY <1>1 DEF Settleable, Covers, pays

\* What a step of the order o leaves to prove of CoverInv.
Kept(o) ==
  /\ toastOrders'[o] \in Toast!OrderRecords
  /\ Told(toastPayments', o, toastOrders'[o])
  /\ \A p \in Toast!Ids : PaymentKept(o, p)

LEMMA CreateKeeps ==
  ASSUME CoverInv, NEW o \in Orders, NEW totals \in Toast!UpTo(CheckTotals, MaxChecks),
         NEW batch \in Toast!Batches(DOMAIN totals), Toast!CreateOrder(o, totals, batch)
  PROVE  Kept(o)
<1> DEFINE checks == [c \in DOMAIN totals |-> [total |-> totals[c], status |-> "OPEN"]]
           order == [checks |-> checks, voided |-> FALSE, paid |-> FALSE]
           pays == Toast!Store(o, batch)
<1>1. /\ toastOrders[o] = None /\ toastPayments' = pays
      /\ Toast!Accepted(o, checks, batch)
      /\ toastOrders'[o] = IF batch = <<>> THEN order ELSE Toast!settle_order(pays, o, order)
  BY DEF Toast!CreateOrder, CoverInv, VoidInv
<1>2. checks \in Toast!UpTo(Toast!Checks, MaxChecks)
  <2>1. PICK k \in 0..MaxChecks : totals \in [1..k -> CheckTotals]
    BY DEF Toast!UpTo
  <2>2. \A c \in 1..k : checks[c] \in Toast!Checks
    BY <2>1 DEF Toast!Checks, Toast!CHECK_MACHINE
  <2>3. checks \in [1..k -> Toast!Checks]
    BY <2>1, <2>2
  <2> QED
    BY <2>1, <2>3 DEF Toast!UpTo
<1>3. \A c \in DOMAIN checks : checks[c].status = "OPEN"
  OBVIOUS
<1> HIDE DEF checks
<1>4. order \in Toast!OrderRecords
  BY <1>2 DEF Toast!OrderRecords
<1>5. order.checks = checks /\ ~order.voided /\ ~order.paid
  OBVIOUS
<1> HIDE DEF order, pays
<1>6. Settleable(toastPayments, o, order)
  BY <1>3, <1>4, <1>5, RecordsAre DEF Settleable
<1>7. IsBatch(batch)
  <2>1. DOMAIN totals \in SUBSET (1..MaxChecks)
    BY UnitAssumption DEF UnitAssumption, Toast!UpTo
  <2> QED
    BY <2>1, BatchesAre
<1>8. Settleable(pays, o, order)
  BY <1>1, <1>5, <1>6, <1>7, StoreSettles DEF pays
<1>9. \A p \in Toast!Ids :
        \/ pays[p] = toastPayments[p]
        \/ pays[p].order = o /\ pays[p] \in Toast!PaymentRecords
  BY <1>1, <1>7, StoreDoes DEF pays
<1>10. CASE batch = <<>>
  <2>1. pays = [p \in Toast!Ids |-> toastPayments[p]]
    BY <1>10 DEF pays, Toast!Store
  <2>2. \A c : Toast!OfCheck(pays, o, c) = {}
    BY <1>1, <2>1 DEF CoverInv, Pays, Toast!OfCheck
  <2>3. \A c \in DOMAIN order.checks : CheckTold(pays, o, order, c)
    BY <1>3, <1>5, <2>2 DEF CheckTold
  <2>4. PaidTold(order)
    <3>1. order.checks # <<>> => \E c \in DOMAIN order.checks : TRUE
      BY <1>2, <1>5 DEF Toast!UpTo
    <3> QED
      BY <1>3, <1>5, <3>1 DEF PaidTold
  <2> QED
    BY <1>1, <1>4, <1>9, <1>10, <2>3, <2>4 DEF Kept, PaymentKept, Told
<1>11. CASE batch # <<>>
  BY <1>1, <1>4, <1>8, <1>9, <1>11, SettleTells, SettleKeepsRecords DEF Kept, PaymentKept
<1> QED
  BY <1>10, <1>11

LEMMA PaymentsKeep ==
  ASSUME CoverInv, NEW o \in Orders, NEW c \in Toast!ChecksOf(o),
         NEW batch \in Toast!Batches({c}), Toast!AddPayments(o, c, batch)
  PROVE  Kept(o)
<1> DEFINE order == toastOrders[o]
           pays == Toast!Store(o, batch)
<1>1. /\ order # None /\ ~order.voided /\ toastPayments' = pays
      /\ Toast!Accepted(o, order.checks, batch)
      /\ toastOrders'[o] = Toast!settle_order(pays, o, order)
  BY DEF Toast!AddPayments, Toast!Live, CoverInv, VoidInv
<1>2. Settleable(toastPayments, o, order) /\ order \in Toast!OrderRecords
  BY <1>1, StandingSettles DEF CoverInv, Standing
<1>3. IsBatch(batch)
  <2>1. DOMAIN order.checks \in SUBSET (1..MaxChecks)
    BY <1>2, UnitAssumption DEF UnitAssumption, Toast!OrderRecords, Toast!UpTo
  <2>2. {c} \in SUBSET (1..MaxChecks)
    BY <1>1, <2>1 DEF Toast!ChecksOf
  <2> QED
    BY <2>2, BatchesAre
<1>4. \A p \in Toast!Ids :
        \/ pays[p] = toastPayments[p]
        \/ pays[p].order = o /\ pays[p] \in Toast!PaymentRecords
  BY <1>1, <1>3, StoreDoes
<1>5. Settleable(pays, o, order)
  BY <1>1, <1>2, <1>3, StoreSettles
<1> HIDE DEF order, pays
<1> QED
  BY <1>1, <1>2, <1>4, <1>5, SettleTells, SettleKeepsRecords DEF Kept, PaymentKept

\* The order with another total for its check.
Repriced(order, c, total) == [order EXCEPT !.checks = [@ EXCEPT ![c].total = total]]

LEMMA RepricedIs ==
  ASSUME NEW order \in Toast!OrderRecords, NEW c \in DOMAIN order.checks, NEW total \in CheckTotals
  PROVE  /\ Repriced(order, c, total) \in Toast!OrderRecords
         /\ Repriced(order, c, total).voided = order.voided
         /\ Repriced(order, c, total).paid = order.paid
         /\ DOMAIN Repriced(order, c, total).checks = DOMAIN order.checks
         /\ (Repriced(order, c, total).checks = <<>>) <=> (order.checks = <<>>)
         /\ Repriced(order, c, total).checks[c].total = total
         /\ \A d \in DOMAIN order.checks :
              /\ Repriced(order, c, total).checks[d].status = order.checks[d].status
              /\ d # c => Repriced(order, c, total).checks[d] = order.checks[d]
<1> DEFINE old == order.checks
           check == [old[c] EXCEPT !.total = total]
           checks == [old EXCEPT ![c] = check]
           new == [order EXCEPT !.checks = checks]
<1>1. /\ IsOrder(order) /\ order.voided \in BOOLEAN /\ order.paid \in BOOLEAN
      /\ old \in Toast!UpTo(Toast!Checks, MaxChecks)
  BY RecordsAre
<1>2. Repriced(order, c, total) = new
  BY <1>1 DEF Repriced, IsOrder
<1>3. PICK k \in 0..MaxChecks : old \in [1..k -> Toast!Checks]
  BY <1>1 DEF Toast!UpTo
<1>4. check \in Toast!Checks /\ check.total = total /\ check.status = old[c].status
  BY <1>3 DEF Toast!Checks
<1> HIDE DEF check
<1>5. /\ checks \in [1..k -> Toast!Checks] /\ checks[c] = check
      /\ \A d \in DOMAIN old : d # c => checks[d] = old[d]
  BY <1>3, <1>4
<1>6. checks \in Toast!UpTo(Toast!Checks, MaxChecks) /\ DOMAIN checks = DOMAIN old
  BY <1>3, <1>5 DEF Toast!UpTo
<1>7. checks # <<>> /\ old # <<>>
  BY <1>6
<1> HIDE DEF checks
<1>8. new \in [checks : {checks}, voided : {order.voided}, paid : {order.paid}]
  BY <1>1 DEF IsOrder
<1> HIDE DEF new
<1>9. new \in Toast!OrderRecords
  BY <1>1, <1>6, <1>8, RecordIs
<1>10. new.checks = checks /\ new.voided = order.voided /\ new.paid = order.paid
  BY <1>8
<1> QED
  BY <1>2, <1>4, <1>5, <1>6, <1>7, <1>9, <1>10

LEMMA SelectionsKeep ==
  ASSUME CoverInv, NEW o \in Orders, NEW c \in Toast!ChecksOf(o), NEW total \in CheckTotals,
         Toast!AddSelections(o, c, total)
  PROVE  Kept(o)
<1> DEFINE order == toastOrders[o]
           new == Repriced(order, c, total)
<1>1. order # None /\ ~order.voided /\ order \in Toast!OrderRecords /\ Told(toastPayments, o, order)
  BY DEF Toast!AddSelections, Toast!Live, CoverInv
<1>2. /\ c \in DOMAIN order.checks /\ order.checks[c].status = "OPEN"
      /\ total >= order.checks[c].total /\ toastPayments' = toastPayments
  BY <1>1 DEF Toast!AddSelections, Toast!ChecksOf
<1>3. toastOrders'[o] = new
  BY <1>1 DEF Toast!AddSelections, Repriced, CoverInv, VoidInv
<1>4. /\ new \in Toast!OrderRecords /\ new.voided = order.voided /\ new.paid = order.paid
      /\ DOMAIN new.checks = DOMAIN order.checks /\ (new.checks = <<>> <=> order.checks = <<>>)
      /\ new.checks[c].total = total
      /\ \A d \in DOMAIN order.checks :
           new.checks[d].status = order.checks[d].status /\ (d # c => new.checks[d] = order.checks[d])
  BY <1>1, <1>2, RepricedIs
<1>5. /\ order.checks[c].total \in Nat /\ total \in Nat
      /\ Toast!covered_cents(toastPayments, o, c) \in Int
  <2>1. Charged(order)
    BY <1>1, RecordsAre
  <2> QED
    BY <1>2, <2>1, CoverIsInt, PaymentsAre, UnitAssumption DEF Charged, UnitAssumption, CoverInv, Pays
<1> HIDE DEF new, order
<1>6. Covers(toastPayments, o, new, c) => Covers(toastPayments, o, order, c)
  BY <1>2, <1>4, <1>5 DEF Covers
<1>7. CheckTold(toastPayments, o, new, c)
  BY <1>1, <1>2, <1>4, <1>6 DEF Told, CheckTold
<1>8. ASSUME NEW d \in DOMAIN order.checks, d # c PROVE CheckTold(toastPayments, o, new, d)
  BY <1>1, <1>4, <1>8 DEF Told, CheckTold, Covers
<1>9. PaidTold(new)
  BY <1>1, <1>4 DEF Told, PaidTold
<1> QED
  BY <1>2, <1>3, <1>4, <1>7, <1>8, <1>9 DEF Kept, PaymentKept, Told

LEMMA DiscountsKeep ==
  ASSUME CoverInv, NEW o \in Orders, NEW c \in Toast!ChecksOf(o), NEW total \in CheckTotals,
         Toast!ApplyDiscounts(o, c, total)
  PROVE  Kept(o)
<1> DEFINE order == toastOrders[o]
           new == Repriced(order, c, total)
<1>1. order # None /\ ~order.voided /\ order \in Toast!OrderRecords /\ Told(toastPayments, o, order)
  BY DEF Toast!ApplyDiscounts, Toast!Live, CoverInv
<1>2. /\ c \in DOMAIN order.checks /\ toastPayments' = toastPayments
      /\ total >= Toast!covered_cents(toastPayments, o, c)
      /\ total <= order.checks[c].total
  BY <1>1 DEF Toast!ApplyDiscounts, Toast!ChecksOf
<1>3. toastOrders'[o] = Toast!settle_order(toastPayments, o, new)
  BY <1>1 DEF Toast!ApplyDiscounts, Repriced, CoverInv, VoidInv
<1>4. /\ new \in Toast!OrderRecords /\ new.voided = order.voided /\ new.paid = order.paid
      /\ DOMAIN new.checks = DOMAIN order.checks /\ (new.checks = <<>> <=> order.checks = <<>>)
      /\ new.checks[c].total = total
      /\ \A d \in DOMAIN order.checks :
           new.checks[d].status = order.checks[d].status /\ (d # c => new.checks[d] = order.checks[d])
  BY <1>1, <1>2, RepricedIs
<1>5. /\ order.checks[c].total \in Nat /\ total \in Nat
      /\ Toast!covered_cents(toastPayments, o, c) \in Int
  <2>1. Charged(order)
    BY <1>1, RecordsAre
  <2> QED
    BY <1>2, <2>1, CoverIsInt, PaymentsAre, UnitAssumption DEF Charged, UnitAssumption, CoverInv, Pays
<1>6. Settleable(toastPayments, o, order)
  BY <1>1, StandingSettles DEF Standing
<1>7. IsOrder(new) /\ Charged(new)
  BY <1>4, RecordsAre
<1> HIDE DEF new, order
<1>8. \A d \in DOMAIN order.checks :
        Covers(toastPayments, o, order, d) => Covers(toastPayments, o, new, d)
  BY <1>2, <1>4, <1>5 DEF Covers
<1>9. Settleable(toastPayments, o, new)
  BY <1>4, <1>6, <1>7, <1>8 DEF Settleable
<1> QED
  BY <1>2, <1>3, <1>4, <1>9, SettleTells, SettleKeepsRecords DEF Kept, PaymentKept

LEMMA TipKeeps ==
  ASSUME CoverInv, NEW o \in Orders, NEW p \in Toast!Ids, Toast!UpdateTip(o, p)
  PROVE  Kept(o)
<1> DEFINE order == toastOrders[o]
           payment == [toastPayments[p] EXCEPT !.tipped = TRUE]
           pays == [toastPayments EXCEPT ![p].tipped = TRUE]
<1>1. /\ order # None /\ ~order.voided /\ order \in Toast!OrderRecords /\ Told(toastPayments, o, order)
      /\ toastPayments[p] # None /\ toastPayments[p].order = o /\ toastPayments' = pays
      /\ toastOrders'[o] = Toast!settle_order(pays, o, order)
  BY DEF Toast!UpdateTip, Toast!Live, CoverInv, VoidInv
<1>2. pays[p] = payment /\ \A q \in Toast!Ids : q # p => pays[q] = toastPayments[q]
  BY DEF CoverInv, VoidInv
<1>3. toastPayments[p] \in Toast!PaymentRecords
  BY <1>1 DEF CoverInv, Pays
<1>4. payment \in [order : {o}, check : {toastPayments[p].check}, amount : {toastPayments[p].amount},
                   tipped : {TRUE}, voided : {toastPayments[p].voided}]
  BY <1>1, <1>3, PaymentsAre DEF IsPayment
<1>5. payment \in Toast!PaymentRecords
  BY <1>3 DEF Toast!PaymentRecords
<1> HIDE DEF payment, pays, order
<1>6. /\ pays[p].order = o /\ pays[p].check = toastPayments[p].check /\ pays[p].tipped
      /\ pays[p].amount = toastPayments[p].amount /\ pays[p].voided = toastPayments[p].voided
      /\ pays[p] \in Toast!PaymentRecords /\ pays[p] # None
  BY <1>2, <1>4, <1>5, PaymentsAre
<1>7. ASSUME NEW c
      PROVE  /\ Toast!covered_cents(pays, o, c) = Toast!covered_cents(toastPayments, o, c)
             /\ Toast!AwaitingTip(pays, o, c) => Toast!AwaitingTip(toastPayments, o, c)
  <2>1. \A q \in Toast!Ids :
          /\ q \in Toast!OfCheck(toastPayments, o, c) <=> q \in Toast!OfCheck(pays, o, c)
          /\ q \in Toast!OfCheck(toastPayments, o, c) =>
               toastPayments[q].amount = pays[q].amount /\ toastPayments[q].voided = pays[q].voided
    BY <1>1, <1>2, <1>6 DEF Toast!OfCheck
  <2>2. /\ Toast!LiveOf(pays, o, c) = Toast!LiveOf(toastPayments, o, c)
        /\ Toast!covered_cents(pays, o, c) = Toast!covered_cents(toastPayments, o, c)
    BY <2>1, CoverSame
  <2>3. \A q \in Toast!LiveOf(toastPayments, o, c) : q # p => pays[q] = toastPayments[q]
    BY <1>2 DEF Toast!LiveOf, Toast!OfCheck
  <2> QED
    BY <1>6, <2>2, <2>3 DEF Toast!AwaitingTip
<1>8. Settleable(toastPayments, o, order)
  BY <1>1, StandingSettles DEF Standing
<1>9. Settleable(pays, o, order)
  BY <1>7, <1>8 DEF Settleable, Covers
<1> QED
  BY <1>1, <1>2, <1>6, <1>9, SettleTells, SettleKeepsRecords DEF Kept, PaymentKept

LEMMA VoidKeeps ==
  ASSUME CoverInv, NEW o \in Orders, Toast!VoidOrder(o)
  PROVE  Kept(o)
<1> DEFINE order == toastOrders[o]
           mine == {p \in Toast!Ids : toastPayments[p] # None /\ toastPayments[p].order = o}
           check(c) == [order.checks[c] EXCEPT !.status = "VOIDED"]
           checks == [c \in DOMAIN order.checks |-> check(c)]
           new == [order EXCEPT !.voided = TRUE, !.checks = checks]
           gone(p) == [toastPayments[p] EXCEPT !.voided = TRUE]
<1>1. order # None /\ order \in Toast!OrderRecords
  BY DEF Toast!VoidOrder, Toast!Live, CoverInv
<1>2. /\ IsOrder(order) /\ order.paid \in BOOLEAN
      /\ order.checks \in Toast!UpTo(Toast!Checks, MaxChecks)
  BY <1>1, RecordsAre
<1>3. /\ toastOrders'[o] = new
      /\ toastPayments' = [p \in Toast!Ids |-> IF p \in mine THEN gone(p) ELSE toastPayments[p]]
  BY <1>2 DEF Toast!VoidOrder, CoverInv, VoidInv, IsOrder
<1>4. ASSUME NEW c \in DOMAIN order.checks
      PROVE  check(c) \in Toast!Checks /\ check(c).status = "VOIDED"
  <2>1. order.checks[c] \in Toast!Checks
    BY <1>2 DEF Toast!UpTo
  <2> QED
    BY <2>1 DEF Toast!Checks, Toast!CHECK_MACHINE
<1> HIDE DEF check
<1>5. checks \in Toast!UpTo(Toast!Checks, MaxChecks)
  BY <1>2, <1>4, ChecksAre
<1>6. \A c \in DOMAIN checks : checks[c].status = "VOIDED"
  BY <1>4
<1> HIDE DEF checks
<1>7. new \in [checks : {checks}, voided : {TRUE}, paid : {order.paid}]
  BY <1>2 DEF IsOrder
<1> HIDE DEF new
<1>8. new \in Toast!OrderRecords /\ new.checks = checks /\ new.voided
  BY <1>2, <1>5, <1>7, RecordIs
<1>9. ASSUME NEW p \in mine
      PROVE  gone(p).order = o /\ gone(p) \in Toast!PaymentRecords /\ gone(p).voided
  <2>1. toastPayments[p] \in Toast!PaymentRecords /\ toastPayments[p].order = o
    BY DEF CoverInv, Pays
  <2> QED
    BY <2>1 DEF Toast!PaymentRecords
<1> HIDE DEF order, gone
<1>10. \A c : Toast!LiveOf(toastPayments', o, c) = {}
  BY <1>3, <1>9 DEF Toast!LiveOf, Toast!OfCheck
<1>11. Told(toastPayments', o, new)
  BY <1>6, <1>8, <1>10 DEF Told, CheckTold, PaidTold
<1>12. \A p \in Toast!Ids : PaymentKept(o, p)
  BY <1>3, <1>9 DEF PaymentKept
<1> QED
  BY <1>3, <1>8, <1>11, <1>12 DEF Kept

LEMMA CoverStep == CoverInv /\ [Toast!Next]_(Toast!toastVars) => CoverInv'
<1> SUFFICES ASSUME CoverInv, [Toast!Next]_(Toast!toastVars) PROVE CoverInv'
  OBVIOUS
<1>1. CASE UNCHANGED Toast!toastVars
  BY <1>1 DEF Toast!toastVars, CoverInv, VoidInv, NoneLive
<1>2. CASE Toast!Next
  <2>1. VoidInv'
    BY <1>2, VoidStep DEF CoverInv
  <2>2. PICK o \in Orders : ToastAction(o)
    BY <1>2, ToastNext
  <2>3. PICK new : Concerns(o, new)
    BY <2>2, ToastSteps DEF CoverInv
  <2>4. Kept(o)
    BY <2>2, CreateKeeps, PaymentsKeep, SelectionsKeep, DiscountsKeep, TipKeeps, VoidKeeps
       DEF ToastAction
  <2>5. \A x \in Orders : x # o => toastOrders'[x] = toastOrders[x]
    BY <2>3 DEF Concerns
  <2>6. ASSUME NEW x \in Orders, toastOrders'[x] # None
        PROVE  toastOrders'[x] \in Toast!OrderRecords /\ Told(toastPayments', x, toastOrders'[x])
    <3>1. CASE x = o
      BY <2>4, <3>1 DEF Kept
    <3>2. CASE x # o
      <4>1. \A p \in Toast!Ids :
              \/ toastPayments'[p] = toastPayments[p]
              \/ /\ toastPayments'[p].order # x
                 /\ toastPayments[p] = None \/ toastPayments[p].order # x
        BY <2>3, <3>2 DEF Concerns
      <4>2. /\ toastOrders'[x] = toastOrders[x] /\ toastOrders[x] \in Toast!OrderRecords
            /\ Told(toastPayments, x, toastOrders[x])
        BY <2>5, <2>6, <3>2 DEF CoverInv
      <4> QED
        BY <4>1, <4>2, OtherOrders
    <3> QED
      BY <3>1, <3>2
  <2>7. Pays(toastPayments', toastOrders')
    <3> SUFFICES ASSUME NEW p \in Toast!Ids, toastPayments'[p] # None
                 PROVE  /\ toastPayments'[p] \in Toast!PaymentRecords
                        /\ toastOrders'[toastPayments'[p].order] # None
      BY DEF Pays
    <3>1. toastOrders'[o] # None
      BY <2>4, RecordsAre DEF Kept
    <3>2. CASE toastPayments'[p] = toastPayments[p]
      BY <2>5, <3>1, <3>2, PaymentsAre DEF CoverInv, Pays
    <3>3. CASE toastPayments'[p].order = o /\ toastPayments'[p] \in Toast!PaymentRecords
      BY <3>1, <3>3
    <3> QED
      BY <2>4, <3>2, <3>3 DEF Kept, PaymentKept
  <2> QED
    BY <2>1, <2>6, <2>7 DEF CoverInv
<1> QED
  BY <1>1, <1>2

LEMMA ToastCovers == Toast!Spec => []CoverInv
<1>1. Toast!Init => CoverInv
  BY DEF Toast!Init, CoverInv, VoidInv, Pays
<1> QED
  BY <1>1, CoverStep, PTL DEF Toast!Spec

(* In every unit the stored Toast orders and payments are of their types.  *)
THEOREM UnitKeepsToastTypes == UnitSpec => []Toast!ToastTypeOK
<1>1. CoverInv => Toast!ToastTypeOK
  <2> SUFFICES ASSUME CoverInv PROVE Toast!ToastTypeOK
    OBVIOUS
  <2>1. toastPayments = [p \in Toast!Ids |-> toastPayments[p]]
    BY DEF CoverInv, VoidInv
  <2>2. \A p \in Toast!Ids : toastPayments[p] \in Toast!PaymentRecords \cup {None}
    BY DEF CoverInv, Pays
  <2>3. toastPayments \in [Toast!Ids -> Toast!PaymentRecords \cup {None}]
    BY <2>1, <2>2
  <2> QED
    BY <2>3 DEF Toast!ToastTypeOK, CoverInv
<1> QED
  BY <1>1, UnitIsToast, ToastCovers, PTL

(* In every unit the status of every Toast check tells what it was paid.   *)
THEOREM UnitStatusesTell == UnitSpec => []StatusTellsCoverage
<1>1. CoverInv => StatusTellsCoverage
  BY ToldIsTells DEF CoverInv
<1> QED
  BY <1>1, UnitIsToast, ToastCovers, PTL

(* The unit implements the Lightspeed vendor.                              *)
THEOREM UnitIsLightspeed == UnitSpec => Lightspeed!Spec
<1>1. UnitInit => Lightspeed!Init
  BY DEF UnitInit
<1>2. [UnitNext]_unitVars => [Lightspeed!Next]_(Lightspeed!saleVars)
  BY DEF UnitNext, Clover_Next, Toast_Next, Lightspeed_Next, unitVars, lightspeedUnit,
         Lightspeed!saleVars
<1> QED
  BY <1>1, <1>2, PTL DEF UnitSpec, Lightspeed!Spec

-----------------------------------------------------------------------------
(* Lightspeed: what the payments of a request become.                      *)

LEMMA MinIs ==
  ASSUME NEW S \in SUBSET Nat, S # {}
  PROVE  Lightspeed!Min(S) \in S
<1>1. \E x \in S : \A y \in S : x =< y
  BY LeastNat
<1> QED
  BY <1>1 DEF Lightspeed!Min

\* The payments a request states.
Stated == [id : Nat, amount : SaleAmounts]
\* What has become of the first payments of a request.
Built == [payments : Seq(Lightspeed!PaymentRecords), kept : SUBSET Nat, minted : Nat]

\* The id a payment gets, and whether it is new.
Carried(built, request, stored) == Lightspeed!Carries(stored, request.amount, built.kept)
Fresh(built, request, stored) == request.id = 0 /\ Carried(built, request, stored) = {}
IdOf(built, request, stored) ==
  IF request.id # 0 THEN request.id
  ELSE IF Fresh(built, request, stored) THEN built.minted + 1
       ELSE stored[Lightspeed!Min(Carried(built, request, stored))].id

LEMMA BuildPaymentIs ==
  ASSUME NEW b \in Built, NEW request \in Stated, NEW stored \in Seq(Lightspeed!PaymentRecords),
         NEW register \in Registers, now \in Nat
  PROVE  LET id == IdOf(b, request, stored)
             new == Lightspeed!BuildPayment(b, request, stored, register)
         IN /\ id \in Nat \ {0}
            /\ new \in Built
            /\ new.payments = Append(b.payments,
                 [id |-> id, amount |-> request.amount, register |-> register, date |-> now])
            /\ new.kept = b.kept \cup {id}
            /\ new.minted = IF Fresh(b, request, stored) THEN id ELSE b.minted
            /\ ~Fresh(b, request, stored) /\ request.id = 0 =>
                 \E i \in DOMAIN stored :
                   stored[i].id = id /\ stored[i].amount = request.amount /\ id \notin b.kept
<1> DEFINE carried == Carried(b, request, stored)
           fresh == Fresh(b, request, stored)
           id == IdOf(b, request, stored)
           payment == [id |-> id, amount |-> request.amount, register |-> register, date |-> now]
           new == [payments |-> Append(b.payments, payment), kept |-> b.kept \cup {id},
                   minted |-> IF fresh THEN id ELSE b.minted]
<1>1. Lightspeed!BuildPayment(b, request, stored, register) = new
  BY DEF Lightspeed!BuildPayment, IdOf, Fresh, Carried
<1>2. carried # {} => /\ Lightspeed!Min(carried) \in DOMAIN stored
                      /\ stored[Lightspeed!Min(carried)].amount = request.amount
                      /\ stored[Lightspeed!Min(carried)].id \notin b.kept
  <2>1. carried \in SUBSET Nat
    BY LenProperties DEF Carried, Lightspeed!Carries
  <2>2. carried # {} => Lightspeed!Min(carried) \in carried
    BY <2>1, MinIs
  <2> QED
    BY <2>2 DEF Carried, Lightspeed!Carries
<1>3. \A i \in DOMAIN stored : stored[i].id \in Nat \ {0}
  <2>1. \A i \in DOMAIN stored : stored[i] \in Lightspeed!PaymentRecords
    BY ElementOfSeq, LenProperties
  <2> QED
    BY <2>1 DEF Lightspeed!PaymentRecords
<1>4. b.minted \in Nat /\ b.kept \in SUBSET Nat /\ b.payments \in Seq(Lightspeed!PaymentRecords)
  BY DEF Built
<1>5. request.id \in Nat /\ request.amount \in SaleAmounts
  BY DEF Stated
<1>6. id \in Nat \ {0}
  BY <1>2, <1>3, <1>4, <1>5 DEF IdOf, Fresh
<1>7. ~fresh /\ request.id = 0 =>
        \E i \in DOMAIN stored :
          stored[i].id = id /\ stored[i].amount = request.amount /\ id \notin b.kept
  BY <1>2 DEF IdOf, Fresh
<1> HIDE DEF id, fresh
<1>8. payment \in Lightspeed!PaymentRecords
  BY <1>5, <1>6 DEF Lightspeed!PaymentRecords
<1>9. Append(b.payments, payment) \in Seq(Lightspeed!PaymentRecords)
  BY <1>4, <1>8, AppendProperties
<1>10. new \in Built
  BY <1>4, <1>6, <1>9 DEF Built
<1> QED
  BY <1>1, <1>6, <1>7, <1>10 DEF id, fresh

Builds(built, N, requests, stored, register) ==
  /\ built \in [0..N -> Built]
  /\ built[0] = [payments |-> <<>>, minted |-> minted,
                 kept |-> {requests[i].id : i \in DOMAIN requests} \ {0}]
  /\ \A n \in 1..N :
       built[n] = Lightspeed!BuildPayment(built[n - 1], requests[n], stored, register)
  /\ Lightspeed!BuildPayments(requests, stored, register) = built[N]

(* The payments of a request are built one after the other.                *)
LEMMA BuildUnfolds ==
  ASSUME NEW N \in Nat, NEW requests \in [1..N -> Stated],
         NEW stored \in Seq(Lightspeed!PaymentRecords), NEW register \in Registers,
         now \in Nat, minted \in Nat
  PROVE  \E built : Builds(built, N, requests, stored, register)
<1> DEFINE stated == {requests[i].id : i \in DOMAIN requests} \ {0}
           first == [payments |-> <<>>, minted |-> minted, kept |-> stated]
           next(b, n) == Lightspeed!BuildPayment(b, requests[n], stored, register)
<1> DEFINE built[n \in 0..N] == IF n = 0 THEN first ELSE next(built[n - 1], n)
<1> DEFINE step == [n \in 1..N |-> [b \in Built |-> next(b, n)]]
<1>1. first \in Built
  <2>1. stated \in SUBSET Nat
    BY DEF Stated
  <2> QED
    BY <2>1, EmptySeq DEF Built
<1>2. \A n \in 1..N, b \in Built : next(b, n) \in Built
  BY BuildPaymentIs
<1>3. Len(requests) = N
  BY LenProperties
<1>4. Lightspeed!BuildPayments(requests, stored, register) = built[N]
  BY <1>3 DEF Lightspeed!BuildPayments
<1> HIDE DEF first, next
<1>5. step \in [1..N -> [Built -> Built]]
  BY <1>2
<1>6. PICK f : Follows(f, N, Built, first, step)
  <2> HIDE DEF step
  <2> QED
    BY <1>1, <1>5, Iterates
<1>7. f \in [0..N -> Built] /\ f[0] = first /\ \A n \in 1..N : f[n] = step[n][f[n - 1]]
  BY <1>6 DEF Follows
<1>8. \A n \in 1..N : f[n] = next(f[n - 1], n)
  <2>1. \A n \in 1..N : n - 1 \in 0..N
    OBVIOUS
  <2> QED
    BY <1>7, <2>1
<1> HIDE DEF step
<1>9. f = [n \in 0..N |-> IF n = 0 THEN first ELSE next(f[n - 1], n)]
  BY <1>7, <1>8
<1>10. built = [n \in 0..N |-> IF n = 0 THEN first ELSE next(built[n - 1], n)]
  BY <1>9
<1> HIDE DEF built
<1> DEFINE Good == {n \in Nat : n <= N => built[n] = f[n]}
<1>11. 0 \in Good
  BY <1>7, <1>10
<1>12. ASSUME NEW n \in Good PROVE n + 1 \in Good
  <2> SUFFICES ASSUME n + 1 <= N PROVE built[n + 1] = f[n + 1]
    OBVIOUS
  <2>1. n + 1 \in 1..N /\ n + 1 \in 0..N /\ n + 1 # 0 /\ (n + 1) - 1 = n /\ built[n] = f[n]
    OBVIOUS
  <2>2. built[n + 1] = next(built[n], n + 1)
    BY <1>10, <2>1
  <2>3. f[n + 1] = next(f[n], n + 1)
    BY <1>8, <2>1
  <2> QED
    BY <2>1, <2>2, <2>3
<1>13. Good = Nat
  <2> HIDE DEF Good
  <2> QED
    BY <1>11, <1>12, InductiveIsNat DEF Good
<1>14. built[N] = f[N]
  BY <1>13
<1> QED
  BY <1>4, <1>7, <1>8, <1>14 DEF Builds, first, next

\* The payments a sale holds: known ids, no id twice.
Listed(payments_) ==
  /\ payments_ \in Seq(Lightspeed!PaymentRecords)
  /\ \A i \in DOMAIN payments_ : payments_[i].id <= minted
  /\ \A i, j \in DOMAIN payments_ : i # j => payments_[i].id # payments_[j].id

\* The payments a caller states: new ones, or stored ones each once.
StatedFor(N, requests, stored) ==
  /\ requests \in [1..N -> Stated]
  /\ \A i \in 1..N : requests[i].id # 0 =>
       \E j \in DOMAIN stored : stored[j].id = requests[i].id /\ stored[j].amount = requests[i].amount
  /\ \A i, j \in 1..N : i # j /\ requests[i].id = requests[j].id => requests[i].id = 0

\* What holds of the first n payments built.
Progress(b, n, requests, stored, register) ==
  LET list == b.payments
      stated == {requests[i].id : i \in DOMAIN requests} \ {0}
  IN /\ b \in Built /\ Len(list) = n /\ minted <= b.minted
     /\ b.kept = stated \cup {list[i].id : i \in 1..n}
     /\ \A i \in 1..n :
          /\ list[i].amount = requests[i].amount /\ list[i].register = register
          /\ list[i].date = now /\ list[i].id <= b.minted
          /\ IF requests[i].id # 0 THEN list[i].id = requests[i].id ELSE list[i].id \notin stated
          /\ \/ /\ list[i].id > minted
                /\ \A j \in DOMAIN stored : stored[j].amount = list[i].amount => stored[j].id \in b.kept
             \/ \E j \in DOMAIN stored : stored[j].id = list[i].id /\ stored[j].amount = list[i].amount
     /\ \A i, j \in 1..n : i # j => list[i].id # list[j].id

LEMMA ProgressStep ==
  ASSUME NEW N \in Nat, NEW requests, NEW stored, StatedFor(N, requests, stored), Listed(stored),
         NEW register \in Registers, now \in Nat, minted \in Nat,
         NEW n \in 0..N, n # N, NEW b, Progress(b, n, requests, stored, register)
  PROVE  Progress(Lightspeed!BuildPayment(b, requests[n + 1], stored, register), n + 1,
                  requests, stored, register)
<1> DEFINE request == requests[n + 1]
           list == b.payments
           id == IdOf(b, request, stored)
           fresh == Fresh(b, request, stored)
           payment == [id |-> id, amount |-> request.amount, register |-> register, date |-> now]
           c == Lightspeed!BuildPayment(b, request, stored, register)
           more == Append(list, payment)
           stated == {requests[i].id : i \in DOMAIN requests} \ {0}
<1>1. /\ b \in Built /\ Len(list) = n /\ minted <= b.minted /\ b.minted \in Nat
      /\ list \in Seq(Lightspeed!PaymentRecords) /\ n \in Nat
      /\ b.kept = stated \cup {list[i].id : i \in 1..n}
  BY DEF Progress, Built
<1>2. request \in Stated /\ stored \in Seq(Lightspeed!PaymentRecords)
  BY DEF StatedFor, Listed
<1>3. /\ id \in Nat \ {0} /\ c \in Built /\ c.payments = more
      /\ c.kept = b.kept \cup {id} /\ c.minted = IF fresh THEN id ELSE b.minted
      /\ ~fresh /\ request.id = 0 =>
           \E i \in DOMAIN stored :
             stored[i].id = id /\ stored[i].amount = request.amount /\ id \notin b.kept
  <2>1. n + 1 \in 1..N
    OBVIOUS
  <2> HIDE DEF request
  <2>2. LET new == Lightspeed!BuildPayment(b, request, stored, register) IN
          /\ IdOf(b, request, stored) \in Nat \ {0}
          /\ new \in Built
          /\ new.payments = Append(b.payments,
               [id |-> IdOf(b, request, stored), amount |-> request.amount,
                register |-> register, date |-> now])
          /\ new.kept = b.kept \cup {IdOf(b, request, stored)}
          /\ new.minted = IF Fresh(b, request, stored) THEN IdOf(b, request, stored) ELSE b.minted
          /\ ~Fresh(b, request, stored) /\ request.id = 0 =>
               \E i \in DOMAIN stored :
                 /\ stored[i].id = IdOf(b, request, stored) /\ stored[i].amount = request.amount
                 /\ IdOf(b, request, stored) \notin b.kept
    BY <1>1, <1>2, BuildPaymentIs
  <2> QED
    BY <2>2
<1>4. /\ request.id # 0 => id = request.id /\ ~fresh
      /\ fresh => id = b.minted + 1 /\ request.id = 0
  BY DEF IdOf, Fresh
<1>5. fresh => \A j \in DOMAIN stored : stored[j].amount = request.amount => stored[j].id \in b.kept
  BY DEF Fresh, Carried, Lightspeed!Carries
<1>6. /\ Len(more) = n + 1 /\ more[n + 1] = payment
      /\ \A i \in 1..n : more[i] = list[i]
  BY <1>1, AppendProperties
<1>7. /\ payment.id = id /\ payment.amount = request.amount /\ payment.register = register
      /\ payment.date = now
  OBVIOUS
<1>8. \A i \in 1..n : list[i].id \in Nat
  <2>1. \A i \in 1..n : list[i] \in Lightspeed!PaymentRecords
    BY <1>1, ElementOfSeq
  <2> QED
    BY <2>1 DEF Lightspeed!PaymentRecords
<1> HIDE DEF payment, more, c, id, fresh
<1>9. \/ id > minted /\ \A j \in DOMAIN stored : stored[j].amount = request.amount => stored[j].id \in b.kept
      \/ \E j \in DOMAIN stored : stored[j].id = id /\ stored[j].amount = request.amount
  <2>1. CASE fresh
    BY <1>1, <1>4, <1>5, <2>1
  <2>2. CASE ~fresh /\ request.id = 0
    BY <1>3, <2>2
  <2>3. CASE request.id # 0
    BY <1>4, <2>3 DEF StatedFor
  <2> QED
    BY <2>1, <2>2, <2>3
<1>10. id <= c.minted /\ b.minted <= c.minted /\ c.minted \in Nat
  <2>1. CASE fresh
    BY <1>1, <1>3, <1>4, <2>1
  <2>2. CASE ~fresh
    <3>1. \E j \in DOMAIN stored : stored[j].id = id
      <4>1. CASE request.id = 0
        BY <1>3, <2>2, <4>1
      <4>2. CASE request.id # 0
        BY <1>4, <4>2 DEF StatedFor
      <4> QED
        BY <4>1, <4>2
    <3>2. id <= minted
      BY <3>1 DEF Listed
    <3> QED
      BY <1>1, <1>3, <2>2, <3>2
  <2> QED
    BY <2>1, <2>2
<1>11. \A i \in 1..n : list[i].id # id
  <2> SUFFICES ASSUME NEW i \in 1..n, list[i].id = id PROVE FALSE
    OBVIOUS
  <2>1. list[i].id <= b.minted /\ list[i].id \in b.kept
    BY <1>1 DEF Progress
  <2>2. ~fresh
    BY <1>1, <1>4, <1>8, <2>1
  <2>3. request.id # 0
    BY <1>3, <2>1, <2>2
  <2>4. requests[i].id = 0
    BY <1>4, <2>3 DEF Progress, StatedFor
  <2>5. list[i].id \notin stated
    BY <2>4 DEF Progress
  <2>6. request.id \in stated
    BY <2>3 DEF StatedFor
  <2> QED
    BY <1>4, <2>3, <2>5, <2>6
<1>12. request.id = 0 => id \notin stated
  <2> SUFFICES ASSUME request.id = 0, id \in stated PROVE FALSE
    OBVIOUS
  <2>1. id <= minted
    BY DEF StatedFor, Listed
  <2>2. id \in b.kept
    BY <1>1
  <2> QED
    BY <1>1, <1>3, <1>4, <2>1, <2>2
<1>13. ASSUME NEW i \in 1..(n + 1)
       PROVE  /\ more[i].amount = requests[i].amount /\ more[i].register = register
              /\ more[i].date = now /\ more[i].id <= c.minted
              /\ IF requests[i].id # 0 THEN more[i].id = requests[i].id ELSE more[i].id \notin stated
              /\ \/ /\ more[i].id > minted
                    /\ \A j \in DOMAIN stored :
                         stored[j].amount = more[i].amount => stored[j].id \in c.kept
                 \/ \E j \in DOMAIN stored :
                      stored[j].id = more[i].id /\ stored[j].amount = more[i].amount
  <2>1. CASE i = n + 1
    BY <1>3, <1>4, <1>6, <1>7, <1>9, <1>10, <1>12, <2>1
  <2>2. CASE i \in 1..n
    <3>1. /\ list[i].amount = requests[i].amount /\ list[i].register = register
          /\ list[i].date = now /\ list[i].id <= b.minted
          /\ IF requests[i].id # 0 THEN list[i].id = requests[i].id ELSE list[i].id \notin stated
          /\ \/ /\ list[i].id > minted
                /\ \A j \in DOMAIN stored : stored[j].amount = list[i].amount => stored[j].id \in b.kept
             \/ \E j \in DOMAIN stored : stored[j].id = list[i].id /\ stored[j].amount = list[i].amount
      BY <2>2 DEF Progress
    <3>2. list[i].id <= c.minted
      BY <1>1, <1>8, <1>10, <2>2, <3>1
    <3> QED
      BY <1>3, <1>6, <2>2, <3>1, <3>2
  <2> QED
    BY <1>1, <2>1, <2>2
<1>14. \A i, j \in 1..(n + 1) : i # j => more[i].id # more[j].id
  <2>1. \A i \in 1..(n + 1) : i = n + 1 \/ i \in 1..n
    BY <1>1
  <2>2. \A i, j \in 1..n : i # j => list[i].id # list[j].id
    BY DEF Progress
  <2> QED
    BY <1>6, <1>7, <1>11, <2>1, <2>2
<1>15. c.kept = stated \cup {more[i].id : i \in 1..(n + 1)}
  <2>1. {more[i].id : i \in 1..(n + 1)} = {list[i].id : i \in 1..n} \cup {id}
    BY <1>1, <1>6, <1>7
  <2> QED
    BY <1>1, <1>3, <2>1
<1>16. minted <= c.minted
  BY <1>1, <1>10
<1> HIDE DEF stated
<1> QED
  BY <1>3, <1>6, <1>13, <1>14, <1>15, <1>16 DEF Progress, stated, c, request

(* The cardinality of the vendor is the cardinality.                       *)
LEMMA SameCardinality ==
  ASSUME NEW S
  PROVE  Lightspeed!Cardinality(S) = Cardinality(S)
BY Zenon DEF Lightspeed!Cardinality, Cardinality, Lightspeed!IsFiniteSet, IsFiniteSet

(* As many values as arguments, if no two arguments have the same value.   *)
LEMMA CountImage ==
  ASSUME NEW S, IsFiniteSet(S), NEW f, f = [x \in S |-> f[x]],
         \A x, y \in S : x # y => f[x] # f[y]
  PROVE  /\ IsFiniteSet({f[x] : x \in S})
         /\ Cardinality({f[x] : x \in S}) = Cardinality(S)
<1> DEFINE T == {f[x] : x \in S}
<1>1. f \in [S -> T]
  OBVIOUS
<1>2. f \in Surjection(S, T) /\ f \in Injection(S, T)
  BY <1>1 DEF Surjection, Injection, IsInjective
<1> QED
  BY <1>2, FS_Surjection

\* The ids of the payments of one amount.
Ids(list, a) == {list[i].id : i \in {k \in DOMAIN list : list[k].amount = a}}

LEMMA IdsCount ==
  ASSUME NEW list, NEW a, IsFiniteSet(DOMAIN list),
         \A i, j \in DOMAIN list : i # j => list[i].id # list[j].id
  PROVE  /\ IsFiniteSet(Ids(list, a))
         /\ Cardinality(Ids(list, a)) = Lightspeed!OfAmount(list, a)
         /\ Lightspeed!OfAmount(list, a) \in Nat
<1> DEFINE S == {k \in DOMAIN list : list[k].amount = a}
           f == [k \in S |-> list[k].id]
<1>1. IsFiniteSet(S) /\ Cardinality(S) \in Nat
  BY FS_Subset, FS_CardinalityType
<1>2. f = [x \in S |-> f[x]] /\ \A x, y \in S : x # y => f[x] # f[y]
  OBVIOUS
<1>3. Ids(list, a) = {f[x] : x \in S}
  BY DEF Ids
<1> HIDE DEF f
<1>4. IsFiniteSet({f[x] : x \in S}) /\ Cardinality({f[x] : x \in S}) = Cardinality(S)
  BY <1>1, <1>2, CountImage
<1> QED
  BY <1>1, <1>3, <1>4, SameCardinality DEF Lightspeed!OfAmount

\* What building the payments of a request gives.
BuiltFor(built, N, requests, stored, register) ==
  LET list == built.payments IN
  /\ built \in Built /\ Len(list) = N /\ minted <= built.minted
  /\ \A i \in 1..N :
       /\ list[i].amount = requests[i].amount /\ list[i].register = register
       /\ list[i].date = now /\ list[i].id <= built.minted
  /\ \A i, j \in 1..N : i # j => list[i].id # list[j].id
  /\ \A i \in 1..N :
       \/ /\ list[i].id > minted
          /\ Ids(stored, list[i].amount) \subseteq {list[j].id : j \in 1..N}
       \/ list[i].id \in Ids(stored, list[i].amount)

LEMMA RequestBuilt ==
  ASSUME NEW N \in Nat, NEW requests, NEW stored, StatedFor(N, requests, stored), Listed(stored),
         NEW register \in Registers, now \in Nat, minted \in Nat
  PROVE  BuiltFor(Lightspeed!BuildPayments(requests, stored, register), N, requests, stored, register)
<1>1. PICK built : Builds(built, N, requests, stored, register)
  BY BuildUnfolds DEF StatedFor, Listed
<1> DEFINE Good == {n \in Nat : n <= N => Progress(built[n], n, requests, stored, register)}
<1>2. 0 \in Good
  <2> DEFINE b == built[0]
  <2>1. /\ b \in Built /\ b.payments = <<>> /\ b.minted = minted
        /\ b.kept = {requests[i].id : i \in DOMAIN requests} \ {0}
    <3>1. 0 \in 0..N
      OBVIOUS
    <3>2. /\ built \in [0..N -> Built]
          /\ built[0] = [payments |-> <<>>, minted |-> minted,
                         kept |-> {requests[i].id : i \in DOMAIN requests} \ {0}]
      BY <1>1 DEF Builds
    <3> HIDE DEF Good
    <3>3. built[0] \in Built
      BY <3>1, <3>2
    <3>4. /\ built[0].payments = <<>> /\ built[0].minted = minted
          /\ built[0].kept = {requests[i].id : i \in DOMAIN requests} \ {0}
      BY <3>2
    <3> QED
      BY <3>3, <3>4
  <2> HIDE DEF b
  <2>2. Progress(b, 0, requests, stored, register)
    BY <2>1, EmptySeq DEF Progress
  <2> QED
    BY <2>2 DEF b
<1>3. ASSUME NEW n \in Good PROVE n + 1 \in Good
  <2> SUFFICES ASSUME n + 1 <= N
               PROVE  Progress(built[n + 1], n + 1, requests, stored, register)
    OBVIOUS
  <2>1. n \in 0..N /\ n # N /\ n + 1 \in 1..N /\ (n + 1) - 1 = n
    OBVIOUS
  <2>2. Progress(built[n], n, requests, stored, register)
    BY <2>1
  <2>3. built[n + 1] = Lightspeed!BuildPayment(built[n], requests[n + 1], stored, register)
    BY <1>1, <2>1 DEF Builds
  <2> QED
    BY <2>1, <2>2, <2>3, ProgressStep
<1>4. Good = Nat
  <2> HIDE DEF Good
  <2> QED
    BY <1>2, <1>3, InductiveIsNat DEF Good
<1> DEFINE b == built[N]
           list == b.payments
           stated == {requests[i].id : i \in DOMAIN requests} \ {0}
<1>5. Progress(b, N, requests, stored, register)
  BY <1>4
<1>6. b = Lightspeed!BuildPayments(requests, stored, register)
  BY <1>1 DEF Builds
<1> HIDE DEF b
<1>7. b.kept = {list[i].id : i \in 1..N}
  <2>1. stated \subseteq {list[i].id : i \in 1..N}
    BY <1>5 DEF Progress, StatedFor
  <2> QED
    BY <1>5, <2>1 DEF Progress
<1>8. ASSUME NEW i \in 1..N
      PROVE  \/ /\ list[i].id > minted
                /\ Ids(stored, list[i].amount) \subseteq {list[j].id : j \in 1..N}
             \/ list[i].id \in Ids(stored, list[i].amount)
  <2>1. CASE /\ list[i].id > minted
             /\ \A j \in DOMAIN stored : stored[j].amount = list[i].amount => stored[j].id \in b.kept
    BY <1>7, <2>1 DEF Ids
  <2>2. CASE \E j \in DOMAIN stored : stored[j].id = list[i].id /\ stored[j].amount = list[i].amount
    BY <2>2 DEF Ids
  <2> HIDE DEF list, Good
  <2> QED
    BY <1>5, <2>1, <2>2 DEF Progress, list
<1> HIDE DEF Good
<1>9. /\ b \in Built /\ Len(list) = N /\ minted <= b.minted
      /\ \A i \in 1..N :
           /\ list[i].amount = requests[i].amount /\ list[i].register = register
           /\ list[i].date = now /\ list[i].id <= b.minted
      /\ \A i, j \in 1..N : i # j => list[i].id # list[j].id
  BY <1>5 DEF Progress
<1>10. BuiltFor(b, N, requests, stored, register)
  BY <1>8, <1>9 DEF BuiltFor
<1> QED
  BY <1>6, <1>10

(* A request mints at most as many payments of an amount as it states more *)
(* of it than the sale had.                                                *)
LEMMA FewFresh ==
  ASSUME NEW N \in Nat, NEW requests, NEW stored, StatedFor(N, requests, stored), Listed(stored),
         NEW register \in Registers, now \in Nat, minted \in Nat, NEW a \in SaleAmounts
  PROVE  LET list == Lightspeed!BuildPayments(requests, stored, register).payments
             fresh == Ids(list, a) \ Ids(stored, a)
         IN /\ IsFiniteSet(fresh)
            /\ Cardinality(fresh) <= Lightspeed!Grown(stored, requests)[a]
            /\ Lightspeed!Grown(stored, requests)[a] \in Nat
<1> DEFINE list == Lightspeed!BuildPayments(requests, stored, register).payments
           old == Ids(stored, a)
           new == Ids(list, a)
           fresh == new \ old
           more == Lightspeed!OfAmount(requests, a) - Lightspeed!OfAmount(stored, a)
<1>1. /\ list \in Seq(Lightspeed!PaymentRecords) /\ Len(list) = N
      /\ \A i \in 1..N : list[i].amount = requests[i].amount
      /\ \A i, j \in 1..N : i # j => list[i].id # list[j].id
      /\ \A i \in 1..N :
           \/ list[i].id > minted /\ Ids(stored, list[i].amount) \subseteq {list[j].id : j \in 1..N}
           \/ list[i].id \in Ids(stored, list[i].amount)
  <2> DEFINE built == Lightspeed!BuildPayments(requests, stored, register)
  <2>1. BuiltFor(built, N, requests, stored, register)
    BY RequestBuilt
  <2>2. built.payments \in Seq(Lightspeed!PaymentRecords)
    BY <2>1 DEF BuiltFor, Built
  <2> HIDE DEF built
  <2> QED
    BY <2>1, <2>2 DEF BuiltFor, built
<1> HIDE DEF list
<1>2. DOMAIN list = 1..N /\ DOMAIN requests = 1..N
  BY <1>1, LenProperties DEF StatedFor
<1>3. IsFiniteSet(1..N) /\ IsFiniteSet(DOMAIN stored)
  <2>1. IsFiniteSet(1..N) /\ IsFiniteSet(1..Len(stored))
    BY FS_Interval, LenProperties DEF Listed
  <2> QED
    BY <2>1, LenProperties DEF Listed
<1>4. IsFiniteSet(new) /\ Cardinality(new) = Lightspeed!OfAmount(list, a)
  BY <1>1, <1>2, <1>3, IdsCount
<1>5. /\ IsFiniteSet(old) /\ Cardinality(old) = Lightspeed!OfAmount(stored, a)
      /\ Lightspeed!OfAmount(stored, a) \in Nat
  BY <1>3, IdsCount DEF Listed
<1>6. Lightspeed!OfAmount(list, a) = Lightspeed!OfAmount(requests, a)
  BY <1>1, <1>2 DEF Lightspeed!OfAmount
<1>7. /\ IsFiniteSet(fresh) /\ Cardinality(fresh) = Cardinality(new) - Cardinality(new \cap old)
      /\ Cardinality(new) \in Nat
  BY <1>4, FS_Difference, FS_CardinalityType
<1>8. more \in Int
  BY <1>4, <1>5, <1>6, <1>7
<1>9. Lightspeed!Grown(stored, requests)[a] = IF more > 0 THEN more ELSE 0
  <2>1. Lightspeed!Grown(stored, requests)[a] = Lightspeed!Max({0, more})
    BY DEF Lightspeed!Grown
  <2>2. Lightspeed!Max({0, more}) = IF more > 0 THEN more ELSE 0
    BY <1>8 DEF Lightspeed!Max
  <2> QED
    BY <2>1, <2>2
<1>10. CASE fresh = {}
  <2>1. Cardinality(fresh) = 0
    BY <1>10, FS_EmptySet
  <2> HIDE DEF fresh, more
  <2> QED
    BY <1>7, <1>8, <1>9, <2>1 DEF list, fresh, old, new
<1>11. CASE fresh # {}
  <2>1. PICK i \in 1..N : list[i].amount = a /\ list[i].id \notin old
    BY <1>2, <1>11 DEF Ids
  <2>2. old \subseteq {list[j].id : j \in 1..N}
    BY <1>1, <2>1
  <2>3. old \subseteq new
    <3> SUFFICES ASSUME NEW j \in 1..N, list[j].id \in old PROVE list[j].amount = a
      BY <1>2, <2>2 DEF Ids
    <3>1. PICK k \in DOMAIN stored : stored[k].id = list[j].id /\ stored[k].amount = a
      BY DEF Ids
    <3>2. stored[k].id <= minted
      BY DEF Listed
    <3>3. stored[k].id \in Nat
      <4>1. stored[k] \in Lightspeed!PaymentRecords
        BY ElementOfSeq, LenProperties DEF Listed
      <4> QED
        BY <4>1 DEF Lightspeed!PaymentRecords
    <3>4. PICK l \in DOMAIN stored : stored[l].id = list[j].id /\ stored[l].amount = list[j].amount
      BY <1>1, <3>1, <3>2, <3>3 DEF Ids
    <3>5. l = k
      BY <3>1, <3>4 DEF Listed
    <3> QED
      BY <3>1, <3>4, <3>5
  <2>4. new \cap old = old
    BY <2>3
  <2>5. Cardinality(fresh) = more
    BY <1>4, <1>5, <1>6, <1>7, <2>4
  <2> HIDE DEF fresh, more
  <2> QED
    BY <1>7, <1>8, <1>9, <2>5 DEF list, fresh, old, new
<1> QED
  BY <1>10, <1>11 DEF list

-----------------------------------------------------------------------------
(* Lightspeed: types, and what was not drawn yet.                          *)

Entries == [sale : Sales, id : Nat, amount : SaleAmounts]

SaleInv ==
  /\ sales = [s \in Sales |-> sales[s]]
  /\ \A s \in Sales : sales[s] # None =>
       /\ sales[s] \in Lightspeed!SaleRecords /\ sales[s].version <= version
       /\ Listed(sales[s].payments)
       /\ \A i \in DOMAIN sales[s].payments : sales[s].payments[i].date <= now
  /\ registers \in [Registers -> [open : BOOLEAN, since : Nat]]
  /\ \A r \in Registers : registers[r].since <= now
  /\ closures \in [Registers -> Seq(SUBSET Entries)]
  /\ \A r \in Registers : \A i \in DOMAIN closures[r] : \A e \in closures[r][i] : e.id \in 1..minted
  /\ version \in Nat /\ minted \in Nat /\ now \in Nat /\ cursor \in Nat /\ stock \in Int
  /\ cursor <= version
  /\ handed \in [Sales -> [SaleAmounts -> Nat]]

LEMMA RequestIs ==
  ASSUME NEW stored, Listed(stored), NEW request \in Lightspeed!Requests(stored)
  PROVE  /\ request.state \in {"parked", "pending", "closed", "voided"}
         /\ request.quantity \in Int /\ request.register \in Registers
         /\ \E N \in Nat : StatedFor(N, request.payments, stored) /\ (request.payments = <<>> <=> N = 0)
<1>1. /\ request.state \in {"parked", "pending", "closed", "voided"}
      /\ request.quantity \in Int /\ request.register \in Registers
  BY UnitAssumption DEF UnitAssumption, Lightspeed!Requests, Lightspeed!SALE_MACHINE
<1>2. PICK N \in 0..MaxPayments : request.payments \in [1..N -> Lightspeed!Statable(stored)]
  BY DEF Lightspeed!Requests
<1>3. N \in Nat
  BY UnitAssumption DEF UnitAssumption
<1>4. ASSUME NEW p \in Lightspeed!Statable(stored)
      PROVE  /\ p \in Stated
             /\ p.id # 0 => \E j \in DOMAIN stored : stored[j].id = p.id /\ stored[j].amount = p.amount
  <2>1. CASE \E a \in SaleAmounts : p = [id |-> 0, amount |-> a]
    BY <2>1 DEF Stated
  <2>2. CASE \E i \in DOMAIN stored : p = [id |-> stored[i].id, amount |-> stored[i].amount]
    <3>1. PICK i \in DOMAIN stored : p = [id |-> stored[i].id, amount |-> stored[i].amount]
      BY <2>2
    <3>2. stored[i] \in Lightspeed!PaymentRecords
      BY ElementOfSeq, LenProperties DEF Listed
    <3> QED
      BY <3>1, <3>2 DEF Stated, Lightspeed!PaymentRecords
  <2> QED
    BY <2>1, <2>2 DEF Lightspeed!Statable
<1>5. \A i, j \in DOMAIN request.payments :
        i # j /\ request.payments[i].id = request.payments[j].id => request.payments[i].id = 0
  BY DEF Lightspeed!Requests
<1>6. StatedFor(N, request.payments, stored)
  <2> DEFINE ps == request.payments
  <2>1. \A i \in 1..N : ps[i] \in Lightspeed!Statable(stored)
    BY <1>2
  <2>2. ps \in [1..N -> Stated]
    BY <1>2, <1>4, <2>1
  <2> HIDE DEF ps
  <2> QED
    BY <1>2, <1>4, <1>5, <2>1, <2>2 DEF StatedFor, ps
<1>7. request.payments = <<>> <=> N = 0
  BY <1>2, <1>3
<1> QED
  BY <1>1, <1>3, <1>6, <1>7

\* Writing a sale: CreateSale, or UpdateSale over what the sale was.
WrittenFrom(s, request, stored) ==
  \/ sales[s] = None /\ stored = <<>>
  \/ /\ sales[s] # None /\ stored = sales[s].payments
     /\ sales[s].state \notin {"closed", "voided"}
Written(s, request, stored) ==
  /\ WrittenFrom(s, request, stored)
  /\ \E v \in Nat, isReturn \in BOOLEAN, links \in SUBSET Sales :
       /\ version < v /\ v <= version'
       /\ sales' = [sales EXCEPT ![s] = Lightspeed!Build(request, stored, isReturn, links, v)]
  /\ version' \in Nat
  /\ minted' = Lightspeed!BuildPayments(request.payments, stored, request.register).minted
  /\ handed' = [handed EXCEPT ![s] =
       [a \in SaleAmounts |-> @[a] + Lightspeed!Grown(stored, request.payments)[a]]]
  /\ stock' = IF request.state = "closed" THEN stock - request.quantity ELSE stock
  /\ request.payments # <<>> => registers[request.register].open
  /\ UNCHANGED <<registers, closures, now, copy, cursor>>

LEMMA EmptyListed == Listed(<<>>)
  BY EmptySeq DEF Listed

LEMMA CreateWrites ==
  ASSUME SaleInv, NEW s \in Sales, NEW request \in Lightspeed!Requests(<<>>),
         Lightspeed!CreateSale(s, request)
  PROVE  Written(s, request, <<>>)
<1>1. Lightspeed!Moves(request) \in Nat
  BY DEF Lightspeed!Moves
<1>2. version + 1 \in Nat /\ version < version + 1 /\ version + 1 <= version' /\ version' \in Nat
  BY <1>1 DEF SaleInv, Lightspeed!CreateSale, Lightspeed!Bump
<1>3. sales' = [sales EXCEPT ![s] = Lightspeed!Build(request, <<>>, FALSE, {}, version + 1)]
  BY DEF Lightspeed!CreateSale
<1> QED
  BY <1>2, <1>3 DEF Written, WrittenFrom, Lightspeed!CreateSale, Lightspeed!TakePayments,
     Lightspeed!DrawStock, Lightspeed!Buildable

LEMMA UpdateWrites ==
  ASSUME SaleInv, NEW s \in Sales, sales[s] # None, NEW request, Lightspeed!UpdateSale(s, request)
  PROVE  Written(s, request, sales[s].payments)
<1> DEFINE old == sales[s]
<1>1. Lightspeed!Moves(request) \in Nat
  BY DEF Lightspeed!Moves
<1>2. version + 2 \in Nat /\ version < version + 2 /\ version + 2 <= version' /\ version' \in Nat
  BY <1>1 DEF SaleInv, Lightspeed!UpdateSale, Lightspeed!Bump
<1>3. sales' = [sales EXCEPT ![s] =
                  Lightspeed!Build(request, old.payments, old.isReturn, old.links, version + 2)]
  BY DEF Lightspeed!UpdateSale
<1>4. old.isReturn \in BOOLEAN /\ old.links \in SUBSET Sales
  BY DEF SaleInv, Lightspeed!SaleRecords
<1>5. old.state \notin {"closed", "voided"}
  BY DEF Lightspeed!UpdateSale, Lightspeed!SALE_MACHINE, Lightspeed!IsMutable,
     Lightspeed!IsTerminal
<1> QED
  BY <1>2, <1>3, <1>4, <1>5 DEF Written, WrittenFrom, Lightspeed!UpdateSale, Lightspeed!TakePayments,
     Lightspeed!DrawStock, Lightspeed!Buildable

\* What a written sale becomes.
WrittenSale(s, request, stored) ==
  LET new == sales'[s] IN
  /\ new \in Lightspeed!SaleRecords
  /\ version < new.version /\ new.version <= version'
  /\ new.state = request.state /\ new.quantity = request.quantity
  /\ \A x \in Sales : x # s => sales'[x] = sales[x]
  /\ sales' = [x \in Sales |-> sales'[x]]
  /\ minted' \in Nat /\ minted <= minted'
  /\ new.payments = Lightspeed!BuildPayments(request.payments, stored, request.register).payments
  /\ \A i \in DOMAIN new.payments : new.payments[i].id <= minted'
  /\ \A i, j \in DOMAIN new.payments : i # j => new.payments[i].id # new.payments[j].id
  /\ \A i \in DOMAIN new.payments :
       /\ new.payments[i].register = request.register /\ new.payments[i].date = now
       /\ registers[request.register].open
  /\ \A a \in SaleAmounts :
       /\ IsFiniteSet(Ids(new.payments, a) \ Ids(stored, a))
       /\ Cardinality(Ids(new.payments, a) \ Ids(stored, a))
            <= Lightspeed!Grown(stored, request.payments)[a]
       /\ Lightspeed!Grown(stored, request.payments)[a] \in Nat

LEMMA WrittenIs ==
  ASSUME SaleInv, NEW s \in Sales, NEW stored, Listed(stored),
         NEW request \in Lightspeed!Requests(stored), Written(s, request, stored)
  PROVE  WrittenSale(s, request, stored)
<1> DEFINE built == Lightspeed!BuildPayments(request.payments, stored, request.register)
           new == sales'[s]
<1>1. PICK v \in Nat, isReturn \in BOOLEAN, links \in SUBSET Sales :
        /\ version < v /\ v <= version'
        /\ sales' = [sales EXCEPT ![s] = Lightspeed!Build(request, stored, isReturn, links, v)]
  BY DEF Written
<1>2. /\ request.state \in {"parked", "pending", "closed", "voided"}
      /\ request.quantity \in Int /\ request.register \in Registers
  BY RequestIs
<1>3. PICK N \in Nat : StatedFor(N, request.payments, stored) /\ (request.payments = <<>> <=> N = 0)
  BY RequestIs
<1>4. now \in Nat /\ minted \in Nat /\ version \in Nat
  BY DEF SaleInv
<1>5. BuiltFor(built, N, request.payments, stored, request.register)
  BY <1>2, <1>3, <1>4, RequestBuilt
<1>6. minted' = built.minted
  BY DEF Written
<1>7. /\ new = Lightspeed!Build(request, stored, isReturn, links, v)
      /\ \A x \in Sales : x # s => sales'[x] = sales[x]
      /\ sales' = [x \in Sales |-> sales'[x]]
  BY <1>1 DEF SaleInv
<1>8. new = [state |-> request.state, quantity |-> request.quantity, register |-> request.register,
             payments |-> built.payments, isReturn |-> isReturn, links |-> links, version |-> v]
  BY <1>7 DEF Lightspeed!Build
<1>9. \A a \in SaleAmounts :
        /\ IsFiniteSet(Ids(built.payments, a) \ Ids(stored, a))
        /\ Cardinality(Ids(built.payments, a) \ Ids(stored, a))
             <= Lightspeed!Grown(stored, request.payments)[a]
        /\ Lightspeed!Grown(stored, request.payments)[a] \in Nat
  BY <1>2, <1>3, <1>4, FewFresh
<1> HIDE DEF built, new
<1>10. /\ built.payments \in Seq(Lightspeed!PaymentRecords) /\ built.minted \in Nat
       /\ DOMAIN built.payments = 1..N
  <2>1. /\ built.payments \in Seq(Lightspeed!PaymentRecords) /\ built.minted \in Nat
        /\ Len(built.payments) = N
    BY <1>5 DEF BuiltFor, Built
  <2> QED
    BY <2>1, LenProperties
<1>11. new \in Lightspeed!SaleRecords
  BY <1>1, <1>2, <1>4, <1>8, <1>10 DEF Lightspeed!SaleRecords, Lightspeed!SALE_MACHINE
<1>12. /\ new.state = request.state /\ new.quantity = request.quantity
       /\ new.payments = built.payments /\ new.version = v
  BY <1>8
<1>13. /\ \A i \in DOMAIN new.payments : new.payments[i].id <= minted'
       /\ \A i, j \in DOMAIN new.payments : i # j => new.payments[i].id # new.payments[j].id
  BY <1>5, <1>6, <1>10, <1>12 DEF BuiltFor
<1>14. ASSUME NEW i \in DOMAIN new.payments
       PROVE  /\ new.payments[i].register = request.register /\ new.payments[i].date = now
              /\ registers[request.register].open
  BY <1>3, <1>5, <1>10, <1>12 DEF BuiltFor, Written
<1> QED
  BY <1>1, <1>5, <1>6, <1>7, <1>9, <1>10, <1>11, <1>12, <1>13, <1>14
     DEF WrittenSale, BuiltFor, built, new

\* What a return leaves: the sale r, parked and unpaid, linked from the sale s.
Returned(s, r) ==
  /\ sales[s] # None /\ sales[r] = None /\ s # r /\ sales[s].state = "closed"
  /\ sales' = [x \in Sales |-> sales'[x]]
  /\ \A x \in Sales : x # s /\ x # r => sales'[x] = sales[x]
  /\ sales'[r] \in Lightspeed!SaleRecords /\ sales'[s] \in Lightspeed!SaleRecords
  /\ sales'[r].state = "parked" /\ sales'[r].payments = <<>> /\ sales'[r].version = version + 1
  /\ sales'[s].state = "closed" /\ sales'[s].payments = sales[s].payments
  /\ sales'[s].quantity = sales[s].quantity /\ sales'[s].version = version + 2
  /\ version' = version + 2
  /\ UNCHANGED <<registers, closures, stock, minted, now, copy, cursor, handed>>

LEMMA ReturnIs ==
  ASSUME SaleInv, NEW s \in Sales, NEW r \in Sales, Lightspeed!ReturnSale(s, r)
  PROVE  Returned(s, r)
<1> DEFINE old == sales[s]
           back == [old EXCEPT !.state = "parked", !.quantity = -@, !.payments = <<>>,
                               !.isReturn = TRUE, !.links = {}, !.version = version + 1]
           linked == [old EXCEPT !.links = @ \cup {r}, !.version = version + 2]
<1>1. /\ old # None /\ sales[r] = None /\ s # r /\ old.state = "closed"
      /\ old \in Lightspeed!SaleRecords /\ version \in Nat
  BY DEF Lightspeed!ReturnSale, Lightspeed!Stored, SaleInv
<1>2. /\ sales'[r] = back /\ sales'[s] = linked
      /\ \A x \in Sales : x # s /\ x # r => sales'[x] = sales[x]
      /\ sales' = [x \in Sales |-> sales'[x]]
  BY <1>1 DEF Lightspeed!ReturnSale, SaleInv, Lightspeed!SaleRecords
<1>3. /\ back \in Lightspeed!SaleRecords
      /\ back.state = "parked" /\ back.payments = <<>> /\ back.version = version + 1
  <2>1. old \in [state : {old.state}, quantity : {old.quantity}, register : {old.register},
                 payments : {old.payments}, isReturn : {old.isReturn}, links : {old.links},
                 version : {old.version}]
    BY <1>1 DEF Lightspeed!SaleRecords
  <2>2. /\ old.quantity \in Int /\ old.register \in Registers /\ version + 1 \in Nat \ {0}
        /\ -old.quantity \in Int
    BY <1>1 DEF Lightspeed!SaleRecords
  <2> HIDE DEF old
  <2>3. back \in [state : {"parked"}, quantity : {-old.quantity}, register : {old.register},
                  payments : {<<>>}, isReturn : {TRUE}, links : {{}}, version : {version + 1}]
    BY <2>1
  <2> HIDE DEF back
  <2>4. <<>> \in Seq(Lightspeed!PaymentRecords)
    BY EmptySeq
  <2> QED
    BY <2>2, <2>3, <2>4 DEF Lightspeed!SaleRecords, Lightspeed!SALE_MACHINE
<1>4. /\ linked \in Lightspeed!SaleRecords
      /\ linked.state = "closed" /\ linked.payments = old.payments
      /\ linked.quantity = old.quantity /\ linked.version = version + 2
  <2>1. old \in [state : {old.state}, quantity : {old.quantity}, register : {old.register},
                 payments : {old.payments}, isReturn : {old.isReturn}, links : {old.links},
                 version : {old.version}]
    BY <1>1 DEF Lightspeed!SaleRecords
  <2>2. /\ old.quantity \in Int /\ old.register \in Registers /\ version + 2 \in Nat \ {0}
        /\ old.payments \in Seq(Lightspeed!PaymentRecords) /\ old.isReturn \in BOOLEAN
        /\ old.links \cup {r} \in SUBSET Sales
    BY <1>1 DEF Lightspeed!SaleRecords
  <2> HIDE DEF old
  <2>3. linked \in [state : {"closed"}, quantity : {old.quantity}, register : {old.register},
                    payments : {old.payments}, isReturn : {old.isReturn},
                    links : {old.links \cup {r}}, version : {version + 2}]
    BY <1>1, <2>1
  <2> HIDE DEF linked
  <2> QED
    BY <2>2, <2>3 DEF Lightspeed!SaleRecords, Lightspeed!SALE_MACHINE
<1> HIDE DEF back, linked
<1>5. version' = version + 2
  BY DEF Lightspeed!ReturnSale, Lightspeed!Bump
<1> QED
  BY <1>1, <1>2, <1>3, <1>4, <1>5 DEF Returned, Lightspeed!ReturnSale

\* What the handlers, the clock and the walking consumer may do.
SaleStep(s, stored, request) ==
  /\ s \in Sales /\ Listed(stored)
  /\ Written(s, request, stored) /\ WrittenSale(s, request, stored)

LEMMA LightspeedSteps ==
  ASSUME SaleInv, Lightspeed!Next
  PROVE  \/ \E s, stored, request : SaleStep(s, stored, request)
         \/ \E s, r \in Sales : Returned(s, r)
         \/ \E r \in Registers : Lightspeed!OpenRegister(r) \/ Lightspeed!CloseRegister(r)
         \/ Lightspeed!Tick
         \/ Lightspeed!Walk
<1>1. ASSUME NEW s \in Sales, NEW request \in Lightspeed!Requests(<<>>),
             Lightspeed!CreateSale(s, request)
      PROVE  SaleStep(s, <<>>, request)
  BY <1>1, CreateWrites, WrittenIs, EmptyListed DEF SaleStep
<1>2. ASSUME NEW s \in Sales, s \in Lightspeed!Stored,
             NEW request \in Lightspeed!Requests(sales[s].payments),
             Lightspeed!UpdateSale(s, request)
      PROVE  SaleStep(s, sales[s].payments, request)
  <2>1. sales[s] # None /\ Listed(sales[s].payments)
    BY <1>2 DEF Lightspeed!Stored, SaleInv
  <2> QED
    BY <1>2, <2>1, UpdateWrites, WrittenIs DEF SaleStep
<1> QED
  BY <1>1, <1>2, ReturnIs DEF Lightspeed!Next

LEMMA WriteKeepsTypes ==
  ASSUME SaleInv, NEW s, NEW stored, NEW request, SaleStep(s, stored, request)
  PROVE  SaleInv'
<1> DEFINE new == sales'[s]
<1>1. /\ WrittenSale(s, request, stored) /\ s \in Sales
      /\ UNCHANGED <<registers, closures, now, copy, cursor>>
      /\ version' \in Nat /\ version <= version' /\ minted' \in Nat /\ minted <= minted'
  <2>1. /\ WrittenSale(s, request, stored) /\ s \in Sales
        /\ UNCHANGED <<registers, closures, now, copy, cursor>> /\ version' \in Nat
    BY DEF SaleStep, Written
  <2>2. /\ new.version \in Nat /\ version < new.version /\ new.version <= version'
        /\ minted' \in Nat /\ minted <= minted'
    BY <2>1 DEF WrittenSale, Lightspeed!SaleRecords
  <2>3. version \in Nat
    BY DEF SaleInv
  <2> HIDE DEF new
  <2>4. version <= version'
    BY <2>1, <2>2, <2>3
  <2> QED
    BY <2>1, <2>2, <2>4
<1>2. /\ new \in Lightspeed!SaleRecords /\ new.version <= version'
      /\ new.quantity = request.quantity
      /\ \A i \in DOMAIN new.payments : new.payments[i].id <= minted'
      /\ \A i, j \in DOMAIN new.payments : i # j => new.payments[i].id # new.payments[j].id
      /\ \A i \in DOMAIN new.payments : new.payments[i].date = now
  BY <1>1 DEF WrittenSale
<1>3. ASSUME NEW x \in Sales, sales'[x] # None
      PROVE  /\ sales'[x] \in Lightspeed!SaleRecords /\ sales'[x].version <= version'
             /\ Listed(sales[x].payments)'
             /\ \A i \in DOMAIN sales'[x].payments : sales'[x].payments[i].date <= now
  <2>1. CASE x = s
    <3>1. new.payments \in Seq(Lightspeed!PaymentRecords)
      BY <1>2 DEF Lightspeed!SaleRecords
    <3>2. now \in Nat
      BY DEF SaleInv
    <3> QED
      BY <1>2, <2>1, <3>1, <3>2 DEF Listed
  <2>2. CASE x # s
    <3>1. sales'[x] = sales[x]
      BY <1>1, <2>2 DEF WrittenSale
    <3>2. /\ sales[x] \in Lightspeed!SaleRecords /\ sales[x].version <= version
          /\ Listed(sales[x].payments)
          /\ \A i \in DOMAIN sales[x].payments : sales[x].payments[i].date <= now
      BY <1>3, <3>1 DEF SaleInv
    <3>3. sales[x].version \in Nat /\ version \in Nat /\ minted \in Nat
      BY <3>2 DEF SaleInv, Lightspeed!SaleRecords
    <3>4. \A i \in DOMAIN sales[x].payments : sales[x].payments[i].id \in Nat
      <4>1. \A i \in DOMAIN sales[x].payments : sales[x].payments[i] \in Lightspeed!PaymentRecords
        BY <3>2, ElementOfSeq, LenProperties DEF Listed
      <4> QED
        BY <4>1 DEF Lightspeed!PaymentRecords
    <3>5. Listed(sales[x].payments)'
      BY <1>1, <3>1, <3>2, <3>3, <3>4 DEF Listed
    <3> QED
      BY <1>1, <3>1, <3>2, <3>3, <3>5
  <2> QED
    BY <2>1, <2>2
<1>4. handed' \in [Sales -> [SaleAmounts -> Nat]]
  <2>1. handed' = [handed EXCEPT ![s] =
          [a \in SaleAmounts |-> @[a] + Lightspeed!Grown(stored, request.payments)[a]]]
    BY DEF SaleStep, Written
  <2>2. handed \in [Sales -> [SaleAmounts -> Nat]]
    BY DEF SaleInv
  <2>3. \A a \in SaleAmounts : Lightspeed!Grown(stored, request.payments)[a] \in Nat
    BY <1>1 DEF WrittenSale
  <2>4. [a \in SaleAmounts |-> handed[s][a] + Lightspeed!Grown(stored, request.payments)[a]]
          \in [SaleAmounts -> Nat]
    BY <1>1, <2>2, <2>3
  <2> QED
    BY <1>1, <2>1, <2>2, <2>4
<1>5. stock' \in Int
  BY <1>2 DEF SaleStep, Written, SaleInv, Lightspeed!SaleRecords
<1>6. \A r \in Registers : \A i \in DOMAIN closures[r] : \A e \in closures[r][i] : e.id \in 1..minted'
  BY <1>1 DEF SaleInv
<1>7. sales' = [x \in Sales |-> sales'[x]]
  BY <1>1 DEF WrittenSale
<1>8. cursor <= version'
  BY <1>1 DEF SaleInv
<1> HIDE DEF new
<1> QED
  BY <1>1, <1>3, <1>4, <1>5, <1>6, <1>7, <1>8 DEF SaleInv

LEMMA ReturnKeepsTypes ==
  ASSUME SaleInv, NEW s \in Sales, NEW r \in Sales, Returned(s, r)
  PROVE  SaleInv'
<1>1. /\ UNCHANGED <<registers, closures, stock, minted, now, copy, cursor, handed>>
      /\ version' = version + 2 /\ version \in Nat
      /\ sales' = [x \in Sales |-> sales'[x]]
  BY DEF Returned, SaleInv
<1>2. ASSUME NEW x \in Sales, sales'[x] # None
      PROVE  /\ sales'[x] \in Lightspeed!SaleRecords /\ sales'[x].version <= version'
             /\ Listed(sales'[x].payments)
             /\ \A i \in DOMAIN sales'[x].payments : sales'[x].payments[i].date <= now
  <2>1. CASE x = s
    BY <1>1, <2>1 DEF Returned, SaleInv
  <2>2. CASE x = r
    BY <1>1, <2>2, EmptyListed DEF Returned
  <2>3. CASE x # s /\ x # r
    <3>1. sales'[x] = sales[x]
      BY <2>3 DEF Returned
    <3>2. /\ sales[x] \in Lightspeed!SaleRecords /\ sales[x].version <= version
          /\ Listed(sales[x].payments)
          /\ \A i \in DOMAIN sales[x].payments : sales[x].payments[i].date <= now
      BY <1>2, <3>1 DEF SaleInv
    <3>3. sales[x].version \in Nat
      BY <3>2 DEF Lightspeed!SaleRecords
    <3> QED
      BY <1>1, <3>1, <3>2, <3>3
  <2> QED
    BY <2>1, <2>2, <2>3
<1>3. \A x \in Sales : Listed(sales'[x].payments) => Listed(sales[x].payments)'
  BY <1>1 DEF Listed
<1> QED
  BY <1>1, <1>2, <1>3 DEF SaleInv

LEMMA MaxIs ==
  ASSUME NEW n \in Nat, NEW S \in SUBSET (0..n), S # {}
  PROVE  Lightspeed!Max(S) \in S /\ \A y \in S : y <= Lightspeed!Max(S)
<1> DEFINE T == {k \in 0..n : n - k \in S}
<1>1. PICK x \in S : TRUE
  OBVIOUS
<1>2. T \in SUBSET Nat /\ n - x \in T
  <2>1. x \in 0..n /\ n - x \in 0..n /\ n - (n - x) = x
    BY <1>1
  <2> QED
    BY <2>1
<1>3. PICK k \in T : \A l \in T : k <= l
  BY <1>2, LeastNat
<1>4. n - k \in S /\ k \in 0..n
  BY <1>3
<1>5. \A y \in S : y <= n - k
  <2> SUFFICES ASSUME NEW y \in S PROVE y <= n - k
    OBVIOUS
  <2>1. y \in 0..n /\ n - y \in 0..n /\ n - (n - y) = y
    OBVIOUS
  <2>2. n - y \in T
    BY <2>1
  <2>3. k <= n - y
    BY <1>3, <2>2
  <2> QED
    BY <1>4, <2>1, <2>3
<1>6. \E z \in S : \A y \in S : z >= y
  BY <1>4, <1>5
<1> HIDE DEF T
<1>7. Lightspeed!Max(S) \in S /\ \A y \in S : Lightspeed!Max(S) >= y
  BY <1>6 DEF Lightspeed!Max
<1> QED
  BY <1>7

(* What a page brings the consumer.                                        *)
LEMMA WalkIs ==
  ASSUME SaleInv, Lightspeed!Walk
  PROVE  /\ cursor' \in Nat /\ cursor < cursor' /\ cursor' <= version
         /\ \E m \in Lightspeed!Page : sales[m].version = cursor'
         /\ \A s \in Lightspeed!Page : sales[s].version <= cursor'
<1> DEFINE Page == Lightspeed!Page
           S == {sales[s].version : s \in Page}
<1>1. \A s \in Page : s \in Sales /\ sales[s] # None /\ sales[s].version > cursor
  BY DEF Lightspeed!Page, Lightspeed!Stored
<1>2. \A s \in Page : sales[s].version \in 0..version
  BY <1>1 DEF SaleInv, Lightspeed!SaleRecords
<1>3. Page # {} /\ cursor' = Lightspeed!Max(S)
  BY DEF Lightspeed!Walk
<1> HIDE DEF Page
<1>4. S \in SUBSET (0..version) /\ S # {}
  BY <1>2, <1>3
<1>5. Lightspeed!Max(S) \in S /\ \A y \in S : y <= Lightspeed!Max(S)
  BY <1>4, MaxIs DEF SaleInv
<1>6. PICK m \in Page : sales[m].version = cursor'
  BY <1>3, <1>5
<1>7. sales[m].version > cursor /\ sales[m].version \in 0..version
  BY <1>1, <1>2
<1>8. \A s \in Page : sales[s].version <= cursor'
  BY <1>3, <1>5
<1>9. version \in Nat /\ cursor \in Nat
  BY DEF SaleInv
<1>10. cursor' \in Nat /\ cursor < cursor' /\ cursor' <= version
  BY <1>6, <1>7, <1>9
<1> QED
  BY <1>6, <1>8, <1>10 DEF Page

(* What closing a register counts.                                         *)
LEMMA TakenIs ==
  ASSUME SaleInv, NEW r \in Registers
  PROVE  /\ Lightspeed!AmountsTaken(r) \in SUBSET Entries
         /\ \A e \in Lightspeed!AmountsTaken(r) :
              /\ e.id \in 1..minted /\ e.id \notin Lightspeed!CountedBefore(r)
              /\ e.sale \in Sales /\ sales[e.sale] # None
              /\ e.id \in Ids(sales[e.sale].payments, e.amount)
         /\ \A s \in Sales : sales[s] # None /\ sales[s].state # "voided" =>
              \A i \in DOMAIN sales[s].payments :
                LET p == sales[s].payments[i] IN
                p.register = r /\ p.id \notin Lightspeed!CountedBefore(r)
                  /\ registers[r].since <= p.date /\ p.date <= now =>
                    [sale |-> s, id |-> p.id, amount |-> p.amount] \in Lightspeed!AmountsTaken(r)
<1>1. ASSUME NEW s \in Sales, sales[s] # None, NEW i \in DOMAIN sales[s].payments
      PROVE  /\ sales[s].payments[i].id \in 1..minted
             /\ sales[s].payments[i].amount \in SaleAmounts
  <2>1. Listed(sales[s].payments)
    BY <1>1 DEF SaleInv
  <2>2. sales[s].payments[i] \in Lightspeed!PaymentRecords
    BY <1>1, <2>1, ElementOfSeq, LenProperties DEF Listed
  <2> QED
    BY <1>1, <2>1, <2>2 DEF Listed, Lightspeed!PaymentRecords
<1>2. ASSUME NEW e \in Lightspeed!AmountsTaken(r)
      PROVE  \E s \in Sales : sales[s] # None /\ \E i \in DOMAIN sales[s].payments :
               /\ sales[s].payments[i].id \notin Lightspeed!CountedBefore(r)
               /\ e = [sale |-> s, id |-> sales[s].payments[i].id,
                       amount |-> sales[s].payments[i].amount]
  BY DEF Lightspeed!AmountsTaken, Lightspeed!Stored
<1>3. ASSUME NEW e \in Lightspeed!AmountsTaken(r)
      PROVE  /\ e \in Entries /\ e.id \in 1..minted /\ e.id \notin Lightspeed!CountedBefore(r)
             /\ e.sale \in Sales /\ sales[e.sale] # None
             /\ e.id \in Ids(sales[e.sale].payments, e.amount)
  <2>1. PICK s \in Sales : sales[s] # None /\ \E i \in DOMAIN sales[s].payments :
               /\ sales[s].payments[i].id \notin Lightspeed!CountedBefore(r)
               /\ e = [sale |-> s, id |-> sales[s].payments[i].id,
                       amount |-> sales[s].payments[i].amount]
    BY <1>2
  <2>2. PICK i \in DOMAIN sales[s].payments :
               /\ sales[s].payments[i].id \notin Lightspeed!CountedBefore(r)
               /\ e = [sale |-> s, id |-> sales[s].payments[i].id,
                       amount |-> sales[s].payments[i].amount]
    BY <2>1
  <2>3. sales[s].payments[i].id \in 1..minted /\ sales[s].payments[i].amount \in SaleAmounts
    BY <1>1, <2>1
  <2>4. minted \in Nat
    BY DEF SaleInv
  <2> QED
    BY <2>1, <2>2, <2>3, <2>4 DEF Entries, Ids
<1>4. ASSUME NEW s \in Sales, sales[s] # None, sales[s].state # "voided",
             NEW i \in DOMAIN sales[s].payments,
             sales[s].payments[i].register = r,
             sales[s].payments[i].id \notin Lightspeed!CountedBefore(r),
             registers[r].since <= sales[s].payments[i].date, sales[s].payments[i].date <= now
      PROVE  [sale |-> s, id |-> sales[s].payments[i].id, amount |-> sales[s].payments[i].amount]
               \in Lightspeed!AmountsTaken(r)
  BY <1>4 DEF Lightspeed!AmountsTaken, Lightspeed!Stored
<1> QED
  BY <1>3, <1>4

LEMMA SaleInvStep == SaleInv /\ [Lightspeed!Next]_(Lightspeed!saleVars) => SaleInv'
<1> SUFFICES ASSUME SaleInv, [Lightspeed!Next]_(Lightspeed!saleVars) PROVE SaleInv'
  OBVIOUS
<1>1. ASSUME UNCHANGED sales, UNCHANGED minted PROVE \A x \in Sales :
        Listed(sales[x].payments) => Listed(sales[x].payments)'
  BY <1>1 DEF Listed
<1>2. CASE UNCHANGED Lightspeed!saleVars
  BY <1>1, <1>2 DEF Lightspeed!saleVars, SaleInv
<1>3. ASSUME NEW r \in Registers, Lightspeed!OpenRegister(r) PROVE SaleInv'
  <2>1. /\ registers' = [registers EXCEPT ![r] = [open |-> TRUE, since |-> now]]
        /\ version' = version + 1
        /\ UNCHANGED <<sales, closures, stock, minted, now, copy, cursor, handed>>
    BY <1>3 DEF Lightspeed!OpenRegister, Lightspeed!Bump
  <2>2. /\ registers' \in [Registers -> [open : BOOLEAN, since : Nat]]
        /\ \A x \in Registers : registers'[x].since <= now
    BY <2>1 DEF SaleInv
  <2>3. \A x \in Sales : sales[x] # None => sales[x].version \in Nat
    BY DEF SaleInv, Lightspeed!SaleRecords
  <2> QED
    BY <1>1, <2>1, <2>2, <2>3 DEF SaleInv
<1>4. ASSUME NEW r \in Registers, Lightspeed!CloseRegister(r) PROVE SaleInv'
  <2> DEFINE taken == Lightspeed!AmountsTaken(r)
  <2>1. /\ closures' = [closures EXCEPT ![r] = Append(@, taken)]
        /\ registers' = [registers EXCEPT ![r].open = FALSE]
        /\ version' = version + 2
        /\ UNCHANGED <<sales, stock, minted, now, copy, cursor, handed>>
    BY <1>4 DEF Lightspeed!CloseRegister, Lightspeed!Bump
  <2>2. taken \in SUBSET Entries /\ \A e \in taken : e.id \in 1..minted
    BY TakenIs
  <2> HIDE DEF taken
  <2>3. /\ registers' \in [Registers -> [open : BOOLEAN, since : Nat]]
        /\ \A x \in Registers : registers'[x].since <= now
    BY <2>1 DEF SaleInv
  <2>4. \A x \in Sales : sales[x] # None => sales[x].version \in Nat
    BY DEF SaleInv, Lightspeed!SaleRecords
  <2>5. closures[r] \in Seq(SUBSET Entries) /\ Append(closures[r], taken) \in Seq(SUBSET Entries)
    BY <2>2, AppendProperties DEF SaleInv
  <2>6. closures' \in [Registers -> Seq(SUBSET Entries)]
    BY <2>1, <2>5 DEF SaleInv
  <2>7. \A i \in DOMAIN Append(closures[r], taken) : \A e \in Append(closures[r], taken)[i] :
          e.id \in 1..minted
    <3> SUFFICES ASSUME NEW i \in DOMAIN Append(closures[r], taken),
                        NEW e \in Append(closures[r], taken)[i]
                 PROVE  e.id \in 1..minted
      OBVIOUS
    <3>1. i = Len(closures[r]) + 1 \/ i \in DOMAIN closures[r]
      BY <2>5, LenProperties, AppendProperties
    <3>2. CASE i = Len(closures[r]) + 1
      BY <2>2, <2>5, <3>2, AppendProperties
    <3>3. CASE i \in DOMAIN closures[r]
      <4>1. Append(closures[r], taken)[i] = closures[r][i]
        BY <2>5, <3>3, LenProperties, AppendProperties
      <4> QED
        BY <3>3, <4>1 DEF SaleInv
    <3> QED
      BY <3>1, <3>2, <3>3
  <2>8. \A x \in Registers : \A i \in DOMAIN closures'[x] : \A e \in closures'[x][i] : e.id \in 1..minted
    <3>1. closures'[r] = Append(closures[r], taken) /\ \A x \in Registers : x # r => closures'[x] = closures[x]
      BY <2>1 DEF SaleInv
    <3> QED
      BY <2>7, <3>1 DEF SaleInv
  <2> QED
    BY <1>1, <2>1, <2>3, <2>4, <2>6, <2>8 DEF SaleInv
<1>5. CASE Lightspeed!Tick
  <2>1. /\ now' = now + 1
        /\ UNCHANGED <<sales, registers, closures, stock, version, minted, copy, cursor, handed>>
    BY <1>5 DEF Lightspeed!Tick
  <2>2. \A x \in Registers : registers[x].since <= now + 1
    BY DEF SaleInv
  <2>3. ASSUME NEW x \in Sales, sales[x] # None, NEW i \in DOMAIN sales[x].payments
        PROVE  sales[x].payments[i].date <= now + 1
    <3>1. sales[x].payments[i] \in Lightspeed!PaymentRecords
      BY <2>3, ElementOfSeq, LenProperties DEF Listed, SaleInv
    <3> QED
      BY <2>3, <3>1 DEF SaleInv, Lightspeed!PaymentRecords
  <2> QED
    BY <1>1, <2>1, <2>2, <2>3 DEF SaleInv
<1>6. CASE Lightspeed!Walk
  <2>1. UNCHANGED <<sales, registers, closures, stock, version, minted, now, handed>>
    BY <1>6 DEF Lightspeed!Walk
  <2> QED
    BY <1>1, <1>6, <2>1, WalkIs DEF SaleInv
<1> QED
  BY <1>2, <1>3, <1>4, <1>5, <1>6, LightspeedSteps, WriteKeepsTypes, ReturnKeepsTypes

-----------------------------------------------------------------------------
(* Lightspeed: the walk, the stock and the tills.                          *)

LEMMA WalkStep ==
  ASSUME SaleInv, Lightspeed!WalkMissesNothing, [Lightspeed!Next]_(Lightspeed!saleVars)
  PROVE  Lightspeed!WalkMissesNothing'
<1> SUFFICES ASSUME NEW x \in Sales, sales'[x] # None, sales'[x].version <= cursor'
             PROVE  copy'[x] = sales'[x]
  BY DEF Lightspeed!WalkMissesNothing, Lightspeed!Stored
<1>1. cursor <= version /\ cursor \in Nat /\ version \in Nat
  BY DEF SaleInv
<1>2. ASSUME sales'[x] = sales[x], cursor' = cursor, copy' = copy PROVE copy'[x] = sales'[x]
  BY <1>2 DEF Lightspeed!WalkMissesNothing, Lightspeed!Stored
<1>3. CASE UNCHANGED Lightspeed!saleVars
  BY <1>2, <1>3 DEF Lightspeed!saleVars
<1>4. ASSUME NEW s, NEW stored, NEW request, SaleStep(s, stored, request)
      PROVE  copy'[x] = sales'[x]
  <2>1. cursor' = cursor /\ copy' = copy
    BY <1>4 DEF SaleStep, Written
  <2>2. CASE x = s
    <3>1. sales'[x].version \in Nat /\ version < sales'[x].version
      BY <1>4, <2>2 DEF SaleStep, WrittenSale, Lightspeed!SaleRecords
    <3> QED
      BY <1>1, <2>1, <3>1
  <2>3. CASE x # s
    BY <1>2, <1>4, <2>1, <2>3 DEF SaleStep, WrittenSale
  <2> QED
    BY <2>2, <2>3
<1>5. ASSUME NEW s \in Sales, NEW r \in Sales, Returned(s, r) PROVE copy'[x] = sales'[x]
  <2>1. cursor' = cursor /\ copy' = copy
    BY <1>5 DEF Returned
  <2>2. CASE x = s \/ x = r
    BY <1>1, <1>5, <2>1, <2>2 DEF Returned
  <2>3. CASE x # s /\ x # r
    BY <1>2, <1>5, <2>1, <2>3 DEF Returned
  <2> QED
    BY <2>2, <2>3
<1>6. ASSUME NEW r \in Registers, Lightspeed!OpenRegister(r) \/ Lightspeed!CloseRegister(r)
      PROVE  copy'[x] = sales'[x]
  BY <1>2, <1>6 DEF Lightspeed!OpenRegister, Lightspeed!CloseRegister
<1>7. CASE Lightspeed!Tick
  BY <1>2, <1>7 DEF Lightspeed!Tick
<1>8. CASE Lightspeed!Walk
  <2> DEFINE newer == {s \in Lightspeed!Stored : sales[s].version > cursor}
             below(s) == {t \in newer : sales[t].version < sales[s].version}
  <2>1. /\ sales' = sales
        /\ copy'[x] = IF x \in Lightspeed!Page THEN sales[x] ELSE copy[x]
    BY <1>8 DEF Lightspeed!Walk
  <2>2. CASE sales[x].version <= cursor
    <3>1. x \notin Lightspeed!Page
      BY <1>1, <2>1, <2>2 DEF Lightspeed!Page, SaleInv, Lightspeed!SaleRecords
    <3> QED
      BY <2>1, <2>2, <3>1 DEF Lightspeed!WalkMissesNothing, Lightspeed!Stored
  <2>3. CASE ~(sales[x].version <= cursor)
    <3>1. \A s \in newer : sales[s].version \in Nat
      BY DEF SaleInv, Lightspeed!SaleRecords, Lightspeed!Stored
    <3>2. x \in newer
      <4>1. sales[x].version \in Nat
        BY <2>1 DEF SaleInv, Lightspeed!SaleRecords
      <4> QED
        BY <1>1, <2>1, <2>3, <4>1 DEF Lightspeed!Stored
    <3>3. PICK m \in Lightspeed!Page : sales[m].version = cursor'
      BY <1>8, WalkIs
    <3>4. m \in newer /\ Lightspeed!Cardinality(below(m)) < PageSize
      BY DEF Lightspeed!Page
    <3>5. sales[x].version <= sales[m].version
      BY <2>1, <3>3
    <3>6. below(x) \in SUBSET below(m) /\ newer \in SUBSET Sales
      BY <3>1, <3>2, <3>4, <3>5 DEF Lightspeed!Stored
    <3>7. IsFiniteSet(below(m))
      BY <3>6, FS_Subset, UnitAssumption DEF UnitAssumption
    <3>8. /\ Cardinality(below(x)) <= Cardinality(below(m))
          /\ Cardinality(below(x)) \in Nat /\ Cardinality(below(m)) \in Nat
      BY <3>6, <3>7, FS_Subset, FS_CardinalityType
    <3>9. Lightspeed!Cardinality(below(x)) < PageSize
      <4>1. Lightspeed!Cardinality(below(x)) = Cardinality(below(x))
        BY SameCardinality
      <4>2. Lightspeed!Cardinality(below(m)) = Cardinality(below(m))
        BY SameCardinality
      <4>3. PageSize \in Nat
        BY UnitAssumption DEF UnitAssumption
      <4> HIDE DEF below, newer
      <4> QED
        BY <3>4, <3>8, <4>1, <4>2, <4>3
    <3>10. x \in Lightspeed!Page
      BY <3>2, <3>9 DEF Lightspeed!Page
    <3> QED
      BY <2>1, <3>10
  <2> QED
    BY <2>2, <2>3
<1> QED
  BY <1>3, <1>4, <1>5, <1>6, <1>7, <1>8, LightspeedSteps

-----------------------------------------------------------------------------

LEMMA SumSame ==
  ASSUME NEW f
  PROVE  Lightspeed!SumFunction(f) = SumFunction(f)
BY Zenon DEF Lightspeed!SumFunction, Lightspeed!SumFunctionOnSet, Lightspeed!FoldFunctionOnSet,
   Lightspeed!MapThenFoldSet, SumFunction, SumFunctionOnSet, FoldFunctionOnSet, MapThenFoldSet

\* What the closed sales sold.
Closed == {s \in Sales : sales[s] # None /\ sales[s].state = "closed"}
Sold == [s \in Closed |-> sales[s].quantity]

LEMMA StockIs ==
  Lightspeed!StockBalances <=> stock = 0 - SumFunction(Sold)
<1>1. [s \in {t \in Lightspeed!Stored : sales[t].state = "closed"} |-> sales[s].quantity] = Sold
  <2>1. {t \in Lightspeed!Stored : sales[t].state = "closed"} = Closed
    BY DEF Lightspeed!Stored, Closed
  <2> QED
    BY <2>1 DEF Sold
<1> QED
  BY <1>1, SumSame DEF Lightspeed!StockBalances

LEMMA SoldIs ==
  ASSUME SaleInv
  PROVE  /\ IsFiniteSet(DOMAIN Sold) /\ DOMAIN Sold = Closed
         /\ \A s \in DOMAIN Sold : Sold[s] \in Int
         /\ SumFunction(Sold) \in Int
<1>1. DOMAIN Sold = Closed /\ Closed \in SUBSET Sales
  BY DEF Sold, Closed
<1>2. IsFiniteSet(Closed)
  BY <1>1, FS_Subset, UnitAssumption DEF UnitAssumption
<1>3. \A s \in Closed : Sold[s] \in Int
  BY DEF SaleInv, Lightspeed!SaleRecords, Sold, Closed
<1> QED
  BY <1>1, <1>2, <1>3, SumIsInt

LEMMA StockStep ==
  ASSUME SaleInv, SaleInv', stock = 0 - SumFunction(Sold), [Lightspeed!Next]_(Lightspeed!saleVars)
  PROVE  stock' = 0 - SumFunction(Sold')
<1>1. ASSUME stock' = stock, Closed' = Closed,
             \A s \in Closed : sales'[s].quantity = sales[s].quantity
      PROVE  stock' = 0 - SumFunction(Sold')
  <2>1. Sold' = Sold
    BY <1>1 DEF Sold
  <2> QED
    BY <1>1, <2>1
<1>2. ASSUME stock' = stock, sales' = sales PROVE stock' = 0 - SumFunction(Sold')
  <2>1. Sold' = Sold
    BY <1>2 DEF Sold, Closed
  <2> QED
    BY <1>2, <2>1
<1>3. ASSUME NEW s, NEW stored, NEW request, SaleStep(s, stored, request)
      PROVE  stock' = 0 - SumFunction(Sold')
  <2>1. /\ s \in Sales /\ WrittenFrom(s, request, stored) /\ WrittenSale(s, request, stored)
        /\ stock' = IF request.state = "closed" THEN stock - request.quantity ELSE stock
    BY <1>3 DEF SaleStep, Written
  <2>2. s \notin Closed
    BY <2>1 DEF WrittenFrom, Closed
  <2>3. /\ sales'[s] # None /\ sales'[s].state = request.state
        /\ sales'[s].quantity = request.quantity /\ request.quantity \in Int
        /\ \A x \in Sales : x # s => sales'[x] = sales[x]
    BY <2>1, UnitAssumption DEF WrittenSale, UnitAssumption, Lightspeed!SaleRecords
  <2>4. CASE request.state # "closed"
    <3>1. Closed' = Closed
      BY <2>1, <2>2, <2>3, <2>4 DEF Closed
    <3>2. \A x \in Closed : sales'[x].quantity = sales[x].quantity
      BY <2>2, <2>3 DEF Closed
    <3> QED
      BY <1>1, <2>1, <2>4, <3>1, <3>2
  <2>5. CASE request.state = "closed"
    <3>1. Closed' = Closed \cup {s}
      BY <2>1, <2>2, <2>3, <2>5 DEF Closed
    <3>2. IsFiniteSet(DOMAIN Sold') /\ DOMAIN Sold' = Closed' /\ \A x \in DOMAIN Sold' : Sold'[x] \in Int
      <4>1. DOMAIN Sold' = Closed' /\ Closed' \in SUBSET Sales
        BY DEF Sold, Closed
      <4>2. IsFiniteSet(Closed')
        BY <4>1, FS_Subset, UnitAssumption DEF UnitAssumption
      <4>3. \A x \in Closed' : Sold'[x] \in Int
        BY DEF SaleInv, Lightspeed!SaleRecords, Sold, Closed
      <4> QED
        BY <4>1, <4>2, <4>3
    <3>3. Sold'[s] = request.quantity /\ s \in DOMAIN Sold'
      BY <2>3, <3>1, <3>2 DEF Sold
    <3>4. [x \in DOMAIN Sold' \ {s} |-> Sold'[x]] = Sold
      <4>1. DOMAIN Sold' \ {s} = Closed
        BY <2>2, <3>1, <3>2
      <4>2. \A x \in Closed : Sold'[x] = sales[x].quantity
        BY <2>2, <2>3, <3>1 DEF Sold, Closed
      <4> QED
        BY <4>1, <4>2 DEF Sold
    <3>5. SumFunction(Sold') = Sold'[s] + SumFunction([x \in DOMAIN Sold' \ {s} |-> Sold'[x]])
      BY <3>2, <3>3, SumTakesOut
    <3>6. SumFunction(Sold) \in Int
      BY SoldIs
    <3> QED
      BY <2>1, <2>3, <2>5, <3>3, <3>4, <3>5, <3>6
  <2> QED
    BY <2>4, <2>5
<1>4. ASSUME NEW s \in Sales, NEW r \in Sales, Returned(s, r)
      PROVE  stock' = 0 - SumFunction(Sold')
  <2>1. Closed' = Closed
    BY <1>4, UnitAssumption DEF Returned, Closed, UnitAssumption
  <2>2. \A x \in Closed : sales'[x].quantity = sales[x].quantity
    BY <1>4 DEF Returned, Closed
  <2> QED
    BY <1>1, <1>4, <2>1, <2>2 DEF Returned
<1> QED
  BY <1>2, <1>3, <1>4, LightspeedSteps
     DEF Lightspeed!saleVars, Lightspeed!OpenRegister, Lightspeed!CloseRegister, Lightspeed!Tick,
         Lightspeed!Walk

-----------------------------------------------------------------------------

\* Every live payment taken at a register is counted, or its till is open and
\* was opened before the payment.
NoneMissed ==
  \A r \in Registers, s \in Sales :
    sales[s] # None /\ sales[s].state # "voided" =>
      \A i \in DOMAIN sales[s].payments :
        LET p == sales[s].payments[i] IN
        p.register = r =>
          \/ p.id \in Lightspeed!CountedBefore(r)
          \/ registers[r].open /\ registers[r].since <= p.date

LEMMA CountedIs ==
  ASSUME SaleInv, NEW r \in Registers, NEW taken, taken \in SUBSET Entries,
         closures' = [closures EXCEPT ![r] = Append(@, taken)]
  PROVE  /\ UNION {closures'[r][i] : i \in DOMAIN closures'[r]}
              = (UNION {closures[r][i] : i \in DOMAIN closures[r]}) \cup taken
         /\ \A x \in Registers : x # r => closures'[x] = closures[x]
<1>1. /\ closures'[r] = Append(closures[r], taken) /\ \A x \in Registers : x # r => closures'[x] = closures[x]
      /\ closures[r] \in Seq(SUBSET Entries)
  BY DEF SaleInv
<1> DEFINE old == closures[r]
           new == closures'[r]
<1>2. /\ Len(old) \in Nat /\ DOMAIN old = 1..Len(old)
      /\ DOMAIN new = 1..(Len(old) + 1) /\ new[Len(old) + 1] = taken
      /\ \A i \in 1..Len(old) : new[i] = old[i]
  BY <1>1, LenProperties, AppendProperties
<1> HIDE DEF old, new
<1>3. \A i \in DOMAIN new : i = Len(old) + 1 \/ i \in DOMAIN old
  BY <1>2
<1>4. \A e : (\E i \in DOMAIN new : e \in new[i]) <=> (e \in taken \/ \E i \in DOMAIN old : e \in old[i])
  <2> SUFFICES ASSUME NEW e
               PROVE  (\E i \in DOMAIN new : e \in new[i])
                        <=> (e \in taken \/ \E i \in DOMAIN old : e \in old[i])
    OBVIOUS
  <2>1. Len(old) + 1 \in DOMAIN new /\ DOMAIN old \subseteq DOMAIN new
    BY <1>2
  <2> QED
    BY <1>2, <1>3, <2>1
<1>5. UNION {new[i] : i \in DOMAIN new} = (UNION {old[i] : i \in DOMAIN old}) \cup taken
  <2> DEFINE U == UNION {new[i] : i \in DOMAIN new}
             V == UNION {old[i] : i \in DOMAIN old}
  <2>1. \A e : e \in U <=> \E i \in DOMAIN new : e \in new[i]
    OBVIOUS
  <2>2. \A e : e \in V <=> \E i \in DOMAIN old : e \in old[i]
    OBVIOUS
  <2> HIDE DEF U, V
  <2>3. \A e : e \in U <=> e \in V \cup taken
    BY <1>4, <2>1, <2>2
  <2>4. U = V \cup taken
    BY <2>3
  <2> QED
    BY <2>4 DEF U, V
<1> QED
  BY <1>1, <1>5 DEF old, new

LEMMA NoneMissedStep ==
  ASSUME SaleInv, NoneMissed, [Lightspeed!Next]_(Lightspeed!saleVars)
  PROVE  NoneMissed'
<1> SUFFICES ASSUME NEW r \in Registers, NEW x \in Sales, sales'[x] # None, sales'[x].state # "voided",
                    NEW i \in DOMAIN sales'[x].payments, sales'[x].payments[i].register = r
             PROVE  \/ sales'[x].payments[i].id \in Lightspeed!CountedBefore(r)'
                    \/ registers'[r].open /\ registers'[r].since <= sales'[x].payments[i].date
  BY DEF NoneMissed
<1> DEFINE p == sales'[x].payments[i]
           Goal == \/ p.id \in Lightspeed!CountedBefore(r)'
                   \/ registers'[r].open /\ registers'[r].since <= p.date
<1>1. ASSUME sales[x] # None, sales[x].state # "voided", sales'[x].payments = sales[x].payments
      PROVE  \/ p.id \in Lightspeed!CountedBefore(r)
             \/ registers[r].open /\ registers[r].since <= p.date
  BY <1>1 DEF NoneMissed
<1>2. ASSUME sales[x] # None, sales[x].state # "voided", sales'[x].payments = sales[x].payments,
             closures' = closures, registers' = registers
      PROVE  Goal
  <2>1. Lightspeed!CountedBefore(r)' = Lightspeed!CountedBefore(r)
    BY <1>2 DEF Lightspeed!CountedBefore
  <2> HIDE DEF p
  <2> QED
    BY <1>1, <1>2, <2>1
<1>3. CASE UNCHANGED Lightspeed!saleVars
  BY <1>2, <1>3 DEF Lightspeed!saleVars
<1>4. ASSUME NEW s, NEW stored, NEW request, SaleStep(s, stored, request) PROVE Goal
  <2>1. /\ closures' = closures /\ registers' = registers
        /\ WrittenSale(s, request, stored)
    BY <1>4 DEF SaleStep, Written
  <2>2. CASE x = s
    <3>1. registers[r].open /\ p.date = now
      BY <2>1, <2>2 DEF WrittenSale
    <3>2. registers[r].since <= now
      BY DEF SaleInv
    <3> QED
      BY <2>1, <3>1, <3>2
  <2>3. CASE x # s
    <3>1. sales'[x] = sales[x]
      BY <2>1, <2>3 DEF WrittenSale
    <3> HIDE DEF Goal, p
    <3> QED
      BY <1>2, <2>1, <3>1
  <2> QED
    BY <2>2, <2>3
<1>5. ASSUME NEW s \in Sales, NEW t \in Sales, Returned(s, t) PROVE Goal
  <2>1. closures' = closures /\ registers' = registers
    BY <1>5 DEF Returned
  <2>2. x # t
    BY <1>5 DEF Returned
  <2>3. sales[x] # None /\ sales[x].state # "voided" /\ sales'[x].payments = sales[x].payments
    BY <1>5, <2>2 DEF Returned
  <2> HIDE DEF Goal, p
  <2> QED
    BY <1>2, <2>1, <2>3
<1>6. ASSUME NEW t \in Registers, Lightspeed!OpenRegister(t) PROVE Goal
  <2>1. /\ sales' = sales /\ closures' = closures /\ ~registers[t].open
        /\ registers' = [registers EXCEPT ![t] = [open |-> TRUE, since |-> now]]
    BY <1>6 DEF Lightspeed!OpenRegister
  <2>2. Lightspeed!CountedBefore(r)' = Lightspeed!CountedBefore(r)
    BY <2>1 DEF Lightspeed!CountedBefore
  <2>3. \/ p.id \in Lightspeed!CountedBefore(r)
        \/ registers[r].open /\ registers[r].since <= p.date
    BY <1>1, <2>1
  <2>4. registers[r].open => registers'[r] = registers[r]
    BY <2>1 DEF SaleInv
  <2> HIDE DEF p
  <2> QED
    BY <2>2, <2>3, <2>4
<1>7. ASSUME NEW t \in Registers, Lightspeed!CloseRegister(t) PROVE Goal
  <2> DEFINE taken == Lightspeed!AmountsTaken(t)
  <2>1. /\ sales' = sales /\ closures' = [closures EXCEPT ![t] = Append(@, taken)]
        /\ registers' = [registers EXCEPT ![t].open = FALSE]
    BY <1>7 DEF Lightspeed!CloseRegister
  <2>2. taken \in SUBSET Entries
    BY TakenIs
  <2>3. \/ p.id \in Lightspeed!CountedBefore(r)
        \/ registers[r].open /\ registers[r].since <= p.date
    BY <1>1, <2>1
  <2>4. /\ UNION {closures'[t][j] : j \in DOMAIN closures'[t]}
             = (UNION {closures[t][j] : j \in DOMAIN closures[t]}) \cup taken
        /\ \A y \in Registers : y # t => closures'[y] = closures[y]
    <3> HIDE DEF taken
    <3> QED
      BY <2>1, <2>2, CountedIs
  <2>5. CASE r # t
    <3>1. Lightspeed!CountedBefore(r)' = Lightspeed!CountedBefore(r)
      BY <2>4, <2>5 DEF Lightspeed!CountedBefore
    <3>2. registers'[r] = registers[r]
      BY <2>1, <2>5 DEF SaleInv
    <3> HIDE DEF p
    <3> QED
      BY <2>3, <3>1, <3>2
  <2>6. CASE r = t
    <3>1. Lightspeed!CountedBefore(r)' = Lightspeed!CountedBefore(r) \cup {e.id : e \in taken}
      <4> DEFINE before == UNION {closures[t][j] : j \in DOMAIN closures[t]}
                 after == UNION {closures'[t][j] : j \in DOMAIN closures'[t]}
      <4>1. Lightspeed!CountedBefore(r) = {e.id : e \in before}
        BY <2>6 DEF Lightspeed!CountedBefore
      <4>2. Lightspeed!CountedBefore(r)' = {e.id : e \in after}
        BY <2>6 DEF Lightspeed!CountedBefore
      <4>3. after = before \cup taken
        <5> HIDE DEF taken
        <5> QED
          BY <2>4
      <4> HIDE DEF before, after, taken
      <4> QED
        BY <4>1, <4>2, <4>3
    <3>2. CASE p.id \in Lightspeed!CountedBefore(r)
      BY <3>1, <3>2
    <3>3. CASE p.id \notin Lightspeed!CountedBefore(r)
      <4>1. p.date <= now
        BY <2>1 DEF SaleInv
      <4>2. [sale |-> x, id |-> p.id, amount |-> p.amount] \in taken
        BY <2>1, <2>3, <2>6, <3>3, <4>1, TakenIs
      <4>3. p.id \in {e.id : e \in taken}
        BY <4>2
      <4> QED
        BY <3>1, <4>3
    <3> QED
      BY <3>2, <3>3
  <2> QED
    BY <2>5, <2>6
<1>8. CASE Lightspeed!Tick
  BY <1>2, <1>8 DEF Lightspeed!Tick
<1>9. CASE Lightspeed!Walk
  BY <1>2, <1>9 DEF Lightspeed!Walk
<1> QED
  BY <1>3, <1>4, <1>5, <1>6, <1>7, <1>8, <1>9, LightspeedSteps

\* The entries of a closure for one amount of one sale, and how many there are
\* in each closure of a register.
Part(closure, s, a) == {e \in closure : e.sale = s /\ e.amount = a}
Parts(r, s, a) == [i \in DOMAIN closures[r] |-> Cardinality(Part(closures[r][i], s, a))]

\* The payments of that amount the sale now has and the register did not count.
Current(s, a) == IF sales[s] = None THEN {} ELSE Ids(sales[s].payments, a)
Uncounted(r, s, a) == Current(s, a) \ Lightspeed!CountedBefore(r)

\* What is counted and what is still to count was handed over.
CountInv ==
  \A r \in Registers, s \in Sales, a \in SaleAmounts :
    SumFunction(Parts(r, s, a)) + Cardinality(Uncounted(r, s, a)) <= handed[s][a]

LEMMA PartIs ==
  ASSUME NEW closure \in SUBSET Entries, NEW n \in Nat, \A e \in closure : e.id \in 1..n,
         NEW s, NEW a
  PROVE  /\ IsFiniteSet(Part(closure, s, a)) /\ Cardinality(Part(closure, s, a)) \in Nat
         /\ IsFiniteSet({e.id : e \in Part(closure, s, a)})
         /\ Cardinality({e.id : e \in Part(closure, s, a)}) = Cardinality(Part(closure, s, a))
<1> DEFINE T == Part(closure, s, a)
           f == [e \in T |-> e.id]
<1>1. \A x, y \in T : x # y => x.id # y.id
  BY DEF Part, Entries
<1>2. IsFiniteSet(T) /\ Cardinality(T) \in Nat
  <2> DEFINE entry == [i \in 1..n |-> [sale |-> s, id |-> i, amount |-> a]]
             all == {entry[i] : i \in 1..n}
  <2>1. IsFiniteSet(1..n)
    BY FS_Interval
  <2>2. IsFiniteSet(all)
    <3>1. entry \in Surjection(1..n, all)
      BY DEF Surjection
    <3> QED
      BY <2>1, <3>1, FS_Surjection
  <2>3. T \subseteq all
    BY DEF Part, Entries
  <2> HIDE DEF all
  <2> QED
    BY <2>2, <2>3, FS_Subset, FS_CardinalityType
<1>3. f = [e \in T |-> f[e]] /\ \A x, y \in T : x # y => f[x] # f[y]
  BY <1>1
<1>4. {e.id : e \in T} = {f[e] : e \in T}
  OBVIOUS
<1> HIDE DEF f, T
<1>5. IsFiniteSet({f[e] : e \in T}) /\ Cardinality({f[e] : e \in T}) = Cardinality(T)
  BY <1>2, <1>3, CountImage
<1> QED
  BY <1>2, <1>4, <1>5 DEF T

LEMMA PartsIs ==
  ASSUME SaleInv, NEW r \in Registers, NEW s, NEW a
  PROVE  /\ DOMAIN Parts(r, s, a) = 1..Len(closures[r]) /\ Len(closures[r]) \in Nat
         /\ IsFiniteSet(DOMAIN Parts(r, s, a))
         /\ \A i \in DOMAIN Parts(r, s, a) : Parts(r, s, a)[i] \in Int
         /\ SumFunction(Parts(r, s, a)) \in Int
<1>1. /\ closures[r] \in Seq(SUBSET Entries) /\ minted \in Nat
      /\ \A i \in DOMAIN closures[r] : \A e \in closures[r][i] : e.id \in 1..minted
  BY DEF SaleInv
<1>2. Len(closures[r]) \in Nat /\ DOMAIN closures[r] = 1..Len(closures[r])
  BY <1>1, LenProperties
<1>3. DOMAIN Parts(r, s, a) = 1..Len(closures[r]) /\ IsFiniteSet(1..Len(closures[r]))
  BY <1>2, FS_Interval DEF Parts
<1>4. \A i \in DOMAIN Parts(r, s, a) : Parts(r, s, a)[i] \in Int
  <2> SUFFICES ASSUME NEW i \in 1..Len(closures[r]) PROVE Parts(r, s, a)[i] \in Int
    BY <1>3
  <2>1. closures[r][i] \in SUBSET Entries /\ \A e \in closures[r][i] : e.id \in 1..minted
    BY <1>1, <1>2, ElementOfSeq
  <2>2. Cardinality(Part(closures[r][i], s, a)) \in Nat
    BY <1>1, <2>1, PartIs
  <2> QED
    BY <1>2, <2>2 DEF Parts
<1> QED
  BY <1>2, <1>3, <1>4, SumIsInt

LEMMA CurrentIs ==
  ASSUME SaleInv, NEW r, NEW s \in Sales, NEW a
  PROVE  /\ IsFiniteSet(Current(s, a))
         /\ IsFiniteSet(Uncounted(r, s, a)) /\ Cardinality(Uncounted(r, s, a)) \in Nat
<1>1. IsFiniteSet(Current(s, a))
  <2>1. CASE sales[s] = None
    BY <2>1, FS_EmptySet DEF Current
  <2>2. CASE sales[s] # None
    <3> DEFINE list == sales[s].payments
    <3>1. Listed(list)
      BY <2>2 DEF SaleInv
    <3>2. IsFiniteSet(DOMAIN list)
      BY <3>1, FS_Interval, LenProperties DEF Listed
    <3>3. \A i, j \in DOMAIN list : i # j => list[i].id # list[j].id
      BY <3>1 DEF Listed
    <3> HIDE DEF list
    <3>4. IsFiniteSet(Ids(list, a))
      BY <3>2, <3>3, IdsCount
    <3> QED
      BY <2>2, <3>4 DEF Current, list
  <2> QED
    BY <2>1, <2>2
<1> QED
  BY <1>1, FS_Difference, FS_CardinalityType DEF Uncounted

(* What is counted and what is still to count was handed over.             *)
LEMMA CountStep ==
  ASSUME SaleInv, SaleInv', CountInv, [Lightspeed!Next]_(Lightspeed!saleVars)
  PROVE  CountInv'
<1> SUFFICES ASSUME NEW r \in Registers, NEW s \in Sales, NEW a \in SaleAmounts
             PROVE  SumFunction(Parts(r, s, a)') + Cardinality(Uncounted(r, s, a)') <= handed'[s][a]
  BY DEF CountInv
<1> DEFINE before == SumFunction(Parts(r, s, a))
           after == SumFunction(Parts(r, s, a)')
           more == Cardinality(Uncounted(r, s, a))
           left == Cardinality(Uncounted(r, s, a)')
<1>1. /\ before + more <= handed[s][a] /\ handed[s][a] \in Nat
      /\ before \in Int /\ more \in Nat
  BY PartsIs, CurrentIs DEF CountInv, SaleInv
<1>2. IsFiniteSet(Uncounted(r, s, a)) /\ IsFiniteSet(Current(s, a))
  BY CurrentIs
<1>3. closures' = closures =>
        after = before /\ Lightspeed!CountedBefore(r)' = Lightspeed!CountedBefore(r)
  BY DEF Parts, Lightspeed!CountedBefore
<1>4. ASSUME closures' = closures, handed' = handed, Current(s, a)' \subseteq Current(s, a)
      PROVE  after + left <= handed'[s][a]
  <2>1. Uncounted(r, s, a)' \subseteq Uncounted(r, s, a)
    BY <1>3, <1>4 DEF Uncounted
  <2>2. left <= more /\ left \in Nat
    BY <1>2, <2>1, FS_Subset, FS_CardinalityType
  <2> HIDE DEF before, after, more, left
  <2> QED
    BY <1>1, <1>3, <1>4, <2>2
<1>5. sales' = sales => Current(s, a)' = Current(s, a)
  BY DEF Current
<1>6. CASE UNCHANGED Lightspeed!saleVars
  BY <1>4, <1>5, <1>6 DEF Lightspeed!saleVars
<1>7. ASSUME NEW x, NEW stored, NEW request, SaleStep(x, stored, request)
      PROVE  after + left <= handed'[s][a]
  <2>1. /\ x \in Sales /\ closures' = closures /\ WrittenSale(x, request, stored)
        /\ WrittenFrom(x, request, stored)
        /\ handed' = [handed EXCEPT ![x] =
             [b \in SaleAmounts |-> @[b] + Lightspeed!Grown(stored, request.payments)[b]]]
    BY <1>7 DEF SaleStep, Written
  <2>2. CASE s # x
    <3>1. sales'[s] = sales[s] /\ handed'[s] = handed[s]
      BY <2>1, <2>2 DEF WrittenSale, SaleInv
    <3>2. Uncounted(r, s, a)' = Uncounted(r, s, a)
      BY <1>3, <2>1, <3>1 DEF Uncounted, Current
    <3> HIDE DEF before, after
    <3> QED
      BY <1>1, <1>3, <2>1, <3>1, <3>2
  <2>3. CASE s = x
    <3> DEFINE fresh == Ids(sales'[s].payments, a) \ Ids(stored, a)
               grown == Lightspeed!Grown(stored, request.payments)[a]
    <3>1. IsFiniteSet(fresh) /\ Cardinality(fresh) <= grown /\ grown \in Nat
      BY <2>1, <2>3 DEF WrittenSale
    <3>2. Current(s, a) = Ids(stored, a)
      BY <2>1, <2>3, EmptySeq, LenProperties DEF Current, WrittenFrom, Ids
    <3>3. Current(s, a)' = Ids(sales'[s].payments, a)
      BY <2>1, <2>3, UnitAssumption DEF WrittenSale, Current, UnitAssumption, Ids
    <3>4. Uncounted(r, s, a)' \subseteq Uncounted(r, s, a) \cup fresh
      BY <1>3, <2>1, <3>2, <3>3 DEF Uncounted
    <3>5. handed'[s][a] = handed[s][a] + grown
      BY <2>1, <2>3 DEF SaleInv
    <3> HIDE DEF fresh, grown
    <3>6. /\ IsFiniteSet(Uncounted(r, s, a) \cup fresh)
          /\ Cardinality(Uncounted(r, s, a) \cup fresh) <= more + Cardinality(fresh)
          /\ Cardinality(fresh) \in Nat
      <4>1. Cardinality(Uncounted(r, s, a) \cup fresh)
              = more + Cardinality(fresh) - Cardinality(Uncounted(r, s, a) \cap fresh)
        BY <1>2, <3>1, FS_Union
      <4>2. Cardinality(Uncounted(r, s, a) \cap fresh) \in Nat /\ Cardinality(fresh) \in Nat
        BY <1>2, <3>1, FS_Intersection, FS_CardinalityType
      <4>3. IsFiniteSet(Uncounted(r, s, a) \cup fresh)
        BY <1>2, <3>1, FS_Union
      <4> HIDE DEF more
      <4> QED
        BY <1>1, <4>1, <4>2, <4>3
    <3>7. left <= Cardinality(Uncounted(r, s, a) \cup fresh) /\ left \in Nat
          /\ Cardinality(Uncounted(r, s, a) \cup fresh) \in Nat
      BY <3>4, <3>6, FS_Subset, FS_CardinalityType
    <3> HIDE DEF before, after, more, left
    <3> QED
      BY <1>1, <1>3, <2>1, <3>1, <3>5, <3>6, <3>7
  <2> QED
    BY <2>2, <2>3
<1>8. ASSUME NEW x \in Sales, NEW y \in Sales, Returned(x, y)
      PROVE  after + left <= handed'[s][a]
  <2>1. Current(s, a)' \subseteq Current(s, a)
    <3>1. CASE s = y
      <4>1. sales'[s].payments = <<>>
        BY <1>8, <3>1 DEF Returned
      <4>2. Ids(<<>>, a) = {}
        BY EmptySeq, LenProperties DEF Ids
      <4> QED
        BY <4>1, <4>2 DEF Current
    <3>2. CASE s = x
      BY <1>8, <3>2, UnitAssumption DEF Returned, Current, UnitAssumption
    <3>3. CASE s # x /\ s # y
      BY <1>8, <3>3 DEF Returned, Current
    <3> QED
      BY <3>1, <3>2, <3>3
  <2> QED
    BY <1>4, <1>8, <2>1 DEF Returned
<1>9. ASSUME NEW t \in Registers, Lightspeed!CloseRegister(t)
      PROVE  after + left <= handed'[s][a]
  <2> DEFINE taken == Lightspeed!AmountsTaken(t)
             part == Part(taken, s, a)
             ids == {e.id : e \in part}
  <2>1. /\ sales' = sales /\ handed' = handed
        /\ closures' = [closures EXCEPT ![t] = Append(@, taken)]
    BY <1>9 DEF Lightspeed!CloseRegister
  <2>2. /\ taken \in SUBSET Entries
        /\ \A e \in taken : /\ e.id \in 1..minted /\ e.id \notin Lightspeed!CountedBefore(t)
                            /\ sales[e.sale] # None /\ e.id \in Ids(sales[e.sale].payments, e.amount)
    BY TakenIs
  <2>3. minted \in Nat
    BY DEF SaleInv
  <2>4. /\ IsFiniteSet(part) /\ Cardinality(part) \in Nat
        /\ IsFiniteSet(ids) /\ Cardinality(ids) = Cardinality(part)
    <3> HIDE DEF taken
    <3> QED
      BY <2>2, <2>3, PartIs
  <2>5. /\ UNION {closures'[t][j] : j \in DOMAIN closures'[t]}
             = (UNION {closures[t][j] : j \in DOMAIN closures[t]}) \cup taken
        /\ \A y \in Registers : y # t => closures'[y] = closures[y]
    <3> HIDE DEF taken
    <3> QED
      BY <2>1, <2>2, CountedIs
  <2>6. CASE r # t
    <3>1. Parts(r, s, a)' = Parts(r, s, a) /\ Uncounted(r, s, a)' = Uncounted(r, s, a)
      BY <1>5, <2>1, <2>5, <2>6 DEF Parts, Uncounted, Lightspeed!CountedBefore
    <3> QED
      BY <1>1, <2>1, <3>1
  <2>7. CASE r = t
    <3>1. Uncounted(r, s, a)' \subseteq Uncounted(r, s, a) \ ids
      <4>1. Lightspeed!CountedBefore(r)' = Lightspeed!CountedBefore(r) \cup {e.id : e \in taken}
        <5> DEFINE old == UNION {closures[t][j] : j \in DOMAIN closures[t]}
                   new == UNION {closures'[t][j] : j \in DOMAIN closures'[t]}
        <5>1. Lightspeed!CountedBefore(r) = {e.id : e \in old}
          BY <2>7 DEF Lightspeed!CountedBefore
        <5>2. Lightspeed!CountedBefore(r)' = {e.id : e \in new}
          BY <2>7 DEF Lightspeed!CountedBefore
        <5>3. new = old \cup taken
          <6> HIDE DEF taken
          <6> QED
            BY <2>5
        <5> HIDE DEF old, new, taken
        <5> QED
          BY <5>1, <5>2, <5>3
      <4>2. ids \subseteq {e.id : e \in taken}
        BY DEF Part
      <4> HIDE DEF ids, taken, part
      <4> QED
        BY <1>5, <2>1, <4>1, <4>2 DEF Uncounted
    <3>2. ids \subseteq Uncounted(r, s, a)
      <4> SUFFICES ASSUME NEW e \in part PROVE e.id \in Uncounted(r, s, a)
        OBVIOUS
      <4>1. e \in taken /\ e.sale = s /\ e.amount = a
        BY DEF Part
      <4> HIDE DEF taken, part
      <4> QED
        BY <2>2, <2>7, <4>1 DEF Uncounted, Current
    <3>3. left <= more - Cardinality(part) /\ left \in Nat
      <4> HIDE DEF ids, part
      <4>1. /\ IsFiniteSet(Uncounted(r, s, a) \ ids)
            /\ Cardinality(Uncounted(r, s, a) \ ids)
                 = more - Cardinality(Uncounted(r, s, a) \cap ids)
        BY <1>2, FS_Difference
      <4>2. Uncounted(r, s, a) \cap ids = ids
        BY <3>2
      <4>3. left <= Cardinality(Uncounted(r, s, a) \ ids) /\ left \in Nat
        BY <3>1, <4>1, FS_Subset, FS_CardinalityType
      <4> QED
        BY <2>4, <4>1, <4>2, <4>3
    <3>4. after = before + Cardinality(part)
      <4> DEFINE f == Parts(r, s, a)
                 g == Parts(r, s, a)'
                 n == Len(closures[r])
      <4>1. closures[r] \in Seq(SUBSET Entries)
        BY DEF SaleInv
      <4>2. closures'[r] = Append(closures[r], taken)
        BY <2>1, <2>7 DEF SaleInv
      <4>3. /\ n \in Nat /\ DOMAIN closures[r] = 1..n
            /\ DOMAIN closures'[r] = 1..(n + 1) /\ closures'[r][n + 1] = taken
            /\ \A i \in 1..n : closures'[r][i] = closures[r][i]
        <5> HIDE DEF taken
        <5> QED
          BY <2>2, <4>1, <4>2, LenProperties, AppendProperties
      <4>4. /\ DOMAIN g = 1..(n + 1) /\ DOMAIN f = 1..n /\ g[n + 1] = Cardinality(part)
            /\ \A i \in 1..n : g[i] = f[i]
        BY <4>3 DEF Parts
      <4>5. f = [i \in 1..n |-> f[i]]
        BY <4>3 DEF Parts
      <4>6. /\ IsFiniteSet(1..(n + 1)) /\ \A i \in 1..n : f[i] \in Int
        <5>1. \A i \in DOMAIN f : f[i] \in Int
          BY PartsIs
        <5> HIDE DEF f, g, n, part, taken
        <5>2. IsFiniteSet(1..(n + 1))
          BY <4>3, FS_Interval
        <5> QED
          BY <4>4, <5>1, <5>2
      <4> HIDE DEF f, g, n, part, taken
      <4>7. n + 1 \in DOMAIN g /\ IsFiniteSet(DOMAIN g) /\ \A i \in DOMAIN g : g[i] \in Int
        <5>1. \A i \in 1..(n + 1) : i = n + 1 \/ i \in 1..n
          BY <4>3
        <5> QED
          BY <2>4, <4>3, <4>4, <4>6, <5>1
      <4>8. SumFunction(g) = g[n + 1] + SumFunction([i \in DOMAIN g \ {n + 1} |-> g[i]])
        BY <4>7, SumTakesOut
      <4>9. [i \in DOMAIN g \ {n + 1} |-> g[i]] = f
        <5>1. DOMAIN g \ {n + 1} = 1..n
          BY <4>3, <4>4
        <5> QED
          BY <4>4, <4>5, <5>1
      <4>10. before = SumFunction(f) /\ after = SumFunction(g)
        BY DEF f, g
      <4>11. SumFunction(g) = g[n + 1] + SumFunction(f)
        BY <4>8, <4>9
      <4> HIDE DEF before, after
      <4>12. after = Cardinality(part) + before
        BY <4>4, <4>10, <4>11
      <4> QED
        BY <1>1, <2>4, <4>12
    <3> HIDE DEF before, after, more, left, part
    <3> QED
      BY <1>1, <2>1, <2>4, <3>3, <3>4
  <2> QED
    BY <2>6, <2>7
<1>10. ASSUME NEW t \in Registers, Lightspeed!OpenRegister(t) PROVE after + left <= handed'[s][a]
  BY <1>4, <1>5, <1>10 DEF Lightspeed!OpenRegister
<1>11. Lightspeed!Tick \/ Lightspeed!Walk => after + left <= handed'[s][a]
  BY <1>4, <1>5 DEF Lightspeed!Tick, Lightspeed!Walk
<1> QED
  <2> DEFINE Goal == after + left <= handed'[s][a]
  <2>1. /\ UNCHANGED Lightspeed!saleVars => Goal
        /\ \A x, stored, request : SaleStep(x, stored, request) => Goal
        /\ \A x, y \in Sales : Returned(x, y) => Goal
        /\ \A t \in Registers :
             (Lightspeed!OpenRegister(t) => Goal) /\ (Lightspeed!CloseRegister(t) => Goal)
        /\ (Lightspeed!Tick => Goal) /\ (Lightspeed!Walk => Goal)
    BY <1>6, <1>7, <1>8, <1>9, <1>10, <1>11
  <2> HIDE DEF Goal
  <2>2. Goal
    BY <2>1, LightspeedSteps
  <2> QED
    BY <2>2 DEF Goal

-----------------------------------------------------------------------------
(* Lightspeed: the theorems.                                               *)

\* Everything that is kept by every step of the Lightspeed vendor.
LightspeedInv ==
  SaleInv /\ Lightspeed!WalkMissesNothing /\ stock = 0 - SumFunction(Sold) /\ NoneMissed /\ CountInv

LEMMA EmptySum ==
  ASSUME NEW f, DOMAIN f = {}
  PROVE  SumFunction(f) = 0
<1>1. PICK iter : Sums(iter, f, DOMAIN f) /\ SumFunction(f) = iter[DOMAIN f]
  BY SumUnfolds, FS_EmptySet
<1> QED
  BY <1>1 DEF Sums

LEMMA LightspeedStarts == Lightspeed!Init => LightspeedInv
<1> SUFFICES ASSUME Lightspeed!Init PROVE LightspeedInv
  OBVIOUS
<1>1. \A r \in Registers : closures[r] = <<>>
  BY DEF Lightspeed!Init
<1>2. \A s \in Sales : sales[s] = None
  BY DEF Lightspeed!Init
<1>3. SaleInv
  <2>1. closures \in [Registers -> Seq(SUBSET Entries)]
    BY EmptySeq DEF Lightspeed!Init
  <2>2. \A r \in Registers : \A i \in DOMAIN closures[r] : FALSE
    BY <1>1, EmptySeq, LenProperties
  <2>3. handed \in [Sales -> [SaleAmounts -> Nat]]
    BY DEF Lightspeed!Init
  <2> QED
    BY <1>2, <2>1, <2>2, <2>3 DEF Lightspeed!Init, SaleInv
<1>4. Lightspeed!WalkMissesNothing /\ NoneMissed
  BY <1>2 DEF Lightspeed!WalkMissesNothing, Lightspeed!Stored, NoneMissed
<1>5. stock = 0 - SumFunction(Sold)
  <2>1. DOMAIN Sold = {}
    BY <1>2 DEF Sold, Closed
  <2>2. SumFunction(Sold) = 0
    BY <2>1, EmptySum
  <2> QED
    BY <2>2 DEF Lightspeed!Init
<1>6. CountInv
  <2> SUFFICES ASSUME NEW r \in Registers, NEW s \in Sales, NEW a \in SaleAmounts
               PROVE  SumFunction(Parts(r, s, a)) + Cardinality(Uncounted(r, s, a)) <= handed[s][a]
    BY DEF CountInv
  <2>1. DOMAIN Parts(r, s, a) = {}
    BY <1>1, EmptySeq, LenProperties DEF Parts
  <2>2. SumFunction(Parts(r, s, a)) = 0
    BY <2>1, EmptySum
  <2>3. Cardinality(Uncounted(r, s, a)) = 0
    BY <1>2, FS_EmptySet DEF Uncounted, Current
  <2>4. handed[s][a] = 0
    BY DEF Lightspeed!Init
  <2> QED
    BY <2>2, <2>3, <2>4
<1> QED
  BY <1>3, <1>4, <1>5, <1>6 DEF LightspeedInv

LEMMA LightspeedKeeps == Lightspeed!Spec => []LightspeedInv
<1>1. LightspeedInv /\ [Lightspeed!Next]_(Lightspeed!saleVars) => LightspeedInv'
  <2> SUFFICES ASSUME LightspeedInv, [Lightspeed!Next]_(Lightspeed!saleVars) PROVE LightspeedInv'
    OBVIOUS
  <2>1. SaleInv /\ SaleInv'
    BY SaleInvStep DEF LightspeedInv
  <2>2. Lightspeed!WalkMissesNothing'
    BY <2>1, WalkStep DEF LightspeedInv
  <2>3. stock' = 0 - SumFunction(Sold')
    BY <2>1, StockStep DEF LightspeedInv
  <2>4. NoneMissed'
    BY <2>1, NoneMissedStep DEF LightspeedInv
  <2>5. CountInv'
    BY <2>1, CountStep DEF LightspeedInv
  <2> QED
    BY <2>1, <2>2, <2>3, <2>4, <2>5 DEF LightspeedInv
<1> QED
  BY <1>1, LightspeedStarts, PTL DEF Lightspeed!Spec

(* In every unit the walk by version misses no write.                      *)
THEOREM UnitWalkMissesNothing == UnitSpec => []WalkMissesNothing
<1>1. LightspeedInv => WalkMissesNothing
  BY DEF LightspeedInv, WalkMissesNothing
<1> QED
  BY <1>1, UnitIsLightspeed, LightspeedKeeps, PTL

(* In every unit the stock is down by what the closed sales sold.          *)
THEOREM UnitStockBalances == UnitSpec => []StockBalances
<1>1. LightspeedInv => StockBalances
  BY StockIs DEF LightspeedInv, StockBalances
<1> QED
  BY <1>1, UnitIsLightspeed, LightspeedKeeps, PTL

LEMMA SumsAreTheParts ==
  ASSUME SaleInv, NEW r \in Registers, NEW s, NEW a
  PROVE  Lightspeed!SumFunction([i \in DOMAIN closures[r] |->
           Lightspeed!Cardinality({e \in closures[r][i] : e.sale = s /\ e.amount = a})])
             = SumFunction(Parts(r, s, a))
<1>1. [i \in DOMAIN closures[r] |->
         Lightspeed!Cardinality({e \in closures[r][i] : e.sale = s /\ e.amount = a})]
        = Parts(r, s, a)
  BY SameCardinality DEF Parts, Part
<1> QED
  BY <1>1, SumSame

(* In every unit a till counts a payment as often as it was handed over at *)
(* most, and a closed till has counted every live payment taken at it.     *)
THEOREM UnitTillsCountOnce == UnitSpec => []TillCountsOnce
<1>1. LightspeedInv => TillCountsOnce
  <2> SUFFICES ASSUME LightspeedInv, NEW r \in Registers
               PROVE  /\ \A s \in Sales, a \in SaleAmounts :
                           Lightspeed!SumFunction([i \in DOMAIN closures[r] |->
                             Lightspeed!Cardinality({e \in closures[r][i] : e.sale = s /\ e.amount = a})])
                               <= handed[s][a]
                      /\ ~registers[r].open =>
                           \A s \in Lightspeed!Stored : \A i \in DOMAIN sales[s].payments :
                             sales[s].payments[i].register = r /\ sales[s].state # "voided" =>
                               sales[s].payments[i].id \in Lightspeed!CountedBefore(r)
    BY DEF TillCountsOnce, Lightspeed!TillCountsOnce
  <2>1. ASSUME NEW s \in Sales, NEW a \in SaleAmounts
        PROVE  Lightspeed!SumFunction([i \in DOMAIN closures[r] |->
                 Lightspeed!Cardinality({e \in closures[r][i] : e.sale = s /\ e.amount = a})])
                   <= handed[s][a]
    <3>1. SumFunction(Parts(r, s, a)) + Cardinality(Uncounted(r, s, a)) <= handed[s][a]
      BY DEF LightspeedInv, CountInv
    <3>2. /\ SumFunction(Parts(r, s, a)) \in Int /\ Cardinality(Uncounted(r, s, a)) \in Nat
          /\ handed[s][a] \in Nat
      BY PartsIs, CurrentIs DEF LightspeedInv, SaleInv
    <3>3. SumFunction(Parts(r, s, a)) <= handed[s][a]
      BY <3>1, <3>2
    <3> QED
      BY <3>3, SumsAreTheParts DEF LightspeedInv
  <2>2. ASSUME ~registers[r].open, NEW s \in Lightspeed!Stored, NEW i \in DOMAIN sales[s].payments,
               sales[s].payments[i].register = r, sales[s].state # "voided"
        PROVE  sales[s].payments[i].id \in Lightspeed!CountedBefore(r)
    BY <2>2 DEF LightspeedInv, NoneMissed, Lightspeed!Stored
  <2> QED
    BY <2>1, <2>2
<1> QED
  BY <1>1, UnitIsLightspeed, LightspeedKeeps, PTL

(* In every unit the entities of every vendor are of their types.          *)
THEOREM UnitKeepsTypes == UnitSpec => []EntitiesTypeOK
<1>1. SaleInv => Lightspeed!LightspeedTypeOK
  <2> SUFFICES ASSUME SaleInv PROVE Lightspeed!LightspeedTypeOK
    OBVIOUS
  <2>1. \A s \in Lightspeed!Stored :
          /\ sales[s] \in Lightspeed!SaleRecords /\ sales[s].version <= version
          /\ \A i \in DOMAIN sales[s].payments : sales[s].payments[i].id <= minted
    BY DEF SaleInv, Lightspeed!Stored, Listed
  <2>2. registers \in [Registers -> [open : BOOLEAN, since : 0..now]]
    BY DEF SaleInv
  <2>3. stock \in Int /\ minted \in Nat /\ cursor \in 0..version
    BY DEF SaleInv
  <2>4. \A r \in Registers : \A i \in DOMAIN closures[r] :
          closures[r][i] \subseteq [sale : Sales, id : 1..minted, amount : SaleAmounts]
    <3> SUFFICES ASSUME NEW r \in Registers, NEW i \in DOMAIN closures[r], NEW e \in closures[r][i]
                 PROVE  e \in [sale : Sales, id : 1..minted, amount : SaleAmounts]
      OBVIOUS
    <3>1. closures[r] \in Seq(SUBSET Entries) /\ e.id \in 1..minted
      BY DEF SaleInv
    <3>2. closures[r][i] \in SUBSET Entries
      BY <3>1, ElementOfSeq, LenProperties
    <3> QED
      BY <3>1, <3>2 DEF Entries
  <2> QED
    BY <2>1, <2>2, <2>3, <2>4 DEF Lightspeed!LightspeedTypeOK
<1>2. LightspeedInv => Lightspeed!LightspeedTypeOK
  BY <1>1 DEF LightspeedInv
<1>3. CloverTypeOK /\ Toast!ToastTypeOK /\ Lightspeed!LightspeedTypeOK => EntitiesTypeOK
  BY DEF EntitiesTypeOK
<1> QED
  BY <1>2, <1>3, UnitIsClover, TypeCorrect, UnitKeepsToastTypes, UnitIsLightspeed, LightspeedKeeps, PTL

=============================================================================
