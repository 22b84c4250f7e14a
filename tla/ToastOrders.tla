----------------------------- MODULE ToastOrders -----------------------------
(***************************************************************************)
(* The order and payment handlers of the Toast vendor                      *)
(* (toast/surface/orders.py, toast/surface/payments.py).  An order carries *)
(* checks; payments are documents of their own that name the check they    *)
(* pay.  Every handler runs under the pipeline lock and is one step; a     *)
(* refused request leaves no trace and is no step.                         *)
(*                                                                         *)
(* A CREDIT payment is stored under the guid of the seeded authorization   *)
(* it captures, an OTHER payment under a fresh one.  The selections and    *)
(* discounts of a check are what its total moves by.                       *)
(***************************************************************************)
EXTENDS Integers, FiniteSets, Functions, Sequences, StateMachine

CONSTANTS
  Orders,              \* the ids orders may get
  Others,              \* the ids minted for OTHER payments
  Authorizations,      \* the seeded credit authorizations
  Authorized,          \* the cents each of them is for
  CheckTotals,         \* what the selections of a check can come to
  Amounts,             \* what one payment can be of
  MaxChecks, MaxBatch, \* bounds on the checks and the payments of a request
  None

VARIABLES
  orders,              \* order id -> [checks, voided, paid], or None
  payments             \* payment id -> the stored payment, or None

toastVars == <<orders, payments>>

Ids == Others \cup Authorizations

CHECK_MACHINE ==
  [to |-> [OPEN |-> {"PAID", "CLOSED", "VOIDED"}, PAID |-> {"CLOSED", "VOIDED"},
           CLOSED |-> {"VOIDED"}, VOIDED |-> {}],
   self |-> {}]

\* load_order and _assert_not_voided: what every handler asks first.
Live(o) == orders[o] # None /\ ~orders[o].voided

-----------------------------------------------------------------------------
(* Payments and settling, over the payments pays holds.                    *)

OfCheck(pays, o, c) ==
  {p \in Ids : pays[p] # None /\ pays[p].order = o /\ pays[p].check = c}
LiveOf(pays, o, c) == {p \in OfCheck(pays, o, c) : ~pays[p].voided}
covered_cents(pays, o, c) == SumFunction([p \in LiveOf(pays, o, c) |-> pays[p].amount])
AwaitingTip(pays, o, c) ==
  \E p \in LiveOf(pays, o, c) : p \in Authorizations /\ ~pays[p].tipped

\* The status settle_order gives a check: PAID while a CREDIT payment that
\* covers it awaits its tip, CLOSED once nothing is outstanding.
Settled(pays, o, c, check) ==
  LET covered == covered_cents(pays, o, c) >= check.total
  IN CASE check.status = "OPEN" /\ OfCheck(pays, o, c) # {} /\ covered ->
            IF AwaitingTip(pays, o, c) THEN "PAID" ELSE "CLOSED"
       [] check.status = "PAID" /\ ~AwaitingTip(pays, o, c) -> "CLOSED"
       [] OTHER -> check.status

settle_order(pays, o, order) ==
  LET checks == [c \in DOMAIN order.checks |->
                   [order.checks[c] EXCEPT !.status = Settled(pays, o, c, order.checks[c])]]
      settled == checks # <<>> /\ \A c \in DOMAIN checks : checks[c].status \in {"PAID", "CLOSED"}
  IN [order EXCEPT !.checks = checks, !.paid = @ \/ settled]

\* The payments a batch of requests [id, check, amount, tipped] stores.
Store(o, batch) ==
  [p \in Ids |->
     IF \E i \in DOMAIN batch : batch[i].id = p
     THEN LET b == batch[CHOOSE i \in DOMAIN batch : batch[i].id = p]
          IN [order |-> o, check |-> b.check, amount |-> b.amount,
              tipped |-> b.tipped, voided |-> FALSE]
     ELSE payments[p]]

\* What the elements before the i-th of the batch already put on its check.
BatchCovered(batch, i) ==
  LET mine == {j \in 1..(i - 1) : batch[j].check = batch[i].check}
  IN SumFunction([j \in mine |-> batch[j].amount])

\* add_payment, element by element over one accumulating batch.
Accepted(o, checks, batch) ==
  \A i \in DOMAIN batch :
    LET b == batch[i]
        check == checks[b.check]
        covered == covered_cents(payments, o, b.check) + BatchCovered(batch, i)
    IN /\ check.status = "OPEN"
       /\ ~(covered >= check.total /\ check.total > 0)
       /\ payments[b.id] = None
       /\ \A j \in 1..(i - 1) : batch[j].id # b.id
       /\ b.id \in Authorizations => b.amount <= Authorized[b.id]

-----------------------------------------------------------------------------

\* OrderCreate: the rehearsal refuses before an id is drawn; then the order,
\* its payments, and the settling of the order if it has any.
CreateOrder(o, totals, batch) ==
  LET checks == [c \in DOMAIN totals |-> [total |-> totals[c], status |-> "OPEN"]]
      order == [checks |-> checks, voided |-> FALSE, paid |-> FALSE]
  IN /\ orders[o] = None
     /\ Accepted(o, checks, batch)
     /\ payments' = Store(o, batch)
     /\ orders' = [orders EXCEPT ![o] =
          IF batch = <<>> THEN order ELSE settle_order(Store(o, batch), o, order)]

\* CheckPaymentsPost: the array is accepted as a whole, for one check.
AddPayments(o, c, batch) ==
  /\ Live(o)
  /\ \A i \in DOMAIN batch : batch[i].check = c
  /\ Accepted(o, orders[o].checks, batch)
  /\ payments' = Store(o, batch)
  /\ orders' = [orders EXCEPT ![o] = settle_order(Store(o, batch), o, @)]

\* CheckSelectionsPost: an unsettled check only; its total grows, and the
\* order is not settled again.
AddSelections(o, c, total) ==
  /\ Live(o)
  /\ orders[o].checks[c].status = "OPEN"
  /\ total >= orders[o].checks[c].total
  /\ orders' = [orders EXCEPT ![o].checks[c].total = total]
  /\ UNCHANGED payments

\* A discount that does not settle the order.
ApplyDiscountsUnsettled(o, c, total) ==
  /\ Live(o)
  /\ IsMutable(CHECK_MACHINE, orders[o].checks[c].status)
  /\ total \in covered_cents(payments, o, c)..orders[o].checks[c].total
  /\ orders' = [orders EXCEPT ![o].checks[c].total = total]
  /\ UNCHANGED payments

\* CheckDiscountsPost and SelectionDiscountsPost: also on a settled check,
\* but never below what its payments cover.
ApplyDiscounts(o, c, total) ==
  /\ Live(o)
  /\ IsMutable(CHECK_MACHINE, orders[o].checks[c].status)
  /\ total <= orders[o].checks[c].total
  /\ total >= covered_cents(payments, o, c)
  /\ orders' = [orders EXCEPT ![o] =
       settle_order(payments, o, [@ EXCEPT !.checks[c].total = total])]
  /\ UNCHANGED payments

\* PaymentTipPatch: the adjustment a PAID check waits for.
UpdateTip(o, p) ==
  LET tipped == [payments EXCEPT ![p].tipped = TRUE] IN
  /\ Live(o)
  /\ payments[p] # None /\ payments[p].order = o /\ ~payments[p].voided
  /\ payments' = tipped
  /\ orders' = [orders EXCEPT ![o] = settle_order(tipped, o, @)]

\* A void that leaves the payments of the order alone.
VoidUnpaid(o) ==
  /\ Live(o)
  /\ \A p \in Ids : payments[p] # None /\ payments[p].order = o => p \in Others
  /\ orders' = [orders EXCEPT ![o].voided = TRUE,
       ![o].checks = [c \in DOMAIN @ |-> [@[c] EXCEPT !.status = "VOIDED"]]]
  /\ UNCHANGED payments

\* OrderVoid: refused as a whole when a payment is not of type OTHER; voids
\* the payments, then the order and its checks.
VoidOrder(o) ==
  LET mine == {p \in Ids : payments[p] # None /\ payments[p].order = o} IN
  /\ Live(o)
  /\ mine \subseteq Others
  /\ \A c \in DOMAIN orders[o].checks :
       CanTransition(CHECK_MACHINE, orders[o].checks[c].status, "VOIDED")
  /\ payments' = [p \in Ids |->
       IF p \in mine THEN [payments[p] EXCEPT !.voided = TRUE] ELSE payments[p]]
  /\ orders' = [orders EXCEPT ![o].voided = TRUE,
       ![o].checks = [c \in DOMAIN @ |-> [@[c] EXCEPT !.status = "VOIDED"]]]

-----------------------------------------------------------------------------

UpTo(S, n) == UNION {[1..k -> S] : k \in 0..n}
Batches(checks) ==
  UpTo([id : Ids, check : checks, amount : Amounts, tipped : BOOLEAN], MaxBatch)

Init ==
  /\ orders = [o \in Orders |-> None]
  /\ payments = [p \in Ids |-> None]

ChecksOf(o) == IF orders[o] = None THEN {} ELSE DOMAIN orders[o].checks

Next ==
  \E o \in Orders :
    \/ \E totals \in UpTo(CheckTotals, MaxChecks) :
         \E batch \in Batches(DOMAIN totals) : CreateOrder(o, totals, batch)
    \/ \E c \in ChecksOf(o) :
         \/ \E batch \in Batches({c}) : AddPayments(o, c, batch)
         \/ \E total \in CheckTotals : AddSelections(o, c, total) \/ ApplyDiscounts(o, c, total)
    \/ \E p \in Ids : UpdateTip(o, p)
    \/ VoidOrder(o)

Spec == Init /\ [][Next]_toastVars

-----------------------------------------------------------------------------

Checks == [total : CheckTotals, status : DOMAIN CHECK_MACHINE.to]
PaymentRecords ==
  [order : Orders, check : 1..MaxChecks, amount : Amounts, tipped : BOOLEAN, voided : BOOLEAN]

OrderRecords == [checks : UpTo(Checks, MaxChecks), voided : BOOLEAN, paid : BOOLEAN]

\* Stored orders and payments are of their entity types.
ToastTypeOK ==
  /\ \A o \in Orders : orders[o] = None \/ orders[o] \in OrderRecords
  /\ payments \in [Ids -> PaymentRecords \cup {None}]

\* The paymentStatus of every check tells its money, as the Check schema
\* defines the values (settle_order): over batches, selections and discounts
\* before and after partial payments, late tips and voids.  A check owing
\* something is OPEN; one covered is PAID exactly while a card tip is open;
\* and paidDate is set exactly when no check of the order was left open.
StatusTellsCoverage ==
  \A o \in {x \in Orders : orders[x] # None} :
    LET order == orders[o] IN
    /\ \A c \in DOMAIN order.checks :
         LET check == order.checks[c]
             covered == covered_cents(payments, o, c) >= check.total
         IN CASE check.status = "OPEN" -> OfCheck(payments, o, c) = {} \/ ~covered
              [] check.status = "PAID" -> covered /\ AwaitingTip(payments, o, c)
              [] check.status = "CLOSED" -> covered /\ ~AwaitingTip(payments, o, c)
              [] check.status = "VOIDED" -> order.voided /\ LiveOf(payments, o, c) = {}
    /\ ~order.voided /\ order.checks # <<>> =>
         (order.paid <=> \A c \in DOMAIN order.checks : order.checks[c].status # "OPEN")

\* "Once an order has been voided, it can not be updated": neither the order
\* nor any of its payments changes again, whichever surface is asked, and a
\* voided order has no live payment.
VoidedIsFinal ==
  [][\A o \in Orders :
      orders[o] # None /\ orders[o].voided =>
        /\ orders'[o] = orders[o]
        /\ \A p \in Ids : payments[p] # None /\ payments[p].order = o => payments'[p] = payments[p]
        /\ \A p \in Ids : payments'[p] # None /\ payments'[p].order = o => payments'[p].voided
    ]_toastVars

=============================================================================
