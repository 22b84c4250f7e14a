--------------------------- MODULE LightspeedSales ---------------------------
(***************************************************************************)
(* Sales, tills and the version walk of the Lightspeed vendor              *)
(* (lightspeed/surface/sales.py, surface/registers.py, versioning.py).     *)
(* Every handler runs under the pipeline lock and is one step; a refused   *)
(* request is no step.                                                     *)
(*                                                                         *)
(* A sale is rung up at one register, sells a quantity of one stocked      *)
(* product (0: it has no line) and is paid in one payment type.  A PUT     *)
(* replaces the whole document.  A payment request is [id, amount]: id 0   *)
(* for none, or an id the caller read back from the sale, sent with the    *)
(* amount it was read with.  Callers leave dates to the unit, whose        *)
(* instants are whole seconds.                                             *)
(***************************************************************************)
EXTENDS Integers, FiniteSets, FiniteSetsExt, Functions, Sequences, StateMachine

CONSTANTS
  Sales, Registers,
  OpenAtFirst,         \* the registers the seed opens
  Amounts,             \* what a payment can be of
  Quantities,          \* how much of the product a caller sells or takes back
  PageSize,            \* the page_size of the walking consumer
  MaxPayments,         \* bound on the payments of one request
  MaxMinted,           \* bound on the payment ids minted
  MaxVersion,          \* bound on the versions drawn
  MaxTime,             \* bound on the seconds that pass
  None

VARIABLES
  sales,               \* sale id -> the stored sale, or None
  registers,           \* register -> [open, since]
  closures,            \* register -> the payments each of its closures counted
  stock,               \* the level of the inventory record
  version,             \* the last version drawn, retailer-wide
  minted,              \* how many payment ids were minted
  now,                 \* the clock, in seconds
  copy,                \* a walking consumer's copy of the sales
  cursor,              \* the version.max that consumer reached
  handed               \* history: how often a caller newly stated a payment

saleVars ==
  <<sales, registers, closures, stock, version, minted, now, copy, cursor, handed>>

SALE_MACHINE ==
  [to |-> [parked  |-> {"pending", "closed", "voided"},
           pending |-> {"closed", "voided"},
           closed  |-> {}, voided |-> {}],
   self |-> {"parked", "pending"}]

Stored == {s \in Sales : sales[s] # None}
Bump(n) == version + n <= MaxVersion /\ version' = version + n

-----------------------------------------------------------------------------
(* The payments of a request.                                              *)

\* A PUT that mints every id anew.
CarriesNothing(stored, amount, kept) == {}

\* _carried_payment_id: the stored payments of this amount not yet taken.
Carries(stored, amount, kept) ==
  {i \in DOMAIN stored : stored[i].amount = amount /\ stored[i].id \notin kept}

\* One payment of _payments: its own id, a carried one, or the next minted.
BuildPayment(built, request, stored, register) ==
  LET carried == Carries(stored, request.amount, built.kept)
      fresh == request.id = 0 /\ carried = {}
      id == CASE request.id # 0 -> request.id
              [] request.id = 0 /\ ~fresh -> stored[Min(carried)].id
              [] OTHER -> built.minted + 1
  IN [payments |-> Append(built.payments, [id |-> id, amount |-> request.amount,
                                           register |-> register, date |-> now]),
      kept |-> built.kept \cup {id},
      minted |-> IF fresh THEN id ELSE built.minted]

\* The ids the body states are kept from the start, wherever they stand in it;
\* then the payments are built one after the other.
BuildPayments(requests, stored, register) ==
  LET stated == {requests[i].id : i \in DOMAIN requests} \ {0}
      built[n \in 0..Len(requests)] ==
        IF n = 0 THEN [payments |-> <<>>, minted |-> minted, kept |-> stated]
        ELSE BuildPayment(built[n - 1], requests[n], stored, register)
  IN built[Len(requests)]

OfAmount(list, amount) == Cardinality({i \in DOMAIN list : list[i].amount = amount})
Grown(stored, requests) ==
  [a \in Amounts |-> Max({0, OfAmount(requests, a) - OfAmount(stored, a)})]

\* What _build asks of a request: a closed till takes no payment, only a body
\* that takes goods back refunds, only a return sale takes goods back.
Buildable(request, isReturn) ==
  /\ request.payments # <<>> => registers[request.register].open
  /\ \A i \in DOMAIN request.payments :
       request.payments[i].amount < 0 => request.quantity < 0
  /\ request.quantity < 0 => isReturn

\* The sale a request describes, at version v.
Build(request, stored, isReturn, links, v) ==
  [state |-> request.state, quantity |-> request.quantity, register |-> request.register,
   payments |-> BuildPayments(request.payments, stored, request.register).payments,
   isReturn |-> isReturn, links |-> links, version |-> v]

\* Stock drawn whenever the sale is confirmed.
DrawStockEarly(request) ==
  stock' = IF request.state \in {"pending", "closed"} THEN stock - request.quantity ELSE stock

\* _draw_stock: a line moves the record once and draws a version for it.
Moves(request) == IF request.state = "closed" /\ request.quantity # 0 THEN 1 ELSE 0
DrawStock(request) ==
  stock' = IF request.state = "closed" THEN stock - request.quantity ELSE stock

TakePayments(s, request, stored) ==
  /\ minted' = BuildPayments(request.payments, stored, request.register).minted
  /\ minted' <= MaxMinted
  /\ handed' = [handed EXCEPT ![s] =
       [a \in Amounts |-> @[a] + Grown(stored, request.payments)[a]]]

-----------------------------------------------------------------------------
(* Sales.                                                                  *)

\* CreateSale, also straight into closed.
CreateSale(s, request) ==
  /\ sales[s] = None
  /\ CanTransition(SALE_MACHINE, "parked", request.state)
  /\ Buildable(request, FALSE)
  /\ Bump(1 + Moves(request))
  /\ sales' = [sales EXCEPT ![s] = Build(request, <<>>, FALSE, {}, version + 1)]
  /\ TakePayments(s, request, <<>>)
  /\ DrawStock(request)
  /\ UNCHANGED <<registers, closures, now, copy, cursor>>

\* UpdateSale: the version _build draws is replaced by the mutator's stamp.
UpdateSale(s, request) ==
  LET old == sales[s] IN
  /\ s \in Stored
  /\ IsMutable(SALE_MACHINE, old.state)
  /\ CanTransition(SALE_MACHINE, old.state, request.state)
  /\ Buildable(request, old.isReturn)
  /\ Bump(2 + Moves(request))
  /\ sales' = [sales EXCEPT ![s] =
       Build(request, old.payments, old.isReturn, old.links, version + 2)]
  /\ TakePayments(s, request, old.payments)
  /\ DrawStock(request)
  /\ UNCHANGED <<registers, closures, now, copy, cursor>>

\* A link that is not stamped.
ReturnUnstamped(s, r) ==
  /\ s \in Stored /\ sales[r] = None /\ sales[s].state = "closed"
  /\ Bump(1)
  /\ sales' = [sales EXCEPT
       ![r] = [sales[s] EXCEPT !.state = "parked", !.quantity = -@, !.payments = <<>>,
                               !.isReturn = TRUE, !.links = {}, !.version = version + 1],
       ![s].links = @ \cup {r}]
  /\ UNCHANGED <<registers, closures, stock, minted, now, copy, cursor, handed>>

\* initReturnSale: a new parked sale with the quantity turned round and no
\* payments, linked from the original.  A closed sale may be returned again.
ReturnSale(s, r) ==
  /\ s \in Stored /\ sales[r] = None
  /\ sales[s].state = "closed"
  /\ Bump(2)
  /\ sales' = [sales EXCEPT
       ![r] = [sales[s] EXCEPT !.state = "parked", !.quantity = -@, !.payments = <<>>,
                               !.isReturn = TRUE, !.links = {}, !.version = version + 1],
       ![s].links = @ \cup {r},
       ![s].version = version + 2]
  /\ UNCHANGED <<registers, closures, stock, minted, now, copy, cursor, handed>>

-----------------------------------------------------------------------------
(* Registers.                                                              *)

OpenRegister(r) ==
  /\ ~registers[r].open
  /\ Bump(1)
  /\ registers' = [registers EXCEPT ![r] = [open |-> TRUE, since |-> now]]
  /\ UNCHANGED <<sales, closures, stock, minted, now, copy, cursor, handed>>

\* _counted_before: every id an earlier closure of this register consumed.
CountedBefore(r) == {e.id : e \in UNION {closures[r][i] : i \in DOMAIN closures[r]}}

\* _amounts_taken: payments of sales that are not voided, on this register,
\* not counted before, within the seconds from its opening to this one.
AmountsTaken(r) ==
  LET live == {s \in Stored : sales[s].state # "voided"}
      on(s) == {i \in DOMAIN sales[s].payments :
                  LET p == sales[s].payments[i] IN
                  /\ p.register = r
                  /\ p.id \notin CountedBefore(r)
                  /\ registers[r].since <= p.date /\ p.date <= now}
  IN UNION {{[sale |-> s, id |-> sales[s].payments[i].id,
              amount |-> sales[s].payments[i].amount] : i \in on(s)} : s \in live}

CloseRegister(r) ==
  /\ registers[r].open
  /\ Bump(2)
  /\ closures' = [closures EXCEPT ![r] = Append(@, AmountsTaken(r))]
  /\ registers' = [registers EXCEPT ![r].open = FALSE]
  /\ UNCHANGED <<sales, stock, minted, now, copy, cursor, handed>>

-----------------------------------------------------------------------------
(* The clock and the version walk.                                         *)

Tick ==
  /\ now < MaxTime
  /\ now' = now + 1
  /\ UNCHANGED <<sales, registers, closures, stock, version, minted, copy, cursor, handed>>

\* select: the PageSize lowest versions above the cursor.
Page ==
  LET newer == {s \in Stored : sales[s].version > cursor} IN
  {s \in newer : Cardinality({t \in newer : sales[t].version < sales[s].version}) < PageSize}

\* GET /sales?after=cursor, the answer merged into the consumer's copy.
Walk ==
  /\ Page # {}
  /\ copy' = [s \in Sales |-> IF s \in Page THEN sales[s] ELSE copy[s]]
  /\ cursor' = Max({sales[s].version : s \in Page})
  /\ UNCHANGED <<sales, registers, closures, stock, version, minted, now, handed>>

-----------------------------------------------------------------------------

Init ==
  /\ sales = [s \in Sales |-> None]
  /\ registers = [r \in Registers |-> [open |-> r \in OpenAtFirst, since |-> 0]]
  /\ closures = [r \in Registers |-> <<>>]
  /\ stock = 0 /\ version = 0 /\ minted = 0 /\ now = 0
  /\ copy = [s \in Sales |-> None] /\ cursor = 0
  /\ handed = [s \in Sales |-> [a \in Amounts |-> 0]]

\* The payments a caller may state for a sale: new ones, and stored ones by
\* their id, each id once.
Statable(stored) ==
  {[id |-> 0, amount |-> a] : a \in Amounts}
    \cup {[id |-> stored[i].id, amount |-> stored[i].amount] : i \in DOMAIN stored}

Requests(stored) ==
  {request \in
     [state : DOMAIN SALE_MACHINE.to, quantity : Quantities, register : Registers,
      payments : UNION {[1..n -> Statable(stored)] : n \in 0..MaxPayments}] :
     \A i, j \in DOMAIN request.payments :
       i # j /\ request.payments[i].id = request.payments[j].id => request.payments[i].id = 0}

Next ==
  \/ \E s \in Sales :
       \/ \E request \in Requests(<<>>) : CreateSale(s, request)
       \/ s \in Stored /\ \E request \in Requests(sales[s].payments) : UpdateSale(s, request)
       \/ \E r \in Sales : ReturnSale(s, r)
  \/ \E r \in Registers : OpenRegister(r) \/ CloseRegister(r)
  \/ Tick \/ Walk

Spec == Init /\ [][Next]_saleVars

-----------------------------------------------------------------------------

PaymentRecords ==
  [id : Nat \ {0}, amount : Amounts, register : Registers, date : Nat]
SaleRecords ==
  [state : DOMAIN SALE_MACHINE.to, quantity : Int, register : Registers,
   payments : Seq(PaymentRecords), isReturn : BOOLEAN, links : SUBSET Sales,
   version : Nat \ {0}]

\* Stored sales, registers and closures are of their entity types, and no
\* version or payment id is one that was not drawn yet.
LightspeedTypeOK ==
  /\ \A s \in Stored :
       /\ sales[s] \in SaleRecords /\ sales[s].version <= version
       /\ \A i \in DOMAIN sales[s].payments : sales[s].payments[i].id <= minted
  /\ registers \in [Registers -> [open : BOOLEAN, since : 0..now]]
  /\ stock \in Int /\ minted \in Nat /\ cursor \in 0..version
  /\ \A r \in Registers : \A i \in DOMAIN closures[r] :
       closures[r][i] \subseteq [sale : Sales, id : 1..minted, amount : Amounts]

\* "The same cash entered a second closure" (lightspeed/surface/sales.py:476)
\* must not happen again: over parked sales replaced in later sessions with or
\* without payment ids, and tills closed and reopened within one second or
\* later, a till counts a payment as often as it was handed over
\* at most; and a closed till has counted every live payment taken at it.
TillCountsOnce ==
  \A r \in Registers :
    /\ \A s \in Sales, a \in Amounts :
         SumFunction([i \in DOMAIN closures[r] |->
           Cardinality({e \in closures[r][i] : e.sale = s /\ e.amount = a})]) <= handed[s][a]
    /\ ~registers[r].open =>
         \A s \in Stored : \A i \in DOMAIN sales[s].payments :
           sales[s].payments[i].register = r /\ sales[s].state # "voided" =>
             sales[s].payments[i].id \in CountedBefore(r)

\* Stock moves exactly when a sale closes, once, by what it then sells: over
\* one-request sales, sales edited before they close, and returns.
StockBalances ==
  stock = 0 - SumFunction([s \in {t \in Stored : sales[t].state = "closed"} |-> sales[s].quantity])

\* A consumer that pages through the sales by version misses no write: what
\* its cursor has passed it holds as stored, whatever was written, returned
\* or closed between two of its pages (lightspeed/versioning.py:197).
WalkMissesNothing ==
  \A s \in Stored : sales[s].version <= cursor => copy[s] = sales[s]

=============================================================================
