----------------------------- MODULE PointOfSale -----------------------------
(***************************************************************************)
(* One unit of the server with the vendor the registry builds it for       *)
(* (registry.py, core/kernel/unit.py): the unit serves the routes of that  *)
(* vendor and of no other, for as long as it lives.  The three vendors     *)
(* composed here are checked side by side in one run; Square, the fourth,  *)
(* has a run of its own.                                                   *)
(***************************************************************************)
EXTENDS CloverOrders, Sequences

CONSTANTS
  Vendors,             \* the vendors the registry knows
  Guids, Authorizations, Authorized, CheckTotals, TenderAmounts, MaxChecks, MaxBatch,
  Sales, Registers, OpenAtFirst, SaleAmounts, Quantities, PageSize, MaxPayments,
  MaxMinted, MaxVersion, MaxTime

VARIABLES
  vendor,              \* the vendor this unit was built for
  toastOrders, toastPayments,
  sales, registers, closures, stock, version, minted, now, copy, cursor, handed

Toast == INSTANCE ToastOrders
  WITH orders <- toastOrders, payments <- toastPayments, Others <- Guids,
       Amounts <- TenderAmounts
Lightspeed == INSTANCE LightspeedSales WITH Amounts <- SaleAmounts

\* Constants as the three vendors assume them.
ASSUME UnitAssumption ==
  /\ Vendors \subseteq {"clover", "toast", "lightspeed"}
  /\ CheckTotals \subseteq Nat /\ TenderAmounts \subseteq Nat
  /\ MaxChecks \in Nat /\ None \notin Toast!OrderRecords \cup Toast!PaymentRecords
  /\ IsFiniteSet(Guids) /\ IsFiniteSet(Authorizations)
  /\ Authorized \in [Authorizations -> Nat] /\ Guids \cap Authorizations = {}
  /\ IsFiniteSet(Sales) /\ MaxPayments \in Nat /\ None \notin Lightspeed!SaleRecords
  /\ SaleAmounts \subseteq Int /\ Quantities \subseteq Int
  /\ PageSize \in Nat \ {0} /\ OpenAtFirst \subseteq Registers

toastUnit == <<toastOrders, toastPayments>>
lightspeedUnit ==
  <<sales, registers, closures, stock, version, minted, now, copy, cursor, handed>>
unitVars == <<vendor, cloverVars, toastUnit, lightspeedUnit>>

UnitInit == vendor \in Vendors /\ Init /\ Toast!Init /\ Lightspeed!Init

Clover_Next ==
  vendor = "clover" /\ Next /\ UNCHANGED <<vendor, toastUnit, lightspeedUnit>>
Toast_Next ==
  vendor = "toast" /\ Toast!Next /\ UNCHANGED <<vendor, cloverVars, lightspeedUnit>>
Lightspeed_Next ==
  vendor = "lightspeed" /\ Lightspeed!Next /\ UNCHANGED <<vendor, cloverVars, toastUnit>>

UnitNext == Clover_Next \/ Toast_Next \/ Lightspeed_Next

UnitSpec == UnitInit /\ [][UnitNext]_unitVars

-----------------------------------------------------------------------------
(* The properties of the vendors, for the unit.                            *)

\* The entities of every vendor are of their types.
EntitiesTypeOK == CloverTypeOK /\ Toast!ToastTypeOK /\ Lightspeed!LightspeedTypeOK

\* Toast: the paymentStatus of a check tells its money (settle_order).
StatusTellsCoverage == Toast!StatusTellsCoverage

\* Toast: a voided order and its payments never change again (_assert_not_voided).
VoidedIsFinal == Toast!VoidedIsFinal

\* Lightspeed: a till counts every live payment once (_amounts_taken).
TillCountsOnce == Lightspeed!TillCountsOnce

\* Lightspeed: stock moves exactly when a sale closes (_draw_stock).
StockBalances == Lightspeed!StockBalances

\* Lightspeed: the walk by version misses no write (select).
WalkMissesNothing == Lightspeed!WalkMissesNothing

=============================================================================
