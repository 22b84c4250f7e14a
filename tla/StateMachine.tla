---------------------------- MODULE StateMachine ----------------------------
(***************************************************************************)
(* The lifecycles of core/state/machine.py.  A machine is a record:        *)
(*   to    maps every declared state to the states it may move to          *)
(*   self  the states that may be declared again                           *)
(* Every vendor asks its order and payment machines before it writes.      *)
(***************************************************************************)

\* is_terminal: a declared state that can move nowhere.
IsTerminal(m, s) == s \in DOMAIN m.to /\ m.to[s] = {}

\* can_transition, the question assert_transition raises about.
CanTransition(m, from, target) ==
  /\ from \in DOMAIN m.to
  /\ IF from = target THEN from \in m.self ELSE target \in m.to[from]

\* assert_mutable: a terminal entity takes no write at all.
IsMutable(m, s) == ~IsTerminal(m, s)

=============================================================================
