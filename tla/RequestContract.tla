-------------------------- MODULE RequestContract --------------------------
(***************************************************************************)
(* What the gateway promises of the money of one admitted request          *)
(* (BudgetStore::settle in crates/gateway/src/budget/mod.rs, and           *)
(* UsageRecord): its spend is settled at most once, it is recorded at most *)
(* once, and a record is never ahead of its charge nor different from it.  *)
(***************************************************************************)
EXTENDS Naturals, Sequences

CONSTANTS Requests, Costs, Statuses

VARIABLES
  charged,   \* the settle calls of each request: the amounts, in order
  recorded   \* the usage records of each request

vars == <<charged, recorded>>

Init ==
  /\ charged = [r \in Requests |-> <<>>]
  /\ recorded = [r \in Requests |-> <<>>]

Settle(r, c) ==
  /\ charged[r] = <<>>
  /\ charged' = [charged EXCEPT ![r] = <<c>>]
  /\ UNCHANGED recorded

Record(r, s) ==
  /\ charged[r] # <<>> /\ recorded[r] = <<>>
  /\ recorded' = [recorded EXCEPT ![r] = <<[status |-> s, cost |-> charged[r][1]]>>]
  /\ UNCHANGED charged

Next ==
  \E r \in Requests :
    (\E c \in Costs : Settle(r, c)) \/ (\E s \in Statuses : Record(r, s))

Spec == Init /\ [][Next]_vars
=============================================================================
