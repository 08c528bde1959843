---------------------------- MODULE BudgetLedger ----------------------------
(***************************************************************************)
(* The budget ledger of one namespace on a shared Store (ADR 0063, 0064    *)
(* and 0065): crates/gateway/src/store/postgres.rs, whose statements       *)
(* interleave across pooled sessions, and the StoreBudget in front of it.  *)
(*                                                                         *)
(* Admission reads spent against limit and takes no hold; the measured     *)
(* spend is charged after the response, under the period and incarnation   *)
(* the admission returned.  A transaction that holds the namespace's       *)
(* advisory lock is one action.  admit_budget_on runs READ COMMITTED and   *)
(* takes the lock only to create a month's row, so each of its statements  *)
(* is an action.  The SQLite Store runs every operation on one lane: its   *)
(* behaviours are those in which an admission's statements are adjacent.   *)
(***************************************************************************)
EXTENDS Naturals, FiniteSets, Functions

CONSTANTS
  Requests,       \* requests on the namespace
  MaxMonth,       \* months and fixed period keys are 1..MaxMonth
  Limits,         \* limit_microdollars of the management PUTs
  Costs,          \* measured cost of a request
  MaxAmount,      \* i64::MAX, where spent saturates
  MaxIncarnation, \* bound on delete and recreate
  OnUnavailable,  \* [storage].on_unavailable: "Deny" or "Allow"
  None            \* an absent row

ASSUME LedgerAssumption ==
  /\ MaxMonth \in Nat \ {0} /\ MaxAmount \in Nat /\ MaxIncarnation \in Nat
  /\ Limits \subseteq 0..MaxAmount /\ Costs \subseteq Nat
  /\ OnUnavailable \in {"Deny", "Allow"}
  /\ None \notin 1..MaxMonth
  /\ None \notin [limit : Nat, spent : Nat]
  /\ None \notin [period : Nat, incarnation : Nat]
  /\ None \notin [kind : {"monthly", "fixed"}, limit : Nat]

VARIABLES
  exists,       \* the axond_namespace row
  incarnation,  \* axond_namespace_incarnation.n, 0 when there is no row
  cadence,      \* the axond_store_budget_cadence row
  active,       \* axond_store_budget_active.period
  rows,         \* axond_store_budget, by period
  month,        \* the clock, in the budget's timezone
  pc,           \* each request: where its admission and charge are
  snap,         \* what its admission has read so far
  hold,         \* the Reservation it was admitted with
  cost,         \* what it was charged
  landed        \* history: the requests whose charge updated a row

store == <<exists, incarnation, cadence, active, rows>>
requests == <<pc, snap, hold, cost, landed>>
vars == <<store, month, requests>>

Periods == 1..MaxMonth
Amounts == 0..MaxAmount
Row == [limit : Amounts, spent : Amounts]
Hold == [period : Periods, incarnation : Nat]
Unheld == None
NoSnap == [limit |-> 0, incarnation |-> 0, period |-> 0]

TypeOK ==
  /\ exists \in BOOLEAN /\ incarnation \in Nat
  /\ cadence \in {None} \cup [kind : {"monthly", "fixed"}, limit : Amounts]
  /\ active \in {None} \cup Periods
  /\ rows \in [Periods -> {None} \cup Row]
  /\ month \in Periods
  /\ pc \in [Requests -> {"idle", "monthly", "create", "admitted", "denied", "done"}]
  /\ snap \in [Requests -> [limit : Amounts, incarnation : Nat, period : 0..MaxMonth]]
  /\ hold \in [Requests -> {None} \cup Hold]
  /\ cost \in [Requests -> Nat]
  /\ landed \in SUBSET Requests

\* A fresh namespace id, or one from a database older than the incarnation
\* table.
Init ==
  /\ exists \in BOOLEAN /\ incarnation = 0
  /\ cadence = None /\ active = None /\ rows = [p \in Periods |-> None]
  /\ month = 1
  /\ pc = [r \in Requests |-> "idle"]
  /\ snap = [r \in Requests |-> NoSnap]
  /\ hold = [r \in Requests |-> Unheld]
  /\ cost = [r \in Requests |-> 0]
  /\ landed = {}

\* COALESCE(n, 1)
Generation == IF incarnation = 0 THEN 1 ELSE incarnation

-----------------------------------------------------------------------------
(* Management operations: one transaction under the namespace's lock *)

put_namespace ==
  /\ ~exists /\ exists' = TRUE
  /\ incarnation' = Generation
  /\ UNCHANGED <<cadence, active, rows, month, requests>>

\* A missing incarnation row starts at 2.
delete_namespace ==
  /\ exists /\ incarnation < MaxIncarnation
  /\ exists' = FALSE
  /\ cadence' = None /\ active' = None /\ rows' = [p \in Periods |-> None]
  /\ incarnation' = Generation + 1
  /\ UNCHANGED <<month, requests>>

\* Mutant: the upsert writes the whole row.
BugUpsertLimit(p, l) == [rows EXCEPT ![p] = [limit |-> l, spent |-> 0]]

\* INSERT ... ON CONFLICT DO UPDATE SET limit: the spend of an existing row
\* is kept.
UpsertLimit(p, l) ==
  [rows EXCEPT ![p] = IF @ = None THEN [limit |-> l, spent |-> 0]
                                  ELSE [@ EXCEPT !.limit = l]]

put_budget(p, l) ==
  /\ exists
  /\ active' = p
  /\ rows' = UpsertLimit(p, l)
  /\ UNCHANGED <<exists, incarnation, cadence, month, requests>>

PutMonthly(l) ==
  /\ exists
  /\ cadence' = [kind |-> "monthly", limit |-> l]
  /\ rows' = UpsertLimit(month, l)
  /\ UNCHANGED <<exists, incarnation, active, month, requests>>

\* Without a period the active one is re-limited; without either the PUT is
\* refused.
PutFixed(p, l) ==
  /\ exists
  /\ LET period == IF p = None THEN active ELSE p IN
       /\ period # None
       /\ active' = period
       /\ rows' = UpsertLimit(period, l)
  /\ cadence' = [kind |-> "fixed", limit |-> l]
  /\ UNCHANGED <<exists, incarnation, month, requests>>

put_budget_policy ==
  \E l \in Limits : PutMonthly(l) \/ \E p \in {None} \cup Periods : PutFixed(p, l)

-----------------------------------------------------------------------------
(* Admission *)

\* admit_from_ledger: spent < limit on a row that exists.
Admits(row) == row # None /\ row.spent < row.limit

\* The answer to request r: the Reservation carries the period, and the
\* incarnation read by the first statement.
Decide(r, p, generation) ==
  IF Admits(rows'[p])
  THEN /\ pc' = [pc EXCEPT ![r] = "admitted"]
       /\ hold' = [hold EXCEPT ![r] = [period |-> p, incarnation |-> generation]]
  ELSE pc' = [pc EXCEPT ![r] = "denied"] /\ UNCHANGED hold

\* A monthly cadence wins over the active marker.
Monthly == cadence # None /\ cadence.kind = "monthly"

\* The first statement of admit_budget_on and resolve_namespace_on joins the
\* namespace, its cadence, its active row and its incarnation.
AdmitRead(r) ==
  /\ pc[r] = "idle"
  /\ UNCHANGED rows
  /\ \/ /\ ~exists \/ (~Monthly /\ active = None)
        /\ pc' = [pc EXCEPT ![r] = "denied"]
        /\ UNCHANGED <<snap, hold>>
     \/ /\ exists /\ Monthly
        /\ pc' = [pc EXCEPT ![r] = "monthly"]
        /\ snap' = [snap EXCEPT ![r].limit = cadence.limit, ![r].incarnation = Generation]
        /\ UNCHANGED hold
     \/ /\ exists /\ ~Monthly /\ active # None
        /\ Decide(r, active, Generation)
        /\ UNCHANGED snap
  /\ UNCHANGED <<exists, incarnation, cadence, active, month, cost, landed>>

\* admit_monthly: the month is read off the clock, then its row.
MonthlyRead(r) ==
  /\ pc[r] = "monthly"
  /\ UNCHANGED rows
  /\ IF rows[month] = None
     THEN /\ pc' = [pc EXCEPT ![r] = "create"]
          /\ snap' = [snap EXCEPT ![r].period = month]
          /\ UNCHANGED hold
     ELSE Decide(r, month, snap[r].incarnation) /\ UNCHANGED snap
  /\ UNCHANGED <<exists, incarnation, cadence, active, month, cost, landed>>

\* Mutant: the row is created after the admission, by whoever charges first.
BugMonthlyCreate(r) ==
  /\ pc[r] = "create"
  /\ pc' = [pc EXCEPT ![r] = "admitted"]
  /\ hold' = [hold EXCEPT ![r] = [period |-> snap[r].period, incarnation |-> snap[r].incarnation]]
  /\ UNCHANGED <<store, month, snap, cost, landed>>

\* The first request of a month creates its row under the namespace's lock,
\* with the limit the first statement read.
MonthlyCreate(r) ==
  /\ pc[r] = "create"
  /\ LET p == snap[r].period IN
     IF ~exists
     THEN pc' = [pc EXCEPT ![r] = "denied"] /\ UNCHANGED <<rows, hold>>
     ELSE /\ rows' = IF rows[p] = None
                     THEN [rows EXCEPT ![p] = [limit |-> snap[r].limit, spent |-> 0]]
                     ELSE rows
          /\ Decide(r, p, snap[r].incarnation)
  /\ UNCHANGED <<exists, incarnation, cadence, active, month, snap, cost, landed>>

\* The Store does not answer: the namespace lookup refuses the request, the
\* budget read follows on_unavailable and may admit it unheld.
AdmitFails(r) ==
  /\ pc[r] \in {"idle", "monthly", "create"}
  /\ \E answer \in {"denied"} \cup (IF OnUnavailable = "Allow" THEN {"admitted"} ELSE {}) :
        pc' = [pc EXCEPT ![r] = answer]
  /\ UNCHANGED <<store, month, snap, hold, cost, landed>>

-----------------------------------------------------------------------------
(* Settlement *)

Saturate(a) == IF a <= MaxAmount THEN a ELSE MaxAmount

\* Mutant: the update matches namespace and period only.
BugMatches(r) ==
  /\ hold[r] # Unheld
  /\ exists
  /\ rows[hold[r].period] # None

\* The WHERE clause of charge_budget_on.
Matches(r) ==
  /\ hold[r] # Unheld
  /\ exists /\ Generation = hold[r].incarnation
  /\ rows[hold[r].period] # None

\* StoreBudget::settle: an unheld reservation charges nothing, and an UPDATE
\* that matches no row is a no-op.
charge_budget(r, c) ==
  /\ pc[r] = "admitted"
  /\ pc' = [pc EXCEPT ![r] = "done"]
  /\ cost' = [cost EXCEPT ![r] = c]
  /\ IF Matches(r)
     THEN /\ rows' = [rows EXCEPT ![hold[r].period].spent = Saturate(@ + c)]
          /\ landed' = landed \cup {r}
     ELSE UNCHANGED <<rows, landed>>
  /\ UNCHANGED <<exists, incarnation, cadence, active, month, snap, hold>>

\* The charge is rejected, or the settlement never ran it: it is not retried.
ChargeFails(r) ==
  /\ pc[r] = "admitted"
  /\ pc' = [pc EXCEPT ![r] = "done"]
  /\ UNCHANGED <<store, month, snap, hold, cost, landed>>

-----------------------------------------------------------------------------

Tick ==
  /\ month < MaxMonth /\ month' = month + 1
  /\ UNCHANGED <<store, requests>>

Management ==
  \/ put_namespace \/ delete_namespace
  \/ \E p \in Periods, l \in Limits : put_budget(p, l)
  \/ put_budget_policy

Request(r) ==
  \/ AdmitRead(r) \/ MonthlyRead(r) \/ MonthlyCreate(r) \/ AdmitFails(r)
  \/ ChargeFails(r) \/ \E c \in Costs : charge_budget(r, c)

Next == Management \/ Tick \/ \E r \in Requests : Request(r)

Spec == Init /\ [][Next]_vars

-----------------------------------------------------------------------------
(* Properties *)

\* The charges that belong to period p of the live incarnation.
Owners(p) == {r \in landed : hold[r] = [period |-> p, incarnation |-> Generation]}

\* The spend of a live row is exactly what the requests admitted under this
\* incarnation and period were charged, capped at i64::MAX: a delete and
\* recreate, a new limit or a change of cadence neither lose nor inherit
\* spend (store/mod.rs:443, ADR 0064).
SpentIsOwnCharges ==
  exists => \A p \in Periods :
    rows[p] # None =>
      rows[p].spent = Saturate(SumFunctionOnSet(cost, Owners(p)))

\* An admission of the live incarnation always has its row: the UPDATE that
\* charges it matches, whatever the operators did in between.
HeldRowExists ==
  \A r \in Requests :
    exists /\ hold[r] # Unheld /\ hold[r].incarnation = Generation
      => rows[hold[r].period] # None

\* Within one life of the namespace no row disappears and no spend shrinks.
SpendOnlyGrows ==
  [][exists /\ exists' => \A p \in Periods :
       rows[p] # None => rows'[p] # None /\ rows'[p].spent >= rows[p].spent]_vars
=============================================================================
