------------------------ MODULE BudgetLedgerProofs ------------------------
(***************************************************************************)
(* A charge always finds the row its admission read, spend never shrinks   *)
(* within a life of the namespace, and it is the sum of the charges of its *)
(* own period and life, for any number of concurrent requests, periods,    *)
(* limits and costs.                                                       *)
(***************************************************************************)
EXTENDS BudgetLedger, FiniteSetTheorems, WellFoundedInduction, TLAPS

\* A deleted namespace has no ledger.
DeletedIsEmpty == ~exists => rows = [p \in Periods |-> None]

\* What a request read or was admitted with is never from the future, and is
\* of the past once the namespace is deleted.
Reading(r) == pc[r] \in {"monthly", "create"}
PastOrPresent(n) == n <= Generation /\ (~exists => n < Generation)
GenerationsKnown ==
  \A r \in Requests :
    /\ hold[r] # Unheld => PastOrPresent(hold[r].incarnation)
    /\ Reading(r) => PastOrPresent(snap[r].incarnation)

\* A request that is about to create a row has read the clock.
ClockRead == \A r \in Requests : pc[r] = "create" => snap[r].period \in Periods

\* The inductive invariant.
IInv == TypeOK /\ ClockRead /\ DeletedIsEmpty /\ GenerationsKnown /\ HeldRowExists

-----------------------------------------------------------------------------

LEMMA UpsertType ==
  ASSUME TypeOK, NEW p \in Periods, NEW l \in Limits
  PROVE  UpsertLimit(p, l) \in [Periods -> {None} \cup Row]
  BY LedgerAssumption DEF TypeOK, UpsertLimit, Row, Amounts

LEMMA TypeStep == TypeOK /\ ClockRead /\ [Next]_vars => TypeOK'
<1> SUFFICES ASSUME TypeOK, ClockRead, [Next]_vars PROVE TypeOK'
  OBVIOUS
<1> USE LedgerAssumption DEF TypeOK
<1>1. CASE put_namespace \/ delete_namespace
  <2>1. CASE put_namespace
    BY <2>1 DEF put_namespace, Generation, requests
  <2>2. CASE delete_namespace
    <3>1. rows' \in [Periods -> {None} \cup Row]
      BY <2>2 DEF delete_namespace
    <3>a. Generation \in Nat
      BY DEF Generation
    <3>b. incarnation' = Generation + 1 /\ ~exists' /\ cadence' = None /\ active' = None
      BY <2>2 DEF delete_namespace
    <3>c. incarnation' \in Nat
      BY <3>a, <3>b
    <3>d. exists' = FALSE
      BY <2>2 DEF delete_namespace
    <3>e. exists' \in BOOLEAN
      BY ONLY <3>d
    <3>2. incarnation' \in Nat /\ exists' \in BOOLEAN /\ cadence' = None /\ active' = None
      BY ONLY <3>b, <3>c, <3>e
    <3>3. UNCHANGED <<month, pc, snap, hold, cost, landed>>
      BY <2>2 DEF delete_namespace, requests
    <3> QED
      BY <3>1, <3>2, <3>3
  <2> QED
    BY <1>1, <2>1, <2>2
<1>2. ASSUME NEW p \in Periods, NEW l \in Limits, put_budget(p, l) PROVE TypeOK'
  BY <1>2, UpsertType DEF put_budget, requests
<1>3. ASSUME NEW l \in Limits, PutMonthly(l) PROVE TypeOK'
  BY <1>3, UpsertType DEF PutMonthly, requests, Amounts
<1>4. ASSUME NEW l \in Limits, NEW p \in {None} \cup Periods, PutFixed(p, l) PROVE TypeOK'
  BY <1>4, UpsertType DEF PutFixed, requests, Amounts
<1>5. CASE Tick
  BY <1>5 DEF Tick, store, requests, Periods
<1>6. ASSUME NEW r \in Requests, AdmitRead(r) PROVE TypeOK'
  <2>1. Generation \in Nat
    BY DEF Generation
  <2>2. CASE exists /\ Monthly
    <3>1. cadence.limit \in Amounts
      BY <2>2 DEF Monthly
    <3>2. snap' \in [Requests -> [limit : Amounts, incarnation : Nat, period : 0..MaxMonth]]
      BY <1>6, <2>2, <2>1, <3>1 DEF AdmitRead
    <3> QED
      BY <1>6, <2>2, <3>2 DEF AdmitRead
  <2>3. CASE ~(exists /\ Monthly)
    BY <1>6, <2>3, <2>1 DEF AdmitRead, Decide, Hold
  <2> QED
    BY <2>2, <2>3
<1>7. ASSUME NEW r \in Requests, MonthlyRead(r) PROVE TypeOK'
  <2>1. CASE rows[month] = None
    <3>a. month \in 0..MaxMonth
      BY DEF Periods
    <3>b. [snap[r] EXCEPT !.period = month]
            \in [limit : Amounts, incarnation : Nat, period : 0..MaxMonth]
      BY <3>a
    <3>1. snap' \in [Requests -> [limit : Amounts, incarnation : Nat, period : 0..MaxMonth]]
      BY <1>7, <2>1, <3>b DEF MonthlyRead
    <3> QED
      BY <1>7, <2>1, <3>1 DEF MonthlyRead
  <2>2. CASE rows[month] # None
    BY <1>7, <2>2 DEF MonthlyRead, Decide, Hold
  <2> QED
    BY <2>1, <2>2
<1>8. ASSUME NEW r \in Requests, MonthlyCreate(r) PROVE TypeOK'
  BY <1>8 DEF MonthlyCreate, Decide, ClockRead, Hold, Unheld, Row, Amounts
<1>9. ASSUME NEW r \in Requests, AdmitFails(r) \/ ChargeFails(r) PROVE TypeOK'
  BY <1>9 DEF AdmitFails, ChargeFails, store
<1>10. ASSUME NEW r \in Requests, NEW c \in Costs, charge_budget(r, c) PROVE TypeOK'
  <2>1. rows' \in [Periods -> {None} \cup Row]
    BY <1>10 DEF charge_budget, Matches, Saturate, Hold, Unheld, Row, Amounts
  <2>2. cost' \in [Requests -> Nat] /\ landed' \in SUBSET Requests
    BY <1>10 DEF charge_budget
  <2> QED
    BY <1>10, <2>1, <2>2 DEF charge_budget
<1>11. CASE UNCHANGED vars
  BY <1>11 DEF vars, store, requests
<1> QED
  BY <1>1, <1>2, <1>3, <1>4, <1>5, <1>6, <1>7, <1>8, <1>9, <1>10, <1>11
     DEF Next, Management, Request, put_budget_policy

LEMMA ClockStep == TypeOK /\ ClockRead /\ [Next]_vars => ClockRead'
<1> SUFFICES ASSUME TypeOK, ClockRead, [Next]_vars PROVE ClockRead'
  OBVIOUS
<1> USE DEF TypeOK, ClockRead
<1>1. ASSUME NEW r \in Requests, AdmitRead(r) PROVE ClockRead'
  BY <1>1 DEF AdmitRead, Decide
<1>2. ASSUME NEW r \in Requests, MonthlyRead(r) PROVE ClockRead'
  BY <1>2 DEF MonthlyRead, Decide
<1>3. ASSUME NEW r \in Requests, MonthlyCreate(r) PROVE ClockRead'
  BY <1>3 DEF MonthlyCreate, Decide
<1>4. ASSUME NEW r \in Requests, AdmitFails(r) \/ ChargeFails(r) PROVE ClockRead'
  BY <1>4 DEF AdmitFails, ChargeFails
<1>5. ASSUME NEW r \in Requests, NEW c \in Costs, charge_budget(r, c) PROVE ClockRead'
  BY <1>5 DEF charge_budget
<1>6. CASE Management \/ Tick \/ UNCHANGED vars
  BY <1>6 DEF Management, put_namespace, delete_namespace, put_budget, put_budget_policy,
     PutMonthly, PutFixed, Tick, vars, requests
<1> QED
  BY <1>1, <1>2, <1>3, <1>4, <1>5, <1>6 DEF Next, Request

\* The namespace's life: a delete empties the ledger and moves the generation
\* past everything that was read, and only a live namespace gets rows.
LEMMA GenerationStep ==
  IInv /\ [Next]_vars => DeletedIsEmpty' /\ GenerationsKnown' /\ HeldRowExists'
<1> DEFINE Goal == DeletedIsEmpty' /\ GenerationsKnown' /\ HeldRowExists'
<1> SUFFICES ASSUME IInv, [Next]_vars PROVE Goal
  OBVIOUS
<1> USE LedgerAssumption
        DEF IInv, TypeOK, DeletedIsEmpty, GenerationsKnown, HeldRowExists, Reading,
            PastOrPresent, Unheld, Hold
<1>0. Generation \in Nat
  BY DEF Generation
<1>1. CASE put_namespace
  <2>1. Generation' = Generation
    BY <1>1 DEF put_namespace, Generation
  <2> QED
    BY <1>1, <2>1, <1>0 DEF put_namespace, requests
<1>2. CASE delete_namespace
  <2>1. Generation' = Generation + 1
    BY <1>2 DEF delete_namespace, Generation
  <2> QED
    BY <1>2, <2>1, <1>0 DEF delete_namespace, requests
<1>3. ASSUME NEW p \in Periods, NEW l \in Limits, exists,
             rows' = UpsertLimit(p, l), UNCHANGED <<exists, incarnation, requests>>
      PROVE  Goal
  <2>1. \A q \in Periods : rows[q] # None => rows'[q] # None
    <3>1. rows'[p] \in [limit : Nat, spent : Nat]
      BY <1>3 DEF UpsertLimit, Row, Amounts
    <3>2. \A q \in Periods : q # p => rows'[q] = rows[q]
      BY <1>3 DEF UpsertLimit
    <3> QED
      BY <3>1, <3>2
  <2> QED
    BY <1>3, <2>1, <1>0 DEF Generation, requests
<1>4. CASE Tick \/ UNCHANGED vars
  BY <1>4 DEF Tick, vars, store, requests, Generation
<1>5. ASSUME NEW r \in Requests, AdmitRead(r) PROVE Goal
  <2>0. UNCHANGED <<exists, incarnation, rows>> /\ Generation' = Generation
    BY <1>5 DEF AdmitRead, Generation
  <2>1. CASE exists /\ Monthly
    BY <1>5, <2>0, <2>1, <1>0 DEF AdmitRead
  <2>2. CASE exists /\ ~Monthly /\ active # None
    <3>1. \A q \in Requests : q # r => hold'[q] = hold[q] /\ pc'[q] = pc[q]
      BY <1>5, <2>2 DEF AdmitRead, Decide
    <3>2. pc'[r] \in {"admitted", "denied"} /\ UNCHANGED snap
      BY <1>5, <2>2 DEF AdmitRead, Decide
    <3>3. \/ hold'[r] = hold[r]
          \/ /\ hold'[r] = [period |-> active, incarnation |-> Generation]
             /\ rows[active] # None
      BY <1>5, <2>2, <2>0 DEF AdmitRead, Decide, Admits
    <3> QED
      BY <2>0, <2>2, <3>1, <3>2, <3>3, <1>0
  <2>3. CASE ~exists \/ (~Monthly /\ active = None)
    BY <1>5, <2>0, <2>3, <1>0 DEF AdmitRead
  <2> QED
    BY <2>1, <2>2, <2>3
<1>6. ASSUME NEW r \in Requests, MonthlyRead(r) PROVE Goal
  <2>0. UNCHANGED <<exists, incarnation, rows>> /\ Generation' = Generation
    BY <1>6 DEF MonthlyRead, Generation
  <2>1. \A q \in Requests : q # r => hold'[q] = hold[q] /\ pc'[q] = pc[q]
    BY <1>6 DEF MonthlyRead, Decide
  <2>2. \/ hold'[r] = hold[r]
        \/ /\ hold'[r] = [period |-> month, incarnation |-> snap[r].incarnation]
           /\ rows[month] # None
    BY <1>6, <2>0 DEF MonthlyRead, Decide, Admits
  <2>3. \A q \in Requests : snap'[q].incarnation = snap[q].incarnation
    <3>1. snap' = snap \/ snap' = [snap EXCEPT ![r].period = month]
      BY <1>6 DEF MonthlyRead
    <3> QED
      BY ONLY <3>1, TypeOK DEF TypeOK
  <2> QED
    BY <1>6, <2>0, <2>1, <2>2, <2>3, <1>0 DEF MonthlyRead
<1>7. ASSUME NEW r \in Requests, MonthlyCreate(r) PROVE Goal
  BY <1>7, <1>0 DEF MonthlyCreate, Decide, Admits, Generation, ClockRead
<1>8. ASSUME NEW r \in Requests, AdmitFails(r) \/ ChargeFails(r) PROVE Goal
  BY <1>8, <1>0 DEF AdmitFails, ChargeFails, store, Generation
<1>9. ASSUME NEW r \in Requests, NEW c \in Costs, charge_budget(r, c) PROVE Goal
  <2>1. /\ UNCHANGED <<exists, incarnation, snap, hold>> /\ Generation' = Generation
        /\ pc' = [pc EXCEPT ![r] = "done"]
    BY <1>9 DEF charge_budget, Generation
  <2>2. CASE Matches(r)
    <3>1. exists /\ \A q \in Periods : rows[q] # None => rows'[q] # None
      <4>1. rows'[hold[r].period] \in [limit : Nat, spent : Nat]
        BY <1>9, <2>2 DEF charge_budget, Matches, Saturate, Row, Amounts
      <4>2. \A q \in Periods : q # hold[r].period => rows'[q] = rows[q]
        BY <1>9, <2>2 DEF charge_budget, Matches
      <4> QED
        BY <4>1, <4>2, <2>2 DEF Matches
    <3> QED
      BY <2>1, <3>1, <1>0
  <2>3. CASE ~Matches(r)
    BY <1>9, <2>1, <2>3, <1>0 DEF charge_budget
  <2> QED
    BY <2>2, <2>3
<1>10. ASSUME NEW p \in Periods, NEW l \in Limits, put_budget(p, l) PROVE Goal
  BY <1>10, <1>3 DEF put_budget
<1>11. ASSUME NEW l \in Limits, PutMonthly(l) PROVE Goal
  BY <1>11, <1>3 DEF PutMonthly
<1>12. ASSUME NEW l \in Limits, NEW p \in {None} \cup Periods, PutFixed(p, l) PROVE Goal
  BY <1>12, <1>3 DEF PutFixed
<1> HIDE DEF Goal
<1> QED
  BY <1>1, <1>2, <1>4, <1>5, <1>6, <1>7, <1>8, <1>9, <1>10, <1>11, <1>12
     DEF Next, Management, Request, put_budget_policy

-----------------------------------------------------------------------------

LEMMA InitIInv == Init => IInv
  BY LedgerAssumption DEF Init, IInv, TypeOK, ClockRead, DeletedIsEmpty, GenerationsKnown,
     HeldRowExists, Reading, Unheld, NoSnap, Periods, Amounts

\* Every reachable state of the ledger satisfies the inductive invariant.
THEOREM Invariance == Spec => []IInv
<1>1. IInv /\ [Next]_vars => IInv'
  BY TypeStep, ClockStep, GenerationStep DEF IInv
<1> QED
  BY <1>1, InitIInv, PTL DEF Spec

\* An admission of the live incarnation always finds its row again when it is
\* charged.
THEOREM HeldRowTheorem == Spec => []HeldRowExists
  BY Invariance, PTL DEF IInv

\* What one step does to the rows of a namespace that stays alive.
RowsGrow ==
  exists /\ exists' => \A p \in Periods :
    rows[p] # None => rows'[p] # None /\ rows'[p].spent >= rows[p].spent

LEMMA RowsStep == TypeOK /\ ClockRead /\ Next => RowsGrow
<1> SUFFICES ASSUME TypeOK, ClockRead, Next, exists, exists',
                    NEW p \in Periods, rows[p] # None
             PROVE  rows'[p] # None /\ rows'[p].spent >= rows[p].spent
  BY DEF RowsGrow
<1> USE LedgerAssumption DEF TypeOK
<1>0. rows[p].spent \in Nat /\ rows[p] \in Row /\ rows[p].spent <= MaxAmount
  BY DEF Row, Amounts
<1>1. CASE put_namespace \/ delete_namespace
  BY <1>1 DEF put_namespace, delete_namespace
<1>2. ASSUME NEW q \in Periods, NEW l \in Limits, rows' = UpsertLimit(q, l)
      PROVE  rows'[p] # None /\ rows'[p].spent >= rows[p].spent
  <2>1. CASE p # q
    BY <1>2, <2>1, <1>0 DEF UpsertLimit
  <2>2. CASE p = q
    <3>1. rows'[p] = [rows[p] EXCEPT !.limit = l]
      BY <1>2, <2>2 DEF UpsertLimit
    <3>2. rows'[p] \in [limit : Nat, spent : Nat] /\ rows'[p].spent = rows[p].spent
      BY <3>1, <1>0 DEF Row, Amounts
    <3> QED
      BY <3>2, <1>0
  <2> QED
    BY <2>1, <2>2
<1>3. ASSUME NEW r \in Requests, NEW c \in Costs, charge_budget(r, c)
      PROVE  rows'[p] # None /\ rows'[p].spent >= rows[p].spent
  <2>1. CASE Matches(r) /\ p = hold[r].period
    <3>1. rows'[p] = [rows[p] EXCEPT !.spent = Saturate(@ + c)]
      BY <1>3, <2>1 DEF charge_budget, Matches, Hold, Unheld
    <3>a. c \in Nat /\ MaxAmount \in Nat
      BY LedgerAssumption
    <3>2. Saturate(rows[p].spent + c) \in Nat /\ Saturate(rows[p].spent + c) >= rows[p].spent
      BY ONLY <1>0, <3>a DEF Saturate
    <3>3. /\ rows'[p] \in [limit : Nat, spent : Nat]
          /\ rows'[p].spent = Saturate(rows[p].spent + c)
      BY <3>1, <3>2, <1>0 DEF Row, Amounts
    <3> QED
      BY <3>2, <3>3
  <2>2. CASE ~(Matches(r) /\ p = hold[r].period)
    BY <1>3, <2>2, <1>0 DEF charge_budget
  <2> QED
    BY <2>1, <2>2
<1>4. ASSUME NEW r \in Requests, MonthlyCreate(r)
      PROVE  rows'[p] # None /\ rows'[p].spent >= rows[p].spent
  BY <1>4, <1>0 DEF MonthlyCreate, ClockRead
<1>5. ASSUME NEW r \in Requests,
             AdmitRead(r) \/ MonthlyRead(r) \/ AdmitFails(r) \/ ChargeFails(r)
      PROVE  rows'[p] # None /\ rows'[p].spent >= rows[p].spent
  BY <1>5, <1>0 DEF AdmitRead, MonthlyRead, AdmitFails, ChargeFails, store
<1>6. CASE Tick
  BY <1>6, <1>0 DEF Tick, store
<1>7. CASE \E q \in Periods, l \in Limits : put_budget(q, l)
  BY <1>7, <1>2 DEF put_budget
<1>8. CASE put_budget_policy
  BY <1>8, <1>2 DEF put_budget_policy, PutMonthly, PutFixed
<1> QED
  BY <1>1, <1>3, <1>4, <1>5, <1>6, <1>7, <1>8 DEF Next, Management, Request

\* Within one life of the namespace no row disappears and no recorded spend
\* shrinks.
THEOREM SpendTheorem == Spec => SpendOnlyGrows
<1>1. IInv /\ [Next]_vars => [RowsGrow]_vars
  BY RowsStep DEF IInv
<1>2. Spec => [][RowsGrow]_vars
  BY <1>1, Invariance, PTL DEF Spec
<1> QED
  BY <1>2 DEF SpendOnlyGrows, RowsGrow

-----------------------------------------------------------------------------
(* What SumFunctionOnSet computes *)

Any(s) == CHOOSE x \in s : TRUE

\* The equation of the fold over the subsets of U.
SumsOver(g, f, U) ==
  g = [s \in SUBSET U |-> IF s = {} THEN 0 ELSE f[Any(s)] + g[s \ {Any(s)}]]

\* A set of subsets of a finite set has a member with no smaller one in it.
LEMMA LeastSubset ==
  ASSUME NEW U, IsFiniteSet(U), NEW B \in SUBSET (SUBSET U), B # {}
  PROVE  \E s \in B : \A t \in SUBSET U : t \subseteq s /\ t # s => t \notin B
<1> DEFINE R == StrictSubsetOrdering(U)
<1>1. IsWellFoundedOn(R, SUBSET U)
  BY FS_StrictSubsetOrderingWellFounded, FS_FiniteSubsetsOfFinite
<1>2. \A s, t \in SUBSET U : t \subseteq s /\ t # s => <<t, s>> \in R
  BY DEF StrictSubsetOrdering
<1> HIDE DEF R
<1>3. PICK s \in B : \A t \in B : <<t, s>> \notin R
  BY <1>1, WFMin
<1> QED
  BY <1>2, <1>3

\* Two solutions agree where both are defined.
LEMMA SumsUnique ==
  ASSUME NEW f, NEW U, NEW V, NEW g, NEW h, SumsOver(g, f, U), SumsOver(h, f, V),
         NEW S \in (SUBSET U) \cap (SUBSET V), IsFiniteSet(S)
  PROVE  g[S] = h[S]
<1> DEFINE B == {s \in SUBSET S : g[s] # h[s]}
<1> SUFFICES ASSUME B # {} PROVE FALSE
  BY S \in SUBSET S
<1>1. PICK s \in B : \A t \in SUBSET S : t \subseteq s /\ t # s => t \notin B
  <2>1. B \in SUBSET (SUBSET S)
    OBVIOUS
  <2> HIDE DEF B
  <2> QED
    BY <2>1, LeastSubset
<1>2. s \in SUBSET U /\ s \in SUBSET V /\ s \in SUBSET S /\ g[s] # h[s]
  OBVIOUS
<1>3. /\ g[s] = IF s = {} THEN 0 ELSE f[Any(s)] + g[s \ {Any(s)}]
      /\ h[s] = IF s = {} THEN 0 ELSE f[Any(s)] + h[s \ {Any(s)}]
  BY <1>2 DEF SumsOver
<1>4. s # {} /\ Any(s) \in s
  BY <1>2, <1>3 DEF Any
<1>5. g[s \ {Any(s)}] = h[s \ {Any(s)}]
  BY <1>1, <1>4
<1> QED
  BY <1>2, <1>3, <1>4, <1>5

LEMMA SumsOverExist ==
  ASSUME NEW f, NEW U, IsFiniteSet(U) PROVE \E g : SumsOver(g, f, U)
<1> DEFINE B == {s \in SUBSET U : ~ \E g : SumsOver(g, f, s)}
<1> SUFFICES ASSUME B # {} PROVE FALSE
  BY U \in SUBSET U
<1>1. PICK V \in B : \A t \in SUBSET U : t \subseteq V /\ t # V => t \notin B
  <2>1. B \in SUBSET (SUBSET U)
    OBVIOUS
  <2> HIDE DEF B
  <2> QED
    BY <2>1, LeastSubset
<1>2. /\ V \in SUBSET U /\ ~ \E g : SumsOver(g, f, V)
      /\ \A s \in SUBSET V : s # V => \E g : SumsOver(g, f, s)
  BY <1>1
<1> DEFINE sol(s) == CHOOSE g : SumsOver(g, f, s)
           whole == IF V = {} THEN 0 ELSE f[Any(V)] + sol(V \ {Any(V)})[V \ {Any(V)}]
           G == [s \in SUBSET V |-> IF s = V THEN whole ELSE sol(s)[s]]
<1>3. \A s \in SUBSET V : s # V => SumsOver(sol(s), f, s)
  BY <1>2
<1>4. ASSUME NEW s \in SUBSET V, s # {} PROVE s \ {Any(s)} \in SUBSET V /\ s \ {Any(s)} # V
                                          /\ s \ {Any(s)} \in SUBSET s
  BY <1>4 DEF Any
<1>5. ASSUME NEW s \in SUBSET V
      PROVE  G[s] = IF s = {} THEN 0 ELSE f[Any(s)] + G[s \ {Any(s)}]
  <2>1. CASE s = V
    <3>1. G[s] = whole
      BY <2>1
    <3>2. V # {} => G[V \ {Any(V)}] = sol(V \ {Any(V)})[V \ {Any(V)}]
      BY <1>4
    <3> QED
      BY <2>1, <3>1, <3>2
  <2>2. CASE s # V
    <3>1. G[s] = sol(s)[s] /\ SumsOver(sol(s), f, s)
      BY <1>3, <2>2
    <3> HIDE DEF sol
    <3>2. sol(s)[s] = IF s = {} THEN 0 ELSE f[Any(s)] + sol(s)[s \ {Any(s)}]
      BY <3>1 DEF SumsOver
    <3>3. ASSUME s # {} PROVE sol(s)[s \ {Any(s)}] = G[s \ {Any(s)}]
      <4>1. PICK t : t = s \ {Any(s)}
        OBVIOUS
      <4>2. t \in SUBSET V /\ t # V /\ t \in SUBSET s /\ t \in SUBSET t /\ IsFiniteSet(t)
        BY <1>2, <1>4, <3>3, <4>1, FS_Subset
      <4>3. SumsOver(sol(t), f, t) /\ G[t] = sol(t)[t]
        BY <1>3, <4>2
      <4>4. sol(s)[t] = sol(t)[t]
        BY <3>1, <4>2, <4>3, SumsUnique
      <4> QED
        BY <4>1, <4>3, <4>4
    <3> QED
      BY <3>1, <3>2, <3>3
  <2> QED
    BY <2>1, <2>2
<1>6. SumsOver(G, f, V)
  <2>1. G = [s \in SUBSET V |-> G[s]]
    OBVIOUS
  <2> HIDE DEF G
  <2> QED
    BY <1>5, <2>1 DEF SumsOver
<1> QED
  BY <1>2, <1>6

\* The sum of f on S.
Sum(f, S) == SumFunctionOnSet(f, S)

LEMMA SumSolves ==
  ASSUME NEW f, NEW S, IsFiniteSet(S)
  PROVE  \E g : SumsOver(g, f, S) /\ Sum(f, S) = g[S]
<1> DEFINE g == CHOOSE h : SumsOver(h, f, S)
<1>1. SumsOver(g, f, S)
  BY SumsOverExist
<1>2. Sum(f, S) = g[S]
  BY DEF Sum, SumFunctionOnSet, FoldFunctionOnSet, MapThenFoldSet, SumsOver, Any
<1> QED
  BY <1>1, <1>2

LEMMA SumOfAny ==
  ASSUME NEW f, NEW S, IsFiniteSet(S)
  PROVE  Sum(f, S) = IF S = {} THEN 0 ELSE f[Any(S)] + Sum(f, S \ {Any(S)})
<1>1. PICK g : SumsOver(g, f, S) /\ Sum(f, S) = g[S]
  BY SumSolves
<1>2. g[S] = IF S = {} THEN 0 ELSE f[Any(S)] + g[S \ {Any(S)}]
  BY <1>1 DEF SumsOver
<1>3. PICK T : T = S \ {Any(S)}
  OBVIOUS
<1>4. T \in SUBSET S /\ T \in SUBSET T /\ IsFiniteSet(T)
  BY <1>3, FS_Subset
<1>5. PICK h : SumsOver(h, f, T) /\ Sum(f, T) = h[T]
  BY <1>4, SumSolves
<1>6. g[T] = h[T]
  BY <1>1, <1>4, <1>5, SumsUnique
<1> QED
  BY <1>1, <1>2, <1>3, <1>5, <1>6

\* The sum is a number, whatever is taken out of the set first.
LEMMA SumSplits ==
  ASSUME NEW D, NEW f \in [D -> Nat], NEW S \in SUBSET D, IsFiniteSet(S)
  PROVE  Sum(f, S) \in Nat /\ \A y \in S : Sum(f, S) = f[y] + Sum(f, S \ {y})
<1> DEFINE Ok(s) == Sum(f, s) \in Nat /\ \A y \in s : Sum(f, s) = f[y] + Sum(f, s \ {y})
           B == {s \in SUBSET S : ~Ok(s)}
<1> SUFFICES ASSUME B # {} PROVE FALSE
  BY S \in SUBSET S
<1>1. PICK s \in B : \A t \in SUBSET S : t \subseteq s /\ t # s => t \notin B
  <2>1. B \in SUBSET (SUBSET S)
    OBVIOUS
  <2> HIDE DEF B
  <2> QED
    BY <2>1, LeastSubset
<1>2. /\ s \in SUBSET S /\ ~Ok(s) /\ IsFiniteSet(s)
      /\ \A t \in SUBSET s : t # s => Ok(t)
  BY <1>1, FS_Subset
<1>3. Sum(f, s) = IF s = {} THEN 0 ELSE f[Any(s)] + Sum(f, s \ {Any(s)})
  BY <1>2, SumOfAny
<1>4. CASE s = {}
  BY <1>2, <1>3, <1>4
<1>5. CASE s # {}
  <2>1. PICK x : x = Any(s)
    OBVIOUS
  <2>2. x \in s /\ Sum(f, s) = f[x] + Sum(f, s \ {x})
    BY <1>3, <1>5, <2>1 DEF Any
  <2>3. Ok(s \ {x})
    BY <1>2, <2>2
  <2>4. Sum(f, s) \in Nat
    BY <1>2, <2>2, <2>3
  <2>5. ASSUME NEW y \in s PROVE Sum(f, s) = f[y] + Sum(f, s \ {y})
    <3>1. CASE y = x
      BY <2>2, <3>1
    <3>2. CASE y # x
      <4>1. PICK rest : rest = (s \ {x}) \ {y}
        OBVIOUS
      <4>2. rest = (s \ {y}) \ {x}
        BY <4>1
      <4>3. Sum(f, s \ {x}) = f[y] + Sum(f, rest)
        BY <2>3, <3>2, <4>1
      <4>4. Ok(s \ {y}) /\ x \in s \ {y}
        BY <1>2, <2>2, <3>2
      <4>5. Sum(f, s \ {y}) = f[x] + Sum(f, rest)
        BY <4>2, <4>4
      <4>6. Ok(rest)
        BY <1>2, <2>2, <4>1
      <4>7. f[x] \in Nat /\ f[y] \in Nat /\ Sum(f, rest) \in Nat
        BY <1>2, <2>2, <4>6
      <4> QED
        BY ONLY <2>2, <4>3, <4>5, <4>7
    <3> QED
      BY <3>1, <3>2
  <2> QED
    BY <1>2, <2>4, <2>5
<1> QED
  BY <1>4, <1>5

\* One more summand.
LEMMA SumAdds ==
  ASSUME NEW D, NEW f \in [D -> Nat], NEW S \in SUBSET D, IsFiniteSet(S),
         NEW x \in D, x \notin S
  PROVE  Sum(f, S \cup {x}) = Sum(f, S) + f[x]
<1>1. PICK T : T = S \cup {x}
  OBVIOUS
<1>2. T \in SUBSET D /\ IsFiniteSet(T) /\ x \in T /\ T \ {x} = S
  BY <1>1, FS_AddElement
<1>3. Sum(f, T) = f[x] + Sum(f, S)
  BY <1>2, SumSplits
<1>4. Sum(f, S) \in Nat /\ f[x] \in Nat
  BY SumSplits
<1> QED
  BY <1>1, <1>3, <1>4

\* The sum depends on the values on the set only.
LEMMA SumAgrees ==
  ASSUME NEW f, NEW h, NEW S, IsFiniteSet(S), \A x \in S : f[x] = h[x]
  PROVE  Sum(f, S) = Sum(h, S)
<1> DEFINE B == {s \in SUBSET S : Sum(f, s) # Sum(h, s)}
<1> SUFFICES ASSUME B # {} PROVE FALSE
  BY S \in SUBSET S
<1>1. PICK s \in B : \A t \in SUBSET S : t \subseteq s /\ t # s => t \notin B
  <2>1. B \in SUBSET (SUBSET S)
    OBVIOUS
  <2> HIDE DEF B
  <2> QED
    BY <2>1, LeastSubset
<1>2. s \in SUBSET S /\ Sum(f, s) # Sum(h, s) /\ IsFiniteSet(s)
  BY <1>1, FS_Subset
<1>3. /\ Sum(f, s) = IF s = {} THEN 0 ELSE f[Any(s)] + Sum(f, s \ {Any(s)})
      /\ Sum(h, s) = IF s = {} THEN 0 ELSE h[Any(s)] + Sum(h, s \ {Any(s)})
  BY <1>2, SumOfAny
<1>4. s # {} /\ Any(s) \in s
  BY <1>2, <1>3 DEF Any
<1>5. Sum(f, s \ {Any(s)}) = Sum(h, s \ {Any(s)}) /\ f[Any(s)] = h[Any(s)]
  BY <1>1, <1>2, <1>4
<1> QED
  BY <1>2, <1>3, <1>4, <1>5

-----------------------------------------------------------------------------
(* The spend of a row *)

\* A charge that landed belongs to a request that is done.
Landed == IsFiniteSet(landed) /\ \A r \in landed : pc[r] = "done"

\* A step that charges nothing: a row keeps its spend, and a new one has none.
RowKept(p) == rows'[p] # None =>
                IF rows[p] = None THEN rows'[p].spent = 0 ELSE rows'[p].spent = rows[p].spent
Uncharged ==
  /\ landed' = landed /\ Generation' = Generation
  /\ exists' => exists \/ \A p \in Periods : rows'[p] = None
  /\ \A r \in landed : hold'[r] = hold[r] /\ cost'[r] = cost[r] /\ pc'[r] = pc[r]
  /\ \A p \in Periods : RowKept(p)

LEMMA UpsertKept ==
  ASSUME TypeOK, NEW q \in Periods, NEW l \in Limits, rows' = UpsertLimit(q, l)
  PROVE  \A p \in Periods : RowKept(p)
<1> SUFFICES ASSUME NEW p \in Periods PROVE RowKept(p)
  OBVIOUS
<1>1. CASE p # q
  <2>1. rows'[p] = rows[p]
    BY <1>1 DEF UpsertLimit, TypeOK
  <2> QED
    BY <2>1 DEF RowKept
<1>2. CASE p = q /\ rows[q] = None
  <2>1. rows'[p] = [limit |-> l, spent |-> 0]
    BY <1>2 DEF UpsertLimit, TypeOK
  <2> QED
    BY <1>2, <2>1 DEF RowKept
<1>3. CASE p = q /\ rows[q] # None
  <2>1. rows'[p] = [rows[p] EXCEPT !.limit = l] /\ rows[p] \in Row
    BY <1>3 DEF UpsertLimit, TypeOK
  <2>2. rows'[p].spent = rows[p].spent
    BY <2>1 DEF Row
  <2> QED
    BY <1>3, <2>2 DEF RowKept
<1> QED
  BY <1>1, <1>2, <1>3

LEMMA UnchargedKeeps ==
  ASSUME IInv, IInv', Landed, SpentIsOwnCharges, Uncharged
  PROVE  Landed' /\ SpentIsOwnCharges'
<1>1. Landed'
  BY DEF Landed, Uncharged
<1>2. ASSUME exists', NEW p \in Periods, rows'[p] # None
      PROVE  rows'[p].spent = Saturate(SumFunctionOnSet(cost, Owners(p)))'
  <2>1. exists
    BY <1>2 DEF Uncharged
  <2>2. PICK S : S = Owners(p)
    OBVIOUS
  <2>3. Owners(p)' = S
    BY <2>2 DEF Owners, Uncharged
  <2>4. S \subseteq landed /\ IsFiniteSet(S)
    BY <2>2, FS_Subset DEF Owners, Landed
  <2>5. Sum(cost', S) = Sum(cost, S)
    BY <2>4, SumAgrees DEF Uncharged
  <2>6. rows'[p].spent = Saturate(Sum(cost, S))
    <3>1. CASE rows[p] # None
      BY <1>2, <2>1, <2>2, <3>1 DEF Uncharged, RowKept, SpentIsOwnCharges, Sum
    <3>2. CASE rows[p] = None
      <4>1. S = {}
        <5>1. SUFFICES ASSUME NEW r \in S PROVE FALSE
          OBVIOUS
        <5>2. r \in Requests /\ hold[r] = [period |-> p, incarnation |-> Generation]
          BY <2>2 DEF Owners, IInv, TypeOK
        <5>3. hold[r] # Unheld /\ hold[r].incarnation = Generation /\ hold[r].period = p
          <6>1. Generation \in Nat
            BY DEF Generation, IInv, TypeOK
          <6>2. hold[r] \in [period : Nat, incarnation : Nat]
            BY <5>2, <6>1 DEF Periods
          <6> QED
            BY <5>2, <6>2, LedgerAssumption DEF Unheld
        <5> QED
          BY <2>1, <3>2, <5>2, <5>3 DEF IInv, HeldRowExists
      <4>2. Sum(cost, S) = 0
        BY <2>4, <4>1, SumOfAny
      <4>3. rows'[p].spent = 0
        BY <1>2, <3>2 DEF Uncharged, RowKept
      <4> QED
        BY <4>2, <4>3, LedgerAssumption DEF Saturate
    <3> QED
      BY <3>1, <3>2
  <2> QED
    BY <2>3, <2>5, <2>6 DEF Saturate, Sum
<1> QED
  BY <1>1, <1>2 DEF SpentIsOwnCharges

LEMMA SaturateTwice ==
  ASSUME NEW a \in Nat, NEW c \in Nat PROVE Saturate(Saturate(a) + c) = Saturate(a + c)
<1>1. MaxAmount \in Nat
  BY LedgerAssumption
<1> QED
  BY <1>1 DEF Saturate

\* A charge that lands is one more summand of its row, and of no other.
LEMMA ChargeKeeps ==
  ASSUME IInv, Landed, SpentIsOwnCharges, NEW r \in Requests, NEW c \in Costs,
         charge_budget(r, c), Matches(r)
  PROVE  Landed' /\ SpentIsOwnCharges'
<1> DEFINE own == hold[r].period
<1>0. /\ c \in Nat /\ cost \in [Requests -> Nat] /\ landed \in SUBSET Requests /\ Generation \in Nat
      /\ pc \in [Requests -> {"idle", "monthly", "create", "admitted", "denied", "done"}]
      /\ rows \in [Periods -> {None} \cup Row]
  BY LedgerAssumption DEF IInv, TypeOK, Generation
<1>1. /\ pc[r] = "admitted" /\ pc' = [pc EXCEPT ![r] = "done"]
      /\ cost' = [cost EXCEPT ![r] = c] /\ landed' = landed \cup {r}
      /\ rows' = [rows EXCEPT ![own].spent = Saturate(@ + c)]
      /\ hold' = hold /\ Generation' = Generation /\ exists' = exists
  BY DEF charge_budget, Generation
<1>2. r \notin landed /\ own \in Periods /\ hold[r] = [period |-> own, incarnation |-> Generation]
      /\ rows[own] # None /\ exists
  BY <1>1 DEF Landed, Matches, IInv, TypeOK, Hold, Unheld
<1>3. Landed'
  <2>1. IsFiniteSet(landed')
    BY <1>1, FS_AddElement DEF Landed
  <2>2. \A q \in landed' : pc'[q] = "done"
    BY <1>0, <1>1 DEF Landed
  <2> QED
    BY <2>1, <2>2 DEF Landed
<1>4. cost' \in [Requests -> Nat] /\ cost'[r] = c /\ \A q \in landed : cost'[q] = cost[q]
  BY <1>0, <1>1, <1>2
<1> HIDE DEF own
<1>5. ASSUME NEW p \in Periods, rows'[p] # None
      PROVE  rows'[p].spent = Saturate(SumFunctionOnSet(cost, Owners(p)))'
  <2>1. PICK S : S = Owners(p)
    OBVIOUS
  <2>2. S \subseteq landed /\ S \in SUBSET Requests /\ IsFiniteSet(S) /\ r \notin S
    BY <1>0, <1>2, <2>1, FS_Subset DEF Owners, Landed
  <2>3. Sum(cost', S) = Sum(cost, S)
    BY <1>4, <2>2, SumAgrees
  <2>4. CASE p = own
    <3>1. Owners(p)' = S \cup {r}
      BY <1>1, <1>2, <2>1, <2>4 DEF Owners
    <3>2. Sum(cost', S \cup {r}) = Sum(cost, S) + c
      BY <1>4, <2>2, <2>3, SumAdds
    <3>3. Sum(cost, S) \in Nat
      BY <1>0, <2>2, SumSplits
    <3>4. rows[p].spent = Saturate(Sum(cost, S))
      BY <1>2, <2>1, <2>4 DEF SpentIsOwnCharges, Sum
    <3>5. rows'[p].spent = Saturate(rows[p].spent + c)
      <4>1. rows[p] \in Row
        BY <1>0, <1>2, <2>4
      <4>2. rows'[p] = [rows[p] EXCEPT !.spent = Saturate(rows[p].spent + c)]
        BY <1>0, <1>1, <2>4
      <4> QED
        BY <4>1, <4>2 DEF Row
    <3>6. rows'[p].spent = Saturate(Sum(cost, S) + c)
      BY <1>0, <3>3, <3>4, <3>5, SaturateTwice
    <3> QED
      BY <3>1, <3>2, <3>6 DEF Saturate, Sum
  <2>5. CASE p # own
    <3>1. Owners(p)' = S
      BY <1>1, <1>2, <2>1, <2>5 DEF Owners
    <3>2. rows'[p] = rows[p]
      BY <1>0, <1>1, <2>5
    <3>3. rows'[p].spent = Saturate(Sum(cost, S))
      BY <1>2, <1>5, <2>1, <3>2 DEF SpentIsOwnCharges, Sum
    <3> QED
      BY <2>3, <3>1, <3>3 DEF Saturate, Sum
  <2> QED
    BY <2>4, <2>5
<1> QED
  BY <1>3, <1>5 DEF SpentIsOwnCharges

LEMMA SpentStep ==
  ASSUME IInv, IInv', Landed, SpentIsOwnCharges, [Next]_vars
  PROVE  Landed' /\ SpentIsOwnCharges'
<1> DEFINE Goal == Landed' /\ SpentIsOwnCharges'
<1>0. TypeOK /\ TypeOK'
  BY DEF IInv
<1>1. CASE delete_namespace
  <2>1. ~exists' /\ UNCHANGED <<landed, pc>>
    BY <1>1 DEF delete_namespace, requests
  <2> QED
    BY <2>1 DEF Landed, SpentIsOwnCharges
<1>2. CASE put_namespace
  <2>1. Generation' = Generation
    BY <1>2 DEF put_namespace, Generation, IInv, TypeOK
  <2>2. \A p \in Periods : rows'[p] = None
    BY <1>2 DEF put_namespace, IInv, DeletedIsEmpty
  <2>3. Uncharged
    BY <1>2, <2>1, <2>2 DEF put_namespace, requests, Uncharged, RowKept
  <2> QED
    BY <2>3, UnchargedKeeps
<1>3. ASSUME NEW p \in Periods, NEW l \in Limits, rows' = UpsertLimit(p, l),
             UNCHANGED <<exists, incarnation, requests>>
      PROVE  Goal
  <2>1. Uncharged
    BY <1>0, <1>3, UpsertKept DEF Uncharged, requests, Generation
  <2> QED
    BY <2>1, UnchargedKeeps
<1>4. ASSUME NEW p \in Periods, NEW l \in Limits, put_budget(p, l) PROVE Goal
  BY <1>3, <1>4 DEF put_budget
<1>5. ASSUME NEW l \in Limits, PutMonthly(l) PROVE Goal
  BY <1>0, <1>3, <1>5 DEF PutMonthly, TypeOK
<1>6. ASSUME NEW l \in Limits, NEW p \in {None} \cup Periods, PutFixed(p, l) PROVE Goal
  BY <1>0, <1>3, <1>6 DEF PutFixed, TypeOK
<1>7. CASE Tick \/ UNCHANGED vars
  <2>1. Uncharged
    BY <1>7 DEF Tick, vars, store, requests, Uncharged, RowKept, Generation
  <2> QED
    BY <2>1, UnchargedKeeps
<1>8. ASSUME NEW r \in Requests,
             AdmitRead(r) \/ MonthlyRead(r) \/ MonthlyCreate(r) \/ AdmitFails(r) \/ ChargeFails(r)
      PROVE  Goal
  <2>1. pc[r] # "done" /\ r \notin landed
    BY <1>8 DEF AdmitRead, MonthlyRead, MonthlyCreate, AdmitFails, ChargeFails, Landed
  <2>2. \A q \in landed : hold'[q] = hold[q] /\ pc'[q] = pc[q]
    BY <1>0, <1>8, <2>1 DEF AdmitRead, MonthlyRead, MonthlyCreate, AdmitFails, ChargeFails,
                            Decide, TypeOK
  <2>3. UNCHANGED <<exists, incarnation, cost, landed>> /\ Generation' = Generation
    BY <1>8 DEF AdmitRead, MonthlyRead, MonthlyCreate, AdmitFails, ChargeFails, store, Generation
  <2>4. \A p \in Periods : RowKept(p)
    <3>1. CASE MonthlyCreate(r)
      BY <1>0, <3>1 DEF MonthlyCreate, RowKept, TypeOK
    <3>2. CASE ~MonthlyCreate(r)
      BY <1>8, <3>2 DEF AdmitRead, MonthlyRead, AdmitFails, ChargeFails, store, RowKept
    <3> QED
      BY <3>1, <3>2
  <2>5. Uncharged
    BY <2>2, <2>3, <2>4 DEF Uncharged
  <2> QED
    BY <2>5, UnchargedKeeps
<1>9. ASSUME NEW r \in Requests, NEW c \in Costs, charge_budget(r, c) PROVE Goal
  <2>1. CASE Matches(r)
    BY <1>9, <2>1, ChargeKeeps
  <2>2. CASE ~Matches(r)
    <3>1. r \notin landed
      BY <1>9 DEF charge_budget, Landed
    <3>2. /\ UNCHANGED <<exists, hold, rows, landed>> /\ Generation' = Generation
          /\ \A q \in landed : pc'[q] = pc[q] /\ cost'[q] = cost[q]
      BY <1>0, <1>9, <2>2, <3>1 DEF charge_budget, Generation, TypeOK
    <3>3. Uncharged
      BY <3>2 DEF Uncharged, RowKept
    <3> QED
      BY <3>3, UnchargedKeeps
  <2> QED
    BY <2>1, <2>2
<1> HIDE DEF Goal
<1>10. Goal
  BY <1>1, <1>2, <1>4, <1>5, <1>6, <1>7, <1>8, <1>9
     DEF Next, Management, Request, put_budget_policy, Goal
<1> QED
  BY <1>10 DEF Goal

\* The spend of a row is the sum of the charges of its own period and life of
\* the namespace, up to the largest amount, whatever operators delete, recreate
\* or re-limit while charges are out (charge_budget_on).
THEOREM OwnChargesTheorem == Spec => []SpentIsOwnCharges
<1>1. Init => Landed /\ SpentIsOwnCharges
  BY FS_EmptySet DEF Init, Landed, SpentIsOwnCharges
<1>2. IInv /\ IInv' /\ Landed /\ SpentIsOwnCharges /\ [Next]_vars => Landed' /\ SpentIsOwnCharges'
  BY SpentStep
<1> QED
  BY <1>1, <1>2, Invariance, PTL DEF Spec
=============================================================================
