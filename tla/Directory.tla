----------------------------- MODULE Directory -----------------------------
(***************************************************************************)
(* The tables of the Store and what each statement of it does: the trait   *)
(* in store/mod.rs as store/postgres.rs and store/sqlite.rs implement it.  *)
(*                                                                         *)
(* A namespace id is a number, for the order it is listed in; attrs stand  *)
(* for attrs and blocklist.  The clock does not move here: the budget of a *)
(* namespace over months, and its charges, are module BudgetLedger's.      *)
(***************************************************************************)
EXTENDS Naturals, Sequences, FiniteSets, SequencesExt, FiniteSetsExt

CONSTANTS
  Ids,        \* namespace ids
  Attrs,
  Periods,    \* period keys; Month is the one of the current month
  Month,
  MaxAmount,  \* i64::MAX
  Records,    \* usage events that may be indexed, by request_id
  Sources,    \* base_urls a provider may be configured with
  None

ASSUME DirectoryAssumption ==
  /\ Ids \subseteq Nat \ {0} /\ IsFiniteSet(Ids) /\ Month \in Periods /\ MaxAmount \in Nat
  /\ Records \subseteq [request : Nat, id : Ids, status : {"ok", "error"}, cost : Nat]
  /\ \A x, y \in Records : x.request = y.request => x = y
  /\ None \notin Attrs \cup Periods /\ None \notin [limit : Nat, spent : Nat]
  /\ None \notin [kind : {"fixed", "monthly"}, limit : Nat]
  /\ None \notin [source : Sources, stale : BOOLEAN]

Row == [limit : 0..MaxAmount, spent : 0..MaxAmount]
Cadence == [kind : {"fixed", "monthly"}, limit : 0..MaxAmount]
Listing == [source : Sources, stale : BOOLEAN]

\* gen is axond_namespace_incarnation.n, 0 without a row.
Tables ==
  [ns : [Ids -> Attrs \cup {None}], gen : [Ids -> Nat],
   cadence : [Ids -> Cadence \cup {None}], active : [Ids -> Periods \cup {None}],
   rows : [Ids -> [Periods -> Row \cup {None}]],
   usage : SUBSET Records, listing : Listing \cup {None}]

NoTables ==
  [ns |-> [i \in Ids |-> None], gen |-> [i \in Ids |-> 0],
   cadence |-> [i \in Ids |-> None], active |-> [i \in Ids |-> None],
   rows |-> [i \in Ids |-> [p \in Periods |-> None]], usage |-> {}, listing |-> None]

Present(db) == {i \in Ids : db.ns[i] # None}

\* A namespace that is not there has left nothing for a later one of its id.
NothingLeft(db) ==
  \A i \in Ids \ Present(db) :
    db.cadence[i] = None /\ db.active[i] = None /\ \A p \in Periods : db.rows[i][p] = None

\* ORDER BY id
Ordered(ids) ==
  CHOOSE s \in [1..Cardinality(ids) -> ids] :
    /\ \A i \in ids : \E n \in DOMAIN s : s[n] = i
    /\ \A m, n \in DOMAIN s : m < n => s[m] < s[n]

\* What a statement leaves and says.
Says(db, reply) == [db |-> db, reply |-> reply]
\* Ok(()), Ok(None), Ok(Some(value)) and a StoreError.
Ok == [kind |-> "Ok", value |-> None]
Absent == [kind |-> "Absent", value |-> None]
Found(value) == [kind |-> "Found", value |-> value]
Error(e) == [kind |-> e, value |-> None]
Errors == {"Duplicate", "NotFound", "Invalid", "Unavailable"}

-----------------------------------------------------------------------------
(* Namespaces *)

\* Insert only; an incarnation that is there is kept.
put_namespace(db, i, a) ==
  IF db.ns[i] # None THEN Says(db, Error("Duplicate"))
  ELSE Says([db EXCEPT !.ns[i] = a, !.gen[i] = IF @ = 0 THEN 1 ELSE @], Ok)

get_namespace(db, i) ==
  Says(db, IF db.ns[i] = None THEN Absent ELSE Found(db.ns[i]))

update_namespace(db, i, a) ==
  IF db.ns[i] = None THEN Says(db, Absent)
  ELSE Says([db EXCEPT !.ns[i] = a], Found(a))

\* Usage and holds are kept; a missing incarnation row starts at 2.
delete_namespace(db, i) ==
  Says([db EXCEPT !.ns[i] = None, !.cadence[i] = None, !.active[i] = None,
                  !.rows[i] = [p \in Periods |-> None],
                  !.gen[i] = IF db.ns[i] = None THEN @ ELSE IF @ = 0 THEN 2 ELSE @ + 1],
       Ok)

\* Mutant: the cursor is the first id of the next page.
BugListNamespaces(db, cursor, limit) ==
  LET after == Ordered({i \in Present(db) : i > cursor})
      page == SubSeq(after, 1, Min({limit, Len(after)}))
  IN Says(db, Found([page |-> page,
                      next |-> IF Len(after) > limit THEN after[limit + 1] ELSE 0]))

\* One more than the page is read; the cursor is the last id of the page. No
\* cursor is 0.
list_namespaces(db, cursor, limit) ==
  LET after == Ordered({i \in Present(db) : i > cursor})
      page == SubSeq(after, 1, Min({limit, Len(after)}))
  IN Says(db, Found([page |-> page, next |-> IF Len(after) > limit THEN Last(page) ELSE 0]))

-----------------------------------------------------------------------------
(* Budgets *)

UpsertRow(rows, i, p, l) ==
  [rows EXCEPT ![i][p] = IF @ = None THEN [limit |-> l, spent |-> 0] ELSE [@ EXCEPT !.limit = l]]

\* read_budget: the row of one period, and whether admission goes by it.
BudgetRecord(db, i, p) ==
  LET row == db.rows[i][p]
      monthly == db.cadence[i] # None /\ db.cadence[i].kind = "monthly"
  IN [limit |-> row.limit, spent |-> row.spent,
      remaining |-> IF row.spent > row.limit THEN 0 ELSE row.limit - row.spent,
      active |-> IF monthly THEN p = Month ELSE db.active[i] = p]

\* sql_amount: a limit beyond the integer range is refused.
put_budget(db, i, p, l) ==
  IF l > MaxAmount THEN Says(db, Error("Invalid"))
  ELSE IF db.ns[i] = None THEN Says(db, Error("NotFound"))
  ELSE LET after == [db EXCEPT !.active[i] = p, !.rows = UpsertRow(@, i, p, l)]
       IN Says(after, Found(BudgetRecord(after, i, p)))

get_budget(db, i, p) ==
  IF db.ns[i] = None THEN Says(db, Error("NotFound"))
  ELSE Says(db, IF db.rows[i][p] = None THEN Absent ELSE Found(BudgetRecord(db, i, p)))

Policy(kind, period, row) ==
  [kind |-> kind, period |-> period, limit |-> row.limit, spent |-> row.spent]

\* put_budget_policy: one transaction. A fixed cadence without a period goes on
\* with the active one.
put_budget_policy(db, i, kind, l, p) ==
  LET period == IF kind = "monthly" THEN Month ELSE IF p = None THEN db.active[i] ELSE p
      after == [db EXCEPT !.cadence[i] = [kind |-> kind, limit |-> l],
                          !.active[i] = IF kind = "fixed" THEN period ELSE @,
                          !.rows = UpsertRow(@, i, period, l)]
  IN IF l > MaxAmount THEN Says(db, Error("Invalid"))
     ELSE IF db.ns[i] = None THEN Says(db, Error("NotFound"))
     ELSE IF period = None THEN Says(db, Error("Invalid"))
     ELSE Says(after, Found(Policy(kind, period, after.rows[i][period])))

\* The SQLite Store reads a policy under its connection, all at once.  Without a
\* cadence the active period stands for a fixed one.
get_budget_policy(db, i) ==
  LET c == db.cadence[i]
      period == IF c # None /\ c.kind = "monthly" THEN Month ELSE db.active[i]
      row == IF period = None THEN None ELSE db.rows[i][period]
  IN IF db.ns[i] = None THEN Says(db, Error("NotFound"))
     ELSE IF c = None /\ row = None THEN Says(db, Absent)
     ELSE Says(db, Found(Policy(IF c = None THEN "fixed" ELSE c.kind, period,
                                IF row = None THEN [limit |-> c.limit, spent |-> 0] ELSE row)))

\* The PostgreSQL Store reads statement by statement, outside a transaction: what
\* a statement says, and the one that is next ("" after the last).
ReadPolicy(db, i, at, held) ==
  CASE at = "exists" ->
         IF db.ns[i] = None THEN [next |-> "", held |-> held, reply |-> Error("NotFound")]
         ELSE [next |-> "cadence", held |-> held, reply |-> Absent]
    [] at = "cadence" ->
         [next |-> IF db.cadence[i] = None THEN "synthesized"
                   ELSE IF db.cadence[i].kind = "monthly" THEN "spend" ELSE "period",
          held |-> IF db.cadence[i] = None THEN held
                   ELSE [kind |-> db.cadence[i].kind, limit |-> db.cadence[i].limit,
                         period |-> Month],
          reply |-> Absent]
    [] at = "synthesized" ->
         LET p == db.active[i]
         IN [next |-> "", held |-> held,
             reply |-> IF p = None \/ (p # None /\ db.rows[i][p] = None) THEN Absent
                       ELSE Found(Policy("fixed", p, db.rows[i][p]))]
    [] at = "period" ->
         [next |-> "spend", held |-> [held EXCEPT !.period = db.active[i]], reply |-> Absent]
    [] at = "spend" ->
         [next |-> "", held |-> held,
          reply |-> Found(Policy(held.kind, held.period,
             IF held.period = None \/ (held.period # None /\ db.rows[i][held.period] = None)
               THEN [limit |-> held.limit, spent |-> 0] ELSE db.rows[i][held.period]))]
NothingHeld == [kind |-> "fixed", limit |-> 0, period |-> None]

\* admit_from_ledger
Admits(row) == row # None /\ row.spent < row.limit

\* resolve_namespace: the namespace and its admission; a month without a row is
\* created, under the namespace's lock and only for one that is there.  One step
\* here: BudgetLedger interleaves its statements.
resolve_namespace(db, i) ==
  LET c == db.cadence[i]
      monthly == c # None /\ c.kind = "monthly"
      period == IF monthly THEN Month ELSE db.active[i]
      after == IF monthly /\ db.rows[i][Month] = None
                 THEN [db EXCEPT !.rows[i][Month] = [limit |-> c.limit, spent |-> 0]] ELSE db
  IN IF db.ns[i] = None THEN Says(db, Absent)
     ELSE Says(after, Found([attrs |-> db.ns[i],
                             admit |-> period # None /\ Admits(after.rows[i][period])]))

-----------------------------------------------------------------------------
(* The usage index *)

\* A request that is indexed is not indexed again; the batch is one transaction.
append_usage_batch(db, events) ==
  Says([db EXCEPT !.usage =
          @ \cup {e \in events : \A x \in db.usage : x.request # e.request}], Ok)

\* Counts and costs by status; a cost saturates.
summarize_usage(db, i) ==
  LET of(s) == {x \in db.usage : x.id = i /\ x.status = s}
  IN Says(db, Found([s \in {"ok", "error"} |->
       [count |-> Cardinality(of(s)),
        cost |-> Min({MaxAmount, FoldSet(LAMBDA x, n : x.cost + n, 0, of(s))})]]))

-----------------------------------------------------------------------------
(* Listings of a provider's models *)

get_provider_models(db) == Says(db, IF db.listing = None THEN Absent ELSE Found(db.listing))

\* Mutant: the row is written only when there is none or it is the source's own.
BugPutProviderModels(db, source) ==
  Says(IF db.listing = None \/ (db.listing # None /\ db.listing.source = source)
         THEN [db EXCEPT !.listing = [source |-> source, stale |-> FALSE]] ELSE db, Ok)

\* A fresh row of another source is left, and that is not said.
put_provider_models(db, source) ==
  Says(IF db.listing = None
          \/ (db.listing # None /\ (db.listing.source = source \/ db.listing.stale))
         THEN [db EXCEPT !.listing = [source |-> source, stale |-> FALSE]] ELSE db, Ok)

\* mark_provider_models_stale_unless_source, mark_provider_models_stale_if_source
StaleUnless(db, source) ==
  Says(IF db.listing # None /\ db.listing.source # source
         THEN [db EXCEPT !.listing.stale = TRUE] ELSE db, Ok)
StaleIf(db, source) ==
  Says(IF db.listing # None /\ db.listing.source = source
         THEN [db EXCEPT !.listing.stale = TRUE] ELSE db, Ok)

\* against_source, data_if_source: what is read of a listing under a base_url.
AgainstSource(listing, source) ==
  [stale |-> listing.stale \/ listing.source # source, listed |-> listing.source = source]
=============================================================================
