---------------------------- MODULE StoreSchema -----------------------------
(***************************************************************************)
(* How a booting gateway brings the PostgreSQL Store's budget tables into  *)
(* place (store/postgres.rs: connect, ensure_budget_schema and below).     *)
(* Several replicas boot at once against one database.  A ledger is three  *)
(* tables under their final names and three under the names an earlier     *)
(* draft gave them; a boot renames the draft's when the final ones hold no *)
(* rows.  What a table holds is the set of ledgers its rows come from:     *)
(* "final" and "draft" from before, "served" charged by this build.  No    *)
(* replica of the draft build is still writing.                            *)
(*                                                                         *)
(* The three reads of ledger_has_rows are one step: what moves all three   *)
(* tables is a commit, and their disjunction is then that of a moment      *)
(* before or after it.  The other tables, which are only ever created, and *)
(* the column ensure_reservation_incarnation adds are left out: no row     *)
(* goes with them.                                                         *)
(***************************************************************************)
EXTENDS Naturals, FiniteSets

CONSTANTS Boots, NoBoot
ASSUME BootsAssumption == NoBoot \notin Boots

VARIABLES
    tables,   \* committed: tables[side][kind], sides "final" and "draft"
    share,    \* the boots whose transaction read a table
    excl,     \* the boot whose transaction drops or renames it, or NoBoot
    boot,     \* what each boot has seen and changed so far
    written,  \* ghost: the ledgers whose spend was ever committed
    renames   \* ghost: how many renames were committed

schemaVars == <<tables, share, excl, boot, written, renames>>

Sides == {"final", "draft"}
Kinds == {"budget", "active", "reservation"}
Origins == {"final", "draft", "served"}
NoTable == [is |-> FALSE, old |-> FALSE, rows |-> {}]
EmptyTable == [is |-> TRUE, old |-> FALSE, rows |-> {}]

Fresh == [complete |-> FALSE, destRows |-> FALSE, drop |-> {}, move |-> {},
          renames |-> 0, overtaken |-> FALSE]

\* The tables a deployment may start from: rows are of the build that had the name
\* and a hold is of a budget that has a row.  A draft ledger was created in one
\* batch, so what is left of one that is not whole has spend in it; `old` tables
\* are of another backend.
Held(ledger) == ledger["reservation"].rows # {} => ledger["budget"].rows # {}
LedgersFound(t) ==
    /\ t \in [Sides -> [Kinds -> [is : BOOLEAN, old : BOOLEAN, rows : SUBSET Origins]]]
    /\ \A s \in Sides, k \in Kinds : t[s][k].rows \subseteq {s} /\ (t[s][k].rows # {} => t[s][k].is)
    /\ Held(t["final"])
    /\ ~t["draft"]["budget"].old =>
         /\ Held(t["draft"])
         /\ t["draft"]["budget"] = EmptyTable => \A k \in Kinds : t["draft"][k].is

-----------------------------------------------------------------------------
(* What the boot's queries answer on the committed tables *)

relation_exists(side, k) == tables[side][k].is
relation_has_rows(side, k) == tables[side][k].rows # {}
ledger_has_rows(side) == \E k \in Kinds : relation_has_rows(side, k)

\* A SELECT waits for whoever holds the table exclusively.
Readable(b, side) == \A k \in Kinds : excl[side][k] \in {b, NoBoot}

\* `old` marks budget_v1.sql's table, which has no `period` column.
draft_store_budget_present == relation_exists("draft", "budget") /\ ~tables["draft"]["budget"].old
store_budget_ready == \A k \in Kinds : relation_exists("final", k)

-----------------------------------------------------------------------------
(* Steps; each is one statement or a few whose order cannot be told apart *)

LookReady(b) ==
    /\ boot' = [boot EXCEPT ![b].complete = store_budget_ready, ![b].renames = renames]
    /\ UNCHANGED <<tables, share, excl, written, renames>>

LookRows(b) ==
    /\ Readable(b, "final")
    /\ boot' = [boot EXCEPT ![b].destRows = ledger_has_rows("final")]
    /\ UNCHANGED <<tables, share, excl, written, renames>>

\* should_rename_draft's verdict; the draft's rows matter to a complete ledger.
ShouldRename(b) ==
    IF boot[b].destRows THEN FALSE
    ELSE boot[b].complete => ledger_has_rows("draft")
PartialDest(b) == boot[b].destRows /\ ~boot[b].complete

\* drop_empty_store_budget, first part: the transaction reads the final tables
\* that exist and so holds a share lock on them.
TxCheck(b) ==
    /\ Readable(b, "final")
    /\ share' = [share EXCEPT !["final"] = [k \in Kinds |->
                    IF relation_exists("final", k) THEN @[k] \cup {b} ELSE @[k]]]
    /\ boot' = [boot EXCEPT ![b].destRows = ledger_has_rows("final")]
    /\ UNCHANGED <<tables, excl, written, renames>>

\* A table can be changed once nobody else's transaction has touched it.
Free(b, side, k) == share[side][k] \subseteq {b} /\ excl[side][k] \in {b, NoBoot}

\* Mutant: the rows are not looked for again inside the transaction.
BugDoomed(b) == {k \in Kinds : relation_exists("final", k)}

\* ... second part: every final table that exists now is dropped.  `overtaken`
\* records that a rename was committed since this boot looked and found none.
Doomed(b) == IF boot[b].destRows THEN {} ELSE {k \in Kinds : relation_exists("final", k)}
TxDrop(b) ==
    /\ \A k \in Doomed(b) : Free(b, "final", k)
    /\ excl' = [excl EXCEPT !["final"] = [k \in Kinds |-> IF k \in Doomed(b) THEN b ELSE @[k]]]
    /\ boot' = [boot EXCEPT ![b].drop = Doomed(b), ![b].overtaken =
                   Doomed(b) # {} /\ ~boot[b].complete /\ renames > boot[b].renames]
    /\ UNCHANGED <<tables, share, written, renames>>

Movable(b) == {k \in Kinds : /\ relation_exists("draft", k)
                             /\ k \in boot[b].drop \/ ~relation_exists("final", k)}
TxRename(b) ==
    /\ \A k \in Movable(b) : Free(b, "draft", k)
    /\ excl' = [excl EXCEPT !["draft"] = [k \in Kinds |-> IF k \in Movable(b) THEN b ELSE @[k]]]
    /\ boot' = [boot EXCEPT ![b].move = Movable(b)]
    /\ UNCHANGED <<tables, share, written, renames>>

Released(b) ==
    /\ share' = [s \in Sides |-> [k \in Kinds |-> share[s][k] \ {b}]]
    /\ excl' = [s \in Sides |-> [k \in Kinds |-> IF excl[s][k] = b THEN NoBoot ELSE excl[s][k]]]

\* A name another boot committed in the meantime makes the rename an error.
Collides(b) == \E k \in boot[b].move : k \notin boot[b].drop /\ relation_exists("final", k)

TxCommit(b) ==
    /\ ~Collides(b)
    /\ tables' = [tables EXCEPT
         !["final"] = [k \in Kinds |-> IF k \in boot[b].move THEN tables["draft"][k]
                                       ELSE IF k \in boot[b].drop THEN NoTable ELSE @[k]],
         !["draft"] = [k \in Kinds |-> IF k \in boot[b].move THEN NoTable ELSE @[k]]]
    /\ renames' = renames + (IF boot[b].move = {} THEN 0 ELSE 1)
    /\ Released(b)
    /\ UNCHANGED <<boot, written>>

\* Rolled back: the connection is gone, a lock or a statement timed out.
TxAbort(b) == Released(b) /\ UNCHANGED <<tables, boot, written, renames>>

\* CREATE TABLE IF NOT EXISTS for each table.
CreateTables(b, create) ==
    /\ tables' = [tables EXCEPT !["final"] = [k \in Kinds |->
                     IF create /\ ~@[k].is THEN EmptyTable ELSE @[k]]]
    /\ UNCHANGED <<share, excl, boot, written, renames>>

probe_schema == store_budget_ready

\* Expired holds of an earlier build are swept.
Sweep(b) ==
    /\ Free(b, "final", "reservation")
    /\ \E left \in {tables["final"]["reservation"].rows, {}} :
         tables' = [tables EXCEPT !["final"]["reservation"].rows = left]
    /\ UNCHANGED <<share, excl, boot, written, renames>>

\* A serving replica charges a namespace's budget.
Chargeable == relation_exists("final", "budget") /\ excl["final"]["budget"] = NoBoot
ChargeRow ==
    /\ tables' = [tables EXCEPT !["final"]["budget"].rows = @ \cup {"served"}]
    /\ written' = written \cup {"served"}
    /\ UNCHANGED <<share, excl, boot, renames>>

SchemaInit(initial) ==
    /\ tables = initial
    /\ share = [s \in Sides |-> [k \in Kinds |-> {}]]
    /\ excl = [s \in Sides |-> [k \in Kinds |-> NoBoot]]
    /\ boot = [b \in Boots |-> Fresh]
    /\ written = UNION {initial[s]["budget"].rows : s \in Sides}
    /\ renames = 0
=============================================================================
