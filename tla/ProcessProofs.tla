--------------------------- MODULE ProcessProofs ---------------------------
(***************************************************************************)
(* The process from its first line to its last, for every deployment.      *)
(*                                                                         *)
(* Boot: replicas that boot side by side keep the spend they find, serve   *)
(* on a consistent configuration only, and serve a request as admitted.    *)
(* Until the draft ledger is renamed, what a boot saw of the tables is     *)
(* still so (Before); afterwards nobody who may still drop a table         *)
(* believes it empty unless it was overtaken (Behind).  The locks make the *)
(* rename exclusive (Locked), a boot is as far as what it has checked      *)
(* (Reached), and a request carries what it copied (Carried).              *)
(*                                                                         *)
(* Termination: nothing it waited for is lost, for any finite set of       *)
(* requests.  The gate is closed before the main task stops waiting for it *)
(* (GateShut), so after quiesce the only requests that can still be        *)
(* admitted are the ones that had loaded an open phase by then, which are  *)
(* in late (NoneReturns).  The count that quiesce reads is exact           *)
(* (CountExact), and a settlement is spawned by a request in flight        *)
(* (SettledAll).                                                           *)
(***************************************************************************)
EXTENDS Lifecycle, Boot, FiniteSetTheorems, SequenceTheorems, WellFoundedInduction, TLAPS

-----------------------------------------------------------------------------
(* The boot: what holds all along *)

Early == {"absent", "load", "usage", "open"}
Looking == {"ready", "rows", "decide"}
Holding == {"drop", "rename", "commit"}
Deciding == Looking \cup {"check"} \cup Holding
Usable == {"sweep", "seed", "catalogue", "snapshot", "serving"}
Placed == {"create", "probe"} \cup Usable
Stages == Early \cup Deciding \cup Placed \cup {"failed"}

\* A ledger with rows that no sweep takes.
Solid(side) == relation_has_rows(side, "budget") \/ relation_has_rows(side, "active")

BootRecord == [complete : BOOLEAN, destRows : BOOLEAN, drop : SUBSET Kinds, move : SUBSET Kinds,
               renames : Nat, overtaken : BOOLEAN]
TableRecord == [is : BOOLEAN, old : BOOLEAN, rows : SUBSET Origins]

SchemaTyped ==
  /\ tables \in [Sides -> [Kinds -> TableRecord]]
  /\ share \in [Sides -> [Kinds -> SUBSET Boots]]
  /\ excl \in [Sides -> [Kinds -> Boots \cup {NoBoot}]]
  /\ boot \in [Boots -> BootRecord] /\ stage \in [Boots -> Stages]
  /\ written \in SUBSET Origins /\ renames \in Nat
  /\ \A b \in Boots : /\ boot[b].renames <= renames
                      /\ stage[b] \in Early \cup Looking \cup {"check", "drop"} => ~boot[b].overtaken

\* What is true of the tables at all times; the rows tell which ledger is in place.
Shaped ==
  /\ \A s \in Sides, k \in Kinds : relation_has_rows(s, k) => relation_exists(s, k)
  /\ relation_has_rows("final", "reservation") => relation_has_rows("final", "budget")
  /\ ~tables["draft"]["budget"].old =>
       /\ relation_has_rows("draft", "reservation") => relation_has_rows("draft", "budget")
       /\ relation_exists("draft", "budget") /\ ~relation_has_rows("draft", "budget")
            => \A k \in Kinds : relation_exists("draft", k)
  /\ \A k \in Kinds :
       /\ tables["draft"][k].rows \subseteq {"draft"}
       /\ tables["final"][k].rows \subseteq {IF renames = 0 THEN "final" ELSE "draft", "served"}
  /\ written \subseteq Kept

\* Locks are of the transactions that are open, and exclusive ones exclude.
Locked ==
  \A b \in Boots, k \in Kinds :
    /\ b \in share["final"][k] => stage[b] \in Holding
    /\ excl["final"][k] = b <=> stage[b] \in {"rename", "commit"} /\ k \in boot[b].drop
    /\ excl["final"][k] = b => share["final"][k] \subseteq {b}
    /\ excl["draft"][k] = b <=> stage[b] = "commit" /\ k \in boot[b].move

\* Before the draft is renamed: what a boot saw is still so.
Before(b) ==
  /\ stage[b] \in Deciding => draft_store_budget_present
  /\ stage[b] \in Placed /\ draft_store_budget_present =>
       store_budget_ready /\ (Solid("final") \/ ~ledger_has_rows("draft"))
  /\ stage[b] \in Deciding \ {"ready"} => (boot[b].complete <=> store_budget_ready)
  /\ stage[b] \in {"decide"} \cup Holding /\ boot[b].destRows => Solid("final")
  /\ stage[b] = "check" \/ (stage[b] = "decide" /\ ~boot[b].destRows) =>
       store_budget_ready \/ ~ledger_has_rows("final")
  /\ stage[b] \in {"check"} \cup Holding => ~store_budget_ready \/ ledger_has_rows("draft")
  /\ stage[b] \in Holding => IF boot[b].destRows THEN store_budget_ready ELSE ~ledger_has_rows("final")
  /\ stage[b] = "drop" => \A k \in Kinds : relation_exists("final", k) => b \in share["final"][k]
  /\ stage[b] \in {"rename", "commit"} => boot[b].drop = Doomed(b)
  /\ stage[b] = "commit" =>
       boot[b].move = IF boot[b].destRows THEN {} ELSE {k \in Kinds : relation_exists("draft", k)}

\* After it: nobody who may still drop a table believes it empty.
Behind(b) ==
  /\ \A k \in Kinds : ~relation_exists("draft", k)
  /\ store_budget_ready \/ Solid("final")
  /\ ~boot[b].complete /\ boot[b].renames = renames =>
       /\ stage[b] = "rows" => Solid("final")
       /\ stage[b] = "decide" => boot[b].destRows
       /\ stage[b] \notin {"check"} \cup Holding
  /\ boot[b].complete =>
       /\ stage[b] = "check" => Solid("final")
       /\ stage[b] = "drop" => boot[b].destRows
  /\ stage[b] \in {"rename", "commit"} => boot[b].drop = {}
  /\ stage[b] = "commit" => boot[b].move = {}

OnPostgres == Storage.backend = "postgres"
InPlace ==
  /\ Shaped /\ Locked
  /\ \A b \in Boots :
       /\ IF renames = 0 THEN Before(b) ELSE Behind(b)
       /\ stage[b] \in Usable => store_budget_ready

MigrationInv ==
  /\ SchemaTyped
  /\ ~OnPostgres => \A b \in Boots : stage[b] \notin Deciding \cup {"create", "probe", "sweep"}
  /\ ~OnPostgres => /\ written \subseteq Kept
                    /\ UNION {tables["final"][k].rows : k \in Kinds} \subseteq {"final"}
  /\ OnPostgres => Overtaken \/ InPlace

\* A boot gets as far as what it has checked.
Reached ==
  /\ scenario \in Scenarios
  /\ \A b \in Boots :
       /\ stage[b] \notin {"absent", "load", "failed"} => Valid(Loaded)
       /\ stage[b] \notin {"absent", "load", "failed", "usage"} => build_runtime
       /\ stage[b] = "serving" => Built(Build(File, Env))

\* A request carries what it copied.
Pooled(r) == resolve_pool(File, Body[r].ns, Asked(r))
Carried(r) ==
  /\ DOMAIN req[r] = {"at", "block", "rates", "quote", "pool", "cred", "charged"}
  /\ req[r].at # "new" => Serving # {}
  /\ req[r].at \in {"admit", "sent", "done"} => req[r].rates = req[r].quote
  /\ req[r].at \in {"sent", "done"} =>
       /\ Pooled(r) # NoPool /\ req[r].pool = Pooled(r).ns
       /\ PinsAffinity(Body[r].route) => req[r].cred = Min(Pooled(r).creds)
  /\ req[r].at = "done" => req[r].charged = req[r].rates
CarriedInv == DOMAIN req = Calls /\ \A r \in Calls : Carried(r)

BootInv == MigrationInv /\ Reached /\ CarriedInv

-----------------------------------------------------------------------------
(* The migration *)

\* A deployment starts with the tables it finds.
LEMMA InitMigration ==
  ASSUME BootInit
  PROVE  MigrationInv
<1>1. scenario \in Scenarios /\ LedgersFound(tables)
  BY ScenariosAssumption DEF BootInit, SchemaInit
<1>2. SchemaTyped
  <2>1. written \in SUBSET Origins
    BY <1>1 DEF BootInit, SchemaInit, LedgersFound, Sides, Kinds
  <2>2. share \in [Sides -> [Kinds -> SUBSET Boots]] /\ excl \in [Sides -> [Kinds -> Boots \cup {NoBoot}]]
    BY DEF BootInit, SchemaInit
  <2>3. boot \in [Boots -> BootRecord]
    BY DEF BootInit, SchemaInit, Fresh, BootRecord
  <2>4. stage \in [Boots -> Stages]
    BY DEF BootInit, Stages, Early
  <2>5. \A b \in Boots : boot[b].renames <= renames /\ ~boot[b].overtaken
    BY DEF BootInit, SchemaInit, Fresh
  <2> QED BY <1>1, <2>1, <2>2, <2>3, <2>4, <2>5 DEF SchemaTyped, LedgersFound, TableRecord, BootInit, SchemaInit
<1>4. \A b \in Boots : stage[b] \in {"load", "absent"}
  BY DEF BootInit
<1>5. /\ written \subseteq Kept
      /\ \A k \in Kinds : tables["draft"][k].rows \subseteq {"draft"} /\ tables["final"][k].rows \subseteq {"final"}
      /\ renames = 0
  BY <1>1 DEF BootInit, SchemaInit, Kept, LedgersFound, Sides
<1>6. Shaped
  BY <1>1, <1>5 DEF Shaped, LedgersFound, Held, EmptyTable, relation_exists, relation_has_rows, Sides, Kinds
<1>7. Locked
  BY <1>4, BootsAssumption DEF Locked, BootInit, SchemaInit, Sides, Holding
<1>8. InPlace
  BY <1>4, <1>5, <1>6, <1>7 DEF InPlace, Before, Deciding, Looking, Holding, Placed, Usable
<1> QED BY <1>2, <1>4, <1>5, <1>8 DEF MigrationInv, Deciding, Looking, Holding

\* The statements that look: what each boot keeps of the answer.
LEMMA Looks ==
  ASSUME SchemaTyped, NEW b \in Boots
  PROVE  /\ LookReady(b) => \E v \in BOOLEAN : /\ v <=> store_budget_ready
                                               /\ boot' = [boot EXCEPT ![b].complete = v, ![b].renames = renames]
         /\ LookRows(b) \/ TxCheck(b) => \E v \in BOOLEAN : /\ v <=> ledger_has_rows("final")
                                                           /\ boot' = [boot EXCEPT ![b].destRows = v]
         /\ TxDrop(b) => \E v \in BOOLEAN, D \in SUBSET Kinds :
              /\ v <=> (Doomed(b) # {} /\ ~boot[b].complete /\ renames > boot[b].renames)
              /\ D = Doomed(b)
              /\ boot' = [boot EXCEPT ![b].drop = D, ![b].overtaken = v]
<1>1. ASSUME LookReady(b)
      PROVE  \E v \in BOOLEAN : (v <=> store_budget_ready) /\ boot' = [boot EXCEPT ![b].complete = v, ![b].renames = renames]
  <2>1. PICK v \in BOOLEAN : v = store_budget_ready
    BY DEF store_budget_ready
  <2>2. boot' = [boot EXCEPT ![b].complete = v, ![b].renames = renames]
    BY ONLY <1>1, <2>1, Zenon DEF LookReady
  <2> QED BY ONLY <2>1, <2>2, Zenon
<1>2. ASSUME LookRows(b) \/ TxCheck(b)
      PROVE  \E v \in BOOLEAN : (v <=> ledger_has_rows("final")) /\ boot' = [boot EXCEPT ![b].destRows = v]
  <2>1. PICK v \in BOOLEAN : v = ledger_has_rows("final")
    BY DEF ledger_has_rows
  <2>2. boot' = [boot EXCEPT ![b].destRows = v]
    BY ONLY <1>2, <2>1, Zenon DEF LookRows, TxCheck
  <2> QED BY ONLY <2>1, <2>2, Zenon
<1>3. ASSUME TxDrop(b)
      PROVE  \E v \in BOOLEAN, D \in SUBSET Kinds :
               /\ v <=> (Doomed(b) # {} /\ ~boot[b].complete /\ renames > boot[b].renames)
               /\ D = Doomed(b)
               /\ boot' = [boot EXCEPT ![b].drop = D, ![b].overtaken = v]
  <2>1. PICK v \in BOOLEAN : v = (Doomed(b) # {} /\ ~boot[b].complete /\ renames > boot[b].renames)
    OBVIOUS
  <2>2. Doomed(b) \in SUBSET Kinds
    BY DEF Doomed
  <2>3. boot' = [boot EXCEPT ![b].drop = Doomed(b), ![b].overtaken = v]
    BY ONLY <1>3, <2>1, Zenon DEF TxDrop
  <2> QED BY ONLY <2>1, <2>2, <2>3, Zenon
<1> QED BY <1>1, <1>2, <1>3

\* A step of the boots, by what it does to the schema.
MigrateSteps(b) ==
  \/ LookReady(b) \/ LookRows(b) \/ TxCheck(b) \/ TxDrop(b) \/ TxRename(b) \/ TxCommit(b)
  \/ TxAbort(b) \/ CreateTables(b, Storage.create) \/ Sweep(b)

\* What a step leaves of types: each statement writes what its variable may hold.
LEMMA TypedSchemaSteps ==
  ASSUME SchemaTyped, NEW b \in Boots, MigrateSteps(b)
  PROVE  /\ tables' \in [Sides -> [Kinds -> TableRecord]]
         /\ share' \in [Sides -> [Kinds -> SUBSET Boots]]
         /\ excl' \in [Sides -> [Kinds -> Boots \cup {NoBoot}]]
         /\ boot' \in [Boots -> BootRecord]
         /\ written' \in SUBSET Origins /\ renames' \in Nat /\ renames' >= renames
         /\ \A c \in Boots : boot'[c].renames <= renames'
<1> USE DEF SchemaTyped, BootRecord
<1>b. ASSUME NEW R \in BootRecord, R.renames <= renames, boot' = [boot EXCEPT ![b] = R]
      PROVE  boot' \in [Boots -> BootRecord] /\ \A c \in Boots : boot'[c].renames <= renames
  BY <1>b
<1>a. ASSUME NEW v \in BOOLEAN, NEW D \in SUBSET Kinds,
             \/ boot' = [boot EXCEPT ![b].complete = v, ![b].renames = renames]
             \/ boot' = [boot EXCEPT ![b].destRows = v]
             \/ boot' = [boot EXCEPT ![b].drop = D, ![b].overtaken = v]
      PROVE  boot' \in [Boots -> BootRecord] /\ \A c \in Boots : boot'[c].renames <= renames
  <2>1. CASE boot' = [boot EXCEPT ![b].complete = v, ![b].renames = renames]
    <3>1. boot[b] \in BootRecord
      OBVIOUS
    <3>2. [boot[b] EXCEPT !.complete = v, !.renames = renames] \in BootRecord
      BY <3>1
    <3>3. [boot[b] EXCEPT !.complete = v, !.renames = renames].renames <= renames
      BY <3>1
    <3>4. boot' = [boot EXCEPT ![b] = [boot[b] EXCEPT !.complete = v, !.renames = renames]]
      BY <2>1, <3>1
    <3> QED BY <3>2, <3>3, <3>4, <1>b
  <2>2. CASE boot' = [boot EXCEPT ![b].destRows = v]
    <3>1. boot[b] \in BootRecord /\ boot[b].renames <= renames
      OBVIOUS
    <3>2. [boot[b] EXCEPT !.destRows = v] \in BootRecord
      BY <3>1
    <3>3. [boot[b] EXCEPT !.destRows = v].renames <= renames
      BY <3>1
    <3>4. boot' = [boot EXCEPT ![b] = [boot[b] EXCEPT !.destRows = v]]
      BY <2>2, <3>1
    <3> QED BY <3>2, <3>3, <3>4, <1>b
  <2>3. CASE boot' = [boot EXCEPT ![b].drop = D, ![b].overtaken = v]
    <3>1. boot[b] \in BootRecord /\ boot[b].renames <= renames
      OBVIOUS
    <3>2. [boot[b] EXCEPT !.drop = D, !.overtaken = v] \in BootRecord
      BY <3>1
    <3>3. [boot[b] EXCEPT !.drop = D, !.overtaken = v].renames <= renames
      BY <3>1
    <3>4. boot' = [boot EXCEPT ![b] = [boot[b] EXCEPT !.drop = D, !.overtaken = v]]
      BY <2>3, <3>1
    <3> QED BY <3>2, <3>3, <3>4, <1>b
  <2> QED BY <1>a, <2>1, <2>2, <2>3
<1>1. CASE LookReady(b)
  <2>1. boot' \in [Boots -> BootRecord] /\ \A c \in Boots : boot'[c].renames <= renames
    BY <1>1, <1>a, Looks
  <2>2. UNCHANGED <<tables, share, excl, written, renames>>
    BY <1>1, Zenon DEF LookReady
  <2> QED BY <2>1, <2>2
<1>2. CASE LookRows(b)
  <2>1. boot' \in [Boots -> BootRecord] /\ \A c \in Boots : boot'[c].renames <= renames
    BY <1>2, <1>a, Looks
  <2>2. UNCHANGED <<tables, share, excl, written, renames>>
    BY <1>2, Zenon DEF LookRows
  <2> QED BY <2>1, <2>2
<1>3. CASE TxCheck(b)
  <2>1. boot' \in [Boots -> BootRecord] /\ \A c \in Boots : boot'[c].renames <= renames
    BY <1>3, <1>a, Looks
  <2>2. UNCHANGED <<tables, excl, written, renames>>
    BY <1>3, Zenon DEF TxCheck
  <2>3. share' = [share EXCEPT !["final"] = [k \in Kinds |->
                    IF relation_exists("final", k) THEN @[k] \cup {b} ELSE @[k]]]
    BY <1>3, Zenon DEF TxCheck
  <2> QED BY <2>1, <2>2, <2>3 DEF Sides
<1>4. CASE TxDrop(b)
  <2>1. boot' \in [Boots -> BootRecord] /\ \A c \in Boots : boot'[c].renames <= renames
    BY <1>4, <1>a, Looks
  <2>2. UNCHANGED <<tables, share, written, renames>>
    BY <1>4, Zenon DEF TxDrop
  <2>3. excl' = [excl EXCEPT !["final"] = [k \in Kinds |-> IF k \in Doomed(b) THEN b ELSE @[k]]]
    BY <1>4, Zenon DEF TxDrop
  <2> QED BY <2>1, <2>2, <2>3 DEF Sides
<1>5. CASE TxRename(b)
  <2>1. Movable(b) \in SUBSET Kinds
    BY DEF Movable
  <2>2. /\ UNCHANGED <<tables, share, written, renames>>
        /\ boot' = [boot EXCEPT ![b].move = Movable(b)]
        /\ excl' = [excl EXCEPT !["draft"] = [k \in Kinds |-> IF k \in Movable(b) THEN b ELSE @[k]]]
    BY ONLY <1>5, Zenon DEF TxRename
  <2>3. boot' \in [Boots -> BootRecord] /\ \A c \in Boots : boot'[c].renames <= renames
    <3>1. boot[b] \in BootRecord /\ boot[b].renames <= renames
      OBVIOUS
    <3>2. [boot[b] EXCEPT !.move = Movable(b)] \in BootRecord
      BY <2>1, <3>1
    <3>3. [boot[b] EXCEPT !.move = Movable(b)].renames <= renames
      BY <3>1
    <3>4. boot' = [boot EXCEPT ![b] = [boot[b] EXCEPT !.move = Movable(b)]]
      BY <2>2, <3>1
    <3> QED BY <3>2, <3>3, <3>4, <1>b
  <2>4. excl' \in [Sides -> [Kinds -> Boots \cup {NoBoot}]]
    BY <2>2 DEF Sides
  <2>5. /\ tables' \in [Sides -> [Kinds -> TableRecord]]
        /\ share' \in [Sides -> [Kinds -> SUBSET Boots]]
    BY <2>2
  <2>6. /\ written' \in SUBSET Origins /\ renames' = renames
        /\ renames' \in Nat /\ renames' >= renames
    BY <2>2
  <2>7. \A c \in Boots : boot'[c].renames <= renames'
    BY ONLY <2>3, <2>6
  <2> HIDE DEF SchemaTyped, BootRecord
  <2> QED BY ONLY <2>3, <2>4, <2>5, <2>6, <2>7
<1>6. CASE TxCommit(b)
  <2>1. NoTable \in TableRecord
    BY DEF NoTable, TableRecord
  <2>2. /\ UNCHANGED <<boot, written>> /\ Released(b)
        /\ tables' = [tables EXCEPT
             !["final"] = [k \in Kinds |-> IF k \in boot[b].move THEN tables["draft"][k]
                                           ELSE IF k \in boot[b].drop THEN NoTable ELSE @[k]],
             !["draft"] = [k \in Kinds |-> IF k \in boot[b].move THEN NoTable ELSE @[k]]]
        /\ renames' = renames + (IF boot[b].move = {} THEN 0 ELSE 1)
    BY ONLY <1>6, Zenon DEF TxCommit
  <2>3. tables' \in [Sides -> [Kinds -> TableRecord]]
    <3>1. tables \in [Sides -> [Kinds -> TableRecord]]
      OBVIOUS
    <3> QED BY ONLY <2>1, <2>2, <3>1 DEF Sides
  <2>4. /\ share' \in [Sides -> [Kinds -> SUBSET Boots]]
        /\ excl' \in [Sides -> [Kinds -> Boots \cup {NoBoot}]]
    <3>1. /\ share \in [Sides -> [Kinds -> SUBSET Boots]]
          /\ excl \in [Sides -> [Kinds -> Boots \cup {NoBoot}]]
      OBVIOUS
    <3> QED BY ONLY <2>2, <3>1 DEF Released
  <2>5. renames' \in Nat /\ renames' >= renames
    BY <2>2
  <2>6. \A c \in Boots : boot'[c].renames <= renames'
    <3>1. renames \in Nat /\ \A c \in Boots : boot[c].renames \in Nat /\ boot[c].renames <= renames
      OBVIOUS
    <3> QED BY ONLY <2>2, <2>5, <3>1
  <2>7. boot' \in [Boots -> BootRecord] /\ written' \in SUBSET Origins
    BY <2>2
  <2> HIDE DEF SchemaTyped, BootRecord
  <2> QED BY ONLY <2>3, <2>4, <2>5, <2>6, <2>7
<1>7. CASE TxAbort(b)
  BY <1>7 DEF TxAbort, Released
<1>8. CASE CreateTables(b, Storage.create)
  <2>1. EmptyTable \in TableRecord
    BY DEF EmptyTable, TableRecord
  <2> QED BY <1>8, <2>1 DEF CreateTables, Sides
<1>9. CASE Sweep(b)
  BY <1>9 DEF Sweep, Sides, Kinds, TableRecord
<1> QED BY <1>1, <1>2, <1>3, <1>4, <1>5, <1>6, <1>7, <1>8, <1>9 DEF MigrateSteps

-----------------------------------------------------------------------------
(* The tables, by what the proofs tell apart *)

\* Rows nobody sweeps are what the queries look for.
LEMMA RowsAreSolid ==
  ASSUME Shaped
  PROVE  /\ ledger_has_rows("final") <=> Solid("final")
         /\ draft_store_budget_present => (ledger_has_rows("draft") <=> Solid("draft"))
BY DEF Shaped, ledger_has_rows, Solid, Kinds, Sides, draft_store_budget_present

\* Tables that stay answer as before.
LEMMA SameAnswers ==
  ASSUME tables' = tables
  PROVE  /\ store_budget_ready' <=> store_budget_ready
         /\ draft_store_budget_present' <=> draft_store_budget_present
         /\ \A s \in Sides : /\ Solid(s)' <=> Solid(s)
                             /\ ledger_has_rows(s)' <=> ledger_has_rows(s)
                             /\ \A k \in Kinds : relation_exists(s, k)' <=> relation_exists(s, k)
         /\ Kept' = Kept
BY DEF store_budget_ready, draft_store_budget_present, Solid, ledger_has_rows, relation_exists,
       relation_has_rows, Kept, Sides, Kinds

\* Their shape with them.
LEMMA SameShape ==
  ASSUME Shaped, UNCHANGED <<tables, renames, written>>
  PROVE  Shaped'
BY DEF Shaped, relation_exists, relation_has_rows, Kept

\* A boot that does nothing keeps its place while the answers stay.
LEMMA OthersStay ==
  ASSUME SchemaTyped, InPlace, NEW c \in Boots,
         renames' = renames,
         store_budget_ready' <=> store_budget_ready,
         draft_store_budget_present' <=> draft_store_budget_present,
         \A s \in Sides : /\ Solid(s)' <=> Solid(s)
                          /\ ledger_has_rows(s)' <=> ledger_has_rows(s)
                          /\ \A k \in Kinds : relation_exists(s, k)' <=> relation_exists(s, k),
         stage'[c] = stage[c], boot'[c] = boot[c],
         \A k \in Kinds : c \in share["final"][k] => c \in share'["final"][k]
  PROVE  /\ IF renames' = 0 THEN Before(c)' ELSE Behind(c)'
         /\ stage'[c] \in Usable => store_budget_ready'
<1>1. Doomed(c)' = Doomed(c)
  BY DEF Doomed, Sides
<1>2. \A k \in Kinds : /\ relation_exists("draft", k)' <=> relation_exists("draft", k)
                       /\ relation_exists("final", k)' <=> relation_exists("final", k)
  BY DEF Sides
<1>3. Solid("final")' <=> Solid("final")
  BY DEF Sides
<1>4. /\ ledger_has_rows("final")' <=> ledger_has_rows("final")
      /\ ledger_has_rows("draft")' <=> ledger_has_rows("draft")
  BY DEF Sides
<1>5. CASE renames = 0
  <2>1. Before(c)
    BY <1>5 DEF InPlace
  <2>2. Before(c)'
    BY <2>1, <1>1, <1>2, <1>3, <1>4 DEF Before
  <2> QED BY <1>5, <2>2 DEF InPlace
<1>6. CASE renames # 0
  <2>1. Behind(c)
    BY <1>6 DEF InPlace
  <2>2. Behind(c)'
    BY <2>1, <1>2, <1>3 DEF Behind
  <2> QED BY <1>6, <2>2 DEF InPlace
<1> QED BY <1>5, <1>6

\* A step that leaves the tables is in place when the boot that takes it is.
LEMMA TablesStay ==
  ASSUME SchemaTyped, InPlace, NEW b \in Boots, UNCHANGED <<tables, renames, written>>,
         \A c \in Boots \ {b} : /\ stage'[c] = stage[c] /\ boot'[c] = boot[c]
                                /\ \A k \in Kinds : c \in share["final"][k] => c \in share'["final"][k],
         Locked', IF renames = 0 THEN Before(b)' ELSE Behind(b)',
         stage'[b] \in Usable => store_budget_ready
  PROVE  InPlace'
<1>1. Shaped'
  BY SameShape DEF InPlace
<1>2. store_budget_ready' <=> store_budget_ready
  BY SameAnswers
<1>3. ASSUME NEW c \in Boots \ {b}
      PROVE  /\ IF renames' = 0 THEN Before(c)' ELSE Behind(c)'
             /\ stage'[c] \in Usable => store_budget_ready'
  BY OthersStay, SameAnswers
<1> QED BY <1>1, <1>2, <1>3 DEF InPlace

\* The stages of a boot's steps that look at nothing.
LEMMA LocksStay ==
  ASSUME Locked, NEW b \in Boots, NEW l, stage \in [Boots -> Stages], stage' = [stage EXCEPT ![b] = l],
         UNCHANGED <<share, excl>>, \A c \in Boots \ {b} : boot'[c] = boot[c],
         stage[b] \notin Holding, l \notin Holding
  PROVE  Locked'
BY DEF Locked, Holding

\* A step that leaves the Store alone and moves one boot.
LEMMA QuietInPlace ==
  ASSUME SchemaTyped, InPlace, NEW b \in Boots, NEW l, stage' = [stage EXCEPT ![b] = l],
         UNCHANGED schemaVars, stage[b] \notin Holding, l \notin Holding,
         IF renames = 0 THEN Before(b)' ELSE Behind(b)',
         l \in Usable => store_budget_ready
  PROVE  InPlace'
<1>1. Locked'
  BY LocksStay DEF InPlace, SchemaTyped, schemaVars
<1>2. stage'[b] = l /\ \A c \in Boots \ {b} : stage'[c] = stage[c]
  BY DEF SchemaTyped
<1> QED BY <1>1, <1>2, TablesStay DEF schemaVars

\* The boot in the statements of the migration that look.
LEMMA LookReadyKeeps ==
  ASSUME SchemaTyped, InPlace, NEW b \in Boots, stage[b] = "ready", Proceed(b, "rows"), LookReady(b)
  PROVE  InPlace'
<1>1. PICK v \in BOOLEAN : /\ v <=> store_budget_ready
                           /\ boot' = [boot EXCEPT ![b].complete = v, ![b].renames = renames]
  BY Looks
<1>2. UNCHANGED <<tables, share, excl, written, renames>>
  BY Zenon DEF LookReady
<1>3. stage' = [stage EXCEPT ![b] = "rows"]
  BY DEF Proceed
<1>4. /\ stage'[b] = "rows" /\ boot'[b].complete = v /\ boot'[b].renames = renames
      /\ \A c \in Boots \ {b} : stage'[c] = stage[c] /\ boot'[c] = boot[c]
  BY <1>1, <1>3 DEF SchemaTyped, BootRecord
<1>5. Locked'
  BY <1>2, <1>3, <1>4, LocksStay DEF InPlace, SchemaTyped, Holding
<1>6. CASE renames = 0
  <2>1. Before(b)
    BY <1>6 DEF InPlace
  <2>2. Before(b)'
    BY <2>1, <1>1, <1>2, <1>4, SameAnswers DEF Before, Deciding, Looking, Holding, Placed, Usable
  <2> QED BY <1>2, <1>4, <1>5, <1>6, <2>2, TablesStay DEF Usable
<1>7. CASE renames # 0
  <2>1. Behind(b)
    BY <1>7 DEF InPlace
  <2>2. Behind(b)'
    BY <2>1, <1>1, <1>2, <1>4, SameAnswers DEF Behind, Holding, Sides
  <2> QED BY <1>2, <1>4, <1>5, <1>7, <2>2, TablesStay DEF Usable
<1> QED BY <1>6, <1>7

\* Rows that are there now are there when the boot decides.
LEMMA LookRowsKeeps ==
  ASSUME SchemaTyped, InPlace, NEW b \in Boots, stage[b] = "rows", Proceed(b, "decide"), LookRows(b)
  PROVE  InPlace'
<1>1. PICK v \in BOOLEAN : (v <=> ledger_has_rows("final")) /\ boot' = [boot EXCEPT ![b].destRows = v]
  BY Looks
<1>2. UNCHANGED <<tables, share, excl, written, renames>>
  BY Zenon DEF LookRows
<1>3. stage' = [stage EXCEPT ![b] = "decide"]
  BY DEF Proceed
<1>4. /\ stage'[b] = "decide" /\ boot'[b].destRows = v
      /\ boot'[b].complete = boot[b].complete /\ boot'[b].renames = boot[b].renames
      /\ \A c \in Boots \ {b} : stage'[c] = stage[c] /\ boot'[c] = boot[c]
  BY <1>1, <1>3 DEF SchemaTyped, BootRecord
<1>5. Locked'
  BY <1>2, <1>3, <1>4, LocksStay DEF InPlace, SchemaTyped, Holding
<1>6. v <=> Solid("final")
  BY <1>1, RowsAreSolid DEF InPlace, Sides
<1>7. CASE renames = 0
  <2>1. Before(b)
    BY <1>7 DEF InPlace
  <2>2. Before(b)'
    BY <2>1, <1>1, <1>2, <1>4, <1>6, SameAnswers DEF Before, Deciding, Looking, Holding, Placed, Usable, Sides
  <2> QED BY <1>2, <1>4, <1>5, <1>7, <2>2, TablesStay DEF Usable
<1>8. CASE renames # 0
  <2>1. Behind(b)
    BY <1>8 DEF InPlace
  <2>2. Behind(b)'
    BY <2>1, <1>1, <1>2, <1>4, <1>6, SameAnswers DEF Behind, Holding, Sides
  <2> QED BY <1>2, <1>4, <1>5, <1>8, <2>2, TablesStay DEF Usable
<1> QED BY <1>7, <1>8

\* should_rename_draft decides as the tables still are.
LEMMA DecideKeeps ==
  ASSUME SchemaTyped, InPlace, NEW b \in Boots, Decide(b)
  PROVE  InPlace'
<1>1. PICK l : /\ l = IF PartialDest(b) THEN "failed" ELSE IF ShouldRename(b) THEN "check" ELSE "create"
               /\ stage' = [stage EXCEPT ![b] = l]
  BY DEF Decide, SchemaStep, Proceed
<1>2. stage[b] = "decide" /\ UNCHANGED schemaVars
  BY DEF Decide, SchemaStep
<1>3. stage'[b] = l /\ l \in {"failed", "check", "create"} /\ boot' = boot
  BY <1>1, <1>2 DEF SchemaTyped, schemaVars
<1>4. tables' = tables /\ renames' = renames
  BY <1>2 DEF schemaVars
<1>5. CASE renames = 0
  <2>1. Before(b)
    BY <1>5 DEF InPlace
  <2>2. Before(b)'
    BY <2>1, <1>1, <1>2, <1>3, <1>4, SameAnswers
    DEF Before, Deciding, Looking, Holding, Placed, Usable, Sides, PartialDest, ShouldRename
  <2> QED BY <1>1, <1>2, <1>3, <1>5, <2>2, QuietInPlace DEF Holding, Usable
<1>6. CASE renames # 0
  <2>1. Behind(b) /\ Shaped
    BY <1>6 DEF InPlace
  <2>2. ~ledger_has_rows("draft")
    BY <2>1 DEF Behind, Shaped, ledger_has_rows, Sides
  <2>3. boot[b].complete \in BOOLEAN /\ boot[b].destRows \in BOOLEAN
    BY DEF SchemaTyped, BootRecord
  <2>4. Behind(b)'
    BY <2>1, <2>2, <2>3, <1>1, <1>2, <1>3, <1>4, SameAnswers
    DEF Behind, Holding, Sides, PartialDest, ShouldRename
  <2> QED BY <1>1, <1>2, <1>3, <1>6, <2>4, QuietInPlace DEF Holding, Usable
<1> QED BY <1>5, <1>6

-----------------------------------------------------------------------------
(* The transaction *)

\* The transaction looks again and holds what it saw.
LEMMA TxCheckKeeps ==
  ASSUME SchemaTyped, InPlace, NEW b \in Boots, stage[b] = "check", Proceed(b, "drop"), TxCheck(b)
  PROVE  InPlace'
<1>1. PICK v \in BOOLEAN : (v <=> ledger_has_rows("final")) /\ boot' = [boot EXCEPT ![b].destRows = v]
  BY Looks
<1>2. /\ UNCHANGED <<tables, excl, written, renames>> /\ Readable(b, "final")
      /\ share' = [share EXCEPT !["final"] = [k \in Kinds |->
                     IF relation_exists("final", k) THEN @[k] \cup {b} ELSE @[k]]]
  BY Zenon DEF TxCheck
<1>3. stage' = [stage EXCEPT ![b] = "drop"]
  BY DEF Proceed
<1>4. /\ stage'[b] = "drop" /\ boot'[b].destRows = v
      /\ boot'[b].complete = boot[b].complete /\ boot'[b].renames = boot[b].renames
      /\ \A c \in Boots \ {b} : stage'[c] = stage[c] /\ boot'[c] = boot[c]
  BY <1>1, <1>3 DEF SchemaTyped, BootRecord
<1>5. \A k \in Kinds : share'["final"][k] = IF relation_exists("final", k) THEN share["final"][k] \cup {b}
                                            ELSE share["final"][k]
  BY <1>2 DEF SchemaTyped, Sides
<1>6. Locked'
  <2>1. \A k \in Kinds : excl["final"][k] # b /\ excl["draft"][k] # b
    BY DEF InPlace, Locked
  <2>2. \A k \in Kinds : excl["final"][k] = NoBoot
    BY <2>1, <1>2 DEF Readable
  <2> QED BY <2>1, <2>2, <1>2, <1>3, <1>4, <1>5, BootsAssumption DEF InPlace, Locked, Holding
<1>7. v <=> Solid("final")
  BY <1>1, RowsAreSolid DEF InPlace, Sides
<1>8. CASE renames = 0
  <2>1. Before(b)
    BY <1>8 DEF InPlace
  <2>2. /\ store_budget_ready' <=> store_budget_ready
        /\ draft_store_budget_present' <=> draft_store_budget_present
        /\ Solid("final")' <=> Solid("final")
        /\ ledger_has_rows("final")' <=> ledger_has_rows("final")
        /\ ledger_has_rows("draft")' <=> ledger_has_rows("draft")
        /\ \A k \in Kinds : relation_exists("final", k)' <=> relation_exists("final", k)
    <3>1. tables' = tables
      BY <1>2
    <3> QED BY ONLY <3>1, SameAnswers DEF Sides
  <2>3. \A k \in Kinds : relation_exists("final", k)' => b \in share'["final"][k]
    BY ONLY <2>2, <1>5
  <2>4. Before(b)'
    BY ONLY <2>1, <2>2, <2>3, <1>1, <1>4, <1>7, stage[b] = "check"
    DEF Before, Deciding, Looking, Holding, Placed, Usable
  <2> QED BY <1>2, <1>4, <1>5, <1>6, <1>8, <2>4, TablesStay DEF Usable
<1>9. CASE renames # 0
  <2>1. Behind(b)
    BY <1>9 DEF InPlace
  <2>2. Behind(b)'
    BY <2>1, <1>1, <1>2, <1>4, <1>7, SameAnswers DEF Behind, Holding, Sides
  <2> QED BY <1>2, <1>4, <1>5, <1>6, <1>9, <2>2, TablesStay DEF Usable
<1> QED BY <1>8, <1>9

\* What a boot drops is empty, or the boot was overtaken.
LEMMA TxDropKeeps ==
  ASSUME SchemaTyped, InPlace, NEW b \in Boots, stage[b] = "drop", Proceed(b, "rename"), TxDrop(b)
  PROVE  InPlace' \/ Overtaken'
<1>1. PICK v \in BOOLEAN, D \in SUBSET Kinds :
        /\ v <=> (Doomed(b) # {} /\ ~boot[b].complete /\ renames > boot[b].renames)
        /\ D = Doomed(b)
        /\ boot' = [boot EXCEPT ![b].drop = D, ![b].overtaken = v]
  BY Looks
<1>2. /\ UNCHANGED <<tables, share, written, renames>>
      /\ \A k \in Doomed(b) : Free(b, "final", k)
      /\ excl' = [excl EXCEPT !["final"] = [k \in Kinds |-> IF k \in Doomed(b) THEN b ELSE @[k]]]
  BY Zenon DEF TxDrop
<1>3. stage' = [stage EXCEPT ![b] = "rename"]
  BY DEF Proceed
<1>4. /\ stage'[b] = "rename" /\ boot'[b].drop = Doomed(b) /\ boot'[b].overtaken = v
      /\ boot'[b].destRows = boot[b].destRows
      /\ boot'[b].complete = boot[b].complete /\ boot'[b].renames = boot[b].renames
      /\ \A c \in Boots \ {b} : stage'[c] = stage[c] /\ boot'[c] = boot[c]
  BY <1>1, <1>3 DEF SchemaTyped, BootRecord
<1>5. \A k \in Kinds : /\ excl'["final"][k] = (IF k \in Doomed(b) THEN b ELSE excl["final"][k])
                       /\ excl'["draft"][k] = excl["draft"][k]
  BY <1>2 DEF SchemaTyped, Sides
<1>6. Locked'
  <2>1. \A k \in Kinds : excl["final"][k] # b /\ excl["draft"][k] # b
    BY DEF InPlace, Locked
  <2>2. \A k \in Doomed(b) : k \in Kinds /\ excl["final"][k] = NoBoot /\ share["final"][k] \subseteq {b}
    BY <2>1, <1>1, <1>2 DEF Free
  <2> QED BY <2>1, <2>2, <1>2, <1>3, <1>4, <1>5, BootsAssumption DEF InPlace, Locked, Holding
<1>7. CASE renames = 0
  <2>1. Before(b)
    BY <1>7 DEF InPlace
  <2>2. Doomed(b)' = Doomed(b)
    BY <1>2, <1>4, SameAnswers DEF Doomed, Sides
  <2>3. Before(b)'
    BY <2>1, <2>2, <1>2, <1>4, SameAnswers DEF Before, Deciding, Looking, Holding, Placed, Usable, Sides
  <2> QED BY <1>2, <1>4, <1>6, <1>7, <2>3, TablesStay DEF Usable
<1>8. CASE renames # 0
  <2>1. Behind(b)
    BY <1>8 DEF InPlace
  <2>2. CASE Doomed(b) = {}
    <3>1. Behind(b)'
      BY <2>1, <2>2, <1>2, <1>4, SameAnswers DEF Behind, Holding, Sides
    <3> QED BY <1>2, <1>4, <1>6, <1>8, <3>1, TablesStay DEF Usable
  <2>3. CASE Doomed(b) # {}
    <3>1. ~boot[b].destRows
      BY <2>3 DEF Doomed
    <3>2. ~boot[b].complete
      BY <2>1, <3>1 DEF Behind
    <3>3. boot[b].renames # renames
      BY <2>1, <3>2 DEF Behind, Holding
    <3>4. renames > boot[b].renames
      <4>1. boot[b].renames \in Nat /\ renames \in Nat /\ boot[b].renames <= renames
        BY DEF SchemaTyped, BootRecord
      <4> QED BY <3>3, <4>1
    <3>5. boot'[b].overtaken
      BY <2>3, <3>2, <3>4, <1>1, <1>4
    <3> QED BY <3>5 DEF Overtaken
  <2> QED BY <2>2, <2>3
<1> QED BY <1>7, <1>8

\* What it moves is the whole of the draft, or nothing.
LEMMA TxRenameKeeps ==
  ASSUME SchemaTyped, InPlace, NEW b \in Boots, stage[b] = "rename", Proceed(b, "commit"), TxRename(b)
  PROVE  InPlace'
<1>1. /\ UNCHANGED <<tables, share, written, renames>>
      /\ \A k \in Movable(b) : Free(b, "draft", k)
      /\ excl' = [excl EXCEPT !["draft"] = [k \in Kinds |-> IF k \in Movable(b) THEN b ELSE @[k]]]
      /\ boot' = [boot EXCEPT ![b].move = Movable(b)]
  BY DEF TxRename
<1>2. stage' = [stage EXCEPT ![b] = "commit"]
  BY DEF Proceed
<1>3. /\ stage'[b] = "commit" /\ boot'[b].move = Movable(b) /\ boot'[b].drop = boot[b].drop
      /\ boot'[b].destRows = boot[b].destRows
      /\ boot'[b].complete = boot[b].complete /\ boot'[b].renames = boot[b].renames
      /\ \A c \in Boots \ {b} : stage'[c] = stage[c] /\ boot'[c] = boot[c]
  BY <1>1, <1>2 DEF SchemaTyped, BootRecord
<1>4. \A k \in Kinds : /\ excl'["draft"][k] = (IF k \in Movable(b) THEN b ELSE excl["draft"][k])
                       /\ excl'["final"][k] = excl["final"][k]
  BY <1>1 DEF SchemaTyped, Sides
<1>5. Locked'
  <2>1. \A k \in Kinds : excl["draft"][k] # b
    BY DEF InPlace, Locked
  <2>2. \A k \in Movable(b) : k \in Kinds /\ excl["draft"][k] = NoBoot
    BY <2>1, <1>1 DEF Free, Movable
  <2> QED BY <2>1, <2>2, <1>1, <1>2, <1>3, <1>4, BootsAssumption DEF InPlace, Locked, Holding
<1>6. CASE renames = 0
  <2>1. Before(b)
    BY <1>6 DEF InPlace
  <2>2. Doomed(b)' = Doomed(b)
    BY <1>1, <1>3, SameAnswers DEF Doomed, Sides
  <2>3. Movable(b) = IF boot[b].destRows THEN {} ELSE {k \in Kinds : relation_exists("draft", k)}
    BY <2>1 DEF Movable, Before, Doomed, Holding, store_budget_ready
  <2>4. {k \in Kinds : relation_exists("draft", k)'} = {k \in Kinds : relation_exists("draft", k)}
    BY <1>1, SameAnswers DEF Sides
  <2>5. Before(b)'
    BY <2>1, <2>2, <2>3, <2>4, <1>1, <1>3, SameAnswers DEF Before, Deciding, Looking, Holding, Placed, Usable, Sides
  <2> QED BY <1>1, <1>3, <1>5, <1>6, <2>5, TablesStay DEF Usable
<1>7. CASE renames # 0
  <2>1. Behind(b)
    BY <1>7 DEF InPlace
  <2>2. Movable(b) = {}
    BY <2>1 DEF Movable, Behind
  <2>3. Behind(b)'
    BY <2>1, <2>2, <1>1, <1>3, SameAnswers DEF Behind, Holding, Sides
  <2> QED BY <1>1, <1>3, <1>5, <1>7, <2>3, TablesStay DEF Usable
<1> QED BY <1>6, <1>7

\* A transaction that ends lets go of its locks.
LEMMA ReleasedLocks ==
  ASSUME SchemaTyped, Locked, NEW b \in Boots, NEW l, l \notin Holding, stage' = [stage EXCEPT ![b] = l],
         boot' = boot, Released(b)
  PROVE  /\ Locked'
         /\ \A c \in Boots \ {b}, k \in Kinds : c \in share["final"][k] => c \in share'["final"][k]
<1>1. \A s \in Sides, k \in Kinds : /\ share'[s][k] = share[s][k] \ {b}
                                    /\ excl'[s][k] = IF excl[s][k] = b THEN NoBoot ELSE excl[s][k]
  BY DEF Released
<1>2. \A k \in Kinds : /\ share'["final"][k] = share["final"][k] \ {b}
                       /\ excl'["final"][k] = (IF excl["final"][k] = b THEN NoBoot ELSE excl["final"][k])
                       /\ excl'["draft"][k] = (IF excl["draft"][k] = b THEN NoBoot ELSE excl["draft"][k])
  BY <1>1 DEF Sides
<1>3. stage'[b] = l /\ \A c \in Boots \ {b} : stage'[c] = stage[c]
  BY DEF SchemaTyped
<1>4. Locked'
  BY <1>2, <1>3, BootsAssumption DEF Locked, Holding
<1> QED BY <1>2, <1>4

\* A boot that fails leaves the others where they were.
LEMMA AbortKeeps ==
  ASSUME SchemaTyped, InPlace, NEW b \in Boots, Proceed(b, "failed"), TxAbort(b)
  PROVE  InPlace'
<1>1. UNCHANGED <<tables, boot, written, renames>> /\ Released(b)
  BY DEF TxAbort
<1>2. stage' = [stage EXCEPT ![b] = "failed"]
  BY DEF Proceed
<1>3. /\ stage'[b] = "failed"
      /\ \A c \in Boots \ {b} : stage'[c] = stage[c] /\ boot'[c] = boot[c]
  BY <1>1, <1>2 DEF SchemaTyped
<1>4. /\ Locked'
      /\ \A c \in Boots \ {b}, k \in Kinds : c \in share["final"][k] => c \in share'["final"][k]
  BY <1>1, <1>2, ReleasedLocks DEF InPlace, Holding
<1>5. CASE renames = 0
  <2>1. Before(b)'
    BY <1>3 DEF Before, Deciding, Looking, Holding, Placed, Usable
  <2> QED BY <1>1, <1>3, <1>4, <1>5, <2>1, TablesStay DEF Usable
<1>6. CASE renames # 0
  <2>1. Behind(b)
    BY <1>6 DEF InPlace
  <2>2. Behind(b)'
    BY <2>1, <1>1, <1>3, SameAnswers DEF Behind, Holding, Sides
  <2> QED BY <1>1, <1>3, <1>4, <1>6, <2>2, TablesStay DEF Usable
<1> QED BY <1>5, <1>6

-----------------------------------------------------------------------------
(* The steps that change tables *)

\* CREATE TABLE IF NOT EXISTS finds the ledger whole wherever a boot still decides.
LEMMA CreateKeeps ==
  ASSUME SchemaTyped, InPlace, NEW b \in Boots, NEW create, stage[b] = "create",
         Proceed(b, "probe"), CreateTables(b, create)
  PROVE  InPlace'
<1>1. /\ UNCHANGED <<share, excl, boot, written, renames>>
      /\ tables' = [tables EXCEPT !["final"] = [k \in Kinds |-> IF create /\ ~@[k].is THEN EmptyTable ELSE @[k]]]
  BY DEF CreateTables
<1>2. /\ stage' = [stage EXCEPT ![b] = "probe"] /\ stage'[b] = "probe"
      /\ \A c \in Boots \ {b} : stage'[c] = stage[c]
  BY DEF Proceed, SchemaTyped
<1>3. \A k \in Kinds : /\ tables'["draft"][k] = tables["draft"][k]
                       /\ tables'["final"][k] = IF create /\ ~tables["final"][k].is THEN EmptyTable
                                                ELSE tables["final"][k]
  BY <1>1 DEF SchemaTyped, Sides
<1>4. Locked'
  BY <1>1, <1>2, LocksStay DEF InPlace, SchemaTyped, Holding
<1>5. \A k \in Kinds : /\ relation_exists("draft", k)' <=> relation_exists("draft", k)
                       /\ relation_exists("final", k) => relation_exists("final", k)'
                       /\ tables'["draft"][k].rows = tables["draft"][k].rows
                       /\ tables'["final"][k].rows = tables["final"][k].rows
  <2>1. Shaped
    BY DEF InPlace
  <2>2. \A k \in Kinds : ~tables["final"][k].is => tables["final"][k].rows = {}
    BY <2>1 DEF Shaped, Sides, relation_exists, relation_has_rows
  <2>3. EmptyTable.is = TRUE /\ EmptyTable.rows = {}
    BY DEF EmptyTable
  <2>4. ASSUME NEW k \in Kinds
        PROVE  /\ tables["final"][k].is => tables'["final"][k].is
               /\ tables'["final"][k].rows = tables["final"][k].rows
               /\ tables'["draft"][k] = tables["draft"][k]
    <3>1. CASE create /\ ~tables["final"][k].is
      BY <3>1, <1>3, <2>2, <2>3
    <3>2. CASE ~(create /\ ~tables["final"][k].is)
      BY <3>2, <1>3
    <3> QED BY <3>1, <3>2
  <2> QED BY <2>4 DEF relation_exists
<1>6. /\ \A s \in Sides, k \in Kinds : relation_has_rows(s, k)' <=> relation_has_rows(s, k)
      /\ Kept' = Kept
  BY <1>5 DEF relation_has_rows, Sides, Kept, Kinds
<1>7. Shaped'
  <2>1. Shaped
    BY DEF InPlace
  <2> QED BY <1>1, <1>5, <1>6, <2>1 DEF Shaped, Sides, Kinds
<1>8. /\ \A s \in Sides : (Solid(s)' <=> Solid(s)) /\ (ledger_has_rows(s)' <=> ledger_has_rows(s))
      /\ store_budget_ready => store_budget_ready'
      /\ draft_store_budget_present' <=> draft_store_budget_present
  BY <1>3, <1>5, <1>6
  DEF Solid, ledger_has_rows, store_budget_ready, draft_store_budget_present, Kinds, relation_exists
<1>9. CASE renames = 0 /\ draft_store_budget_present
  <2>1. store_budget_ready
    BY <1>9 DEF InPlace, Before, Placed
  <2>2. tables' = tables
    BY <1>1, <2>1 DEF store_budget_ready, relation_exists, SchemaTyped, Sides
  <2>3. Before(b)
    BY <1>9 DEF InPlace
  <2>4. Before(b)'
    BY <2>2, <2>3, <1>1, <1>2, SameAnswers DEF Before, Deciding, Looking, Holding, Placed, Usable, Sides
  <2> QED BY <1>1, <1>2, <1>4, <1>9, <2>2, <2>4, TablesStay DEF Usable
<1>10. CASE renames = 0 /\ ~draft_store_budget_present
  <2>1. \A c \in Boots : stage[c] \notin Deciding
    BY <1>10 DEF InPlace, Before
  <2>2. \A c \in Boots : stage'[c] \notin Deciding
    BY <2>1, <1>2 DEF Deciding, Looking, Holding
  <2>3. \A c \in Boots : Before(c)'
    BY <2>2, <1>8, <1>10 DEF Before, Deciding, Looking, Holding
  <2>4. \A c \in Boots : stage'[c] \in Usable => stage[c] \in Usable
    BY <1>2 DEF Usable
  <2> QED BY <1>1, <1>4, <1>7, <1>8, <1>10, <2>3, <2>4 DEF InPlace
<1>11. CASE renames # 0
  <2>1. ASSUME NEW c \in Boots
        PROVE  Behind(c)'
    <3>1. Behind(c)
      BY <1>11 DEF InPlace
    <3>2. Solid("final")' <=> Solid("final")
      BY <1>8 DEF Sides
    <3>3. CASE c = b
      BY <3>1, <3>2, <3>3, <1>1, <1>2, <1>5, <1>8 DEF Behind, Holding
    <3>4. CASE c # b
      BY <3>1, <3>2, <3>4, <1>1, <1>2, <1>5, <1>8 DEF Behind, Holding
    <3> QED BY <3>3, <3>4
  <2>2. \A c \in Boots : stage'[c] \in Usable => stage[c] \in Usable
    BY <1>2 DEF Usable
  <2> QED BY <1>1, <1>4, <1>7, <1>8, <1>11, <2>1, <2>2 DEF InPlace
<1> QED BY <1>9, <1>10, <1>11

\* The sweep takes expired holds, and no ledger was told by its holds alone.
LEMMA SweepKeeps ==
  ASSUME SchemaTyped, InPlace, NEW b \in Boots, stage[b] = "sweep", probe_schema, Proceed(b, "seed"), Sweep(b)
  PROVE  InPlace'
<1>1. PICK left \in {tables["final"]["reservation"].rows, {}} :
        tables' = [tables EXCEPT !["final"]["reservation"].rows = left]
  BY DEF Sweep
<1>2. UNCHANGED <<share, excl, boot, written, renames>>
  BY DEF Sweep
<1>3. /\ stage' = [stage EXCEPT ![b] = "seed"] /\ stage'[b] = "seed"
      /\ \A c \in Boots \ {b} : stage'[c] = stage[c]
  BY DEF Proceed, SchemaTyped
<1>4. Locked'
  BY <1>2, <1>3, LocksStay DEF InPlace, SchemaTyped, Holding
<1>5. /\ tables'["draft"] = tables["draft"]
      /\ tables'["final"]["budget"] = tables["final"]["budget"]
      /\ tables'["final"]["active"] = tables["final"]["active"]
      /\ tables'["final"]["reservation"].is = tables["final"]["reservation"].is
      /\ tables'["final"]["reservation"].rows = left
  BY <1>1 DEF SchemaTyped, TableRecord, Sides, Kinds
<1>6. Shaped
  BY DEF InPlace
<1>7. Shaped'
  BY <1>1, <1>2, <1>5, <1>6 DEF Shaped, Sides, Kinds, relation_exists, relation_has_rows, Kept
<1>8. \A s \in Sides : Solid(s)' <=> Solid(s)
  BY <1>5 DEF Solid, relation_has_rows, Sides
<1>9. \A s \in Sides : ledger_has_rows(s)' <=> ledger_has_rows(s)
  <2>1. ledger_has_rows("final")' <=> Solid("final")'
    BY <1>7 DEF Shaped, ledger_has_rows, Solid, Kinds, Sides
  <2>2. ledger_has_rows("draft")' <=> ledger_has_rows("draft")
    BY <1>5 DEF ledger_has_rows, relation_has_rows
  <2> QED BY <2>1, <2>2, <1>6, <1>8, RowsAreSolid DEF Sides
<1>10. /\ \A s \in Sides, k \in Kinds : relation_exists(s, k)' <=> relation_exists(s, k)
       /\ store_budget_ready' <=> store_budget_ready
       /\ draft_store_budget_present' <=> draft_store_budget_present
  BY <1>5 DEF relation_exists, store_budget_ready, draft_store_budget_present, Sides, Kinds
<1>11. ASSUME NEW c \in Boots, c # b
       PROVE  /\ IF renames' = 0 THEN Before(c)' ELSE Behind(c)'
              /\ stage'[c] \in Usable => store_budget_ready'
  BY <1>2, <1>3, <1>8, <1>9, <1>10, <1>11, OthersStay
<1>12. store_budget_ready'
  BY <1>10 DEF probe_schema
<1>13. IF renames' = 0 THEN Before(b)' ELSE Behind(b)'
  <2>1. CASE renames = 0
    <3>1. Before(b)
      BY <2>1 DEF InPlace
    <3>2. Before(b)'
      BY <3>1, <1>2, <1>3, <1>8, <1>9, <1>10 DEF Before, Deciding, Looking, Holding, Placed, Usable, Sides
    <3> QED BY <1>2, <2>1, <3>2
  <2>2. CASE renames # 0
    <3>1. Behind(b)
      BY <2>2 DEF InPlace
    <3>2. Behind(b)'
      BY <3>1, <1>2, <1>3, <1>8, <1>10 DEF Behind, Holding, Sides
    <3> QED BY <1>2, <2>2, <3>2
  <2> QED BY <2>1, <2>2
<1> QED BY <1>4, <1>7, <1>11, <1>12, <1>13 DEF InPlace

\* A charge meets no boot that believes the ledger empty and is about to drop it.
LEMMA ChargeKeeps ==
  ASSUME SchemaTyped, InPlace, Serving # {}, ChargeRow, stage' = stage
  PROVE  InPlace'
<1>1. /\ tables' = [tables EXCEPT !["final"]["budget"].rows = @ \cup {"served"}]
      /\ written' = written \cup {"served"}
      /\ UNCHANGED <<share, excl, boot, renames>>
  BY DEF ChargeRow
<1>2. PICK a \in Boots : stage[a] = "serving"
  BY DEF Serving
<1>3. store_budget_ready
  BY <1>2 DEF InPlace, Usable
<1>4. /\ tables'["draft"] = tables["draft"]
      /\ tables'["final"]["active"] = tables["final"]["active"]
      /\ tables'["final"]["reservation"] = tables["final"]["reservation"]
      /\ tables'["final"]["budget"].is = tables["final"]["budget"].is
      /\ tables'["final"]["budget"].rows = tables["final"]["budget"].rows \cup {"served"}
  BY <1>1 DEF SchemaTyped, TableRecord, Sides, Kinds
<1>5. Shaped
  BY DEF InPlace
<1>6. Shaped'
  <2>1. tables["final"]["budget"].is
    BY <1>3 DEF store_budget_ready, relation_exists, Kinds
  <2>2. Kept' = Kept \cup {"served"}
    BY <1>4 DEF Kept, Sides
  <2> QED BY <1>1, <1>4, <1>5, <2>1, <2>2 DEF Shaped, Sides, Kinds, relation_exists, relation_has_rows
<1>7. Solid("final")'
  BY <1>4 DEF Solid, relation_has_rows
<1>8. /\ \A s \in Sides, k \in Kinds : relation_exists(s, k)' <=> relation_exists(s, k)
      /\ store_budget_ready'
      /\ draft_store_budget_present' <=> draft_store_budget_present
      /\ ledger_has_rows("draft")' <=> ledger_has_rows("draft")
  BY <1>3, <1>4 DEF relation_exists, store_budget_ready, draft_store_budget_present, ledger_has_rows,
                    relation_has_rows, Sides, Kinds
<1>9. Locked'
  BY <1>1 DEF InPlace, Locked
<1>10. CASE renames = 0
  <2>1. ASSUME NEW c \in Boots
        PROVE  Before(c)'
    <3>1. Before(a) /\ Before(c)
      BY <1>10 DEF InPlace
    <3>2. stage[c] \in Holding => boot[c].destRows
      <4> SUFFICES ASSUME stage[c] \in Holding, ~boot[c].destRows
                   PROVE  FALSE
        OBVIOUS
      <4>1. draft_store_budget_present /\ ledger_has_rows("draft") /\ ~ledger_has_rows("final")
        BY <3>1, <1>3 DEF Before, Deciding
      <4>2. Solid("final")
        BY <4>1, <3>1, <1>2 DEF Before, Placed, Usable
      <4> QED BY <4>1, <4>2, <1>5, RowsAreSolid DEF Sides
    <3>3. Doomed(c)' = Doomed(c)
      BY <1>1, <1>8 DEF Doomed, Sides
    <3>4. stage'[c] = stage[c] /\ boot'[c] = boot[c] /\ share' = share
      BY <1>1
    <3>5. \A k \in Kinds : /\ relation_exists("final", k)' <=> relation_exists("final", k)
                           /\ relation_exists("draft", k)' <=> relation_exists("draft", k)
      BY <1>8 DEF Sides
    <3>6. {k \in Kinds : relation_exists("draft", k)'} = {k \in Kinds : relation_exists("draft", k)}
      BY <3>5
    <3>7. Holding = {"drop", "rename", "commit"}
      BY DEF Holding
    <3> QED BY ONLY <3>1, <3>2, <3>3, <3>4, <3>5, <3>6, <3>7, <1>3, <1>7, <1>8 DEF Before
  <2> QED BY <1>1, <1>6, <1>8, <1>9, <1>10, <2>1 DEF InPlace
<1>11. CASE renames # 0
  <2>1. ASSUME NEW c \in Boots
        PROVE  Behind(c)'
    <3>1. Behind(c)
      BY <1>11 DEF InPlace
    <3>2. \A k \in Kinds : relation_exists("draft", k)' <=> relation_exists("draft", k)
      BY <1>8 DEF Sides
    <3> QED BY <3>1, <3>2, <1>1, <1>7 DEF Behind
  <2> QED BY <1>1, <1>6, <1>8, <1>9, <1>11, <2>1 DEF InPlace
<1> QED BY <1>10, <1>11

\* A commit with nothing to move or to drop only ends the transaction.
LEMMA CommitNothing ==
  ASSUME SchemaTyped, InPlace, NEW b \in Boots, stage[b] = "commit", Proceed(b, "create"), TxCommit(b),
         boot[b].move = {}, boot[b].drop = {}
  PROVE  InPlace'
<1>1. UNCHANGED <<boot, written>> /\ Released(b) /\ renames' = renames
  BY DEF TxCommit, SchemaTyped
<1>2. tables' = tables
  <2>1. tables' = [tables EXCEPT !["final"] = [k \in Kinds |-> @[k]], !["draft"] = [k \in Kinds |-> @[k]]]
    BY DEF TxCommit
  <2> QED BY <2>1 DEF SchemaTyped, Sides
<1>3. /\ stage' = [stage EXCEPT ![b] = "create"] /\ stage'[b] = "create"
      /\ \A c \in Boots \ {b} : stage'[c] = stage[c]
  BY DEF Proceed, SchemaTyped
<1>4. /\ Locked'
      /\ \A c \in Boots \ {b}, k \in Kinds : c \in share["final"][k] => c \in share'["final"][k]
  BY <1>1, <1>3, ReleasedLocks DEF InPlace, Holding
<1>5. CASE renames = 0
  <2>1. Before(b)
    BY <1>5 DEF InPlace
  <2>2. draft_store_budget_present
    BY <2>1 DEF Before, Deciding, Holding
  <2>3. boot[b].destRows
    BY <2>1, <2>2 DEF Before, draft_store_budget_present, Kinds
  <2>4. store_budget_ready /\ Solid("final")
    BY <2>1, <2>3 DEF Before, Holding
  <2>5. Before(b)'
    BY <2>4, <1>2, <1>3, SameAnswers DEF Before, Deciding, Looking, Holding, Placed, Usable, Sides
  <2> QED BY <1>1, <1>2, <1>3, <1>4, <1>5, <2>5, TablesStay DEF Usable
<1>6. CASE renames # 0
  <2>1. Behind(b)
    BY <1>6 DEF InPlace
  <2>2. Behind(b)'
    BY <2>1, <1>1, <1>2, <1>3, SameAnswers DEF Behind, Holding, Sides
  <2> QED BY <1>1, <1>2, <1>3, <1>4, <1>6, <2>2, TablesStay DEF Usable
<1> QED BY <1>5, <1>6

\* The first rename moves the draft in the place of an empty ledger.
LEMMA CommitRename ==
  ASSUME SchemaTyped, InPlace, NEW b \in Boots, stage[b] = "commit", Proceed(b, "create"), TxCommit(b),
         renames = 0, ~boot[b].destRows
  PROVE  InPlace'
<1>1. UNCHANGED <<boot, written>> /\ Released(b)
  BY DEF TxCommit
<1>2. Before(b) /\ Shaped /\ Locked
  BY DEF InPlace
<1>3. /\ draft_store_budget_present /\ ~ledger_has_rows("final")
      /\ ~store_budget_ready \/ ledger_has_rows("draft")
      /\ boot[b].drop = {k \in Kinds : relation_exists("final", k)}
      /\ boot[b].move = {k \in Kinds : relation_exists("draft", k)}
  BY <1>2 DEF Before, Deciding, Holding, Doomed
<1>4. "budget" \in boot[b].move
  BY <1>3 DEF draft_store_budget_present, Kinds
<1>5. renames' = 1
  BY <1>4 DEF TxCommit
<1>6. \A k \in Kinds :
        /\ tables'["final"][k] = IF relation_exists("draft", k) THEN tables["draft"][k]
                                 ELSE IF relation_exists("final", k) THEN NoTable ELSE tables["final"][k]
        /\ tables'["draft"][k] = IF relation_exists("draft", k) THEN NoTable ELSE tables["draft"][k]
  <2>1. tables' = [tables EXCEPT
         !["final"] = [k \in Kinds |-> IF k \in boot[b].move THEN tables["draft"][k]
                                       ELSE IF k \in boot[b].drop THEN NoTable ELSE @[k]],
         !["draft"] = [k \in Kinds |-> IF k \in boot[b].move THEN NoTable ELSE @[k]]]
    BY DEF TxCommit
  <2>2. \A k \in Kinds :
        /\ tables'["final"][k] = IF k \in boot[b].move THEN tables["draft"][k]
                                 ELSE IF k \in boot[b].drop THEN NoTable ELSE tables["final"][k]
        /\ tables'["draft"][k] = IF k \in boot[b].move THEN NoTable ELSE tables["draft"][k]
    BY <2>1 DEF SchemaTyped, Sides
  <2> QED BY <2>2, <1>3
<1>7. NoTable.is = FALSE /\ NoTable.rows = {}
  BY DEF NoTable
<1>8. \A k \in Kinds : /\ ~tables["draft"][k].is => tables["draft"][k].rows = {}
                       /\ tables["final"][k].rows = {}
  BY <1>2, <1>3 DEF Shaped, Sides, relation_exists, relation_has_rows, ledger_has_rows
<1>9. \A k \in Kinds : /\ relation_exists("final", k)' <=> relation_exists("draft", k)
                       /\ tables'["final"][k].rows = tables["draft"][k].rows
                       /\ ~relation_exists("draft", k)'
                       /\ tables'["draft"][k].rows = {}
  <2> SUFFICES ASSUME NEW k \in Kinds
               PROVE  /\ tables'["final"][k].is <=> tables["draft"][k].is
                      /\ tables'["final"][k].rows = tables["draft"][k].rows
                      /\ ~tables'["draft"][k].is
                      /\ tables'["draft"][k].rows = {}
    BY DEF relation_exists
  <2>1. CASE tables["draft"][k].is
    BY <2>1, <1>6, <1>7 DEF relation_exists
  <2>2. CASE ~tables["draft"][k].is /\ tables["final"][k].is
    BY <2>2, <1>6, <1>7, <1>8 DEF relation_exists
  <2>3. CASE ~tables["draft"][k].is /\ ~tables["final"][k].is
    BY <2>3, <1>6, <1>7, <1>8 DEF relation_exists
  <2> QED BY <2>1, <2>2, <2>3
<1>10. Kept' = Kept
  BY <1>8, <1>9 DEF Kept, Sides, Kinds
<1>11. Shaped'
  <2>1. \A k \in Kinds : /\ relation_has_rows("final", k)' <=> relation_has_rows("draft", k)
                         /\ ~relation_has_rows("draft", k)'
    BY <1>9 DEF relation_has_rows
  <2>2. ~tables["draft"]["budget"].old
    BY <1>3 DEF draft_store_budget_present
  <2> QED BY <2>1, <2>2, <1>1, <1>2, <1>5, <1>9, <1>10 DEF Shaped, Sides, Kinds
<1>12. Solid("final")' <=> Solid("draft")
  BY <1>9 DEF Solid, relation_has_rows, Kinds
<1>13. store_budget_ready' \/ Solid("final")'
  BY <1>2, <1>3, <1>9, <1>12 DEF Shaped, store_budget_ready, draft_store_budget_present, Solid
<1>14. /\ stage' = [stage EXCEPT ![b] = "create"] /\ stage'[b] = "create"
       /\ \A c \in Boots \ {b} : stage'[c] = stage[c]
  BY DEF Proceed, SchemaTyped
<1>15. Locked'
  BY <1>1, <1>14, ReleasedLocks DEF InPlace, Holding
<1>16. ASSUME NEW c \in Boots \ {b}
       PROVE  Behind(c)' /\ stage'[c] \notin Usable
  <2>1. Before(c)
    BY DEF InPlace
  <2>2. ~(boot[c].renames = renames')
    BY <1>5 DEF SchemaTyped, BootRecord
  <2>3. boot[c].complete /\ stage[c] = "check" => Solid("final")'
    <3> SUFFICES ASSUME boot[c].complete, stage[c] = "check"
                 PROVE  Solid("draft")
      BY <1>12
    <3>1. ledger_has_rows("draft")
      BY <2>1 DEF Before, Deciding
    <3> QED BY <3>1, <1>2, <1>3, RowsAreSolid
  <2>4. boot[c].complete /\ stage[c] = "drop" => boot[c].destRows
    <3> SUFFICES ASSUME boot[c].complete, stage[c] = "drop"
                 PROVE  FALSE
      OBVIOUS
    <3>1. store_budget_ready
      BY <2>1 DEF Before, Deciding, Holding
    <3>2. relation_exists("final", "budget") /\ "budget" \in Kinds
      BY <3>1 DEF store_budget_ready, Kinds
    <3>3. c \in share["final"]["budget"]
      BY <2>1, <3>2 DEF Before
    <3>4. excl["final"]["budget"] = b
      BY <1>2, <1>3, <3>2 DEF Locked
    <3> QED BY <1>2, <3>2, <3>3, <3>4 DEF Locked
  <2>5. stage[c] \in {"rename", "commit"} => boot[c].drop = {}
    <3> SUFFICES ASSUME stage[c] \in {"rename", "commit"}, NEW k \in boot[c].drop
                 PROVE  FALSE
      OBVIOUS
    <3>1. k \in Kinds /\ relation_exists("final", k)
      BY <2>1 DEF Before, Doomed
    <3>2. excl["final"][k] = b /\ excl["final"][k] = c
      BY <1>2, <1>3, <3>1 DEF Locked
    <3> QED BY <3>2
  <2>6. stage[c] = "commit" => boot[c].move = {}
    <3> SUFFICES ASSUME stage[c] = "commit", NEW k \in boot[c].move
                 PROVE  FALSE
      OBVIOUS
    <3>1. k \in Kinds /\ relation_exists("draft", k)
      BY <2>1 DEF Before
    <3>2. excl["draft"][k] = b /\ excl["draft"][k] = c
      BY <1>2, <1>3, <3>1 DEF Locked
    <3> QED BY <3>2
  <2>7. stage[c] \notin Usable
    <3> SUFFICES ASSUME stage[c] \in Usable
                 PROVE  FALSE
      OBVIOUS
    <3>1. store_budget_ready /\ (Solid("final") \/ ~ledger_has_rows("draft"))
      BY <2>1, <1>3 DEF Before, Placed
    <3> QED BY <3>1, <1>2, <1>3, RowsAreSolid DEF Sides
  <2>8. stage'[c] = stage[c] /\ boot'[c] = boot[c]
    BY <1>1, <1>14
  <2> QED BY ONLY <2>2, <2>3, <2>4, <2>5, <2>6, <2>7, <2>8, <1>9, <1>13 DEF Behind
<1>17. Behind(b)' /\ stage'[b] \notin Usable
  <2>1. ~(boot[b].renames = renames')
    BY <1>5 DEF SchemaTyped, BootRecord
  <2> QED BY <2>1, <1>1, <1>9, <1>13, <1>14 DEF Behind, Usable
<1> QED BY <1>5, <1>11, <1>15, <1>16, <1>17 DEF InPlace

\* A commit renames the draft once, or changes nothing.
LEMMA CommitKeeps ==
  ASSUME SchemaTyped, InPlace, NEW b \in Boots, stage[b] = "commit", Proceed(b, "create"), TxCommit(b)
  PROVE  InPlace'
<1>1. CASE renames = 0 /\ ~boot[b].destRows
  BY <1>1, CommitRename
<1>2. CASE renames = 0 /\ boot[b].destRows
  <2>1. boot[b].drop = {} /\ boot[b].move = {}
    BY <1>2 DEF InPlace, Before, Doomed
  <2> QED BY <2>1, CommitNothing
<1>3. CASE renames # 0
  <2>1. boot[b].drop = {} /\ boot[b].move = {}
    BY <1>3 DEF InPlace, Behind
  <2> QED BY <2>1, CommitNothing
<1> QED BY <1>1, <1>2, <1>3

-----------------------------------------------------------------------------
(* A step, by what it does to the schema *)

\* The steps of a boot that leave the Store alone.
Quiet(b) ==
  \/ LoadConfig(b) \/ BuildUsage(b) \/ OpenStore(b) \/ Decide(b) \/ Seed(b)
  \/ StartCatalogue(b) \/ BuildSnapshot(b)
  \/ SchemaStep(b, "probe", IF probe_schema THEN "sweep" ELSE "failed") /\ UNCHANGED schemaVars

\* Those that look at it or change it.
Migrates(b) ==
  \/ stage[b] = "ready" /\ Proceed(b, "rows") /\ LookReady(b)
  \/ stage[b] = "rows" /\ Proceed(b, "decide") /\ LookRows(b)
  \/ stage[b] = "check" /\ Proceed(b, "drop") /\ TxCheck(b)
  \/ stage[b] = "drop" /\ Proceed(b, "rename") /\ TxDrop(b)
  \/ stage[b] = "rename" /\ Proceed(b, "commit") /\ TxRename(b)
  \/ stage[b] = "commit" /\ Proceed(b, "create") /\ TxCommit(b)
  \/ stage[b] = "create" /\ Proceed(b, "probe") /\ CreateTables(b, Storage.create)
  \/ probe_schema /\ stage[b] = "sweep" /\ Proceed(b, "seed") /\ Sweep(b)

\* Every step is of one of these, or leaves the schema and the stages.
LEMMA Steps ==
  ASSUME BootNext \/ UNCHANGED processVars
  PROVE  /\ scenario' = scenario
         /\ \/ req' = req /\ \E b \in Boots : Quiet(b) \/ Migrates(b) \/ BootFails(b)
            \/ UNCHANGED <<schemaVars, stage>>
            \/ \E r \in Calls : Settle(r) /\ OnPostgres /\ ChargeRow /\ stage' = stage
<1>1. ASSUME NEW b \in Boots,
             LoadConfig(b) \/ BuildUsage(b) \/ OpenStore(b) \/ Seed(b)
               \/ StartCatalogue(b) \/ BuildSnapshot(b) \/ BootFails(b)
      PROVE  scenario' = scenario /\ req' = req /\ (Quiet(b) \/ BootFails(b))
  BY <1>1 DEF LoadConfig, BuildUsage, OpenStore, Seed, StartCatalogue, BuildSnapshot, BootFails, Quiet
<1>2. ASSUME NEW b \in Boots, MigrateStore(b)
      PROVE  scenario' = scenario /\ req' = req /\ (Quiet(b) \/ Migrates(b))
  BY <1>2, Zenon DEF MigrateStore, SchemaStep, Decide, Quiet, Migrates
<1>3. ASSUME NEW r \in Calls, NEW now, Moved(r, now)
      PROVE  scenario' = scenario /\ UNCHANGED <<schemaVars, stage>>
  BY <1>3 DEF Moved
<1>4. ASSUME NEW r \in Calls, Authenticate(r) \/ Gated(r) \/ Dispatched(r)
      PROVE  scenario' = scenario /\ UNCHANGED <<schemaVars, stage>>
  BY <1>3, <1>4, Zenon DEF Authenticate, Gated, Dispatched, Ends
<1>5. ASSUME NEW r \in Calls, Settle(r)
      PROVE  /\ scenario' = scenario
             /\ \/ UNCHANGED <<schemaVars, stage>>
                \/ OnPostgres /\ ChargeRow /\ stage' = stage
  BY <1>5, Zenon DEF Settle, OnPostgres
<1>6. ASSUME NEW prices, Import(prices)
      PROVE  scenario' = scenario /\ UNCHANGED <<schemaVars, stage>>
  BY <1>6 DEF Import
<1>7. ASSUME NEW ns, NEW block, Edit(ns, block) \/ Delete(ns)
      PROVE  scenario' = scenario /\ UNCHANGED <<schemaVars, stage>>
  BY <1>7 DEF Edit, Delete
<1>8. CASE UNCHANGED processVars
  BY <1>8 DEF processVars, bootVars
<1>9. CASE BootNext
  <2>1. CASE \E b \in Boots : LoadConfig(b) \/ BuildUsage(b) \/ OpenStore(b) \/ MigrateStore(b) \/ Seed(b)
               \/ StartCatalogue(b) \/ BuildSnapshot(b) \/ BootFails(b)
    BY <2>1, <1>1, <1>2, Zenon
  <2>2. CASE \E r \in Calls : Authenticate(r) \/ Gated(r) \/ Dispatched(r) \/ Settle(r)
    BY <2>2, <1>4, <1>5, Zenon
  <2>3. CASE \E prices \in scenario.imports : Import(prices)
    BY <2>3, <1>6, Zenon
  <2>4. CASE \E ns \in {Body[r].ns : r \in scenario.requests} :
               (\E block \in scenario.editions : Edit(ns, block)) \/ Delete(ns)
    BY <2>4, <1>7, Zenon
  <2> QED BY <1>9, <2>1, <2>2, <2>3, <2>4, Zenon DEF BootNext
<1> QED BY <1>8, <1>9

\* Where the quiet steps lead, and what they found.
QuietMove(b, l) ==
  \/ stage[b] = "load" /\ (l = "failed" \/ (l = "usage" /\ Valid(Loaded)))
  \/ stage[b] = "usage" /\ (l = "failed" \/ (l = "open" /\ build_runtime))
  \/ stage[b] = "open" /\ \/ l = "failed"
                          \/ l = "seed" /\ Storage.backend = "sqlite"
                          \/ l = "ready" /\ Storage.backend # "sqlite" /\ draft_store_budget_present
                          \/ l = "create" /\ Storage.backend # "sqlite" /\ ~draft_store_budget_present
  \/ stage[b] = "decide" /\ l \in {"failed", "check", "create"} /\ Decide(b)
  \/ stage[b] = "probe" /\ (l = "failed" \/ (l = "sweep" /\ store_budget_ready))
  \/ stage[b] = "seed" /\ l = "catalogue"
  \/ stage[b] = "catalogue" /\ l \in {"failed", "snapshot"}
  \/ stage[b] = "snapshot" /\ (l = "failed" \/ (l = "serving" /\ Built(Build(File, Env))))

\* ... and they lead nowhere else.
LEMMA QuietMoves ==
  ASSUME NEW b \in Boots, Quiet(b)
  PROVE  UNCHANGED schemaVars /\ \E l : stage' = [stage EXCEPT ![b] = l] /\ QuietMove(b, l)
<1>1. CASE LoadConfig(b)
  <2>1. PICK l : l = (IF Valid(Loaded) THEN "usage" ELSE "failed") /\ stage' = [stage EXCEPT ![b] = l]
    BY <1>1 DEF LoadConfig, Proceed
  <2>2. QuietMove(b, l)
    BY <1>1, <2>1, Zenon DEF LoadConfig, QuietMove
  <2> QED BY <1>1, <2>1, <2>2 DEF LoadConfig
<1>2. CASE BuildUsage(b)
  <2>1. PICK l : l = (IF build_runtime THEN "open" ELSE "failed") /\ stage' = [stage EXCEPT ![b] = l]
    BY <1>2 DEF BuildUsage, Proceed
  <2>2. QuietMove(b, l)
    BY <1>2, <2>1, Zenon DEF BuildUsage, QuietMove
  <2> QED BY <1>2, <2>1, <2>2 DEF BuildUsage
<1>3. CASE OpenStore(b)
  <2>1. PICK l : /\ l = IF Storage.backend = "sqlite" THEN "seed"
                        ELSE IF ~Given(Env[Storage.dsn]) THEN "failed"
                        ELSE IF draft_store_budget_present THEN "ready" ELSE "create"
                 /\ stage' = [stage EXCEPT ![b] = l]
    BY <1>3 DEF OpenStore, Proceed
  <2>2. QuietMove(b, l)
    BY <1>3, <2>1, Zenon DEF OpenStore, QuietMove
  <2> QED BY <1>3, <2>1, <2>2 DEF OpenStore
<1>4. CASE Decide(b)
  <2>1. PICK l : /\ l = IF PartialDest(b) THEN "failed" ELSE IF ShouldRename(b) THEN "check" ELSE "create"
                 /\ stage' = [stage EXCEPT ![b] = l]
    BY <1>4 DEF Decide, SchemaStep, Proceed
  <2>2. l \in {"failed", "check", "create"} /\ stage[b] = "decide"
    BY <1>4, <2>1 DEF Decide, SchemaStep
  <2>3. QuietMove(b, l)
    BY <1>4, <2>2, Zenon DEF QuietMove
  <2> QED BY <1>4, <2>1, <2>3 DEF Decide
<1>5. CASE Seed(b)
  BY <1>5 DEF Seed, Proceed, QuietMove
<1>6. CASE StartCatalogue(b)
  <2>1. \E l \in {"failed", "snapshot"} : stage' = [stage EXCEPT ![b] = l]
    BY <1>6 DEF StartCatalogue, Proceed
  <2> QED BY <1>6, <2>1 DEF StartCatalogue, QuietMove
<1>7. CASE BuildSnapshot(b)
  <2>1. PICK l : /\ l = (IF Built(Build(File, Env)) THEN "serving" ELSE "failed")
                 /\ stage' = [stage EXCEPT ![b] = l]
    BY <1>7 DEF BuildSnapshot, Proceed
  <2>2. QuietMove(b, l)
    BY <1>7, <2>1, Zenon DEF BuildSnapshot, QuietMove
  <2> QED BY <1>7, <2>1, <2>2 DEF BuildSnapshot
<1>8. CASE SchemaStep(b, "probe", IF probe_schema THEN "sweep" ELSE "failed") /\ UNCHANGED schemaVars
  <2>1. PICK l : /\ l = (IF probe_schema THEN "sweep" ELSE "failed")
                 /\ stage' = [stage EXCEPT ![b] = l]
    BY <1>8 DEF SchemaStep, Proceed
  <2>2. QuietMove(b, l)
    BY <1>8, <2>1, Zenon DEF SchemaStep, QuietMove, probe_schema
  <2> QED BY <1>8, <2>1, <2>2
<1> QED BY <1>1, <1>2, <1>3, <1>4, <1>5, <1>6, <1>7, <1>8, Zenon DEF Quiet

\* A quiet step of a boot in place leaves it in place.
LEMMA QuietKeeps ==
  ASSUME SchemaTyped, InPlace, OnPostgres, NEW b \in Boots, Quiet(b)
  PROVE  InPlace'
<1>1. PICK l : stage' = [stage EXCEPT ![b] = l] /\ QuietMove(b, l)
  BY QuietMoves
<1>2. UNCHANGED schemaVars
  BY QuietMoves
<1>3. CASE stage[b] = "decide"
  <2>1. Decide(b)
    BY <1>1, <1>3 DEF QuietMove
  <2> QED BY <2>1, DecideKeeps
<1>4. CASE stage[b] # "decide"
  <2>1. stage[b] \notin Holding /\ l \notin Holding
    BY <1>1, <1>4 DEF QuietMove, Holding
  <2>2. l \in Usable => store_budget_ready
    <3>1. stage[b] \in Usable => store_budget_ready
      BY DEF InPlace
    <3> QED BY <3>1, <1>1, <1>4 DEF QuietMove, Usable, OnPostgres
  <2>3. stage'[b] = l /\ boot' = boot /\ tables' = tables /\ renames' = renames /\ share' = share
    BY <1>1, <1>2 DEF SchemaTyped, schemaVars
  <2>4. CASE renames = 0
    <3>1. Before(b)
      BY <2>4 DEF InPlace
    <3>2. /\ store_budget_ready' <=> store_budget_ready
          /\ draft_store_budget_present' <=> draft_store_budget_present
          /\ Solid("final")' <=> Solid("final")
          /\ ledger_has_rows("draft")' <=> ledger_has_rows("draft")
      BY <2>3, SameAnswers DEF Sides
    <3>3. \/ l = "ready" /\ draft_store_budget_present
          \/ l = "create" /\ ~draft_store_budget_present
          \/ l \in Placed /\ stage[b] \in Placed
          \/ l \notin Placed \cup Deciding
      BY <1>1, <1>4 DEF QuietMove, Placed, Usable, Deciding, Looking, Holding, OnPostgres
    <3>4. Before(b)'
      BY ONLY <3>1, <3>2, <3>3, <2>3 DEF Before, Placed, Usable, Deciding, Looking, Holding
    <3> QED BY <1>1, <1>2, <2>1, <2>2, <2>4, <3>4, QuietInPlace
  <2>5. CASE renames # 0
    <3>1. Behind(b)
      BY <2>5 DEF InPlace
    <3>2. l \notin {"rows", "decide", "check", "drop", "rename", "commit"}
      BY <1>1, <1>4 DEF QuietMove
    <3>3. Behind(b)'
      BY <3>1, <3>2, <2>3, SameAnswers DEF Behind, Holding, Sides
    <3> QED BY <1>1, <1>2, <2>1, <2>2, <2>5, <3>3, QuietInPlace
  <2> QED BY <2>4, <2>5
<1> QED BY <1>3, <1>4

-----------------------------------------------------------------------------
(* The step of the whole *)

\* Each step of a boot moves one stage on; none leads back before the drop.
Unsure == Early \cup Looking \cup {"check", "drop"}

\* Every step of a boot is along that order.
LEMMA BootMoves ==
  ASSUME SchemaTyped, NEW b \in Boots, Quiet(b) \/ Migrates(b) \/ BootFails(b)
  PROVE  \E l \in Stages : /\ stage' = [stage EXCEPT ![b] = l]
                           /\ l \in Unsure => stage[b] \in Unsure /\ stage[b] # "drop"
                           /\ stage[b] # "serving"
<1> USE DEF Stages, Unsure, Early, Looking, Deciding, Holding, Placed, Usable
<1>1. CASE Quiet(b)
  <2>1. PICK l : stage' = [stage EXCEPT ![b] = l] /\ QuietMove(b, l)
    BY <1>1, QuietMoves
  <2> QED BY <2>1 DEF QuietMove
<1>2. CASE Migrates(b)
  <2>1. \/ stage[b] = "ready" /\ Proceed(b, "rows")
        \/ stage[b] = "rows" /\ Proceed(b, "decide")
        \/ stage[b] = "check" /\ Proceed(b, "drop")
        \/ stage[b] = "drop" /\ Proceed(b, "rename")
        \/ stage[b] = "rename" /\ Proceed(b, "commit")
        \/ stage[b] = "commit" /\ Proceed(b, "create")
        \/ stage[b] = "create" /\ Proceed(b, "probe")
        \/ stage[b] = "sweep" /\ Proceed(b, "seed")
    BY <1>2, Zenon DEF Migrates
  <2> QED BY <2>1 DEF Proceed
<1>3. CASE BootFails(b)
  BY <1>3 DEF BootFails, Proceed
<1> QED BY <1>1, <1>2, <1>3

\* What a boot knows of having been overtaken stays, and starts at the drop.
LEMMA OvertakenStays ==
  ASSUME SchemaTyped, NEW b \in Boots, Quiet(b) \/ Migrates(b) \/ BootFails(b)
  PROVE  \A c \in Boots : /\ boot[c].overtaken => boot'[c].overtaken
                          /\ boot'[c].overtaken => boot[c].overtaken \/ (c = b /\ stage[b] = "drop")
<1>1. CASE Quiet(b) \/ BootFails(b)
  <2>1. boot' = boot
    BY <1>1, QuietMoves DEF BootFails, TxAbort, schemaVars
  <2> QED BY <2>1
<1>2. CASE Migrates(b)
  <2>1. CASE LookReady(b)
    <3>1. PICK v \in BOOLEAN : boot' = [boot EXCEPT ![b].complete = v, ![b].renames = renames]
      BY <2>1, Looks
    <3> QED BY <3>1 DEF SchemaTyped, BootRecord
  <2>2. CASE LookRows(b) \/ TxCheck(b)
    <3>1. PICK v \in BOOLEAN : boot' = [boot EXCEPT ![b].destRows = v]
      BY <2>2, Looks
    <3> QED BY <3>1 DEF SchemaTyped, BootRecord
  <2>3. CASE stage[b] = "drop" /\ TxDrop(b)
    <3>1. PICK v \in BOOLEAN, D \in SUBSET Kinds :
            /\ v <=> (Doomed(b) # {} /\ ~boot[b].complete /\ renames > boot[b].renames)
            /\ D = Doomed(b)
            /\ boot' = [boot EXCEPT ![b].drop = D, ![b].overtaken = v]
      BY <2>3, Looks
    <3>2. \A c \in Boots \ {b} : boot'[c] = boot[c]
      BY <3>1 DEF SchemaTyped
    <3>3. ~boot[b].overtaken
      BY <2>3 DEF SchemaTyped
    <3> QED BY <2>3, <3>2, <3>3
  <2>4. CASE TxRename(b)
    <3>1. boot' = [boot EXCEPT ![b].move = Movable(b)]
      BY <2>4 DEF TxRename
    <3> QED BY <3>1 DEF SchemaTyped, BootRecord
  <2>5. CASE TxCommit(b) \/ CreateTables(b, Storage.create) \/ Sweep(b)
    <3>1. boot' = boot
      BY <2>5 DEF TxCommit, CreateTables, Sweep
    <3> QED BY <3>1
  <2> QED BY <1>2, <2>1, <2>2, <2>3, <2>4, <2>5, Zenon DEF Migrates
<1> QED BY <1>1, <1>2

\* Every step keeps the types.
LEMMA TypedStep ==
  ASSUME SchemaTyped, BootNext \/ UNCHANGED processVars
  PROVE  SchemaTyped'
<1>1. CASE UNCHANGED <<schemaVars, stage>>
  BY <1>1 DEF SchemaTyped, schemaVars
<1>2. CASE ChargeRow /\ stage' = stage
  <2>1. tables' \in [Sides -> [Kinds -> TableRecord]] /\ written' \in SUBSET Origins
    BY <1>2 DEF ChargeRow, SchemaTyped, TableRecord, Origins, Sides, Kinds
  <2> QED BY <1>2, <2>1 DEF ChargeRow, SchemaTyped
<1>3. ASSUME NEW b \in Boots, Quiet(b) \/ Migrates(b) \/ BootFails(b)
      PROVE  SchemaTyped'
  <2>1. PICK l \in Stages : /\ stage' = [stage EXCEPT ![b] = l]
                            /\ l \in Unsure => stage[b] \in Unsure /\ stage[b] # "drop"
    BY <1>3, BootMoves
  <2>2. stage' \in [Boots -> Stages]
    BY <2>1 DEF SchemaTyped
  <2>3. /\ tables' \in [Sides -> [Kinds -> TableRecord]]
        /\ share' \in [Sides -> [Kinds -> SUBSET Boots]]
        /\ excl' \in [Sides -> [Kinds -> Boots \cup {NoBoot}]]
        /\ boot' \in [Boots -> BootRecord]
        /\ written' \in SUBSET Origins /\ renames' \in Nat
        /\ \A c \in Boots : boot'[c].renames <= renames'
    <3>1. CASE Quiet(b)
      <4>1. UNCHANGED schemaVars
        BY <3>1, QuietMoves
      <4> QED BY <4>1 DEF SchemaTyped, schemaVars
    <3>2. CASE Migrates(b) \/ BootFails(b)
      <4>1. MigrateSteps(b)
        BY <3>2, Zenon DEF Migrates, BootFails, MigrateSteps
      <4> QED BY <4>1, TypedSchemaSteps
    <3> QED BY <1>3, <3>1, <3>2
  <2>4. ASSUME NEW c \in Boots, stage'[c] \in Unsure
        PROVE  ~boot'[c].overtaken
    <3>1. stage[c] \in Unsure /\ (c = b => stage[b] # "drop")
      BY <2>1, <2>4 DEF SchemaTyped
    <3>2. ~boot[c].overtaken
      BY <3>1 DEF SchemaTyped, Unsure
    <3> QED BY <1>3, <3>1, <3>2, OvertakenStays
  <2> QED BY <2>2, <2>3, <2>4 DEF SchemaTyped, Unsure
<1> QED BY <1>1, <1>2, <1>3, Steps

\* Whoever serves goes on serving.
LEMMA ServingStays ==
  ASSUME SchemaTyped, BootNext \/ UNCHANGED processVars
  PROVE  Serving \subseteq Serving'
<1>1. CASE stage' = stage
  BY <1>1 DEF Serving
<1>2. ASSUME NEW b \in Boots, Quiet(b) \/ Migrates(b) \/ BootFails(b)
      PROVE  Serving \subseteq Serving'
  <2>1. PICK l \in Stages : stage' = [stage EXCEPT ![b] = l] /\ stage[b] # "serving"
    BY <1>2, BootMoves
  <2> QED BY <2>1 DEF Serving, SchemaTyped
<1> QED BY <1>1, <1>2, Steps

\* A boot moves on with what it checked.
LEMMA ReachedStep ==
  ASSUME SchemaTyped, Reached, BootNext \/ UNCHANGED processVars
  PROVE  Reached'
<1>1. scenario' = scenario
  BY Steps
<1>2. /\ Valid(Loaded)' <=> Valid(Loaded)
      /\ build_runtime' <=> build_runtime
      /\ Built(Build(File, Env))' <=> Built(Build(File, Env))
  <2>1. Loaded' = Loaded /\ File' = File /\ Env' = Env
    BY <1>1 DEF Loaded, File, Env
  <2>2. build_runtime' <=> build_runtime
    BY <1>1 DEF build_runtime, Loaded, File, Env, Buffering, SinkBuilds, SinkTable
  <2> QED BY <2>1, <2>2
<1>3. ASSUME \A b \in Boots :
               \/ stage'[b] = stage[b]
               \/ stage'[b] = "failed"
               \/ stage[b] \notin {"absent", "load", "failed", "usage"} /\ stage'[b] # "serving"
               \/ stage'[b] = "usage" /\ Valid(Loaded)
               \/ stage[b] = "usage" /\ stage'[b] # "serving" /\ build_runtime
               \/ stage[b] = "snapshot" /\ Built(Build(File, Env))
      PROVE  Reached'
  BY ONLY <1>1, <1>2, <1>3, Reached DEF Reached
<1>4. CASE stage' = stage
  BY <1>3, <1>4
<1>5. ASSUME NEW b \in Boots, Quiet(b)
      PROVE  Reached'
  <2>1. PICK l : stage' = [stage EXCEPT ![b] = l] /\ QuietMove(b, l)
    BY <1>5, QuietMoves
  <2>2. stage'[b] = l /\ \A c \in Boots \ {b} : stage'[c] = stage[c]
    BY <2>1 DEF SchemaTyped
  <2>3. \/ l = "failed"
        \/ stage[b] \notin {"absent", "load", "failed", "usage"} /\ l # "serving"
        \/ l = "usage" /\ Valid(Loaded)
        \/ stage[b] = "usage" /\ l # "serving" /\ build_runtime
        \/ stage[b] = "snapshot" /\ Built(Build(File, Env))
    BY <2>1 DEF QuietMove
  <2> QED BY <2>2, <2>3, <1>3
<1>6. ASSUME NEW b \in Boots, Migrates(b) \/ BootFails(b)
      PROVE  Reached'
  <2>1. \/ stage[b] = "ready" /\ Proceed(b, "rows")
        \/ stage[b] = "rows" /\ Proceed(b, "decide")
        \/ stage[b] = "check" /\ Proceed(b, "drop")
        \/ stage[b] = "drop" /\ Proceed(b, "rename")
        \/ stage[b] = "rename" /\ Proceed(b, "commit")
        \/ stage[b] = "commit" /\ Proceed(b, "create")
        \/ stage[b] = "create" /\ Proceed(b, "probe")
        \/ stage[b] = "sweep" /\ Proceed(b, "seed")
        \/ Proceed(b, "failed")
    BY <1>6, Zenon DEF Migrates, BootFails
  <2>2. \A c \in Boots \ {b} : stage'[c] = stage[c]
    BY <2>1 DEF SchemaTyped, Proceed
  <2>3. \/ stage'[b] = "failed"
        \/ stage[b] \notin {"absent", "load", "failed", "usage"} /\ stage'[b] # "serving"
    BY <2>1 DEF SchemaTyped, Proceed
  <2> QED BY <2>2, <2>3, <1>3
<1> QED BY <1>4, <1>5, <1>6, Steps

\* Every step of the migration, the boots around it and the charges.
LEMMA MigrationStep ==
  ASSUME MigrationInv, Reached, CarriedInv, BootNext \/ UNCHANGED processVars
  PROVE  MigrationInv'
<1>1. SchemaTyped /\ SchemaTyped'
  BY TypedStep DEF MigrationInv
<1>2. OnPostgres' <=> OnPostgres
  BY Steps DEF OnPostgres, Storage, File
<1>3. ASSUME Overtaken
      PROVE  Overtaken'
  <2>1. CASE UNCHANGED <<schemaVars, stage>>
    BY <1>3, <2>1 DEF Overtaken, schemaVars
  <2>2. CASE ChargeRow
    BY <1>3, <2>2 DEF Overtaken, ChargeRow
  <2>3. ASSUME NEW b \in Boots, Quiet(b) \/ Migrates(b) \/ BootFails(b)
        PROVE  Overtaken'
    BY <1>1, <1>3, <2>3, OvertakenStays DEF Overtaken
  <2> QED BY <2>1, <2>2, <2>3, Steps
<1>4. ASSUME OnPostgres, InPlace
      PROVE  Overtaken' \/ InPlace'
  <2>1. CASE UNCHANGED <<schemaVars, stage>>
    <3>1. CASE Boots = {}
      BY <3>1, <2>1, <1>4, SameShape DEF InPlace, Locked, schemaVars
    <3>2. CASE Boots # {}
      <4>1. PICK b \in Boots : TRUE
        BY <3>2
      <4>2. Locked'
        BY <2>1, <1>4 DEF InPlace, Locked, schemaVars
      <4>3. /\ IF renames' = 0 THEN Before(b)' ELSE Behind(b)'
            /\ stage'[b] \in Usable => store_budget_ready'
        BY <2>1, <1>1, <1>4, OthersStay, SameAnswers DEF schemaVars
      <4> QED BY <2>1, <1>1, <1>4, <4>2, <4>3, TablesStay, SameAnswers DEF schemaVars
    <3> QED BY <3>1, <3>2
  <2>2. ASSUME NEW r \in Calls, Settle(r), ChargeRow, stage' = stage
        PROVE  InPlace'
    <3>1. Serving # {}
      BY <2>2 DEF Settle, CarriedInv, Carried
    <3> QED BY <3>1, <2>2, <1>1, <1>4, ChargeKeeps
  <2>3. ASSUME NEW b \in Boots, Quiet(b) \/ Migrates(b) \/ BootFails(b)
        PROVE  Overtaken' \/ InPlace'
    <3>1. CASE Quiet(b)
      BY <3>1, <1>1, <1>4, QuietKeeps
    <3>2. CASE Migrates(b)
      BY <3>2, <1>1, <1>4, LookReadyKeeps, LookRowsKeeps, TxCheckKeeps, TxDropKeeps, TxRenameKeeps,
         CommitKeeps, CreateKeeps, SweepKeeps, Zenon DEF Migrates
    <3>3. CASE BootFails(b)
      BY <3>3, <1>1, <1>4, AbortKeeps DEF BootFails
    <3> QED BY <2>3, <3>1, <3>2, <3>3
  <2> QED BY <2>1, <2>2, <2>3, Steps
<1>5. ASSUME ~OnPostgres
      PROVE  /\ \A b \in Boots : stage'[b] \notin Deciding \cup {"create", "probe", "sweep"}
             /\ written' = written /\ tables' = tables
  <2>1. \A b \in Boots : stage[b] \notin Deciding \cup {"create", "probe", "sweep"}
    BY <1>5 DEF MigrationInv
  <2>2. CASE UNCHANGED <<schemaVars, stage>>
    BY <2>1, <2>2 DEF schemaVars
  <2>3. ASSUME NEW b \in Boots, Quiet(b)
        PROVE  /\ \A c \in Boots : stage'[c] \notin Deciding \cup {"create", "probe", "sweep"}
               /\ written' = written /\ tables' = tables
    <3>1. PICK l : stage' = [stage EXCEPT ![b] = l] /\ QuietMove(b, l)
      BY <2>3, QuietMoves
    <3>2. UNCHANGED schemaVars
      BY <2>3, QuietMoves
    <3>3. Valid(Loaded) => Storage.backend = "sqlite"
      BY <1>5 DEF Valid, Loaded, Load, StorageOK, Storage, OnPostgres
    <3>4. stage[b] = "open" => Storage.backend = "sqlite"
      BY <3>3 DEF Reached
    <3>5. l \notin Deciding \cup {"create", "probe", "sweep"}
      BY <3>1, <3>4, <2>1 DEF QuietMove, Deciding, Looking, Holding
    <3> QED BY <3>1, <3>2, <3>5, <2>1, <1>1 DEF SchemaTyped, schemaVars
  <2>4. ASSUME NEW b \in Boots, Migrates(b)
        PROVE  FALSE
    <3>1. stage[b] \in {"ready", "rows", "check", "drop", "rename", "commit", "create", "sweep"}
      BY <2>4, Zenon DEF Migrates
    <3> QED BY <3>1, <2>1 DEF Deciding, Looking, Holding
  <2>5. ASSUME NEW b \in Boots, BootFails(b)
        PROVE  /\ \A c \in Boots : stage'[c] \notin Deciding \cup {"create", "probe", "sweep"}
               /\ written' = written /\ tables' = tables
    BY <2>1, <2>5, <1>1 DEF BootFails, Proceed, TxAbort, SchemaTyped, Deciding, Looking, Holding
  <2> QED BY <1>5, <2>2, <2>3, <2>4, <2>5, Steps
<1>6. ~OnPostgres => Kept' = Kept
  BY <1>5 DEF Kept
<1> QED BY <1>1, <1>2, <1>3, <1>4, <1>5, <1>6 DEF MigrationInv

-----------------------------------------------------------------------------
(* What a request carries *)

\* The least of some positions is one of them.
LEMMA LeastPosition ==
  ASSUME NEW S \in SUBSET Nat, S # {}
  PROVE  Min(S) \in S /\ \A m \in S : Min(S) <= m
<1> DEFINE R == OpToRel(<, Nat)
<1>1. IsWellFoundedOn(R, Nat)
  BY NatLessThanWellFounded
<1>2. \A x, y \in Nat : <<x, y>> \in R <=> x < y
  BY DEF OpToRel
<1> HIDE DEF R
<1>3. PICK x \in S : \A y \in S : <<y, x>> \notin R
  BY <1>1, WFMin
<1>4. \A y \in S : ~ (y < x)
  BY <1>2, <1>3
<1>5. \A y \in S : x <= y
  BY <1>4
<1> QED BY <1>5 DEF Min

\* The refusals of the gates, one by one, and the ones that tell of the model.
Verdicts == {"request_too_large", "unsupported_media_type", "bad_request", "model_unprefixed",
             "unknown_provider", "model_blocked", "unsupported_wire", "unpriced_model", "too_large"}

\* The refusals that tell of the model, and what it takes for one of them.
OfTheModel == {"unknown_provider", "model_unprefixed", "model_blocked"}
Unfit(w, extra, name) ==
    \/ split_model_id(name) \in OfTheModel
    \/ Target(name).provider \notin Ids(w.providers)
    \/ is_blocked(w, name, Target(name).model, extra)

\* What each refusal says and when it holds.
LEMMA RefusalsAre ==
  ASSUME NEW w, NEW extra, NEW rates, NEW r
  PROVE  /\ DOMAIN Refusals(w, extra, rates, r) = 1..9
         /\ \A i \in 1..9 : Refusals(w, extra, rates, r)[i].is
              => Refusals(w, extra, rates, r)[i].error \in Verdicts
         /\ \A i \in 1..9 : /\ Refusals(w, extra, rates, r)[i].is
                            /\ Refusals(w, extra, rates, r)[i].error \in OfTheModel
              => Unfit(w, extra, r.name)
<1>1. DOMAIN Refusals(w, extra, rates, r) = 1..9
  BY SMT DEF Refusals
<1>2. /\ Refusals(w, extra, rates, r)[1].error = InboundBody(r)
      /\ Refusals(w, extra, rates, r)[1].is <=> InboundBody(r) # "ok"
      /\ Refusals(w, extra, rates, r)[2].error = "bad_request"
      /\ Refusals(w, extra, rates, r)[3].error = "bad_request"
  BY Zenon DEF Refusals
<1>3. /\ Refusals(w, extra, rates, r)[4].error = split_model_id(r.name)
      /\ Refusals(w, extra, rates, r)[4].is <=> split_model_id(r.name) # "ok"
      /\ Refusals(w, extra, rates, r)[5].error = "unknown_provider"
      /\ Refusals(w, extra, rates, r)[5].is <=> ~(Target(r.name).provider \in Ids(w.providers))
  BY Zenon DEF Refusals
<1>4. /\ Refusals(w, extra, rates, r)[6].error = "model_blocked"
      /\ Refusals(w, extra, rates, r)[6].is <=> is_blocked(w, r.name, Target(r.name).model, extra)
      /\ Refusals(w, extra, rates, r)[7].error = "unsupported_wire"
      /\ Refusals(w, extra, rates, r)[8].error = "unpriced_model"
      /\ Refusals(w, extra, rates, r)[9].error = "too_large"
  BY Zenon DEF Refusals
<1>5. /\ InboundBody(r) \in {"request_too_large", "unsupported_media_type", "bad_request", "ok"}
      /\ split_model_id(r.name) \in {"model_unprefixed", "unknown_provider", "bad_request", "ok"}
  BY DEF InboundBody, split_model_id
<1>6. PICK T : T = Refusals(w, extra, rates, r)
  OBVIOUS
<1>7. \A i \in 1..9 : i \in {1, 2, 3, 4, 5, 6, 7, 8, 9}
  OBVIOUS
<1>8. \A i \in 1..9 : T[i].is => T[i].error \in Verdicts
  BY ONLY <1>2, <1>3, <1>4, <1>5, <1>6, <1>7 DEF Verdicts
<1>9. \A i \in 1..9 : T[i].is /\ T[i].error \in OfTheModel => Unfit(w, extra, r.name)
  BY ONLY <1>2, <1>3, <1>4, <1>5, <1>6, <1>7 DEF OfTheModel, Unfit
<1> QED BY ONLY <1>1, <1>6, <1>8, <1>9

\* What the gates answer is the first refusal that holds.
LEMMA GateAnswers ==
  ASSUME NEW w, NEW extra, NEW rates, NEW r, Gate(w, extra, rates, r) # "ok"
  PROVE  /\ Gate(w, extra, rates, r) \in Verdicts
         /\ Gate(w, extra, rates, r) \in OfTheModel => Unfit(w, extra, r.name)
<1>1. PICK T : T = Refusals(w, extra, rates, r)
  OBVIOUS
<1>2. PICK hits : hits = {i \in DOMAIN T : T[i].is}
  OBVIOUS
<1>3. hits # {} /\ Gate(w, extra, rates, r) = T[Min(hits)].error
  BY <1>1, <1>2, Zenon DEF Gate
<1>4. hits \in SUBSET (1..9)
  BY <1>1, <1>2, RefusalsAre
<1>5. Min(hits) \in hits
  BY <1>3, <1>4, LeastPosition
<1> QED BY <1>1, <1>2, <1>3, <1>4, <1>5, RefusalsAre

\* A request that does not move carries what it did.
LEMMA CarriesOn ==
  ASSUME NEW q \in Calls, Carried(q), req'[q] = req[q], scenario' = scenario, Serving \subseteq Serving'
  PROVE  Carried(q)'
<1>1. Pooled(q)' = Pooled(q) /\ Body'[q] = Body[q]
  BY DEF Pooled, File, Body, Asked
<1> QED BY <1>1 DEF Carried

\* Every step of a request copies, and no other changes what is copied.
LEMMA CarriedStep ==
  ASSUME SchemaTyped, CarriedInv, BootNext \/ UNCHANGED processVars
  PROVE  CarriedInv'
<1>1. scenario' = scenario /\ Serving \subseteq Serving'
  BY Steps, ServingStays
<1>2. CASE req' = req
  BY <1>1, <1>2, CarriesOn DEF CarriedInv
<1>3. ASSUME NEW r \in Calls, NEW now, req' = [req EXCEPT ![r] = now],
             DOMAIN now = {"at", "block", "rates", "quote", "pool", "cred", "charged"},
             now.at # "new" => Serving # {},
             now.at \in {"admit", "sent", "done"} => now.rates = now.quote,
             now.at \in {"sent", "done"} =>
               /\ Pooled(r) # NoPool /\ now.pool = Pooled(r).ns
               /\ PinsAffinity(Body[r].route) => now.cred = Min(Pooled(r).creds),
             now.at = "done" => now.charged = now.rates
      PROVE  CarriedInv'
  <2>1. req'[r] = now /\ DOMAIN req' = Calls /\ \A q \in Calls \ {r} : req'[q] = req[q]
    BY <1>3 DEF CarriedInv
  <2>2. \A q \in Calls \ {r} : Carried(q)'
    BY <1>1, <2>1, CarriesOn DEF CarriedInv
  <2>3. Pooled(r)' = Pooled(r) /\ Body'[r] = Body[r]
    BY <1>1 DEF Pooled, File, Body, Asked
  <2>4. Serving # {} => Serving' # {}
    BY <1>1
  <2>5. Carried(r)'
    BY ONLY <1>3, <2>1, <2>3, <2>4 DEF Carried
  <2> QED BY <2>1, <2>2, <2>5 DEF CarriedInv
<1>4. ASSUME NEW r \in Calls, NEW answer, answer \notin {"admit", "sent", "done"}, Serving # {}, Ends(r, answer)
      PROVE  CarriedInv'
  <2>1. PICK now : now = [req[r] EXCEPT !.at = answer] /\ req' = [req EXCEPT ![r] = now]
    BY <1>4 DEF Ends, Moved
  <2>2. Carried(r)
    BY DEF CarriedInv
  <2>3. DOMAIN now = DOMAIN req[r] /\ now.at = answer
    BY <2>1, <2>2 DEF Carried
  <2>4. DOMAIN now = {"at", "block", "rates", "quote", "pool", "cred", "charged"}
    BY <2>2, <2>3 DEF Carried
  <2> QED BY ONLY <1>3, <1>4, <2>1, <2>3, <2>4
<1>5. ASSUME NEW r \in Calls, Authenticate(r)
      PROVE  CarriedInv'
  <2>1. Serving # {} /\ req[r].at = "new"
    BY <1>5, Zenon DEF Authenticate
  <2>2. \/ \E answer \in {"store_unavailable", "unauthorized", "invalid_namespace", "unknown_namespace"} :
             Ends(r, answer)
        \/ Moved(r, [req[r] EXCEPT !.at = "gate", !.block = directory[Body[r].ns]])
    BY <1>5, Zenon DEF Authenticate
  <2>3. CASE Moved(r, [req[r] EXCEPT !.at = "gate", !.block = directory[Body[r].ns]])
    <3>1. PICK now : /\ now = [req[r] EXCEPT !.at = "gate", !.block = directory[Body[r].ns]]
                     /\ req' = [req EXCEPT ![r] = now]
      BY <2>3 DEF Moved
    <3>2. Carried(r)
      BY DEF CarriedInv
    <3>3. DOMAIN now = {"at", "block", "rates", "quote", "pool", "cred", "charged"} /\ now.at = "gate"
      BY <3>1, <3>2 DEF Carried
    <3> QED BY ONLY <1>3, <2>1, <3>1, <3>3, r \in Calls
  <2> QED BY <1>4, <2>1, <2>2, <2>3
<1>6. ASSUME NEW r \in Calls, Gated(r)
      PROVE  CarriedInv'
  <2>1. Carried(r) /\ req[r].at = "gate"
    BY <1>6 DEF CarriedInv, Gated
  <2>2. Serving # {}
    BY <2>1 DEF Carried
  <2>r. PICK rates : rates = Rates(File, catalogue, Body[r])
    OBVIOUS
  <2>v. PICK verdict : verdict = Gate(File, req[r].block, rates, Body[r])
    OBVIOUS
  <2>3. IF verdict # "ok" THEN Ends(r, verdict)
        ELSE Moved(r, [req[r] EXCEPT !.at = "admit", !.rates = rates, !.quote = rates])
    BY <1>6, <2>r, <2>v, Zenon DEF Gated
  <2>4. CASE verdict # "ok"
    <3>1. verdict \in Verdicts
      BY <2>v, <2>4, GateAnswers
    <3>2. verdict \notin {"admit", "sent", "done"}
      BY <3>1 DEF Verdicts
    <3> QED BY <1>4, <2>2, <2>3, <2>4, <3>2
  <2>5. CASE verdict = "ok"
    <3>1. PICK now : /\ now = [req[r] EXCEPT !.at = "admit", !.rates = rates, !.quote = rates]
                     /\ req' = [req EXCEPT ![r] = now]
      BY <2>3, <2>5 DEF Moved
    <3>2. /\ DOMAIN now = {"at", "block", "rates", "quote", "pool", "cred", "charged"}
          /\ now.at = "admit" /\ now.rates = rates /\ now.quote = rates
      BY <3>1, <2>1 DEF Carried
    <3> QED BY ONLY <1>3, <2>2, <3>1, <3>2, r \in Calls
  <2> QED BY <2>4, <2>5
<1>7. ASSUME NEW r \in Calls, Dispatched(r)
      PROVE  CarriedInv'
  <2>1. Carried(r) /\ req[r].at = "admit"
    BY <1>7 DEF CarriedInv, Dispatched
  <2>2. Serving # {} /\ req[r].rates = req[r].quote
    BY <2>1 DEF Carried
  <2>3. \/ Ends(r, "refused") \/ Ends(r, "no_credential")
        \/ \E c \in Pooled(r).creds :
             /\ PinsAffinity(Body[r].route) => c = Min(Pooled(r).creds)
             /\ Moved(r, [req[r] EXCEPT !.at = "sent", !.pool = Pooled(r).ns, !.cred = c])
    BY <1>7, Zenon DEF Dispatched, Pooled
  <2>4. ASSUME NEW c \in Pooled(r).creds, PinsAffinity(Body[r].route) => c = Min(Pooled(r).creds),
               Moved(r, [req[r] EXCEPT !.at = "sent", !.pool = Pooled(r).ns, !.cred = c])
        PROVE  CarriedInv'
    <3>1. PICK now : /\ now = [req[r] EXCEPT !.at = "sent", !.pool = Pooled(r).ns, !.cred = c]
                     /\ req' = [req EXCEPT ![r] = now]
      BY <2>4 DEF Moved
    <3>2. /\ DOMAIN now = {"at", "block", "rates", "quote", "pool", "cred", "charged"}
          /\ now.at = "sent" /\ now.pool = Pooled(r).ns /\ now.cred = c
          /\ now.rates = req[r].rates /\ now.quote = req[r].quote
      BY <3>1, <2>1 DEF Carried
    <3>3. Pooled(r) # NoPool
      <4>1. NoPool.creds = {}
        BY DEF NoPool
      <4> QED BY <2>4, <4>1
    <3> QED BY ONLY <1>3, <2>2, <2>4, <3>1, <3>2, <3>3, r \in Calls
  <2> QED BY <1>4, <2>2, <2>3, <2>4
<1>8. ASSUME NEW r \in Calls, Settle(r)
      PROVE  CarriedInv'
  <2>1. Carried(r) /\ req[r].at = "sent"
    BY <1>8 DEF CarriedInv, Settle
  <2>2. PICK now : /\ now = [req[r] EXCEPT !.at = "done", !.charged = req[r].rates]
                   /\ req' = [req EXCEPT ![r] = now]
    <3>1. req' = [req EXCEPT ![r].at = "done", ![r].charged = req[r].rates]
      BY <1>8 DEF Settle, Charged
    <3> QED BY <3>1, <2>1 DEF CarriedInv, Carried
  <2>3. /\ DOMAIN now = {"at", "block", "rates", "quote", "pool", "cred", "charged"}
        /\ now.at = "done" /\ now.charged = req[r].rates /\ now.rates = req[r].rates
        /\ now.quote = req[r].quote /\ now.pool = req[r].pool /\ now.cred = req[r].cred
    BY <2>2, <2>1 DEF Carried
  <2>4. /\ Serving # {} /\ req[r].rates = req[r].quote
        /\ Pooled(r) # NoPool /\ req[r].pool = Pooled(r).ns
        /\ PinsAffinity(Body[r].route) => req[r].cred = Min(Pooled(r).creds)
    BY <2>1 DEF Carried
  <2> QED BY ONLY <1>3, <2>2, <2>3, <2>4, r \in Calls
<1>9. ASSUME ~(\E r \in Calls : Authenticate(r) \/ Gated(r) \/ Dispatched(r) \/ Settle(r))
      PROVE  req' = req
  <2>1. CASE UNCHANGED processVars
    BY <2>1 DEF processVars, bootVars
  <2>2. CASE \E b \in Boots : LoadConfig(b) \/ BuildUsage(b) \/ OpenStore(b) \/ MigrateStore(b) \/ Seed(b)
               \/ StartCatalogue(b) \/ BuildSnapshot(b) \/ BootFails(b)
    BY <2>2, Zenon DEF LoadConfig, BuildUsage, OpenStore, MigrateStore, Seed, StartCatalogue, BuildSnapshot,
       BootFails, SchemaStep, Decide
  <2>3. CASE \E prices \in scenario.imports : Import(prices)
    BY <2>3 DEF Import
  <2>4. CASE \E ns \in {Body[r].ns : r \in scenario.requests} :
               (\E block \in scenario.editions : Edit(ns, block)) \/ Delete(ns)
    BY <2>4 DEF Edit, Delete
  <2> QED BY <1>9, <2>1, <2>2, <2>3, <2>4, Zenon DEF BootNext
<1> QED BY <1>2, <1>5, <1>6, <1>7, <1>8, <1>9

-----------------------------------------------------------------------------
(* Theorems *)

\* What the boots found, what they did to the tables and what the requests carry.
LEMMA BootInvariant == BootSpec => []BootInv
<1>1. BootInit => BootInv
  <2> SUFFICES ASSUME BootInit
               PROVE  BootInv
    OBVIOUS
  <2>1. Reached
    BY DEF BootInit, Reached
  <2>2. CarriedInv
    BY DEF BootInit, CarriedInv, Carried, NewRequest
  <2> QED BY <2>1, <2>2, InitMigration DEF BootInv
<1>2. BootInv /\ [BootNext]_processVars => BootInv'
  BY MigrationStep, ReachedStep, CarriedStep DEF BootInv, MigrationInv
<1> QED BY <1>1, <1>2, PTL DEF BootSpec

\* Whatever tables a deployment finds and however many replicas boot at once, the
\* spend in them survives the renaming of the draft (store/postgres.rs,
\* ensure_budget_schema), unless a boot was overtaken.
THEOREM SpendSurvivesMigration == BootSpec => []MigrationKeepsSpend
<1>1. BootInv => MigrationKeepsSpend
  <2> SUFFICES ASSUME BootInv, ~Overtaken
               PROVE  /\ written \subseteq Kept
                      /\ ~({"final", "draft"} \subseteq UNION {tables["final"][k].rows : k \in Kinds})
                      /\ Serving # {} /\ OnPostgres => store_budget_ready
    BY DEF MigrationKeepsSpend, OnPostgres
  <2>1. CASE OnPostgres
    <3>1. InPlace
      BY <2>1 DEF BootInv, MigrationInv
    <3>2. \E o \in {"final", "draft"} : UNION {tables["final"][k].rows : k \in Kinds} \subseteq {o, "served"}
      BY <3>1 DEF InPlace, Shaped
    <3>3. Serving # {} => store_budget_ready
      BY <3>1 DEF InPlace, Serving, Usable
    <3> QED BY <3>1, <3>2, <3>3 DEF InPlace, Shaped
  <2>2. CASE ~OnPostgres
    BY <2>2 DEF BootInv, MigrationInv
  <2> QED BY <2>1, <2>2
<1> QED BY <1>1, BootInvariant, PTL

\* A request is sent with the pool resolve_pool gives and charged at the rates of
\* its admission (routes/mod.rs), whatever is imported or edited meanwhile.
THEOREM RequestsServedAsAdmitted == BootSpec => []ServedAsAdmitted
<1>1. BootInv => ServedAsAdmitted
  <2> SUFFICES ASSUME CarriedInv, NEW r \in Calls, req[r].at \in {"sent", "done"}
               PROVE  /\ req[r].pool # Body[r].ns =>
                           /\ req[r].pool = default_namespace(File)
                           /\ \/ Body[r].ns \notin Ids(File.namespaces)
                              \/ Namespace(File, Body[r].ns).fallback
                      /\ req[r].at = "done" => req[r].charged = req[r].quote
                      /\ \A q \in Calls :
                           /\ req[q].at \in {"sent", "done"}
                           /\ PinsAffinity(Body[r].route) /\ PinsAffinity(Body[q].route)
                           /\ Body[q].ns = Body[r].ns /\ Asked(q) = Asked(r)
                           => <<req[q].pool, req[q].cred>> = <<req[r].pool, req[r].cred>>
    BY DEF BootInv, ServedAsAdmitted
  <2>1. \A q \in Calls : Carried(q)
    BY DEF CarriedInv
  <2>2. ASSUME req[r].pool # Body[r].ns
        PROVE  /\ req[r].pool = default_namespace(File)
               /\ \/ Body[r].ns \notin Ids(File.namespaces)
                  \/ Namespace(File, Body[r].ns).fallback
    <3>1. Pooled(r) # NoPool /\ Pooled(r).ns # Body[r].ns /\ req[r].pool = Pooled(r).ns
      BY <2>1, <2>2 DEF Carried
    <3>2. /\ allow_platform_fallback(File, Body[r].ns)
          /\ Pooled(r).ns = default_namespace(File)
      BY <3>1 DEF Pooled, resolve_pool
    <3> QED BY <3>1, <3>2 DEF allow_platform_fallback
  <2>3. req[r].at = "done" => req[r].charged = req[r].quote
    BY <2>1 DEF Carried
  <2>4. ASSUME NEW q \in Calls, req[q].at \in {"sent", "done"},
               PinsAffinity(Body[r].route), PinsAffinity(Body[q].route),
               Body[q].ns = Body[r].ns, Asked(q) = Asked(r)
        PROVE  <<req[q].pool, req[q].cred>> = <<req[r].pool, req[r].cred>>
    <3>1. Pooled(q) = Pooled(r)
      BY <2>4 DEF Pooled
    <3> QED BY <2>1, <2>4, <3>1 DEF Carried
  <2> QED BY <2>2, <2>3, <2>4
<1> QED BY <1>1, BootInvariant, PTL

-----------------------------------------------------------------------------
(* The views *)

\* A resolved pool has credentials and is the namespace's own or the platform's.
LEMMA PoolsResolve ==
  ASSUME NEW w, NEW ns, NEW p
  PROVE  /\ is_present(w, ns, p) <=> resolve_pool(w, ns, p) # NoPool
         /\ HasPool(w, ns, p) => resolve_pool(w, ns, p).ns = ns
         /\ ~HasPool(w, ns, p) /\ resolve_pool(w, ns, p) # NoPool =>
              /\ resolve_pool(w, ns, p).ns = default_namespace(w)
              /\ allow_platform_fallback(w, ns) /\ HasPool(w, default_namespace(w), p)
<1>1. NoPool.creds = {}
  BY DEF NoPool
<1>2. CASE HasPool(w, ns, p)
  <2>1. resolve_pool(w, ns, p) = [ns |-> ns, creds |-> Pool(w, ns, p)]
    BY <1>2 DEF resolve_pool
  <2>2. resolve_pool(w, ns, p).creds # {} /\ resolve_pool(w, ns, p).ns = ns
    BY <1>2, <2>1 DEF HasPool
  <2> QED BY <1>1, <1>2, <2>2 DEF is_present
<1>3. CASE ~HasPool(w, ns, p) /\ allow_platform_fallback(w, ns) /\ HasPool(w, default_namespace(w), p)
  <2>1. resolve_pool(w, ns, p) = [ns |-> default_namespace(w), creds |-> Pool(w, default_namespace(w), p)]
    BY <1>3 DEF resolve_pool
  <2>2. resolve_pool(w, ns, p).creds # {} /\ resolve_pool(w, ns, p).ns = default_namespace(w)
    BY <1>3, <2>1 DEF HasPool
  <2> QED BY <1>1, <1>3, <2>2 DEF is_present
<1>4. CASE ~HasPool(w, ns, p) /\ ~(allow_platform_fallback(w, ns) /\ HasPool(w, default_namespace(w), p))
  <2>1. resolve_pool(w, ns, p) = NoPool
    BY <1>4 DEF resolve_pool
  <2> QED BY <1>4, <2>1 DEF is_present
<1> QED BY <1>2, <1>3, <1>4

\* GET /v1/credentials lists the pools a lease would come from.
LEMMA StatusShowsPools ==
  ASSUME NEW w, NEW ns
  PROVE  status(w, ns) = {<<resolve_pool(w, ns, p).ns, p>> :
                            p \in {p \in Ids(w.providers) : resolve_pool(w, ns, p) # NoPool}}
<1> DEFINE own == {<<ns, p>> : p \in {p \in Ids(w.providers) : HasPool(w, ns, p)}}
           platform == {<<default_namespace(w), p>> : p \in {p \in Ids(w.providers) :
                          HasPool(w, default_namespace(w), p) /\ ~HasPool(w, ns, p)}}
           met == {<<resolve_pool(w, ns, p).ns, p>> :
                     p \in {p \in Ids(w.providers) : resolve_pool(w, ns, p) # NoPool}}
<1>1. status(w, ns) = own \cup (IF allow_platform_fallback(w, ns) THEN platform ELSE {})
  BY DEF status
<1>2. own \subseteq met
  <2> SUFFICES ASSUME NEW p \in Ids(w.providers), HasPool(w, ns, p)
               PROVE  <<ns, p>> \in met
    OBVIOUS
  <2>1. resolve_pool(w, ns, p) # NoPool /\ resolve_pool(w, ns, p).ns = ns
    BY PoolsResolve DEF is_present
  <2> QED BY <2>1
<1>3. allow_platform_fallback(w, ns) => platform \subseteq met
  <2> SUFFICES ASSUME allow_platform_fallback(w, ns), NEW p \in Ids(w.providers),
                      HasPool(w, default_namespace(w), p), ~HasPool(w, ns, p)
               PROVE  <<default_namespace(w), p>> \in met
    OBVIOUS
  <2>1. resolve_pool(w, ns, p) # NoPool /\ resolve_pool(w, ns, p).ns = default_namespace(w)
    BY PoolsResolve DEF is_present
  <2> QED BY <2>1
<1>4. ASSUME NEW p \in Ids(w.providers), resolve_pool(w, ns, p) # NoPool
      PROVE  <<resolve_pool(w, ns, p).ns, p>> \in status(w, ns)
  <2>1. CASE HasPool(w, ns, p)
    <3>1. <<ns, p>> \in own
      BY <2>1
    <3> QED BY <1>1, <2>1, <3>1, PoolsResolve
  <2>2. CASE ~HasPool(w, ns, p)
    <3>1. /\ resolve_pool(w, ns, p).ns = default_namespace(w)
          /\ allow_platform_fallback(w, ns) /\ HasPool(w, default_namespace(w), p)
      BY <1>4, <2>2, PoolsResolve
    <3>2. <<default_namespace(w), p>> \in platform
      BY <2>2, <3>1
    <3> QED BY <1>1, <3>1, <3>2
  <2> QED BY <2>1, <2>2
<1>5. met \subseteq status(w, ns)
  BY <1>4
<1> QED BY <1>1, <1>2, <1>3, <1>5

\* Discovery asks every namespace that may have a credential.
LEMMA DiscoveryFinds ==
  ASSUME NEW w, NEW ns, NEW p, NEW names \in Seq(Text), CredentialsOK(w),
         Ids(w.namespaces) \subseteq Range(names), is_present(w, ns, p)
  PROVE  discovery_leases(w, p, names) # NoPool
<1>1. PICK own : own = resolve_pool(w, default_namespace(w), p)
  OBVIOUS
<1>2. PICK tenants : tenants = {i \in DOMAIN names : HasPool(w, names[i], p)}
  OBVIOUS
<1>3. NoPool.creds = {}
  BY DEF NoPool
<1>4. CASE own # NoPool
  <2>1. discovery_leases(w, p, names) = own
    BY <1>1, <1>4 DEF discovery_leases
  <2> QED BY <1>4, <2>1
<1>5. CASE own = NoPool
  <2>1. ~HasPool(w, default_namespace(w), p)
    BY <1>1, <1>5, PoolsResolve DEF is_present
  <2>2. HasPool(w, ns, p)
    BY <2>1 DEF is_present
  <2>3. PICK i \in DOMAIN w.credentials : w.credentials[i].ns = ns
    BY <2>2 DEF HasPool, Pool
  <2>4. ns \in Range(names)
    BY <2>3 DEF CredentialsOK
  <2>5. PICK j \in DOMAIN names : names[j] = ns
    BY <2>4 DEF Range
  <2>6. tenants # {} /\ tenants \in SUBSET Nat
    BY <1>2, <2>2, <2>5
  <2>7. Min(tenants) \in tenants
    BY <2>6, LeastPosition
  <2>8. PICK first : first = names[Min(tenants)]
    OBVIOUS
  <2>9. Pool(w, first, p) # {}
    BY <1>2, <2>7, <2>8 DEF HasPool
  <2>10. discovery_leases(w, p, names) = [ns |-> first, creds |-> Pool(w, first, p)]
    BY <1>1, <1>2, <1>5, <2>6, <2>8, Zenon DEF discovery_leases
  <2>11. discovery_leases(w, p, names).creds # {}
    BY <2>9, <2>10
  <2> QED BY <1>3, <2>11
<1> QED BY <1>4, <1>5

\* A name is cut where a plain id was joined to it.
LEMMA CutWhereJoined ==
  ASSUME NEW id \in Name, NEW bare \in Name \ {<<>>}, PlainId(id)
  PROVE  /\ Target(id \o bare) = [provider |-> id, model |-> bare]
         /\ split_model_id(id \o bare) \in {"ok", "bad_request"}
<1> DEFINE name == id \o bare
<1>0. Len(bare) # 0
  BY EmptySeq DEF Name
<1>p. Len(id) = 1 /\ id # <<"">> /\ id \in Seq(Text) /\ bare \in Seq(Text)
  BY Zenon DEF PlainId, Name
<1>q. Len(id) = 1 /\ id \in Seq(Text) /\ bare \in Seq(Text)
  BY ONLY <1>p, Zenon
<1>1. /\ name \in Seq(Text) /\ Len(id) = 1 /\ Len(bare) \in Nat \ {0}
      /\ Len(name) = 1 + Len(bare)
  BY ONLY <1>0, <1>q, ConcatProperties
<1>2. Least(1, Len(name)) = 1
  BY <1>1 DEF Least
<1>3. SubSeq(name, 1, 1) = id
  <2>1. DOMAIN SubSeq(name, 1, 1) = 1..1 /\ DOMAIN id = 1..1
    BY <1>1 DEF Name
  <2>2. SubSeq(name, 1, 1)[1] = id[1]
    BY <1>1 DEF Name
  <2>3. SubSeq(name, 1, 1) \in Seq(Text) /\ Len(SubSeq(name, 1, 1)) = 1
    BY <1>1
  <2> QED BY <1>1, <2>1, <2>2, <2>3 DEF Name
<1>4. SubSeq(name, 2, Len(name)) = bare
  <2>1. SubSeq(name, 2, Len(name)) \in Seq(Text) /\ Len(SubSeq(name, 2, Len(name))) = Len(bare)
    BY <1>1
  <2>2. \A i \in 1..Len(bare) : SubSeq(name, 2, Len(name))[i] = bare[i]
    BY <1>1 DEF Name
  <2> QED BY <1>1, <2>1, <2>2, SeqEqual DEF Name
<1>5. Target(name) = [provider |-> id, model |-> bare]
  BY <1>2, <1>3, <1>4 DEF Target
<1>6. split_model_id(name) \in {"ok", "bad_request"}
  <2>1. Target(name).provider = id /\ ~(Len(name) < 2)
    BY ONLY <1>1, <1>5
  <2> HIDE DEF name
  <2> QED BY <1>p, <2>1, Zenon DEF split_model_id
<1> QED BY <1>5, <1>6

\* r asks for a name that is listed under the i-th provider, whose id is plain.
AsksListed(w, cached, extra, i, r) ==
    /\ i \in DOMAIN w.providers /\ w.providers[i].id \in Name /\ PlainId(w.providers[i].id)
    /\ \A p \in DOMAIN cached : cached[p].data \subseteq Name \ {<<>>}
    /\ r.name \in list_models(w, cached, w.providers[i], extra)

\* A listed model passes the gates that ask for it.
LEMMA ListedIsKnown ==
  ASSUME NEW w, NEW cached, NEW extra, NEW i, NEW rates, NEW r, AsksListed(w, cached, extra, i, r)
  PROVE  /\ Target(r.name).provider = w.providers[i].id
         /\ Gate(w, extra, rates, r) \notin OfTheModel
<1> USE DEF AsksListed
<1> DEFINE id == w.providers[i].id
           name == r.name
<1>1. PICK bare \in data_if_source(cached, w.providers[i]) :
        name = id \o bare /\ ~is_blocked(w, id \o bare, bare, extra)
  BY DEF list_models
<1>2. bare \in Name \ {<<>>}
  BY <1>1 DEF data_if_source
<1>3. /\ Target(name) = [provider |-> id, model |-> bare]
      /\ split_model_id(name) \in {"ok", "bad_request"}
  BY <1>1, <1>2, CutWhereJoined
<1>4. id \in Ids(w.providers)
  BY DEF Ids
<1>5. Target(name).provider = id /\ Target(name).model = bare
  BY <1>3
<1> HIDE DEF id
<1>6. ~Unfit(w, extra, name)
  BY <1>1, <1>3, <1>4, <1>5 DEF Unfit, OfTheModel
<1>7. "ok" \notin OfTheModel
  BY DEF OfTheModel
<1> QED BY <1>5, <1>6, <1>7, GateAnswers DEF id

\* What /v1/credentials, /v1/models and discovery show is what a request meets
\* (credentials.rs, routes/mod.rs), for every file that validates and every
\* listing; for a listed name, under every provider whose id has no slash.
THEOREM ReadSurfacesAgree == BootSpec => []ViewsAgree
<1>1. BootInv => ViewsAgree
  <2> SUFFICES ASSUME BootInv, Serving # {}, NEW ns \in DOMAIN directory
               PROVE  /\ status(File, ns) =
                           {<<resolve_pool(File, ns, p).ns, p>> :
                              p \in {p \in Ids(File.providers) : resolve_pool(File, ns, p) # NoPool}}
                      /\ \A p \in Ids(File.providers) :
                           /\ is_present(File, ns, p) = (resolve_pool(File, ns, p) # NoPool)
                           /\ is_present(File, ns, p) =>
                                discovery_leases(File, p, scenario.names) # NoPool
                      /\ \A view \in {"own", "all", "other"} :
                           LET shown == list_credentials(File, ns, view) IN
                           shown.data # {} =>
                              \/ view = "own"
                              \/ view = "all" /\ ns = default_namespace(File)
                      /\ \A i \in DOMAIN File.providers : PlainId(File.providers[i].id) =>
                           \A name \in list_models(File, scenario.cached, File.providers[i],
                                                   directory[ns]),
                              r \in scenario.requests :
                              LET asked == [Body[r] EXCEPT !.name = name]
                                  rates == Rates(File, catalogue, asked)
                              IN /\ Target(name).provider = File.providers[i].id
                                 /\ Gate(File, directory[ns], rates, asked)
                                      \notin {"unknown_provider", "model_unprefixed", "model_blocked"}
    BY Zenon DEF ViewsAgree
  <2>1. scenario \in Scenarios /\ Valid(Loaded)
    BY DEF BootInv, Reached, Serving
  <2>2. CredentialsOK(File)
    BY <2>1 DEF Valid, Loaded, Load
  <2>3. /\ scenario.names \in Seq(Text) /\ Ids(File.namespaces) \subseteq Range(scenario.names)
        /\ \A p \in DOMAIN scenario.cached : scenario.cached[p].data \subseteq Name \ {<<>>}
        /\ \A r \in scenario.requests : "name" \in DOMAIN Body[r]
    BY <2>1, ScenariosAssumption DEF File, Body
  <2>4. ASSUME NEW p \in Ids(File.providers)
        PROVE  /\ is_present(File, ns, p) = (resolve_pool(File, ns, p) # NoPool)
               /\ is_present(File, ns, p) =>
                    discovery_leases(File, p, scenario.names) # NoPool
    <3>1. is_present(File, ns, p) = (resolve_pool(File, ns, p) # NoPool)
      <4>1. is_present(File, ns, p) <=> resolve_pool(File, ns, p) # NoPool
        BY PoolsResolve
      <4>2. is_present(File, ns, p) \in BOOLEAN
        BY DEF is_present
      <4> QED BY ONLY <4>1, <4>2, Zenon
    <3>2. is_present(File, ns, p) => discovery_leases(File, p, scenario.names) # NoPool
      BY <2>2, <2>3, DiscoveryFinds
    <3> QED BY <3>1, <3>2, Zenon
  <2>5. ASSUME NEW view \in {"own", "all", "other"}, list_credentials(File, ns, view).data # {}
        PROVE  view = "own" \/ (view = "all" /\ ns = default_namespace(File))
    BY <2>5 DEF list_credentials, holds_direct_operator_authority
  <2>6. ASSUME NEW i \in DOMAIN File.providers, PlainId(File.providers[i].id),
               NEW name \in list_models(File, scenario.cached, File.providers[i], directory[ns]),
               NEW r \in scenario.requests, NEW asked, asked = [Body[r] EXCEPT !.name = name]
        PROVE  /\ Target(name).provider = File.providers[i].id
               /\ Gate(File, directory[ns], Rates(File, catalogue, asked), asked)
                    \notin {"unknown_provider", "model_unprefixed", "model_blocked"}
    <3>1. asked.name = name
      BY <2>3, <2>6
    <3>2. File.providers[i].id \in Name
      <4>1. File.providers \in Seq(ProviderEntry)
        BY <2>1, FilesAssumption DEF File, ConfigFile
      <4>2. File.providers[i] \in ProviderEntry
        BY <4>1
      <4> QED BY <4>2 DEF ProviderEntry
    <3>3. /\ Target(name).provider = File.providers[i].id
          /\ Gate(File, directory[ns], Rates(File, catalogue, asked), asked) \notin OfTheModel
      <4>1. AsksListed(File, scenario.cached, directory[ns], i, asked)
        <5>1. \A p \in DOMAIN scenario.cached : scenario.cached[p].data \subseteq Name \ {<<>>}
          BY <2>3
        <5>2. asked.name \in list_models(File, scenario.cached, File.providers[i], directory[ns])
          BY ONLY <2>6, <3>1
        <5> QED BY ONLY <2>6, <3>2, <5>1, <5>2 DEF AsksListed
      <4>2. PICK rates : rates = Rates(File, catalogue, asked)
        OBVIOUS
      <4>3. /\ Target(asked.name).provider = File.providers[i].id
            /\ Gate(File, directory[ns], rates, asked) \notin OfTheModel
        BY ONLY <4>1, ListedIsKnown
      <4> QED BY <3>1, <4>2, <4>3
    <3> QED BY <3>3 DEF OfTheModel
  <2>7. status(File, ns) = {<<resolve_pool(File, ns, p).ns, p>> :
                              p \in {p \in Ids(File.providers) : resolve_pool(File, ns, p) # NoPool}}
    BY StatusShowsPools
  <2> QED BY <2>4, <2>5, <2>6, <2>7, Zenon
<1> QED BY <1>1, BootInvariant, PTL

-----------------------------------------------------------------------------
(* The configuration *)

\* A number that was written is one.
LEMMA WrittenIsNatural ==
  ASSUME NEW s \in Seq(Nat), Written(s)
  PROVE  s[1] \in Nat
  BY DEF Written

\* The defaults that are filled in follow the ceilings that were written.
LEMMA CeilingsLoad ==
  ASSUME NEW w \in AdmissionSection, NEW a, a = LoadAdmission(w), AdmissionOK(w, a)
  PROVE  CeilingsFit(w, a)
<1>1. PICK m \in Nat : m = w.max_in_flight
  BY DEF AdmissionSection
<1>2. w.streams \in Seq(Nat) /\ w.per_tenant \in Seq(Nat) /\ w.pending \in Seq(Nat)
  BY DEF AdmissionSection
<1>3. /\ Written(w.streams) => w.streams[1] \in Nat
      /\ Written(w.per_tenant) => w.per_tenant[1] \in Nat
      /\ Written(w.pending) => w.pending[1] \in Nat
  BY ONLY <1>2, WrittenIsNatural
<1>4. /\ MaxPermits \in Nat /\ DefaultStreams \in Nat /\ DefaultPerTenant \in Nat /\ DefaultInFlight \in Nat
      /\ DefaultStreams > 0 /\ DefaultPerTenant > 0 /\ DefaultInFlight > 0 /\ MaxPermits > 0
  BY DefaultsAssumption
<1>5. /\ a.streams = Clamp(w, w.streams, DefaultStreams)
      /\ a.per_tenant = PerTenant(w)
      /\ a.pending = IF Written(w.pending) THEN w.pending[1] ELSE DefaultPending(w.max_in_flight)
  BY DEF LoadAdmission, AdmissionSection
<1>6. /\ m > 0 /\ Written(w.per_tenant) => a.per_tenant <= m
      /\ m > 0 /\ Written(w.streams) => a.streams <= m
      /\ m <= MaxPermits
      /\ m > 0 /\ Written(w.pending) /\ a.pending > 0 => a.pending >= m
  BY <1>1 DEF AdmissionOK
<1>7. Within(a.streams, m)
  BY <1>1, <1>3, <1>4, <1>5, <1>6 DEF Within, Unlimited, Clamp, Least
<1>8. Within(a.per_tenant, m) /\ (~Unlimited(m) /\ ~Written(w.per_tenant) => a.per_tenant < m)
  BY <1>1, <1>3, <1>4, <1>5, <1>6 DEF Within, Unlimited, PerTenant
<1>9. Within(m, a.pending)
  BY <1>1, <1>3, <1>4, <1>5, <1>6 DEF Within, Unlimited, DefaultPending, Least
<1>10. w.queue > 0 => w.wait > 0 /\ m > 0
  <2>1. w.queue \in Nat /\ w.wait \in Nat
    BY DEF AdmissionSection
  <2>2. (w.queue = 0) = (w.wait = 0) /\ (w.queue > 0 => w.max_in_flight > 0)
    BY DEF AdmissionOK
  <2> QED BY <1>1, <2>1, <2>2
<1>11. \A n \in {w.max_in_flight, a.streams, a.pending, w.queue, w.executing} : n <= MaxPermits
  BY DEF AdmissionOK
<1> QED BY <1>1, <1>7, <1>8, <1>9, <1>10, <1>11 DEF CeilingsFit

\* The first entry that passes a test passes it.
LEMMA ProviderFound ==
  ASSUME NEW w, w.providers \in Seq(ProviderEntry), NEW p \in Ids(w.providers)
  PROVE  Provider(w, p).id = p
<1>1. PICK S : S = {i \in DOMAIN w.providers : w.providers[i].id = p}
  OBVIOUS
<1>2. S # {} /\ S \in SUBSET Nat
  BY <1>1 DEF Ids
<1>3. Min(S) \in S
  BY <1>2, LeastPosition
<1>4. Provider(w, p) = w.providers[Min(S)]
  BY <1>1 DEF Provider, First
<1> QED BY <1>1, <1>3, <1>4

\* The one namespace marked as the default is in the file.
LEMMA DefaultFound ==
  ASSUME NEW w, w.namespaces \in Seq(NamespaceEntry),
         Cardinality({i \in DOMAIN w.namespaces : w.namespaces[i].default}) = 1
  PROVE  default_namespace(w) \in Ids(w.namespaces)
<1>1. PICK S : S = {i \in DOMAIN w.namespaces : w.namespaces[i].default}
  OBVIOUS
<1>2. S # {} /\ S \in SUBSET Nat
  <2>1. Cardinality(S) = 1
    BY ONLY <1>1, Cardinality({i \in DOMAIN w.namespaces : w.namespaces[i].default}) = 1, Zenon
  <2>2. S # {}
    BY ONLY <2>1, FS_EmptySet
  <2> QED BY <1>1, <2>2
<1>3. Min(S) \in S
  BY <1>2, LeastPosition
<1>4. default_namespace(w) = w.namespaces[Min(S)].id
  BY <1>1 DEF default_namespace, First
<1> QED BY <1>1, <1>3, <1>4 DEF Ids

\* A sink's batch is cut from its buffer.
LEMMA SinkLoads ==
  ASSUME NEW w \in SinkEntry, NEW s, s = LoadSink(w), SinkOK(w, s), s.kind = "postgres"
  PROVE  BatchSettings(s).max_batch \in 1..BatchSettings(s).capacity
<1>1. s.capacity = w.capacity /\ w.capacity \in Nat
  BY DEF LoadSink, SinkEntry
<1>2. s.max_batch = (IF Written(w.max_batch) THEN w.max_batch[1] ELSE DefaultBatch) /\ w.max_batch \in Seq(Nat)
  BY DEF LoadSink, SinkEntry
<1>3. s.max_batch \in Nat
  BY <1>2, DefaultsAssumption DEF Written
<1>4. s.capacity > 0 /\ s.max_batch > 0
  BY DEF SinkOK
<1> QED BY <1>1, <1>3, <1>4 DEF BatchSettings, Least

\* A replica that serves was loaded from a file whose ceilings, batches, names and
\* secrets fit each other, defaults included (config.rs, main.rs).
THEOREM ServingIsConsistent == BootSpec => []BootedIsConsistent
<1>1. BootInv => BootedIsConsistent
  <2> SUFFICES ASSUME BootInv, Serving # {}
               PROVE  /\ CeilingsFit(File.admission, Loaded.admission)
                      /\ Storage.max_batch <= Storage.capacity
                      /\ \A i \in DOMAIN Loaded.sinks : Loaded.sinks[i].kind = "postgres" =>
                           /\ BatchSettings(Loaded.sinks[i]).max_batch \in 1..BatchSettings(Loaded.sinks[i]).capacity
                           /\ SinkTable(Loaded.sinks[i]) \notin {"ancient", "behind"}
                      /\ Buffering = "write_through" =>
                           \E i \in DOMAIN File.sinks : File.sinks[i].kind \in {"stdout", "postgres"}
                      /\ Given(Build(File, Env).secret)
                      /\ \A i \in DOMAIN File.credentials : Given(Env[File.credentials[i].env])
                      /\ \A i \in DOMAIN File.prices :
                           Provider(File, File.prices[i].provider).id = File.prices[i].provider
                      /\ default_namespace(File) \in Ids(File.namespaces)
    BY Zenon DEF BootedIsConsistent
  <2>1. /\ scenario \in Scenarios /\ Valid(Loaded) /\ build_runtime /\ Built(Build(File, Env))
        /\ File \in ConfigFile
    BY FilesAssumption DEF BootInv, Reached, Serving, File
  <2>2. /\ Loaded.file = File
        /\ Loaded.admission = LoadAdmission(File.admission)
        /\ DOMAIN Loaded.sinks = DOMAIN File.sinks
        /\ \A i \in DOMAIN File.sinks : Loaded.sinks[i] = LoadSink(File.sinks[i])
    BY DEF Loaded, Load
  <2>3. /\ StorageOK(Storage) /\ PriceBookOK(File) /\ JournalOK(File)
        /\ Cardinality({i \in DOMAIN File.namespaces : File.namespaces[i].default}) = 1
        /\ AdmissionOK(File.admission, Loaded.admission)
        /\ \A i \in DOMAIN File.sinks : SinkOK(File.sinks[i], Loaded.sinks[i])
        /\ File.storage # <<>>
    BY <2>1, <2>2 DEF Valid, Storage
  <2>4. CeilingsFit(File.admission, Loaded.admission)
    <3>1. File.admission \in AdmissionSection
      BY <2>1 DEF ConfigFile
    <3> QED BY <2>2, <2>3, <3>1, CeilingsLoad
  <2>5. Storage.max_batch <= Storage.capacity
    <3>1. Storage \in StorageSection
      BY <2>1, <2>3 DEF ConfigFile, Storage
    <3>2. Storage.max_batch \in Nat /\ Storage.capacity \in Nat /\ MaxIndexBatch \in Nat
      BY <3>1, DefaultsAssumption DEF StorageSection
    <3> QED BY <2>3, <3>2 DEF StorageOK, Least
  <2>6. ASSUME NEW i \in DOMAIN Loaded.sinks, Loaded.sinks[i].kind = "postgres"
        PROVE  /\ BatchSettings(Loaded.sinks[i]).max_batch \in 1..BatchSettings(Loaded.sinks[i]).capacity
               /\ SinkTable(Loaded.sinks[i]) \notin {"ancient", "behind"}
    <3>1. File.sinks \in Seq(SinkEntry)
      BY <2>1 DEF ConfigFile
    <3>2. File.sinks[i] \in SinkEntry
      BY <2>2, <2>6, <3>1
    <3>3. BatchSettings(Loaded.sinks[i]).max_batch \in 1..BatchSettings(Loaded.sinks[i]).capacity
      BY <2>2, <2>3, <2>6, <3>2, SinkLoads
    <3>4. SinkTable(Loaded.sinks[i]) \in {"absent", "current"}
      BY <2>1, <2>6 DEF build_runtime, SinkBuilds
    <3> QED BY <3>3, <3>4
  <2>7. Buffering = "write_through" =>
          \E i \in DOMAIN File.sinks : File.sinks[i].kind \in {"stdout", "postgres"}
    <3> SUFFICES ASSUME Buffering = "write_through"
                 PROVE  \E i \in DOMAIN File.sinks : File.sinks[i].kind \in {"stdout", "postgres"}
      OBVIOUS
    <3>1. PICK i \in DOMAIN File.sinks : File.sinks[i].kind # "otlp"
      BY <2>3 DEF Buffering, JournalOK
    <3>2. File.sinks \in Seq(SinkEntry)
      BY <2>1 DEF ConfigFile
    <3>3. File.sinks[i] \in SinkEntry
      BY <3>1, <3>2
    <3>4. File.sinks[i].kind \in {"stdout", "otlp", "postgres"}
      BY <3>3 DEF SinkEntry
    <3> QED BY <3>1, <3>4
  <2>8. Given(Build(File, Env).secret)
    BY <2>1 DEF Built
  <2>9. \A i \in DOMAIN File.credentials : Given(Env[File.credentials[i].env])
    <3>1. CredentialsResolve(File, Env)
      BY <2>8 DEF Build, Given
    <3> QED BY <3>1 DEF CredentialsResolve
  <2>10. ASSUME NEW i \in DOMAIN File.prices
         PROVE  Provider(File, File.prices[i].provider).id = File.prices[i].provider
    <3>1. File.prices[i].provider \in Ids(File.providers)
      BY <2>3 DEF PriceBookOK
    <3>2. File.providers \in Seq(ProviderEntry)
      BY <2>1 DEF ConfigFile
    <3> QED BY <3>1, <3>2, ProviderFound
  <2>11. default_namespace(File) \in Ids(File.namespaces)
    <3>1. File.namespaces \in Seq(NamespaceEntry)
      BY <2>1 DEF ConfigFile
    <3> QED BY <2>3, <3>1, DefaultFound
  <2> QED BY <2>4, <2>5, <2>6, <2>7, <2>8, <2>9, <2>10, <2>11, Zenon
<1> QED BY <1>1, BootInvariant, PTL

-----------------------------------------------------------------------------
(* The termination: what holds all along *)

Flying == {r \in Requests : pc[r] \in InFlight}

CountExact == in_flight = Cardinality(Flying)

\* Whoever is past the gate's closing sees it closed.
GateShut ==
  /\ drain \in {"announcing", "done"} => phase = "Closing"
  /\ main \notin {"closed?", "closed", "asleepClosed"} => phase = "Closing"

\* Once quiesce has reported nothing in flight, nothing comes back but what was
\* already on its way in.
NoneReturns ==
  main \in {"settling", "flushing", "exited"} /\ stuck = 0 =>
    \A r \in Requests \ late : pc[r] \notin InFlight \cup {"loaded"}

\* ... and once await_idle has reported nothing unsettled, neither does a
\* settlement.
SettledAll ==
  main \in {"flushing", "exited"} /\ stuck = 0 /\ unsettled = 0 => spawned \subseteq late

\* The inductive invariant.
EndInv == TypeOK /\ CountExact /\ GateShut /\ NoMissedChange /\ NoneReturns /\ SettledAll

-----------------------------------------------------------------------------
(* Counting *)

\* A set of requests is finite.
LEMMA RequestsFinite ==
  ASSUME NEW S \in SUBSET Requests
  PROVE  IsFiniteSet(S) /\ Cardinality(S) \in Nat
  BY FS_Subset, FS_CardinalityType, LifecycleAssumption

\* Adding one request moves a count up by one.
LEMMA CardAdd ==
  ASSUME NEW S \in SUBSET Requests, NEW r \in Requests, r \notin S
  PROVE  Cardinality(S \cup {r}) = Cardinality(S) + 1
  BY RequestsFinite, FS_AddElement

\* Removing one moves it down by one, and it was positive.
LEMMA CardRemove ==
  ASSUME NEW S \in SUBSET Requests, NEW r \in S
  PROVE  Cardinality(S \ {r}) = Cardinality(S) - 1 /\ Cardinality(S) > 0
<1>1. Cardinality(S \ {r}) = Cardinality(S) - 1
  BY RequestsFinite, FS_RemoveElement
<1>2. S \ {r} \in SUBSET Requests
  OBVIOUS
<1> QED
  BY <1>1, <1>2, RequestsFinite

-----------------------------------------------------------------------------
(* One lemma per part of the invariant: what each action does to it *)

\* Types: a request that leaves had counted itself in.
LEMMA TypeStep == TypeOK /\ CountExact /\ [Next]_vars => TypeOK'
<1> SUFFICES ASSUME TypeOK, CountExact, [Next]_vars PROVE TypeOK'
  OBVIOUS
<1> USE DEF TypeOK, Goto, Announce, Subscribe, Main, shared, reports
<1>1. ASSUME Drain PROVE TypeOK'
  BY <1>1 DEF Drain, Signal, Close, AnnounceClosed, Phases
<1>2. ASSUME NEW r \in Requests,
             LoadPhase(r) \/ Enter(r) \/ Watch(r) \/ CheckAbandoned(r) \/ WakeHandler(r) \/ Respond(r)
      PROVE  TypeOK'
  BY <1>2 DEF LoadPhase, Enter, Watch, CheckAbandoned, WakeHandler, Respond, Points, InFlight, Handler
<1>3. ASSUME NEW r \in Requests, DropInner(r) \/ AnnounceLeft(r) \/ Settled(r) PROVE TypeOK'
  BY <1>3 DEF DropInner, AnnounceLeft, Settled, Points, InFlight, Handler
<1>4. ASSUME NEW r \in Requests, Leave(r) PROVE TypeOK'
  <2>1. r \in Flying /\ Flying \in SUBSET Requests
    BY <1>4 DEF Leave, Flying, InFlight
  <2>2. in_flight > 0
    BY <2>1, CardRemove DEF CountExact
  <2> QED
    BY <1>4, <2>2 DEF Leave, Points, InFlight, Handler
<1>5. ASSUME SubscribeClosed \/ CheckClosed \/ WakeClosed \/ Served \/ Abandon \/ AnnounceAbandoned
      PROVE  TypeOK'
  BY <1>5 DEF SubscribeClosed, CheckClosed, WakeClosed, Served, Abandon, AnnounceAbandoned,
     MainPoints
<1>6. ASSUME SubscribeQuiet \/ CheckQuiet \/ WakeQuiet \/ QuietTimeout \/ Quiesced \/ Flush
      PROVE  TypeOK'
  BY <1>6 DEF SubscribeQuiet, CheckQuiet, WakeQuiet, QuietTimeout, Quiesced, Flush, MainPoints
<1>7. ASSUME AwaitIdle PROVE TypeOK'
  <2>1. Cardinality(spawned) \in Nat
    BY RequestsFinite
  <2> QED
    BY <1>7, <2>1 DEF AwaitIdle, MainPoints
<1>8. CASE UNCHANGED vars
  BY <1>8 DEF vars
<1> QED
  BY <1>1, <1>2, <1>3, <1>4, <1>5, <1>6, <1>7, <1>8 DEF Next, Wait, Request, Exited

\* in_flight counts the requests between Enter and Leave.
LEMMA CountStep == TypeOK /\ CountExact /\ [Next]_vars => CountExact'
<1> SUFFICES ASSUME TypeOK, CountExact, [Next]_vars PROVE CountExact'
  OBVIOUS
<1> USE DEF Goto
<1>0. pc \in [Requests -> Points] /\ Flying \in SUBSET Requests
  BY DEF TypeOK, Flying
<1>1. ASSUME NEW r \in Requests, Enter(r) PROVE CountExact'
  <2>1. r \notin Flying /\ Flying' = Flying \cup {r} /\ in_flight' = in_flight + 1
    BY <1>0, <1>1 DEF Enter, Flying, InFlight, Handler
  <2> QED
    BY <1>0, <2>1, CardAdd DEF CountExact
<1>2. ASSUME NEW r \in Requests, Leave(r) PROVE CountExact'
  <2>1. r \in Flying /\ Flying' = Flying \ {r} /\ in_flight' = in_flight - 1
    BY <1>0, <1>2 DEF Leave, Flying, InFlight, Handler
  <2> QED
    BY <1>0, <2>1, CardRemove DEF CountExact
<1>3. ASSUME NEW r \in Requests,
             \/ LoadPhase(r) \/ Watch(r) \/ CheckAbandoned(r) \/ WakeHandler(r) \/ Respond(r)
             \/ DropInner(r) \/ AnnounceLeft(r) \/ Settled(r)
      PROVE  Flying' = Flying /\ in_flight' = in_flight
  BY <1>0, <1>3 DEF LoadPhase, Watch, CheckAbandoned, WakeHandler, Respond, DropInner,
     AnnounceLeft, Settled, Flying, InFlight, Handler, shared
<1>4. ASSUME Drain \/ Wait \/ UNCHANGED vars
      PROVE  Flying' = Flying /\ in_flight' = in_flight
  BY <1>4 DEF Drain, Signal, Close, AnnounceClosed, Wait, SubscribeClosed, CheckClosed,
     WakeClosed, Served, Abandon, AnnounceAbandoned, SubscribeQuiet, CheckQuiet, WakeQuiet,
     QuietTimeout, Quiesced, AwaitIdle, Flush, Flying, shared, vars
<1> QED
  BY <1>1, <1>2, <1>3, <1>4 DEF Next, Request, Exited, CountExact

\* The phase is closed before anyone acts on it, and stays closed.
LEMMA GatedStep == TypeOK /\ GateShut /\ [Next]_vars => GateShut'
<1> SUFFICES ASSUME TypeOK, GateShut, [Next]_vars PROVE GateShut'
  OBVIOUS
<1>1. ASSUME Drain PROVE GateShut'
  BY <1>1 DEF Drain, Signal, Close, AnnounceClosed, GateShut
<1>2. ASSUME Wait PROVE GateShut'
  BY <1>2 DEF Wait, SubscribeClosed, CheckClosed, WakeClosed, Served, Abandon,
     AnnounceAbandoned, SubscribeQuiet, CheckQuiet, WakeQuiet, QuietTimeout, Quiesced,
     AwaitIdle, Flush, Main, GateShut, shared
<1>3. ASSUME NEW r \in Requests, Request(r) PROVE UNCHANGED <<drain, main, phase>>
  BY <1>3 DEF Request, LoadPhase, Enter, Watch, CheckAbandoned, WakeHandler, Respond, DropInner,
     Leave, AnnounceLeft, Settled, shared
<1>4. CASE UNCHANGED vars
  BY <1>4 DEF vars, shared, GateShut
<1> QED
  BY <1>1, <1>2, <1>3, <1>4 DEF Next, Exited, GateShut

\* Whatever makes a sleeper's condition true tells it, or is about to.
LEMMA MissedStep ==
  TypeOK /\ CountExact /\ NoMissedChange /\ [Next]_vars => NoMissedChange'
<1> SUFFICES ASSUME TypeOK, CountExact, NoMissedChange, [Next]_vars PROVE NoMissedChange'
  OBVIOUS
<1> USE LifecycleAssumption DEF NoMissedChange, Goto, Announce, Subscribe, Main, shared
<1>0. pc \in [Requests -> Points] /\ in_flight \in Nat
  BY DEF TypeOK
<1>1. ASSUME Drain PROVE NoMissedChange'
  BY <1>1 DEF Drain, Signal, Close, AnnounceClosed
<1>2. ASSUME NEW r \in Requests,
             \/ LoadPhase(r) \/ Enter(r) \/ Watch(r) \/ CheckAbandoned(r) \/ WakeHandler(r)
             \/ Respond(r) \/ DropInner(r) \/ Settled(r)
      PROVE  NoMissedChange'
  BY <1>0, <1>2 DEF LoadPhase, Enter, Watch, CheckAbandoned, WakeHandler, Respond, DropInner, Settled
<1>3. ASSUME NEW r \in Requests, Leave(r) PROVE NoMissedChange'
  <2>1. in_flight' = 0 => pc'[r] = "announcing"
    BY <1>0, <1>3 DEF Leave
  <2> QED
    BY <1>0, <1>3, <2>1 DEF Leave
<1>4. ASSUME NEW r \in Requests, AnnounceLeft(r) PROVE NoMissedChange'
  BY <1>0, <1>4 DEF AnnounceLeft
<1>5. ASSUME SubscribeClosed \/ CheckClosed \/ WakeClosed \/ Served \/ Abandon \/ AnnounceAbandoned
      PROVE  NoMissedChange'
  BY <1>5 DEF SubscribeClosed, CheckClosed, WakeClosed, Served, Abandon, AnnounceAbandoned
<1>6. ASSUME \/ SubscribeQuiet \/ CheckQuiet \/ WakeQuiet \/ QuietTimeout \/ Quiesced
             \/ AwaitIdle \/ Flush
      PROVE  NoMissedChange'
  BY <1>6 DEF SubscribeQuiet, CheckQuiet, WakeQuiet, QuietTimeout, Quiesced, AwaitIdle, Flush
<1>7. CASE UNCHANGED vars
  BY <1>7 DEF vars
<1> QED
  BY <1>1, <1>2, <1>3, <1>4, <1>5, <1>6, <1>7 DEF Next, Wait, Request, Exited

\* After quiesce a request that arrives finds the gate closed.
LEMMA QuietStep ==
  TypeOK /\ CountExact /\ GateShut /\ NoneReturns /\ [Next]_vars => NoneReturns'
<1> SUFFICES ASSUME TypeOK, CountExact, GateShut, NoneReturns, [Next]_vars,
                    main' \in {"settling", "flushing", "exited"}, stuck' = 0
             PROVE  \A r \in Requests \ late' : pc'[r] \notin InFlight \cup {"loaded"}
  BY DEF NoneReturns
<1>0. pc \in [Requests -> Points]
  BY DEF TypeOK
<1> USE DEF Goto, Main, shared, reports
<1>1. CASE Quiesced
  <2>1. Cardinality(Flying) = 0 /\ Flying \in SUBSET Requests
    BY <1>1 DEF Quiesced, CountExact, Flying
  <2>2. Flying = {}
    BY <2>1, RequestsFinite, FS_EmptySet
  <2> QED
    BY <1>0, <1>1, <2>2 DEF Quiesced, Flying
<1>2. ASSUME NEW q \in Requests, Request(q)
      PROVE  \A r \in Requests \ late' : pc'[r] \notin InFlight \cup {"loaded"}
  <2>1. /\ main \in {"settling", "flushing", "exited"} /\ stuck = 0 /\ late' = late
        /\ phase = "Closing"
    BY <1>2 DEF Request, LoadPhase, Enter, Watch, CheckAbandoned, WakeHandler, Respond,
       DropInner, Leave, AnnounceLeft, Settled, GateShut
  <2>2. \A r \in Requests \ late : pc[r] \notin InFlight \cup {"loaded"}
    BY <2>1 DEF NoneReturns
  <2>3. pc[q] \notin InFlight \cup {"loaded"} => pc'[q] \notin InFlight \cup {"loaded"}
    BY <1>0, <1>2, <2>1 DEF Request, LoadPhase, Enter, Watch, CheckAbandoned, WakeHandler,
       Respond, DropInner, Leave, AnnounceLeft, Settled, InFlight, Handler
  <2>4. \A r \in Requests \ {q} : pc'[r] = pc[r]
    BY <1>0, <1>2 DEF Request, LoadPhase, Enter, Watch, CheckAbandoned, WakeHandler, Respond,
       DropInner, Leave, AnnounceLeft, Settled
  <2> QED
    BY <2>1, <2>2, <2>3, <2>4
<1>3. CASE Drain \/ UNCHANGED vars
  BY <1>3 DEF Drain, Signal, Close, AnnounceClosed, vars, NoneReturns
<1>4. CASE Wait /\ ~Quiesced
  <2>1. AwaitIdle \/ Flush
    BY <1>4 DEF Wait, SubscribeClosed, CheckClosed, WakeClosed, Served, Abandon,
       AnnounceAbandoned, SubscribeQuiet, CheckQuiet, WakeQuiet, QuietTimeout
  <2> QED
    BY <2>1 DEF AwaitIdle, Flush, NoneReturns
<1> QED
  BY <1>1, <1>2, <1>3, <1>4 DEF Next, Exited

\* Only a request in flight spawns a settlement.
LEMMA SettledStep ==
  TypeOK /\ NoneReturns /\ SettledAll /\ [Next]_vars => SettledAll'
<1> SUFFICES ASSUME TypeOK, NoneReturns, SettledAll, [Next]_vars,
                    main' \in {"flushing", "exited"}, stuck' = 0, unsettled' = 0
             PROVE  spawned' \subseteq late'
  BY DEF SettledAll
<1> USE DEF Goto, Main, shared, reports
<1>1. CASE AwaitIdle
  <2>1. Cardinality(spawned) = 0 /\ spawned \in SUBSET Requests /\ spawned' = spawned
    BY <1>1 DEF AwaitIdle, TypeOK
  <2>2. spawned = {}
    BY <2>1, RequestsFinite, FS_EmptySet
  <2> QED
    BY <2>1, <2>2
<1>2. ASSUME NEW q \in Requests, Request(q) PROVE spawned' \subseteq late'
  <2>1. main \in {"flushing", "exited"} /\ stuck = 0 /\ unsettled = 0 /\ late' = late
    BY <1>2 DEF Request, LoadPhase, Enter, Watch, CheckAbandoned, WakeHandler, Respond,
       DropInner, Leave, AnnounceLeft, Settled
  <2>2. spawned' \subseteq spawned \/ (DropInner(q) /\ spawned' \subseteq spawned \cup {q})
    BY <1>2 DEF Request, LoadPhase, Enter, Watch, CheckAbandoned, WakeHandler, Respond,
       DropInner, Leave, AnnounceLeft, Settled
  <2>3. DropInner(q) => q \in late
    BY <2>1 DEF DropInner, NoneReturns, InFlight, Handler
  <2> QED
    BY <2>1, <2>2, <2>3 DEF SettledAll
<1>3. CASE Drain \/ UNCHANGED vars
  BY <1>3 DEF Drain, Signal, Close, AnnounceClosed, vars, SettledAll
<1>4. CASE Wait /\ ~AwaitIdle
  <2>1. Flush
    BY <1>4 DEF Wait, SubscribeClosed, CheckClosed, WakeClosed, Served, Abandon,
       AnnounceAbandoned, SubscribeQuiet, CheckQuiet, WakeQuiet, QuietTimeout, Quiesced
  <2> QED
    BY <2>1 DEF Flush, SettledAll
<1> QED
  BY <1>1, <1>2, <1>3, <1>4 DEF Next, Exited

-----------------------------------------------------------------------------
(* The theorems *)

\* The inductive invariant holds of every run of the process.
THEOREM Invariance == Spec => []EndInv
<1>1. Init => EndInv
  <2> SUFFICES ASSUME Init PROVE EndInv
    OBVIOUS
  <2>1. Flying = {}
    BY DEF Init, Flying, InFlight, Handler
  <2>2. CountExact
    BY <2>1, FS_EmptySet DEF Init, CountExact
  <2>3. TypeOK /\ GateShut /\ NoMissedChange /\ NoneReturns /\ SettledAll
    BY DEF Init, TypeOK, Phases, MainPoints, Points, GateShut, NoMissedChange, NoneReturns, SettledAll
  <2> QED
    BY <2>2, <2>3 DEF EndInv
<1>2. EndInv /\ [Next]_vars => EndInv'
  BY TypeStep, CountStep, GatedStep, MissedStep, QuietStep, SettledStep DEF EndInv
<1> QED
  BY <1>1, <1>2, PTL DEF Spec

\* However many requests there are and however their steps interleave with the
\* signal's, the deadline's and the main task's, no wait of the termination
\* sleeps through its change, and a report of nothing stuck and nothing
\* unsettled means that all that was admitted in time has been flushed.
THEOREM LeftBehindTheorem == Spec => []NothingLeftBehind
<1>1. EndInv => NothingLeftBehind
  BY DEF EndInv, NothingLeftBehind, CleanFlush, NoneReturns, SettledAll
<1> QED
  BY Invariance, <1>1, PTL
=============================================================================
