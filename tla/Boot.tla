-------------------------------- MODULE Boot --------------------------------
(***************************************************************************)
(* From the configuration file to a served request (main.rs).  Replicas of *)
(* one deployment boot side by side: each loads and validates the file,    *)
(* builds the usage path, opens the Store and brings its tables into       *)
(* place, seeds the namespaces, starts the catalogue, resolves the         *)
(* snapshot and serves.  Requests then pass the gates of routes/mod.rs     *)
(* while the management API edits namespaces and the catalogue imports     *)
(* prices.  Admission, accounting and the walk over the credentials have   *)
(* modules of their own; here admission refuses or lets through.           *)
(***************************************************************************)
EXTENDS Snapshot, StoreSchema

CONSTANTS
    Scenarios,   \* what a deployment starts from: file, environment, tables
    Calls        \* the requests that may arrive, by name

\* Only what serde accepts reaches validation.
ASSUME FilesAssumption == \A s \in Scenarios : s.file \in ConfigFile

\* The tables are ledgers, discovery's order lists the namespaces of the file, what
\* it cached are names, and a request may name its model.
ASSUME ScenariosAssumption ==
    \A s \in Scenarios :
        /\ LedgersFound(s.tables)
        /\ s.names \in Seq(Text) /\ Ids(s.file.namespaces) \subseteq Range(s.names)
        /\ \A p \in DOMAIN s.cached : s.cached[p].data \subseteq Name \ {<<>>}
        /\ \A r \in s.requests : "name" \in DOMAIN s.body[r]

VARIABLES
    scenario,
    stage,       \* how far each boot is
    directory,   \* the Store's namespaces: id -> blocklist, for those that exist
    catalogue,   \* the prices last imported: <<provider, model>> -> <<rates>>
    req          \* each request's progress and what it copied on the way

bootVars == <<scenario, stage, directory, catalogue, req>>
processVars == <<schemaVars, bootVars>>

File == scenario.file
Loaded == Load(File)
Storage == File.storage[1]
Env == scenario.env
Body == scenario.body    \* what each request carries
Asked(r) == Target(Body[r].name).provider

NewRequest == [at |-> "new", block |-> {}, rates |-> <<>>, quote |-> <<>>,
               pool |-> "", cred |-> 0, charged |-> <<>>]

BootInit ==
    /\ scenario \in Scenarios
    /\ SchemaInit(scenario.tables)
    /\ stage = [b \in Boots |-> IF b \in scenario.boots THEN "load" ELSE "absent"]
    /\ directory = <<>>
    /\ catalogue = scenario.prices
    /\ req = [r \in Calls |-> NewRequest]

-----------------------------------------------------------------------------
(* One replica's boot, in the order of main.rs *)

Proceed(b, label) == stage' = [stage EXCEPT ![b] = label]

LoadConfig(b) ==
    /\ stage[b] = "load"
    /\ Proceed(b, IF Valid(Loaded) THEN "usage" ELSE "failed")
    /\ UNCHANGED <<schemaVars, scenario, directory, catalogue, req>>

\* PostgresSink::connect: additive migrations are applied when the table may be
\* created; a table still behind this writer is refused, an absent one is not.
SinkTable(s) ==
    IF s.create /\ scenario.sinkTable # "ancient" THEN "current" ELSE scenario.sinkTable
SinkBuilds(s) ==
    s.kind = "postgres" => Given(Env[s.dsn]) /\ SinkTable(s) \in {"absent", "current"}

\* With a journal its worker writes through; without, a sink batches.
Buffering == IF File.journal.backend = "postgres" THEN "write_through" ELSE "batched"

build_runtime ==
    /\ Buffering = "write_through" => Given(Env[File.journal.dsn])
    /\ \A i \in DOMAIN Loaded.sinks : SinkBuilds(Loaded.sinks[i])

BuildUsage(b) ==
    /\ stage[b] = "usage"
    /\ Proceed(b, IF build_runtime THEN "open" ELSE "failed")
    /\ UNCHANGED <<schemaVars, scenario, directory, catalogue, req>>

\* store::open; SQLite creates and migrates its own file.
OpenStore(b) ==
    /\ stage[b] = "open"
    /\ Proceed(b, IF Storage.backend = "sqlite" THEN "seed"
                  ELSE IF ~Given(Env[Storage.dsn]) THEN "failed"
                  ELSE IF draft_store_budget_present THEN "ready" ELSE "create")
    /\ UNCHANGED <<schemaVars, scenario, directory, catalogue, req>>

SchemaStep(b, from, to) ==
    /\ stage[b] = from /\ Proceed(b, to)
    /\ UNCHANGED <<scenario, directory, catalogue, req>>

Decide(b) ==
    /\ SchemaStep(b, "decide", IF PartialDest(b) THEN "failed"
                               ELSE IF ShouldRename(b) THEN "check" ELSE "create")
    /\ Readable(b, "draft")
    /\ UNCHANGED schemaVars

MigrateStore(b) ==
    \/ SchemaStep(b, "ready", "rows") /\ LookReady(b)
    \/ SchemaStep(b, "rows", "decide") /\ LookRows(b)
    \/ Decide(b)
    \/ SchemaStep(b, "check", "drop") /\ TxCheck(b)
    \/ SchemaStep(b, "drop", "rename") /\ TxDrop(b)
    \/ SchemaStep(b, "rename", "commit") /\ TxRename(b)
    \/ SchemaStep(b, "commit", "create") /\ TxCommit(b)
    \/ SchemaStep(b, "create", "probe") /\ CreateTables(b, Storage.create)
    \/ SchemaStep(b, "probe", IF probe_schema THEN "sweep" ELSE "failed") /\ UNCHANGED schemaVars
    \/ probe_schema /\ SchemaStep(b, "sweep", "seed") /\ Sweep(b)

\* put_namespace for each entry whose id is one URL segment; a duplicate is fine.
Seedable == {n \in Ids(File.namespaces) : Namespace(File, n).segment}
Seed(b) ==
    /\ stage[b] = "seed" /\ Proceed(b, "catalogue")
    /\ directory' = [n \in DOMAIN directory \cup Seedable |->
                        IF n \in DOMAIN directory THEN directory[n] ELSE {}]
    /\ UNCHANGED <<schemaVars, scenario, catalogue, req>>

\* catalog_runtime::start: a store it cannot open fails the boot.
StartCatalogue(b) ==
    /\ stage[b] = "catalogue"
    /\ Proceed(b, IF /\ File.catalog.source # "none" /\ File.catalog.store = "postgres"
                     /\ ~Given(Env[File.catalog.dsn])
                  THEN "failed" ELSE "snapshot")
    /\ UNCHANGED <<schemaVars, scenario, directory, catalogue, req>>

BuildSnapshot(b) ==
    /\ stage[b] = "snapshot"
    /\ Proceed(b, IF Built(Build(File, Env)) THEN "serving" ELSE "failed")
    /\ UNCHANGED <<schemaVars, scenario, directory, catalogue, req>>

\* A datastore that does not answer, or times out, ends the boot wherever it is.
BootFails(b) ==
    /\ stage[b] \notin {"absent", "load", "snapshot", "serving", "failed"}
    /\ Proceed(b, "failed") /\ TxAbort(b)
    /\ UNCHANGED <<scenario, directory, catalogue, req>>

Serving == {b \in Boots : stage[b] = "serving"}

-----------------------------------------------------------------------------
(* A request, in the order of authenticate_middleware and serve *)

Moved(r, now) ==
    /\ req' = [req EXCEPT ![r] = now]
    /\ UNCHANGED <<schemaVars, scenario, stage, directory, catalogue>>
Ends(r, answer) == Moved(r, [req[r] EXCEPT !.at = answer])

\* Authentication, then the namespace of the path; the Store may not answer.
Authenticate(r) ==
    /\ Serving # {} /\ r \in scenario.requests /\ req[r].at = "new"
    /\ \/ Ends(r, "store_unavailable") /\ Body[r].key = Build(File, Env).secret
       \/ IF Body[r].key # Build(File, Env).secret THEN Ends(r, "unauthorized")
          ELSE IF ~Body[r].segment THEN Ends(r, "invalid_namespace")
          ELSE IF Body[r].ns \notin DOMAIN directory THEN Ends(r, "unknown_namespace")
          ELSE Moved(r, [req[r] EXCEPT !.at = "gate", !.block = directory[Body[r].ns]])

\* The handler up to admission: everything read here is copied.
Gated(r) ==
    /\ req[r].at = "gate"
    /\ LET rates == Rates(File, catalogue, Body[r])
           verdict == Gate(File, req[r].block, rates, Body[r])
       IN IF verdict # "ok" THEN Ends(r, verdict)
          ELSE Moved(r, [req[r] EXCEPT !.at = "admit", !.rates = rates, !.quote = rates])

\* Admission, the settlement slot and the budget: refused, or through to dispatch,
\* where a namespace without credentials is refused.
Dispatched(r) ==
    /\ req[r].at = "admit"
    /\ LET pool == resolve_pool(File, Body[r].ns, Asked(r)) IN
       \/ Ends(r, "refused")
       \/ pool = NoPool /\ Ends(r, "no_credential")
       \/ \E c \in pool.creds :
            /\ PinsAffinity(Body[r].route) => c = Min(pool.creds)
            /\ Moved(r, [req[r] EXCEPT !.at = "sent", !.pool = pool.ns, !.cred = c])

\* Mutant: the price is looked up again when the answer is in.
BugCharged(r) == Rates(File, catalogue, Body[r])
Charged(r) == req[r].rates

\* The answer is in: spend is charged at the rates the request carries.
Settle(r) ==
    /\ req[r].at = "sent"
    /\ req' = [req EXCEPT ![r].at = "done", ![r].charged = Charged(r)]
    /\ IF Storage.backend = "postgres" /\ Chargeable THEN ChargeRow ELSE UNCHANGED schemaVars
    /\ UNCHANGED <<scenario, stage, directory, catalogue>>

\* Meanwhile the catalogue imports and the management API edits namespaces.
Import(prices) ==
    /\ Serving # {} /\ File.catalog.source # "none"
    /\ catalogue' = prices
    /\ UNCHANGED <<schemaVars, scenario, stage, directory, req>>

Edit(ns, block) ==
    /\ Serving # {} /\ scenario.editions # {}
    /\ directory' = [n \in DOMAIN directory \cup {ns} |->
                        IF n = ns THEN block ELSE directory[n]]
    /\ UNCHANGED <<schemaVars, scenario, stage, catalogue, req>>

Delete(ns) ==
    /\ Serving # {} /\ scenario.editions # {} /\ ns \in DOMAIN directory
    /\ directory' = [n \in DOMAIN directory \ {ns} |-> directory[n]]
    /\ UNCHANGED <<schemaVars, scenario, stage, catalogue, req>>

BootNext ==
    \/ \E b \in Boots :
        \/ LoadConfig(b) \/ BuildUsage(b) \/ OpenStore(b) \/ MigrateStore(b) \/ Seed(b)
        \/ StartCatalogue(b) \/ BuildSnapshot(b) \/ BootFails(b)
    \/ \E r \in Calls : Authenticate(r) \/ Gated(r) \/ Dispatched(r) \/ Settle(r)
    \/ \E prices \in scenario.imports : Import(prices)
    \/ \E ns \in {Body[r].ns : r \in scenario.requests} :
        (\E block \in scenario.editions : Edit(ns, block)) \/ Delete(ns)

BootSpec == BootInit /\ [][BootNext]_processVars

-----------------------------------------------------------------------------
(* Properties *)

Unlimited(n) == n = 0
Within(n, ceiling) == Unlimited(ceiling) \/ n <= ceiling

\* What the admission gate and the settlement queue rely on: no sub-ceiling sits
\* above the global one, a tenant's default one stays below it, a queue is bounded
\* in length and time, and under a global ceiling pending settlements never bind
\* before admission does.
CeilingsFit(w, a) ==
    /\ Within(a.streams, w.max_in_flight) /\ Within(a.per_tenant, w.max_in_flight)
    /\ ~Unlimited(w.max_in_flight) /\ ~Written(w.per_tenant) => a.per_tenant < w.max_in_flight
    /\ ~Unlimited(w.max_in_flight) => Within(w.max_in_flight, a.pending)
    /\ w.queue > 0 => w.wait > 0 /\ w.max_in_flight > 0
    /\ \A n \in {w.max_in_flight, a.streams, a.pending, w.queue, w.executing} : n <= MaxPermits

\* A replica that serves runs on a configuration that is consistent as loaded,
\* defaults included: ceilings that fit each other, batches no larger than the
\* buffer they are cut from, a journal some destination can acknowledge, a usage
\* table that takes every record, every declared credential and the one gateway
\* key resolved, and every name in the file defined.
BootedIsConsistent ==
    Serving # {} =>
        /\ CeilingsFit(File.admission, Loaded.admission)
        /\ Storage.max_batch <= Storage.capacity
        /\ \A i \in DOMAIN Loaded.sinks : LET s == Loaded.sinks[i] IN
             s.kind = "postgres" =>
                /\ BatchSettings(s).max_batch \in 1..BatchSettings(s).capacity
                /\ SinkTable(s) \notin {"ancient", "behind"}
        /\ Buffering = "write_through" =>
             \E i \in DOMAIN File.sinks : File.sinks[i].kind \in {"stdout", "postgres"}
        /\ Given(Build(File, Env).secret)
        /\ \A i \in DOMAIN File.credentials : Given(Env[File.credentials[i].env])
        /\ \A i \in DOMAIN File.prices :
             Provider(File, File.prices[i].provider).id = File.prices[i].provider
        /\ default_namespace(File) \in Ids(File.namespaces)

PlainId(id) == Len(id) = 1 /\ id # <<"">>

\* The read surfaces agree with what a request would meet: a namespace is shown
\* exactly the pools its requests would lease from, is_present answers as
\* resolve_pool does, discovery finds credentials whenever any pool has them, and
\* a listed name, sent back as it is listed, is taken for the provider it was
\* listed under and neither unknown nor blocked.  The last holds of ids `serve`
\* can cut off again: one that is empty or has a slash boots and is listed all
\* the same.
ViewsAgree ==
    Serving # {} =>
        \A ns \in DOMAIN directory :
            /\ status(File, ns) =
                 {<<resolve_pool(File, ns, p).ns, p>> :
                    p \in {p \in Ids(File.providers) : resolve_pool(File, ns, p) # NoPool}}
            /\ \A p \in Ids(File.providers) :
                 /\ is_present(File, ns, p) = (resolve_pool(File, ns, p) # NoPool)
                 /\ is_present(File, ns, p) =>
                      discovery_leases(File, p, scenario.names) # NoPool
            /\ \A view \in {"own", "all", "other"} :
                 LET shown == list_credentials(File, ns, view) IN
                 shown.data # {} =>
                    \/ view = "own"
                    \/ view = "all" /\ ns = default_namespace(File)
            /\ \A i \in DOMAIN File.providers : PlainId(File.providers[i].id) =>
                 \A name \in list_models(File, scenario.cached, File.providers[i], directory[ns]),
                    r \in scenario.requests :
                    LET asked == [Body[r] EXCEPT !.name = name]
                        rates == Rates(File, catalogue, asked)
                    IN /\ Target(name).provider = File.providers[i].id
                       /\ Gate(File, directory[ns], rates, asked)
                            \notin {"unknown_provider", "model_unprefixed", "model_blocked"}

\* A request is served as it was admitted, whatever changes meanwhile: with its
\* own namespace's credentials, or the platform's where the file or the API lets
\* it, charged at the rates of its admission although the catalogue moved on; and
\* all Responses requests of a namespace to a provider use one credential, the
\* one a continuation needs.
ServedAsAdmitted ==
    \A r \in Calls : req[r].at \in {"sent", "done"} =>
        /\ req[r].pool # Body[r].ns =>
             /\ req[r].pool = default_namespace(File)
             /\ \/ Body[r].ns \notin Ids(File.namespaces)
                \/ Namespace(File, Body[r].ns).fallback
        /\ req[r].at = "done" => req[r].charged = req[r].quote
        /\ \A q \in Calls :
             /\ req[q].at \in {"sent", "done"}
             /\ PinsAffinity(Body[r].route) /\ PinsAffinity(Body[q].route)
             /\ Body[q].ns = Body[r].ns /\ Asked(q) = Asked(r)
             => <<req[q].pool, req[q].cred>> = <<req[r].pool, req[r].cred>>

Kept == UNION {tables[s]["budget"].rows : s \in Sides}
Overtaken == \E b \in Boots : boot[b].overtaken

\* Migration keeps the spend of the ledger it finds: rows written by the final
\* build, the draft or a serving replica stay in a budget table, the final tables
\* never mix the two old ledgers, and whoever serves finds its tables.  The one
\* way out is a boot overtaken by another: it saw no final table, the other
\* committed its rename, and the tables it then drops are the renamed ones.
MigrationKeepsSpend ==
    \/ Overtaken
    \/ /\ written \subseteq Kept
       /\ ~({"final", "draft"} \subseteq UNION {tables["final"][k].rows : k \in Kinds})
       /\ Serving # {} /\ Storage.backend = "postgres" => store_budget_ready
=============================================================================
