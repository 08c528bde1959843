----------------------------- MODULE Management -----------------------------
(***************************************************************************)
(* The management API and the namespace resolution of inference (api.rs,   *)
(* routes/auth.rs) over the sessions of the Store: the pool of             *)
(* store/postgres.rs, or the lanes of store/sqlite.rs; and the discovery   *)
(* of provider models (discovery.rs), which caches its listing in it.      *)
(*                                                                         *)
(* A caller is one request.  It may go away at every await: its session    *)
(* is closed, or its closure runs on without it; the statement it had sent *)
(* may land at once, later or never.  Waits are durations: a bound may run *)
(* out whenever the code waits under it.                                   *)
(***************************************************************************)
EXTENDS Directory

CONSTANTS
  Callers,
  Replicas,   \* the processes that discover
  Ops,        \* requests a caller may make
  Configs

Faults == {"cancel", "timeout", "connect", "query", "idle", "fetch"}

ConfigType ==
  [backend : {"postgres", "sqlite"},
   size : Nat,                       \* POOL_SIZE
   reader : BOOLEAN,                 \* a reader lane: a file in WAL mode
   ops : [Callers -> Ops \cup {None}],
   file : SUBSET Ids,                \* [[namespace]] of the deployment file
   tables : Tables,                  \* what is stored at first
   indexed : SUBSET Records,         \* what the usage index appends
   sources : [Replicas -> Sources \cup {None}],
   overlap : BOOLEAN,                \* a new process starts before the old has ended
   faults : SUBSET Faults]

\* A request's path, query and body; a valid deployment file has a namespace.
OpType ==
  [op : {"create", "get", "replace", "delete", "list", "put_budget", "get_budget", "put_policy",
         "policy", "usage", "infer", "append", "seed", "models"},
   id : Ids, attrs : Attrs \cup {None}, period : Periods \cup {None}, limit : Nat,
   cadence : {"fixed", "monthly"}, page : Nat, source : Sources, key : BOOLEAN]

ASSUME ManagementAssumption ==
  /\ IsFiniteSet(Callers) /\ None \notin Callers \cup Ops /\ "index" \notin Callers \cup {None}
  /\ Ops \subseteq OpType /\ \A o \in Ops : o.op = "seed" => o.attrs # None
  /\ Configs \subseteq ConfigType
  /\ \A f \in Configs :
       /\ NothingLeft(f.tables)
       /\ \A c \in Callers : f.ops[c] # None => (f.ops[c].op = "seed" => f.file # {})

VARIABLES
  conf,
  db,        \* the tables
  late,      \* callers whose statement was given up on and may still land
  pool,      \* sessions of the PostgreSQL Store
  lane,      \* lanes of the SQLite Store
  caller,
  index,     \* the usage-index thread of the SQLite Store
  finder,    \* per replica: its discovery
  always,    \* history: the ids that were there ever since a caller began
  ever       \* history: the ids that were there at some time since

sessions == <<pool, lane>>
storeVars == <<conf, db, late, sessions, caller, index, finder, always, ever>>

Lanes == {"writer", "reader"}
Waiting == {"wait"}
Holding == {"permit", "connect", "setup", "run", "checkin"}  \* a permit
Connected == {"setup", "run", "checkin"}                     \* a client
Ended == {"done", "gone"}

\* Calls of the Store; the statements of a policy that PostgreSQL reads; answers.
Writes == {"put_namespace", "update_namespace", "delete_namespace", "put_budget",
           "put_budget_policy", "resolve_namespace", "append_usage_batch"}
Reads == {"get_namespace", "list_namespaces", "get_budget", "get_budget_policy",
          "summarize_usage", "get_provider_models"}
PolicyReads == {"exists", "cadence", "synthesized", "period", "spend"}
Statuses == {"ok", "ready", "not_listed", "unauthorized", "bad_request", "store_unavailable",
             "namespace_conflict", "unknown_namespace", "unknown_budget"}

\* counted is opened less discarded, of the statistics.
PoolType == [free : Nat, idle : Seq({"open", "closed"}), live : Nat, counted : Nat]
CallerType ==
  [pc : {"idle", "dispatched", "locked"} \cup Waiting \cup Holding \cup Ended,
   call : {""} \cup Writes \cup Reads, at : {""} \cup PolicyReads, seen : Seq(Ids),
   cursor : Ids \cup {0}, todo : SUBSET Ids, status : {""} \cup Statuses]

\* The types; and no budget outlives its namespace, or is of none, whichever
\* statements land late.
StoreTypeOK ==
  /\ conf \in Configs /\ db \in Tables /\ late \subseteq Callers
  /\ pool \in PoolType
  /\ lane \in [Lanes -> [slot : Callers \cup {None}, mutex : Callers \cup {None, "index"}]]
  /\ \A c \in Callers :
       [f \in DOMAIN caller[c] \ {"held", "reply"} |-> caller[c][f]] \in CallerType
  /\ index \in {"idle", "locked", "done"}
  /\ finder \in [Replicas -> [pc : {"off", "sleep", "stale", "peek", "fetch", "put", "failed",
                                    "gone"},
                              first : BOOLEAN, missed : BOOLEAN]]

NewCaller == [pc |-> "idle", call |-> "", at |-> "", held |-> NothingHeld, reply |-> Ok,
              seen |-> <<>>, cursor |-> 0, todo |-> {}, status |-> ""]

StoreInit ==
  /\ conf \in Configs
  /\ db = conf.tables /\ late = {}
  /\ pool = [free |-> conf.size, idle |-> <<>>, live |-> 0, counted |-> 0]
  /\ lane = [l \in Lanes |-> [slot |-> None, mutex |-> None]]
  /\ caller = [c \in Callers |-> NewCaller]
  /\ index = "idle"
  /\ finder = [r \in Replicas |-> [pc |-> "off", first |-> TRUE, missed |-> FALSE]]
  /\ always = [c \in Callers |-> {}] /\ ever = [c \in Callers |-> {}]

\* The tables become t, and every caller's history with them.
Stores(t) ==
  /\ db' = t
  /\ always' = [c \in Callers |-> IF caller[c].pc \in Ended THEN always[c]
                                  ELSE always[c] \cap Present(t)]
  /\ ever' = [c \in Callers |-> IF caller[c].pc \in {"idle"} \cup Ended THEN ever[c]
                                ELSE ever[c] \cup Present(t)]
StoresNothing == UNCHANGED <<db, always, ever>>

-----------------------------------------------------------------------------
(* Handlers: the calls of the Store a request makes, and its answer *)

\* The config namespaces are seeded one after another, before anything is served.
Target(c) == IF conf.ops[c].op = "seed" THEN Min(caller[c].todo) ELSE conf.ops[c].id

FirstCall(o) ==
  CASE o.op \in {"create", "seed"} -> "put_namespace"
    [] o.op \in {"get", "usage", "policy"} -> "get_namespace"
    [] o.op = "replace" -> "update_namespace"
    [] o.op = "delete" -> "delete_namespace"
    [] o.op = "list" -> "list_namespaces"
    [] o.op = "put_budget" -> "put_budget"
    [] o.op = "get_budget" -> "get_budget"
    [] o.op = "put_policy" -> "put_budget_policy"
    [] o.op = "infer" -> "resolve_namespace"
    [] o.op = "append" -> "append_usage_batch"
    [] o.op = "models" -> "get_provider_models"

Calls(k, fn) == [k EXCEPT !.pc = "wait", !.call = fn,
                          !.at = IF fn = "get_budget_policy" THEN "exists" ELSE ""]
Answers(k, status) == [k EXCEPT !.pc = "done", !.status = status]

\* One statement of the call a caller is in.
Statement(c) ==
  LET o == conf.ops[c]  k == caller[c]  i == Target(c)
      once(x) == [db |-> x.db, reply |-> x.reply, next |-> "", held |-> k.held]
  IN CASE k.call = "put_namespace" -> once(put_namespace(db, i, o.attrs))
       [] k.call = "get_namespace" -> once(get_namespace(db, i))
       [] k.call = "update_namespace" -> once(update_namespace(db, i, o.attrs))
       [] k.call = "delete_namespace" -> once(delete_namespace(db, i))
       [] k.call = "list_namespaces" -> once(list_namespaces(db, k.cursor, o.page))
       [] k.call = "put_budget" -> once(put_budget(db, i, o.period, o.limit))
       [] k.call = "get_budget" -> once(get_budget(db, i, o.period))
       [] k.call = "put_budget_policy" ->
            once(put_budget_policy(db, i, o.cadence, o.limit, o.period))
       [] k.call = "resolve_namespace" -> once(resolve_namespace(db, i))
       [] k.call = "append_usage_batch" -> once(append_usage_batch(db, conf.indexed))
       [] k.call = "summarize_usage" -> once(summarize_usage(db, i))
       [] k.call = "get_provider_models" -> once(get_provider_models(db))
       [] k.call = "get_budget_policy" ->
            IF conf.backend = "sqlite" THEN once(get_budget_policy(db, i))
            ELSE LET x == ReadPolicy(db, i, k.at, k.held)
                 IN [db |-> db, reply |-> x.reply, next |-> x.next, held |-> x.held]

\* StoreError and Ok(None) as an answer: most handlers say so of an absent
\* namespace; a policy says of one that went after it was looked up what a
\* malformed request is told.
Refusal(o, reply) ==
  CASE reply.kind = "Unavailable" -> "store_unavailable"
    [] reply.kind = "Duplicate" -> "namespace_conflict"
    [] reply.kind = "Invalid" -> "bad_request"
    [] reply.kind = "NotFound" /\ o.op = "policy" -> "bad_request"
    [] reply.kind = "NotFound" /\ o.op # "policy" -> "unknown_namespace"

\* The answer to what was, or was not, found: a listing is the caller's only under
\* the base_url that is configured.
Answered(k, o, reply) ==
  CASE reply.kind = "Absent" /\ k.call \in {"get_budget", "get_budget_policy"} ->
         Answers(k, "unknown_budget")
    [] o.op = "models" ->
         Answers(k, IF reply.kind = "Found" /\ AgainstSource(reply.value, o.source).listed
                      THEN "ok" ELSE "not_listed")
    [] reply.kind = "Absent" /\ k.call \notin {"get_budget", "get_budget_policy",
                                              "get_provider_models"} ->
         Answers(k, "unknown_namespace")
    [] reply.kind = "Found" /\ o.op = "list" ->
         Answers([k EXCEPT !.seen = @ \o reply.value.page, !.cursor = 0], "ok")
    [] OTHER -> Answers(k, "ok")

\* What the handler does with the reply of its call; a list is asked for page by page.
Continued(c, reply) ==
  LET o == conf.ops[c]
      k == [caller[c] EXCEPT !.reply = reply, !.held = NothingHeld]
  IN CASE o.op = "seed" /\ reply.kind \in {"Ok", "Duplicate"} ->
            IF k.todo = {Target(c)} THEN Answers([k EXCEPT !.todo = {}], "ready")
            ELSE Calls([k EXCEPT !.todo = @ \ {Target(c)}], "put_namespace")
       [] reply.kind \in Errors /\ ~(o.op = "seed" /\ reply.kind = "Duplicate") ->
            Answers(k, Refusal(o, reply))
       [] reply.kind = "Found" /\ o.op = "list" /\ reply.value.next # 0 ->
            Calls([k EXCEPT !.seen = @ \o reply.value.page, !.cursor = reply.value.next],
                  "list_namespaces")
       [] reply.kind = "Found" /\ k.call = "get_namespace" /\ o.op \in {"usage", "policy"} ->
            Calls(k, IF o.op = "usage" THEN "summarize_usage" ELSE "get_budget_policy")
       [] OTHER -> Answered(k, o, reply)

Becomes(c, k) == caller' = [caller EXCEPT ![c] = k]
Failed(c) == Continued(c, Error("Unavailable"))

\* authenticate: a boot is no request, and needs no key.
Authenticated(o) == o.key \/ o.op = "seed"

\* What the body, the path and the query must be: attrs within their size, a period
\* where one is asked for, none for a cadence that derives it, and a page of some.
WellFormed(o) ==
  /\ o.op \in {"create", "replace"} => o.attrs \in Attrs
  /\ o.op \in {"put_budget", "get_budget", "usage"} => o.period \in Periods
  /\ o.op = "put_policy" => o.period \in Periods \cup {None}
                            /\ (o.cadence = "monthly" => o.period = None)
  /\ o.op = "list" => o.page > 0

\* The middleware and the handler up to its first call.  A namespace the
\* deployment file has is not deleted through the API.
Start(c) ==
  LET o == conf.ops[c]
  IN /\ caller[c].pc = "idle" /\ o # None
     /\ o.op # "seed" => \A d \in Callers :
          conf.ops[d] # None /\ conf.ops[d].op = "seed" => caller[d].status = "ready"
     /\ Becomes(c,
          CASE ~Authenticated(o) -> Answers(caller[c], "unauthorized")
            [] Authenticated(o) /\ ~WellFormed(o) -> Answers(caller[c], "bad_request")
            [] Authenticated(o) /\ WellFormed(o) /\ o.op = "delete" /\ o.id \in conf.file ->
                 Answers(caller[c], "namespace_conflict")
            [] OTHER -> Calls([caller[c] EXCEPT !.todo = IF o.op = "seed" THEN conf.file ELSE {}],
                              FirstCall(o)))
     /\ always' = [always EXCEPT ![c] = Present(db)]
     /\ ever' = [ever EXCEPT ![c] = Present(db)]
     /\ UNCHANGED <<conf, db, late, sessions, index, finder>>

-----------------------------------------------------------------------------
(* PostgreSQL: with_client, checkout, checkin *)

Postgres == conf.backend = "postgres"
Others == <<conf, lane, index, finder>>

\* StoreOp::bounded_on_request_path
Bounded(k) == k.call \in {"resolve_namespace", "get_namespace", "list_namespaces"}

\* Mutant: the permit is given back with a client, and lost without one.
BugDropped(p, pc) ==
  [p EXCEPT !.free = IF pc \in Connected THEN @ + 1 ELSE @,
            !.live = IF pc = "run" THEN @ - 1 ELSE @,
            !.counted = IF pc \in {"setup", "run"} THEN @ - 1 ELSE @]

\* Session::drop, OpenedClient::drop: the client is closed and counted, and the
\* permit is given back.  Once it is taken out of the session, to be checked in,
\* a client that is dropped is not counted.
Dropped(p, pc) ==
  [p EXCEPT !.free = IF pc \in Holding THEN @ + 1 ELSE @,
            !.live = IF pc = "run" THEN @ - 1 ELSE @,
            !.counted = IF pc \in {"setup", "run"} THEN @ - 1 ELSE @]

\* acquire_owned under POOL_WAIT
Acquire(c) ==
  /\ Postgres /\ caller[c].pc = "wait" /\ pool.free > 0
  /\ pool' = [pool EXCEPT !.free = @ - 1]
  /\ Becomes(c, [caller[c] EXCEPT !.pc = "permit"])
  /\ StoresNothing /\ UNCHANGED <<Others, late>>

Saturated(c) ==
  /\ Postgres /\ caller[c].pc = "wait" /\ pool.free = 0
  /\ Becomes(c, Failed(c))
  /\ StoresNothing /\ UNCHANGED <<Others, late, pool>>

\* take_idle: the last one that is open; the closed ones above it are discarded.
TakeIdle(c) ==
  LET open == {n \in DOMAIN pool.idle : pool.idle[n] = "open"}
      n == IF open = {} THEN 0 ELSE Max(open)
      popped == Len(pool.idle) - (IF n = 0 THEN 0 ELSE n)
  IN /\ Postgres /\ caller[c].pc = "permit"
     /\ pool' = [pool EXCEPT !.idle = SubSeq(@, 1, IF n = 0 THEN 0 ELSE n - 1),
                             !.counted = @ - popped,
                             !.live = IF n = 0 THEN @ ELSE @ + 1]
     /\ Becomes(c, [caller[c] EXCEPT !.pc = IF n = 0 THEN "connect" ELSE "run"])
     /\ StoresNothing /\ UNCHANGED <<Others, late>>

\* connect_client: the handshake, and then the timeouts of the session are set.
Connect(c) ==
  /\ Postgres /\ caller[c].pc = "connect"
  /\ pool' = [pool EXCEPT !.counted = @ + 1]
  /\ Becomes(c, [caller[c] EXCEPT !.pc = "setup"])
  /\ StoresNothing /\ UNCHANGED <<Others, late>>

SetUp(c) ==
  /\ Postgres /\ caller[c].pc = "setup"
  /\ pool' = [pool EXCEPT !.live = @ + 1]
  /\ Becomes(c, [caller[c] EXCEPT !.pc = "run"])
  /\ StoresNothing /\ UNCHANGED <<Others, late>>

ConnectFails(c) ==
  /\ Postgres /\ caller[c].pc \in {"connect", "setup"} /\ "connect" \in conf.faults
  /\ pool' = Dropped(pool, caller[c].pc)
  /\ Becomes(c, Failed(c))
  /\ StoresNothing /\ UNCHANGED <<Others, late>>

\* A statement, and the next of the call; or its result. A session that is still
\* open is checked in, whatever was found, and one that is closed is dropped, by
\* keep_session or by the is_closed of checkin.
Run(c, open) ==
  LET k == caller[c]  s == Statement(c)
  IN /\ Postgres /\ k.pc = "run" /\ (open \/ "query" \in conf.faults)
     /\ Stores(s.db)
     /\ IF s.next # "" THEN /\ open
                            /\ Becomes(c, [k EXCEPT !.at = s.next, !.held = s.held])
                            /\ UNCHANGED pool
        ELSE IF open THEN /\ Becomes(c, [k EXCEPT !.pc = "checkin", !.reply = s.reply])
                          /\ pool' = [pool EXCEPT !.live = @ - 1]
        ELSE Becomes(c, Continued(c, s.reply)) /\ pool' = Dropped(pool, "run")
     /\ UNCHANGED <<Others, late>>

\* What a statement that nobody waits for did: nothing, all of it, or that later.
GivenUp(c) ==
  \/ StoresNothing /\ UNCHANGED late
  \/ caller[c].pc = "run" /\ Stores(Statement(c).db) /\ UNCHANGED late
  \/ caller[c].pc = "run" /\ caller[c].call \in Writes /\ StoresNothing /\ late' = late \cup {c}

\* The query fails: the session is not kept.
QueryFails(c) ==
  /\ Postgres /\ caller[c].pc = "run" /\ "query" \in conf.faults
  /\ GivenUp(c)
  /\ pool' = Dropped(pool, "run")
  /\ Becomes(c, Failed(c))
  /\ UNCHANGED Others

\* timeout_at over the checkout and the query, not over the checkin.
RequestTimeout(c) ==
  /\ Postgres /\ Bounded(caller[c]) /\ "timeout" \in conf.faults
  /\ caller[c].pc \in {"wait", "permit", "connect", "setup", "run"}
  /\ GivenUp(c)
  /\ pool' = Dropped(pool, caller[c].pc)
  /\ Becomes(c, Failed(c))
  /\ UNCHANGED Others

\* checkin waits for the lock of the idle ones; the permit is given back after.
Checkin(c) ==
  /\ Postgres /\ caller[c].pc = "checkin"
  /\ pool' = [pool EXCEPT !.idle = IF Len(@) < conf.size THEN Append(@, "open") ELSE @,
                          !.counted = IF Len(pool.idle) < conf.size THEN @ ELSE @ - 1,
                          !.free = @ + 1]
  /\ Becomes(c, Continued(c, caller[c].reply))
  /\ StoresNothing /\ UNCHANGED <<Others, late>>

\* The caller goes away.
Cancel(c) ==
  /\ Postgres /\ caller[c].pc \in Waiting \cup Holding /\ "cancel" \in conf.faults
  /\ GivenUp(c)
  /\ pool' = Dropped(pool, caller[c].pc)
  /\ Becomes(c, [caller[c] EXCEPT !.pc = "gone"])
  /\ UNCHANGED Others

LateLands(c) ==
  /\ c \in late /\ late' = late \ {c}
  /\ Stores(Statement(c).db)
  /\ UNCHANGED <<Others, pool, caller>>

\* The server, or the network, ends a session nobody uses.
IdleDies(n) ==
  /\ "idle" \in conf.faults /\ n \in DOMAIN pool.idle /\ pool.idle[n] = "open"
  /\ pool' = [pool EXCEPT !.idle[n] = "closed"]
  /\ StoresNothing /\ UNCHANGED <<Others, late, caller>>

-----------------------------------------------------------------------------
(* SQLite: dispatch *)

Sqlite == conf.backend = "sqlite"
NotLanes == <<conf, late, pool, index, finder>>

\* with_reader: a summary runs on the reader, when there is one.
LaneOf(c) == IF caller[c].call = "summarize_usage" /\ conf.reader THEN "reader" ELSE "writer"

\* The slot is taken before the closure is spawned, and is the closure's.
Dispatch(c) ==
  /\ Sqlite /\ caller[c].pc = "wait" /\ lane[LaneOf(c)].slot = None
  /\ lane' = [lane EXCEPT ![LaneOf(c)].slot = c]
  /\ Becomes(c, [caller[c] EXCEPT !.pc = "dispatched"])
  /\ StoresNothing /\ UNCHANGED NotLanes

DispatchSaturated(c) ==
  /\ Sqlite /\ caller[c].pc = "wait" /\ lane[LaneOf(c)].slot # None
  /\ Becomes(c, Failed(c))
  /\ StoresNothing /\ UNCHANGED <<NotLanes, lane>>

\* The closure takes the connection, whether or not its caller is still there.
Lock(l) ==
  /\ lane[l].slot # None /\ lane[l].mutex = None
  /\ lane' = [lane EXCEPT ![l].mutex = lane[l].slot]
  /\ StoresNothing /\ UNCHANGED <<NotLanes, caller>>

\* One closure runs all statements of its call, and gives its slot back. Nobody
\* may be there to hear of it.  The connection is given back before the slot:
\* only the usage index could take it in between, and what it appends does not
\* touch the slot, the reply or who is told of it.
Execute(l, ok) ==
  LET c == lane[l].slot  k == caller[c]  s == Statement(c)
  IN /\ c # None /\ lane[l].mutex = c /\ (ok \/ "query" \in conf.faults)
     /\ IF ok THEN Stores(s.db) ELSE StoresNothing
     /\ lane' = [lane EXCEPT ![l] = [slot |-> None, mutex |-> None]]
     /\ Becomes(c, IF k.pc = "gone" THEN k
                   ELSE IF ok THEN Continued(c, s.reply) ELSE Failed(c))
     /\ UNCHANGED NotLanes

\* A caller that goes away while it waits is skipped; after, its closure runs on.
LeaveLane(c) ==
  /\ Sqlite /\ caller[c].pc \in {"wait", "dispatched"} /\ "cancel" \in conf.faults
  /\ Becomes(c, [caller[c] EXCEPT !.pc = "gone"])
  /\ StoresNothing /\ UNCHANGED <<NotLanes, lane>>

\* append_usage_batch_sync: the usage-index thread takes the writer's connection
\* without a slot.
IndexLock ==
  /\ Sqlite /\ index = "idle" /\ conf.indexed # {} /\ lane["writer"].mutex = None
  /\ lane' = [lane EXCEPT !["writer"].mutex = "index"] /\ index' = "locked"
  /\ StoresNothing /\ UNCHANGED <<conf, late, pool, finder, caller>>

IndexAppend ==
  /\ index = "locked"
  /\ Stores(append_usage_batch(db, conf.indexed).db)
  /\ lane' = [lane EXCEPT !["writer"].mutex = None] /\ index' = "done"
  /\ UNCHANGED <<conf, late, pool, finder, caller>>

-----------------------------------------------------------------------------
(* Discovery of a provider's models: run, refresh_all, refresh_one *)

NotFinder == <<conf, late, sessions, caller, index>>
Turns(r, pc) ==
  finder' = [finder EXCEPT ![r] = [pc |-> pc, first |-> @.first, missed |-> @.missed]]

\* The round is over, and the next may come due.
RoundDone(r) ==
  finder' = [finder EXCEPT ![r] = [pc |-> "sleep", first |-> FALSE, missed |-> @.missed]]

\* is_fresh_foreign
FreshForeign(listing, source) ==
  listing # None /\ ~listing.stale /\ listing.source # source

\* A deployment may start its new processes before the old have ended.
BootFinder(r) ==
  /\ finder[r].pc = "off" /\ conf.sources[r] # None
  /\ conf.overlap \/ \A q \in Replicas : finder[q].pc \in {"off", "gone"}
  /\ Turns(r, "sleep")
  /\ StoresNothing /\ UNCHANGED NotFinder

\* The first round takes over a listing of another source; later ones leave it.
Round(r) ==
  /\ finder[r].pc = "sleep"
  /\ Turns(r, IF finder[r].first THEN "stale" ELSE "peek")
  /\ StoresNothing /\ UNCHANGED NotFinder

\* A call of the Store that may not land, or land and not be heard of: ok or not.
Lands(t, ok) == IF ok THEN Stores(t) ELSE StoresNothing \/ Stores(t)
MayFail(ok) == ok \/ "query" \in conf.faults

\* stale_if_source_changed: a failure is only logged, and the round goes on. The
\* mark is missed when it did not reach a listing it was for.
MarkForeign(r, ok) ==
  /\ finder[r].pc = "stale" /\ MayFail(ok)
  /\ Lands(StaleUnless(db, conf.sources[r]).db, ok)
  /\ finder' = [finder EXCEPT ![r] =
                  [pc |-> "fetch", first |-> @.first,
                   missed |-> FreshForeign(db'.listing, conf.sources[r])]]
  /\ UNCHANGED NotFinder

\* skip_fresh_foreign: a read that fails is no reason to skip.
Peek(r, ok) ==
  LET reply == get_provider_models(db).reply
  IN /\ finder[r].pc = "peek" /\ MayFail(ok)
     /\ IF ok /\ FreshForeign(reply.value, conf.sources[r]) THEN RoundDone(r)
        ELSE Turns(r, "fetch")
     /\ StoresNothing /\ UNCHANGED NotFinder

\* Some credential gets every page of the listing, or none does.
Fetch(r, ok) ==
  /\ finder[r].pc = "fetch" /\ (ok \/ "fetch" \in conf.faults)
  /\ Turns(r, IF ok THEN "put" ELSE "failed")
  /\ StoresNothing /\ UNCHANGED NotFinder

Put(r, ok) ==
  /\ finder[r].pc = "put" /\ MayFail(ok)
  /\ Lands(put_provider_models(db, conf.sources[r]).db, ok)
  /\ IF ok THEN RoundDone(r) ELSE Turns(r, "failed")
  /\ UNCHANGED NotFinder

\* mark_stale: a listing of its own; best effort.
MarkOwn(r, ok) ==
  /\ finder[r].pc = "failed" /\ MayFail(ok)
  /\ Lands(StaleIf(db, conf.sources[r]).db, ok)
  /\ RoundDone(r) /\ UNCHANGED NotFinder

\* The process ends, and its discovery with it. One stays.
StopFinder(r) ==
  /\ finder[r].pc \notin {"off", "gone"}
  /\ \E q \in Replicas \ {r} : conf.sources[q] # None /\ finder[q].pc # "gone"
  /\ Turns(r, "gone")
  /\ StoresNothing /\ UNCHANGED NotFinder

-----------------------------------------------------------------------------
CallerStep(c) ==
  \/ Start(c)
  \/ Acquire(c) \/ Saturated(c) \/ TakeIdle(c) \/ Connect(c) \/ SetUp(c) \/ ConnectFails(c)
  \/ \E open \in BOOLEAN : Run(c, open)
  \/ QueryFails(c) \/ RequestTimeout(c) \/ Checkin(c) \/ Cancel(c) \/ LateLands(c)
  \/ Dispatch(c) \/ DispatchSaturated(c) \/ LeaveLane(c)

FinderStep(r) ==
  \/ Round(r)
  \/ \E ok \in BOOLEAN : MarkForeign(r, ok) \/ Peek(r, ok) \/ Fetch(r, ok) \/ Put(r, ok)
                        \/ MarkOwn(r, ok)

StoreNext ==
  \/ \E c \in Callers : CallerStep(c)
  \/ \E n \in DOMAIN pool.idle : IdleDies(n)
  \/ \E l \in Lanes : Lock(l) \/ \E ok \in BOOLEAN : Execute(l, ok)
  \/ IndexLock \/ IndexAppend
  \/ \E r \in Replicas : BootFinder(r) \/ FinderStep(r) \/ StopFinder(r)

StoreSpec == StoreInit /\ [][StoreNext]_storeVars

\* Discovery goes on, the upstream lists and the Store answers now and then, and
\* a deployment gets to its new processes.
Fairness ==
  \A r \in Replicas :
    /\ WF_storeVars(BootFinder(r)) /\ WF_storeVars(FinderStep(r))
    /\ SF_storeVars(Fetch(r, TRUE)) /\ SF_storeVars(Put(r, TRUE))

FairSpec == StoreSpec /\ Fairness

-----------------------------------------------------------------------------
(* Properties *)

In(pcs) == {c \in Callers : caller[c].pc \in pcs}

\* No session, permit or lane is lost, or used twice, whoever goes away, times
\* out or fails where (Session::drop, OpenedClient::drop, dispatch): every
\* permit is free or held; open sessions, those about to be opened included,
\* stay within the pool, though an idle one is not looked for again once a
\* connect is decided; a slot is its closure's until that has run, and only the
\* closure or the usage index has the connection.
SessionsConserved ==
  /\ StoreTypeOK
  /\ Postgres =>
       /\ pool.free + Cardinality(In(Holding)) = conf.size
       /\ pool.live = Cardinality(In({"run"}))
       /\ Len(pool.idle) + Cardinality(In({"connect"} \cup Connected)) <= conf.size
       /\ pool.counted >= Len(pool.idle) + Cardinality(In(Connected))
  /\ Sqlite =>
       /\ \A c \in In({"dispatched"}) : lane[LaneOf(c)].slot = c
       /\ \A l \in Lanes :
            \/ lane[l].mutex \in {None, lane[l].slot}
            \/ l = "writer" /\ lane[l].mutex = "index" /\ index = "locked"

\* An answer is true of some moment of its request, however many calls of the
\* Store it was made of and whatever landed between them (api.rs): a namespace
\* that was there throughout is never unknown, created anew, deleted or left
\* out of a paged list, and one that never was is never found; a list has
\* no id twice.  A namespace of the deployment file, once seeded, stays, and one
\* that is gone has no row; what an admission that began before a DELETE may
\* still add to a later namespace of its id is BudgetLedger's.
AnswersHonest ==
  /\ NothingLeft(db)
  /\ \A c \in Callers :
    LET o == conf.ops[c]  k == caller[c] IN
    k.pc = "done" =>
      /\ k.status = "unknown_namespace" => o.id \notin always[c]
      /\ k.status \in {"unknown_budget"} => o.id \in ever[c]
      /\ k.status = "bad_request" /\ WellFormed(o) =>
           \/ o.op = "policy" /\ o.id \notin always[c]
           \/ o.op \in {"put_budget", "put_policy"} /\ o.limit > MaxAmount
           \/ o.op = "put_policy" /\ o.period = None /\ o.cadence = "fixed" /\ o.id \in ever[c]
      /\ o.op \in {"get", "replace", "usage", "policy", "put_budget", "get_budget",
                   "put_policy", "infer"} /\ k.status = "ok" => o.id \in ever[c]
      /\ o.op = "create" /\ k.status = "ok" => o.id \in ever[c] \ always[c]
      /\ o.op = "create" /\ k.status = "namespace_conflict" => o.id \in ever[c]
      /\ o.op = "delete" /\ k.status = "ok" => o.id \notin always[c]
      /\ o.op = "list" /\ k.status = "ok" =>
           /\ \A m, n \in DOMAIN k.seen : m < n => k.seen[m] < k.seen[n]
           /\ always[c] \subseteq ToSet(k.seen) /\ ToSet(k.seen) \subseteq ever[c]
      /\ k.status = "ready" => conf.file \subseteq Present(db)

\* A listing comes to be the one of the base_url that is configured, when the
\* old process ends before the new one starts (run, refresh_one): however often
\* the upstream or the Store fails, but for one call.  A process whose first
\* round could not mark the listing of another base_url has no second chance:
\* its put leaves a fresh row of another source, and says it did not fail;
\* that round counts as its first, and the later ones skip the row.
ListingLands ==
  <>[](\A r \in Replicas : finder[r].pc \notin {"off", "gone"} /\ ~finder[r].missed =>
        db.listing # None /\ db.listing.source = conf.sources[r])
=============================================================================
