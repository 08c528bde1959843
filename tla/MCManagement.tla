---------------------------- MODULE MCManagement ----------------------------
EXTENDS Management

CONSTANTS c1, c2, c3, r1, r2, a, b, old, new

Op(name, i) == [op |-> name, id |-> i, attrs |-> a, period |-> 1, limit |-> 1,
                cadence |-> "fixed", page |-> 1, source |-> old, key |-> TRUE]
Monthly(i) == [Op("put_policy", i) EXCEPT !.cadence = "monthly", !.period = None]
\* Requests that are refused before the Store is asked.
Refused == {[Op("get", 1) EXCEPT !.key = FALSE], [Op("create", 1) EXCEPT !.attrs = None],
            [Op("usage", 1) EXCEPT !.period = None]}
Names == {"create", "get", "replace", "delete", "list", "put_budget", "get_budget",
          "put_policy", "policy", "usage", "infer", "append", "seed", "models"}

MCRecords == {[request |-> 1, id |-> 1, status |-> "ok", cost |-> 2],
              [request |-> 2, id |-> 1, status |-> "ok", cost |-> 2]}
MCOps == {Op(n, i) : n \in Names, i \in Ids} \cup {Monthly(i) : i \in Ids}
           \cup Refused
           \cup {[Op(n, 1) EXCEPT !.limit = MaxAmount + 1] : n \in {"put_policy", "put_budget"}}
           \cup {[Op("put_policy", 1) EXCEPT !.period = None], [Op("list", 1) EXCEPT !.page = 0]}

With(ids) == [NoTables EXCEPT !.ns = [i \in Ids |-> IF i \in ids THEN a ELSE None],
                              !.gen = [i \in Ids |-> IF i = 1 /\ i \in ids THEN 1 ELSE 0]]
\* A namespace with a budget that is spent.
Budgeted(kind) ==
  [With({1}) EXCEPT !.cadence[1] = IF kind = None THEN None ELSE [kind |-> kind, limit |-> 2],
                    !.active[1] = 1, !.rows[1][1] = [limit |-> 2, spent |-> 2]]
Listed == [With({}) EXCEPT !.listing = [source |-> old, stale |-> FALSE]]

Serving(backend, ops, tables, what) ==
  [backend |-> backend, size |-> 2, reader |-> TRUE,
   ops |-> [c \in Callers |-> IF c = c1 THEN ops[1] ELSE IF c = c2 THEN ops[2] ELSE ops[3]],
   file |-> {}, tables |-> tables, indexed |-> {}, sources |-> [r \in Replicas |-> None],
   overlap |-> FALSE, faults |-> what]

AllFaults == Faults \ {"fetch"}

MCConfigs == {
  \* Every way a session ends, with sessions short.
  [Serving("postgres", <<Op("infer", 1), Op("get", 1), Op("delete", 1)>>, With({1}), AllFaults)
     EXCEPT !.size = 1],
  Serving("postgres", <<Op("create", 1), Op("usage", 1), Op("replace", 1)>>, With({}),
          {"cancel", "connect", "idle"}),
  \* A list that is paged while namespaces come and go.
  Serving("postgres", <<Op("list", 1), Op("create", 1), Op("delete", 2)>>, With({2, 3}), {"cancel"}),
  Serving("sqlite", <<Op("list", 1), Op("delete", 1), Op("create", 1)>>, With({1, 3}), {"cancel"}),
  \* Budgets over a namespace that goes.
  Serving("postgres", <<Op("policy", 1), Op("delete", 1), Op("create", 1)>>, Budgeted("fixed"), {}),
  Serving("postgres", <<Op("policy", 1), Op("delete", 1), Monthly(1)>>, Budgeted(None), {"query"}),
  Serving("postgres", <<Op("infer", 1), Op("delete", 1), Monthly(1)>>, With({1}),
          {"query", "cancel"}),
  Serving("sqlite", <<Op("put_budget", 1), Op("get_budget", 1), Op("delete", 1)>>, With({1}),
          {"query", "cancel"}),
  Serving("sqlite", <<Op("policy", 1), Op("put_policy", 1), Op("infer", 1)>>, Budgeted("monthly"),
          {"cancel"}),
  \* The usage index; the models of a provider.
  [Serving("sqlite", <<Op("usage", 1), Op("usage", 1), Op("delete", 1)>>, With({1}), {"cancel"})
     EXCEPT !.indexed = Records],
  [Serving("postgres", <<Op("append", 1), Op("usage", 1), Op("models", 1)>>, With({1}), {"cancel"})
     EXCEPT !.indexed = Records],
  \* The namespaces of the file.
  [Serving("postgres", <<Op("seed", 1), Op("delete", 1), Op("get", 2)>>, With({1}), {"query"})
     EXCEPT !.file = {1, 2}],
  Serving("sqlite", SetToSeq(Refused), With({1}), {}),
  \* What the Store, or the handler, calls malformed.
  Serving("sqlite", <<[Op("put_policy", 1) EXCEPT !.period = None], Op("put_budget", 1),
                      [Op("put_policy", 1) EXCEPT !.limit = MaxAmount + 1]>>, With({1}), {}),
  Serving("postgres", <<[Op("list", 1) EXCEPT !.page = 0], Op("delete", 1),
                        [Op("put_budget", 1) EXCEPT !.limit = MaxAmount + 1]>>, With({1}), {}),
  \* Another base_url is deployed.
  [Serving("postgres", <<None, None, None>>, Listed, {"fetch"})
     EXCEPT !.sources = [r \in Replicas |-> IF r = r1 THEN old ELSE new]],
  [Serving("postgres", <<None, None, None>>, Listed, {"fetch", "query"})
     EXCEPT !.sources = [r \in Replicas |-> IF r = r1 THEN old ELSE new]],
  [Serving("postgres", <<None, None, None>>, With({}), {"fetch", "query"})
     EXCEPT !.sources = [r \in Replicas |-> new], !.overlap = TRUE]}
=============================================================================
