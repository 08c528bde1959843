------------------------------- MODULE MCBoot -------------------------------
(***************************************************************************)
(* Small deployments for TLC: one good configuration, every variation of   *)
(* one section of it at a time, every state of the Store's tables with two *)
(* replicas booting, and a few configurations with requests.               *)
(***************************************************************************)
EXTENDS Boot

O == <<"o">>
X == <<"x">>
GoodAdmission ==
    [request_bytes |-> 1, max_in_flight |-> 4, streams |-> <<>>, per_tenant |-> <<>>,
     tenants |-> 1, queue |-> 0, wait |-> 0, pending |-> <<>>, executing |-> 1,
     max_prompt |-> 2, max_output |-> 2]
GoodStorage ==
    [backend |-> "postgres", path |-> "", dsn |-> "D", create |-> TRUE, capacity |-> 2,
     max_batch |-> 1, flush |-> 1, timeout |-> 1]
GoodCatalog ==
    [source |-> "none", store |-> "memory", url |-> "", dsn |-> "", schema |-> "",
     interval |-> 2, timeout |-> 1, retry_initial |-> 1, retry_max |-> 2,
     connect |-> 1, operation |-> 1, payload |-> 1]
GoodJournal ==
    [backend |-> "none", dsn |-> "D", schema |-> "", consumer |-> "c", max_events |-> 1,
     attempts |-> 1, claim |-> 1, connections |-> 2, timeouts |-> 1, lease |-> 1, retain |-> 1]
Good ==
    [withdrawn |-> {}, storage |-> <<GoodStorage>>, discovery |-> 1,
     namespaces |-> <<[id |-> "a", default |-> FALSE, fallback |-> FALSE, segment |-> TRUE],
                      [id |-> "p", default |-> TRUE, fallback |-> FALSE, segment |-> TRUE]>>,
     providers |-> <<[id |-> O, base_url |-> "u", kind |-> "openai", unpriced |-> "deny"],
                     [id |-> X, base_url |-> "u", kind |-> "anthropic", unpriced |-> "allow"]>>,
     prices |-> <<[provider |-> O, glob |-> {<<"m">>}, rates |-> 1]>>,
     blocklist |-> {}, pool |-> [threshold |-> 1, cooldown |-> 1],
     failover |-> [attempts |-> 1, timeout |-> 1, threshold |-> 1, cooldown |-> 1],
     transport |-> [timeout |-> 1, max_response |-> 2, max_error |-> 1],
     shutdown |-> [deadline |-> 1, flush |-> 1],
     credentials |-> <<[ns |-> "p", provider |-> O, env |-> "K", label |-> "k", weight |-> 1],
                       [ns |-> "p", provider |-> O, env |-> "L", label |-> "l", weight |-> 1],
                       [ns |-> "a", provider |-> X, env |-> "K", label |-> "k", weight |-> 1]>>,
     keys |-> <<[env |-> "G", file |-> "", ns |-> "p"]>>,
     sinks |-> <<>>, journal |-> GoodJournal, admission |-> GoodAdmission,
     catalog |-> GoodCatalog]

-----------------------------------------------------------------------------
(* One section at a time *)

N == {0, 2, 4, 9}
Opt(S) == {<<>>} \cup {<<n>> : n \in S}

AdmissionFiles ==
    {[Good EXCEPT !.admission = [@ EXCEPT !.max_in_flight = i, !.streams = s, !.per_tenant = t,
                                          !.pending = q]] :
        i \in N \cup {3}, s \in Opt(N), t \in Opt(N), q \in Opt(N)} \cup
    {[Good EXCEPT !.admission = [@ EXCEPT !.queue = q, !.wait = w, !.max_in_flight = i, !.tenants = n]] :
        q \in {0, 1, 9}, w \in {0, 1}, i \in {0, 2}, n \in {0, 1}} \cup
    {[Good EXCEPT !.admission.request_bytes = 0], [Good EXCEPT !.admission.executing = 9]}
StorageFiles ==
    {[Good EXCEPT !.storage = <<[@[1] EXCEPT !.backend = b, !.path = p, !.dsn = d]>>] :
        b \in {"sqlite", "postgres"}, p \in {"", ":memory:", "f"}, d \in {"", "D", "U"}} \cup
    {[Good EXCEPT !.storage = <<[@[1] EXCEPT !.capacity = c, !.max_batch = m]>>] : c \in N, m \in 0..3} \cup
    {[Good EXCEPT !.storage = <<[@[1] EXCEPT !.flush = f, !.timeout = t]>>] : f \in {0, 9}, t \in {0, 1, 9}} \cup
    {[Good EXCEPT !.storage = <<>>]}
GraphFiles ==
    {[Good EXCEPT !.withdrawn = {"budget"}], [Good EXCEPT !.discovery = 0],
     [Good EXCEPT !.namespaces[1].default = TRUE], [Good EXCEPT !.namespaces[2].default = FALSE],
     [Good EXCEPT !.namespaces[1].segment = FALSE], [Good EXCEPT !.blocklist = {BadGlob}],
     [Good EXCEPT !.prices[1].provider = <<"q">>], [Good EXCEPT !.prices[1].glob = BadGlob],
     [Good EXCEPT !.providers[2].id = <<"">>, !.prices[1].provider = <<"">>, !.credentials[3].provider = <<"">>],
     [Good EXCEPT !.credentials[1].weight = 0], [Good EXCEPT !.credentials[1].env = ""],
     [Good EXCEPT !.credentials[1].env = "U"], [Good EXCEPT !.credentials[1].label = "l"],
     [Good EXCEPT !.credentials[1].ns = "q"], [Good EXCEPT !.credentials[1].provider = <<"q">>],
     [Good EXCEPT !.pool.cooldown = 0], [Good EXCEPT !.failover.attempts = 0],
     [Good EXCEPT !.transport.max_error = 3], [Good EXCEPT !.shutdown.deadline = 0],
     [Good EXCEPT !.namespaces[1].fallback = TRUE,
        !.credentials = Append(@, [ns |-> "a", provider |-> O, env |-> "L", label |-> "l", weight |-> 1])],
     [Good EXCEPT !.keys = <<>>], [Good EXCEPT !.keys = <<@[1], @[1]>>]} \cup
    {[Good EXCEPT !.keys = <<[env |-> e, file |-> f, ns |-> n]>>] :
        e \in {"", "G", "U"}, f \in {"", "F", "U"}, n \in {"p", "q"}}
Sink(kind) == [kind |-> kind, dsn |-> "D", table |-> "", create |-> FALSE, capacity |-> 2,
               max_batch |-> <<>>, flush |-> 1]
SinkFiles ==
    {[Good EXCEPT !.sinks = <<[Sink("postgres") EXCEPT !.capacity = c, !.max_batch = m,
                                   !.create = t, !.dsn = d]>>] :
        c \in {0, 1, 4}, m \in Opt({0, 1, 2}), t \in BOOLEAN, d \in {"D", "U"}} \cup
    {[Good EXCEPT !.sinks = s, !.journal = [@ EXCEPT !.backend = "postgres", !.connections = c,
                                                     !.dsn = d, !.lease = l]] :
        s \in {<<>>, <<Sink("otlp")>>, <<Sink("otlp"), Sink("stdout")>>, <<Sink("postgres")>>},
        c \in {1, 2}, d \in {"", "D", "U"}, l \in {0, 1}}
CatalogFiles ==
    {[Good EXCEPT !.catalog = [@ EXCEPT !.source = s, !.url = u, !.store = t, !.dsn = d]] :
        s \in {"none", "seed", "models-dev"}, u \in {"", "https", "http"},
        t \in {"memory", "postgres"}, d \in {"", "D", "U"}} \cup
    {[Good EXCEPT !.catalog = [@ EXCEPT !.source = "seed", !.interval = i, !.timeout = t,
                                        !.retry_initial = r, !.retry_max = m]] :
        i \in 0..2, t \in 0..3, r \in 0..2, m \in 0..3}

-----------------------------------------------------------------------------
Env0 == [n \in {"D", "K", "L", "G", "F", "U", ""} |-> IF n \in {"U", ""} THEN "" ELSE n]
Prices(rate) == [pm \in {<<O, <<"n">>>>} |-> <<rate>>]
NoTables == [s \in Sides |-> [k \in Kinds |-> NoTable]]

Ask == [key |-> "G", segment |-> TRUE, ns |-> "p", route |-> "chat", stream |-> "no",
        previous |-> "none", body |-> "json",
        name |-> <<"o", "m">>, prompt |-> 1, output |-> {1}]

Start == [file |-> Good, env |-> Env0, tables |-> NoTables, sinkTable |-> "absent",
          boots |-> {"b1"}, requests |-> {},
          body |-> [r \in {"r1", "r2"} |-> Ask], prices |-> <<>>, imports |-> {}, editions |-> {},
          names |-> <<"a", "p">>, cached |-> [p \in {O, X, <<"o", "v">>, <<"t", "v">>} |->
             [source |-> IF p = X THEN "old" ELSE "u", data |-> {<<"m">>, <<"n">>, <<"v", "m">>}]]]

FileScenarios ==
    {[Start EXCEPT !.file = f] : f \in AdmissionFiles \cup StorageFiles \cup GraphFiles \cup CatalogFiles} \cup
    {[Start EXCEPT !.file = f, !.sinkTable = t] :
        f \in SinkFiles, t \in {"absent", "current", "behind", "ancient"}}

\* Each final table is missing, empty or filled, the draft likewise or withdrawn.
Cell(rows) == [is |-> TRUE, old |-> FALSE, rows |-> rows]
Ledger(origin) ==
    {[k \in Kinds |-> IF k \in S THEN Cell({origin}) ELSE IF k \in T THEN EmptyTable ELSE NoTable] :
        S \in {{}, {"budget"}, Kinds}, T \in {{}, {"active"}, Kinds}}
Withdrawn == [k \in Kinds |-> [is |-> TRUE, old |-> TRUE, rows |-> {"draft"}]]
TableScenarios ==
    {[Start EXCEPT !.tables = [s \in Sides |-> IF s = "final" THEN f ELSE d],
                   !.boots = {"b1", "b2"}, !.requests = {"r1"},
                   !.file.storage = <<[GoodStorage EXCEPT !.create = c]>>] :
        f \in Ledger("final"), d \in Ledger("draft") \cup {Withdrawn}, c \in BOOLEAN}

\* Requests that are well formed, in pairs, and malformed ones on their own.
Pinned == [Ask EXCEPT !.ns = "a", !.route = "responses"]
Asks == {Ask, Pinned, [Ask EXCEPT !.name = <<"o", "n">>, !.stream = "yes"],
         [Ask EXCEPT !.ns = "z", !.output = {}], [Ask EXCEPT !.name = <<"o", "v", "m">>],
         [Pinned EXCEPT !.previous = "id"],
         [Ask EXCEPT !.ns = "a", !.name = <<"x", "m">>, !.route = "messages"]}
Odd == {[Ask EXCEPT !.key = "K"], [Ask EXCEPT !.segment = FALSE], [Ask EXCEPT !.body = "large"],
        [Ask EXCEPT !.body = "media"], [Ask EXCEPT !.body = "bad"], [Ask EXCEPT !.stream = "bad"],
        [Ask EXCEPT !.previous = "bad"], [Ask EXCEPT !.route = "embeddings", !.stream = "yes"],
        [Ask EXCEPT !.name = <<"o", "n">>], [Ask EXCEPT !.name = <<>>], [Ask EXCEPT !.name = <<"m">>],
        [Ask EXCEPT !.name = <<"", "m">>], [Ask EXCEPT !.name = <<"o", "">>],
        [Ask EXCEPT !.name = <<"q", "m">>], [Ask EXCEPT !.route = "messages"],
        [Ask EXCEPT !.prompt = 3], [Ask EXCEPT !.output = {1, 3}]}
Served == [Start EXCEPT !.file.storage = <<[GoodStorage EXCEPT !.backend = "sqlite", !.path = "f", !.dsn = ""]>>,
                        !.file.catalog.source = "seed", !.prices = Prices(2), !.imports = {Prices(3)}, !.editions = {{}, {{<<"m">>}}}]
ServedFiles ==
    {Served.file, [Served.file EXCEPT !.namespaces[1].fallback = TRUE,
                                      !.blocklist = {{<<"o", "n">>}}],
     \* Ids with a slash: one that is cut to another provider's, and one to nobody's.
     [Served.file EXCEPT !.providers =
        @ \o <<[@[1] EXCEPT !.id = <<"o", "v">>], [@[1] EXCEPT !.id = <<"t", "v">>]>>]}
RequestScenarios ==
    {[Served EXCEPT !.requests = {"r1", "r2"}, !.file = f,
                    !.body = [r \in {"r1", "r2"} |-> IF r = "r1" THEN a ELSE b]] :
        f \in ServedFiles, a \in Asks, b \in {Ask, Pinned}} \cup
    {[Served EXCEPT !.requests = {"r1"}, !.editions = {}, !.prices = <<>>, !.body = [r \in {"r1", "r2"} |-> a]] : a \in Odd}

MCScenarios == FileScenarios \cup TableScenarios \cup RequestScenarios
=============================================================================
