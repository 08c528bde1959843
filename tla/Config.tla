------------------------------- MODULE Config -------------------------------
(***************************************************************************)
(* The configuration file of the gateway (crates/gateway/src/config.rs):   *)
(* what loading it fills in, and what Config::validate refuses.  A         *)
(* configuration is a record with one field per section.  A text field is  *)
(* "" when it is absent or blank (the code treats both alike), and an      *)
(* optional number is <<>> or <<n>>.  A name that may hold slashes, a      *)
(* provider's id or a model's, is the sequence of its parts between them:  *)
(* "a/b" is <<"a", "b">>, and p/m is p \o m.  A glob is the set of names   *)
(* it permits, or BadGlob when parse_glob refuses it.                      *)
(***************************************************************************)
EXTENDS Integers, Sequences, FiniteSets, FiniteSetsExt, SequencesExt

CONSTANTS
    MaxPermits,        \* Semaphore::MAX_PERMITS
    MaxIndexBatch,     \* store::MAX_USAGE_INDEX_BATCH
    MaxTimeout,        \* MAX_STORAGE_REQUEST_TIMEOUT_MS
    MaxFlush,          \* MAX_USAGE_INDEX_FLUSH_INTERVAL_MS
    DefaultInFlight, DefaultStreams, DefaultPerTenant, DefaultBatch

\* The shipped defaults sit in this order (1024, 512, 256), all below the bound.
ASSUME DefaultsAssumption ==
    /\ {MaxPermits, MaxIndexBatch, MaxTimeout, MaxFlush, DefaultInFlight,
        DefaultStreams, DefaultPerTenant, DefaultBatch} \subseteq Nat \ {0}
    /\ DefaultPerTenant <= DefaultStreams /\ DefaultStreams <= DefaultInFlight
    /\ DefaultInFlight <= MaxPermits

Given(text) == text # ""
Written(option) == option # <<>>
Least(a, b) == IF a <= b THEN a ELSE b

BadGlob == {<<>>}
ValidGlob(g) == g # BadGlob
GlobPermits(g, name) == ValidGlob(g) /\ name \in g

-----------------------------------------------------------------------------
(* The sections of a file as serde accepts them; a positive bound that only    *)
(* validation asks for is a Nat here                                           *)

Text == STRING
Name == Seq(Text)
Globs == SUBSET Name
StorageSection ==
    [backend: {"sqlite", "postgres"}, path: Text, dsn: Text, create: BOOLEAN,
     capacity: Nat, max_batch: Nat, flush: Nat, timeout: Nat]
NamespaceEntry == [id: Text, default: BOOLEAN, fallback: BOOLEAN, segment: BOOLEAN]
ProviderEntry ==
    [id: Name, base_url: Text, kind: {"openai", "anthropic"}, unpriced: {"allow", "deny"}]
PriceEntry == [provider: Name, glob: Globs, rates: Nat]
CredentialEntry == [ns: Text, provider: Name, env: Text, label: Text, weight: Nat]
PoolSection == [threshold: Nat, cooldown: Nat]
FailoverSection == [attempts: Nat, timeout: Nat, threshold: Nat, cooldown: Nat]
TransportSection == [timeout: Nat, max_response: Nat, max_error: Nat]
ShutdownSection == [deadline: Nat, flush: Nat]
KeyEntry == [env: Text, file: Text, ns: Text]
SinkEntry ==
    [kind: {"stdout", "otlp", "postgres"}, dsn: Text, table: Text, create: BOOLEAN,
     capacity: Nat, max_batch: Seq(Nat), flush: Nat]
JournalSection ==
    [backend: {"none", "postgres"}, dsn: Text, schema: Text, consumer: Text,
     max_events: Nat, attempts: Nat, claim: Nat, connections: Nat, timeouts: Nat,
     lease: Nat, retain: Nat]
CatalogSection ==
    [source: {"none", "seed", "models-dev"}, store: {"memory", "postgres"}, url: Text,
     dsn: Text, schema: Text, interval: Nat, timeout: Nat, retry_initial: Nat,
     retry_max: Nat, connect: Nat, operation: Nat, payload: Nat]
AdmissionSection ==
    [request_bytes: Nat, max_in_flight: Nat, streams: Seq(Nat), per_tenant: Seq(Nat),
     tenants: Nat, queue: Nat, wait: Nat, pending: Seq(Nat), executing: Nat,
     max_prompt: Nat, max_output: Nat]

ConfigFile ==
    [withdrawn: SUBSET Text, storage: Seq(StorageSection), discovery: Nat,
     namespaces: Seq(NamespaceEntry), providers: Seq(ProviderEntry),
     prices: Seq(PriceEntry), blocklist: SUBSET Globs, pool: PoolSection,
     failover: FailoverSection, transport: TransportSection, shutdown: ShutdownSection,
     credentials: Seq(CredentialEntry), keys: Seq(KeyEntry), sinks: Seq(SinkEntry),
     journal: JournalSection, admission: AdmissionSection, catalog: CatalogSection]

-----------------------------------------------------------------------------
(* Loading: the ceilings and batches the file leaves out *)

\* Mutant: a default does not follow the ceiling it must stay under.
BugClamp(a, option, default) == IF Written(option) THEN option[1] ELSE default

\* A sub-ceiling that was not written follows a lowered max_in_flight.
Clamp(a, option, default) ==
    IF Written(option) THEN option[1]
    ELSE IF a.max_in_flight > 0 THEN Least(default, a.max_in_flight) ELSE default

\* One that would reach the global ceiling isolates nobody and is turned off.
PerTenant(a) ==
    IF Written(a.per_tenant) THEN a.per_tenant[1]
    ELSE IF a.max_in_flight > 0 /\ DefaultPerTenant >= a.max_in_flight THEN 0
    ELSE DefaultPerTenant

DefaultPending(inFlight) ==
    Least(4 * (IF inFlight > 0 THEN inFlight ELSE DefaultInFlight), MaxPermits)

LoadAdmission(a) ==
    [a EXCEPT !.streams = Clamp(a, a.streams, DefaultStreams),
              !.per_tenant = PerTenant(a),
              !.pending = IF Written(a.pending) THEN a.pending[1]
                          ELSE DefaultPending(a.max_in_flight)]

LoadSink(s) == [s EXCEPT !.max_batch = IF Written(@) THEN @[1] ELSE DefaultBatch]

\* The batch a sink is built with.
BatchSettings(s) == [capacity |-> s.capacity, max_batch |-> Least(s.max_batch, s.capacity)]

\* Config::load: the loaded sections beside the file they come from, which is
\* where the `explicit` flags are read.
Load(w) ==
    [file |-> w,
     admission |-> LoadAdmission(w.admission),
     sinks |-> [i \in DOMAIN w.sinks |-> LoadSink(w.sinks[i])]]

-----------------------------------------------------------------------------
(* Validation, one operator per function; TRUE when the section is accepted *)

WithdrawnOK(w) == w.withdrawn = {}

StorageOK(s) ==
    /\ s.capacity \in 1..MaxPermits
    /\ s.max_batch \in 1..Least(MaxIndexBatch, s.capacity)
    /\ s.flush <= MaxFlush
    /\ s.timeout \in 1..MaxTimeout
    /\ \/ s.backend = "sqlite" /\ Given(s.path) /\ s.path # ":memory:" /\ ~Given(s.dsn)
       \/ s.backend = "postgres" /\ Given(s.dsn) /\ ~Given(s.path)

Ids(entries) == {entries[i].id : i \in DOMAIN entries}

\* A blank model is no glob.
PriceBookOK(w) ==
    \A i \in DOMAIN w.prices :
        /\ w.prices[i].provider # <<"">> /\ w.prices[i].provider \in Ids(w.providers)
        /\ ValidGlob(w.prices[i].glob)

BlocklistOK(w) == \A g \in w.blocklist : ValidGlob(g)

PoolOK(w) ==
    /\ w.pool.threshold > 0 /\ w.pool.cooldown > 0
    /\ w.failover.attempts > 0 /\ w.failover.timeout > 0
    /\ w.failover.threshold > 0 /\ w.failover.cooldown > 0

CredentialsOK(w) ==
    /\ \A i \in DOMAIN w.credentials : LET c == w.credentials[i] IN
        /\ Given(c.env) /\ c.weight > 0
        /\ c.ns \in Ids(w.namespaces) /\ c.provider \in Ids(w.providers)
    /\ \A i, j \in DOMAIN w.credentials :
        LET a == w.credentials[i]  b == w.credentials[j] IN
        i # j => <<a.ns, a.provider, a.label>> # <<b.ns, b.provider, b.label>>

GatewayKeysOK(w) ==
    /\ Len(w.keys) = 1
    /\ Given(w.keys[1].env) # Given(w.keys[1].file)
    /\ w.keys[1].ns \in Ids(w.namespaces)

\* Only a ceiling that was written can contradict another.
AdmissionOK(w, a) ==
    /\ w.request_bytes > 0
    /\ a.per_tenant > 0 => w.tenants > 0
    /\ w.max_in_flight > 0 /\ Written(w.per_tenant) => a.per_tenant <= w.max_in_flight
    /\ w.max_in_flight > 0 /\ Written(w.streams) => a.streams <= w.max_in_flight
    /\ \A n \in {w.max_in_flight, a.streams, w.queue, a.pending, w.executing} : n <= MaxPermits
    /\ (w.queue = 0) = (w.wait = 0)
    /\ w.queue > 0 => w.max_in_flight > 0
    /\ w.max_in_flight > 0 /\ Written(w.pending) /\ a.pending > 0
        => a.pending >= w.max_in_flight

TransportOK(t) ==
    /\ t.timeout > 0 /\ t.max_response > 0 /\ t.max_error > 0
    /\ t.max_error <= t.max_response

ShutdownOK(s) == s.deadline > 0 /\ s.flush > 0

\* RefreshSchedule::validate and BackoffPolicy::validate.
ScheduleOK(c) ==
    /\ c.timeout <= c.interval
    /\ c.retry_initial <= c.retry_max /\ c.retry_max <= c.interval

\* A disabled section is not looked at; "https" stands for a URL that parses,
\* names an HTTPS host and carries no credentials.
CatalogOK(c) ==
    c.source # "none" =>
        /\ c.interval > 0 /\ c.timeout > 0 /\ c.retry_initial > 0 /\ c.retry_max > 0
        /\ c.connect > 0 /\ c.operation > 0 /\ c.payload > 0
        /\ ScheduleOK(c)
        /\ IF c.source = "models-dev" THEN c.url \in {"", "https"} ELSE ~Given(c.url)
        /\ c.store = "postgres" => Given(c.dsn) /\ c.schema # "bad"

SinkOK(w, s) ==
    s.kind = "postgres" =>
        /\ s.capacity > 0 /\ s.max_batch > 0 /\ s.flush > 0
        /\ Written(w.max_batch) => s.max_batch <= s.capacity
        /\ Given(s.dsn) /\ s.table # "bad"

JournalOK(w) ==
    w.journal.backend = "postgres" =>
        /\ Given(w.journal.dsn) /\ w.journal.schema # "bad" /\ Given(w.journal.consumer)
        /\ w.journal.max_events > 0 /\ w.journal.attempts > 0 /\ w.journal.claim > 0
        /\ w.journal.connections >= 2
        /\ w.journal.timeouts > 0 /\ w.journal.lease > 0 /\ w.journal.retain > 0
        /\ \E i \in DOMAIN w.sinks : w.sinks[i].kind # "otlp"

\* Config::validate on what was loaded.
Valid(c) == LET w == c.file IN
    /\ WithdrawnOK(w)
    /\ w.storage # <<>> /\ StorageOK(w.storage[1])
    /\ w.discovery > 0
    /\ Cardinality({i \in DOMAIN w.namespaces : w.namespaces[i].default}) = 1
    /\ PriceBookOK(w) /\ BlocklistOK(w) /\ PoolOK(w)
    /\ AdmissionOK(w.admission, c.admission)
    /\ TransportOK(w.transport) /\ ShutdownOK(w.shutdown) /\ CatalogOK(w.catalog)
    /\ CredentialsOK(w) /\ GatewayKeysOK(w)
    /\ \A i \in DOMAIN w.sinks : SinkOK(w.sinks[i], c.sinks[i])
    /\ JournalOK(w)

-----------------------------------------------------------------------------
(* Look-ups in an accepted configuration; the first entry in file order wins *)

First(entries, Test(_)) == entries[Min({i \in DOMAIN entries : Test(entries[i])})]

default_namespace(w) == LET Test(n) == n.default IN First(w.namespaces, Test).id
Provider(w, id) == LET Test(p) == p.id = id IN First(w.providers, Test)
Namespace(w, id) == LET Test(n) == n.id = id IN First(w.namespaces, Test)

\* The [[price]] rule for an offering: <<>> or <<rates>>.
price_for(w, provider, model) ==
    LET fits == {i \in DOMAIN w.prices : /\ w.prices[i].provider = provider
                                         /\ GlobPermits(w.prices[i].glob, model)}
    IN IF fits = {} THEN <<>> ELSE <<w.prices[Min(fits)].rates>>

\* The deployment's blocklist and the namespace's own, on both spellings.
is_blocked(w, prefixed, bare, extra) ==
    \E g \in w.blocklist \cup extra : GlobPermits(g, prefixed) \/ GlobPermits(g, bare)
=============================================================================
