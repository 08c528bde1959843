------------------------------ MODULE Snapshot ------------------------------
(***************************************************************************)
(* What an accepted configuration becomes when the process resolves it     *)
(* (state.rs, principals.rs, credentials.rs, key_material.rs), and the     *)
(* gates a request passes on it (routes/mod.rs, routes/auth.rs).  An       *)
(* environment maps the names of variables and files to their contents,    *)
(* "" when there are none that can be read.                                *)
(***************************************************************************)
EXTENDS Config

NoPool == [ns |-> "", creds |-> {}]

\* key_material::resolve: the secret, or "" for every error.
KeySource(k) == IF Given(k.env) THEN k.env ELSE k.file
KeyMaterial(k, env) == env[KeySource(k)]

\* Credentials::resolve: every declared credential's variable has a value.
CredentialsResolve(w, env) == \A i \in DOMAIN w.credentials : Given(env[w.credentials[i].env])

\* The pool of a (namespace, provider): its credentials, by their place in the file.
Pool(w, ns, provider) ==
    {i \in DOMAIN w.credentials : w.credentials[i].ns = ns /\ w.credentials[i].provider = provider}
HasPool(w, ns, provider) == Pool(w, ns, provider) # {}

\* ConfigSnapshot::build; one key is all a valid file declares.
Build(w, env) ==
    [config |-> w,
     secret |-> IF CredentialsResolve(w, env) THEN KeyMaterial(w.keys[1], env) ELSE ""]
Built(snapshot) == Given(snapshot.secret)

-----------------------------------------------------------------------------
(* Whose credentials a namespace is served with *)

\* A namespace created through the API is absent from the file and inherits
\* the platform's pool; one in the file has its own flag.
allow_platform_fallback(w, ns) ==
    /\ ns # default_namespace(w)
    /\ ns \in Ids(w.namespaces) => Namespace(w, ns).fallback

resolve_pool(w, ns, provider) ==
    IF HasPool(w, ns, provider) THEN [ns |-> ns, creds |-> Pool(w, ns, provider)]
    ELSE IF allow_platform_fallback(w, ns)
         /\ HasPool(w, default_namespace(w), provider)
    THEN [ns |-> default_namespace(w), creds |-> Pool(w, default_namespace(w), provider)]
    ELSE NoPool

is_present(w, ns, provider) ==
    \/ HasPool(w, ns, provider)
    \/ allow_platform_fallback(w, ns) /\ HasPool(w, default_namespace(w), provider)

\* Mutant: a platform pool the namespace's own one shadows is listed too.
BugStatus(w, ns) ==
    {np \in {ns, default_namespace(w)} \X Ids(w.providers) :
        HasPool(w, np[1], np[2]) /\ (np[1] = ns \/ allow_platform_fallback(w, ns))}

\* GET /v1/credentials: the pools shown to one namespace, and to the operator.
status(w, ns) ==
    {<<ns, p>> : p \in {p \in Ids(w.providers) : HasPool(w, ns, p)}} \cup
    (IF allow_platform_fallback(w, ns)
     THEN {<<default_namespace(w), p>> : p \in {p \in Ids(w.providers) :
             HasPool(w, default_namespace(w), p) /\ ~HasPool(w, ns, p)}}
     ELSE {})
statusAll(w) ==
    {np \in Ids(w.namespaces) \X Ids(w.providers) : HasPool(w, np[1], np[2])}

\* Discovery's credentials: the platform's pool, else the first tenant's (by
\* the order of `names`, which stands for the lexicographic one).
discovery_leases(w, provider, names) ==
    LET own == resolve_pool(w, default_namespace(w), provider)
        tenants == {i \in DOMAIN names : HasPool(w, names[i], provider)}
        first == names[Min(tenants)]
    IN IF own # NoPool THEN own
       ELSE IF tenants = {} THEN NoPool
       ELSE [ns |-> first, creds |-> Pool(w, first, provider)]

\* The static key may see every namespace's credentials when it is declared in
\* the default namespace.  On a namespaced route the middleware has already
\* replaced the key's namespace by the one in the path.
holds_direct_operator_authority(w, ns) == ns = default_namespace(w)

\* GET /v1/credentials?namespaces=<view>: the pools listed, or the refusal.
list_credentials(w, ns, view) ==
    IF view = "own" THEN [answer |-> "ok", data |-> status(w, ns)]
    ELSE IF view # "all" THEN [answer |-> "bad_request", data |-> {}]
    ELSE IF holds_direct_operator_authority(w, ns) THEN [answer |-> "ok", data |-> statusAll(w)]
    ELSE [answer |-> "scope_insufficient", data |-> {}]

\* The models discovery cached for a provider, when it found them at its base_url.
data_if_source(cached, p) ==
    IF p.id \in DOMAIN cached /\ cached[p.id].source = p.base_url THEN cached[p.id].data ELSE {}

\* GET /v1/models: the names listed for one configured provider, `extra` and the
\* deployment's blocklist removed.
list_models(w, cached, p, extra) ==
    {p.id \o bare : bare \in {bare \in data_if_source(cached, p) :
                               ~is_blocked(w, p.id \o bare, bare, extra)}}

-----------------------------------------------------------------------------
(* Routes *)

Routes == {"chat", "messages", "embeddings", "responses"}
WireOf(route) == IF route = "messages" THEN "anthropic" ELSE "openai"
KindWire(kind) == IF kind = "anthropic" THEN "anthropic" ELSE "openai"
Serves(route, kind) == WireOf(route) = KindWire(kind)

\* The delivery posture of a streamed answer; "" is a route that cannot stream.
StreamDelivery(route) ==
    CASE route = "chat" -> "reemit" [] route = "embeddings" -> "" [] OTHER -> "passthrough"
Streamable(route) == Given(StreamDelivery(route))
PinsAffinity(route) == route = "responses"
IsContinuation(r) == PinsAffinity(r.route) /\ r.previous = "id"

RoutingControlsOK(r) ==
    /\ r.stream # "bad" /\ r.previous # "bad"
    /\ r.stream = "yes" => Streamable(r.route)

\* The largest of the spellings a body carries, <<>> when it carries none.
RequestedOutput(r) == IF r.output = {} THEN <<>> ELSE <<Max(r.output)>>

EstimateOK(a, r) ==
    /\ a.max_prompt > 0 => r.prompt <= a.max_prompt
    /\ a.max_output > 0 /\ Written(RequestedOutput(r)) => RequestedOutput(r)[1] <= a.max_output

\* split_model_id cuts a name at its first slash; a provider's id is not kept from
\* having one.
Target(name) ==
    [provider |-> SubSeq(name, 1, Least(1, Len(name))), model |-> SubSeq(name, 2, Len(name))]
split_model_id(name) ==
    IF Len(name) < 2 THEN "model_unprefixed"
    ELSE IF Target(name).provider = <<"">> THEN "unknown_provider"
    ELSE IF Target(name).model = <<"">> THEN "bad_request" ELSE "ok"

\* What a request is charged at: the catalogue's rates, else the file's.
Rates(w, catalogue, r) ==
    LET t == Target(r.name)
    IN IF <<t.provider, t.model>> \in DOMAIN catalogue THEN catalogue[t.provider, t.model]
       ELSE price_for(w, t.provider, t.model)

\* inbound_body: how a body that is no JSON document is refused.
InboundBody(r) ==
    CASE r.body = "large" -> "request_too_large"
      [] r.body = "media" -> "unsupported_media_type"
      [] r.body = "bad" -> "bad_request"
      [] OTHER -> "ok"

\* The gates of `serve` before admission, in order: the first that holds refuses.
\* The name of a body without a model is <<>>.
Refusals(w, extra, rates, r) ==
    LET target == Target(r.name)
        known == target.provider \in Ids(w.providers)
        provider == Provider(w, target.provider)
    IN <<[is |-> InboundBody(r) # "ok", error |-> InboundBody(r)],
         [is |-> ~RoutingControlsOK(r), error |-> "bad_request"],
         [is |-> r.name = <<>>, error |-> "bad_request"],
         [is |-> split_model_id(r.name) # "ok", error |-> split_model_id(r.name)],
         [is |-> ~known, error |-> "unknown_provider"],
         [is |-> is_blocked(w, r.name, target.model, extra), error |-> "model_blocked"],
         [is |-> known /\ ~Serves(r.route, provider.kind), error |-> "unsupported_wire"],
         [is |-> known /\ rates = <<>> /\ provider.unpriced = "deny", error |-> "unpriced_model"],
         [is |-> ~EstimateOK(w.admission, r), error |-> "too_large"]>>

Gate(w, extra, rates, r) ==
    LET hits == {i \in DOMAIN Refusals(w, extra, rates, r) : Refusals(w, extra, rates, r)[i].is}
    IN IF hits = {} THEN "ok" ELSE Refusals(w, extra, rates, r)[Min(hits)].error
=============================================================================
