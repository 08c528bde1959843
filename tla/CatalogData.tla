---------------------------- MODULE CatalogData -----------------------------
(***************************************************************************)
(* What a catalogue document becomes: the models.dev adapter's             *)
(* normalisation (backends/models_dev.rs), the content it is filed as and  *)
(* the difference of two contents (backends/catalog.rs), and the billable  *)
(* rates compiled from it (backends/catalog_price.rs).                     *)
(*                                                                         *)
(* A model id is the sequence of its path segments.  A string of the       *)
(* document is [v, control]: what is left of it after white space is        *)
(* collapsed, and whether a control character is in it.  An optional value *)
(* is a sequence of at most one.  A reading that fails is `Refused`; which *)
(* of several faults is the one reported is left out, and so are pointers. *)
(***************************************************************************)
EXTENDS Integers, Sequences, FiniteSets, SequencesExt, FiniteSetsExt, Functions

CONSTANTS
    Places,          \* decimal places of a dollar an observed rate keeps (9)
    NanosPerMicro,   \* observed units in a billable one (1000)
    RateMax,         \* the largest u64
    WideMax,         \* the largest u128
    Tolerance,       \* one part in so many is binary noise
    LegacyContext,   \* LEGACY_LONG_CONTEXT_TOKENS
    Samples,         \* the documents an import may be given
    Refreshes        \* the ones among them that follow one another

ASSUME CatalogDataAssumption ==
    /\ Places \in Nat /\ {NanosPerMicro, Tolerance} \subseteq Nat \ {0, 1}
    /\ RateMax \in Nat /\ WideMax \in Nat /\ RateMax <= WideMax /\ LegacyContext \in Nat
    /\ Refreshes \subseteq Samples

VARIABLE import   \* the document read last, whether it was admitted, the content before and after

Refused == [refused |-> TRUE]
Got(v) == [refused |-> FALSE, v |-> v]
None0 == <<>>

-----------------------------------------------------------------------------
(* Numbers *)

\* parse_decimal: `number` says that the text is a JSON number at all; `exponent`
\* is the stated one less the length of the fraction.
parse_decimal(raw) ==
    IF ~raw.number \/ raw.negative \/ raw.digits > WideMax THEN Refused
    ELSE Got([digits |-> raw.digits, exponent |-> raw.exponent])

is_binary_artifact(digits, divisor, remainder) ==
    LET distance == Min({remainder, divisor - remainder})
    IN distance * Tolerance <= WideMax /\ distance * Tolerance <= digits

InRange(n) == IF n \in 0..RateMax THEN Got(n) ELSE Refused

\* The decimal point moved by `shift` places.
Grown(digits, factor) ==
    IF factor \notin 1..WideMax \/ digits * factor > WideMax THEN Refused ELSE InRange(digits * factor)

\* Mutant: a value of too many places is cut.
BugShrunk(digits, divisor) == InRange(digits \div divisor)

Shrunk(digits, divisor) ==
    LET remainder == digits % divisor
        quotient == digits \div divisor
    IN IF divisor \notin 1..WideMax THEN Refused
       ELSE IF remainder = 0 THEN InRange(quotient)
       ELSE IF is_binary_artifact(digits, divisor, remainder)
       THEN InRange(IF remainder * 2 >= divisor THEN quotient + 1 ELSE quotient)
       ELSE Refused

Moved(d, shift) == IF shift >= 0 THEN Grown(d.digits, 10^shift) ELSE Shrunk(d.digits, 10^(-shift))

nano_dollars_per_million(raw) ==
    IF parse_decimal(raw).refused THEN Refused ELSE Moved(parse_decimal(raw).v, raw.exponent + Places)

-----------------------------------------------------------------------------
(* Prices *)

BaseRates == {"input", "output"}
AudioRates == {"input_audio", "output_audio"}

\* What was read: the values, if every one of them could be.
AllRead(f) == IF \E k \in DOMAIN f : f[k].refused THEN Refused ELSE Got([k \in DOMAIN f |-> f[k].v])

\* rates: both base rates are stated, and every stated one can be read.
rates(stated) ==
    IF BaseRates \subseteq DOMAIN stated
    THEN AllRead([f \in DOMAIN stated |-> nano_dollars_per_million(stated[f])])
    ELSE Refused

states_only_base_rates(cost) ==
    DOMAIN cost.rates \subseteq BaseRates /\ cost.tiers = <<>> /\ cost.legacy = None0

WithThreshold(tier, r) == IF r.refused THEN Refused ELSE Got([threshold |-> tier.size[1], rates |-> r.v])
ReadTier(tier) ==
    IF tier.kind # "context" \/ tier.size = None0 THEN Refused ELSE WithThreshold(tier, rates(tier.rates))

\* The tier above the legacy boundary that is the same schedule: the lowest one,
\* when it charges the legacy rates.
LegacyTier(tiers, above, legacy) ==
    {i \in above : /\ tiers[i].rates = legacy
                   /\ \A j \in above : tiers[i].threshold < tiers[j].threshold
                                       \/ (tiers[i].threshold = tiers[j].threshold /\ i <= j)}

\* The older spelling of one long-context tier, folded into the tiers.
WithLegacy(tiers, legacy) ==
    LET same == {i \in DOMAIN tiers : tiers[i].threshold = LegacyContext}
        above == {i \in DOMAIN tiers : tiers[i].threshold > LegacyContext}
        moved == LegacyTier(tiers, above, legacy)
    IN IF same # {}
       THEN IF tiers[Min(same)].rates = legacy THEN Got(tiers) ELSE Refused
       ELSE IF moved # {} THEN Got([tiers EXCEPT ![Min(moved)].threshold = LegacyContext])
       ELSE Got(Append(tiers, [threshold |-> LegacyContext, rates |-> legacy]))

Folded(tiers, legacy) ==
    IF tiers.refused \/ legacy.refused THEN Refused ELSE WithLegacy(tiers.v, legacy.v)
AllTiers(c) ==
    LET stated == AllRead([i \in DOMAIN c.tiers |-> ReadTier(c.tiers[i])])
    IN IF c.legacy = None0 THEN stated ELSE Folded(stated, rates(c.legacy[1]))

\* Sorted by threshold, none twice: a function of it.
ByThreshold(tiers, at) == [t \in at |-> (CHOOSE x \in Range(tiers) : x.threshold = t).rates]
Sorted(tiers, at) == IF Cardinality(at) # Len(tiers) THEN Refused ELSE Got(ByThreshold(tiers, at))
Schedule(tiers) == IF tiers.refused THEN Refused ELSE Sorted(tiers.v, {t.threshold : t \in Range(tiers.v)})
Observed(base, tiers) ==
    IF base.refused \/ tiers.refused THEN Refused ELSE Got(<<[base |-> base.v, tiers |-> tiers.v]>>)

\* price: nothing stated is no price, and a part of one is refused.
price(cost) ==
    IF cost = None0 THEN Got(None0)
    ELSE IF DOMAIN cost[1].rates \cap BaseRates = {} /\ states_only_base_rates(cost[1]) THEN Got(None0)
    ELSE Observed(rates(cost[1].rates), Schedule(AllTiers(cost[1])))

\* exact_micros and optional_micros: a rate that is not a whole micro-dollar, a
\* tier or an audio rate leaves the offering without a billable price.
model_price_from_cost(p) ==
    IF \/ DOMAIN p.tiers # {} \/ DOMAIN p.base \cap AudioRates # {}
       \/ \E f \in DOMAIN p.base : p.base[f] % NanosPerMicro # 0
    THEN None0
    ELSE <<[f \in DOMAIN p.base |-> p.base[f] \div NanosPerMicro]>>

-----------------------------------------------------------------------------
(* Facts *)

TextFields == {"display_name", "family", "knowledge_cutoff", "release_date", "last_updated"}
LimitFields == {"context_tokens", "input_tokens", "output_tokens"}
Modalities == {"text", "image", "audio", "video", "pdf"}
Lifecycles == {"available", "alpha", "beta", "deprecated"}

\* text: white space around it does not count, and blank is absent.
text(raw) == IF raw.v = "" THEN None0 ELSE <<raw.v>>
TextOK(raw) == ~raw.control

\* CatalogId::parse: no empty segment, no other character, not too long.
IdOK(id) == id # <<>> /\ \A i \in DOMAIN id : id[i] \notin {"", "bad"}

\* WireFlag: an object configures interleaving, and says nothing of the rest.
capabilities(flags) ==
    {c \in DOMAIN flags : flags[c] = "true" \/ (c = "interleaved" /\ flags[c] = "object")}

FactsOK(m) ==
    /\ \A f \in DOMAIN m.texts : TextOK(m.texts[f])
    /\ m.input \cup m.output \subseteq Modalities
    /\ m.status # None0 => m.status[1] \in Lifecycles

facts(m) ==
    [texts |-> [f \in TextFields |-> IF f \in DOMAIN m.texts THEN text(m.texts[f]) ELSE None0],
     capabilities |-> capabilities(m.flags),
     input_modalities |-> m.input, output_modalities |-> m.output,
     limits |-> m.limits,
     lifecycle |-> IF m.status = None0 THEN "available" ELSE m.status[1]]

Limit(x, f) == IF f \in DOMAIN x.limits THEN <<x.limits[f]>> ELSE None0

\* ModelFacts::differences
differences(now, was) ==
    {f \in TextFields : now.texts[f] # was.texts[f]} \cup
    {f \in LimitFields : Limit(now, f) # Limit(was, f)} \cup
    {f \in {"capabilities", "input_modalities", "output_modalities", "lifecycle"} : now[f] # was[f]}

\* ProviderEndpoint: the fields that are not blank.
endpoint(raw) == [f \in {g \in DOMAIN raw : text(raw[g]) # None0} |-> raw[f].v]

-----------------------------------------------------------------------------
(* normalize *)

Keyed0(f) == \A k \in DOMAIN f : IdOK(k) /\ f[k].id = k

\* canonical_model_id: a key is its own neutral record, or the unauthored tail
\* of one, at a segment boundary; the tail of two is refused.
Tails(published, neutral) ==
    {id \in neutral : Len(id) > Len(published) /\ IsSuffix(published, id)}

Resolved(published, tails) ==
    CASE tails = {} -> Got(published)
      [] Cardinality(tails) = 1 -> Got(CHOOSE id \in tails : TRUE)
      [] OTHER -> Refused

\* Mutant: one of the records a tail matches is taken.
BugCanonicalModelId(published, neutral) ==
    IF published \in neutral \/ Tails(published, neutral) = {} THEN Got(published)
    ELSE Got(CHOOSE id \in Tails(published, neutral) : TRUE)

canonical_model_id(published, neutral) ==
    IF published \in neutral THEN Got(published) ELSE Resolved(published, Tails(published, neutral))

ProviderOK(p) ==
    /\ \A f \in DOMAIN p.texts : TextOK(p.texts[f])
    /\ \A f \in DOMAIN p.endpoint : TextOK(p.endpoint[f])
    /\ \A i \in DOMAIN p.env : TextOK(p.env[i])

\* The fields on which a provider contradicts the neutral record.
overrides(neutral, model, m) ==
    IF model \in DOMAIN neutral THEN differences(facts(m), facts(neutral[model])) ELSE {}

Offered(neutral, m, model, p) ==
    IF model.refused \/ p.refused THEN Refused
    ELSE Got([model |-> model.v, facts |-> facts(m), overrides |-> overrides(neutral, model.v, m),
              price |-> p.v, endpoint |-> endpoint(m.endpoint)])
Offering(neutral, k, m) ==
    IF FactsOK(m) /\ \A f \in DOMAIN m.endpoint : TextOK(m.endpoint[f])
    THEN Offered(neutral, m, canonical_model_id(k, DOMAIN neutral), price(m.cost))
    ELSE Refused

\* The providers, without their models; a blank variable name is dropped.
EnvVars(env) ==
    LET named == SelectSeq(env, LAMBDA t : text(t) # None0) IN [i \in DOMAIN named |-> named[i].v]
Provider(p) ==
    [display_name |-> text(p.texts.display_name), doc_url |-> text(p.texts.doc_url),
     endpoint |-> endpoint(p.endpoint), env_vars |-> EnvVars(p.env)]

\* Every offering there is, by the provider and the id a request must send.
OfferingKeys(d) == UNION {{<<p, k>> : k \in DOMAIN d.providers[p].models} : p \in DOMAIN d.providers}

Wire(d, k) == d.providers[k[1]].models[k[2]]

NeutralOK(d) ==
    /\ Keyed0(d.models)
    /\ \A k \in DOMAIN d.models : d.models[k].cost = None0 /\ FactsOK(d.models[k])
ProvidersOK(d) ==
    \A p \in DOMAIN d.providers :
      /\ p # "bad" /\ d.providers[p].id = p
      /\ ProviderOK(d.providers[p]) /\ Keyed0(d.providers[p].models)

\* CatalogContent::new: models, and somebody offering them.
Content(d, offerings) ==
    IF offerings.refused \/ DOMAIN offerings.v = {} THEN Refused
    ELSE Got([providers |-> [p \in DOMAIN d.providers |-> Provider(d.providers[p])],
              neutral |-> [k \in DOMAIN d.models |-> facts(d.models[k])],
              offerings |-> offerings.v])

normalize(d) ==
    IF NeutralOK(d) /\ ProvidersOK(d)
    THEN Content(d, AllRead([k \in OfferingKeys(d) |-> Offering(d.models, k[2], Wire(d, k))]))
    ELSE Refused

\* CatalogPriceIndex::from_snapshot
BillablePrice(p) == IF p = None0 THEN None0 ELSE model_price_from_cost(p[1])
price_index(c) ==
    [k \in {x \in DOMAIN c.offerings : BillablePrice(c.offerings[x].price) # None0} |->
       BillablePrice(c.offerings[k].price)[1]]
price_for(index, p, k) == IF <<p, k>> \in DOMAIN index THEN <<index[<<p, k>>]>> ELSE None0

-----------------------------------------------------------------------------
(* CatalogDiff *)

ModelsOf(c) == DOMAIN c.neutral \cup {c.offerings[k].model : k \in DOMAIN c.offerings}
OfferingsOf(c, m) == {k \in DOMAIN c.offerings : c.offerings[k].model = m}

Change(class, m, p, k, fields) ==
    [class |-> class, model |-> m, provider |-> p, published |-> k, fields |-> fields]

\* The other revision of an offering: by provider alone when that provider
\* offers the model once on both sides, else by the id it is published under.
paired(entry, from, m, k) ==
    LET Of(c) == {x \in OfferingsOf(c, m) : x[1] = k[1]}
    IN IF Cardinality(Of(entry)) = 1 /\ Cardinality(Of(from)) = 1 THEN Of(entry)
       ELSE Of(entry) \cap {k}

provider_differences(now, was) ==
    {f \in {"display_name", "doc_url", "env_vars"} : now[f] # was[f]} \cup
    (IF now.endpoint = was.endpoint THEN {} ELSE {"endpoint"})

ProviderChanges(a, b) ==
    {Change("provider_added", <<>>, p, <<>>, {}) : p \in DOMAIN b.providers \ DOMAIN a.providers} \cup
    {Change("provider_removed", <<>>, p, <<>>, {}) : p \in DOMAIN a.providers \ DOMAIN b.providers} \cup
    {Change("provider_changed", <<>>, p, <<>>, provider_differences(b.providers[p], a.providers[p])) :
       p \in {q \in DOMAIN a.providers \cap DOMAIN b.providers :
                provider_differences(b.providers[q], a.providers[q]) # {}}}

Whole(class, offering, c, m) ==
    {Change(class, m, "", <<>>, {})} \cup
    {Change(offering, m, k[1], k[2], {}) : k \in OfferingsOf(c, m)}

NeutralChanges(a, b, m) ==
    CASE m \in DOMAIN b.neutral \ DOMAIN a.neutral -> {Change("neutral_described", m, "", <<>>, {})}
      [] m \in DOMAIN a.neutral \ DOMAIN b.neutral -> {Change("neutral_dropped", m, "", <<>>, {})}
      [] m \in DOMAIN a.neutral \cap DOMAIN b.neutral ->
           LET fields == differences(b.neutral[m], a.neutral[m])
           IN IF fields = {} THEN {} ELSE {Change("neutral_changed", m, "", <<>>, fields)}
      [] OTHER -> {}

CapabilityFields == {"capabilities", "input_modalities", "output_modalities"}

\* Mutant: moving to another callable id is no change.
BugOfferingFields(was, now, from, to) ==
    differences(now.facts, was.facts) \cup
    (IF was.endpoint = now.endpoint THEN {} ELSE {"endpoint"})

OfferingFields(was, now, from, to) ==
    differences(now.facts, was.facts) \cup
    (IF was.endpoint = now.endpoint THEN {} ELSE {"endpoint"}) \cup
    (IF from = to THEN {} ELSE {"published_model_id"})

FieldChanges(m, to, fields) ==
    LET Named(class, changed) ==
            IF changed = {} THEN {} ELSE {Change(class, m, to[1], to[2], changed)}
    IN Named("lifecycle_changed", fields \cap {"lifecycle"}) \cup
       Named("capabilities_changed", fields \cap CapabilityFields) \cup
       Named("metadata_changed", fields \ (CapabilityFields \cup {"lifecycle", "price"})) \cup
       Named("price_changed", fields \cap {"price"})

offering_changes(a, b, m, from, to) ==
    LET was == a.offerings[from]
        now == b.offerings[to]
    IN FieldChanges(m, to, OfferingFields(was, now, from[2], to[2]) \cup
                           (IF was.price = now.price THEN {} ELSE {"price"}))

OfferingChanges(a, b, m) ==
    (UNION {IF paired(a, b, m, k) = {} THEN {Change("offering_added", m, k[1], k[2], {})}
            ELSE UNION {offering_changes(a, b, m, from, k) : from \in paired(a, b, m, k)} :
              k \in OfferingsOf(b, m)}) \cup
    {Change("offering_removed", m, k[1], k[2], {}) :
       k \in {x \in OfferingsOf(a, m) : paired(b, a, m, x) = {}}}

\* CatalogDiff::between, in the order its key gives.
between(a, b) ==
    ProviderChanges(a, b) \cup
    (UNION {Whole("model_added", "offering_added", b, m) : m \in ModelsOf(b) \ ModelsOf(a)}) \cup
    (UNION {Whole("model_removed", "offering_removed", a, m) : m \in ModelsOf(a) \ ModelsOf(b)}) \cup
    (UNION {NeutralChanges(a, b, m) \cup OfferingChanges(a, b, m) : m \in ModelsOf(a) \cap ModelsOf(b)})

\* What the changes are sorted by: the class stands for its rank.
SortKey(c) == <<c.model, c.provider, c.class, c.published>>

-----------------------------------------------------------------------------
(* What the types of the wire format give: digits and sizes are natural, tiers *)
(* are listed, ids have segments, and a limit is one of the three there are.   *)

NumberTyped(n) == n.digits \in Nat /\ n.exponent \in Int
RatesTyped(r) == \A f \in DOMAIN r : NumberTyped(r[f])
TierTyped(t) == RatesTyped(t.rates) /\ t.size \in Seq(Nat) /\ Len(t.size) <= 1
CostTyped(c) ==
    /\ RatesTyped(c.rates) /\ (c.legacy = None0 \/ RatesTyped(c.legacy[1]))
    /\ c.tiers \in Seq(Range(c.tiers)) /\ \A t \in Range(c.tiers) : TierTyped(t)
ModelTyped(k, m) ==
    /\ k \in Seq(STRING) /\ (m.cost = None0 \/ CostTyped(m.cost[1]))
    /\ \E stated \in SUBSET LimitFields : m.limits \in [stated -> Nat]
ModelsTyped(f) == IsFiniteSet(DOMAIN f) /\ \A k \in DOMAIN f : ModelTyped(k, f[k])
DocumentTyped(d) ==
    /\ ModelsTyped(d.models) /\ IsFiniteSet(DOMAIN d.providers)
    /\ \A p \in DOMAIN d.providers : ModelsTyped(d.providers[p].models)

ASSUME SamplesTyped == \A d \in Samples : DocumentTyped(d)

-----------------------------------------------------------------------------
(* One document after another; a refused one leaves the content it found. *)

NoDocument == [models |-> <<>>, providers |-> <<>>]
Nothing == [doc |-> NoDocument, admitted |-> FALSE, was |-> None0, now |-> None0]
After(held, d, content) ==
    [doc |-> d, admitted |-> ~content.refused, was |-> held,
     now |-> IF content.refused THEN held ELSE <<content.v>>]

FirstImport(d) == import = After(None0, d, normalize(d))
\* What an import does depends on nothing older than the content it finds, so
\* after a second one only the same document is read again.
Import(d) ==
    /\ d = import.doc \/ (import.was = None0 /\ {d, import.doc} \subseteq Refreshes)
    /\ import' = After(import.now, d, normalize(d))

-----------------------------------------------------------------------------
(* Properties *)

\* A number is filed as the nearest rate only when it is that rate, or is off by
\* no more than binary noise; one that the unit states exactly is never turned
\* down for its spelling, and a rate that is not zero is never filed as zero.
NumberKept(raw, n) ==
    LET shift == raw.exponent + Places
        scale == IF shift < 0 THEN 10^(-shift) ELSE 10^shift
        over == IF shift < 0 THEN scale ELSE 1
        digits == IF shift < 0 THEN raw.digits ELSE raw.digits * scale
        gap == IF n.v * over > digits THEN n.v * over - digits ELSE digits - n.v * over
    IN IF n.refused
       THEN raw.number /\ ~raw.negative /\ digits % over = 0 /\ digits \div over <= RateMax
              => raw.digits > WideMax \/ scale \notin 1..WideMax
       ELSE gap * Tolerance <= digits /\ (raw.digits > 0 => n.v > 0)

\* The rates a context of n tokens is charged, as the document states them.
StatedAt(c, n) ==
    LET tiers == {[t |-> c.tiers[i].size[1], r |-> rates(c.tiers[i].rates).v] : i \in DOMAIN c.tiers}
        legacy == IF c.legacy = None0 THEN {} ELSE {[t |-> LegacyContext, r |-> rates(c.legacy[1]).v]}
        below == {x \in tiers \cup legacy : x.t < n}
    IN IF below = {} THEN rates(c.rates).v
       ELSE (CHOOSE x \in below : \A y \in below : y.t <= x.t).r
ObservedAt(p, n) ==
    LET below == {t \in DOMAIN p.tiers : t < n}
    IN IF below = {} THEN p.base ELSE p.tiers[Max(below)]

\* No two of the tiers name the same size: else what is charged there is not stated.
Unambiguous(c) == \A i, j \in DOMAIN c.tiers : c.tiers[i].size = c.tiers[j].size => i = j

ScheduleKept(c, p) ==
    p # None0 /\ Unambiguous(c) =>
        \A n \in 0..(LegacyContext + 4) : ObservedAt(p[1], n) = StatedAt(c, n)

\* Reading a price changes nothing of it: every number is kept, and a context of
\* any size is charged what the tiers and the legacy key state for it, however
\* the two spellings of one schedule are folded.
SchedulesKept ==
    \A k \in OfferingKeys(import.doc) : Wire(import.doc, k).cost # None0 =>
      LET cost == Wire(import.doc, k).cost[1] IN
      /\ \A f \in DOMAIN cost.rates : NumberKept(cost.rates[f], nano_dollars_per_million(cost.rates[f]))
      /\ import.admitted => ScheduleKept(cost, import.now[1].offerings[k].price)

\* Whether a cost can be billed: flat, without audio, in whole micro-dollars.
Billable(cost) ==
    /\ cost # None0 /\ BaseRates \subseteq DOMAIN cost[1].rates
    /\ cost[1].tiers = <<>> /\ cost[1].legacy = None0
    /\ DOMAIN cost[1].rates \cap AudioRates = {}
    /\ \A f \in DOMAIN cost[1].rates : nano_dollars_per_million(cost[1].rates[f]).v % NanosPerMicro = 0

PricedAs(cost, billed) ==
    /\ (billed # None0) = Billable(cost)
    /\ billed # None0 =>
         /\ DOMAIN billed[1] = DOMAIN cost[1].rates
         /\ \A f \in DOMAIN billed[1] :
              billed[1][f] * NanosPerMicro = nano_dollars_per_million(cost[1].rates[f]).v

\* A document that is admitted has one model for each callable id, the same as
\* before while the neutral records are of the same models, whoever else offers
\* it; and the price index charges for that id what this provider states for it,
\* or nothing.
FiledAndPriced ==
    import.admitted =>
      LET d == import.doc
          c == import.now[1]
      IN /\ DOMAIN c.offerings = OfferingKeys(d)
         /\ \A k \in OfferingKeys(d) :
              LET model == c.offerings[k].model
                  owners == {m \in DOMAIN d.models : IsSuffix(k[2], m)}
              IN /\ IF owners = {} \/ k[2] \in owners THEN model = k[2] ELSE owners = {model}
                 /\ \A a \in Range(import.was) :
                      DOMAIN a.neutral = DOMAIN c.neutral /\ k \in DOMAIN a.offerings =>
                        a.offerings[k].model = model
                 /\ PricedAs(Wire(d, k).cost, price_for(price_index(c), k[1], k[2]))

Names(diff, a, b) ==
    /\ (diff = {}) = (a = b)
    /\ \A x, y \in diff : SortKey(x) = SortKey(y) => x = y
    /\ \A k \in DOMAIN a.offerings \cap DOMAIN b.offerings :
         a.offerings[k].price # b.offerings[k].price =>
           \E x \in diff : /\ \/ x.class \in {"price_changed", "offering_added"}
                              \/ x.class = "metadata_changed" /\ "published_model_id" \in x.fields
                           /\ <<x.provider, x.published>> = k

\* A refresh that changes the content's identity names what changed, one that
\* does not names nothing, no two changes share a sort key, and a callable id
\* whose price moved is named by a price change, as an offering that is new, or
\* as the id that another offering of the provider has moved to.
DiffNamesEveryChange ==
    import.was # None0 =>
        Names(between(import.was[1], import.now[1]), import.was[1], import.now[1])
=============================================================================
