-------------------------- MODULE MCCatalogue -----------------------------
EXTENDS Catalogue

CONSTANTS r1, r2, d1, d2, d3, x, y, z, old, new

Deployment(who, docs, made, builds, states, boot, isDurable, what) ==
  [replicas |-> who, docs |-> docs,
   content |-> [b \in Builds |-> [d \in Documents |-> made[<<b, d>>]]],
   builds |-> builds, states |-> states, bootstrap |-> boot, durable |-> isDurable,
   faults |-> what]

\* Two documents are of the same content; a new build makes another of one.
Made == [p \in Builds \X Documents |->
  CASE p[2] = Seed -> z
    [] p[2] = d2 -> y
    [] p[2] = d3 \/ p[1] = old -> x
    [] OTHER -> z]

\* One replica and validators that are dropped; a rolling upgrade; two replicas
\* whose store fails; one whose store is late; the seed, then the upstream; in memory;
\* offline; and none, for the documents alone.
MCConfigs == {
  Deployment({r1}, {d1, d2, d3}, Made, {old}, SUBSET Stated, "Empty", TRUE, {"unsolicited"}),
  Deployment({r1, r2}, {d1, d2}, Made, {old, new}, {{"etag"}}, "Empty", TRUE, {}),
  Deployment({r1, r2}, {d1, d2}, Made, {old}, {{"etag"}}, "Empty", TRUE, {"store"}),
  Deployment({r1}, {d1, d2, d3}, Made, {old}, {{"etag"}}, "Empty", TRUE, {"store", "late"}),
  Deployment({r1}, {d1, d2}, Made, {old}, {{"etag"}, {"date"}}, "Seed", TRUE, {"source", "store"}),
  Deployment({r1}, {d1, d2}, Made, {old}, {{}}, "Empty", FALSE, {"source"}),
  Deployment({r1}, {Seed}, Made, {old}, {{}}, "Seed", TRUE, {"store"}),
  Deployment({}, {Seed}, Made, {old}, {{}}, "Empty", TRUE, {})}

-----------------------------------------------------------------------------
(* The documents and prices CatalogData is evaluated on: a rate has two places, *)
(* and one part in fifty is noise.                                              *)

Number(digits, exponent) ==
  [number |-> TRUE, negative |-> FALSE, digits |-> digits, exponent |-> exponent]
MCNumbers ==
  {Number(n, e) : n \in (0..120) \cup {499, 999, 1999, 4999, 9999, 99999, 100000}, e \in -7..2} \cup
  {[Number(5, 0) EXCEPT !.negative = TRUE], [Number(5, 0) EXCEPT !.number = FALSE]}

Flat(i, o) == [input |-> Number(i, -1), output |-> Number(o, -1)]
Cost(r, tiers, legacy) == [rates |-> r, tiers |-> tiers, legacy |-> legacy]
Tier(size, r) == [kind |-> "context", size |-> <<size>>, rates |-> r]
TierSizes == {LegacyContext - 1, LegacyContext, LegacyContext + 1, LegacyContext + 2}
Tiers == {Tier(t, Flat(i, 2)) : t \in TierSizes, i \in {2, 3}}
Odd == {[Tier(3, Flat(1, 1)) EXCEPT !.kind = "time"], [Tier(3, Flat(1, 1)) EXCEPT !.size = None0],
        Tier(3, [input |-> Number(1, -1)]), Tier(3, [reasoning |-> Number(1, -1)])}
MCCosts ==
  {Cost(Flat(1, 2), t, l) : t \in {<<>>} \cup {<<a>> : a \in Tiers \cup Odd} \cup (Tiers \X Tiers),
                            l \in {None0, <<Flat(2, 2)>>, <<Flat(1, 2)>>}} \cup
  {Cost([input |-> Number(1, 0)], <<>>, None0), Cost([reasoning |-> Number(1, 0)], <<>>, None0),
   Cost([x1 \in {} |-> 0], <<>>, None0)}

Said(v) == [v |-> v, control |-> FALSE]
Name == [display_name |-> Said("n")]
Model(id) ==
  [id |-> id, texts |-> Name, flags |-> [reasoning |-> "true"], input |-> {"text"}, output |-> {"text"},
   limits |-> [context_tokens |-> 1], status |-> None0, cost |-> None0, endpoint |-> [e1 \in {} |-> 0]]
Priced(id, c) == [Model(id) EXCEPT !.cost = <<c>>]
Offers(id, models) ==
  [id |-> id, texts |-> [display_name |-> Said(id), doc_url |-> Said("")],
   endpoint |-> [api_base |-> Said("u")], env |-> <<>>,
   models |-> [k \in {m.id : m \in models} |-> CHOOSE m \in models : m.id = k]]
Document(neutral, providers) ==
  [models |-> [k \in neutral |-> Model(k)],
   providers |-> [p \in {q.id : q \in providers} |-> CHOOSE q \in providers : q.id = p]]

Plain == <<"m">>
Authored == <<"a", "m">>
Rival == <<"b", "m">>
Far == <<"a", "b", "m">>
Near == <<"am">>

\* One model of one provider, its neutral record and every way of stating it.
Variants ==
  {[Model(Plain) EXCEPT !.texts = [display_name |-> t]] : t \in {Said(""), Said("n2"), [v |-> "n", control |-> TRUE]}} \cup
  {[Model(Plain) EXCEPT !.texts = [display_name |-> Said("n"), family |-> Said(t)]] : t \in {"", "f"}} \cup
  {[Model(Plain) EXCEPT !.flags = f] :
     f \in {[interleaved |-> "object"], [experimental |-> "object"], [reasoning |-> "false"]}} \cup
  {[Model(Plain) EXCEPT !.input = {"text", "image"}], [Model(Plain) EXCEPT !.output = {"smell"}],
   [Model(Plain) EXCEPT !.limits = [context_tokens |-> 2, output_tokens |-> 1]]} \cup
  {[Model(Plain) EXCEPT !.status = <<t>>] : t \in {"available", "beta", "gone"}} \cup
  {[Model(Plain) EXCEPT !.endpoint = [api_base |-> t]] :
     t \in {Said(""), Said("v"), [v |-> "v", control |-> TRUE]}} \cup
  {Priced(Plain, c) : c \in
     {Cost(Flat(1, 2), <<>>, None0), Cost(Flat(3, 2), <<>>, None0), Cost(Flat(0, 0), <<>>, None0),
      Cost([input |-> Number(12, -2), output |-> Number(1, 0)], <<>>, None0),
      Cost([input |-> Number(1, 0), output |-> Number(1, 0), input_audio |-> Number(1, 0)], <<>>, None0),
      Cost([input |-> Number(1, 0), output |-> Number(1, 0), cache_read |-> Number(5, -1)], <<>>, None0),
      Cost(Flat(1, 2), <<Tier(3, Flat(2, 2))>>, None0), Cost([reasoning |-> Number(1, 0)], <<>>, None0)}}

MCRefreshes ==
  {Document({Authored}, {Offers("p", {v})}) : v \in Variants} \cup
  {Document(n, {Offers("p", {Model(k) : k \in ks})}) :
     n \in {{}, {Authored}, {Authored, Rival}, {Authored, Far}, {Plain, Authored}, {Near}},
     ks \in {{Plain}, {Authored}, {Plain, Authored}, {Rival, <<"c", "m">>}}} \cup
  {Document({Authored}, {Offers("p", {Priced(k, Cost(Flat(1, 2), <<>>, None0)) : k \in ks}),
                         Offers("q", {Priced(Plain, Cost(Flat(3, 2), <<>>, None0))})}) :
     ks \in {{Plain}, {Authored}, {Plain, Authored}}} \cup
  {Document({Authored}, {Offers("p", {Priced(Plain, Cost(Flat(1, 2), <<>>, None0)),
                                      Priced(Rival, Cost(Flat(3, 2), <<>>, None0))})}),
   Document({Rival}, {Offers("p", {Priced(Plain, Cost(Flat(3, 2), <<>>, None0))})})} \cup
  {Document({Authored}, {}), Document({}, {Offers("p", {})}), Document({}, {Offers("bad", {Model(Plain)})}),
   Document({}, {Offers("p", {Model(<<"bad">>)})}),
   Document({}, {[Offers("p", {Model(Plain)}) EXCEPT !.models = [k \in {Plain} |-> Model(Authored)]]}),
   [Document({Authored}, {Offers("p", {Model(Plain)})}) EXCEPT
      !.models = [k \in {Authored} |-> Priced(Authored, Cost(Flat(1, 2), <<>>, None0))]]} \cup
  {Document({}, {[Offers("p", {Model(Plain)}) EXCEPT !.env = e]}) :
     e \in {<<Said("E1"), Said("E2")>>, <<Said("E2"), Said(""), Said("E1")>>, <<Said("E1"), Said(""), Said("E2")>>}} \cup
  {Document({}, {[Offers("p", {Model(Plain)}) EXCEPT !.endpoint = [api_base |-> Said(t)]]}) : t \in {"", "w"}}

\* And a model at each price, with each number for a rate.
MCSamples == MCRefreshes \cup
  {Document({}, {Offers("p", {Priced(Plain, c)})}) :
     c \in MCCosts \cup {Cost([input |-> n, output |-> Number(1, 0)], <<>>, None0) : n \in MCNumbers}}
=============================================================================
