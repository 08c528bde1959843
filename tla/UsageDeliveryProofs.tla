------------------------ MODULE UsageDeliveryProofs ------------------------
(***************************************************************************)
(* Proofs about UsageJournal and UsageDelivery, for every deployment: the  *)
(* outbox implements JournalContract whatever its workers, its appends and *)
(* its maintenance interleave to; a caller's events are written in order;  *)
(* and no record goes missing unreported.                                  *)
(***************************************************************************)
EXTENDS UsageDelivery, FiniteSetTheorems, SequenceTheorems, WellFoundedInduction, TLAPS

-----------------------------------------------------------------------------
(* Naturals, and the order of the positions a claim takes *)

LEMMA LeastNatural ==
  ASSUME NEW S \in SUBSET Nat, S # {}
  PROVE  \E n \in S : \A m \in S : n <= m
<1> DEFINE R == OpToRel(<, Nat)
<1>1. IsWellFoundedOn(R, Nat)
  BY NatLessThanWellFounded
<1>2. \A x, y \in Nat : <<x, y>> \in R <=> x < y
  BY DEF OpToRel
<1> HIDE DEF R
<1>3. PICK x \in S : \A y \in S : <<y, x>> \notin R
  BY <1>1, WFMin
<1>4. \A y \in S : ~ (y < x)
  BY <1>2, <1>3
<1> QED
  BY <1>4

LEMMA PositionsFinite ==
  /\ MaxPosition \in Nat /\ Positions \in SUBSET Nat /\ IsFiniteSet(Positions)
  /\ \A S \in SUBSET Positions : IsFiniteSet(S) /\ Cardinality(S) \in Nat
<1>1. MaxPosition \in Nat
  BY JournalAssumption
<1>2. Positions \in SUBSET Nat /\ IsFiniteSet(Positions)
  BY <1>1, FS_Interval DEF Positions
<1> QED
  BY <1>1, <1>2, FS_Subset, FS_CardinalityType

LEMMA GreatestPosition ==
  ASSUME NEW S \in SUBSET Positions, S # {}
  PROVE  \E m \in S : \A n \in S : n <= m
<1> DEFINE D == {MaxPosition - x : x \in S}
<1>1. \A x \in S : x \in Nat /\ MaxPosition - x \in Nat /\ MaxPosition \in Nat
  BY PositionsFinite DEF Positions
<1>2. D \in SUBSET Nat /\ D # {}
  BY <1>1
<1>3. PICK d \in D : \A e \in D : d <= e
  <2> HIDE DEF D
  <2> QED
    BY <1>2, LeastNatural
<1>4. PICK m \in S : d = MaxPosition - m
  BY <1>3
<1>5. ASSUME NEW n \in S PROVE n <= m
  <2>1. MaxPosition - m <= MaxPosition - n
    BY <1>3, <1>4
  <2> QED
    BY <1>1, <2>1
<1> QED
  BY <1>5

Increasing(s, S) ==
  /\ s \in [1..Cardinality(S) -> S]
  /\ \A i, j \in 1..Cardinality(S) : i < j => s[i] < s[j]

LEMMA IncreasingExists ==
  ASSUME NEW S \in SUBSET Positions PROVE \E s : Increasing(s, S)
<1> DEFINE Bad == {n \in Nat : \E T \in SUBSET Positions :
                                 Cardinality(T) = n /\ ~ \E s : Increasing(s, T)}
<1> SUFFICES ASSUME Bad # {} PROVE FALSE
  BY PositionsFinite
<1>1. PICK n \in Bad : \A m \in Bad : n <= m
  <2>1. Bad \in SUBSET Nat
    OBVIOUS
  <2> HIDE DEF Bad
  <2> QED
    BY <2>1, LeastNatural
<1>2. PICK T \in SUBSET Positions : Cardinality(T) = n /\ ~ \E s : Increasing(s, T)
  BY <1>1
<1>3. n \in Nat /\ IsFiniteSet(T) /\ T \in SUBSET Nat
  BY <1>1, PositionsFinite
<1>4. T # {}
  <2>1. ASSUME T = {} PROVE Increasing([i \in 1..0 |-> 0], T)
    BY <2>1, FS_EmptySet DEF Increasing
  <2> QED
    BY <1>2, <2>1
<1>5. PICK m \in T : \A x \in T : x <= m
  BY <1>4, GreatestPosition
<1> DEFINE U == T \ {m}
<1>6. U \in SUBSET Positions /\ Cardinality(U) = n - 1 /\ n - 1 \in Nat
  <2>1. Cardinality(U) = Cardinality(T) - 1
    BY <1>3, <1>5, FS_RemoveElement
  <2>2. U \in SUBSET Positions
    OBVIOUS
  <2>3. Cardinality(U) \in Nat
    BY <2>2, PositionsFinite
  <2> QED
    BY <1>2, <1>3, <2>1, <2>2, <2>3
<1>7. PICK s : Increasing(s, U)
  BY <1>1, <1>3, <1>6
<1> DEFINE t == [i \in 1..n |-> IF i = n THEN m ELSE s[i]]
<1>8. s \in [1..(n - 1) -> U] /\ \A i, j \in 1..(n - 1) : i < j => s[i] < s[j]
  BY <1>6, <1>7 DEF Increasing
<1>9. t \in [1..n -> T]
  <2>1. ASSUME NEW i \in 1..n PROVE t[i] \in T
    BY <1>3, <1>5, <1>8
  <2> QED
    BY <2>1
<1>10. ASSUME NEW i \in 1..n, NEW j \in 1..n, i < j PROVE t[i] < t[j]
  <2>1. t[i] = s[i] /\ i \in 1..(n - 1)
    BY <1>3, <1>10
  <2>2. CASE j = n
    <3>1. s[i] \in U /\ t[j] = m
      BY <1>8, <2>1, <2>2
    <3>2. s[i] \in Nat /\ m \in Nat /\ s[i] <= m /\ s[i] # m
      BY <1>3, <1>5, <3>1
    <3> QED
      BY <2>1, <3>1, <3>2
  <2>3. CASE j # n
    BY <1>3, <1>8, <1>10, <2>1, <2>3
  <2> QED
    BY <2>2, <2>3
<1>11. Increasing(t, T)
  <2> HIDE DEF t
  <2> QED
    BY <1>2, <1>9, <1>10 DEF Increasing
<1> QED
  BY <1>2, <1>11

LEMMA AscendingType ==
  ASSUME NEW S \in SUBSET Positions
  PROVE  Ascending(S) \in Seq(S) /\ ToSet(Ascending(S)) \subseteq S
<1>1. PICK s : Increasing(s, S)
  BY IncreasingExists
<1>2. Ascending(S) \in [1..Cardinality(S) -> S]
  BY <1>1 DEF Increasing, Ascending
<1>3. Cardinality(S) \in Nat
  BY PositionsFinite
<1> QED
  BY <1>2, <1>3 DEF ToSet

-----------------------------------------------------------------------------
(* The inductive invariant of the outbox *)

Partials(R) == UNION {[S -> R] : S \in SUBSET Positions}

WorkerType ==
  [pc : {"idle", "selected", "writing", "settling", "acking"},
   cand : Partials(Nat), claimed : Partials(Nat \ {0}), todo : Seq(Seq(Positions)),
   landed : SUBSET Positions, orphans : SUBSET Positions, refusals : Nat]

\* The row was committed, whether or not it is still there.
Seen(p) == row[p].state \in {"stored", "gone"}

\* Nothing of q has to reach consumer c any more, of which d are the deliveries.
Over(c, d, q) == q \in written[c] \/ d[q].verdict = "poison" \/ row[q].state = "gone"
Cleared(c, q) == q \in written[c] \/ delivery[q][c].verdict = "poison" \/ row[q].state = "gone"

\* The row may be written: it is not ahead of one of its key.
Ready(p, c) == Seen(p) /\ \A q \in row[p].earlier : Cleared(c, q)

\* What a pass k of worker w may rely on at each of its steps.
PassOK(k, w) ==
  /\ k \in WorkerType
  /\ k.pc # "idle" => Running(w)
  /\ k.pc = "idle" => k = Idle
  /\ k.pc = "writing" => k.todo # <<>>
  /\ k.todo \in Seq(Seq(DOMAIN k.claimed))
  /\ k.landed \subseteq DOMAIN k.claimed /\ k.orphans \subseteq DOMAIN k.claimed
  /\ Running(w) =>
       /\ k.landed \subseteq written[ConsumerOf(w)]
       /\ \A p \in DOMAIN k.cand \cup DOMAIN k.claimed : Ready(p, ConsumerOf(w))

PassesOK == worker \in [Workers -> WorkerType] /\ \A w \in Workers : PassOK(worker[w], w)

\* Every registered consumer has acknowledged q.
Acked(q) == registered # {} /\ \A c \in registered : delivery[q][c].verdict = "ack"

\* What a transaction in progress deletes is there, and what it does not count
\* as lost is acknowledged; the rows ahead of a row are older and of its key.
RowOK(p) ==
  /\ row[p].state # "open" => row[p].frees = {} /\ row[p].loses = {}
  /\ row[p].state \in {"none", "gone"} => row[p].earlier = {}
  /\ row[p].state # "none" => row[p].event \in Events
  /\ row[p].loses \subseteq row[p].frees /\ row[p].frees \subseteq Stored
  /\ conf.policy = "Refuse" => row[p].loses = {}
  /\ \A q \in row[p].earlier : q < p /\ Seen(q) /\ KeyOf(q) = KeyOf(p)
  /\ \A q \in row[p].frees \ row[p].loses : Acked(q)

RowsOK ==
  /\ \A p \in Positions : RowOK(p)
  /\ \A p, q \in Positions : p # q => row[p].frees \cap row[q].frees = {}

\* No floor passes a row that is unresolved or not committed yet.
FloorOK == \A c \in Consumers :
  /\ floor[c] <= seq
  /\ \A p \in Positions :
       row[p].state = "open" \/ (p \in Stored /\ delivery[p][c].verdict = "none") => p > floor[c]

WrittenOK == \A c \in Consumers :
  /\ \A p \in written[c] : Seen(p)
  /\ \A p \in Positions : delivery[p][c].verdict = "ack" => p \in written[c]

LossOK == Cardinality(unserved) <= dropped /\ (conf.policy = "Refuse" => dropped = 0)

\* TypeOK but for the passes.
OutboxType ==
  /\ conf \in Configs /\ seq \in 0..MaxPosition /\ dropped \in Nat
  /\ row \in [Positions -> RowType]
  /\ answer \in [Events -> {"none", "Durable", "Refused"}]
  /\ delivery \in [Positions -> [Consumers -> DeliveryType]]
  /\ registered \subseteq Consumers
  /\ floor \in [Consumers -> 0..MaxPosition]
  /\ written \in [Consumers -> SUBSET Positions] /\ unserved \subseteq Positions
  /\ \A p \in Positions : (row[p].state = "none") <=> (p > seq)
  /\ \A p \in Positions, c \in Consumers :
       row[p].state # "stored" => delivery[p][c] = NoDelivery

OutboxInv == OutboxType /\ RowsOK /\ FloorOK /\ WrittenOK /\ LossOK /\ InOrder

JournalInv == OutboxInv /\ PassesOK

ContractStep == [Contract!Next]_(Contract!vars)

\* The contract counts as the outbox does.
LEMMA SameCardinality == \A S : Contract!Cardinality(S) = Cardinality(S)
  BY DEF Cardinality, Contract!Cardinality, IsFiniteSet, Contract!IsFiniteSet

LEMMA ConfFacts ==
  ASSUME conf \in Configs
  PROVE  /\ conf \in ConfigType /\ conf.batch \in Nat \ {0}
         /\ \A w \in Workers : Running(w) => ConsumerOf(w) \in Consumers
<1>1. conf \in ConfigType /\ conf.batch > 0
  BY JournalAssumption
<1>2. conf.batch \in Nat /\ conf.consumer \in [Workers -> SUBSET Consumers]
  BY <1>1 DEF ConfigType
<1>3. ASSUME NEW w \in Workers, Running(w) PROVE ConsumerOf(w) \in Consumers
  <2>1. conf.consumer[w] \in SUBSET Consumers /\ conf.consumer[w] # {}
    BY <1>2, <1>3 DEF Running
  <2> QED
    BY <2>1 DEF ConsumerOf
<1> QED
  BY <1>1, <1>2, <1>3

-----------------------------------------------------------------------------
(* A claim: what its transaction has done to the deliveries of its consumer *)

\* d is what the deliveries of c may have become: a verdict is given only to a
\* row that has none, and it is never an acknowledgement.
Claims(c, d) ==
  /\ d \in [Positions -> DeliveryType]
  /\ \A p \in Positions :
       \/ d[p] = delivery[p][c]
       \/ p \in Stored /\ delivery[p][c].verdict = "none" /\ d[p].verdict \in {"none", "poison"}

\* A head of its ordering key is behind nothing that is still to be written.
LEMMA HeadsReady ==
  ASSUME OutboxType, RowsOK, FloorOK, WrittenOK, NEW c \in Consumers, NEW d, Claims(c, d),
         NEW n, NEW skipped, NEW p \in Candidates(c, d, n, skipped)
  PROVE  p \in Stored /\ \A q \in row[p].earlier : Over(c, d, q)
<1>1. /\ p \in Unresolved(c, d)
      /\ \A q \in Unresolved(c, d) : KeyOf(q) = KeyOf(p) => p <= q
  BY DEF Candidates, Least, Heads
<1>2. p \in Stored /\ p \in Positions
  BY <1>1 DEF Unresolved, Stored
<1>3. ASSUME NEW q \in row[p].earlier PROVE Over(c, d, q)
  <2>1. q \in Positions /\ q < p /\ Seen(q) /\ KeyOf(q) = KeyOf(p)
    BY <1>2, <1>3 DEF RowsOK, RowOK, OutboxType, RowType
  <2>2. q \notin Unresolved(c, d)
    BY <1>1, <1>2, <2>1, PositionsFinite
  <2>3. CASE q \notin Stored
    BY <2>1, <2>3 DEF Stored, Seen, Over
  <2>4. CASE q \in Stored
    <3>1. ~(q > floor[c]) \/ d[q].verdict # "none"
      BY <2>2, <2>4 DEF Unresolved
    <3>2. delivery[q][c].verdict = "none" => q > floor[c]
      BY <2>1, <2>4 DEF FloorOK
    <3>3. d[q].verdict # "none"
      BY <2>1, <3>1, <3>2 DEF Claims
    <3>4. d[q].verdict = "poison" \/ d[q].verdict = "ack"
      BY <2>1, <3>3 DEF Claims, DeliveryType
    <3>5. ASSUME d[q].verdict = "ack" PROVE q \in written[c]
      <4>1. d[q] = delivery[q][c]
        BY <2>1, <3>5 DEF Claims
      <4> QED
        BY <2>1, <3>5, <4>1 DEF WrittenOK
    <3> QED
      BY <3>4, <3>5 DEF Over
  <2> QED
    BY <2>3, <2>4
<1> QED
  BY <1>2, <1>3

\* The transaction tx of a claim for consumer c, between two passes.
ClaimOK(tx, c) ==
  /\ tx \in TxType /\ Claims(c, tx.d)
  /\ \A p \in ToSet(tx.claimed) :
       p \in Stored /\ tx.d[p].attempts > 0 /\ \A q \in row[p].earlier : Over(c, tx.d, q)

LEMMA ToSetOf ==
  ASSUME NEW S, NEW s \in Seq(S) PROVE ToSet(s) \in SUBSET S
  BY DEF ToSet

LEMMA ToSetConcat ==
  ASSUME NEW S, NEW s \in Seq(S), NEW t \in Seq(S)
  PROVE  s \o t \in Seq(S) /\ ToSet(s \o t) = ToSet(s) \cup ToSet(t)
<1>1. s \o t \in Seq(S) /\ Len(s \o t) = Len(s) + Len(t) /\ Len(s) \in Nat /\ Len(t) \in Nat
  OBVIOUS
<1>2. \A i \in 1..(Len(s) + Len(t)) : (s \o t)[i] = IF i <= Len(s) THEN s[i] ELSE t[i - Len(s)]
  OBVIOUS
<1>3. PICK u : u = s \o t
  OBVIOUS
<1>4. ToSet(u) \subseteq ToSet(s) \cup ToSet(t)
  <2>1. ASSUME NEW i \in DOMAIN u PROVE u[i] \in ToSet(s) \cup ToSet(t)
    <3>1. i \in 1..(Len(s) + Len(t)) /\ u[i] = IF i <= Len(s) THEN s[i] ELSE t[i - Len(s)]
      BY <1>1, <1>2, <1>3
    <3>2. CASE i <= Len(s)
      BY <1>1, <3>1, <3>2 DEF ToSet
    <3>3. CASE ~(i <= Len(s))
      <4>1. i - Len(s) \in DOMAIN t
        BY <1>1, <3>1, <3>3
      <4> QED
        BY <3>1, <3>3, <4>1 DEF ToSet
    <3> QED
      BY <3>2, <3>3
  <2> QED
    BY <2>1 DEF ToSet
<1>5. ToSet(s) \subseteq ToSet(u)
  <2>1. ASSUME NEW i \in DOMAIN s PROVE i \in DOMAIN u /\ u[i] = s[i]
    BY <1>1, <1>2, <1>3
  <2> QED
    BY <2>1 DEF ToSet
<1>6. ToSet(t) \subseteq ToSet(u)
  <2>1. ASSUME NEW i \in DOMAIN t PROVE i + Len(s) \in DOMAIN u /\ u[i + Len(s)] = t[i]
    BY <1>1, <1>2, <1>3
  <2> QED
    BY <2>1 DEF ToSet
<1> QED
  BY <1>1, <1>3, <1>4, <1>5, <1>6

LEMMA PassKeeps ==
  ASSUME OutboxType, RowsOK, NEW c \in Consumers, NEW tx, ClaimOK(tx, c),
         NEW S \in SUBSET Positions, NEW cand \in [S -> Nat],
         \A p \in S : \A q \in row[p].earlier : Over(c, tx.d, q)
  PROVE  ClaimOK(Pass(tx, cand), c)
<1> DEFINE P == {p \in DOMAIN cand : p \in Stored /\ row[p].event \notin conf.ahead}
           dead == {p \in P : cand[p] + 1 > conf.max_attempts \/ Undecodable(p)}
           doomed == {p \in dead : tx.d[p].verdict = "none"}
           taken == {p \in P \ dead : Takeable(tx.d[p])}
           d2 == [p \in Positions |-> CASE p \in doomed -> Condemned(tx.d[p], cand[p] + 1)
                                        [] p \in taken -> Take(tx.d[p], cand[p] + 1)
                                        [] OTHER -> tx.d[p]]
           cl == tx.claimed \o Ascending(taken)
           more == doomed # {} /\ Len(cl) < conf.batch
<1>1. Pass(tx, cand) = [d |-> d2, claimed |-> cl, more |-> more]
  BY DEF Pass
<1>2. /\ tx.d \in [Positions -> DeliveryType] /\ tx.claimed \in Seq(Positions)
      /\ Claims(c, tx.d)
      /\ \A p \in ToSet(tx.claimed) :
           p \in Stored /\ tx.d[p].attempts > 0 /\ \A q \in row[p].earlier : Over(c, tx.d, q)
  BY DEF ClaimOK, TxType
<1>3. /\ doomed \subseteq S /\ taken \subseteq S /\ doomed \cap taken = {}
      /\ doomed \subseteq Stored /\ taken \subseteq Stored
      /\ \A p \in doomed \cup taken : tx.d[p].verdict = "none" /\ p \in Positions
  BY DEF Takeable
<1>4. more \in BOOLEAN
  OBVIOUS
<1>5. /\ \A p \in Positions : p \in doomed => d2[p] = Condemned(tx.d[p], cand[p] + 1)
      /\ \A p \in Positions : p \in taken => d2[p] = Take(tx.d[p], cand[p] + 1)
      /\ \A p \in Positions : p \notin doomed /\ p \notin taken => d2[p] = tx.d[p]
      /\ DOMAIN d2 = Positions
  BY <1>3
<1> HIDE DEF doomed, taken, d2, more, P, dead
<1>6. ASSUME NEW p \in Positions
      PROVE  /\ d2[p] \in DeliveryType
             /\ \/ p \notin doomed /\ p \notin taken /\ d2[p] = tx.d[p]
                \/ /\ p \in Stored /\ tx.d[p].verdict = "none" /\ d2[p].attempts > 0
                   /\ d2[p].verdict \in {"none", "poison"}
  <2>0. tx.d[p] \in DeliveryType
    BY <1>2
  <2>1. CASE p \in doomed
    <3>1. cand[p] + 1 \in Nat /\ cand[p] + 1 > 0
      BY <1>3, <2>1
    <3>2. d2[p] = [attempts |-> cand[p] + 1, live |-> FALSE, verdict |-> "poison"]
      BY <1>5, <2>1 DEF Condemned
    <3> QED
      BY <1>3, <2>1, <3>1, <3>2 DEF DeliveryType
  <2>2. CASE p \in taken
    <3>1. cand[p] + 1 \in Nat /\ cand[p] + 1 > 0
      BY <1>3, <2>2
    <3>2. d2[p] = [tx.d[p] EXCEPT !.attempts = cand[p] + 1, !.live = TRUE]
      BY <1>5, <2>2 DEF Take
    <3> QED
      BY <1>3, <2>0, <2>2, <3>1, <3>2 DEF DeliveryType
  <2>3. CASE p \notin doomed /\ p \notin taken
    BY <1>5, <2>0, <2>3
  <2> QED
    BY <2>1, <2>2, <2>3
<1>7. Claims(c, d2)
  <2>1. d2 \in [Positions -> DeliveryType]
    BY <1>5, <1>6 DEF d2
  <2>2. ASSUME NEW p \in Positions
        PROVE  \/ d2[p] = delivery[p][c]
               \/ /\ p \in Stored /\ delivery[p][c].verdict = "none"
                  /\ d2[p].verdict \in {"none", "poison"}
    BY <1>2, <1>6 DEF Claims
  <2> QED
    BY <2>1, <2>2 DEF Claims
<1>8. ASSUME NEW q \in Positions, Over(c, tx.d, q) PROVE Over(c, d2, q)
  BY <1>6, <1>8 DEF Over
<1>9. \A p \in Positions : row[p].earlier \in SUBSET Positions
  BY DEF OutboxType, RowType
<1>10. /\ cl \in Seq(Positions) /\ ToSet(cl) \subseteq ToSet(tx.claimed) \cup taken
  <2>1. taken \in SUBSET Positions
    BY <1>3
  <2>2. Ascending(taken) \in Seq(Positions) /\ ToSet(Ascending(taken)) \subseteq taken
    BY <2>1, AscendingType
  <2> QED
    BY <1>2, <2>2, ToSetConcat
<1>11. ASSUME NEW p \in ToSet(cl)
       PROVE  p \in Stored /\ d2[p].attempts > 0 /\ \A q \in row[p].earlier : Over(c, d2, q)
  <2>1. p \in Positions
    BY <1>2, <1>3, <1>10 DEF Stored
  <2>2. CASE p \in taken
    BY <1>3, <1>6, <1>8, <1>9, <2>1, <2>2
  <2>3. CASE p \in ToSet(tx.claimed)
    BY <1>2, <1>6, <1>8, <1>9, <2>1, <2>3
  <2> QED
    BY <1>10, <2>2, <2>3
<1> HIDE DEF cl
<1>12. Pass(tx, cand) \in TxType
  BY <1>1, <1>4, <1>7, <1>10 DEF TxType, Claims
<1> QED
  BY <1>1, <1>7, <1>11, <1>12 DEF ClaimOK

\* The first N values of an iteration exist.
Iterates(g, a, f, N) == g = [n \in 1..N |-> IF n = 1 THEN a ELSE f[g[n - 1]]]

LEMMA IterationExists ==
  ASSUME NEW N \in Nat, NEW a, NEW f PROVE \E g : Iterates(g, a, f, N)
<1> DEFINE Bad == {n \in Nat : ~ \E g : Iterates(g, a, f, n)}
<1> SUFFICES ASSUME Bad # {} PROVE FALSE
  OBVIOUS
<1>1. PICK b \in Bad : \A m \in Bad : b <= m
  <2>1. Bad \in SUBSET Nat
    OBVIOUS
  <2> HIDE DEF Bad
  <2> QED
    BY <2>1, LeastNatural
<1>2. b \in Nat /\ ~ \E g : Iterates(g, a, f, b)
  OBVIOUS
<1>3. b # 0
  <2>1. ASSUME b = 0 PROVE Iterates([n \in 1..b |-> a], a, f, b)
    BY <2>1 DEF Iterates
  <2> QED
    BY <1>2, <2>1
<1>4. b - 1 \in Nat /\ b - 1 \notin Bad
  BY <1>1, <1>2, <1>3
<1>5. PICK g : Iterates(g, a, f, b - 1)
  BY <1>4
<1>6. \A n \in 1..(b - 1) : g[n] = IF n = 1 THEN a ELSE f[g[n - 1]]
  BY <1>5 DEF Iterates
<1> DEFINE h == [n \in 1..b |-> IF n = b THEN IF b = 1 THEN a ELSE f[g[b - 1]] ELSE g[n]]
<1>7. ASSUME NEW n \in 1..b PROVE h[n] = IF n = 1 THEN a ELSE f[h[n - 1]]
  <2>1. CASE n = b
    BY <1>2, <1>3, <2>1
  <2>2. CASE n # b
    <3>1. n \in 1..(b - 1) /\ h[n] = g[n] /\ n - 1 # b
      BY <1>2, <2>2
    <3>2. n # 1 => h[n - 1] = g[n - 1]
      BY <1>2, <3>1
    <3> QED
      BY <1>6, <3>1, <3>2
  <2> QED
    BY <2>1, <2>2
<1>8. Iterates(h, a, f, b)
  <2>1. h = [n \in 1..b |-> h[n]]
    OBVIOUS
  <2> HIDE DEF h
  <2> QED
    BY <1>7, <2>1 DEF Iterates
<1> QED
  BY <1>2, <1>8

\* The claim of a worker commits what ClaimOK allows.
LEMMA ClaimedOK ==
  ASSUME OutboxInv, NEW w \in Workers, Running(w), PassOK(worker[w], w)
  PROVE  ClaimOK(Claimed(w), ConsumerOf(w))
<1> DEFINE c == ConsumerOf(w)
           start == [d |-> DeliveriesOf(c), claimed |-> <<>>, more |-> TRUE]
           a == Pass(start, worker[w].cand)
           f == NextPass(w)
           N == conf.batch
<1>0. OutboxType /\ RowsOK /\ FloorOK /\ WrittenOK
  BY DEF OutboxInv
<1>1. N \in Nat \ {0} /\ c \in Consumers
  BY <1>0, ConfFacts DEF OutboxType
<1>2. ClaimOK(start, c)
  <2>1. DeliveriesOf(c) \in [Positions -> DeliveryType]
    BY <1>0, <1>1 DEF DeliveriesOf, OutboxType
  <2>2. Claims(c, DeliveriesOf(c))
    BY <2>1 DEF Claims, DeliveriesOf
  <2>3. start \in TxType
    BY <2>1 DEF TxType
  <2>4. ToSet(start.claimed) = {}
    BY DEF ToSet
  <2> QED
    BY <2>2, <2>3, <2>4 DEF ClaimOK
<1>3. ClaimOK(a, c)
  <2>1. worker[w].cand \in Partials(Nat)
    BY DEF PassOK, WorkerType
  <2>2. PICK S \in SUBSET Positions : worker[w].cand \in [S -> Nat]
    BY <2>1 DEF Partials
  <2>3. \A p \in S : Ready(p, c)
    BY <2>2 DEF PassOK
  <2>4. \A p \in S : \A q \in row[p].earlier : Over(c, start.d, q)
    <3>1. ASSUME NEW p \in S, NEW q \in row[p].earlier PROVE Over(c, start.d, q)
      <4>1. q \in Positions
        BY <1>0, <3>1 DEF OutboxType, RowType
      <4>2. start.d[q] = delivery[q][c]
        BY <4>1 DEF DeliveriesOf
      <4> QED
        BY <2>3, <3>1, <4>2 DEF Ready, Cleared, Over
    <3> QED
      BY <3>1
  <2> HIDE DEF c, start
  <2> QED
    BY <1>0, <1>1, <1>2, <2>2, <2>4, PassKeeps
<1>4. ASSUME NEW tx, ClaimOK(tx, c) PROVE ClaimOK(f[tx], c)
  <2> DEFINE S == Candidates(c, tx.d, conf.batch - Len(tx.claimed), Locked(w))
             cand == [p \in S |-> tx.d[p].attempts]
  <2>1. tx \in TxType /\ Claims(c, tx.d)
    BY <1>4 DEF ClaimOK
  <2>2. f[tx] = IF ~tx.more THEN tx ELSE Pass(tx, cand)
    BY <2>1 DEF NextPass
  <2> HIDE DEF c
  <2>3. \A p \in S : p \in Stored /\ \A q \in row[p].earlier : Over(c, tx.d, q)
    BY <1>0, <1>1, <2>1, HeadsReady
  <2>4. S \in SUBSET Positions
    BY <2>3 DEF Stored
  <2> HIDE DEF S
  <2>5. cand \in [S -> Nat]
    BY <2>1, <2>4 DEF TxType, DeliveryType
  <2> HIDE DEF cand, f
  <2>6. ClaimOK(Pass(tx, cand), c)
    BY <1>0, <1>1, <1>4, <2>3, <2>4, <2>5, PassKeeps
  <2> QED
    BY <1>4, <2>2, <2>6
<1>5. Passes(w) = CHOOSE g : Iterates(g, a, f, N)
  BY DEF Passes, Iterates
<1> HIDE DEF a, f, N, c
<1>6. PICK g : g = Passes(w)
  OBVIOUS
<1>7. Iterates(g, a, f, N)
  BY <1>1, <1>5, <1>6, IterationExists
<1>8. \A n \in 1..N : g[n] = IF n = 1 THEN a ELSE f[g[n - 1]]
  BY <1>7 DEF Iterates
<1> DEFINE Bad == {n \in 1..N : ~ClaimOK(g[n], c)}
<1>9. Bad = {}
  <2> SUFFICES ASSUME Bad # {} PROVE FALSE
    OBVIOUS
  <2>1. PICK b \in Bad : \A m \in Bad : b <= m
    <3>1. Bad \in SUBSET Nat
      BY <1>1
    <3> HIDE DEF Bad
    <3> QED
      BY <3>1, LeastNatural
  <2>2. b # 1
    BY <1>3, <1>8
  <2>3. b - 1 \in 1..N /\ b - 1 \notin Bad
    BY <1>1, <2>1, <2>2
  <2>4. ClaimOK(g[b - 1], c)
    BY <2>3
  <2>5. g[b] = f[g[b - 1]]
    BY <1>8, <2>1, <2>2
  <2> QED
    BY <1>4, <2>1, <2>4, <2>5
<1>10. ClaimOK(g[N], c)
  BY <1>1, <1>9
<1> QED
  BY <1>6, <1>10 DEF Claimed, N, c

LEMMA JournalTyped == JournalInv => TypeOK
<1> SUFFICES ASSUME JournalInv PROVE TypeOK
  OBVIOUS
<1>1. OutboxType /\ PassesOK
  BY DEF JournalInv, OutboxInv
<1>2. ASSUME NEW w \in Workers
      PROVE  /\ worker[w].pc \in {"idle", "selected", "writing", "settling", "acking"}
             /\ Partial(worker[w].cand, Nat)
             /\ Partial(worker[w].claimed, Nat \ {0})
             /\ worker[w].landed \cup worker[w].orphans \subseteq DOMAIN worker[w].claimed
             /\ UNION {ToSet(r) : r \in ToSet(worker[w].todo)} \subseteq DOMAIN worker[w].claimed
  <2>1. PICK k : k = worker[w]
    OBVIOUS
  <2>2. PassOK(k, w)
    BY <1>1, <2>1 DEF PassesOK
  <2>3. k \in WorkerType
    BY <2>2 DEF PassOK
  <2>4. /\ k.pc \in {"idle", "selected", "writing", "settling", "acking"}
        /\ k.cand \in Partials(Nat) /\ k.claimed \in Partials(Nat \ {0})
    BY <2>3 DEF WorkerType
  <2>5. Partial(k.cand, Nat)
    BY <2>4 DEF Partials, Partial
  <2>6. Partial(k.claimed, Nat \ {0})
    BY <2>4 DEF Partials, Partial
  <2>7. k.landed \cup k.orphans \subseteq DOMAIN k.claimed
    BY <2>2 DEF PassOK
  <2>8. ASSUME NEW r \in ToSet(k.todo) PROVE ToSet(r) \subseteq DOMAIN k.claimed
    <3>1. r \in Seq(DOMAIN k.claimed)
      BY <2>2, <2>8, ToSetOf DEF PassOK
    <3> QED
      BY <3>1, ToSetOf
  <2> QED
    BY <2>1, <2>4, <2>5, <2>6, <2>7, <2>8
<1> QED
  BY <1>1, <1>2 DEF OutboxType, TypeOK

-----------------------------------------------------------------------------
(* What no step takes back *)

Onward ==
  /\ conf' = conf
  /\ \A p \in Positions : Seen(p) => Seen(p)' /\ row'[p].earlier \subseteq row[p].earlier
  /\ \A p \in Positions : row[p].state = "gone" => row'[p].state = "gone"
  /\ \A c \in Consumers : written[c] \subseteq written'[c]
  /\ \A p \in Positions, c \in Consumers : delivery[p][c].verdict = "poison" =>
       delivery'[p][c].verdict = "poison" \/ row'[p].state = "gone"

LEMMA ReadyOnward ==
  ASSUME OutboxType, Onward, NEW p \in Positions, NEW c \in Consumers, Ready(p, c)
  PROVE  Ready(p, c)'
<1>1. row[p].earlier \in SUBSET Positions
  BY DEF OutboxType, RowType
<1>2. Seen(p)' /\ row'[p].earlier \subseteq row[p].earlier
  BY DEF Onward, Ready
<1>3. ASSUME NEW q \in row'[p].earlier PROVE Cleared(c, q)'
  <2>1. q \in Positions /\ Cleared(c, q)
    BY <1>1, <1>2, <1>3 DEF Ready
  <2> QED
    BY <2>1 DEF Onward, Cleared
<1> QED
  BY <1>2, <1>3 DEF Ready

LEMMA PassOnward ==
  ASSUME OutboxType, Onward, NEW k, NEW w \in Workers, PassOK(k, w)
  PROVE  PassOK(k, w)'
<1>1. Running(w)' <=> Running(w)
  BY DEF Onward, Running
<1>2. ConsumerOf(w)' = ConsumerOf(w)
  BY DEF Onward, ConsumerOf
<1>3. ASSUME Running(w)
      PROVE  /\ k.landed \subseteq (written[ConsumerOf(w)])'
             /\ \A p \in DOMAIN k.cand \cup DOMAIN k.claimed : Ready(p, ConsumerOf(w))'
  <2>1. PICK c : c = ConsumerOf(w)
    OBVIOUS
  <2>2. c \in Consumers
    BY <1>3, <2>1, ConfFacts DEF OutboxType
  <2>3. k.cand \in Partials(Nat) /\ k.claimed \in Partials(Nat \ {0})
    BY DEF PassOK, WorkerType
  <2>4. DOMAIN k.cand \subseteq Positions /\ DOMAIN k.claimed \subseteq Positions
    BY <2>3 DEF Partials
  <2>5. /\ k.landed \subseteq written[c]
        /\ \A p \in DOMAIN k.cand \cup DOMAIN k.claimed : Ready(p, c)
    BY <1>3, <2>1 DEF PassOK
  <2>6. \A p \in DOMAIN k.cand \cup DOMAIN k.claimed : Ready(p, c)'
    BY <2>2, <2>4, <2>5, ReadyOnward
  <2>7. k.landed \subseteq written'[c]
    BY <2>2, <2>5 DEF Onward
  <2>8. c = ConsumerOf(w)'
    BY <1>2, <2>1
  <2> QED
    BY <2>6, <2>7, <2>8 DEF Ready, Cleared, Seen
<1> QED
  BY <1>1, <1>3 DEF PassOK

LEMMA PassesOnward ==
  ASSUME OutboxType, PassesOK, Onward, NEW w \in Workers, NEW k, PassOK(k, w)',
         worker' = [worker EXCEPT ![w] = k]
  PROVE  PassesOK'
<1>1. k \in WorkerType
  BY DEF PassOK, WorkerType
<1>2. worker' \in [Workers -> WorkerType] /\ worker'[w] = k
  BY <1>1 DEF PassesOK
<1>3. ASSUME NEW v \in Workers PROVE PassOK(worker[v], v)'
  <2>1. CASE v = w
    BY <1>2, <2>1
  <2>2. CASE v # w
    <3>1. PICK l : l = worker[v]
      OBVIOUS
    <3>2. worker'[v] = l /\ PassOK(l, v)
      BY <2>2, <3>1 DEF PassesOK
    <3>3. PassOK(l, v)'
      BY <3>2, PassOnward
    <3> QED
      BY <3>2, <3>3
  <2> QED
    BY <2>1, <2>2
<1> QED
  BY <1>2, <1>3 DEF PassesOK

LEMMA PassesStay ==
  ASSUME OutboxType, PassesOK, Onward, worker' = worker PROVE PassesOK'
<1>1. ASSUME NEW v \in Workers PROVE PassOK(worker[v], v)'
  <2>1. PICK l : l = worker[v]
    OBVIOUS
  <2>2. worker'[v] = l /\ PassOK(l, v)
    BY <2>1 DEF PassesOK
  <2>3. PassOK(l, v)'
    BY <2>2, PassOnward
  <2> QED
    BY <2>2, <2>3
<1> QED
  BY <1>1 DEF PassesOK

LEMMA OrderOnward ==
  ASSUME OutboxType, WrittenOK, InOrder, Onward, written' = written PROVE InOrder'
<1>1. ASSUME NEW c \in Consumers, NEW p \in written[c], NEW q \in row'[p].earlier
      PROVE  q \in written[c] \/ delivery'[q][c].verdict = "poison" \/ row'[q].state = "gone"
  <2>1. p \in Positions /\ Seen(p)
    BY <1>1 DEF OutboxType, WrittenOK
  <2>2. q \in row[p].earlier /\ q \in Positions
    BY <1>1, <2>1 DEF Onward, OutboxType, RowType
  <2>3. q \in written[c] \/ delivery[q][c].verdict = "poison" \/ row[q].state = "gone"
    BY <1>1, <2>2 DEF InOrder
  <2> QED
    BY <2>2, <2>3 DEF Onward
<1> QED
  BY <1>1 DEF InOrder

-----------------------------------------------------------------------------
(* Steps that change the deliveries of one consumer *)

\* d is what the deliveries of c become: verdicts are given to rows without one,
\* an acknowledgement only to what was written.
Judges(c, d) ==
  /\ d \in [Positions -> DeliveryType]
  /\ delivery' = [p \in Positions |-> [delivery[p] EXCEPT ![c] = d[p]]]
  /\ \A p \in Positions :
       \/ d[p] = delivery[p][c]
       \/ p \in Stored /\ d[p].verdict = delivery[p][c].verdict
       \/ p \in Stored /\ delivery[p][c].verdict = "none" /\ d[p].verdict = "poison"
       \/ /\ p \in Stored /\ delivery[p][c].verdict = "none" /\ d[p].verdict = "ack"
          /\ p \in written[c]

\* c registers, but not under a deletion that was decided without it.
Registers(c) ==
  \/ registered' = registered
  \/ registered' = registered \cup {c} /\ Doomed = {}

LEMMA JudgingStep ==
  ASSUME OutboxInv, NEW c \in Consumers, NEW d, Judges(c, d), Registers(c),
         UNCHANGED <<conf, seq, row, answer, floor, dropped, written, unserved>>
  PROVE  OutboxInv' /\ Onward /\ ContractStep
<1>0. OutboxType /\ RowsOK /\ FloorOK /\ WrittenOK /\ LossOK /\ InOrder
  BY DEF OutboxInv
<1>1. /\ delivery \in [Positions -> [Consumers -> DeliveryType]]
      /\ delivery' \in [Positions -> [Consumers -> DeliveryType]]
      /\ \A p \in Positions : delivery'[p][c] = d[p]
      /\ \A p \in Positions, b \in Consumers : b # c => delivery'[p][b] = delivery[p][b]
  <2>1. delivery \in [Positions -> [Consumers -> DeliveryType]] /\ d \in [Positions -> DeliveryType]
    BY <1>0 DEF OutboxType, Judges
  <2>2. \A p \in Positions : delivery'[p] = [delivery[p] EXCEPT ![c] = d[p]]
    BY DEF Judges
  <2>3. ASSUME NEW p \in Positions PROVE delivery'[p] \in [Consumers -> DeliveryType]
    <3>1. delivery[p] \in [Consumers -> DeliveryType] /\ d[p] \in DeliveryType
      BY <2>1
    <3>2. delivery'[p] = [delivery[p] EXCEPT ![c] = d[p]]
      BY <2>2
    <3> QED
      BY ONLY <3>1, <3>2, c \in Consumers
  <2>4. delivery' \in [Positions -> [Consumers -> DeliveryType]]
    BY <2>3 DEF Judges
  <2> QED
    BY <2>1, <2>2, <2>4
<1>2. /\ Stored' = Stored /\ registered \subseteq registered' /\ registered' \subseteq Consumers
      /\ registered' # registered => Doomed = {}
  BY <1>0 DEF Stored, Registers, OutboxType
<1>3. ASSUME NEW p \in Positions, NEW b \in Consumers
      PROVE  /\ delivery[p][b].verdict # "none" => delivery'[p][b].verdict = delivery[p][b].verdict
             /\ delivery'[p][b].verdict = "none" => delivery[p][b].verdict = "none"
             /\ p \notin Stored => delivery'[p][b] = delivery[p][b]
             /\ delivery'[p][b].verdict = "ack" =>
                  delivery[p][b].verdict = "ack" \/ p \in written[b]
  BY <1>1 DEF Judges
<1>4. Onward
  BY <1>3 DEF Onward, Seen
<1>5. OutboxType'
  <2>1. \A p \in Positions, b \in Consumers :
          row[p].state # "stored" => delivery'[p][b] = NoDelivery
    BY <1>0, <1>3 DEF OutboxType, Stored
  <2> QED
    BY <1>0, <1>1, <1>2, <2>1 DEF OutboxType
<1>6. RowsOK'
  <2>1. ASSUME NEW p \in Positions PROVE RowOK(p)'
    <3>1. RowOK(p)
      BY <1>0 DEF RowsOK
    <3>2. ASSUME NEW q \in row[p].frees \ row[p].loses PROVE Acked(q)'
      <4>1. Acked(q) /\ q \in Positions
        BY <1>0, <3>1, <3>2 DEF RowOK, OutboxType, RowType
      <4>2. Doomed # {}
        <5>1. row[p].state = "open" /\ q \in row[p].frees
          BY <3>1, <3>2 DEF RowOK
        <5> QED
          BY <5>1 DEF Doomed
      <4>3. registered' = registered
        BY <1>2, <4>2
      <4> QED
        BY <1>0, <1>3, <4>1, <4>3 DEF Acked, OutboxType
    <3>3. /\ row[p].state # "open" => row[p].frees = {} /\ row[p].loses = {}
          /\ row[p].state \in {"none", "gone"} => row[p].earlier = {}
          /\ row[p].state # "none" => row[p].event \in Events
          /\ row[p].loses \subseteq row[p].frees /\ row[p].frees \subseteq Stored
          /\ conf.policy = "Refuse" => row[p].loses = {}
      BY <3>1 DEF RowOK
    <3>4. \A q \in row[p].earlier : q < p /\ Seen(q)' /\ (KeyOf(q) = KeyOf(p))'
      BY <3>1 DEF RowOK, Seen, KeyOf
    <3> QED
      BY <1>2, <3>2, <3>3, <3>4 DEF RowOK
  <2> QED
    BY <1>0, <2>1 DEF RowsOK
<1>7. FloorOK'
  BY <1>0, <1>2, <1>3 DEF FloorOK
<1>8. WrittenOK'
  BY <1>0, <1>3 DEF WrittenOK, Seen
<1>9. LossOK'
  BY <1>0 DEF LossOK
<1>10. InOrder'
  BY <1>0, <1>4, OrderOnward
<1>11. ContractStep
  <2> DEFINE A == {p \in Positions : delivery[p][c].verdict = "none" /\ d[p].verdict = "ack"}
             B == {p \in Positions : delivery[p][c].verdict = "none" /\ d[p].verdict = "poison"}
             V == [p \in Positions |-> [b \in Consumers |-> delivery[p][b].verdict]]
             W == [p \in Positions |-> [b \in Consumers |-> delivery'[p][b].verdict]]
  <2>1. A \in SUBSET (Stored \cap written[c]) /\ B \in SUBSET (Stored \ A)
    BY DEF Judges
  <2>2. \A p \in A \cup B : V[p][c] = "none"
    OBVIOUS
  <2>3. W = [p \in Positions |-> [V[p] EXCEPT ![c] =
              CASE p \in A -> "ack" [] p \in B -> "poison" [] OTHER -> @]]
    <3>1. ASSUME NEW p \in Positions, NEW b \in Consumers
          PROVE  W[p][b] = [V[p] EXCEPT ![c] =
                     CASE p \in A -> "ack" [] p \in B -> "poison" [] OTHER -> @][b]
      <4>1. CASE b # c
        BY <1>1, <4>1
      <4>2. CASE b = c
        <5>1. W[p][c] = d[p].verdict /\ V[p][c] = delivery[p][c].verdict
          BY <1>1
        <5>2. d[p].verdict \in {"none", "ack", "poison"}
          BY DEF Judges, DeliveryType
        <5>3. /\ p \in A <=> V[p][c] = "none" /\ d[p].verdict = "ack"
              /\ p \in B <=> V[p][c] = "none" /\ d[p].verdict = "poison"
          BY <5>1
        <5>4. d[p].verdict = V[p][c] \/ (V[p][c] = "none" /\ d[p].verdict \in {"ack", "poison"})
          BY <5>1 DEF Judges
        <5> HIDE DEF A, B, W
        <5> QED
          BY <4>2, <5>1, <5>2, <5>3, <5>4
      <4> QED
        BY <4>1, <4>2
    <3> HIDE DEF A, B
    <3> QED
      BY <3>1
  <2> HIDE DEF A, B
  <2>4. registered' \in {registered, registered \cup {c}}
    BY DEF Registers
  <2>5. Contract!Judge(c)
    BY <1>2, <2>1, <2>2, <2>3, <2>4 DEF Contract!Judge
  <2> QED
    BY <2>5 DEF ContractStep, Contract!Next
<1> QED
  BY <1>4, <1>5, <1>6, <1>7, <1>8, <1>9, <1>10, <1>11 DEF OutboxInv

-----------------------------------------------------------------------------
(* Steps that delete rows *)

GoneRow(p) == [NoRow EXCEPT !.state = "gone", !.event = row[p].event]
StoredRow(p) == [row[p] EXCEPT !.state = "stored", !.frees = {}, !.loses = {}]

\* Rows P leave, of which G are counted as lost, and those of N, at most one, are
\* committed.
Erases(P, G, N) ==
  /\ P \in SUBSET Stored /\ G \in SUBSET P
  /\ N = {} \/ \E p \in Positions : N = {p} /\ row[p].state = "open"
  /\ row' = [p \in Positions |-> IF p \in P THEN GoneRow(p)
                                 ELSE IF p \in N THEN StoredRow(p) ELSE row[p]]
  /\ delivery' = ErasedDeliveries(P) /\ unserved' = Unserved(P)
  /\ dropped' = dropped + Cardinality(G)
  /\ \A q \in P \ G : Acked(q)
  /\ conf.policy = "Refuse" => G = {}
  /\ \A p \in Positions \ N : row[p].frees \cap P = {}

LEMMA ErasingStep ==
  ASSUME OutboxInv, NEW P, NEW G, NEW N, Erases(P, G, N),
         answer' \in [Events -> {"none", "Durable", "Refused"}],
         UNCHANGED <<conf, seq, registered, floor, written>>
  PROVE  OutboxInv' /\ Onward /\ ContractStep
<1>0. OutboxType /\ RowsOK /\ FloorOK /\ WrittenOK /\ LossOK /\ InOrder
  BY DEF OutboxInv
<1>1. /\ P \subseteq Positions /\ P \subseteq Stored /\ G \subseteq P /\ N \subseteq Positions
      /\ \A p \in N : row[p].state = "open"
      /\ \A p \in P : p \notin N
      /\ \A p, q \in N : p = q
  BY DEF Erases, Stored
<1>2. /\ \A p \in P : row'[p] = GoneRow(p)
      /\ \A p \in N : row'[p] = StoredRow(p)
      /\ \A p \in Positions : p \notin P /\ p \notin N => row'[p] = row[p]
      /\ DOMAIN row' = Positions
  BY <1>1 DEF Erases
<1>3. /\ \A p \in P, c \in Consumers : delivery'[p][c] = NoDelivery
      /\ \A p \in Positions : p \notin P => delivery'[p] = delivery[p]
  BY <1>1 DEF Erases, ErasedDeliveries
<1>4. \A p \in Positions : row[p] \in RowType
  BY <1>0 DEF OutboxType
<1>5. /\ \A p \in P : /\ row'[p].state = "gone" /\ row'[p].event = row[p].event
                      /\ row'[p].frees = {} /\ row'[p].loses = {} /\ row'[p].earlier = {}
                      /\ row'[p] \in RowType
      /\ \A p \in N : /\ row'[p].state = "stored" /\ row'[p].event = row[p].event
                      /\ row'[p].frees = {} /\ row'[p].loses = {}
                      /\ row'[p].earlier = row[p].earlier /\ row'[p] \in RowType
  <2>1. ASSUME NEW p \in P
        PROVE  /\ row'[p].state = "gone" /\ row'[p].event = row[p].event
               /\ row'[p].frees = {} /\ row'[p].loses = {} /\ row'[p].earlier = {}
               /\ row'[p] \in RowType
    <3>1. row'[p] = [state |-> "gone", event |-> row[p].event, frees |-> {}, loses |-> {},
                     earlier |-> {}]
      BY <1>2, <2>1 DEF GoneRow, NoRow
    <3>2. row[p].event \in Events \cup {NoEvent}
      BY <1>1, <1>4, <2>1 DEF RowType
    <3> QED
      BY <3>1, <3>2 DEF RowType
  <2>2. ASSUME NEW p \in N
        PROVE  /\ row'[p].state = "stored" /\ row'[p].event = row[p].event
               /\ row'[p].frees = {} /\ row'[p].loses = {}
               /\ row'[p].earlier = row[p].earlier /\ row'[p] \in RowType
    <3>1. row'[p] = [row[p] EXCEPT !.state = "stored", !.frees = {}, !.loses = {}]
      BY <1>2, <2>2 DEF StoredRow
    <3>2. row[p] \in RowType
      BY <1>1, <1>4, <2>2
    <3> QED
      BY ONLY <3>1, <3>2 DEF RowType
  <2> QED
    BY <2>1, <2>2
<1>6. Stored' = (Stored \ P) \cup N
  BY <1>1, <1>2, <1>5 DEF Stored
<1>7. /\ \A p \in Positions : Seen(p) => Seen(p)'
      /\ \A p \in Positions : row'[p].event = row[p].event
      /\ \A p \in Positions : row'[p].earlier \subseteq row[p].earlier
  BY <1>1, <1>2, <1>5 DEF Seen
<1>8. Onward
  <2>1. \A p \in Positions : row[p].state = "gone" => row'[p].state = "gone"
    BY <1>1, <1>2 DEF Stored
  <2>2. \A p \in Positions, c \in Consumers : delivery[p][c].verdict = "poison" =>
          delivery'[p][c].verdict = "poison" \/ row'[p].state = "gone"
    BY <1>3, <1>5
  <2> QED
    BY <1>7, <2>1, <2>2 DEF Onward
<1>9. Unserved(P) \subseteq unserved \cup G
  <2>1. ASSUME NEW q \in P \ G, NEW c \in registered PROVE q \in written[c]
    <3>1. delivery[q][c].verdict = "ack" /\ q \in Positions /\ c \in Consumers
      BY <1>0, <1>1, <2>1 DEF Erases, Acked, OutboxType
    <3> QED
      BY <1>0, <3>1 DEF WrittenOK
  <2> QED
    BY <2>1 DEF Unserved
<1>10. LossOK' /\ dropped' \in Nat /\ unserved' \subseteq Positions
  <2>1. /\ IsFiniteSet(unserved) /\ IsFiniteSet(G) /\ unserved' \in SUBSET Positions
        /\ Cardinality(unserved) \in Nat /\ Cardinality(G) \in Nat /\ dropped \in Nat
        /\ IsFiniteSet(unserved \cup G)
    <3>1. unserved \in SUBSET Positions /\ G \in SUBSET Positions /\ unserved \cup G \in SUBSET Positions
      BY <1>0, <1>1 DEF OutboxType
    <3>2. unserved' \in SUBSET Positions
      BY <1>9, <3>1 DEF Erases
    <3> QED
      BY <1>0, <3>1, <3>2, PositionsFinite DEF OutboxType
  <2>2. Cardinality(unserved') <= Cardinality(unserved \cup G)
    BY <1>9, <2>1, FS_Subset DEF Erases
  <2>3. Cardinality(unserved \cup G) <= Cardinality(unserved) + Cardinality(G)
    <3>1. Cardinality(unserved \cup G)
            = Cardinality(unserved) + Cardinality(G) - Cardinality(unserved \cap G)
      BY <2>1, FS_Union
    <3>2. IsFiniteSet(unserved \cap G)
      BY <2>1, FS_Intersection
    <3>3. Cardinality(unserved \cap G) \in Nat
      BY <3>2, FS_CardinalityType
    <3> QED
      BY <2>1, <3>1, <3>3
  <2>4. dropped' = dropped + Cardinality(G)
    BY DEF Erases
  <2>5. Cardinality(unserved \cup G) \in Nat /\ Cardinality(unserved') \in Nat
    BY <2>1, PositionsFinite, FS_CardinalityType
  <2>6. Cardinality(unserved) <= dropped
    BY <1>0 DEF LossOK
  <2>7. Cardinality(unserved') <= dropped' /\ dropped' \in Nat
    BY ONLY <2>1, <2>2, <2>3, <2>4, <2>5, <2>6
  <2>8. conf.policy = "Refuse" => dropped' = 0
    <3>1. ASSUME conf.policy = "Refuse" PROVE dropped' = 0
      <4>1. dropped = 0 /\ G = {}
        BY <1>0, <3>1 DEF LossOK, Erases
      <4> QED
        BY <2>4, <4>1, FS_EmptySet
    <3> QED
      BY <3>1
  <2> QED
    BY <2>1, <2>7, <2>8 DEF LossOK
<1>11. OutboxType'
  <2>1. row' \in [Positions -> RowType]
    <3>1. \A p \in Positions : row'[p] \in RowType
      BY <1>2, <1>4, <1>5
    <3> QED
      BY <3>1 DEF Erases
  <2>2. delivery' \in [Positions -> [Consumers -> DeliveryType]]
    <3>1. NoDelivery \in DeliveryType
      BY DEF NoDelivery, DeliveryType
    <3>2. \A p \in Positions : delivery[p] \in [Consumers -> DeliveryType]
      BY <1>0 DEF OutboxType
    <3> QED
      BY <3>1, <3>2 DEF Erases, ErasedDeliveries
  <2>3. \A p \in Positions : (row'[p].state = "none") <=> (p > seq)
    BY <1>0, <1>1, <1>2, <1>5 DEF OutboxType, Stored
  <2>4. ASSUME NEW p \in Positions, NEW c \in Consumers, row'[p].state # "stored"
        PROVE  delivery'[p][c] = NoDelivery
    BY <1>0, <1>2, <1>3, <1>5, <2>4 DEF OutboxType
  <2> QED
    BY <1>0, <1>10, <2>1, <2>2, <2>3, <2>4 DEF OutboxType
<1>12. RowsOK'
  <2>1. ASSUME NEW p \in Positions PROVE RowOK(p)'
    <3>0. RowOK(p)
      BY <1>0 DEF RowsOK
    <3>1. \A q \in row'[p].earlier : q < p /\ Seen(q)' /\ KeyOf(q)' = KeyOf(p)'
      <4>1. ASSUME NEW q \in row'[p].earlier PROVE q < p /\ Seen(q)' /\ KeyOf(q)' = KeyOf(p)'
        <5>1. q \in row[p].earlier /\ q \in Positions
          BY <1>4, <1>7, <4>1 DEF RowType
        <5>2. q < p /\ Seen(q) /\ KeyOf(q) = KeyOf(p)
          BY <3>0, <5>1 DEF RowOK
        <5> QED
          BY <1>7, <5>1, <5>2 DEF KeyOf
      <4> QED
        BY <4>1
    <3>2. CASE p \in P
      BY <1>5, <3>1, <3>2, <1>1, <1>4, <3>0 DEF RowOK, Stored
    <3>3. CASE p \in N
      BY <1>1, <1>5, <3>0, <3>1, <3>3 DEF RowOK
    <3>4. CASE p \notin P /\ p \notin N
      <4>1. row'[p] = row[p] /\ row[p].frees \subseteq Stored'
        <5>1. row[p].frees \subseteq Stored /\ row[p].frees \cap P = {}
          BY <3>0, <3>4 DEF RowOK, Erases
        <5> QED
          BY <1>2, <1>6, <3>4, <5>1
      <4>2. ASSUME NEW q \in row[p].frees \ row[p].loses PROVE Acked(q)'
        <5>1. Acked(q) /\ q \in Positions /\ q \notin P
          BY <1>4, <3>0, <3>4, <4>2 DEF RowOK, Erases, RowType
        <5> QED
          BY <1>3, <5>1 DEF Acked
      <4> QED
        BY <3>0, <3>1, <4>1, <4>2 DEF RowOK
    <3> QED
      BY <3>2, <3>3, <3>4
  <2>2. ASSUME NEW p \in Positions, NEW q \in Positions, p # q
        PROVE  row'[p].frees \cap row'[q].frees = {}
    <3>1. row'[p].frees \subseteq row[p].frees /\ row'[q].frees \subseteq row[q].frees
      BY <1>2, <1>5
    <3>2. row[p].frees \cap row[q].frees = {}
      BY <1>0, <2>2 DEF RowsOK
    <3> QED
      BY <3>1, <3>2
  <2> QED
    BY <2>1, <2>2 DEF RowsOK
<1>13. FloorOK'
  <2>1. ASSUME NEW c \in Consumers, NEW p \in Positions,
               row'[p].state = "open" \/ (p \in Stored' /\ delivery'[p][c].verdict = "none")
        PROVE  p > floor[c]
    <3>1. p \notin P
      BY <1>1, <1>5, <1>6, <2>1
    <3>2. row[p].state = "open" \/ (p \in Stored /\ delivery[p][c].verdict = "none")
      BY <1>1, <1>2, <1>3, <1>6, <2>1, <3>1
    <3> QED
      BY <1>0, <3>2 DEF FloorOK
  <2> QED
    BY <1>0, <2>1 DEF FloorOK
<1>14. WrittenOK'
  <2>1. ASSUME NEW c \in Consumers, NEW p \in Positions, delivery'[p][c].verdict = "ack"
        PROVE  p \in written[c]
    <3>1. p \notin P
      BY <1>3, <2>1 DEF NoDelivery
    <3> QED
      BY <1>0, <1>3, <2>1, <3>1 DEF WrittenOK
  <2>2. ASSUME NEW c \in Consumers, NEW p \in written[c] PROVE Seen(p)'
    BY <1>0, <1>7, <2>2 DEF WrittenOK, OutboxType
  <2> QED
    BY <2>1, <2>2 DEF WrittenOK
<1>15. InOrder'
  BY <1>0, <1>8, OrderOnward
<1>16. ContractStep
  <2> DEFINE V == [p \in Positions |-> [c \in Consumers |-> delivery[p][c].verdict]]
             W == [p \in Positions |-> [c \in Consumers |-> delivery'[p][c].verdict]]
  <2>1. W = [p \in Positions |-> IF p \in P THEN [c \in Consumers |-> "none"] ELSE V[p]]
    BY <1>3 DEF NoDelivery
  <2>2. N \in {{}} \cup {{p} : p \in Positions \ Stored}
    BY DEF Erases, Stored
  <2>3. \A p \in P \ G : registered # {} /\ \A c \in registered : V[p][c] = "ack"
    <3>1. registered \subseteq Consumers
      BY <1>0 DEF OutboxType
    <3> QED
      BY <1>1, <3>1 DEF Erases, Acked
  <2>4. P \in SUBSET Stored /\ G \in SUBSET P /\ dropped' = dropped + Cardinality(G)
    BY DEF Erases
  <2>5. \E Given \in SUBSET P :
          /\ dropped' = dropped + Contract!Cardinality(Given)
          /\ \A p \in P \ Given : registered # {} /\ \A c \in registered : V[p][c] = "ack"
    BY <2>3, <2>4, SameCardinality
  <2>6. Contract!Turnover
    <3> SUFFICES \E New \in {{}} \cup {{p} : p \in Positions \ Stored}, Old \in SUBSET Stored :
           /\ Stored' = (Stored \ Old) \cup New
           /\ W = [p \in Positions |-> IF p \in Old THEN [c \in Consumers |-> "none"] ELSE V[p]]
           /\ \E Given \in SUBSET Old :
                /\ dropped' = dropped + Contract!Cardinality(Given)
                /\ \A p \in Old \ Given :
                     registered # {} /\ \A c \in registered : V[p][c] = "ack"
      BY DEF Contract!Turnover
    <3> HIDE DEF V, W
    <3> QED
      BY <1>6, <2>1, <2>2, <2>4, <2>5
  <2> QED
    BY <2>6 DEF ContractStep, Contract!Next
<1> QED
  BY <1>8, <1>10, <1>11, <1>12, <1>13, <1>14, <1>15, <1>16 DEF OutboxInv

-----------------------------------------------------------------------------
(* Appends and maintenance *)

\* Stutters of the contract leave these alone.
contractVars == <<Stored, registered, written, delivery, dropped>>

LEMMA ContractStutter == UNCHANGED contractVars => ContractStep
  BY DEF contractVars, ContractStep, Contract!vars

LEMMA QuietStep ==
  ASSUME OutboxInv, answer' \in [Events -> {"none", "Durable", "Refused"}],
         UNCHANGED <<conf, seq, row, delivery, registered, floor, dropped, written, unserved>>
  PROVE  OutboxInv' /\ Onward /\ ContractStep
<1>1. Stored' = Stored
  BY DEF Stored
<1>2. OutboxType'
  BY DEF OutboxInv, OutboxType
<1>3. RowsOK'
  BY <1>1 DEF OutboxInv, RowsOK, RowOK, Acked, Seen, KeyOf
<1>4. FloorOK' /\ WrittenOK' /\ LossOK' /\ InOrder'
  BY <1>1 DEF OutboxInv, FloorOK, WrittenOK, LossOK, InOrder, Seen
<1>5. Onward
  BY DEF Onward, Seen
<1>6. ContractStep
  BY <1>1, ContractStutter DEF contractVars
<1> QED
  BY <1>2, <1>3, <1>4, <1>5, <1>6 DEF OutboxInv

\* The rows an append frees, and those it may not touch.
LEMMA FreedFacts ==
  ASSUME OutboxInv
  PROVE  /\ Freed \in SUBSET Stored /\ DroppedOldest \in SUBSET Freed
         /\ \A q \in Freed \ DroppedOldest : Acked(q)
         /\ conf.policy = "Refuse" => DroppedOldest = {}
         /\ \A p \in Positions : row[p].frees \subseteq Doomed
<1>1. \A S : Surplus(S) \subseteq S
  BY DEF Surplus
<1>2. Freed \in SUBSET Stored /\ DroppedOldest \in SUBSET Freed
  BY <1>1 DEF Freed, DroppedOldest, Reclaimed
<1>3. \A q \in Freed \ DroppedOldest : Acked(q)
  BY DEF Freed, Reclaimed, Delivered, Acked
<1>4. conf.policy = "Refuse" => DroppedOldest = {}
  BY DEF DroppedOldest
<1>5. ASSUME NEW p \in Positions PROVE row[p].frees \subseteq Doomed
  <2>1. row[p].state # "open" => row[p].frees = {}
    BY DEF OutboxInv, RowsOK, RowOK
  <2> QED
    BY <2>1 DEF Doomed
<1> QED
  BY <1>2, <1>3, <1>4, <1>5

LEMMA InsertStep ==
  ASSUME OutboxInv, NEW e \in Events, Insert(e)
  PROVE  OutboxInv' /\ Onward /\ ContractStep
<1>n. PICK n : n = seq + 1
  OBVIOUS
<1> DEFINE new == [state |-> "open", event |-> e, frees |-> Freed, loses |-> DroppedOldest,
              earlier |-> {p \in Stored \ Freed : KeyOf(p) = conf.key[e]}]
<1>0. OutboxType /\ RowsOK /\ FloorOK /\ WrittenOK /\ LossOK /\ InOrder
  BY DEF OutboxInv
<1>1. /\ seq \in Nat /\ seq < MaxPosition /\ MaxPosition \in Nat /\ seq' = n /\ n \in Positions
      /\ n \in 0..MaxPosition /\ n = seq + 1
  BY <1>n, <1>0, PositionsFinite DEF Insert, OutboxType, Positions
<1>2. /\ row' = [row EXCEPT ![n] = new] /\ Freed \cap Doomed = {}
      /\ UNCHANGED <<conf, answer, delivery, registered, floor, dropped, worker, written, unserved>>
  BY <1>n DEF Insert, CanAppend, history
<1>3. /\ new \in RowType
      /\ row'[n] = new /\ \A p \in Positions : p # n => row'[p] = row[p]
      /\ row' \in [Positions -> RowType]
  <2>1. new \in RowType
    BY FreedFacts DEF RowType, Stored
  <2> HIDE DEF new
  <2> QED
    BY <1>0, <1>1, <1>2, <2>1 DEF OutboxType
<1>4. /\ row[n].state = "none" /\ \A p \in Positions : Seen(p) => p # n /\ p <= seq
      /\ row'[n].state = "open"
  BY <1>0, <1>1, <1>3, PositionsFinite DEF OutboxType, Seen
<1>5. Stored' = Stored /\ \A p \in Positions : Seen(p)' <=> Seen(p)
  BY <1>3, <1>4 DEF Stored, Seen
<1>6. \A p \in Stored : p \in Positions /\ Seen(p)
  BY DEF Stored, Seen
<1>7. Onward
  BY <1>2, <1>3, <1>4, <1>5 DEF Onward
<1>8. OutboxType'
  <2>1. ASSUME NEW p \in Positions PROVE (row'[p].state = "none") <=> (p > n)
    <3>1. p \in Nat /\ ((row[p].state = "none") <=> (p > seq))
      BY <1>0, PositionsFinite DEF OutboxType
    <3>2. CASE p = n
      BY <1>1, <1>4, <3>2
    <3>3. CASE p # n
      BY <1>1, <1>3, <3>1, <3>3
    <3> QED
      BY <3>2, <3>3
  <2>2. ASSUME NEW p \in Positions, NEW c \in Consumers, row'[p].state # "stored"
        PROVE  delivery[p][c] = NoDelivery
    BY <1>0, <1>3, <1>4, <2>2 DEF OutboxType
  <2> QED
    BY <1>0, <1>1, <1>2, <1>3, <2>1, <2>2 DEF OutboxType
<1>9. RowsOK'
  <2>1. ASSUME NEW p \in Positions, p # n PROVE RowOK(p)'
    <3>1. RowOK(p) /\ row'[p] = row[p] /\ row[p].earlier \in SUBSET Positions
      BY <1>0, <1>3, <2>1 DEF RowsOK, OutboxType, RowType
    <3>2. \A q \in row[p].earlier : q < p /\ Seen(q)' /\ KeyOf(q)' = KeyOf(p)'
      BY <1>2, <1>3, <1>4, <1>5, <3>1 DEF RowOK, KeyOf
    <3>3. \A q \in row[p].frees \ row[p].loses : Acked(q)'
      BY <1>2, <3>1 DEF RowOK, Acked
    <3> QED
      BY <1>2, <1>5, <3>1, <3>2, <3>3 DEF RowOK
  <2>2. RowOK(n)'
    <3>1. ASSUME NEW q \in new.earlier PROVE q < n /\ Seen(q)' /\ KeyOf(q)' = KeyOf(n)'
      <4>1. q \in Stored /\ KeyOf(q) = conf.key[e] /\ q \in Positions /\ q <= seq /\ q # n
        BY <1>4, <1>6, <3>1
      <4>2. KeyOf(q)' = conf.key[e] /\ KeyOf(n)' = conf.key[e]
        BY <1>2, <1>3, <4>1 DEF KeyOf
      <4> QED
        BY <1>1, <1>5, <1>6, <4>1, <4>2, PositionsFinite
    <3>2. \A q \in Freed \ DroppedOldest : Acked(q)'
      BY <1>2, FreedFacts DEF Acked
    <3>3. /\ row'[n].state = "open" /\ row'[n].event = e /\ row'[n].frees = Freed
          /\ row'[n].loses = DroppedOldest /\ row'[n].earlier = new.earlier
      BY <1>3
    <3> HIDE DEF new
    <3> QED
      BY <1>2, <1>5, <3>1, <3>2, <3>3, FreedFacts DEF RowOK
  <2>3. ASSUME NEW p \in Positions, NEW q \in Positions, p # q
        PROVE  row'[p].frees \cap row'[q].frees = {}
    <3>1. row'[n].frees = Freed
      BY <1>3
    <3>2. row[p].frees \subseteq Doomed /\ row[q].frees \subseteq Doomed
          /\ row[p].frees \cap row[q].frees = {}
      BY <1>0, <2>3, FreedFacts DEF RowsOK
    <3> HIDE DEF new
    <3> QED
      BY <1>2, <1>3, <2>3, <3>1, <3>2
  <2> HIDE DEF new
  <2> QED
    BY <2>1, <2>2, <2>3 DEF RowsOK
<1>10. FloorOK'
  <2>1. ASSUME NEW c \in Consumers PROVE floor[c] <= n /\ n > floor[c]
    <3>1. floor[c] \in Nat /\ floor[c] <= seq
      BY <1>0, <1>1 DEF FloorOK, OutboxType
    <3> QED
      BY <1>1, <3>1
  <2>2. ASSUME NEW c \in Consumers, NEW p \in Positions,
               row'[p].state = "open" \/ (p \in Stored /\ delivery[p][c].verdict = "none")
        PROVE  p > floor[c]
    <3>1. CASE p = n
      BY <2>1, <3>1
    <3>2. CASE p # n
      BY <1>0, <1>3, <2>2, <3>2 DEF FloorOK
    <3> QED
      BY <3>1, <3>2
  <2> QED
    BY <1>1, <1>2, <1>5, <2>1, <2>2 DEF FloorOK
<1>11. WrittenOK' /\ LossOK'
  <2>1. \A c \in Consumers : written[c] \subseteq Positions
    BY <1>0 DEF OutboxType
  <2> QED
    BY <1>0, <1>2, <1>5, <2>1 DEF WrittenOK, LossOK
<1>12. InOrder'
  BY <1>0, <1>2, <1>7, OrderOnward
<1>13. ContractStep
  BY <1>2, <1>5, ContractStutter DEF contractVars
<1> QED
  BY <1>7, <1>8, <1>9, <1>10, <1>11, <1>12, <1>13 DEF OutboxInv

LEMMA AtCapacityStep ==
  ASSUME OutboxInv, NEW e \in Events, AtCapacity(e)
  PROVE  OutboxInv' /\ Onward /\ ContractStep
<1>1. /\ row' = Erased(Freed) /\ delivery' = ErasedDeliveries(Freed)
      /\ unserved' = Unserved(Freed) /\ dropped' = dropped + Cardinality(DroppedOldest)
      /\ Freed \cap Doomed = {}
      /\ UNCHANGED <<conf, seq, registered, floor, written>>
      /\ answer' = [answer EXCEPT ![e] = "Refused"]
  BY DEF AtCapacity, CanAppend
<1>2. answer' \in [Events -> {"none", "Durable", "Refused"}]
  BY <1>1 DEF OutboxInv, OutboxType
<1>3. row' = [p \in Positions |-> IF p \in Freed THEN GoneRow(p)
                                  ELSE IF p \in {} THEN StoredRow(p) ELSE row[p]]
  BY <1>1 DEF Erased, GoneRow
<1>4. \A p \in Positions : row[p].frees \cap Freed = {}
  BY <1>1, FreedFacts
<1>5. Erases(Freed, DroppedOldest, {})
  BY <1>1, <1>3, <1>4, FreedFacts DEF Erases
<1> QED
  BY <1>1, <1>2, <1>5, ErasingStep

LEMMA CommitStep ==
  ASSUME OutboxInv, NEW p \in Positions, NEW heard \in BOOLEAN, Commit(p, heard)
  PROVE  OutboxInv' /\ Onward /\ ContractStep
<1>0. OutboxType /\ RowsOK
  BY DEF OutboxInv
<1>1. RowOK(p) /\ row[p].state = "open" /\ row[p] \in RowType
  BY <1>0 DEF RowsOK, Commit, OutboxType
<1> DEFINE F == row[p].frees
<1>2. /\ F \cap Stored = F /\ F \in SUBSET Stored /\ row[p].loses \in SUBSET F /\ p \notin F
      /\ row[p].event \in Events
  BY <1>1 DEF RowOK, Stored
<1>3. /\ row' = [Erased(F) EXCEPT ![p] = [@ EXCEPT !.state = "stored", !.frees = {}, !.loses = {}]]
      /\ delivery' = ErasedDeliveries(F) /\ unserved' = Unserved(F)
      /\ dropped' = dropped + Cardinality(row[p].loses)
      /\ answer' = IF heard THEN [answer EXCEPT ![row[p].event] = "Durable"] ELSE answer
      /\ UNCHANGED <<conf, seq, registered, floor, written>>
  BY <1>2 DEF Commit
<1>4. answer' \in [Events -> {"none", "Durable", "Refused"}]
  BY <1>0, <1>2, <1>3 DEF OutboxType
<1>5. row' = [q \in Positions |-> IF q \in F THEN GoneRow(q)
                                  ELSE IF q \in {p} THEN StoredRow(q) ELSE row[q]]
  <2>1. Erased(F) = [q \in Positions |-> IF q \in F THEN GoneRow(q) ELSE row[q]]
    BY DEF Erased, GoneRow
  <2>2. PICK E : E = Erased(F)
    OBVIOUS
  <2>3. E[p] = row[p] /\ DOMAIN E = Positions
    BY <1>2, <2>1, <2>2
  <2>4. row' = [E EXCEPT ![p] = StoredRow(p)]
    BY <1>3, <2>2, <2>3 DEF StoredRow
  <2> HIDE DEF F
  <2> QED
    BY <1>2, <2>1, <2>2, <2>4
<1>6. \A q \in Positions \ {p} : row[q].frees \cap F = {}
  BY <1>0 DEF RowsOK
<1>7. \A q \in F \ row[p].loses : Acked(q)
  BY <1>1 DEF RowOK
<1>8. Erases(F, row[p].loses, {p})
  <2>1. conf.policy = "Refuse" => row[p].loses = {}
    BY <1>1 DEF RowOK
  <2> HIDE DEF F
  <2> QED
    BY <1>1, <1>2, <1>3, <1>5, <1>6, <1>7, <2>1 DEF Erases
<1> HIDE DEF F
<1>9. PICK P, G : P = F /\ G = row[p].loses
  OBVIOUS
<1> QED
  BY <1>3, <1>4, <1>8, <1>9, ErasingStep

LEMMA PruneStep ==
  ASSUME OutboxInv, NEW P \in SUBSET Stored, Prune(P)
  PROVE  OutboxInv' /\ Onward /\ ContractStep
<1>1. /\ row' = Erased(P) /\ delivery' = ErasedDeliveries(P) /\ unserved' = Unserved(P)
      /\ dropped' = dropped /\ answer' = answer
      /\ UNCHANGED <<conf, seq, registered, floor, written>>
      /\ \A p \in P : Delivered(p) /\ p \notin Doomed
  BY DEF Prune
<1>2. answer' \in [Events -> {"none", "Durable", "Refused"}] /\ dropped \in Nat
  BY <1>1 DEF OutboxInv, OutboxType
<1>3. row' = [p \in Positions |-> IF p \in P THEN GoneRow(p)
                                  ELSE IF p \in {} THEN StoredRow(p) ELSE row[p]]
  BY <1>1 DEF Erased, GoneRow
<1>4. \A p \in Positions : row[p].frees \cap P = {}
  BY <1>1, FreedFacts
<1>5. \A q \in P \ {} : Acked(q)
  BY <1>1 DEF Delivered, Acked
<1>6. dropped' = dropped + Cardinality({})
  BY <1>1, <1>2, FS_EmptySet
<1>7. Erases(P, {}, {})
  BY <1>1, <1>3, <1>4, <1>5, <1>6 DEF Erases
<1> QED
  BY <1>1, <1>2, <1>7, ErasingStep

LEMMA RollBackStep ==
  ASSUME OutboxInv, NEW p \in Positions, RollBack(p)
  PROVE  OutboxInv' /\ Onward /\ ContractStep
<1>0. OutboxType /\ RowsOK /\ FloorOK /\ WrittenOK /\ LossOK /\ InOrder
  BY DEF OutboxInv
<1>1. /\ row[p].state = "open" /\ row' = [row EXCEPT ![p] = GoneRow(p)]
      /\ UNCHANGED <<conf, seq, answer, delivery, registered, floor, dropped, worker, written, unserved>>
  BY DEF RollBack, GoneRow, history
<1>2. /\ GoneRow(p).state = "gone" /\ GoneRow(p).event = row[p].event
      /\ GoneRow(p).frees = {} /\ GoneRow(p).loses = {} /\ GoneRow(p).earlier = {}
  BY DEF GoneRow, NoRow
<1>3. row[p].event \in Events \cup {NoEvent} /\ row \in [Positions -> RowType]
  BY <1>0 DEF OutboxType, RowType
<1>4. /\ row'[p].state = "gone" /\ row'[p].event = row[p].event /\ row'[p].frees = {}
      /\ row'[p].loses = {} /\ row'[p].earlier = {}
      /\ \A q \in Positions : q # p => row'[q] = row[q]
      /\ row' \in [Positions -> RowType]
  <2>1. row'[p] = GoneRow(p) /\ \A q \in Positions : q # p => row'[q] = row[q]
    BY <1>1, <1>3
  <2>2. GoneRow(p) \in RowType
    BY <1>3 DEF RowType, GoneRow, NoRow
  <2> QED
    BY <1>1, <1>2, <1>3, <2>1, <2>2
<1>5. /\ Stored' = Stored /\ \A q \in Positions : Seen(q) => Seen(q)' /\ q # p
      /\ \A q \in Positions : row'[q].event = row[q].event
      /\ \A q \in Positions : row'[q].earlier \subseteq row[q].earlier
      /\ \A q \in Positions : row'[q].frees \subseteq row[q].frees
  BY <1>1, <1>4 DEF Stored, Seen
<1>6. Onward
  BY <1>1, <1>4, <1>5 DEF Onward
<1>7. OutboxType'
  <2>1. \A q \in Positions : (row'[q].state = "none") <=> (q > seq)
    BY <1>0, <1>1, <1>4 DEF OutboxType
  <2>2. \A q \in Positions, c \in Consumers : row'[q].state # "stored" => delivery[q][c] = NoDelivery
    BY <1>0, <1>1, <1>4 DEF OutboxType
  <2> QED
    BY <1>0, <1>1, <1>4, <2>1, <2>2 DEF OutboxType
<1>8. RowsOK'
  <2>1. ASSUME NEW q \in Positions PROVE RowOK(q)'
    <3>1. RowOK(q) /\ row[q].earlier \in SUBSET Positions
      BY <1>0, <1>3 DEF RowsOK, RowType
    <3>2. \A r \in row'[q].earlier : r < q /\ Seen(r)' /\ KeyOf(r)' = KeyOf(q)'
      <4>1. ASSUME NEW r \in row'[q].earlier PROVE r < q /\ Seen(r)' /\ KeyOf(r)' = KeyOf(q)'
        <5>1. r \in row[q].earlier /\ r \in Positions
          BY <1>5, <3>1, <4>1
        <5>2. r < q /\ Seen(r) /\ KeyOf(r) = KeyOf(q)
          BY <3>1, <5>1 DEF RowOK
        <5> QED
          BY <1>1, <1>5, <5>1, <5>2 DEF KeyOf
      <4> QED
        BY <4>1
    <3>3. CASE q = p
      <4>1. row[p].event \in Events
        BY <1>1, <3>1, <3>3 DEF RowOK
      <4> QED
        BY <1>4, <3>2, <3>3, <4>1 DEF RowOK
    <3>4. CASE q # p
      <4>1. row'[q] = row[q] /\ \A r \in row[q].frees \ row[q].loses : Acked(r)'
        BY <1>1, <1>4, <3>1, <3>4 DEF RowOK, Acked
      <4> QED
        BY <1>1, <1>5, <3>1, <3>2, <4>1 DEF RowOK
    <3> QED
      BY <3>3, <3>4
  <2>2. ASSUME NEW q \in Positions, NEW r \in Positions, q # r
        PROVE  row'[q].frees \cap row'[r].frees = {}
    <3>1. row[q].frees \cap row[r].frees = {}
      BY <1>0, <2>2 DEF RowsOK
    <3> QED
      BY <1>5, <3>1
  <2> QED
    BY <2>1, <2>2 DEF RowsOK
<1>9. FloorOK'
  BY <1>0, <1>1, <1>4, <1>5 DEF FloorOK
<1>10. WrittenOK' /\ LossOK'
  <2>1. \A c \in Consumers : written[c] \subseteq Positions
    BY <1>0 DEF OutboxType
  <2> QED
    BY <1>0, <1>1, <1>5, <2>1 DEF WrittenOK, LossOK
<1>11. InOrder'
  BY <1>0, <1>1, <1>6, OrderOnward
<1>12. ContractStep
  BY <1>1, <1>5, ContractStutter DEF contractVars
<1> QED
  BY <1>6, <1>7, <1>8, <1>9, <1>10, <1>11, <1>12 DEF OutboxInv

LEMMA MinOf ==
  ASSUME NEW S \in SUBSET Nat, S # {} PROVE Min(S) \in S /\ \A x \in S : Min(S) <= x
<1>1. \E n \in S : \A m \in S : n <= m
  BY LeastNatural
<1> QED
  BY <1>1 DEF Min

\* The claim floor is raised past nothing that is unresolved or in progress.
LEMMA RaisedFacts ==
  ASSUME OutboxInv, NEW c \in Consumers, NEW mark \in Settled \cup {0}
  PROVE  /\ Raised(c, mark) \in 0..MaxPosition /\ Raised(c, mark) <= seq
         /\ \A p \in Positions :
              row[p].state = "open" \/ (p \in Stored /\ delivery[p][c].verdict = "none")
                => p > Raised(c, mark)
<1> DEFINE todo == Unresolved(c, DeliveriesOf(c))
           through == IF todo # {} THEN Min(todo) - 1 ELSE IF Stored # {} THEN Max(Stored) ELSE 0
           low == Min({through, mark})
<1>0. /\ OutboxType /\ FloorOK /\ MaxPosition \in Nat /\ Positions \in SUBSET Nat
      /\ floor[c] \in 0..MaxPosition /\ floor[c] <= seq /\ seq \in 0..MaxPosition
      /\ \A p \in Positions : p \in Nat /\ p >= 1
  BY PositionsFinite DEF OutboxInv, OutboxType, FloorOK, Positions
<1>1. /\ Stored \in SUBSET Positions /\ todo \in SUBSET Positions
      /\ \A p \in Stored : delivery[p][c].verdict = "none" => p \in todo
  <2>1. Stored \in SUBSET Positions
    BY DEF Stored
  <2>2. ASSUME NEW p \in Stored, delivery[p][c].verdict = "none" PROVE p \in todo
    <3>1. p > floor[c] /\ DeliveriesOf(c)[p] = delivery[p][c]
      BY <1>0, <2>1, <2>2 DEF FloorOK, DeliveriesOf
    <3> QED
      BY <2>2, <3>1 DEF Unresolved
  <2> QED
    BY <2>1, <2>2 DEF Unresolved
<1>2. mark \in Nat /\ mark <= seq /\ \A p \in Positions : row[p].state = "open" => p > mark
  <2>1. CASE mark = 0
    BY <1>0, <2>1
  <2>2. CASE mark \in Settled
    <3>1. mark \in Positions /\ row[mark].state = "stored"
      BY <2>2 DEF Settled, Stored
    <3>2. ~(mark > seq)
      BY <1>0, <3>1 DEF OutboxType
    <3> QED
      BY <1>0, <2>2, <3>1, <3>2 DEF Settled
  <2> QED
    BY <2>1, <2>2
<1> HIDE DEF todo
<1>3. through \in Nat /\ \A p \in todo : p > through
  <2>1. CASE todo # {}
    <3>1. todo \in SUBSET Nat
      BY <1>0, <1>1
    <3>2. PICK n : n = Min(todo)
      OBVIOUS
    <3>3. n \in todo /\ \A p \in todo : n <= p
      BY <2>1, <3>1, <3>2, MinOf
    <3>4. through = n - 1
      BY <2>1, <3>2
    <3>5. n \in Nat /\ n >= 1 /\ \A p \in todo : p \in Nat /\ n <= p
      BY <1>0, <1>1, <3>3
    <3>6. n - 1 \in Nat /\ \A p \in todo : p > n - 1
      BY ONLY <3>5
    <3> QED
      BY <3>4, <3>6
  <2>2. CASE todo = {} /\ Stored # {}
    <3>1. \E m \in Stored : \A x \in Stored : x <= m
      BY <1>1, <2>2, GreatestPosition
    <3>2. Max(Stored) \in Stored
      BY <1>0, <1>1, <3>1 DEF Max
    <3> QED
      BY <1>0, <1>1, <2>2, <3>2
  <2>3. CASE todo = {} /\ Stored = {}
    BY <2>3
  <2> QED
    BY <2>1, <2>2, <2>3
<1> HIDE DEF through
<1>4. low \in Nat /\ low <= through /\ low <= mark
  <2>1. {through, mark} \in SUBSET Nat /\ {through, mark} # {}
    BY <1>2, <1>3
  <2> QED
    BY <1>2, <1>3, <2>1, MinOf
<1> HIDE DEF low
<1>5. Raised(c, mark) \in {floor[c], low}
  <2>1. Raised(c, mark) = Max({floor[c], low})
    BY DEF Raised, low, through, todo
  <2>2. \E m \in {floor[c], low} : \A x \in {floor[c], low} : m >= x
    BY <1>0, <1>4
  <2> QED
    BY <2>1, <2>2 DEF Max
<1>6. \A p \in Positions :
        row[p].state = "open" \/ (p \in Stored /\ delivery[p][c].verdict = "none")
          => p > floor[c] /\ p > low
  BY <1>0, <1>1, <1>2, <1>3, <1>4 DEF FloorOK
<1> QED
  BY <1>0, <1>2, <1>4, <1>5, <1>6

LEMMA AdvanceStep ==
  ASSUME OutboxInv, Advance PROVE OutboxInv' /\ Onward /\ ContractStep
<1>0. OutboxType /\ RowsOK /\ FloorOK /\ WrittenOK /\ LossOK /\ InOrder
  BY DEF OutboxInv
<1>1. PICK mark \in Settled \cup {0} :
        floor' = [c \in Consumers |-> IF c \in registered THEN Raised(c, mark) ELSE floor[c]]
  BY DEF Advance
<1>2. UNCHANGED <<conf, seq, row, answer, delivery, registered, dropped, worker, written, unserved>>
  BY DEF Advance, history
<1>3. Stored' = Stored
  BY <1>2 DEF Stored
<1>4. ASSUME NEW c \in Consumers
      PROVE  /\ floor'[c] \in 0..MaxPosition /\ floor'[c] <= seq
             /\ \A p \in Positions :
                  row[p].state = "open" \/ (p \in Stored /\ delivery[p][c].verdict = "none")
                    => p > floor'[c]
  <2>1. CASE c \in registered
    BY <1>1, <2>1, RaisedFacts
  <2>2. CASE c \notin registered
    BY <1>0, <1>1, <2>2 DEF OutboxType, FloorOK
  <2> QED
    BY <2>1, <2>2
<1>5. OutboxType'
  BY <1>0, <1>1, <1>2, <1>4 DEF OutboxType
<1>6. FloorOK'
  BY <1>2, <1>3, <1>4 DEF FloorOK
<1>7. RowsOK' /\ WrittenOK' /\ LossOK' /\ InOrder'
  BY <1>0, <1>2, <1>3 DEF RowsOK, RowOK, Acked, Seen, KeyOf, WrittenOK, LossOK, InOrder
<1>8. Onward
  BY <1>2 DEF Onward, Seen
<1>9. ContractStep
  BY <1>2, <1>3, ContractStutter DEF contractVars
<1> QED
  BY <1>5, <1>6, <1>7, <1>8, <1>9 DEF OutboxInv

LEMMA LeaseStep ==
  ASSUME OutboxInv, NEW p \in Positions, NEW c \in Consumers, LeaseExpires(p, c)
  PROVE  OutboxInv' /\ Onward /\ ContractStep
<1>0. OutboxType
  BY DEF OutboxInv
<1>1. PICK d : d = [q \in Positions |-> IF q = p THEN [delivery[p][c] EXCEPT !.live = FALSE]
                                        ELSE delivery[q][c]]
  OBVIOUS
<1>2. \A q \in Positions : delivery[q] \in [Consumers -> DeliveryType] /\ delivery[q][c] \in DeliveryType
  BY <1>0 DEF OutboxType
<1>3. /\ d \in [Positions -> DeliveryType] /\ d[p].verdict = delivery[p][c].verdict
      /\ \A q \in Positions : q # p => d[q] = delivery[q][c]
  <2>1. /\ [delivery[p][c] EXCEPT !.live = FALSE] \in DeliveryType
        /\ [delivery[p][c] EXCEPT !.live = FALSE].verdict = delivery[p][c].verdict
    BY <1>2 DEF DeliveryType
  <2> QED
    BY <1>1, <1>2, <2>1
<1>4. p \in Stored
  <2>1. delivery[p][c] # NoDelivery
    BY DEF LeaseExpires, NoDelivery
  <2> QED
    BY <1>0, <2>1 DEF OutboxType, Stored
<1>5. delivery' = [q \in Positions |-> [delivery[q] EXCEPT ![c] = d[q]]]
  <2>1. delivery' = [delivery EXCEPT ![p] = [delivery[p] EXCEPT ![c] = d[p]]]
    BY <1>1 DEF LeaseExpires
  <2>2. ASSUME NEW q \in Positions, q # p PROVE [delivery[q] EXCEPT ![c] = d[q]] = delivery[q]
    BY <1>2, <1>3, <2>2
  <2>3. delivery \in [Positions -> [Consumers -> DeliveryType]]
    BY <1>0 DEF OutboxType
  <2> QED
    BY <2>1, <2>2, <2>3
<1>6. Judges(c, d)
  BY <1>3, <1>4, <1>5 DEF Judges
<1>7. Registers(c) /\ UNCHANGED <<conf, seq, row, answer, floor, dropped, written, unserved>>
  BY DEF LeaseExpires, Registers, history
<1> QED
  BY <1>6, <1>7, JudgingStep

-----------------------------------------------------------------------------
(* The passes of the workers *)

LEMMA IdleOK == ASSUME NEW w \in Workers PROVE PassOK(Idle, w)
<1>1. /\ Idle.pc = "idle" /\ Idle.cand = <<>> /\ Idle.claimed = <<>> /\ Idle.todo = <<>>
      /\ Idle.landed = {} /\ Idle.orphans = {} /\ Idle.refusals = 0
  BY DEF Idle
<1>2. ASSUME NEW R PROVE <<>> \in Partials(R)
  <2>1. <<>> \in [{} -> R] /\ {} \in SUBSET Positions
    OBVIOUS
  <2> QED
    BY <2>1 DEF Partials
<1>3. Idle \in WorkerType
  BY <1>2 DEF Idle, WorkerType
<1>4. DOMAIN <<>> = {}
  OBVIOUS
<1>5. <<>> \in Seq(Seq(DOMAIN Idle.claimed))
  OBVIOUS
<1> QED
  BY <1>1, <1>3, <1>4, <1>5 DEF PassOK

\* Worker w selects cand for its consumer c.
Selects(w, c, cand) ==
  /\ cand # {} \/ (c \notin registered /\ CanRegister(c))
  /\ registered' = IF cand = {} THEN registered \cup {c} ELSE registered
  /\ worker' = [worker EXCEPT ![w] =
       IF cand = {} THEN @
       ELSE [@ EXCEPT !.pc = "selected", !.cand = [p \in cand |-> delivery[p][c].attempts]]]

LEMMA SelectStep ==
  ASSUME OutboxInv, PassesOK, NEW w \in Workers, Select(w)
  PROVE  OutboxInv' /\ PassesOK' /\ ContractStep
<1>0. OutboxType /\ RowsOK /\ FloorOK /\ WrittenOK
  BY DEF OutboxInv
<1>1. PICK c : c = ConsumerOf(w)
  OBVIOUS
<1>2. c \in Consumers /\ Running(w) /\ worker[w].pc = "idle" /\ worker[w] = Idle
  BY <1>0, <1>1, ConfFacts DEF Select, OutboxType, PassesOK, PassOK
<1> DEFINE d == DeliveriesOf(c)
<1>3. PICK cand, skipped :
        /\ cand = Candidates(c, d, conf.batch, skipped)
        /\ cand # {} \/ (c \notin registered /\ CanRegister(c))
        /\ registered' = IF cand = {} THEN registered \cup {c} ELSE registered
        /\ worker' = [worker EXCEPT ![w] =
             IF cand = {} THEN @
             ELSE [@ EXCEPT !.pc = "selected", !.cand = [p \in cand |-> delivery[p][c].attempts]]]
  <2>1. PICK skipped :
          Selects(w, ConsumerOf(w),
                  Candidates(ConsumerOf(w), DeliveriesOf(ConsumerOf(w)), conf.batch, skipped))
    BY DEF Select, Selects
  <2>2. PICK cand : cand = Candidates(c, d, conf.batch, skipped)
    OBVIOUS
  <2>3. Selects(w, c, cand)
    BY <1>1, <2>1, <2>2
  <2> QED
    BY <2>2, <2>3 DEF Selects
<1>4. UNCHANGED <<conf, seq, row, answer, delivery, floor, dropped, written, unserved>>
  BY DEF Select, history
<1>5. Judges(c, d) /\ Claims(c, d)
  <2>1. \A p \in Positions : delivery[p] \in [Consumers -> DeliveryType]
    BY <1>0 DEF OutboxType
  <2>2. d \in [Positions -> DeliveryType] /\ \A p \in Positions : d[p] = delivery[p][c]
    BY <1>2, <2>1 DEF DeliveriesOf
  <2>3. \A p \in Positions : [delivery[p] EXCEPT ![c] = d[p]] = delivery[p]
    BY <1>2, <2>1, <2>2
  <2>4. delivery \in [Positions -> [Consumers -> DeliveryType]]
    BY <1>0 DEF OutboxType
  <2> HIDE DEF d
  <2>5. delivery' = [p \in Positions |-> [delivery[p] EXCEPT ![c] = d[p]]]
    BY <1>4, <2>3, <2>4
  <2> QED
    BY <2>2, <2>5 DEF Judges, Claims
<1>6. Registers(c)
  BY <1>3 DEF Registers, CanRegister
<1>7. PICK e : e = d
  OBVIOUS
<1>8. OutboxInv' /\ Onward /\ ContractStep
  BY <1>2, <1>4, <1>5, <1>6, <1>7, JudgingStep
<1>9. PICK k : k = IF cand = {} THEN Idle
                   ELSE [Idle EXCEPT !.pc = "selected",
                                     !.cand = [p \in cand |-> delivery[p][c].attempts]]
  OBVIOUS
<1>10. worker' = [worker EXCEPT ![w] = k]
  BY <1>2, <1>3, <1>9
<1>11. PassOK(k, w)
  <2>1. CASE cand = {}
    BY <1>9, <2>1, IdleOK
  <2>2. CASE cand # {}
    <3>1. ASSUME NEW p \in cand PROVE p \in Positions /\ Ready(p, c)
      <4>1. p \in Stored /\ \A q \in row[p].earlier : Over(c, e, q)
        <5>1. p \in Candidates(c, e, conf.batch, skipped) /\ Claims(c, e)
          BY <1>3, <1>5, <1>7, <3>1
        <5> QED
          BY <1>0, <1>2, <5>1, HeadsReady
      <4>2. p \in Positions /\ Seen(p)
        BY <4>1 DEF Stored, Seen
      <4>3. ASSUME NEW q \in row[p].earlier PROVE Cleared(c, q)
        <5>1. q \in Positions
          BY <1>0, <4>2, <4>3 DEF OutboxType, RowType
        <5>2. e[q] = delivery[q][c]
          BY <1>7, <5>1 DEF DeliveriesOf
        <5> QED
          BY <4>1, <4>3, <5>2 DEF Over, Cleared
      <4> QED
        BY <4>2, <4>3 DEF Ready
    <3>2. PICK f : f = [p \in cand |-> delivery[p][c].attempts]
      OBVIOUS
    <3>3. f \in [cand -> Nat] /\ cand \in SUBSET Positions
      BY <1>0, <1>2, <3>1, <3>2 DEF OutboxType, DeliveryType
    <3>4. f \in Partials(Nat) /\ DOMAIN f = cand
      BY <3>3 DEF Partials
    <3>5. /\ k.pc = "selected" /\ k.cand = f /\ k.claimed = <<>> /\ k.todo = <<>>
          /\ k.landed = {} /\ k.orphans = {} /\ k.refusals = 0
          /\ k = [Idle EXCEPT !.pc = "selected", !.cand = f]
      BY <1>9, <2>2, <3>2 DEF Idle
    <3>6. k \in WorkerType
      <4>1. Idle \in WorkerType
        BY IdleOK DEF PassOK
      <4> QED
        BY <3>4, <3>5, <4>1 DEF WorkerType
    <3>7. <<>> \in Seq(Seq(DOMAIN k.claimed)) /\ DOMAIN k.claimed = {}
      BY <3>5
    <3> QED
      BY <1>1, <1>2, <3>1, <3>4, <3>5, <3>6, <3>7 DEF PassOK
  <2> QED
    BY <2>1, <2>2
<1>12. PassesOK'
  BY <1>0, <1>8, <1>10, <1>11, PassOnward, PassesOnward
<1> QED
  BY <1>8, <1>12

LEMMA ClaimStep ==
  ASSUME OutboxInv, PassesOK, NEW w \in Workers, Claim(w)
  PROVE  OutboxInv' /\ PassesOK' /\ ContractStep
<1>0. OutboxType /\ RowsOK /\ FloorOK /\ WrittenOK
  BY DEF OutboxInv
<1>1. PICK c, tx : c = ConsumerOf(w) /\ tx = Claimed(w)
  OBVIOUS
<1>2. PassOK(worker[w], w) /\ worker[w].pc = "selected" /\ Running(w)
  BY DEF Claim, PassesOK, PassOK
<1>3. c \in Consumers
  BY <1>0, <1>1, <1>2, ConfFacts DEF OutboxType
<1>4. ClaimOK(tx, c)
  BY <1>1, <1>2, ClaimedOK
<1>5. /\ delivery' = [p \in Positions |-> [delivery[p] EXCEPT ![c] = tx.d[p]]]
      /\ registered' = registered \cup {c} /\ CanRegister(c)
      /\ worker' = [worker EXCEPT ![w] =
           IF tx.claimed = <<>> THEN Idle
           ELSE [Idle EXCEPT !.pc = "writing", !.todo = <<tx.claimed>>,
                   !.claimed = [p \in ToSet(tx.claimed) |-> tx.d[p].attempts]]]
      /\ UNCHANGED <<conf, seq, row, answer, floor, dropped, written, unserved>>
  BY <1>1 DEF Claim, history
<1>6. PICK d, s : d = tx.d /\ s = tx.claimed
  OBVIOUS
<1>7. /\ Claims(c, d) /\ d \in [Positions -> DeliveryType] /\ s \in Seq(Positions)
      /\ \A p \in ToSet(s) : /\ p \in Stored /\ d[p].attempts > 0
                             /\ \A q \in row[p].earlier : Over(c, d, q)
  BY <1>4, <1>6 DEF ClaimOK, TxType
<1>8. Judges(c, d)
  BY <1>5, <1>6, <1>7 DEF Judges, Claims
<1>9. Registers(c)
  BY <1>5 DEF Registers, CanRegister
<1>10. OutboxInv' /\ Onward /\ ContractStep
  BY <1>3, <1>5, <1>8, <1>9, JudgingStep
<1>11. PICK k : k = IF s = <<>> THEN Idle
                    ELSE [Idle EXCEPT !.pc = "writing", !.todo = <<s>>,
                            !.claimed = [p \in ToSet(s) |-> d[p].attempts]]
  OBVIOUS
<1>12. worker' = [worker EXCEPT ![w] = k]
  BY <1>5, <1>6, <1>11
<1>13. PassOK(k, w)'
  <2>1. CASE s = <<>>
    BY <1>0, <1>10, <1>11, <2>1, IdleOK, PassOnward
  <2>2. CASE s # <<>>
    <3>1. PICK f : f = [p \in ToSet(s) |-> d[p].attempts]
      OBVIOUS
    <3>2. ToSet(s) \in SUBSET Positions /\ DOMAIN f = ToSet(s)
      BY <1>7, <3>1, ToSetOf
    <3>3. f \in [ToSet(s) -> Nat \ {0}]
      BY <1>7, <3>1, <3>2 DEF DeliveryType
    <3>4. f \in Partials(Nat \ {0})
      BY <3>2, <3>3 DEF Partials
    <3>5. /\ k.pc = "writing" /\ k.cand = <<>> /\ k.claimed = f /\ k.todo = <<s>>
          /\ k.landed = {} /\ k.orphans = {} /\ k.refusals = 0
          /\ k = [Idle EXCEPT !.pc = "writing", !.todo = <<s>>, !.claimed = f]
      BY <1>11, <2>2, <3>1 DEF Idle
    <3>6. s \in Seq(ToSet(s))
      <4>1. \A i \in 1..Len(s) : s[i] \in ToSet(s)
        BY <1>7 DEF ToSet
      <4> QED
        BY <1>7, <4>1
    <3>7. <<s>> \in Seq(Seq(DOMAIN f)) /\ <<s>> # <<>> /\ <<s>> \in Seq(Seq(Positions))
      BY <1>7, <3>2, <3>6
    <3>8. k \in WorkerType
      <4>1. Idle \in WorkerType
        BY IdleOK DEF PassOK
      <4> QED
        BY <3>4, <3>5, <3>7, <4>1 DEF WorkerType
    <3>9. ASSUME NEW p \in ToSet(s) PROVE Ready(p, c)'
      <4>1. p \in Positions /\ Seen(p)'
        BY <1>5, <1>7, <3>2, <3>9 DEF Stored, Seen
      <4>2. ASSUME NEW q \in row[p].earlier PROVE Cleared(c, q)'
        <5>1. q \in Positions /\ delivery \in [Positions -> [Consumers -> DeliveryType]]
          BY <1>0, <4>1, <4>2 DEF OutboxType, RowType
        <5>2. delivery'[q][c] = d[q]
          BY <1>3, <1>5, <1>6, <5>1
        <5> QED
          BY <1>5, <1>7, <3>9, <4>2, <5>2 DEF Over, Cleared
      <4> QED
        BY <1>5, <4>1, <4>2 DEF Ready
    <3>10. Running(w)' /\ c = ConsumerOf(w)'
      BY <1>1, <1>2, <1>5 DEF Running, ConsumerOf
    <3>11. DOMAIN k.cand = {}
      BY <3>5
    <3> QED
      BY <3>2, <3>5, <3>7, <3>8, <3>9, <3>10, <3>11 DEF PassOK
  <2> QED
    BY <2>1, <2>2
<1>14. PassesOK'
  BY <1>0, <1>10, <1>12, <1>13, PassesOnward
<1> QED
  BY <1>10, <1>14

\* The destination of c takes rows that are ready for it.
LEMMA ServingStep ==
  ASSUME OutboxInv, NEW c \in Consumers, NEW P \in SUBSET Positions,
         \A p \in P : Ready(p, c), written' = [written EXCEPT ![c] = @ \cup P],
         UNCHANGED <<conf, seq, row, answer, delivery, registered, floor, dropped, unserved>>
  PROVE  OutboxInv' /\ Onward /\ ContractStep
<1>0. OutboxType /\ RowsOK /\ FloorOK /\ WrittenOK /\ LossOK /\ InOrder
  BY DEF OutboxInv
<1>1. written \in [Consumers -> SUBSET Positions]
  BY <1>0 DEF OutboxType
<1>2. /\ written' \in [Consumers -> SUBSET Positions]
      /\ written'[c] = written[c] \cup P
      /\ \A b \in Consumers : b # c => written'[b] = written[b]
  BY <1>1
<1>3. Stored' = Stored
  BY DEF Stored
<1>4. Onward
  BY <1>2 DEF Onward, Seen
<1>5. OutboxType'
  BY <1>0, <1>2 DEF OutboxType
<1>6. RowsOK' /\ FloorOK' /\ LossOK'
  BY <1>0, <1>3 DEF RowsOK, RowOK, Acked, Seen, KeyOf, FloorOK, LossOK
<1>7. WrittenOK'
  BY <1>0, <1>2 DEF WrittenOK, Seen, Ready
<1>8. InOrder'
  <2>1. ASSUME NEW b \in Consumers, NEW p \in written'[b], NEW q \in row[p].earlier
        PROVE  q \in written'[b] \/ delivery[q][b].verdict = "poison" \/ row[q].state = "gone"
    <3>1. CASE p \in written[b]
      BY <1>0, <1>2, <2>1, <3>1 DEF InOrder
    <3>2. CASE p \notin written[b]
      <4>1. b = c /\ p \in P
        BY <1>2, <2>1, <3>2
      <4> QED
        BY <1>2, <2>1, <4>1 DEF Ready, Cleared
    <3> QED
      BY <3>1, <3>2
  <2> QED
    BY <2>1 DEF InOrder
<1>9. ContractStep
  <2>1. Contract!Serve(c)
    BY <1>3 DEF Contract!Serve
  <2> QED
    BY <2>1 DEF ContractStep, Contract!Next
<1> QED
  BY <1>4, <1>5, <1>6, <1>7, <1>8, <1>9 DEF OutboxInv

LEMMA HeadTail ==
  ASSUME NEW S, NEW s \in Seq(S), s # <<>>
  PROVE  Head(s) \in S /\ Tail(s) \in Seq(S) /\ s = <<Head(s)>> \o Tail(s)
  OBVIOUS

LEMMA ConcatType ==
  ASSUME NEW S, NEW s \in Seq(S), NEW t \in Seq(S) PROVE s \o t \in Seq(S)
  OBVIOUS

\* What a pass is made of, whatever the outbox says of it.
Shape(k) ==
  /\ k \in WorkerType /\ k.todo \in Seq(Seq(DOMAIN k.claimed))
  /\ k.landed \subseteq DOMAIN k.claimed /\ k.orphans \subseteq DOMAIN k.claimed

LEMMA HalvesType ==
  ASSUME NEW S, NEW r \in Seq(S) PROVE Halves(r) \in Seq(Seq(S))
<1>1. PICK h : h = Len(r) \div 2
  OBVIOUS
<1>2. Len(r) \in Nat /\ h \in Nat /\ h <= Len(r)
  BY <1>1
<1>3. SubSeq(r, 1, h) \in Seq(S) /\ SubSeq(r, h + 1, Len(r)) \in Seq(S)
  BY <1>2, SubSeqProperties
<1> QED
  BY <1>1, <1>3 DEF Halves

LEMMA AnsweredShape ==
  ASSUME NEW k, Shape(k), k.todo # <<>>, NEW ok \in BOOLEAN, NEW r, r = Head(k.todo),
         NEW l, (ok /\ l = Accepted(k, r)) \/ (~ok /\ l = Refused(k, r))
  PROVE  /\ Shape(l) /\ l.pc = k.pc /\ l.claimed = k.claimed /\ l.cand = k.cand
         /\ (ok => l.landed = k.landed \cup ToSet(r)) /\ (~ok => l.landed = k.landed)
         /\ r \in Seq(DOMAIN k.claimed)
<1>1. k \in WorkerType /\ k.todo \in Seq(Seq(DOMAIN k.claimed))
  BY DEF Shape
<1>2. DOMAIN k.claimed \in SUBSET Positions
  BY <1>1 DEF WorkerType, Partials
<1>3. r \in Seq(DOMAIN k.claimed) /\ Tail(k.todo) \in Seq(Seq(DOMAIN k.claimed))
  BY <1>1, HeadTail
<1>4. ToSet(r) \in SUBSET DOMAIN k.claimed
  BY <1>3, ToSetOf
<1>5. ASSUME NEW t \in Seq(Seq(DOMAIN k.claimed)) PROVE t \in Seq(Seq(Positions))
  BY <1>2, <1>5
<1>6. CASE ok
  <2>1. l = [k EXCEPT !.landed = @ \cup ToSet(r), !.todo = Tail(@)]
    BY <1>6 DEF Accepted
  <2>2. /\ l.pc = k.pc /\ l.claimed = k.claimed /\ l.cand = k.cand
        /\ l.landed = k.landed \cup ToSet(r) /\ l.todo = Tail(k.todo) /\ l.orphans = k.orphans
        /\ l \in WorkerType
    BY <1>1, <1>2, <1>3, <1>4, <1>5, <2>1 DEF WorkerType
  <2> QED
    BY <1>3, <1>4, <1>6, <2>2 DEF Shape
<1>7. CASE ~ok
  <2>1. PICK t, o : /\ t = Tail(k.todo) \o (IF Len(r) = 1 THEN <<>> ELSE Halves(r))
                    /\ o = IF Len(r) = 1 THEN k.orphans \cup ToSet(r) ELSE k.orphans
    OBVIOUS
  <2>2. t \in Seq(Seq(DOMAIN k.claimed)) /\ o \in SUBSET DOMAIN k.claimed
    <3>1. <<>> \in Seq(Seq(DOMAIN k.claimed)) /\ Halves(r) \in Seq(Seq(DOMAIN k.claimed))
      BY <1>3, HalvesType
    <3>2. t \in Seq(Seq(DOMAIN k.claimed))
      BY <1>3, <2>1, <3>1, ConcatType
    <3> QED
      BY <1>4, <2>1, <3>2 DEF Shape
  <2>3. PICK next : next = [k EXCEPT !.refusals = @ + 1, !.orphans = o, !.todo = t]
    OBVIOUS
  <2>4. Refused(k, r) = IF k.landed = {} /\ next.refusals >= conf.probe
                          THEN [next EXCEPT !.todo = <<>>, !.orphans = {}] ELSE next
    BY <2>1, <2>3 DEF Refused
  <2>5. /\ next \in WorkerType /\ next.pc = k.pc /\ next.claimed = k.claimed
        /\ next.cand = k.cand /\ next.landed = k.landed /\ next.todo = t /\ next.orphans = o
    <3>1. k.refusals + 1 \in Nat /\ o \in SUBSET Positions /\ t \in Seq(Seq(Positions))
      BY <1>1, <1>2, <1>5, <2>2 DEF WorkerType
    <3> QED
      BY ONLY <1>1, <2>3, <3>1 DEF WorkerType
  <2>6. PICK last : last = [next EXCEPT !.todo = <<>>, !.orphans = {}]
    OBVIOUS
  <2>7. /\ last \in WorkerType /\ last.pc = k.pc /\ last.claimed = k.claimed
        /\ last.cand = k.cand /\ last.landed = k.landed /\ last.todo = <<>> /\ last.orphans = {}
    <3>1. <<>> \in Seq(Seq(Positions)) /\ {} \in SUBSET Positions
      OBVIOUS
    <3>2. PICK s, z : s = <<>> /\ z = {}
      OBVIOUS
    <3>3. /\ last = [next EXCEPT !.todo = s, !.orphans = z]
          /\ s \in Seq(Seq(Positions)) /\ z \in SUBSET Positions /\ next \in WorkerType
      BY <2>5, <2>6, <3>1, <3>2
    <3>4. /\ last \in WorkerType /\ last.pc = next.pc /\ last.claimed = next.claimed
          /\ last.cand = next.cand /\ last.landed = next.landed /\ last.todo = s
          /\ last.orphans = z
      BY ONLY <3>3 DEF WorkerType
    <3> QED
      BY <2>5, <3>2, <3>4
  <2>8. Shape(next) /\ Shape(last)
    BY <2>2, <2>5, <2>7 DEF Shape
  <2>9. l = next \/ l = last
    BY <1>7, <2>4, <2>6
  <2> QED
    BY <1>3, <1>7, <2>5, <2>7, <2>8, <2>9
<1> QED
  BY <1>6, <1>7

LEMMA JudgedShape ==
  ASSUME NEW k, Shape(k), k.pc = "writing", NEW l, l = Judged(k)
  PROVE  /\ Shape(l) /\ l.pc \in {"writing", "settling", "acking"}
         /\ l.pc = "writing" => l.todo # <<>>
         /\ l.claimed = k.claimed /\ l.cand = k.cand /\ l.landed = k.landed
<1>1. CASE k.todo # <<>>
  BY <1>1 DEF Judged
<1>2. CASE k.todo = <<>>
  <2>1. PICK a, o : /\ a = IF k.landed = DOMAIN k.claimed THEN "acking" ELSE "settling"
                    /\ o = IF k.landed = {} THEN {} ELSE k.orphans
    OBVIOUS
  <2>2. l = [k EXCEPT !.pc = a, !.orphans = o, !.refusals = 0]
    BY <1>2, <2>1 DEF Judged
  <2>3. k \in WorkerType /\ a \in {"settling", "acking"} /\ o \subseteq k.orphans
    BY <2>1 DEF Shape
  <2>4. /\ l \in WorkerType /\ l.pc = a /\ l.claimed = k.claimed /\ l.cand = k.cand
        /\ l.landed = k.landed /\ l.todo = k.todo /\ l.orphans = o
    <3>1. o \in SUBSET Positions /\ 0 \in Nat
      BY <2>3 DEF WorkerType
    <3> QED
      BY ONLY <2>2, <2>3, <3>1 DEF WorkerType
  <2> QED
    BY <2>3, <2>4 DEF Shape
<1> QED
  BY <1>1, <1>2

LEMMA WriteStep ==
  ASSUME OutboxInv, PassesOK, NEW w \in Workers, NEW ok \in BOOLEAN, Write(w, ok)
  PROVE  OutboxInv' /\ PassesOK' /\ ContractStep
<1>0. OutboxType
  BY DEF OutboxInv
<1>1. PICK c, k : c = ConsumerOf(w) /\ k = worker[w]
  OBVIOUS
<1>2. PassOK(k, w) /\ k.pc = "writing"
  BY <1>1 DEF PassesOK, Write
<1>3. Running(w) /\ c \in Consumers
  <2>1. Running(w)
    BY <1>2 DEF PassOK
  <2> QED
    BY <1>0, <1>1, <2>1, ConfFacts DEF OutboxType
<1>4. /\ Shape(k) /\ k.todo # <<>> /\ k.landed \subseteq written[c]
      /\ \A p \in DOMAIN k.cand \cup DOMAIN k.claimed : Ready(p, c)
  BY <1>1, <1>2, <1>3 DEF PassOK, Shape
<1>5. PICK r : r = Head(k.todo)
  OBVIOUS
<1>6. PICK l : l = IF ok THEN Accepted(k, r) ELSE Refused(k, r)
  OBVIOUS
<1>7. PICK m : m = Judged(l)
  OBVIOUS
<1>8. /\ written' = IF ok THEN Inserted(c, r) ELSE written
      /\ worker' = [worker EXCEPT ![w] = m]
  BY <1>1, <1>5, <1>6, <1>7 DEF Write
<1>9. UNCHANGED <<conf, seq, row, answer, delivery, registered, floor, dropped, unserved>>
  BY DEF Write, journal
<1>10. /\ Shape(l) /\ l.pc = k.pc /\ l.claimed = k.claimed /\ l.cand = k.cand
       /\ (ok => l.landed = k.landed \cup ToSet(r)) /\ (~ok => l.landed = k.landed)
       /\ r \in Seq(DOMAIN k.claimed)
  <2>1. (ok /\ l = Accepted(k, r)) \/ (~ok /\ l = Refused(k, r))
    BY <1>6
  <2> QED
    BY <1>4, <1>5, <2>1, AnsweredShape
<1>11. /\ Shape(m) /\ m.pc \in {"writing", "settling", "acking"}
       /\ m.pc = "writing" => m.todo # <<>>
       /\ m.claimed = k.claimed /\ m.cand = k.cand /\ m.landed = l.landed
  BY <1>2, <1>7, <1>10, JudgedShape
<1>12. PICK P : P = IF ok THEN ToSet(r) ELSE {}
  OBVIOUS
<1>13. P \in SUBSET Positions /\ P \subseteq DOMAIN k.claimed
  <2>1. ToSet(r) \in SUBSET DOMAIN k.claimed
    BY <1>10, ToSetOf
  <2>2. DOMAIN k.claimed \subseteq Positions
    BY <1>4 DEF Shape, WorkerType, Partials
  <2> QED
    BY <1>12, <2>1, <2>2
<1>14. written \in [Consumers -> SUBSET Positions]
  BY <1>0 DEF OutboxType
<1>15. written' = [written EXCEPT ![c] = @ \cup P]
  BY <1>8, <1>12, <1>14 DEF Inserted
<1>16. OutboxInv' /\ Onward /\ ContractStep
  BY <1>3, <1>4, <1>9, <1>13, <1>15, ServingStep
<1>17. PassOK(m, w)'
  <2>1. Running(w)' /\ c = ConsumerOf(w)'
    BY <1>1, <1>3, <1>9 DEF Running, ConsumerOf
  <2>2. m.landed \subseteq written'[c]
    BY <1>3, <1>4, <1>10, <1>11, <1>12, <1>14, <1>15
  <2>3. DOMAIN k.cand \subseteq Positions /\ DOMAIN k.claimed \subseteq Positions
    BY <1>4 DEF Shape, WorkerType, Partials
  <2>4. \A p \in DOMAIN m.cand \cup DOMAIN m.claimed : Ready(p, c)'
    BY <1>0, <1>3, <1>4, <1>11, <1>16, <2>3, ReadyOnward
  <2>5. m.pc # "idle"
    BY <1>11
  <2> QED
    BY <1>11, <2>1, <2>2, <2>4, <2>5 DEF PassOK, Shape
<1>18. PassesOK'
  BY <1>0, <1>8, <1>16, <1>17, PassesOnward
<1> QED
  BY <1>16, <1>18

\* A step that rules on rows for the consumer of w and leaves w with pass l.
LEMMA RulingStep ==
  ASSUME OutboxInv, PassesOK, NEW w \in Workers, Running(w), NEW c, c = ConsumerOf(w),
         NEW d, Judges(c, d), NEW l, PassOK(l, w), worker' = [worker EXCEPT ![w] = l],
         UNCHANGED <<conf, seq, row, answer, registered, floor, dropped, written, unserved>>
  PROVE  OutboxInv' /\ PassesOK' /\ ContractStep
<1>0. OutboxType
  BY DEF OutboxInv
<1>1. c \in Consumers
  BY <1>0, ConfFacts DEF OutboxType
<1>2. OutboxInv' /\ Onward /\ ContractStep
  BY <1>1, JudgingStep DEF Registers
<1>3. PassOK(l, w)'
  BY <1>0, <1>2, PassOnward
<1>4. PassesOK'
  BY <1>0, <1>2, <1>3, PassesOnward
<1> QED
  BY <1>2, <1>4

\* What a verdict and a relinquishment make of a delivery.
LEMMA RuledFacts ==
  ASSUME NEW p, NEW v \in {"ack", "poison"}, NEW d \in DeliveryType
  PROVE  /\ Ruled(p, d, v) \in DeliveryType
         /\ \/ Ruled(p, d, v) = d
            \/ p \in Stored /\ d.verdict = "none" /\ Ruled(p, d, v).verdict = v
  BY DEF Ruled, Open, DeliveryType

LEMMA RelinquishedFacts ==
  ASSUME NEW p, NEW a \in Nat \ {0}, NEW d \in DeliveryType
  PROVE  /\ Relinquished(p, d, a) \in DeliveryType
         /\ \/ Relinquished(p, d, a) = d
            \/ p \in Stored /\ Relinquished(p, d, a).verdict = d.verdict
<1>1. CASE p \in Stored /\ d.attempts = a /\ d.verdict = "none"
  <2>1. Relinquished(p, d, a) = [d EXCEPT !.attempts = @ - 1]
    BY <1>1 DEF Relinquished
  <2>2. d.attempts - 1 \in Nat
    BY <1>1
  <2> QED
    BY <1>1, <2>1, <2>2 DEF DeliveryType
<1>2. CASE ~(p \in Stored /\ d.attempts = a /\ d.verdict = "none")
  BY <1>2 DEF Relinquished
<1> QED
  BY <1>1, <1>2

LEMMA FinishedOK ==
  ASSUME NEW k, NEW w \in Workers, PassOK(k, w), k.pc = "settling"
  PROVE  PassOK(Finished(k), w)
<1>1. CASE k.landed = {}
  BY <1>1, IdleOK DEF Finished
<1>2. CASE k.landed # {}
  <2>1. PICK l : l = [k EXCEPT !.pc = "acking"]
    OBVIOUS
  <2>2. k \in WorkerType
    BY DEF PassOK
  <2>3. /\ l \in WorkerType /\ l.pc = "acking" /\ l.cand = k.cand /\ l.claimed = k.claimed
        /\ l.todo = k.todo /\ l.landed = k.landed /\ l.orphans = k.orphans
    BY ONLY <2>1, <2>2 DEF WorkerType
  <2>4. PassOK(l, w)
    BY <2>3 DEF PassOK
  <2> QED
    BY <1>2, <2>1, <2>4 DEF Finished
<1> QED
  BY <1>1, <1>2

\* A pass that is done with one of its events is one of the rest.
LEMMA PastOK ==
  ASSUME NEW k, NEW w \in Workers, PassOK(k, w), k.pc = "settling", NEW p
  PROVE  PassOK(Past(k, p), w)
<1>1. PICK l, f : l = Past(k, p) /\ f = Restrict(k.claimed, DOMAIN k.claimed \ {p})
  OBVIOUS
<1>2. k \in WorkerType
  BY DEF PassOK
<1>3. f \in Partials(Nat \ {0}) /\ DOMAIN f = DOMAIN k.claimed \ {p}
  <2>1. PICK S \in SUBSET Positions : k.claimed \in [S -> Nat \ {0}]
    BY <1>2 DEF WorkerType, Partials
  <2>2. f \in [S \ {p} -> Nat \ {0}] /\ S \ {p} \in SUBSET Positions
    BY <1>1, <2>1 DEF Restrict
  <2> QED
    BY <2>1, <2>2 DEF Partials
<1>4. /\ l \in WorkerType /\ l.pc = "settling" /\ l.cand = k.cand /\ l.claimed = f
      /\ l.todo = <<>> /\ l.landed = k.landed \ {p} /\ l.orphans = k.orphans \ {p}
  <2>1. l = [k EXCEPT !.claimed = f, !.todo = <<>>, !.landed = k.landed \ {p},
                      !.orphans = k.orphans \ {p}]
    BY <1>1, <1>2 DEF Past, WorkerType
  <2>2. <<>> \in Seq(Seq(Positions))
    OBVIOUS
  <2> QED
    BY ONLY <1>2, <1>3, <2>1, <2>2, k.pc = "settling" DEF WorkerType
<1>5. l.todo \in Seq(Seq(DOMAIN l.claimed))
  BY <1>4
<1> QED
  BY <1>1, <1>3, <1>4, <1>5 DEF PassOK

LEMMA SettleStep ==
  ASSUME OutboxInv, PassesOK, NEW w \in Workers,
         NEW p \in DOMAIN worker[w].claimed, NEW done \in BOOLEAN, Settle(w, p, done)
  PROVE  OutboxInv' /\ PassesOK' /\ ContractStep
<1>0. OutboxType
  BY DEF OutboxInv
<1>1. PICK c, k : c = ConsumerOf(w) /\ k = worker[w]
  OBVIOUS
<1>2. PassOK(k, w) /\ k.pc = "settling"
  BY <1>1 DEF PassesOK, Settle
<1>3. Running(w) /\ c \in Consumers
  <2>1. Running(w)
    BY <1>2 DEF PassOK
  <2> QED
    BY <1>0, <1>1, <2>1, ConfFacts DEF OutboxType
<1>4. UNCHANGED <<conf, seq, row, answer, registered, floor, dropped, written, unserved>>
  BY DEF Settle, history
<1>5. p \in Positions /\ k.claimed[p] \in Nat \ {0}
  <2>1. k.claimed \in Partials(Nat \ {0})
    BY <1>2 DEF PassOK, WorkerType
  <2> QED
    BY <1>1, <2>1 DEF Partials
<1>6. PICK x, a : x = delivery[p][c] /\ a = k.claimed[p]
  OBVIOUS
<1>7. x \in DeliveryType /\ a \in Nat \ {0}
  BY <1>0, <1>3, <1>5, <1>6 DEF OutboxType
<1>8. PICK y : y = CASE ~done -> x
                     [] done /\ p \in k.orphans -> Ruled(p, x, "poison")
                     [] OTHER -> Relinquished(p, x, a)
  OBVIOUS
<1>9. /\ y \in DeliveryType
      /\ \/ y = x
         \/ p \in Stored /\ y.verdict = x.verdict
         \/ p \in Stored /\ x.verdict = "none" /\ y.verdict = "poison"
  <2>1. CASE ~done
    BY <1>7, <1>8, <2>1
  <2>2. CASE done /\ p \in k.orphans
    <3>1. PICK v : v = "poison" /\ v \in {"ack", "poison"}
      OBVIOUS
    <3>2. /\ Ruled(p, x, v) \in DeliveryType
          /\ \/ Ruled(p, x, v) = x
             \/ p \in Stored /\ x.verdict = "none" /\ Ruled(p, x, v).verdict = v
      BY <1>7, <3>1, RuledFacts
    <3>3. y = Ruled(p, x, v)
      BY <1>8, <2>2, <3>1
    <3> QED
      BY <3>1, <3>2, <3>3
  <2>3. CASE done /\ p \notin k.orphans
    <3>1. y = Relinquished(p, x, a)
      BY <1>8, <2>3
    <3> QED
      BY <1>7, <3>1, RelinquishedFacts
  <2> QED
    BY <2>1, <2>2, <2>3
<1>10. PICK d : d = [q \in Positions |-> IF q = p THEN y ELSE delivery[q][c]]
  OBVIOUS
<1>11. delivery' = [delivery EXCEPT ![p][c] = y]
  BY <1>1, <1>6, <1>8 DEF Settle
<1>12. \A q \in Positions : delivery[q] \in [Consumers -> DeliveryType]
  BY <1>0 DEF OutboxType
<1>13. delivery' = [q \in Positions |-> [delivery[q] EXCEPT ![c] = d[q]]]
  <2>1. ASSUME NEW q \in Positions
        PROVE  [delivery[q] EXCEPT ![c] = d[q]] =
               IF q = p THEN [delivery[p] EXCEPT ![c] = y] ELSE delivery[q]
    BY <1>3, <1>10, <1>12
  <2>2. delivery \in [Positions -> [Consumers -> DeliveryType]]
    BY <1>0 DEF OutboxType
  <2> QED
    BY <1>5, <1>11, <2>1, <2>2
<1>14. Judges(c, d)
  <2>1. d \in [Positions -> DeliveryType]
    BY <1>3, <1>9, <1>10, <1>12
  <2>2. \A q \in Positions : d[q] = IF q = p THEN y ELSE delivery[q][c]
    BY <1>10
  <2> QED
    BY <1>6, <1>9, <1>13, <2>1, <2>2 DEF Judges
<1>15. PICK l : l = Past(k, p)
  OBVIOUS
<1>16. worker' = [worker EXCEPT ![w] = l] /\ PassOK(l, w)
  BY <1>1, <1>2, <1>15, PastOK DEF Settle
<1> QED
  BY <1>1, <1>3, <1>4, <1>14, <1>16, RulingStep

LEMMA SettleEndsStep ==
  ASSUME OutboxInv, PassesOK, NEW w \in Workers, SettleEnds(w)
  PROVE  OutboxInv' /\ PassesOK' /\ ContractStep
<1>0. OutboxType
  BY DEF OutboxInv
<1>1. PICK k, l : k = worker[w] /\ l = Finished(k)
  OBVIOUS
<1>2. UNCHANGED <<conf, seq, row, answer, delivery, registered, floor, dropped, written, unserved>>
  BY DEF SettleEnds, journal, history
<1>3. OutboxInv' /\ Onward /\ ContractStep
  BY <1>0, <1>2, QuietStep DEF OutboxType
<1>4. PassOK(l, w)
  BY <1>1, FinishedOK DEF SettleEnds, PassesOK
<1>5. worker' = [worker EXCEPT ![w] = l]
  BY <1>1 DEF SettleEnds
<1>6. PassesOK'
  BY <1>0, <1>3, <1>4, <1>5, PassOnward, PassesOnward
<1> QED
  BY <1>3, <1>6

LEMMA AckAllStep ==
  ASSUME OutboxInv, PassesOK, NEW w \in Workers, NEW acked, AckAll(w, acked)
  PROVE  OutboxInv' /\ PassesOK' /\ ContractStep
<1>0. OutboxType
  BY DEF OutboxInv
<1>1. PICK c, k : c = ConsumerOf(w) /\ k = worker[w]
  OBVIOUS
<1>2. PassOK(k, w) /\ k.pc = "acking" /\ acked \subseteq k.landed
  BY <1>1 DEF PassesOK, AckAll
<1>3. Running(w) /\ c \in Consumers
  <2>1. Running(w)
    BY <1>2 DEF PassOK
  <2> QED
    BY <1>0, <1>1, <2>1, ConfFacts DEF OutboxType
<1>4. acked \subseteq written[c]
  BY <1>1, <1>2, <1>3 DEF PassOK
<1>5. PICK d : d = [p \in Positions |-> IF p \in acked THEN Ruled(p, delivery[p][c], "ack")
                                        ELSE delivery[p][c]]
  OBVIOUS
<1>6. UNCHANGED <<conf, seq, row, answer, registered, floor, dropped, written, unserved>>
  BY DEF AckAll, history
<1>7. delivery' = [p \in Positions |-> [delivery[p] EXCEPT ![c] = d[p]]]
  <2>1. delivery' = [p \in Positions |-> [delivery[p] EXCEPT ![c] =
                       IF p \in acked THEN Ruled(p, @, "ack") ELSE @]]
    BY <1>1 DEF AckAll
  <2>2. \A p \in Positions :
          d[p] = IF p \in acked THEN Ruled(p, delivery[p][c], "ack") ELSE delivery[p][c]
    BY <1>5
  <2> QED
    BY <2>1, <2>2
<1>8. ASSUME NEW p \in Positions
      PROVE  /\ d[p] \in DeliveryType
             /\ \/ d[p] = delivery[p][c]
                \/ /\ p \in Stored /\ delivery[p][c].verdict = "none" /\ d[p].verdict = "ack"
                   /\ p \in written[c]
  <2>1. delivery[p][c] \in DeliveryType
    BY <1>0, <1>3 DEF OutboxType
  <2>2. CASE p \in acked
    <3>1. d[p] = Ruled(p, delivery[p][c], "ack")
      BY <1>5, <2>2
    <3> QED
      BY <1>4, <2>1, <2>2, <3>1, RuledFacts
  <2>3. CASE p \notin acked
    BY <1>5, <2>1, <2>3
  <2> QED
    BY <2>2, <2>3
<1>9. d \in [Positions -> DeliveryType]
  BY <1>5, <1>8
<1>10. Judges(c, d)
  BY <1>7, <1>8, <1>9 DEF Judges
<1>11. worker' = [worker EXCEPT ![w] = Idle]
  BY DEF AckAll
<1>12. PassOK(Idle, w)
  BY IdleOK
<1> QED
  BY <1>1, <1>3, <1>6, <1>10, <1>11, <1>12, RulingStep

LEMMA AbandonStep ==
  ASSUME OutboxInv, PassesOK, NEW w \in Workers, Abandon(w)
  PROVE  OutboxInv' /\ PassesOK' /\ ContractStep
<1>0. OutboxType
  BY DEF OutboxInv
<1>1. UNCHANGED <<conf, seq, row, answer, delivery, registered, floor, dropped, written, unserved>>
  BY DEF Abandon, journal, history
<1>2. OutboxInv' /\ Onward /\ ContractStep
  BY <1>0, <1>1, QuietStep DEF OutboxType
<1>3. PassOK(Idle, w)'
  BY <1>0, <1>2, IdleOK, PassOnward
<1>4. worker' = [worker EXCEPT ![w] = Idle]
  BY DEF Abandon
<1>5. PassesOK'
  BY <1>0, <1>2, <1>3, <1>4, PassesOnward
<1> QED
  BY <1>2, <1>5

-----------------------------------------------------------------------------
(* Every step of the outbox *)

LEMMA AppendingStep ==
  ASSUME JournalInv, AppendStep PROVE JournalInv' /\ ContractStep
<1>0. OutboxInv /\ PassesOK /\ OutboxType
  BY DEF JournalInv, OutboxInv
<1>1. worker' = worker
  BY DEF AppendStep, AlreadyPresent, Insert, AtCapacity, AppendFails, Commit, RollBack
<1>2. answer \in [Events -> {"none", "Durable", "Refused"}] /\ conf.events \subseteq Events
  <2>1. conf \in ConfigType
    BY <1>0, ConfFacts DEF OutboxType
  <2> QED
    BY <1>0, <2>1 DEF OutboxType, ConfigType
<1>3. OutboxInv' /\ Onward /\ ContractStep
  <2>1. ASSUME NEW e \in conf.events, AlreadyPresent(e) \/ AppendFails(e)
        PROVE  OutboxInv' /\ Onward /\ ContractStep
    <3>1. answer' \in [Events -> {"none", "Durable", "Refused"}]
      BY <1>2, <2>1 DEF AlreadyPresent, AppendFails
    <3>2. UNCHANGED <<conf, seq, row, delivery, registered, floor, dropped, written, unserved>>
      BY <2>1 DEF AlreadyPresent, AppendFails, history
    <3> QED
      BY <1>0, <3>1, <3>2, QuietStep
  <2>2. ASSUME NEW e \in conf.events, Insert(e) PROVE OutboxInv' /\ Onward /\ ContractStep
    BY <1>0, <1>2, <2>2, InsertStep
  <2>3. ASSUME NEW e \in conf.events, AtCapacity(e) PROVE OutboxInv' /\ Onward /\ ContractStep
    BY <1>0, <1>2, <2>3, AtCapacityStep
  <2>4. ASSUME NEW p \in Positions, NEW heard \in BOOLEAN, Commit(p, heard)
        PROVE  OutboxInv' /\ Onward /\ ContractStep
    BY <1>0, <2>4, CommitStep
  <2>5. ASSUME NEW p \in Positions, RollBack(p) PROVE OutboxInv' /\ Onward /\ ContractStep
    BY <1>0, <2>5, RollBackStep
  <2> QED
    BY <2>1, <2>2, <2>3, <2>4, <2>5 DEF AppendStep
<1> QED
  BY <1>0, <1>1, <1>3, PassesStay DEF JournalInv

LEMMA DeliveringStep ==
  ASSUME JournalInv, NEW w \in Workers, Deliver(w) \/ Abandon(w)
  PROVE  JournalInv' /\ ContractStep
<1>0. OutboxInv /\ PassesOK
  BY DEF JournalInv
<1> QED
  BY <1>0, SelectStep, ClaimStep, SettleStep, SettleEndsStep, WriteStep, AckAllStep, AbandonStep
     DEF Deliver, JournalInv

LEMMA MaintainingStep ==
  ASSUME JournalInv, Maintain \/ \E p \in Positions, c \in Consumers : LeaseExpires(p, c)
  PROVE  JournalInv' /\ ContractStep
<1>0. OutboxInv /\ PassesOK /\ OutboxType
  BY DEF JournalInv, OutboxInv
<1>1. worker' = worker
  BY DEF Maintain, Prune, Advance, LeaseExpires
<1>2. OutboxInv' /\ Onward /\ ContractStep
  BY <1>0, PruneStep, AdvanceStep, LeaseStep DEF Maintain
<1> QED
  BY <1>0, <1>1, <1>2, PassesStay DEF JournalInv

LEMMA IdlingStep ==
  ASSUME JournalInv, UNCHANGED vars PROVE JournalInv' /\ ContractStep
<1>0. OutboxInv /\ PassesOK /\ OutboxType
  BY DEF JournalInv, OutboxInv
<1>1. UNCHANGED <<conf, seq, row, answer, delivery, registered, floor, dropped, written, unserved, worker>>
  BY DEF vars, journal, history
<1>2. OutboxInv' /\ Onward /\ ContractStep
  BY <1>0, <1>1, QuietStep DEF OutboxType
<1> QED
  BY <1>0, <1>1, <1>2, PassesStay DEF JournalInv

LEMMA JournalStarts == DeliveryInit => JournalInv /\ Contract!Init
<1> SUFFICES ASSUME DeliveryInit PROVE JournalInv /\ Contract!Init
  OBVIOUS
<1>1. Init
  BY DEF DeliveryInit
<1>2. Stored = {}
  BY <1>1 DEF Init, Stored, NoRow
<1>3. NoRow \in RowType /\ NoDelivery \in DeliveryType /\ MaxPosition \in Nat
  BY PositionsFinite DEF NoRow, RowType, NoDelivery, DeliveryType
<1>4. /\ \A p \in Positions : row[p] = NoRow
      /\ \A p \in Positions, c \in Consumers : delivery[p][c] = NoDelivery
      /\ \A c \in Consumers : written[c] = {} /\ floor[c] = 0
  BY <1>1 DEF Init
<1>5. OutboxType
  <2>1. \A p \in Positions : p > 0 /\ row[p].state = "none"
    BY <1>4, PositionsFinite DEF NoRow, Positions
  <2>2. /\ row \in [Positions -> RowType] /\ delivery \in [Positions -> [Consumers -> DeliveryType]]
        /\ floor \in [Consumers -> 0..MaxPosition] /\ written \in [Consumers -> SUBSET Positions]
        /\ answer \in [Events -> {"none", "Durable", "Refused"}]
    BY <1>1, <1>3 DEF Init
  <2> QED
    BY <1>1, <1>3, <1>4, <2>1, <2>2 DEF OutboxType, Init
<1>6. RowsOK
  <2>1. /\ NoRow.state = "none" /\ NoRow.frees = {} /\ NoRow.loses = {} /\ NoRow.earlier = {}
    BY DEF NoRow
  <2> QED
    BY <1>4, <2>1 DEF RowsOK, RowOK
<1>7. FloorOK /\ WrittenOK /\ InOrder
  <2>1. NoRow.state = "none" /\ NoDelivery.verdict = "none" /\ seq = 0
    BY <1>1 DEF NoRow, NoDelivery, Init
  <2> QED
    BY <1>2, <1>4, <2>1 DEF FloorOK, WrittenOK, InOrder
<1>8. LossOK
  BY <1>1, FS_EmptySet DEF Init, LossOK
<1>9. PassesOK
  <2>1. worker = [w \in Workers |-> Idle]
    BY <1>1 DEF Init
  <2>2. ASSUME NEW w \in Workers PROVE worker[w] = Idle /\ PassOK(Idle, w) /\ Idle \in WorkerType
    BY <2>1, IdleOK DEF PassOK
  <2> QED
    BY <2>1, <2>2 DEF PassesOK
<1>10. Contract!Init
  <2>1. NoDelivery.verdict = "none"
    BY DEF NoDelivery
  <2> QED
    BY <1>1, <1>2, <2>1 DEF Contract!Init, Init
<1> QED
  BY <1>5, <1>6, <1>7, <1>8, <1>9, <1>10 DEF JournalInv, OutboxInv

LEMMA JournalSteps ==
  ASSUME JournalInv, [DeliveryNext]_deliveryVars PROVE JournalInv' /\ ContractStep
<1>1. \/ AppendStep
      \/ \E w \in Workers : Deliver(w) \/ Abandon(w)
      \/ Maintain \/ \E p \in Positions, c \in Consumers : LeaseExpires(p, c)
      \/ UNCHANGED vars
  BY DEF DeliveryNext, deliveryVars, RecordTelemetry, RecordBilling, JournalStep, IndexStep,
         BufferStep
<1> QED
  BY <1>1, AppendingStep, DeliveringStep, MaintainingStep, IdlingStep

\* The outbox keeps the contract of the journal (ImplementsJournalContract), for
\* every number of workers, consumers and positions: its rows are judged only
\* after what was written, once, and deleted only delivered or counted.
THEOREM JournalContractTheorem == DeliverySpec => ImplementsJournalContract
<1>1. DeliveryInit => JournalInv /\ Contract!Init
  BY JournalStarts
<1>2. JournalInv /\ [DeliveryNext]_deliveryVars => JournalInv' /\ [Contract!Next]_(Contract!vars)
  BY JournalSteps DEF ContractStep
<1> QED
  BY <1>1, <1>2, PTL DEF DeliverySpec, ImplementsJournalContract, Contract!Spec

\* One caller's events reach every destination in order (InOrder), whatever
\* leases expire, passes are dropped and writes are refused.
THEOREM OrderTheorem == DeliverySpec => []InOrder
<1>1. DeliveryInit => JournalInv
  BY JournalStarts
<1>2. JournalInv /\ [DeliveryNext]_deliveryVars => JournalInv'
  BY JournalSteps
<1>3. JournalInv => InOrder
  BY DEF JournalInv, OutboxInv
<1> QED
  BY <1>1, <1>2, <1>3, PTL DEF DeliverySpec

\* Nothing is lost in the journal (NothingLost): no floor passes a row that is
\* not resolved, so a drained journal has none; and what was deleted unserved is
\* within the loss count.
LEMMA NothingLostOf == JournalInv => NothingLost
<1> SUFFICES ASSUME JournalInv PROVE NothingLost
  OBVIOUS
<1>1. FloorOK /\ LossOK
  BY DEF JournalInv, OutboxInv
<1>2. ASSUME NEW c \in Consumers, NEW p \in Stored, delivery[p][c].verdict = "none"
      PROVE  p > floor[c]
  BY <1>1, <1>2 DEF FloorOK, Stored
<1>3. ASSUME NEW c \in Consumers, IsDrained(c), NEW p \in Stored
      PROVE  delivery[p][c].verdict # "none"
  <2> SUFFICES ASSUME delivery[p][c].verdict = "none" PROVE FALSE
    OBVIOUS
  <2>1. p \in Positions /\ DeliveriesOf(c)[p] = delivery[p][c]
    BY DEF Stored, DeliveriesOf
  <2>2. p \in Unresolved(c, DeliveriesOf(c))
    BY <1>2, <2>1 DEF Unresolved
  <2> QED
    BY <1>3, <2>2 DEF IsDrained, Pending, InFlight
<1> QED
  BY <1>1, <1>2, <1>3 DEF NothingLost, LossOK

-----------------------------------------------------------------------------
(* The queue of the index worker *)

LEMMA AppendFacts ==
  ASSUME NEW S, NEW s \in Seq(S), NEW e \in S
  PROVE  /\ Append(s, e) \in Seq(S) /\ Len(Append(s, e)) = Len(s) + 1
         /\ ToSet(Append(s, e)) = ToSet(s) \cup {e}
         /\ IsInjective(s) /\ e \notin ToSet(s) => IsInjective(Append(s, e))
<1>1. PICK t, n : t = Append(s, e) /\ n = Len(s)
  OBVIOUS
<1>2. /\ n \in Nat /\ t \in Seq(S) /\ Len(t) = n + 1 /\ DOMAIN t = 1..(n + 1) /\ DOMAIN s = 1..n
      /\ t[n + 1] = e /\ \A i \in 1..n : t[i] = s[i]
  BY <1>1
<1>3. ToSet(t) = ToSet(s) \cup {e}
  <2>1. ToSet(t) = {t[i] : i \in 1..(n + 1)} /\ ToSet(s) = {s[i] : i \in 1..n}
    BY <1>2 DEF ToSet
  <2>2. 1..(n + 1) = (1..n) \cup {n + 1}
    BY <1>2
  <2> QED
    BY <1>2, <2>1, <2>2
<1>4. ASSUME IsInjective(s), e \notin ToSet(s) PROVE IsInjective(t)
  <2>1. ASSUME NEW i \in 1..(n + 1), NEW j \in 1..(n + 1), t[i] = t[j] PROVE i = j
    <3>1. \A k \in 1..n : s[k] # e
      BY <1>2, <1>4 DEF ToSet
    <3>2. \A k, l \in 1..n : s[k] = s[l] => k = l
      BY <1>2, <1>4 DEF IsInjective
    <3> QED
      BY <1>2, <2>1, <3>1, <3>2
  <2> QED
    BY <1>2, <2>1 DEF IsInjective
<1> QED
  BY <1>1, <1>2, <1>3, <1>4

LEMMA TailFacts ==
  ASSUME NEW S, NEW s \in Seq(S), s # <<>>
  PROVE  /\ Head(s) \in S /\ Tail(s) \in Seq(S) /\ Len(s) > 0 /\ Len(Tail(s)) = Len(s) - 1
         /\ ToSet(s) = ToSet(Tail(s)) \cup {Head(s)}
         /\ IsInjective(s) => IsInjective(Tail(s)) /\ Head(s) \notin ToSet(Tail(s))
<1>1. PICK t, n, h : t = Tail(s) /\ n = Len(s) /\ h = Head(s)
  OBVIOUS
<1>2. /\ n \in Nat /\ n > 0 /\ t \in Seq(S) /\ Len(t) = n - 1 /\ h \in S
      /\ DOMAIN t = 1..(n - 1) /\ DOMAIN s = 1..n
      /\ s[1] = h /\ \A i \in 1..(n - 1) : t[i] = s[i + 1]
  BY <1>1
<1>3. ToSet(s) = ToSet(t) \cup {h}
  <2>1. ToSet(t) = {t[i] : i \in 1..(n - 1)} /\ ToSet(s) = {s[i] : i \in 1..n}
    BY <1>2 DEF ToSet
  <2>2. ASSUME NEW i \in 1..n PROVE s[i] \in ToSet(t) \cup {h}
    <3>1. CASE i = 1
      BY <1>2, <3>1
    <3>2. CASE i # 1
      <4>1. i - 1 \in 1..(n - 1) /\ t[i - 1] = s[i]
        BY <1>2, <3>2
      <4> QED
        BY <2>1, <4>1
    <3> QED
      BY <3>1, <3>2
  <2>3. ASSUME NEW i \in 1..(n - 1) PROVE t[i] \in ToSet(s)
    BY <1>2, <2>1
  <2>4. h \in ToSet(s)
    BY <1>2, <2>1
  <2> QED
    BY <2>1, <2>2, <2>3, <2>4
<1>4. ASSUME IsInjective(s) PROVE IsInjective(t) /\ h \notin ToSet(t)
  <2>1. \A i, j \in 1..n : s[i] = s[j] => i = j
    BY <1>2, <1>4 DEF IsInjective
  <2>2. ASSUME NEW i \in 1..(n - 1), NEW j \in 1..(n - 1), t[i] = t[j] PROVE i = j
    BY <1>2, <2>1, <2>2
  <2>3. ASSUME NEW i \in 1..(n - 1) PROVE t[i] # h
    BY <1>2, <2>1
  <2> QED
    BY <1>2, <2>2, <2>3 DEF IsInjective, ToSet
<1> QED
  BY <1>1, <1>2, <1>3, <1>4

LEMMA ToSetFinite ==
  ASSUME NEW S, NEW s \in Seq(S)
  PROVE  /\ IsFiniteSet(ToSet(s))
         /\ IsInjective(s) => Cardinality(ToSet(s)) = Len(s)
<1>1. Len(s) \in Nat /\ DOMAIN s = 1..Len(s)
  OBVIOUS
<1>2. IsFiniteSet(1..Len(s)) /\ Cardinality(1..Len(s)) = Len(s)
  BY <1>1, FS_Interval
<1>3. s \in Surjection(1..Len(s), ToSet(s))
  BY <1>1 DEF Surjection, ToSet
<1>4. IsFiniteSet(ToSet(s))
  BY <1>2, <1>3, FS_Surjection DEF ExistsSurjection
<1>5. ASSUME IsInjective(s) PROVE Cardinality(ToSet(s)) = Len(s)
  <2>1. s \in Bijection(1..Len(s), ToSet(s))
    <3>1. s \in [1..Len(s) -> ToSet(s)]
      BY <1>3 DEF Surjection
    <3> QED
      BY <1>3, <1>5, <3>1 DEF Bijection, Injection
  <2> QED
    BY <1>1, <2>1, FS_CountingElements DEF ExistsBijection
<1> QED
  BY <1>4, <1>5

\* What the deployment fixes.
SetupOK ==
  /\ setup \in Setups
  /\ setup.capacity \in Nat /\ setup.index_batch \in Nat
  /\ setup.buffer \in Nat /\ setup.max_batch \in Nat /\ setup.billing \in BOOLEAN
  /\ setup.capacity > 0 => setup.index_batch > 0
  /\ setup.buffer > 0 => setup.max_batch > 0

LEMMA SetupFacts == setup \in Setups => SetupOK
  BY DeliveryAssumption DEF SetupOK, SetupType

\* The records the index queue may have been offered.
Offered == IF setup.billing THEN {e \in Events : answer[e] = "Durable"} ELSE recorded

\* The worker k of the index: unless it was told to stop, it holds each record
\* once, and it is done only with an empty queue that is closed.
Held(k) ==
  /\ ~k.stop => /\ IsInjective(k.batch) /\ IsInjective(k.queue)
                /\ ToSet(k.batch) \cap ToSet(k.queue) = {}
                /\ k.leftover = 0
                /\ k.pc = "done" => ~k.open /\ k.batch = <<>> /\ k.queue = <<>>
  /\ Len(k.queue) <= setup.capacity /\ Len(k.batch) <= setup.index_batch
  /\ k.report \in {"none", "waiting", "reported"} => ~k.stop
  /\ k.report # "none" => ~k.open
  /\ k.report = "reported" => k.pc = "done"
  /\ k.pc = "recv" => k.batch = <<>>
  /\ k.pc = "aborted" => k.stop

\* Until then every record the queue took is held, written or refused, and its
\* count is of those written; a is all that were taken, r the rows, f the refused.
Kept(k, a, r, f) ==
  /\ r \subseteq Events /\ f \subseteq Events /\ IsFiniteSet(r) /\ (~k.failed => f = {})
  /\ ~k.stop => /\ a = r \cup f \cup ToSet(k.batch) \cup ToSet(k.queue)
                /\ (ToSet(k.batch) \cup ToSet(k.queue)) \cap (r \cup f) = {}
                /\ k.written = Cardinality(r \ f)

IndexInv ==
  /\ index \in IndexType /\ Held(index) /\ Kept(index, queued, rows, refused)
  /\ queued \subseteq Events

LEMMA RecvStep ==
  ASSUME SetupOK, IndexInv, IndexRecv, UNCHANGED <<setup, rows, refused, queued>>
  PROVE  IndexInv'
<1>0. index \in IndexType /\ Held(index) /\ Kept(index, queued, rows, refused)
  BY DEF IndexInv
<1>1. index.pc = "recv" /\ index.batch = <<>>
  BY <1>0 DEF IndexRecv, Held
<1>2. CASE index.queue = <<>>
  <2>1. index' = [index EXCEPT !.pc = "done"] /\ ~index.open
    BY <1>2 DEF IndexRecv
  <2>2. /\ index' \in IndexType /\ index'.pc = "done" /\ index'.open = index.open
        /\ index'.stop = index.stop /\ index'.batch = index.batch /\ index'.queue = index.queue
        /\ index'.written = index.written /\ index'.leftover = index.leftover
        /\ index'.failed = index.failed /\ index'.report = index.report
    BY ONLY <1>0, <2>1 DEF IndexType
  <2>3. Held(index')
    BY <1>0, <1>1, <1>2, <2>1, <2>2 DEF Held
  <2>4. Kept(index', queued, rows, refused)
    BY <1>0, <2>2 DEF Kept
  <2> QED
    BY <2>2, <2>3, <2>4 DEF IndexInv, Held
<1>3. CASE index.queue # <<>>
  <2>1. PICK h, t : h = Head(index.queue) /\ t = Tail(index.queue)
    OBVIOUS
  <2>2. index.queue \in Seq(Events)
    BY <1>0 DEF IndexType
  <2>3. /\ h \in Events /\ t \in Seq(Events) /\ Len(index.queue) > 0
        /\ Len(t) = Len(index.queue) - 1 /\ ToSet(index.queue) = ToSet(t) \cup {h}
        /\ IsInjective(index.queue) => IsInjective(t) /\ h \notin ToSet(t)
    BY <1>3, <2>1, <2>2, TailFacts
  <2>4. /\ <<h>> \in Seq(Events) /\ Len(<<h>>) = 1 /\ ToSet(<<h>>) = {h} /\ IsInjective(<<h>>)
    BY <2>3 DEF ToSet, IsInjective
  <2>5. Len(index.queue) \in Nat /\ Len(index.queue) <= setup.capacity
    BY <1>0, <2>2 DEF Held
  <2>6. 1 <= setup.index_batch /\ Len(t) <= setup.capacity
    BY <2>3, <2>5 DEF SetupOK
  <2>7. CASE index.stop
    <3>1. PICK k, n : k = [index EXCEPT !.batch = <<h>>, !.queue = t] /\ n = Len(<<h>>) + Len(t)
      OBVIOUS
    <3>2. k \in IndexType /\ k.stop = index.stop /\ k.batch = <<h>> /\ k.queue = t
          /\ k.open = index.open /\ k.report = index.report /\ k.failed = index.failed
          /\ k.written = index.written /\ k.pc = index.pc /\ k.leftover = index.leftover
      BY ONLY <1>0, <2>3, <2>4, <3>1 DEF IndexType
    <3>3. index' = Discarded(k)
      BY <1>3, <2>1, <2>7, <3>1, <3>2 DEF IndexRecv
    <3>4. n \in Nat /\ <<>> \in Seq(Events)
      BY <2>3, <2>4, <3>1
    <3>5. index' = [k EXCEPT !.pc = "done", !.leftover = n, !.batch = <<>>, !.queue = <<>>]
      BY <3>1, <3>2, <3>3 DEF Discarded
    <3>6. /\ index' \in IndexType /\ index'.pc = "done" /\ index'.open = k.open
          /\ index'.stop = k.stop /\ index'.batch = <<>> /\ index'.queue = <<>>
          /\ index'.failed = k.failed /\ index'.report = k.report
      BY ONLY <3>2, <3>4, <3>5 DEF IndexType
    <3>7. Held(index')
      BY <1>0, <2>7, <3>2, <3>6 DEF Held, SetupOK
    <3>8. Kept(index', queued, rows, refused)
      BY <1>0, <2>7, <3>2, <3>6 DEF Kept
    <3> QED
      BY <3>6, <3>7, <3>8 DEF IndexInv, Held
  <2>8. CASE ~index.stop
    <3>1. index' = [index EXCEPT !.batch = <<h>>, !.queue = t, !.pc = "gather"]
      BY <1>3, <2>1, <2>8 DEF IndexRecv
    <3>2. /\ index' \in IndexType /\ index'.pc = "gather" /\ index'.open = index.open
          /\ index'.stop = index.stop /\ index'.batch = <<h>> /\ index'.queue = t
          /\ index'.written = index.written /\ index'.leftover = index.leftover
          /\ index'.failed = index.failed /\ index'.report = index.report
      BY ONLY <1>0, <2>3, <2>4, <3>1 DEF IndexType
    <3>3. Held(index')
      BY <1>0, <1>1, <2>3, <2>4, <2>6, <2>8, <3>2 DEF Held
    <3>4. ToSet(index.batch) = {}
      BY <1>1 DEF ToSet
    <3>5. Kept(index', queued, rows, refused)
      BY <1>0, <2>3, <2>4, <2>8, <3>2, <3>4 DEF Kept
    <3> QED
      BY <3>2, <3>3, <3>5 DEF IndexInv, Held
  <2> QED
    BY <2>7, <2>8
<1> QED
  BY <1>2, <1>3

LEMMA GatherStep ==
  ASSUME SetupOK, IndexInv, IndexGather, UNCHANGED <<setup, rows, refused, queued>>
  PROVE  IndexInv'
<1>0. index \in IndexType /\ Held(index) /\ Kept(index, queued, rows, refused)
  BY DEF IndexInv
<1>1. PICK h, t, b : h = Head(index.queue) /\ t = Tail(index.queue) /\ b = Append(index.batch, h)
  OBVIOUS
<1>2. index.queue \in Seq(Events) /\ index.batch \in Seq(Events) /\ index.queue # <<>>
  BY <1>0 DEF IndexType, IndexGather
<1>3. /\ h \in Events /\ t \in Seq(Events) /\ Len(index.queue) > 0
      /\ Len(t) = Len(index.queue) - 1 /\ ToSet(index.queue) = ToSet(t) \cup {h}
      /\ IsInjective(index.queue) => IsInjective(t) /\ h \notin ToSet(t)
  BY <1>1, <1>2, TailFacts
<1>4. /\ b \in Seq(Events) /\ Len(b) = Len(index.batch) + 1
      /\ ToSet(b) = ToSet(index.batch) \cup {h}
      /\ IsInjective(index.batch) /\ h \notin ToSet(index.batch) => IsInjective(b)
  BY <1>1, <1>2, <1>3, AppendFacts
<1>5. /\ index.pc = "gather" /\ Len(index.batch) < setup.index_batch
      /\ index' = [index EXCEPT !.batch = b, !.queue = t]
  BY <1>1 DEF IndexGather
<1>6. /\ index' \in IndexType /\ index'.pc = index.pc /\ index'.open = index.open
      /\ index'.stop = index.stop /\ index'.batch = b /\ index'.queue = t
      /\ index'.written = index.written /\ index'.leftover = index.leftover
      /\ index'.failed = index.failed /\ index'.report = index.report
  BY ONLY <1>0, <1>3, <1>4, <1>5 DEF IndexType
<1>7. Len(t) <= setup.capacity /\ Len(b) <= setup.index_batch
  <2>1. Len(index.queue) \in Nat /\ Len(index.batch) \in Nat
    BY <1>2
  <2> QED
    BY <1>0, <1>3, <1>4, <1>5, <2>1 DEF Held, SetupOK
<1>8. Held(index')
  BY <1>0, <1>3, <1>4, <1>5, <1>6, <1>7 DEF Held
<1>9. Kept(index', queued, rows, refused)
  BY <1>0, <1>3, <1>4, <1>6 DEF Kept
<1> QED
  BY <1>6, <1>8, <1>9 DEF IndexInv, Held

LEMMA BatchStep ==
  ASSUME SetupOK, IndexInv, IndexBatch, UNCHANGED <<setup, rows, refused, queued>>
  PROVE  IndexInv'
<1>0. index \in IndexType /\ Held(index) /\ Kept(index, queued, rows, refused)
  BY DEF IndexInv
<1>1. CASE index.stop
  <2>1. PICK n : n = Len(index.batch) + Len(index.queue)
    OBVIOUS
  <2>2. n \in Nat /\ <<>> \in Seq(Events)
    BY <1>0, <2>1 DEF IndexType
  <2>3. index' = [index EXCEPT !.pc = "done", !.leftover = n, !.batch = <<>>, !.queue = <<>>]
    BY <1>1, <2>1 DEF IndexBatch, Discarded
  <2>4. /\ index' \in IndexType /\ index'.pc = "done" /\ index'.open = index.open
        /\ index'.stop = index.stop /\ index'.batch = <<>> /\ index'.queue = <<>>
        /\ index'.failed = index.failed /\ index'.report = index.report
    BY ONLY <1>0, <2>2, <2>3 DEF IndexType
  <2>5. Held(index')
    BY <1>0, <1>1, <2>4 DEF Held, SetupOK
  <2>6. Kept(index', queued, rows, refused)
    BY <1>0, <1>1, <2>4 DEF Kept
  <2> QED
    BY <2>4, <2>5, <2>6 DEF IndexInv, Held
<1>2. CASE ~index.stop
  <2>1. index' = [index EXCEPT !.pc = "write"] /\ index.pc = "gather"
    BY <1>2 DEF IndexBatch
  <2>2. /\ index' \in IndexType /\ index'.pc = "write" /\ index'.open = index.open
        /\ index'.stop = index.stop /\ index'.batch = index.batch /\ index'.queue = index.queue
        /\ index'.written = index.written /\ index'.leftover = index.leftover
        /\ index'.failed = index.failed /\ index'.report = index.report
    BY ONLY <1>0, <2>1 DEF IndexType
  <2>3. Held(index')
    BY <1>0, <2>1, <2>2 DEF Held
  <2>4. Kept(index', queued, rows, refused)
    BY <1>0, <2>2 DEF Kept
  <2> QED
    BY <2>2, <2>3, <2>4 DEF IndexInv, Held
<1> QED
  BY <1>1, <1>2

\* A batch that is written is counted record by record; one that failed is not,
\* even where it landed.
LEMMA WritingStep ==
  ASSUME SetupOK, IndexInv, NEW ok \in BOOLEAN, NEW landed \in BOOLEAN, IndexWrite(ok, landed),
         setup' = setup
  PROVE  IndexInv'
<1>0. /\ index \in IndexType /\ Held(index) /\ Kept(index, queued, rows, refused)
      /\ queued \subseteq Events
  BY DEF IndexInv
<1>1. PICK B : B = ToSet(index.batch)
  OBVIOUS
<1>2. index.batch \in Seq(Events) /\ index.queue \in Seq(Events)
  BY <1>0 DEF IndexType
<1>3. B \in SUBSET Events /\ IsFiniteSet(B) /\ (IsInjective(index.batch) => Cardinality(B) = Len(index.batch))
  BY <1>1, <1>2, ToSetOf, ToSetFinite
<1>4. PICK n, f : /\ n = IF ok THEN index.written + Len(index.batch) ELSE index.written
                  /\ f = (index.failed \/ ~ok)
  OBVIOUS
<1>5. /\ index.pc = "write" /\ (ok => landed) /\ queued' = queued
      /\ rows' = IF landed THEN rows \cup B ELSE rows
      /\ refused' = IF ok THEN refused ELSE refused \cup B
  BY <1>1 DEF IndexWrite
<1>6. index' = [index EXCEPT !.pc = "recv", !.batch = <<>>, !.failed = f, !.written = n]
  BY <1>4 DEF IndexWrite
<1>7. n \in Nat /\ f \in BOOLEAN /\ <<>> \in Seq(Events)
  BY <1>0, <1>2, <1>4 DEF IndexType
<1>8. /\ index' \in IndexType /\ index'.pc = "recv" /\ index'.open = index.open
      /\ index'.stop = index.stop /\ index'.batch = <<>> /\ index'.queue = index.queue
      /\ index'.written = n /\ index'.leftover = index.leftover
      /\ index'.failed = f /\ index'.report = index.report
  BY ONLY <1>0, <1>6, <1>7 DEF IndexType
<1>9. ToSet(<<>>) = {} /\ IsInjective(<<>>) /\ Len(<<>>) = 0
  BY DEF ToSet, IsInjective
<1>10. Held(index')
  BY <1>0, <1>5, <1>8, <1>9 DEF Held, SetupOK
<1>11. /\ rows \subseteq Events /\ refused \subseteq Events /\ IsFiniteSet(rows)
       /\ (~index.failed => refused = {})
  BY <1>0 DEF Kept
<1>12. IsFiniteSet(rows') /\ rows' \subseteq Events /\ refused' \subseteq Events
  BY <1>3, <1>5, <1>11, FS_Union
<1>13. ~f => refused' = {}
  BY <1>4, <1>5, <1>11
<1>14. ASSUME ~index.stop
       PROVE  /\ queued = rows' \cup refused' \cup ToSet(index.queue)
              /\ ToSet(index.queue) \cap (rows' \cup refused') = {}
              /\ n = Cardinality(rows' \ refused')
  <2>1. /\ queued = rows \cup refused \cup B \cup ToSet(index.queue)
        /\ (B \cup ToSet(index.queue)) \cap (rows \cup refused) = {}
        /\ index.written = Cardinality(rows \ refused)
    BY <1>0, <1>1, <1>14 DEF Kept
  <2>2. B \cap ToSet(index.queue) = {} /\ Cardinality(B) = Len(index.batch)
    BY <1>0, <1>1, <1>3, <1>14 DEF Held
  <2>3. IsFiniteSet(rows \ refused)
    BY <1>11, FS_Difference
  <2>4. CASE ok
    <3>1. rows' \ refused' = (rows \ refused) \cup B /\ (rows \ refused) \cap B = {}
      BY <1>5, <2>1, <2>4
    <3>2. Cardinality(rows' \ refused') = Cardinality(rows \ refused) + Cardinality(B) - Cardinality({})
      BY <1>3, <2>3, <3>1, FS_Union
    <3>3. n = Cardinality(rows' \ refused')
      <4>1. Cardinality({}) = 0 /\ Cardinality(rows \ refused) \in Nat /\ Cardinality(B) \in Nat
        BY <1>3, <2>3, FS_EmptySet, FS_CardinalityType
      <4> QED
        BY <1>4, <2>1, <2>2, <2>4, <3>2, <4>1
    <3> QED
      BY <1>5, <2>1, <2>2, <2>4, <3>3
  <2>5. CASE ~ok
    <3>1. rows' \ refused' = rows \ refused
      BY <1>5, <2>1, <2>5
    <3> QED
      BY <1>4, <1>5, <2>1, <2>2, <2>5, <3>1
  <2> QED
    BY <2>4, <2>5
<1>15. Kept(index', queued', rows', refused')
  BY <1>5, <1>8, <1>9, <1>12, <1>13, <1>14 DEF Kept
<1> QED
  BY <1>0, <1>5, <1>8, <1>10, <1>15 DEF IndexInv, Held

\* The end of the worker: what closes the queue, stops it, or hears of it.
LEMMA ClosingStep ==
  ASSUME SetupOK, IndexInv, DrainIndex \/ AbandonIndex \/ IndexReports \/ IndexOverruns,
         UNCHANGED <<setup, rows, refused, queued>>
  PROVE  IndexInv'
<1>0. index \in IndexType /\ Held(index) /\ Kept(index, queued, rows, refused)
  BY DEF IndexInv
<1>1. CASE DrainIndex
  <2>1. index' = [index EXCEPT !.open = FALSE, !.report = "waiting"] /\ index.report = "none"
    BY <1>1 DEF DrainIndex
  <2>2. /\ index' \in IndexType /\ index'.pc = index.pc /\ ~index'.open
        /\ index'.stop = index.stop /\ index'.batch = index.batch /\ index'.queue = index.queue
        /\ index'.written = index.written /\ index'.leftover = index.leftover
        /\ index'.failed = index.failed /\ index'.report = "waiting"
    BY ONLY <1>0, <2>1 DEF IndexType
  <2>3. Held(index')
    BY <1>0, <2>1, <2>2 DEF Held
  <2>4. Kept(index', queued, rows, refused)
    BY <1>0, <2>2 DEF Kept
  <2> QED
    BY <2>2, <2>3, <2>4 DEF IndexInv, Held
<1>2. CASE AbandonIndex
  <2>1. index' = [index EXCEPT !.open = FALSE, !.stop = TRUE, !.report = "unwaited"]
    BY <1>2 DEF AbandonIndex
  <2>2. /\ index' \in IndexType /\ index'.pc = index.pc /\ ~index'.open
        /\ index'.stop /\ index'.batch = index.batch /\ index'.queue = index.queue
        /\ index'.failed = index.failed /\ index'.report = "unwaited"
    BY ONLY <1>0, <2>1 DEF IndexType
  <2>3. Held(index')
    BY <1>0, <2>2 DEF Held
  <2>4. Kept(index', queued, rows, refused)
    BY <1>0, <2>2 DEF Kept
  <2> QED
    BY <2>2, <2>3, <2>4 DEF IndexInv, Held
<1>3. CASE IndexReports
  <2>1. index' = [index EXCEPT !.report = "reported"] /\ index.report = "waiting" /\ index.pc = "done"
    BY <1>3 DEF IndexReports
  <2>2. /\ index' \in IndexType /\ index'.pc = index.pc /\ index'.open = index.open
        /\ index'.stop = index.stop /\ index'.batch = index.batch /\ index'.queue = index.queue
        /\ index'.written = index.written /\ index'.leftover = index.leftover
        /\ index'.failed = index.failed /\ index'.report = "reported"
    BY ONLY <1>0, <2>1 DEF IndexType
  <2>3. Held(index')
    BY <1>0, <2>1, <2>2 DEF Held
  <2>4. Kept(index', queued, rows, refused)
    BY <1>0, <2>2 DEF Kept
  <2> QED
    BY <2>2, <2>3, <2>4 DEF IndexInv, Held
<1>4. CASE IndexOverruns
  <2>1. PICK a : a = IF setup.blocking THEN index.pc ELSE "aborted"
    OBVIOUS
  <2>2. /\ index' = [index EXCEPT !.stop = TRUE, !.report = "unreported", !.pc = a]
        /\ index.report = "waiting"
    BY <1>4, <2>1 DEF IndexOverruns
  <2>3. a \in {"recv", "gather", "write", "done", "aborted"} /\ (a = index.pc \/ a = "aborted")
    BY <1>0, <2>1 DEF IndexType
  <2>4. /\ index' \in IndexType /\ index'.pc = a /\ index'.open = index.open
        /\ index'.stop /\ index'.batch = index.batch /\ index'.queue = index.queue
        /\ index'.failed = index.failed /\ index'.report = "unreported"
    BY ONLY <1>0, <2>2, <2>3 DEF IndexType
  <2>5. Held(index')
    BY <1>0, <2>2, <2>3, <2>4 DEF Held
  <2>6. Kept(index', queued, rows, refused)
    BY <1>0, <2>4 DEF Kept
  <2> QED
    BY <2>4, <2>5, <2>6 DEF IndexInv, Held
<1> QED
  BY <1>1, <1>2, <1>3, <1>4

\* A record is offered to the queue that was not offered before.
LEMMA OfferStep ==
  ASSUME SetupOK, IndexInv, NEW e \in Events, e \notin queued, AppendStore(e), setup' = setup
  PROVE  IndexInv' /\ queued' \subseteq queued \cup {e}
<1>0. /\ index \in IndexType /\ Held(index) /\ Kept(index, queued, rows, refused)
      /\ queued \subseteq Events
  BY DEF IndexInv
<1>1. CASE index.open /\ index.pc # "aborted" /\ Len(index.queue) < setup.capacity
  <2>1. PICK q : q = Append(index.queue, e)
    OBVIOUS
  <2>2. /\ index' = [index EXCEPT !.queue = q] /\ queued' = queued \cup {e}
        /\ rows' = rows /\ refused' = refused
    BY <1>1, <2>1 DEF AppendStore
  <2>3. index.queue \in Seq(Events) /\ Len(index.queue) \in Nat
    BY <1>0 DEF IndexType
  <2>4. /\ q \in Seq(Events) /\ Len(q) = Len(index.queue) + 1 /\ ToSet(q) = ToSet(index.queue) \cup {e}
        /\ IsInjective(index.queue) /\ e \notin ToSet(index.queue) => IsInjective(q)
    BY <2>1, <2>3, AppendFacts
  <2>5. /\ index' \in IndexType /\ index'.pc = index.pc /\ index'.open = index.open
        /\ index'.stop = index.stop /\ index'.batch = index.batch /\ index'.queue = q
        /\ index'.written = index.written /\ index'.leftover = index.leftover
        /\ index'.failed = index.failed /\ index'.report = index.report
    BY ONLY <1>0, <2>2, <2>4 DEF IndexType
  <2>6. ~index.stop => e \notin ToSet(index.batch) \cup ToSet(index.queue) \cup rows \cup refused
    BY <1>0 DEF Kept
  <2>7. Len(q) <= setup.capacity
    BY <1>1, <2>3, <2>4 DEF SetupOK
  <2>8. Held(index')
    BY <1>0, <1>1, <2>4, <2>5, <2>6, <2>7 DEF Held
  <2>9. Kept(index', queued \cup {e}, rows, refused)
    BY <1>0, <2>4, <2>5, <2>6 DEF Kept
  <2> QED
    BY <1>0, <2>2, <2>5, <2>8, <2>9 DEF IndexInv, Held
<1>2. CASE ~(index.open /\ index.pc # "aborted" /\ Len(index.queue) < setup.capacity)
  <2>1. UNCHANGED <<index, rows, refused, queued>>
    BY <1>2 DEF AppendStore, indexVars
  <2> QED
    BY <2>1 DEF IndexInv, Held, Kept
<1> QED
  BY <1>1, <1>2

-----------------------------------------------------------------------------
(* The buffer of a batched sink *)

\* g is the first n steps of Records(q).
Collects(g, q, n) ==
  g = [i \in 0..n |-> IF i = 0 THEN <<>>
         ELSE IF q[i] = FlushMessage THEN g[i - 1] ELSE Append(g[i - 1], q[i])]

LEMMA CollectsExists ==
  ASSUME NEW N \in Nat, NEW q PROVE \E g : Collects(g, q, N)
<1> DEFINE Bad == {n \in Nat : ~ \E g : Collects(g, q, n)}
<1> SUFFICES ASSUME Bad # {} PROVE FALSE
  OBVIOUS
<1>1. PICK b \in Bad : \A m \in Bad : b <= m
  <2>1. Bad \in SUBSET Nat
    OBVIOUS
  <2> HIDE DEF Bad
  <2> QED
    BY <2>1, LeastNatural
<1>2. b \in Nat /\ ~ \E g : Collects(g, q, b)
  OBVIOUS
<1>3. b # 0
  <2>1. ASSUME b = 0 PROVE Collects([i \in 0..b |-> <<>>], q, b)
    BY <2>1 DEF Collects
  <2> QED
    BY <1>2, <2>1
<1>4. b - 1 \in Nat /\ b - 1 \notin Bad
  BY <1>1, <1>2, <1>3
<1>5. PICK g : Collects(g, q, b - 1)
  BY <1>4
<1>6. \A i \in 0..(b - 1) : g[i] = IF i = 0 THEN <<>>
        ELSE IF q[i] = FlushMessage THEN g[i - 1] ELSE Append(g[i - 1], q[i])
  BY <1>5 DEF Collects
<1> DEFINE h == [i \in 0..b |-> IF i = b
                   THEN IF q[b] = FlushMessage THEN g[b - 1] ELSE Append(g[b - 1], q[b])
                   ELSE g[i]]
<1>7. ASSUME NEW i \in 0..b
      PROVE  h[i] = IF i = 0 THEN <<>>
               ELSE IF q[i] = FlushMessage THEN h[i - 1] ELSE Append(h[i - 1], q[i])
  <2>1. CASE i = b
    <3>1. h[i - 1] = g[b - 1]
      BY <1>2, <1>3, <1>4, <2>1
    <3> QED
      BY <1>3, <2>1, <3>1
  <2>2. CASE i # b
    <3>1. i \in 0..(b - 1) /\ h[i] = g[i] /\ i - 1 # b
      BY <1>2, <2>2
    <3>2. i # 0 => h[i - 1] = g[i - 1]
      BY <1>2, <3>1
    <3> QED
      BY <1>6, <3>1, <3>2
  <2> QED
    BY <2>1, <2>2
<1>8. Collects(h, q, b)
  <2>1. h = [i \in 0..b |-> h[i]]
    OBVIOUS
  <2> HIDE DEF h
  <2> QED
    BY <1>7, <2>1 DEF Collects
<1> QED
  BY <1>2, <1>8

\* What a flush takes along is the records of the queue.
LEMMA RecordsFacts ==
  ASSUME NEW q \in Seq(Events \cup {FlushMessage})
  PROVE  Records(q) \in Seq(Events) /\ ToSet(q) \ {FlushMessage} \subseteq ToSet(Records(q))
<1>1. PICK N : N = Len(q)
  OBVIOUS
<1>2. N \in Nat /\ DOMAIN q = 1..N /\ \A i \in 1..N : q[i] \in Events \cup {FlushMessage}
  BY <1>1
<1>3. PICK g : g = CHOOSE f : Collects(f, q, N)
  OBVIOUS
<1>4. Collects(g, q, N)
  BY <1>2, <1>3, CollectsExists
<1>5. Records(q) = g[N]
  BY <1>1, <1>3 DEF Records, Collects
<1>6. \A i \in 0..N : g[i] = IF i = 0 THEN <<>>
        ELSE IF q[i] = FlushMessage THEN g[i - 1] ELSE Append(g[i - 1], q[i])
  BY <1>4 DEF Collects
<1> DEFINE Good(n) == /\ g[n] \in Seq(Events)
                      /\ \A i \in 1..n : q[i] # FlushMessage => q[i] \in ToSet(g[n])
           Bad == {n \in 0..N : ~Good(n)}
<1>7. Bad = {}
  <2> SUFFICES ASSUME Bad # {} PROVE FALSE
    OBVIOUS
  <2>1. PICK b \in Bad : \A m \in Bad : b <= m
    <3>1. Bad \in SUBSET Nat
      BY <1>2
    <3> HIDE DEF Bad
    <3> QED
      BY <3>1, LeastNatural
  <2>2. b \in 0..N /\ ~Good(b)
    BY <2>1
  <2>3. b # 0
    <3>1. ASSUME b = 0 PROVE Good(b)
      <4>1. g[b] = <<>>
        BY <1>6, <2>2, <3>1
      <4>2. <<>> \in Seq(Events) /\ 1..b = {}
        BY <3>1
      <4> QED
        BY <4>1, <4>2
    <3> QED
      BY <2>2, <3>1
  <2>4. b - 1 \in 0..N /\ b - 1 \notin Bad /\ b \in 1..N
    BY <1>2, <2>1, <2>2, <2>3
  <2>5. Good(b - 1)
    BY <2>4
  <2>6. Good(b)
    <3>1. CASE q[b] = FlushMessage
      <4>1. g[b] = g[b - 1]
        BY <1>6, <2>2, <2>3, <3>1
      <4>2. ASSUME NEW i \in 1..b, q[i] # FlushMessage PROVE i \in 1..(b - 1)
        BY <2>4, <3>1, <4>2
      <4> QED
        BY <2>5, <4>1, <4>2
    <3>2. CASE q[b] # FlushMessage
      <4>1. g[b] = Append(g[b - 1], q[b]) /\ q[b] \in Events
        BY <1>2, <1>6, <2>2, <2>3, <2>4, <3>2
      <4>2. g[b] \in Seq(Events) /\ ToSet(g[b]) = ToSet(g[b - 1]) \cup {q[b]}
        BY <2>5, <4>1, AppendFacts
      <4>3. ASSUME NEW i \in 1..b, i # b PROVE i \in 1..(b - 1)
        BY <2>4, <4>3
      <4> QED
        BY <2>5, <4>2, <4>3
    <3> QED
      BY <3>1, <3>2
  <2> QED
    BY <2>2, <2>6
<1>8. Good(N)
  BY <1>2, <1>7
<1> QED
  BY <1>2, <1>5, <1>8 DEF ToSet

\* The flush task k with what it has taken and written: until the flush is
\* answered, everything that was taken before it is held, queued or dealt with.
Queues(k, s, r, b) ==
  /\ Len(k.queue) <= setup.buffer
  /\ k.pc = "recv" => k.held = <<>>
  /\ k.pc \in {"gather", "write"} => Len(k.held) <= setup.max_batch
  /\ k.flush = "none" => FlushMessage \notin ToSet(k.queue) /\ k.pc # "drain"
  /\ k.flush \in {"none", "asked"} =>
       b \subseteq s \cup r \cup ToSet(k.held) \cup ToSet(k.queue)
  /\ k.flush = "asked" /\ k.pc = "drain" => b \subseteq s \cup r \cup ToSet(k.held)
  /\ k.flush = "Flushed" => b \subseteq s \cup r

BufferInv ==
  /\ buffer \in BufferType /\ Queues(buffer, sent, rejected, before)
  /\ sent \subseteq Events /\ rejected \subseteq Events /\ before \subseteq Events

LEMMA BufferRecvStep ==
  ASSUME SetupOK, BufferInv, BufferRecv, setup' = setup PROVE BufferInv'
<1>0. /\ buffer \in BufferType /\ Queues(buffer, sent, rejected, before)
      /\ before \subseteq Events /\ NoEvent \notin Events
  BY JournalAssumption DEF BufferInv
<1>1. /\ buffer.pc \in {"recv", "gather"} /\ buffer.queue # <<>>
      /\ buffer.pc = "gather" => Len(buffer.held) < setup.max_batch
      /\ sent' = sent /\ rejected' = rejected /\ before' = before
  BY DEF BufferRecv
<1>2. buffer.queue \in Seq(Events \cup {FlushMessage}) /\ buffer.held \in Seq(Events)
  BY <1>0 DEF BufferType
<1>3. PICK h, t : h = Head(buffer.queue) /\ t = Tail(buffer.queue)
  OBVIOUS
<1>4. /\ h \in Events \cup {FlushMessage} /\ t \in Seq(Events \cup {FlushMessage})
      /\ Len(buffer.queue) > 0 /\ Len(t) = Len(buffer.queue) - 1
      /\ ToSet(buffer.queue) = ToSet(t) \cup {h}
  BY <1>1, <1>2, <1>3, TailFacts
<1>5. Len(buffer.queue) \in Nat /\ Len(buffer.held) \in Nat /\ Len(buffer.queue) <= setup.buffer
  BY <1>0, <1>2 DEF Queues
<1>6. setup.buffer > 0 /\ setup.max_batch > 0 /\ Len(t) <= setup.buffer
  BY <1>4, <1>5 DEF SetupOK
<1>7. CASE h = FlushMessage
  <2>1. PICK r : r = buffer.held \o Records(buffer.queue)
    OBVIOUS
  <2>2. Records(buffer.queue) \in Seq(Events)
        /\ ToSet(buffer.queue) \ {FlushMessage} \subseteq ToSet(Records(buffer.queue))
    BY <1>2, RecordsFacts
  <2>3. r \in Seq(Events) /\ ToSet(r) = ToSet(buffer.held) \cup ToSet(Records(buffer.queue))
    BY <1>2, <2>1, <2>2, ToSetConcat
  <2>4. buffer' = [buffer EXCEPT !.held = r, !.queue = <<>>, !.pc = "drain"]
    BY <1>3, <1>7, <2>1 DEF BufferRecv, Drained
  <2>5. <<>> \in Seq(Events \cup {FlushMessage}) /\ ToSet(<<>>) = {} /\ Len(<<>>) = 0
    BY DEF ToSet
  <2>6. /\ buffer' \in BufferType /\ buffer'.queue = <<>> /\ buffer'.held = r
        /\ buffer'.pc = "drain" /\ buffer'.flush = buffer.flush
    BY ONLY <1>0, <2>3, <2>4, <2>5 DEF BufferType
  <2>7. buffer.flush # "none"
    BY <1>0, <1>4, <1>7 DEF Queues
  <2>8. before \subseteq sent \cup rejected \cup ToSet(buffer.held) \cup ToSet(buffer.queue)
          => before \subseteq sent \cup rejected \cup ToSet(r)
    BY <1>0, <2>2, <2>3 DEF FlushMessage
  <2>9. Queues(buffer', sent, rejected, before)
    BY <1>0, <2>5, <2>6, <2>7, <2>8 DEF Queues, SetupOK
  <2> QED
    BY <1>1, <2>6, <2>9 DEF BufferInv, Queues
<1>8. CASE h # FlushMessage
  <2>1. PICK r : r = Append(buffer.held, h)
    OBVIOUS
  <2>2. h \in Events
    BY <1>4, <1>8
  <2>3. r \in Seq(Events) /\ Len(r) = Len(buffer.held) + 1 /\ ToSet(r) = ToSet(buffer.held) \cup {h}
    BY <1>2, <2>1, <2>2, AppendFacts
  <2>4. buffer' = [buffer EXCEPT !.held = r, !.queue = t, !.pc = "gather"]
    BY <1>3, <1>8, <2>1 DEF BufferRecv
  <2>5. /\ buffer' \in BufferType /\ buffer'.queue = t /\ buffer'.held = r
        /\ buffer'.pc = "gather" /\ buffer'.flush = buffer.flush
    BY ONLY <1>0, <1>4, <2>3, <2>4 DEF BufferType
  <2>6. Len(r) <= setup.max_batch
    <3>1. CASE buffer.pc = "recv"
      <4>1. Len(buffer.held) = 0
        BY <1>0, <3>1 DEF Queues
      <4> QED
        BY <1>6, <2>3, <4>1 DEF SetupOK
    <3>2. CASE buffer.pc = "gather"
      BY <1>1, <1>5, <2>3, <3>2 DEF SetupOK
    <3> QED
      BY <1>1, <3>1, <3>2
  <2>7. Queues(buffer', sent, rejected, before)
    BY <1>0, <1>1, <1>4, <1>6, <2>3, <2>5, <2>6 DEF Queues
  <2> QED
    BY <1>1, <2>5, <2>7 DEF BufferInv, Queues
<1> QED
  BY <1>7, <1>8

LEMMA BufferWriteStep ==
  ASSUME SetupOK, BufferInv, NEW ok \in BOOLEAN, BufferWrite(ok), setup' = setup
  PROVE  BufferInv'
<1>0. /\ buffer \in BufferType /\ Queues(buffer, sent, rejected, before)
      /\ sent \subseteq Events /\ rejected \subseteq Events /\ before \subseteq Events
  BY DEF BufferInv
<1>1. PICK H, n, f :
        /\ H = ToSet(buffer.held)
        /\ n = IF ok THEN buffer.dropped ELSE buffer.dropped + Len(buffer.held)
        /\ f = IF buffer.pc = "drain" /\ buffer.flush = "asked"
                 THEN IF ok THEN "Flushed" ELSE "Failed" ELSE buffer.flush
  OBVIOUS
<1>2. /\ sent' = IF ok THEN sent \cup H ELSE sent
      /\ rejected' = IF ok THEN rejected ELSE rejected \cup H
      /\ before' = before /\ buffer.pc \in {"write", "drain"}
  BY <1>1 DEF BufferWrite
<1>3. buffer' = [buffer EXCEPT !.pc = "recv", !.held = <<>>, !.dropped = n, !.flush = f]
  BY <1>1 DEF BufferWrite
<1>4. buffer.held \in Seq(Events)
  BY <1>0 DEF BufferType
<1>5. H \in SUBSET Events
  BY <1>1, <1>4, ToSetOf
<1>6. /\ n \in Nat /\ f \in {"none", "asked", "Flushed", "Failed", "TimedOut"}
      /\ <<>> \in Seq(Events) /\ ToSet(<<>>) = {}
  BY <1>0, <1>1, <1>4 DEF BufferType, ToSet
<1>7. /\ buffer' \in BufferType /\ buffer'.queue = buffer.queue /\ buffer'.held = <<>>
      /\ buffer'.pc = "recv" /\ buffer'.flush = f
  BY ONLY <1>0, <1>3, <1>6 DEF BufferType
<1>8. sent' \cup rejected' = sent \cup rejected \cup H
  BY <1>2
<1>9. /\ f = "none" => buffer.flush = "none"
      /\ f = "asked" => buffer.flush = "asked" /\ buffer.pc # "drain"
      /\ f = "Flushed" => buffer.flush = "Flushed" \/ (buffer.flush = "asked" /\ buffer.pc = "drain")
  BY <1>1
<1>10. Queues(buffer', sent', rejected', before)
  BY <1>0, <1>1, <1>6, <1>7, <1>8, <1>9 DEF Queues
<1> QED
  BY <1>0, <1>2, <1>5, <1>7, <1>10 DEF BufferInv, Queues

\* The rest of what moves the buffer.
LEMMA BufferOtherStep ==
  ASSUME SetupOK, BufferInv, BufferBatch \/ Flush \/ FlushTimesOut, setup' = setup
  PROVE  BufferInv'
<1>0. /\ buffer \in BufferType /\ Queues(buffer, sent, rejected, before)
  BY DEF BufferInv
<1>1. sent' = sent /\ rejected' = rejected /\ before' = before
  BY DEF BufferBatch, Flush, FlushTimesOut
<1>2. /\ buffer.queue \in Seq(Events \cup {FlushMessage}) /\ buffer.dropped \in Nat
      /\ Len(buffer.queue) \in Nat
  BY <1>0 DEF BufferType
<1>3. CASE BufferBatch
  <2>1. buffer' = [buffer EXCEPT !.pc = "write"] /\ buffer.pc = "gather"
    BY <1>3 DEF BufferBatch
  <2>2. /\ buffer' \in BufferType /\ buffer'.queue = buffer.queue /\ buffer'.held = buffer.held
        /\ buffer'.pc = "write" /\ buffer'.flush = buffer.flush
    BY ONLY <1>0, <2>1 DEF BufferType
  <2>3. Queues(buffer', sent, rejected, before)
    BY <1>0, <2>1, <2>2 DEF Queues
  <2> QED
    BY <1>1, <2>2, <2>3 DEF BufferInv, Queues
<1>4. CASE Flush
  <2>1. PICK q : q = Append(buffer.queue, FlushMessage)
    OBVIOUS
  <2>2. /\ q \in Seq(Events \cup {FlushMessage}) /\ Len(q) = Len(buffer.queue) + 1
        /\ ToSet(q) = ToSet(buffer.queue) \cup {FlushMessage}
    BY <1>2, <2>1, AppendFacts
  <2>3. /\ buffer' = [buffer EXCEPT !.queue = q, !.flush = "asked"]
        /\ buffer.flush = "none" /\ Len(buffer.queue) < setup.buffer
    BY <1>4, <2>1 DEF Flush
  <2>4. /\ buffer' \in BufferType /\ buffer'.queue = q /\ buffer'.held = buffer.held
        /\ buffer'.pc = buffer.pc /\ buffer'.flush = "asked"
    BY ONLY <1>0, <2>2, <2>3 DEF BufferType
  <2>5. Len(q) <= setup.buffer
    BY <1>2, <2>2, <2>3 DEF SetupOK
  <2>6. Queues(buffer', sent, rejected, before)
    BY <1>0, <2>2, <2>3, <2>4, <2>5 DEF Queues
  <2> QED
    BY <1>1, <2>4, <2>6 DEF BufferInv, Queues
<1>5. CASE FlushTimesOut
  <2>1. PICK n, a : n = buffer.dropped + Len(buffer.queue) /\ a = Len(buffer.queue)
    OBVIOUS
  <2>2. n \in Nat /\ a \in Nat
    BY <1>2, <2>1
  <2>3. buffer' = [buffer EXCEPT !.abandoned = a, !.dropped = n, !.flush = "TimedOut"]
    BY <1>0, <1>5, <2>1 DEF FlushTimesOut, Abandoned, BufferType
  <2>4. /\ buffer' \in BufferType /\ buffer'.queue = buffer.queue /\ buffer'.held = buffer.held
        /\ buffer'.pc = buffer.pc /\ buffer'.flush = "TimedOut"
    BY ONLY <1>0, <2>2, <2>3 DEF BufferType
  <2>5. Queues(buffer', sent, rejected, before)
    BY <1>0, <2>4 DEF Queues
  <2> QED
    BY <1>1, <2>4, <2>5 DEF BufferInv, Queues
<1> QED
  BY <1>3, <1>4, <1>5

LEMMA BufferRecordStep ==
  ASSUME SetupOK, BufferInv, NEW e \in Events, BufferRecord(e), setup' = setup
  PROVE  BufferInv'
<1>0. /\ buffer \in BufferType /\ Queues(buffer, sent, rejected, before)
      /\ sent \subseteq Events /\ rejected \subseteq Events /\ before \subseteq Events
      /\ NoEvent \notin Events
  BY JournalAssumption DEF BufferInv
<1>1. /\ buffer.queue \in Seq(Events \cup {FlushMessage}) /\ buffer.dropped \in Nat
      /\ Len(buffer.queue) \in Nat
  BY <1>0 DEF BufferType
<1>2. CASE UNCHANGED bufferVars
  BY <1>0, <1>2 DEF bufferVars, BufferInv, Queues
<1>3. CASE buffer' = [buffer EXCEPT !.dropped = @ + 1] /\ UNCHANGED <<sent, rejected, before>>
  <2>1. /\ buffer' \in BufferType /\ buffer'.queue = buffer.queue /\ buffer'.held = buffer.held
        /\ buffer'.pc = buffer.pc /\ buffer'.flush = buffer.flush
    <3>1. buffer.dropped + 1 \in Nat
      BY <1>1
    <3> QED
      BY ONLY <1>0, <1>3, <3>1 DEF BufferType
  <2>2. Queues(buffer', sent, rejected, before)
    BY <1>0, <2>1 DEF Queues
  <2> QED
    BY <1>0, <1>3, <2>1, <2>2 DEF BufferInv, Queues
<1>4. CASE /\ Len(buffer.queue) < setup.buffer
           /\ buffer' = [buffer EXCEPT !.queue = Append(@, e)]
           /\ before' = IF buffer.flush = "none" THEN before \cup {e} ELSE before
           /\ UNCHANGED <<sent, rejected>>
  <2>1. PICK q : q = Append(buffer.queue, e)
    OBVIOUS
  <2>2. /\ q \in Seq(Events \cup {FlushMessage}) /\ Len(q) = Len(buffer.queue) + 1
        /\ ToSet(q) = ToSet(buffer.queue) \cup {e}
    BY <1>1, <2>1, AppendFacts
  <2>3. buffer' = [buffer EXCEPT !.queue = q]
    BY <1>4, <2>1
  <2>4. /\ buffer' \in BufferType /\ buffer'.queue = q /\ buffer'.held = buffer.held
        /\ buffer'.pc = buffer.pc /\ buffer'.flush = buffer.flush
    BY ONLY <1>0, <2>2, <2>3 DEF BufferType
  <2>5. Len(q) <= setup.buffer
    BY <1>1, <1>4, <2>2 DEF SetupOK
  <2>6. e # FlushMessage
    BY <1>0 DEF FlushMessage
  <2>7. Queues(buffer', sent, rejected, before')
    BY <1>0, <1>4, <2>2, <2>4, <2>5, <2>6 DEF Queues
  <2> QED
    BY <1>0, <1>4, <2>4, <2>7 DEF BufferInv, Queues
<1> QED
  BY <1>2, <1>3, <1>4 DEF BufferRecord

-----------------------------------------------------------------------------
(* Every step of the delivery *)

DeliveryInv ==
  /\ JournalInv /\ SetupOK /\ recorded \subseteq Events
  /\ IndexInv /\ queued \subseteq Offered
  /\ BufferInv

\* What was answered Durable stays so.
LEMMA DurableStays ==
  ASSUME OutboxType, AppendStep, NEW e \in Events, answer[e] = "Durable"
  PROVE  answer'[e] = "Durable"
<1>1. answer \in [Events -> {"none", "Durable", "Refused"}]
  BY DEF OutboxType
<1>2. ASSUME NEW f \in conf.events, AlreadyPresent(f) \/ Insert(f) \/ AtCapacity(f) \/ AppendFails(f)
      PROVE  answer'[e] = "Durable"
  BY <1>1, <1>2 DEF AlreadyPresent, Insert, AtCapacity, AppendFails, CanAppend
<1>3. ASSUME NEW p \in Positions, (\E heard \in BOOLEAN : Commit(p, heard)) \/ RollBack(p)
      PROVE  answer'[e] = "Durable"
  BY <1>1, <1>3 DEF Commit, RollBack
<1> QED
  BY <1>2, <1>3 DEF AppendStep

LEMMA DeliveryStarts == DeliveryInit => DeliveryInv
<1> SUFFICES ASSUME DeliveryInit PROVE DeliveryInv
  OBVIOUS
<1>1. JournalInv /\ SetupOK /\ recorded \subseteq Events
  BY JournalStarts, SetupFacts DEF DeliveryInit
<1>2. /\ <<>> \in Seq(Events) /\ <<>> \in Seq(Events \cup {FlushMessage})
      /\ ToSet(<<>>) = {} /\ IsInjective(<<>>) /\ Len(<<>>) = 0
  BY DEF ToSet, IsInjective
<1>3. IndexInv
  <2>1. /\ index.queue = <<>> /\ index.batch = <<>> /\ ~index.stop /\ index.pc = "recv"
        /\ index.written = 0 /\ index.leftover = 0 /\ ~index.failed /\ index.report = "none"
        /\ index \in IndexType
    BY <1>1, <1>2 DEF DeliveryInit, IndexType, SetupOK
  <2>2. Held(index)
    BY <1>1, <1>2, <2>1 DEF Held, SetupOK
  <2>3. Kept(index, queued, rows, refused)
    <3>1. queued = {} /\ rows = {} /\ refused = {}
      BY DEF DeliveryInit
    <3>2. IsFiniteSet({}) /\ Cardinality({}) = 0
      BY FS_EmptySet
    <3> QED
      BY <1>2, <2>1, <3>1, <3>2 DEF Kept
  <2> QED
    BY <2>1, <2>2, <2>3 DEF IndexInv, DeliveryInit
<1>4. BufferInv
  <2>1. /\ buffer.queue = <<>> /\ buffer.held = <<>> /\ buffer.pc = "recv" /\ buffer.flush = "none"
        /\ buffer \in BufferType
    BY <1>2 DEF DeliveryInit, BufferType
  <2> QED
    BY <1>1, <1>2, <2>1 DEF BufferInv, Queues, DeliveryInit, SetupOK
<1>5. queued \subseteq Offered
  BY DEF DeliveryInit
<1> QED
  BY <1>1, <1>3, <1>4, <1>5 DEF DeliveryInv

LEMMA RecordingStep ==
  ASSUME DeliveryInv, (\E e \in Events : RecordTelemetry(e)) \/ RecordBilling
  PROVE  /\ setup' = setup /\ recorded' \subseteq Events
         /\ IndexInv' /\ (queued \subseteq Offered)' /\ BufferInv'
<1>0. /\ SetupOK /\ recorded \subseteq Events /\ IndexInv /\ queued \subseteq Offered /\ BufferInv
      /\ OutboxType
  BY DEF DeliveryInv, JournalInv, OutboxInv
<1>1. ASSUME NEW e \in Events, RecordTelemetry(e)
      PROVE  /\ setup' = setup /\ recorded' \subseteq Events
             /\ IndexInv' /\ (queued \subseteq Offered)' /\ BufferInv'
  <2>1. /\ ~setup.billing /\ e \notin recorded /\ recorded' = recorded \cup {e} /\ setup' = setup
        /\ AppendStore(e) /\ BufferRecord(e)
    BY <1>1 DEF RecordTelemetry
  <2>2. e \notin queued
    BY <1>0, <2>1 DEF Offered
  <2>3. IndexInv' /\ queued' \subseteq queued \cup {e}
    BY <1>0, <2>1, <2>2, OfferStep
  <2>4. BufferInv'
    BY <1>0, <2>1, BufferRecordStep
  <2> QED
    BY <1>0, <2>1, <2>3, <2>4 DEF Offered
<1>2. ASSUME RecordBilling
      PROVE  /\ setup' = setup /\ recorded' \subseteq Events
             /\ IndexInv' /\ (queued \subseteq Offered)' /\ BufferInv'
  <2>1. /\ setup.billing /\ AppendStep /\ setup' = setup /\ recorded' = recorded
        /\ UNCHANGED <<buffer, sent, rejected, before>>
    BY <1>2 DEF RecordBilling, bufferVars
  <2>2. BufferInv'
    BY <1>0, <2>1 DEF BufferInv, Queues
  <2>3. \A e \in Events : answer[e] = "Durable" => answer'[e] = "Durable"
    BY <1>0, <2>1, DurableStays
  <2>4. CASE \E e \in Events : Journaled(e)
    <3>1. PICK e : e = CHOOSE x \in Events : Journaled(x)
      OBVIOUS
    <3>2. e \in Events /\ Journaled(e)
      BY <2>4, <3>1
    <3>3. AppendStore(e)
      BY <1>2, <2>4, <3>1 DEF RecordBilling
    <3>4. e \notin queued /\ answer'[e] = "Durable"
      BY <1>0, <2>1, <3>2 DEF Journaled, Offered
    <3>5. IndexInv' /\ queued' \subseteq queued \cup {e}
      BY <1>0, <2>1, <3>2, <3>3, <3>4, OfferStep
    <3>6. \A x \in queued : x \in Events /\ answer[x] = "Durable"
      BY <1>0, <2>1 DEF Offered
    <3>7. \A x \in queued' : x \in Events /\ answer'[x] = "Durable"
      BY <2>3, <3>2, <3>4, <3>5, <3>6
    <3> QED
      BY <1>0, <2>1, <2>2, <3>5, <3>7 DEF Offered
  <2>5. CASE ~ \E e \in Events : Journaled(e)
    <3>1. UNCHANGED <<index, rows, refused, queued>>
      BY <1>2, <2>5 DEF RecordBilling, indexVars
    <3>2. IndexInv'
      BY <1>0, <2>1, <3>1 DEF IndexInv, Held, Kept
    <3> QED
      BY <1>0, <2>1, <2>2, <2>3, <3>1, <3>2 DEF Offered
  <2> QED
    BY <2>4, <2>5
<1> QED
  BY <1>1, <1>2

LEMMA OtherStep ==
  ASSUME DeliveryInv, JournalStep \/ IndexStep \/ BufferStep \/ UNCHANGED deliveryVars
  PROVE  /\ setup' = setup /\ recorded' \subseteq Events
         /\ IndexInv' /\ (queued \subseteq Offered)' /\ BufferInv'
<1>0. /\ SetupOK /\ recorded \subseteq Events /\ IndexInv /\ queued \subseteq Offered /\ BufferInv
  BY DEF DeliveryInv
<1>1. setup' = setup /\ recorded' = recorded
  BY DEF JournalStep, IndexStep, BufferStep, deliveryVars
<1>2. answer' = answer
  <2>1. CASE JournalStep
    <3>1. ASSUME NEW w \in Workers, Deliver(w) \/ Abandon(w) PROVE answer' = answer
      BY <3>1 DEF Deliver, Abandon, Select, Claim, Settle, SettleEnds, Write, AckAll, journal
    <3>2. ASSUME Maintain \/ \E p \in Positions, c \in Consumers : LeaseExpires(p, c)
          PROVE  answer' = answer
      BY <3>2 DEF Maintain, Prune, Advance, LeaseExpires
    <3> QED
      BY <2>1, <3>1, <3>2 DEF JournalStep
  <2>2. CASE IndexStep \/ BufferStep \/ UNCHANGED deliveryVars
    BY <2>2 DEF IndexStep, BufferStep, deliveryVars, vars, journal
  <2> QED
    BY <2>1, <2>2
<1>3. CASE IndexStep
  <2>1. UNCHANGED <<buffer, sent, rejected, before>>
    BY <1>3 DEF IndexStep, bufferVars
  <2>2. IndexInv' /\ queued' = queued
    <3>1. CASE /\ IndexRecv \/ IndexGather \/ IndexBatch \/ DrainIndex \/ AbandonIndex
                  \/ IndexReports \/ IndexOverruns
               /\ UNCHANGED <<rows, refused, queued>>
      BY <1>0, <1>1, <3>1, RecvStep, GatherStep, BatchStep, ClosingStep
    <3>2. CASE \E ok, landed \in BOOLEAN : IndexWrite(ok, landed)
      BY <1>0, <1>1, <3>2, WritingStep DEF IndexWrite
    <3> QED
      BY <1>3, <3>1, <3>2 DEF IndexStep
  <2>3. BufferInv'
    BY <1>0, <1>1, <2>1 DEF BufferInv, Queues
  <2> QED
    BY <1>0, <1>1, <1>2, <2>2, <2>3 DEF Offered
<1>4. CASE BufferStep
  <2>1. UNCHANGED <<index, rows, refused, queued>>
    BY <1>4 DEF BufferStep, indexVars
  <2>2. BufferInv'
    BY <1>0, <1>1, <1>4, BufferRecvStep, BufferWriteStep, BufferOtherStep DEF BufferStep
  <2>3. IndexInv'
    BY <1>0, <1>1, <2>1 DEF IndexInv, Held, Kept
  <2> QED
    BY <1>0, <1>1, <1>2, <2>1, <2>2, <2>3 DEF Offered
<1>5. CASE JournalStep \/ UNCHANGED deliveryVars
  <2>1. UNCHANGED <<index, rows, refused, queued, buffer, sent, rejected, before>>
    BY <1>5 DEF JournalStep, deliveryVars, indexVars, bufferVars
  <2>2. IndexInv' /\ BufferInv'
    BY <1>0, <1>1, <2>1 DEF IndexInv, Held, Kept, BufferInv, Queues
  <2> QED
    BY <1>0, <1>1, <1>2, <2>1, <2>2 DEF Offered
<1> QED
  BY <1>3, <1>4, <1>5

LEMMA DeliverySteps ==
  ASSUME DeliveryInv, [DeliveryNext]_deliveryVars PROVE DeliveryInv'
<1>1. JournalInv'
  BY JournalSteps DEF DeliveryInv
<1>2. /\ setup' = setup /\ recorded' \subseteq Events
      /\ IndexInv' /\ (queued \subseteq Offered)' /\ BufferInv'
  BY RecordingStep, OtherStep DEF DeliveryNext
<1>3. SetupOK'
  BY <1>2 DEF DeliveryInv, SetupOK
<1> QED
  BY <1>1, <1>2, <1>3 DEF DeliveryInv

\* What shutdown reports is what happened (ReportsHonest).
LEMMA ReportsHonestOf == DeliveryInv => ReportsHonest
<1> SUFFICES ASSUME DeliveryInv PROVE ReportsHonest
  OBVIOUS
<1>1. /\ Held(index) /\ Kept(index, queued, rows, refused)
      /\ Queues(buffer, sent, rejected, before)
  BY DEF DeliveryInv, IndexInv, BufferInv
<1>2. ASSUME index.report = "reported"
      PROVE  /\ index.leftover = Cardinality(queued \ (rows \cup refused))
             /\ index.written = Cardinality(queued \ refused)
             /\ (index.leftover = 0 /\ ~index.failed) => queued \subseteq rows
  <2>1. ~index.stop /\ index.pc = "done"
    BY <1>1, <1>2 DEF Held
  <2>2. index.leftover = 0 /\ ToSet(index.batch) = {} /\ ToSet(index.queue) = {}
    BY <1>1, <2>1 DEF Held, ToSet
  <2>3. queued = rows \cup refused /\ index.written = Cardinality(rows \ refused)
        /\ (~index.failed => refused = {})
    BY <1>1, <2>1, <2>2 DEF Kept
  <2>4. queued \ (rows \cup refused) = {} /\ queued \ refused = rows \ refused
    BY <2>3
  <2> QED
    BY <2>2, <2>3, <2>4, FS_EmptySet
<1> QED
  BY <1>1, <1>2 DEF ReportsHonest, Queues

LEMMA LossIsReportedOf == DeliveryInv => LossIsReported
<1> SUFFICES ASSUME DeliveryInv PROVE LossIsReported
  OBVIOUS
<1>1. TypeOK /\ NothingLost /\ ReportsHonest
  BY JournalTyped, NothingLostOf, ReportsHonestOf DEF DeliveryInv
<1>2. DeliveryTypeOK
  <2>1. /\ rows \subseteq Events /\ refused \subseteq Events /\ queued \subseteq Events
        /\ sent \subseteq Events /\ rejected \subseteq Events /\ before \subseteq Events
        /\ index \in IndexType /\ buffer \in BufferType
    BY DEF DeliveryInv, IndexInv, Kept, BufferInv
  <2>2. setup \in Setups /\ recorded \subseteq Events
    BY DEF DeliveryInv, SetupOK
  <2> QED
    BY <1>1, <2>1, <2>2 DEF DeliveryTypeOK
<1> QED
  BY <1>1, <1>2 DEF DeliveryInv, IndexInv, BufferInv, Held, Queues, LossIsReported

\* No record goes missing in silence (LossIsReported): in the outbox of the
\* journal, the queue of the usage index and the buffer of a sink, for every
\* size of each and every number of workers and records.
THEOREM LossTheorem == DeliverySpec => []LossIsReported
<1>1. DeliveryInit => DeliveryInv
  BY DeliveryStarts
<1>2. DeliveryInv /\ [DeliveryNext]_deliveryVars => DeliveryInv'
  BY DeliverySteps
<1>3. DeliveryInv => LossIsReported
  BY LossIsReportedOf
<1> QED
  BY <1>1, <1>2, <1>3, PTL DEF DeliverySpec

=============================================================================
