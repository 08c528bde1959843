---------------------------- MODULE UsageJournal ----------------------------
(***************************************************************************)
(* The billing-grade usage journal: the PostgreSQL outbox                  *)
(* (usage/journal/postgres.rs), what requests append to it, and the        *)
(* delivery workers of every replica that claim its rows, write them to    *)
(* the destinations and give each a verdict (usage/journal/worker.rs).     *)
(*                                                                         *)
(* A database transaction is one action when it commits, except that an    *)
(* append takes its position before it commits, and a claim selects its    *)
(* rows on a snapshot older than the commit that takes them.  A lease is   *)
(* live until the environment lets it expire; the destination may refuse   *)
(* any write; a pass may be dropped at any await (shutdown, crash), and    *)
(* the next process's worker carries on under the same consumer.           *)
(***************************************************************************)
EXTENDS Naturals, Sequences, FiniteSets, SequencesExt, FiniteSetsExt

CONSTANTS
  Events,      \* usage events, each appended by the request it is of
  NoEvent,     \* not an event
  OrderKeys,   \* (namespace, subject) pairs
  Consumers,
  Workers,     \* delivery workers, over all replicas
  MaxPosition, \* bound: the sequence of positions ends here
  Configs      \* the deployments that are looked at

Positions == 1..MaxPosition

\* An append fails or is rolled back; its commit is not heard of; a pass is
\* dropped; a verdict fails.
Faults == {"append", "unheard", "dropped", "verdict"}

ConfigType ==
  [events : SUBSET Events,    \* those that requests end with
   key : [Events -> OrderKeys],
   bad : SUBSET Events,       \* the destination refuses these on their own account
   corrupt : SUBSET Events,   \* decode fails for these
   ahead : SUBSET Events,     \* written by a newer build: schema_version > readable
   consumer : [Workers -> SUBSET Consumers],   \* its consumer; {} is a worker not run
   batch : Nat, max_events : Nat, max_attempts : Nat,
   probe : Nat,               \* PROBE_WRITES
   policy : {"Refuse", "DropOldest"},
   faults : SUBSET Faults]    \* what goes wrong, besides leases and writes

ASSUME JournalAssumption ==
  /\ MaxPosition \in Nat /\ NoEvent \notin Events
  /\ Configs \subseteq ConfigType
  /\ \A c \in Configs :
       /\ c.batch > 0 /\ c.max_events > 0 /\ c.max_attempts > 0 /\ c.probe > 1
       /\ \A w \in Workers : Cardinality(c.consumer[w]) <= 1

VARIABLES
  conf,        \* the deployment
  seq,         \* the last position the sequence gave out
  row,         \* per position: the row of axond_usage_outbox
  answer,      \* per event: what its append answered
  delivery,    \* per position and consumer: axond_usage_outbox_delivery
  registered,  \* axond_usage_outbox_consumer
  floor,       \* its resolved_through
  dropped,     \* axond_usage_outbox_loss
  worker,      \* per worker: the pass it is in
  written,     \* external: per consumer, the positions its destination holds
  unserved     \* history: positions deleted before a registered consumer had them

journal == <<seq, row, answer, delivery, registered, floor, dropped>>
history == <<written, unserved>>
vars == <<conf, journal, worker, history>>

\* A position is allocated by the transaction that inserts its row ("open");
\* frees are the rows that transaction deletes to make room, loses those it
\* counts as lost, and earlier those of its ordering key that were there.
RowType == [state : {"none", "open", "stored", "gone"}, event : Events \cup {NoEvent},
            frees : SUBSET Positions, loses : SUBSET Positions, earlier : SUBSET Positions]
NoRow == [state |-> "none", event |-> NoEvent, frees |-> {}, loses |-> {}, earlier |-> {}]

DeliveryType == [attempts : Nat, live : BOOLEAN, verdict : {"none", "ack", "poison"}]
NoDelivery == [attempts |-> 0, live |-> FALSE, verdict |-> "none"]

\* cand is what the claim selected, with the attempts it read; claimed what it
\* took, with the attempt each is; todo the ranges that are still to be written.
Idle == [pc |-> "idle", cand |-> <<>>, claimed |-> <<>>, todo |-> <<>>,
         landed |-> {}, orphans |-> {}, refusals |-> 0]

Partial(f, R) == DOMAIN f \subseteq Positions /\ f \in [DOMAIN f -> R]

\* The types; a pass writes only what it has claimed; and no row carries a
\* verdict before it is committed or after it is gone.
TypeOK ==
  /\ conf \in Configs /\ seq \in 0..MaxPosition /\ dropped \in Nat
  /\ row \in [Positions -> RowType]
  /\ answer \in [Events -> {"none", "Durable", "Refused"}]
  /\ delivery \in [Positions -> [Consumers -> DeliveryType]]
  /\ registered \subseteq Consumers
  /\ floor \in [Consumers -> 0..MaxPosition]
  /\ written \in [Consumers -> SUBSET Positions] /\ unserved \subseteq Positions
  /\ \A w \in Workers :
       /\ worker[w].pc \in {"idle", "selected", "writing", "settling", "acking"}
       /\ Partial(worker[w].cand, Nat)
       /\ Partial(worker[w].claimed, Nat \ {0})
       /\ worker[w].landed \cup worker[w].orphans \subseteq DOMAIN worker[w].claimed
       /\ UNION {ToSet(r) : r \in ToSet(worker[w].todo)} \subseteq DOMAIN worker[w].claimed
  /\ \A p \in Positions, c \in Consumers :
       /\ (row[p].state = "none") <=> (p > seq)
       /\ row[p].state # "stored" => delivery[p][c] = NoDelivery

Init ==
  /\ conf \in Configs
  /\ seq = 0 /\ dropped = 0 /\ registered = {} /\ unserved = {}
  /\ row = [p \in Positions |-> NoRow]
  /\ answer = [e \in Events |-> "none"]
  /\ delivery = [p \in Positions |-> [c \in Consumers |-> NoDelivery]]
  /\ floor = [c \in Consumers |-> 0]
  /\ worker = [w \in Workers |-> Idle]
  /\ written = [c \in Consumers |-> {}]

Stored == {p \in Positions : row[p].state = "stored"}
KeyOf(p) == conf.key[row[p].event]
Least(S, n) == {p \in S : Cardinality({q \in S : q < p}) < n}

-----------------------------------------------------------------------------
(* What the outbox says of a row *)

\* A row every registered consumer has acknowledged and nobody has condemned.
Delivered(p) ==
  /\ registered # {}
  /\ \A c \in Consumers : delivery[p][c].verdict # "poison"
  /\ \A c \in registered : delivery[p][c].verdict = "ack"

Quarantined(p) == \E c \in Consumers : delivery[p][c].verdict = "poison"

\* surplus_cutoff over the rows S: those beyond the limit.
Surplus(S) == {p \in S : Cardinality({q \in S : q >= p}) >= conf.max_events}

\* The rows consumer c has still to resolve, above its floor, of which d are
\* the delivery rows, and the first of each ordering key.
Unresolved(c, d) == {p \in Stored : p > floor[c] /\ d[p].verdict = "none"}
Heads(S) == {p \in S : \A q \in S : KeyOf(q) = KeyOf(p) => p <= q}

\* Mutant: a row under a lease no longer holds back those behind it.
BugCandidates(c, d, n, skipped) ==
  Least(Heads({p \in Unresolved(c, d) : ~d[p].live}) \ skipped, n)

\* The first n heads that are not skipped. One that is leased is not handed out,
\* and nothing behind it is.
Candidates(c, d, n, skipped) ==
  Least({p \in Heads(Unresolved(c, d)) : ~d[p].live} \ skipped, n)

DeliveriesOf(c) == [p \in Positions |-> delivery[p][c]]

\* JournalStats of consumer c.
Pending(c) == {p \in Unresolved(c, DeliveriesOf(c)) : ~delivery[p][c].live}
InFlight(c) == {p \in Unresolved(c, DeliveriesOf(c)) : delivery[p][c].live}
IsDrained(c) == Pending(c) = {} /\ InFlight(c) = {}

\* Rows leave with their delivery rows (ON DELETE CASCADE).
Erased(P) == [p \in Positions |->
  IF p \in P THEN [NoRow EXCEPT !.state = "gone", !.event = row[p].event] ELSE row[p]]
ErasedDeliveries(P) == [p \in Positions |->
  IF p \in P THEN [c \in Consumers |-> NoDelivery] ELSE delivery[p]]
Unserved(P) == unserved \cup {p \in P : \E c \in registered : p \notin written[c]}

-----------------------------------------------------------------------------
(* Append *)

\* What an append at the limit deletes: the delivered rows of the surplus; then,
\* if it is still at the limit and may drop, the rest of the new surplus but
\* what is quarantined.
Reclaimed == {p \in Surplus(Stored) : Delivered(p)}
DroppedOldest ==
  IF conf.policy = "DropOldest"
    THEN {p \in Surplus(Stored \ Reclaimed) : ~Quarantined(p)} ELSE {}
Freed == Reclaimed \cup DroppedOldest
Room == Surplus(Stored \ Freed) = {}

\* The rows that transactions in progress have deleted, and keep locked.
Doomed == UNION {row[p].frees : p \in {q \in Positions : row[q].state = "open"}}

Appending(e) == \E p \in Positions : row[p].state = "open" /\ row[p].event = e

CanAppend(e) == answer[e] = "none" /\ ~Appending(e) /\ Freed \cap Doomed = {}

\* A re-run of an append whose commit was not heard of finds the event there.
\* (It is the same record: a request has one, so Conflict is not met.)
AlreadyPresent(e) ==
  /\ CanAppend(e) /\ \E p \in Stored : row[p].event = e
  /\ answer' = [answer EXCEPT ![e] = "Durable"]
  /\ UNCHANGED <<conf, seq, row, delivery, registered, floor, dropped, worker, history>>

Insert(e) ==
  /\ CanAppend(e) /\ (\A p \in Stored : row[p].event # e) /\ Room
  /\ seq < MaxPosition
  /\ seq' = seq + 1
  /\ row' = [row EXCEPT ![seq + 1] =
       [state |-> "open", event |-> e, frees |-> Freed, loses |-> DroppedOldest,
        earlier |-> {p \in Stored \ Freed : KeyOf(p) = conf.key[e]}]]
  /\ UNCHANGED <<conf, answer, delivery, registered, floor, dropped, worker, history>>

\* No room: what could be freed is deleted all the same, and the append refused.
AtCapacity(e) ==
  /\ CanAppend(e) /\ (\A p \in Stored : row[p].event # e) /\ ~Room
  /\ row' = Erased(Freed) /\ delivery' = ErasedDeliveries(Freed)
  /\ unserved' = Unserved(Freed)
  /\ dropped' = dropped + Cardinality(DroppedOldest)
  /\ answer' = [answer EXCEPT ![e] = "Refused"]
  /\ UNCHANGED <<conf, seq, registered, floor, worker, written>>

\* The transaction commits; unless it is heard of, the pool runs it again.
Commit(p, heard) ==
  /\ row[p].state = "open" /\ (heard \/ "unheard" \in conf.faults)
  /\ LET frees == row[p].frees \cap Stored
     IN /\ row' = [Erased(frees) EXCEPT ![p] = [@ EXCEPT !.state = "stored",
                                                !.frees = {}, !.loses = {}]]
        /\ delivery' = ErasedDeliveries(frees)
        /\ unserved' = Unserved(frees)
        /\ dropped' = dropped + Cardinality(row[p].loses)
  /\ answer' = IF heard THEN [answer EXCEPT ![row[p].event] = "Durable"] ELSE answer
  /\ UNCHANGED <<conf, seq, registered, floor, worker, written>>

\* The transaction fails, its position is spent.
RollBack(p) ==
  /\ row[p].state = "open" /\ "append" \in conf.faults
  /\ row' = [row EXCEPT ![p] = [NoRow EXCEPT !.state = "gone", !.event = row[p].event]]
  /\ UNCHANGED <<conf, seq, answer, delivery, registered, floor, dropped, worker, history>>

\* An append that has no transaction open fails: the database is not reachable,
\* the gate remembers a refusal, or the re-run fails too.
AppendFails(e) ==
  /\ answer[e] = "none" /\ ~Appending(e) /\ "append" \in conf.faults
  /\ answer' = [answer EXCEPT ![e] = "Refused"]
  /\ UNCHANGED <<conf, seq, row, delivery, registered, floor, dropped, worker, history>>

-----------------------------------------------------------------------------
(* Claim *)

ConsumerOf(w) == CHOOSE c \in conf.consumer[w] : TRUE
Running(w) == conf.consumer[w] # {}

\* The rows that other claims in progress have locked (FOR UPDATE SKIP LOCKED),
\* and those an append in progress has deleted.
Locked(w) ==
  Doomed \cup
  UNION {DOMAIN worker[v].cand : v \in {v \in Workers \ {w} : worker[v].pc = "selected"}}

\* A consumer's first claim does not overlap a deletion that was decided without
\* it: what was delivered before it was registered is not its own.
CanRegister(c) == c \in registered \/ Doomed = {}

\* The first selection of a claim. A row that is locked is skipped for the next
\* one, unless it was free when it was come to. A claim of nothing only registers
\* its consumer.
Select(w) ==
  /\ worker[w].pc = "idle" /\ Running(w)
  /\ LET c == ConsumerOf(w)
     IN \E skipped \in SUBSET (Locked(w) \cap Stored) :
          LET cand == Candidates(c, DeliveriesOf(c), conf.batch, skipped)
          IN /\ cand # {} \/ (c \notin registered /\ CanRegister(c))
             /\ registered' = IF cand = {} THEN registered \cup {c} ELSE registered
             /\ worker' = [worker EXCEPT ![w] =
                  IF cand = {} THEN @
                  ELSE [@ EXCEPT !.pc = "selected",
                                 !.cand = [p \in cand |-> delivery[p][c].attempts]]]
  /\ UNCHANGED <<conf, seq, row, answer, delivery, floor, dropped, history>>

\* The upsert that decides who owns a delivery, against the row as it is now.
Takeable(d) == d.verdict = "none" /\ ~d.live
Take(d, attempt) == [d EXCEPT !.attempts = attempt, !.live = TRUE]

\* Mutant: an event that is out of attempts is passed over, and gets no verdict.
BugCondemned(d, attempt) == [d EXCEPT !.live = FALSE]

\* condemn leaves a row that has its verdict alone.
Condemned(d, attempt) == [attempts |-> attempt, live |-> FALSE, verdict |-> "poison"]

\* decode fails: corruption at this build's own version.
Undecodable(p) == row[p].event \in conf.corrupt

\* The positions of S in order (ORDER BY position).
Ascending(S) == CHOOSE s \in [1..Cardinality(S) -> S] :
                  \A i, j \in 1..Cardinality(S) : i < j => s[i] < s[j]

\* One pass of the loop of claim over the rows in the domain of cand.
Pass(tx, cand) ==
  LET P == {p \in DOMAIN cand : p \in Stored /\ row[p].event \notin conf.ahead}
      dead == {p \in P : cand[p] + 1 > conf.max_attempts \/ Undecodable(p)}
      doomed == {p \in dead : tx.d[p].verdict = "none"}
      taken == {p \in P \ dead : Takeable(tx.d[p])}
      claimed == tx.claimed \o Ascending(taken)
  IN [d |-> [p \in Positions |-> CASE p \in doomed -> Condemned(tx.d[p], cand[p] + 1)
                                   [] p \in taken -> Take(tx.d[p], cand[p] + 1)
                                   [] OTHER -> tx.d[p]],
      claimed |-> claimed,
      more |-> doomed # {} /\ Len(claimed) < conf.batch]

TxType ==
  [d : [Positions -> DeliveryType], claimed : Seq(Positions), more : BOOLEAN]

\* What the loop does after tx: a pass over the heads there are now, as long as
\* rows are condemned and the batch is not full.
NextPass(w) == [tx \in TxType |->
  IF ~tx.more THEN tx
  ELSE Pass(tx, [p \in Candidates(ConsumerOf(w), tx.d, conf.batch - Len(tx.claimed), Locked(w)) |->
                   tx.d[p].attempts])]

\* The first pass is over what was selected; there are at most batch in all.
Passes(w) ==
  LET c == ConsumerOf(w)
      start == [d |-> DeliveriesOf(c), claimed |-> <<>>, more |-> TRUE]
      tx[n \in 1..conf.batch] ==
        IF n = 1 THEN Pass(start, worker[w].cand) ELSE NextPass(w)[tx[n - 1]]
  IN tx

Claimed(w) == Passes(w)[conf.batch]

\* The claim commits. (A worker that does not hear of it holds nothing while the
\* leases run: Abandon.)
Claim(w) ==
  /\ worker[w].pc = "selected" /\ CanRegister(ConsumerOf(w))
  /\ LET c == ConsumerOf(w)
     IN \E tx \in {Claimed(w)} :
        /\ delivery' = [p \in Positions |-> [delivery[p] EXCEPT ![c] = tx.d[p]]]
        /\ registered' = registered \cup {c}
        /\ worker' = [worker EXCEPT ![w] =
             IF tx.claimed = <<>> THEN Idle
             ELSE [Idle EXCEPT !.pc = "writing", !.todo = <<tx.claimed>>,
                     !.claimed = [p \in ToSet(tx.claimed) |-> tx.d[p].attempts]]]
  /\ UNCHANGED <<conf, seq, row, answer, floor, dropped, history>>

-----------------------------------------------------------------------------
(* Deliver *)

Halves(r) == <<SubSeq(r, 1, Len(r) \div 2), SubSeq(r, Len(r) \div 2 + 1, Len(r))>>

\* deliver_durably after a range was accepted or refused.
Accepted(k, r) == [k EXCEPT !.landed = @ \cup ToSet(r), !.todo = Tail(@)]

Refused(k, r) ==
  LET next == [k EXCEPT !.refusals = @ + 1,
                        !.orphans = IF Len(r) = 1 THEN @ \cup ToSet(r) ELSE @,
                        !.todo = Tail(@) \o (IF Len(r) = 1 THEN <<>> ELSE Halves(r))]
  IN IF k.landed = {} /\ next.refusals >= conf.probe
       THEN [next EXCEPT !.todo = <<>>, !.orphans = {}] ELSE next

\* The end of the bisection: a refusal is an event's own only if the same
\* destination accepted something beside it.
Judged(k) ==
  IF k.todo # <<>> THEN k
  ELSE [k EXCEPT !.pc = IF k.landed = DOMAIN k.claimed THEN "acking" ELSE "settling",
                 !.orphans = IF k.landed = {} THEN {} ELSE @,
                 !.refusals = 0]

\* External but for its shape (PostgresSink::insert_batch): one transaction,
\* which absorbs what the destination has already.
Inserted(c, r) == [written EXCEPT ![c] = @ \cup ToSet(r)]

Write(w, ok) ==
  /\ worker[w].pc = "writing"
  /\ LET r == Head(worker[w].todo)
         c == ConsumerOf(w)
     IN /\ ok => \A p \in ToSet(r) : row[p].event \notin conf.bad
        /\ written' = IF ok THEN Inserted(c, r) ELSE written
        /\ worker' = [worker EXCEPT ![w] =
             Judged(IF ok THEN Accepted(@, r) ELSE Refused(@, r))]
  /\ UNCHANGED <<conf, journal, unserved>>

-----------------------------------------------------------------------------
(* Verdicts *)

\* verdict: the row is still there, it was handed out, and has no verdict yet;
\* gated neither on the lease nor on the attempt.
Open(p, d) == p \in Stored /\ d.attempts > 0 /\ d.verdict = "none"
\* Mutant: a late verdict overrides the one that was given.
BugRuled(p, d, v) == IF p \in Stored /\ d.attempts > 0
  THEN [d EXCEPT !.verdict = v, !.live = FALSE] ELSE d

Ruled(p, d, v) == IF Open(p, d) THEN [d EXCEPT !.verdict = v, !.live = FALSE] ELSE d

\* relinquish: an attempt is given back only by the claim that spent it.
Relinquished(p, d, attempt) ==
  IF p \in Stored /\ d.attempts = attempt /\ d.verdict = "none"
    THEN [d EXCEPT !.attempts = @ - 1] ELSE d

Finished(k) == IF k.landed = {} THEN Idle ELSE [k EXCEPT !.pc = "acking"]

\* What did not land: the events refused on their own account that have used up
\* their attempts, and after them those that are nobody's fault.
Spent(k) == {p \in k.orphans : k.claimed[p] >= conf.max_attempts}
Faultless(k) == DOMAIN k.claimed \ (k.landed \cup k.orphans)
Due(k) == IF Spent(k) # {} THEN Spent(k) ELSE Faultless(k)

\* The pass k once it is done with p.
Past(k, p) == [k EXCEPT !.claimed = Restrict(@, DOMAIN @ \ {p}), !.todo = <<>>,
                        !.landed = @ \ {p}, !.orphans = @ \ {p}]

\* One of them is condemned, or gets its attempt back; the call may fail.
Settle(w, p, done) ==
  LET k == worker[w] IN
  /\ k.pc = "settling" /\ p \in Due(k)
  /\ done \/ "verdict" \in conf.faults
  /\ delivery' = [delivery EXCEPT ![p][ConsumerOf(w)] =
       CASE ~done -> @
         [] done /\ p \in k.orphans -> Ruled(p, @, "poison")
         [] OTHER -> Relinquished(p, @, k.claimed[p])]
  /\ worker' = [worker EXCEPT ![w] = Past(k, p)]
  /\ UNCHANGED <<conf, seq, row, answer, registered, floor, dropped, history>>

SettleEnds(w) ==
  /\ worker[w].pc = "settling" /\ Due(worker[w]) = {}
  /\ worker' = [worker EXCEPT ![w] = Finished(@)]
  /\ UNCHANGED <<conf, journal, history>>

\* ack_all of what landed: a failed one leaves its event to be delivered again.
AckAll(w, acked) ==
  /\ worker[w].pc = "acking" /\ acked \subseteq worker[w].landed
  /\ "verdict" \in conf.faults \/ acked = worker[w].landed
  /\ LET c == ConsumerOf(w)
     IN delivery' = [p \in Positions |-> [delivery[p] EXCEPT ![c] =
          IF p \in acked THEN Ruled(p, @, "ack") ELSE @]]
  /\ worker' = [worker EXCEPT ![w] = Idle]
  /\ UNCHANGED <<conf, seq, row, answer, registered, floor, dropped, history>>

\* The pass is dropped: shutdown races it, its budget ends, the answer of the
\* claim is lost, or the process is gone and another one starts. (A claim that
\* fails before its commit is one that was not made.)
Abandon(w) ==
  /\ worker[w].pc \notin {"idle", "selected"} /\ "dropped" \in conf.faults
  /\ worker' = [worker EXCEPT ![w] = Idle]
  /\ UNCHANGED <<conf, journal, history>>

\* External: a lease ends, but not by the clock of a claim that began before it
\* was granted.
LeaseExpires(p, c) ==
  /\ delivery[p][c].live
  /\ \A w \in Workers : conf.consumer[w] = {c} => p \notin DOMAIN worker[w].cand
  /\ delivery' = [delivery EXCEPT ![p][c].live = FALSE]
  /\ UNCHANGED <<conf, seq, row, answer, registered, floor, dropped, worker, history>>

-----------------------------------------------------------------------------
(* Maintenance *)

\* Retention has passed for the rows P.
Prune(P) ==
  /\ P # {} /\ \A p \in P : Delivered(p) /\ p \notin Doomed
  /\ row' = Erased(P) /\ delivery' = ErasedDeliveries(P) /\ unserved' = Unserved(P)
  /\ UNCHANGED <<conf, seq, answer, registered, floor, dropped, worker, written>>

\* FLOOR_SETTLE_MARGIN outlasts an append: nothing below a row that old is open.
Settled == {p \in Stored : \A q \in Positions : row[q].state = "open" => q > p}

\* The floor of c if the newest row that is older than the margin is mark.
Raised(c, mark) ==
  LET todo == Unresolved(c, DeliveriesOf(c))
      through == IF todo # {} THEN Min(todo) - 1
                 ELSE IF Stored # {} THEN Max(Stored) ELSE 0
  IN Max({floor[c], Min({through, mark})})

Advance ==
  /\ \E mark \in Settled \cup {0} :
       floor' = [c \in Consumers |-> IF c \in registered THEN Raised(c, mark) ELSE floor[c]]
  /\ floor' # floor
  /\ UNCHANGED <<conf, seq, row, answer, delivery, registered, dropped, worker, history>>

-----------------------------------------------------------------------------
AppendStep ==
  \/ \E e \in conf.events : AlreadyPresent(e) \/ Insert(e) \/ AtCapacity(e) \/ AppendFails(e)
  \/ \E p \in Positions : (\E heard \in BOOLEAN : Commit(p, heard)) \/ RollBack(p)

Deliver(w) ==
  \/ Select(w) \/ Claim(w) \/ SettleEnds(w)
  \/ \E p \in DOMAIN worker[w].claimed, done \in BOOLEAN : Settle(w, p, done)
  \/ \E ok \in BOOLEAN : Write(w, ok)
  \/ \E acked \in SUBSET worker[w].landed : AckAll(w, acked)

Maintain == (\E P \in SUBSET Stored : Prune(P)) \/ Advance

\* Workers poll and a pass goes on; transactions end; leases expire; the
\* destination is not down for good.
Fairness ==
  /\ \A w \in Workers : WF_vars(Deliver(w)) /\ SF_vars(Write(w, TRUE))
  /\ WF_vars(\E p \in Positions : Commit(p, TRUE) \/ RollBack(p))
  /\ \A p \in Positions : WF_vars(\E c \in Consumers : LeaseExpires(p, c))

-----------------------------------------------------------------------------
(* Properties *)

\* What is accepted is not lost (the guarantee of DELIVERED, of the claim floor
\* and of drop_oldest): a row a registered consumer has not resolved is above
\* its floor, so a drained journal (is_drained) has no such row; a row that was
\* deleted before every registered consumer had it is in the durable loss
\* count, and there is none under the policy "Refuse".
NothingLost ==
  /\ \A c \in Consumers, p \in Stored : delivery[p][c].verdict = "none" => p > floor[c]
  /\ \A c \in Consumers :
       IsDrained(c) => \A p \in Stored : delivery[p][c].verdict # "none"
  /\ Cardinality(unserved) <= dropped
  /\ conf.policy = "Refuse" => dropped = 0

\* One caller's events reach a destination in order (the head of an ordering
\* key in claim): when an event was written, every event of its key that was in
\* the outbox before it was appended had been, or was condemned or deleted.
InOrder ==
  \A c \in Consumers : \A p \in written[c] : \A q \in row[p].earlier :
    q \in written[c] \/ delivery[q][c].verdict = "poison" \/ row[q].state = "gone"

\* The journal keeps its contract: verdicts follow what was written and are
\* final, and rows are given up only delivered or counted.
Contract == INSTANCE JournalContract WITH
  Entries <- Positions, kept <- Stored, served <- written, lost <- dropped,
  verdict <- [p \in Positions |-> [c \in Consumers |-> delivery[p][c].verdict]]

ImplementsJournalContract == Contract!Spec

\* Something that must happen (the lease, the attempt budget and the bisection
\* are there for it): a stored event is acknowledged or set aside for every
\* consumer that has a worker, whatever is dropped, unless an event of its
\* ordering key is one the destination refuses or this build cannot read.
Deliverable(p) == \A e \in conf.events :
  conf.key[e] = KeyOf(p) => e \notin conf.bad \cup conf.ahead
EveryEventResolved ==
  \A p \in Positions :
    (p \in Stored /\ Deliverable(p))
      ~> (p \in Stored => \A w \in Workers : Running(w) =>
                             delivery[p][ConsumerOf(w)].verdict # "none")
=============================================================================
