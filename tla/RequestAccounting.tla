------------------------- MODULE RequestAccounting -------------------------
(***************************************************************************)
(* Who owns the money of a request, from admission to its usage record     *)
(* (serve in routes/mod.rs, CoreAccounting and CoreBudgetHold in           *)
(* core_accounting.rs, routes/accounting.rs, and the Accounting of         *)
(* streaming.rs).                                                          *)
(*                                                                         *)
(* A request reserves settlement capacity, is admitted against its budget  *)
(* and then owns an armed hold.  Whoever ends the request disarms the hold *)
(* and settles it: the handler inline, or one detached job spawned under   *)
(* the reserved capacity.  The handler's future may be dropped at any of   *)
(* its awaits (the caller hung up, or shutdown abandoned it), the armed    *)
(* hold then releases itself from Drop.  Every action is one stretch of    *)
(* code between two awaits.                                                *)
(*                                                                         *)
(* A job is a task of the Settlement module, here with its queue, its      *)
(* queue-wait miss and its capacity only.                                  *)
(***************************************************************************)
EXTENDS Naturals, Sequences, FiniteSets

CONSTANTS
  Requests,
  Costs,         \* the cost of the usage a provider reported
  MaxPending,    \* max_pending_settlements, a bound
  MaxInFlight,   \* max_in_flight_settlements, a bound
  Appends,       \* a usage journal is configured
  OnUndurable    \* what a request the journal cannot take is answered

ASSUME AccountingAssumption ==
  /\ Costs \subseteq Nat
  /\ MaxPending \in Nat \ {0} /\ MaxInFlight \in Nat \ {0}
  /\ Appends \in BOOLEAN /\ OnUndurable \in {"Refuse", "Serve"}

VARIABLES
  pc,        \* the await the handler, or the response body, is at
  streamed,  \* the request asked for a stream
  slot,      \* SettlementSlot: the request still holds its reservation
  hold,      \* who owns the armed CoreBudgetHold
  settled,   \* Accounting::settled
  job,       \* the jobs of a request: the settlement, and a later release
  answer,    \* what the caller was told, "failed" when it is no longer there
  pending,   \* free settlement capacity
  charged,   \* the BudgetStore::settle calls of a request
  recorded   \* the usage records of a request that reached the delivery

owners == <<slot, hold, settled>>
money == <<charged, recorded>>
vars == <<pc, streamed, owners, job, answer, pending, money>>

Amounts == Costs \cup {0}
Statuses == {"Ok", "UpstreamError", "ClientCancelled"}
Jobs == {"main", "release"}
Works == {"account", "record", "zero"}
Stages == {"none", "queued", "running", "charged", "missed", "dropped", "done", "died"}
JobType == [stage : Stages, work : Works, cost : Amounts, status : Statuses]
RecordType == [status : Statuses, cost : Amounts]
NoJob == [stage |-> "none", work |-> "zero", cost |-> 0, status |-> "Ok"]

TypeOK ==
  /\ pc \in [Requests -> {"idle", "reserving", "dispatching", "releasing", "failing",
                          "recording", "finishing", "relaying", "closing", "ended"}]
  /\ streamed \in [Requests -> BOOLEAN]
  /\ slot \in [Requests -> BOOLEAN]
  /\ hold \in [Requests -> {"none", "handler", "job"}]
  /\ settled \in [Requests -> BOOLEAN]
  /\ job \in [Requests -> [Jobs -> JobType]]
  /\ answer \in [Requests -> {"none", "refused", "ok", "failed"}]
  /\ pending \in Nat
  /\ charged \in [Requests -> Seq(Amounts)]
  /\ recorded \in [Requests -> Seq(RecordType)]

Init ==
  /\ pc = [r \in Requests |-> "idle"]
  /\ streamed \in [Requests -> BOOLEAN]
  /\ slot = [r \in Requests |-> FALSE]
  /\ hold = [r \in Requests |-> "none"]
  /\ settled = [r \in Requests |-> FALSE]
  /\ job = [r \in Requests |-> [j \in Jobs |-> NoJob]]
  /\ answer = [r \in Requests |-> "none"]
  /\ pending = MaxPending
  /\ charged = [r \in Requests |-> <<>>]
  /\ recorded = [r \in Requests |-> <<>>]

-----------------------------------------------------------------------------
(* Pieces the handlers share *)

Goto(r, p, q) == pc[r] = p /\ pc' = [pc EXCEPT ![r] = q]

Tell(r, a) == answer' = [answer EXCEPT ![r] = a]

\* budget.settle(key, reservation, c)
Settle(r, c) == charged' = [charged EXCEPT ![r] = Append(@, c)]

\* The CoreAccounting is dropped with its hold disarmed: a reservation left in
\* the slot gives its capacity back.
DropSlot(r) ==
  /\ slot' = [slot EXCEPT ![r] = FALSE]
  /\ pending' = IF slot[r] THEN pending + 1 ELSE pending

Queued(work, cost, status) ==
  [stage |-> "queued", work |-> work, cost |-> cost, status |-> status]

\* take_settlement, and spawn under what it returned.
SpawnReserved(r, new) ==
  /\ slot[r]
  /\ slot' = [slot EXCEPT ![r] = FALSE]
  /\ job' = [job EXCEPT ![r]["main"] = new]

\* Drop for an armed CoreBudgetHold: a zero-charge release under the
\* request's own reservation.
DropArmed(r) ==
  /\ hold[r] = "handler" /\ hold' = [hold EXCEPT ![r] = "none"]
  /\ SpawnReserved(r, Queued("zero", 0, "Ok"))
  /\ UNCHANGED pending

\* The hold moves into the job's future.
HandOver(r, c, s) ==
  /\ hold[r] = "handler" /\ hold' = [hold EXCEPT ![r] = "job"]
  /\ SpawnReserved(r, Queued("account", c, s))

-----------------------------------------------------------------------------
(* serve, up to the dispatch *)

\* Settlements::reserve
Reserve(r) ==
  /\ pending > 0 /\ Goto(r, "idle", "reserving")
  /\ pending' = pending - 1 /\ slot' = [slot EXCEPT ![r] = TRUE]
  /\ UNCHANGED <<streamed, hold, settled, job, answer, money>>

Shed(r) ==
  /\ pending = 0 /\ Goto(r, "idle", "ended") /\ Tell(r, "refused")
  /\ UNCHANGED <<streamed, owners, job, pending, money>>

\* The cost ceiling or the budget refuses the request, or its handler is
\* dropped while it waits for the budget.
Refuse(r) ==
  /\ Goto(r, "reserving", "ended") /\ Tell(r, "refused")
  /\ DropSlot(r)
  /\ UNCHANGED <<streamed, hold, settled, job, money>>

\* reserve_budget arms the hold: the request is admitted.
reserve_budget(r) ==
  /\ Goto(r, "reserving", "dispatching")
  /\ hold' = [hold EXCEPT ![r] = "handler"]
  /\ UNCHANGED <<streamed, slot, settled, job, answer, pending, money>>

-----------------------------------------------------------------------------
(* The buffered outcomes *)

\* No target was dispatched: the hold is released inline.  release disarms the
\* hold before it awaits the Store.
NotDispatched(r) ==
  /\ Goto(r, "dispatching", "releasing")
  /\ hold' = [hold EXCEPT ![r] = "none"]
  /\ Settle(r, 0)
  /\ UNCHANGED <<streamed, slot, settled, job, answer, pending, recorded>>

Released(r) ==
  /\ Goto(r, "releasing", "ended") /\ Tell(r, "failed")
  /\ DropSlot(r)
  /\ UNCHANGED <<streamed, hold, settled, job, money>>

\* Mutant: the hold stays armed across the release.
BugUpstreamFailed(r) ==
  /\ ~streamed[r] /\ Goto(r, "dispatching", "failing")
  /\ Settle(r, 0)
  /\ UNCHANGED <<streamed, slot, hold, settled, job, answer, pending, recorded>>

\* The provider answered with an error: nothing is owed.
UpstreamFailed(r) ==
  /\ ~streamed[r] /\ Goto(r, "dispatching", "failing")
  /\ hold' = [hold EXCEPT ![r] = "none"]
  /\ Settle(r, 0)
  /\ UNCHANGED <<streamed, slot, settled, job, answer, pending, recorded>>

\* record_usage_terminal: detached under the reservation when the record is an
\* append, otherwise inline in the handler.
record_usage_terminal(r) ==
  /\ Goto(r, "failing", "recording")
  /\ IF Appends
     THEN SpawnReserved(r, Queued("record", 0, "UpstreamError"))
     ELSE UNCHANGED <<slot, job>>
  /\ UNCHANGED <<streamed, hold, settled, answer, pending, money>>

RecordedInline(r) ==
  /\ ~Appends /\ Goto(r, "recording", "ended") /\ Tell(r, "failed")
  /\ recorded' = [recorded EXCEPT ![r] =
                    Append(@, [status |-> "UpstreamError", cost |-> 0])]
  /\ DropSlot(r)
  /\ UNCHANGED <<streamed, hold, settled, job, charged>>

Over(stage) == stage \in {"none", "done", "died", "dropped"}

RecordedDetached(r) ==
  /\ Appends /\ Over(job[r]["main"].stage)
  /\ Goto(r, "recording", "ended") /\ Tell(r, "failed")
  /\ UNCHANGED <<streamed, owners, job, pending, money>>

\* Mutant: the response is sent as soon as the accounting is spawned.
BugFinish(r, c) ==
  /\ ~streamed[r] /\ Goto(r, "dispatching", "finishing")
  /\ HandOver(r, c, "Ok") /\ Tell(r, "ok")
  /\ UNCHANGED <<streamed, settled, pending, money>>

\* The provider answered: BufferedResponseAccounting owns the spend, and
\* finish hands it to the one accounting job.
finish(r, c) ==
  /\ ~streamed[r] /\ Goto(r, "dispatching", "finishing")
  /\ HandOver(r, c, "Ok")
  /\ UNCHANGED <<streamed, settled, answer, pending, money>>

\* The verdict the accounting job sent, or its sender dropped.
Verdict(r) ==
  /\ Over(job[r]["main"].stage) /\ Goto(r, "finishing", "ended")
  /\ Tell(r, IF job[r]["main"].stage = "done"
                /\ (recorded[r] # <<>> \/ OnUndurable = "Serve")
             THEN "ok" ELSE "failed")
  /\ UNCHANGED <<streamed, owners, job, pending, money>>

-----------------------------------------------------------------------------
(* The streamed outcomes *)

\* A target answered, its stream is relayed by the response body.
relay_opened(r) ==
  /\ streamed[r] /\ Goto(r, "dispatching", "relaying")
  /\ UNCHANGED <<streamed, owners, job, answer, pending, money>>

\* Accounting::settle, which Drop calls again.
AccountingSettle(r, c, s) ==
  IF settled[r]
  THEN UNCHANGED <<owners, job>>
  ELSE /\ settled' = [settled EXCEPT ![r] = TRUE]
       /\ HandOver(r, c, s)

\* Every target failed: settle_upstream_error_with_accounting, no usage.
settle_upstream_error(r) ==
  /\ streamed[r] /\ Goto(r, "dispatching", "ended") /\ Tell(r, "failed")
  /\ AccountingSettle(r, 0, "UpstreamError")
  /\ UNCHANGED <<streamed, pending, money>>

\* The relay reaches its end or breaks: next_chunk settles, and its last
\* chunks are still to be sent.
RelayEnds(r, c) ==
  /\ Goto(r, "relaying", "closing")
  /\ \E s \in {"Ok", "UpstreamError"} : AccountingSettle(r, c, s)
  /\ UNCHANGED <<streamed, answer, pending, money>>

\* The body is dropped, by the server after its last chunk or because the
\* caller is gone: Drop for Accounting.
DropBody(r, c) ==
  /\ pc[r] \in {"relaying", "closing"} /\ pc' = [pc EXCEPT ![r] = "ended"]
  /\ Tell(r, IF settled[r] THEN "ok" ELSE "failed")
  /\ AccountingSettle(r, c, "ClientCancelled")
  /\ UNCHANGED <<streamed, pending, money>>

-----------------------------------------------------------------------------
(* The handler is dropped at an await, or returns with its hold armed *)

DropHandler(r) ==
  /\ pc[r] \in {"dispatching", "releasing", "failing", "recording", "finishing"}
  /\ pc' = [pc EXCEPT ![r] = "ended"] /\ Tell(r, "failed")
  /\ IF hold[r] = "handler"
     THEN DropArmed(r)
     ELSE DropSlot(r) /\ UNCHANGED <<hold, job>>
  /\ UNCHANGED <<streamed, settled, money>>

-----------------------------------------------------------------------------
(* The jobs *)

Running == {x \in Requests \X Jobs : job[x[1]][x[2]].stage \in {"running", "charged"}}

Advance(r, j, p, q) ==
  /\ job[r][j].stage = p
  /\ job' = [job EXCEPT ![r][j].stage = q]

StartJob(r, j) ==
  /\ Cardinality(Running) < MaxInFlight
  /\ Advance(r, j, "queued", "running")
  /\ UNCHANGED <<pc, streamed, owners, answer, pending, money>>

\* The charge comes first: the hold is disarmed before the Store is called.
\* A record-only job has nothing to charge.
JobSettle(r, j) ==
  /\ job[r][j].work # "record"
  /\ Advance(r, j, "running", "charged")
  /\ hold' = [hold EXCEPT ![r] = IF job[r][j].work = "account" THEN "none" ELSE @]
  /\ Settle(r, job[r][j].cost)
  /\ UNCHANGED <<pc, streamed, slot, settled, answer, pending, recorded>>

\* Then the record.  An append may be refused by the journal, and is lost.
JobRecord(r, j) ==
  /\ job[r][j].work # "zero"
  /\ Advance(r, j, IF job[r][j].work = "record" THEN "running" ELSE "charged", "done")
  /\ \/ recorded' = [recorded EXCEPT ![r] = Append(@, [status |-> job[r][j].status,
                                                       cost |-> job[r][j].cost])]
     \/ Appends /\ UNCHANGED recorded
  /\ pending' = pending + 1
  /\ UNCHANGED <<pc, streamed, owners, answer, charged>>

ZeroDone(r, j) ==
  /\ job[r][j].work = "zero"
  /\ Advance(r, j, "charged", "done")
  /\ pending' = pending + 1
  /\ UNCHANGED <<pc, streamed, owners, answer, money>>

\* The job panics after it disarmed the hold.
JobDies(r, j) ==
  /\ \/ job[r][j].stage = "charged"
     \/ job[r][j].stage = "running" /\ job[r][j].work = "record"
  /\ job' = [job EXCEPT ![r][j].stage = "died"]
  /\ pending' = pending + 1
  /\ UNCHANGED <<pc, streamed, owners, answer, money>>

\* Mutant: the guard keeps its permit when the queue wait is missed.
BugMissQueueWait(r, j) ==
  /\ Cardinality(Running) >= MaxInFlight
  /\ Advance(r, j, "queued", "missed")
  /\ UNCHANGED <<pc, streamed, owners, answer, pending, money>>

\* No execution slot within the queue wait: the guard goes first and returns
\* the capacity ...
MissQueueWait(r, j) ==
  /\ Cardinality(Running) >= MaxInFlight
  /\ Advance(r, j, "queued", "missed")
  /\ pending' = pending + 1
  /\ UNCHANGED <<pc, streamed, owners, answer, money>>

\* Mutant: the future that never ran is kept, and its sender with it.
BugDropFuture(r, j) ==
  /\ job[r][j].stage = "missed"
  /\ hold' = [hold EXCEPT ![r] = "none"]
  /\ UNCHANGED <<pc, streamed, slot, settled, job, answer, pending, money>>

\* ... then the future that never ran.  A hold it owns is still armed, its
\* reservation is spent, so its release needs new capacity, or is refused.
DropFuture(r, j) ==
  /\ job[r][j].stage = "missed"
  /\ LET fallback == job[r][j].work = "account" /\ pending > 0
         dropped == [job EXCEPT ![r][j].stage = "dropped"] IN
     /\ job' = IF fallback THEN [dropped EXCEPT ![r]["release"] = Queued("zero", 0, "Ok")]
                           ELSE dropped
     /\ pending' = IF fallback THEN pending - 1 ELSE pending
  /\ hold' = [hold EXCEPT ![r] = IF job[r][j].work = "account" THEN "none" ELSE @]
  /\ UNCHANGED <<pc, streamed, slot, settled, answer, money>>

-----------------------------------------------------------------------------

Serve(r) ==
  \/ Reserve(r) \/ Shed(r) \/ Refuse(r) \/ reserve_budget(r)
  \/ NotDispatched(r) \/ Released(r) \/ UpstreamFailed(r)
  \/ record_usage_terminal(r) \/ RecordedInline(r) \/ RecordedDetached(r)
  \/ Verdict(r) \/ relay_opened(r) \/ settle_upstream_error(r)
  \/ \E c \in Costs : finish(r, c)
  \/ \E c \in Amounts : RelayEnds(r, c)

Job(r, j) == StartJob(r, j) \/ JobSettle(r, j) \/ JobRecord(r, j) \/ ZeroDone(r, j)
             \/ DropFuture(r, j)

Leave(r) == DropHandler(r) \/ \E c \in Amounts : DropBody(r, c)

JobsOver(r) == \A j \in Jobs : Over(job[r][j].stage)

\* Every request is answered and accounted for.
Quiet == /\ \A r \in Requests : pc[r] = "ended" /\ JobsOver(r)
         /\ UNCHANGED vars

Next ==
  \/ \E r \in Requests : Serve(r) \/ Leave(r)
  \/ \E r \in Requests, j \in Jobs : Job(r, j) \/ JobDies(r, j) \/ MissQueueWait(r, j)
  \/ Quiet

Spec == Init /\ [][Next]_vars

\* A provider answers or times out, the Store answers, and the server drops
\* every body it has sent.  Nothing makes a caller hang up, a job panic or a
\* queue wait expire.
FairSpec ==
  /\ Spec
  /\ \A r \in Requests : WF_vars(Serve(r)) /\ WF_vars(\E c \in Amounts : DropBody(r, c))
  /\ \A r \in Requests, j \in Jobs : WF_vars(Job(r, j)) /\ SF_vars(StartJob(r, j))

-----------------------------------------------------------------------------
(* Properties *)

\* The settle calls and the usage records of every request follow the contract
\* (budget/mod.rs:107): one charge, one record, the record after the charge
\* and for the same amount, on every path and cancellation.
Contract == INSTANCE RequestContract WITH Costs <- Amounts
ImplementsContract == Contract!Spec

\* The requests that own a unit of settlement capacity: in their slot, or in a
\* job whose guard lives.
OwnedUnits == Cardinality({r \in Requests : slot[r]})
            + Cardinality({x \in Requests \X Jobs :
                             job[x[1]][x[2]].stage \in {"queued", "running", "charged"}})

\* Each admitted request owns its unit until it has been turned into its one
\* job, so known spend is never refused (streaming.rs:1197), and no path
\* returns a unit twice or keeps it.
CapacityOwned ==
  /\ pending + OwnedUnits = MaxPending
  /\ \A r \in Requests : hold[r] = "handler" => slot[r] /\ ~settled[r]

\* A caller that was told "ok" has been charged the cost of its usage, and
\* under Refuse its record is durable (routes/accounting.rs:132).
ServedIsAccounted ==
  \A r \in Requests : answer[r] = "ok" /\ ~streamed[r] =>
    /\ charged[r] = <<job[r]["main"].cost>>
    /\ OnUndurable = "Refuse" =>
         recorded[r] = <<[status |-> "Ok", cost |-> job[r]["main"].cost]>>

\* What an admitted request owes: the measured cost once a provider answered,
\* zero otherwise.
Admitted(r) == pc[r] \notin {"idle", "reserving"} /\ answer[r] # "refused"
Missed(r) == \E j \in Jobs : job[r][j].stage = "dropped"
Owed(r) == IF job[r]["main"].work = "account" THEN job[r]["main"].cost ELSE 0

\* "Exactly once per admitted request, whatever its outcome": when an admitted
\* request is over it has been settled once for what it owes.  The one loss is
\* a missed queue wait, which settles zero or, with no capacity left, nothing.
SettledExactlyOnce ==
  \A r \in Requests :
    pc[r] = "ended" /\ JobsOver(r) /\ Admitted(r) =>
      IF Missed(r) THEN charged[r] \in {<<>>, <<0>>}
      ELSE charged[r] = <<Owed(r)>>

\* A request's spend is settled once, and before its caller is told that it was
\* served: the two ends of one accounting.
AccountedOnce == ServedIsAccounted /\ SettledExactlyOnce

\* Every admitted request is answered or dropped, and its jobs end.
EveryAdmissionCloses ==
  \A r \in Requests : pc[r] = "dispatching" ~> pc[r] = "ended" /\ JobsOver(r)
=============================================================================
