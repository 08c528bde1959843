---------------------- MODULE RequestAccountingProofs ----------------------
(***************************************************************************)
(* For any number of requests, costs and capacities, the settle calls and  *)
(* the usage records of a request follow RequestContract, no unit of       *)
(* settlement capacity is lost or made, and a request that is over has     *)
(* been charged what it owes.                                              *)
(***************************************************************************)
EXTENDS RequestAccounting, FiniteSetTheorems, TLAPS

Unspent(r) == charged[r] = <<>> /\ recorded[r] = <<>>
Stage(r, j) == job[r][j].stage
NoJobs(r) == Stage(r, "main") = "none" /\ Stage(r, "release") = "none"

\* A request whose outcome is open has no job and no entry in the books.
OpenIsUnspent(r) ==
  pc[r] \in {"idle", "reserving", "dispatching", "relaying"}
    => NoJobs(r) /\ Unspent(r) /\ ~settled[r]

\* The handler owns the armed hold only while the outcome is open.
ArmedWhileOpen(r) == hold[r] = "handler" => pc[r] \in {"dispatching", "relaying"}

\* A failed request has been released, and is recorded by its handler when no
\* job does it.
FailedIsReleased(r) ==
  pc[r] = "failing" \/ (pc[r] = "recording" /\ ~Appends)
    => NoJobs(r) /\ charged[r] = <<0>> /\ recorded[r] = <<>>

\* A job that is about to charge belongs to an unspent request, one that is
\* about to record to a charged one.
Early == {"queued", "running", "missed"}
ToCharge(r, j) == job[r][j].work # "record" /\ Stage(r, j) \in Early
ToRecord(r, j) == \/ job[r][j].work = "account" /\ Stage(r, j) = "charged"
                  \/ job[r][j].work = "record" /\ Stage(r, j) \in Early
JobInOrder(r, j) ==
  /\ ToCharge(r, j) => Unspent(r)
  /\ ToRecord(r, j) => charged[r] = <<job[r][j].cost>> /\ recorded[r] = <<>>

\* The fallback release exists only once the settlement it replaces is gone.
ReleaseLast(r) ==
  /\ job[r]["release"].work = "zero"
  /\ Stage(r, "release") # "none" => Stage(r, "main") = "dropped"

Books(r) ==
  /\ OpenIsUnspent(r) /\ ArmedWhileOpen(r) /\ FailedIsReleased(r)
  /\ JobInOrder(r, "main") /\ JobInOrder(r, "release") /\ ReleaseLast(r)

\* The inductive invariant.
IInv == TypeOK /\ \A r \in Requests : Books(r)

-----------------------------------------------------------------------------
(* Type correctness *)

LEMMA JobUpdate ==
  ASSUME TypeOK, NEW r \in Requests, NEW j \in Jobs, NEW new \in JobType,
         job' = [job EXCEPT ![r][j] = new]
  PROVE  /\ job' \in [Requests -> [Jobs -> JobType]]
         /\ job'[r][j] = new
         /\ \A q \in Requests, i \in Jobs : q # r \/ i # j => job'[q][i] = job[q][i]
  BY DEF TypeOK

\* A job moves to stage s, and nothing else of it or of the others changes.
\* Both sides are named, to be cited where job is one of many.
Advances(r, j, s) == job' = [job EXCEPT ![r][j].stage = s]
Moved(r, j, s) ==
  /\ job' \in [Requests -> [Jobs -> JobType]]
  /\ job'[r][j].stage = s /\ job'[r][j].work = job[r][j].work
  /\ job'[r][j].cost = job[r][j].cost /\ job'[r][j].status = job[r][j].status
  /\ \A q \in Requests, i \in Jobs : q # r \/ i # j => job'[q][i] = job[q][i]

LEMMA JobMoves ==
  ASSUME TypeOK, NEW r \in Requests, NEW j \in Jobs, NEW s \in Stages, Advances(r, j, s)
  PROVE  Moved(r, j, s)
<1>1. job[r][j] \in JobType
  BY DEF TypeOK
<1> DEFINE new == [job[r][j] EXCEPT !.stage = s]
<1>2. /\ new \in JobType /\ new.stage = s
      /\ new.work = job[r][j].work /\ new.cost = job[r][j].cost
      /\ new.status = job[r][j].status
  BY <1>1 DEF JobType
<1>3. job' = [job EXCEPT ![r][j] = new]
  BY DEF TypeOK, Advances
<1> HIDE DEF new
<1>4. /\ job' \in [Requests -> [Jobs -> JobType]] /\ job'[r][j] = new
      /\ \A q \in Requests, i \in Jobs : q # r \/ i # j => job'[q][i] = job[q][i]
  BY ONLY TypeOK, <1>2, <1>3, r \in Requests, j \in Jobs DEF TypeOK
<1> QED
  BY <1>2, <1>4 DEF Moved

LEMMA JobAdvance ==
  ASSUME TypeOK, NEW r \in Requests, NEW j \in Jobs, NEW s \in Stages,
         job' = [job EXCEPT ![r][j].stage = s]
  PROVE  job' \in [Requests -> [Jobs -> JobType]]
<1>1. Advances(r, j, s)
  BY DEF Advances
<1> QED
  BY <1>1, JobMoves DEF Moved

LEMMA SettleType ==
  ASSUME TypeOK, NEW r \in Requests, NEW c \in Amounts, Settle(r, c)
  PROVE  charged' \in [Requests -> Seq(Amounts)]
<1>1. Append(charged[r], c) \in Seq(Amounts)
  BY DEF TypeOK
<1> QED
  BY <1>1 DEF TypeOK, Settle

LEMMA RecordAppend ==
  ASSUME TypeOK, NEW r \in Requests, NEW rec \in RecordType,
         recorded' = [recorded EXCEPT ![r] = Append(@, rec)]
  PROVE  recorded' \in [Requests -> Seq(RecordType)]
<1>1. Append(recorded[r], rec) \in Seq(RecordType)
  BY DEF TypeOK
<1> QED
  BY <1>1 DEF TypeOK

LEMMA SlotType ==
  ASSUME TypeOK, NEW r \in Requests, DropSlot(r)
  PROVE  slot' \in [Requests -> BOOLEAN] /\ pending' \in Nat
<1>1. slot' \in [Requests -> BOOLEAN]
  BY DEF TypeOK, DropSlot
<1>2. pending' \in Nat
  BY DEF TypeOK, DropSlot
<1> QED
  BY <1>1, <1>2

LEMMA QueuedType ==
  /\ \A w \in Works, c \in Amounts, st \in Statuses : Queued(w, c, st) \in JobType
  /\ 0 \in Amounts /\ "main" \in Jobs /\ "release" \in Jobs
  BY DEF Queued, JobType, Stages, Amounts, Jobs

LEMMA SpawnType ==
  ASSUME TypeOK, NEW r \in Requests, NEW new \in JobType, SpawnReserved(r, new)
  PROVE  /\ slot' \in [Requests -> BOOLEAN] /\ job' \in [Requests -> [Jobs -> JobType]]
         /\ job'[r]["main"] = new
         /\ \A q \in Requests, i \in Jobs : q # r \/ i # "main" => job'[q][i] = job[q][i]
<1>1. slot' \in [Requests -> BOOLEAN]
  BY DEF TypeOK, SpawnReserved
<1>2. job' = [job EXCEPT ![r]["main"] = new] /\ "main" \in Jobs
  BY DEF SpawnReserved, Jobs
<1> QED
  BY ONLY <1>1, <1>2, TypeOK, r \in Requests, new \in JobType DEF TypeOK

LEMMA HandOverType ==
  ASSUME TypeOK, NEW r \in Requests, NEW c \in Amounts, NEW st \in Statuses,
         HandOver(r, c, st)
  PROVE  /\ hold' \in [Requests -> {"none", "handler", "job"}]
         /\ slot' \in [Requests -> BOOLEAN] /\ job' \in [Requests -> [Jobs -> JobType]]
<1>1. hold' \in [Requests -> {"none", "handler", "job"}]
  BY DEF TypeOK, HandOver
<1>2. SpawnReserved(r, Queued("account", c, st)) /\ Queued("account", c, st) \in JobType
  BY QueuedType DEF HandOver, Works
<1> QED
  BY <1>1, <1>2, SpawnType

LEMMA ServeType ==
  ASSUME TypeOK, NEW r \in Requests, Serve(r) PROVE TypeOK'
<1> USE QueuedType
<1>1. CASE Reserve(r)
  BY <1>1 DEF TypeOK, Reserve, Goto, money
<1>2. CASE Shed(r)
  BY <1>2 DEF TypeOK, Shed, Goto, Tell, owners, money
<1>3. CASE Refuse(r)
  BY <1>3, SlotType DEF TypeOK, Refuse, Goto, Tell, money
<1>4. CASE reserve_budget(r)
  BY <1>4 DEF TypeOK, reserve_budget, Goto, money
<1>5. CASE NotDispatched(r)
  BY <1>5, SettleType DEF TypeOK, NotDispatched, Goto
<1>6. CASE Released(r)
  BY <1>6, SlotType DEF TypeOK, Released, Goto, Tell, money
<1>7. CASE UpstreamFailed(r)
  BY <1>7, SettleType DEF TypeOK, UpstreamFailed, Goto
<1>8. CASE record_usage_terminal(r)
  <2>1. slot' \in [Requests -> BOOLEAN] /\ job' \in [Requests -> [Jobs -> JobType]]
    <3>1. Queued("record", 0, "UpstreamError") \in JobType
      BY DEF Works, Statuses
    <3>2. CASE Appends
      BY <1>8, <3>1, <3>2, SpawnType DEF record_usage_terminal
    <3>3. CASE ~Appends
      BY <1>8, <3>3 DEF record_usage_terminal, TypeOK
    <3> QED
      BY <3>2, <3>3
  <2> QED
    BY <1>8, <2>1 DEF TypeOK, record_usage_terminal, Goto, money
<1>9. CASE RecordedInline(r)
  <2>1. [status |-> "UpstreamError", cost |-> 0] \in RecordType
    BY DEF RecordType, Statuses
  <2>2. recorded' \in [Requests -> Seq(RecordType)]
    BY <1>9, <2>1, RecordAppend DEF RecordedInline
  <2> QED
    BY <1>9, <2>2, SlotType DEF TypeOK, RecordedInline, Goto, Tell
<1>10. CASE RecordedDetached(r)
  BY <1>10 DEF TypeOK, RecordedDetached, Goto, Tell, owners, money
<1>11. ASSUME NEW c \in Costs, finish(r, c) PROVE TypeOK'
  <2>1. c \in Amounts /\ "Ok" \in Statuses
    BY DEF Amounts, Statuses
  <2>2. HandOver(r, c, "Ok")
    BY <1>11 DEF finish
  <2> QED
    BY <1>11, <2>1, <2>2, HandOverType DEF TypeOK, finish, Goto, money
<1>12. CASE Verdict(r)
  BY <1>12 DEF TypeOK, Verdict, Goto, Tell, owners, money
<1>13. CASE relay_opened(r)
  BY <1>13 DEF TypeOK, relay_opened, Goto, owners, money
<1>14. CASE settle_upstream_error(r)
  <2>1. "UpstreamError" \in Statuses
    BY DEF Statuses
  <2>2. CASE settled[r]
    BY <1>14, <2>2 DEF TypeOK, settle_upstream_error, AccountingSettle, Goto, Tell, owners, money
  <2>3. CASE ~settled[r]
    <3>1. HandOver(r, 0, "UpstreamError")
      BY <1>14, <2>3 DEF settle_upstream_error, AccountingSettle
    <3> QED
      BY <1>14, <2>1, <2>3, <3>1, HandOverType
      DEF TypeOK, settle_upstream_error, AccountingSettle, Goto, Tell, money
  <2> QED
    BY <2>2, <2>3
<1>15. ASSUME NEW c \in Amounts, RelayEnds(r, c) PROVE TypeOK'
  <2>1. PICK st \in {"Ok", "UpstreamError"} : AccountingSettle(r, c, st)
    BY <1>15 DEF RelayEnds
  <2>2. st \in Statuses
    BY DEF Statuses
  <2>3. CASE settled[r]
    BY <1>15, <2>1, <2>3 DEF TypeOK, RelayEnds, AccountingSettle, Goto, owners, money
  <2>4. CASE ~settled[r]
    BY <1>15, <2>1, <2>2, <2>4, HandOverType
    DEF TypeOK, RelayEnds, AccountingSettle, Goto, money
  <2> QED
    BY <2>3, <2>4
<1> QED
  BY <1>1, <1>2, <1>3, <1>4, <1>5, <1>6, <1>7, <1>8, <1>9, <1>10, <1>11, <1>12, <1>13,
     <1>14, <1>15 DEF Serve

LEMMA LeaveType ==
  ASSUME TypeOK, NEW r \in Requests, Leave(r) PROVE TypeOK'
<1> USE QueuedType
<1>1. CASE DropHandler(r)
  <2>1. CASE hold[r] = "handler"
    <3>1. Queued("zero", 0, "Ok") \in JobType
      BY DEF Works, Statuses
    <3>2. DropArmed(r) /\ SpawnReserved(r, Queued("zero", 0, "Ok"))
      BY <1>1, <2>1 DEF DropHandler, DropArmed
    <3>3. slot' \in [Requests -> BOOLEAN] /\ job' \in [Requests -> [Jobs -> JobType]]
      BY <3>1, <3>2, SpawnType
    <3> QED
      BY <1>1, <3>2, <3>3 DEF TypeOK, DropHandler, DropArmed, Tell, money
  <2>2. CASE hold[r] # "handler"
    BY <1>1, <2>2, SlotType DEF TypeOK, DropHandler, Tell, money
  <2> QED
    BY <2>1, <2>2
<1>2. ASSUME NEW c \in Amounts, DropBody(r, c) PROVE TypeOK'
  <2>1. "ClientCancelled" \in Statuses
    BY DEF Statuses
  <2>2. CASE settled[r]
    BY <1>2, <2>2 DEF TypeOK, DropBody, AccountingSettle, Tell, owners, money
  <2>3. CASE ~settled[r]
    <3>1. HandOver(r, c, "ClientCancelled")
      BY <1>2, <2>3 DEF DropBody, AccountingSettle
    <3> QED
      BY <1>2, <2>1, <2>3, <3>1, HandOverType DEF TypeOK, DropBody, AccountingSettle, Tell, money
  <2> QED
    BY <2>2, <2>3
<1> QED
  BY <1>1, <1>2 DEF Leave

\* What the jobs of a request do.
JobAction(r, j) == Job(r, j) \/ JobDies(r, j) \/ MissQueueWait(r, j)

LEMMA JobStepType ==
  ASSUME TypeOK, NEW r \in Requests, NEW j \in Jobs, JobAction(r, j) PROVE TypeOK'
<1>0. /\ job[r][j] \in JobType /\ job[r][j].cost \in Amounts /\ job[r][j].status \in Statuses
      /\ {"running", "charged", "missed", "dropped", "done", "died"} \subseteq Stages
  BY DEF TypeOK, JobType, Stages
<1>1. CASE StartJob(r, j)
  <2>1. job' \in [Requests -> [Jobs -> JobType]]
    BY <1>0, <1>1, JobAdvance DEF StartJob, Advance
  <2> QED
    BY <1>1, <2>1 DEF TypeOK, StartJob, owners, money
<1>2. CASE JobSettle(r, j)
  <2>1. job' \in [Requests -> [Jobs -> JobType]]
    BY <1>0, <1>2, JobAdvance DEF JobSettle, Advance
  <2>2. charged' \in [Requests -> Seq(Amounts)]
    BY <1>0, <1>2, SettleType DEF JobSettle
  <2> QED
    BY <1>2, <2>1, <2>2 DEF TypeOK, JobSettle
<1>3. CASE JobRecord(r, j)
  <2>1. job' \in [Requests -> [Jobs -> JobType]]
    BY <1>0, <1>3, JobAdvance DEF JobRecord, Advance
  <2>2. [status |-> job[r][j].status, cost |-> job[r][j].cost] \in RecordType
    BY <1>0 DEF RecordType
  <2>3. recorded' \in [Requests -> Seq(RecordType)]
    BY <1>3, <2>2, RecordAppend DEF JobRecord, TypeOK
  <2> QED
    BY <1>3, <2>1, <2>3 DEF TypeOK, JobRecord, owners
<1>4. CASE ZeroDone(r, j)
  <2>1. job' \in [Requests -> [Jobs -> JobType]]
    BY <1>0, <1>4, JobAdvance DEF ZeroDone, Advance
  <2> QED
    BY <1>4, <2>1 DEF TypeOK, ZeroDone, owners, money
<1>5. CASE DropFuture(r, j)
  <2> DEFINE gone == [job EXCEPT ![r][j].stage = "dropped"]
  <2>1. gone \in [Requests -> [Jobs -> JobType]]
    BY <1>0 DEF TypeOK, JobType
  <2>2. Queued("zero", 0, "Ok") \in JobType /\ "release" \in Jobs
    BY QueuedType DEF Works, Statuses
  <2>3. \/ job' = gone
        \/ job' = [gone EXCEPT ![r]["release"] = Queued("zero", 0, "Ok")]
    BY <1>5 DEF DropFuture
  <2> HIDE DEF gone
  <2>4. job' \in [Requests -> [Jobs -> JobType]]
    BY ONLY <2>1, <2>2, <2>3, r \in Requests
  <2>5. pending' \in Nat
    BY <1>5 DEF TypeOK, DropFuture
  <2> QED
    BY <1>5, <2>4, <2>5 DEF TypeOK, DropFuture, money
<1>6. CASE JobDies(r, j)
  <2>1. job' \in [Requests -> [Jobs -> JobType]]
    BY <1>0, <1>6, JobAdvance DEF JobDies
  <2> QED
    BY <1>6, <2>1 DEF TypeOK, JobDies, owners, money
<1>7. CASE MissQueueWait(r, j)
  <2>1. job' \in [Requests -> [Jobs -> JobType]]
    BY <1>0, <1>7, JobAdvance DEF MissQueueWait, Advance
  <2> QED
    BY <1>7, <2>1 DEF TypeOK, MissQueueWait, owners, money
<1> QED
  BY <1>1, <1>2, <1>3, <1>4, <1>5, <1>6, <1>7 DEF JobAction, Job

LEMMA TypeStep == TypeOK /\ [Next]_vars => TypeOK'
<1> SUFFICES ASSUME TypeOK, [Next]_vars PROVE TypeOK'
  OBVIOUS
<1>1. ASSUME NEW r \in Requests, Serve(r) \/ Leave(r) PROVE TypeOK'
  BY <1>1, ServeType, LeaveType
<1>2. ASSUME NEW r \in Requests, NEW j \in Jobs, JobAction(r, j) PROVE TypeOK'
  BY <1>2, JobStepType
<1>3. CASE UNCHANGED vars
  BY <1>3 DEF TypeOK, vars, owners, money
<1> QED
  BY <1>1, <1>2, <1>3 DEF Next, Quiet, JobAction

-----------------------------------------------------------------------------
(* The books are kept, and every entry is one the contract allows *)

Same(q) == /\ pc'[q] = pc[q] /\ hold'[q] = hold[q] /\ job'[q] = job[q]
           /\ charged'[q] = charged[q] /\ recorded'[q] = recorded[q]
           /\ settled'[q] = settled[q]

ContractStep == [Contract!Next]_(Contract!vars)

\* A step of request r that keeps the books.
Keeps(r) == /\ \A q \in Requests : q # r => Same(q)
            /\ Books(r)' /\ ContractStep

LEMMA SameBooks ==
  ASSUME NEW q \in Requests, Books(q), Same(q) PROVE Books(q)'
  BY DEF Same, Books, OpenIsUnspent, ArmedWhileOpen, FailedIsReleased, JobInOrder,
         ReleaseLast, NoJobs, Unspent, Stage, ToCharge, ToRecord

\* A handler step that enters nothing in the books.
LEMMA PlainStep ==
  ASSUME TypeOK, NEW r \in Requests, Books(r),
         NEW p \in {"idle", "reserving", "dispatching", "releasing", "failing",
                    "recording", "finishing", "relaying", "closing", "ended"},
         NEW h \in {"none", "handler", "job"},
         pc' = [pc EXCEPT ![r] = p], hold' = [hold EXCEPT ![r] = h],
         UNCHANGED <<job, settled, charged, recorded>>,
         p \in {"idle", "reserving", "dispatching", "relaying"}
           => pc[r] \in {"idle", "reserving", "dispatching", "relaying"},
         h = "handler" => p \in {"dispatching", "relaying"},
         p = "failing" \/ (p = "recording" /\ ~Appends)
           => pc[r] = "failing" \/ (pc[r] = "recording" /\ ~Appends)
  PROVE  Keeps(r)
<1>1. \A q \in Requests : q # r => Same(q)
  BY DEF Same, TypeOK
<1>2. pc'[r] = p /\ hold'[r] = h /\ job'[r] = job[r] /\ charged'[r] = charged[r]
      /\ recorded'[r] = recorded[r] /\ settled'[r] = settled[r]
  BY DEF TypeOK
<1>3. Books(r)'
  BY <1>2 DEF Books, OpenIsUnspent, ArmedWhileOpen, FailedIsReleased, JobInOrder, ReleaseLast, NoJobs, Unspent, Stage, ToCharge, ToRecord
<1>4. ContractStep
  BY DEF ContractStep, Contract!vars
<1> QED
  BY <1>1, <1>3, <1>4 DEF Keeps

\* The handler settles zero inline.
LEMMA InlineRelease ==
  ASSUME TypeOK, NEW r \in Requests, Books(r), pc[r] = "dispatching",
         NEW p \in {"releasing", "failing"},
         pc' = [pc EXCEPT ![r] = p], hold' = [hold EXCEPT ![r] = "none"],
         Settle(r, 0), UNCHANGED <<job, settled, recorded>>
  PROVE  Keeps(r)
<1>0. NoJobs(r) /\ charged[r] = <<>> /\ recorded[r] = <<>>
  BY DEF Books, OpenIsUnspent, Unspent
<1>a. Append(<<>>, 0) = <<0>>
  OBVIOUS
<1>b. charged' = [charged EXCEPT ![r] = <<0>>]
  BY <1>0, <1>a DEF Settle, TypeOK
<1>1. \A q \in Requests : q # r => Same(q)
  BY <1>b DEF Same, TypeOK
<1>2. pc'[r] = p /\ hold'[r] = "none" /\ job'[r] = job[r] /\ charged'[r] = <<0>>
      /\ recorded'[r] = <<>>
  BY <1>0, <1>b DEF TypeOK
<1>3. Books(r)'
  BY <1>0, <1>2 DEF Books, OpenIsUnspent, ArmedWhileOpen, FailedIsReleased, JobInOrder, ReleaseLast, NoJobs, Unspent, Stage, ToCharge, ToRecord, Early
<1>4. Contract!Settle(r, 0)
  BY <1>0, <1>b DEF Contract!Settle
<1>5. ContractStep
  BY <1>4, QueuedType DEF ContractStep, Contract!Next
<1> QED
  BY <1>1, <1>3, <1>5 DEF Keeps

\* The request turns into its job.
LEMMA SpawnStep ==
  ASSUME TypeOK, NEW r \in Requests, Books(r), NoJobs(r),
         NEW p \in {"ended", "finishing", "closing", "recording"},
         NEW h \in {"none", "job"}, NEW new \in JobType,
         pc' = [pc EXCEPT ![r] = p], hold' = [hold EXCEPT ![r] = h],
         SpawnReserved(r, new), UNCHANGED money,
         \A q \in Requests : q # r => settled'[q] = settled[q],
         new.stage = "queued",
         IF new.work = "record"
         THEN charged[r] = <<new.cost>> /\ recorded[r] = <<>>
         ELSE Unspent(r),
         p = "recording" => Appends
  PROVE  Keeps(r)
<1>1. /\ job'[r]["main"] = new /\ job'[r]["release"] = job[r]["release"]
      /\ \A q \in Requests : q # r => \A i \in Jobs : job'[q][i] = job[q][i]
      /\ job' \in [Requests -> [Jobs -> JobType]]
  BY SpawnType DEF Jobs
<1>a. \A q \in Requests : q # r => job'[q] = job[q]
  BY DEF SpawnReserved, TypeOK
<1>2. \A q \in Requests : q # r => Same(q)
  BY <1>a DEF Same, TypeOK, money
<1>3. pc'[r] = p /\ hold'[r] = h /\ charged'[r] = charged[r] /\ recorded'[r] = recorded[r]
  BY DEF TypeOK, money
<1>b. job[r]["release"].stage = "none" /\ job[r]["release"].work = "zero"
  BY DEF Books, ReleaseLast, NoJobs, Stage
<1>4. Books(r)'
  BY <1>1, <1>3, <1>b DEF Books, OpenIsUnspent, ArmedWhileOpen, FailedIsReleased, JobInOrder, ReleaseLast, NoJobs, Unspent, Stage, ToCharge, ToRecord, Early
<1>5. ContractStep
  BY DEF ContractStep, Contract!vars, money
<1> QED
  BY <1>2, <1>4, <1>5 DEF Keeps

LEMMA HandOverStep ==
  ASSUME TypeOK, NEW r \in Requests, Books(r), NEW c \in Amounts, NEW st \in Statuses,
         NEW p \in {"ended", "finishing", "closing"},
         pc' = [pc EXCEPT ![r] = p], HandOver(r, c, st), UNCHANGED money,
         \A q \in Requests : q # r => settled'[q] = settled[q]
  PROVE  Keeps(r)
<1>1. NoJobs(r) /\ Unspent(r)
  BY DEF HandOver, Books, ArmedWhileOpen, OpenIsUnspent
<1>2. /\ Queued("account", c, st) \in JobType
      /\ Queued("account", c, st).stage = "queued" /\ Queued("account", c, st).work = "account"
  BY QueuedType DEF Works, Queued
<1>3. hold' = [hold EXCEPT ![r] = "job"] /\ SpawnReserved(r, Queued("account", c, st))
  BY DEF HandOver
<1> QED
  BY <1>1, <1>2, <1>3, SpawnStep

LEMMA AccountingStep ==
  ASSUME TypeOK, NEW r \in Requests, Books(r), NEW c \in Amounts, NEW st \in Statuses,
         NEW p \in {"ended", "closing"},
         pc' = [pc EXCEPT ![r] = p], AccountingSettle(r, c, st), UNCHANGED money
  PROVE  Keeps(r)
<1>1. CASE settled[r]
  <2>1. UNCHANGED <<job, settled, charged, recorded>> /\ hold' = [hold EXCEPT ![r] = hold[r]]
    BY <1>1 DEF AccountingSettle, owners, money, TypeOK
  <2>2. hold[r] \in {"none", "handler", "job"} /\ hold[r] # "handler"
    BY <1>1 DEF TypeOK, Books, ArmedWhileOpen, OpenIsUnspent
  <2> QED
    BY <1>1, <2>1, <2>2, PlainStep
<1>2. CASE ~settled[r]
  <2>1. HandOver(r, c, st) /\ settled' = [settled EXCEPT ![r] = TRUE]
    BY <1>2 DEF AccountingSettle
  <2>2. \A q \in Requests : q # r => settled'[q] = settled[q]
    BY <2>1 DEF TypeOK
  <2> QED
    BY <2>1, <2>2, HandOverStep
<1> QED
  BY <1>1, <1>2

LEMMA ServeKeeps ==
  ASSUME TypeOK, NEW r \in Requests, Books(r), Serve(r) PROVE Keeps(r)
<1> USE QueuedType
<1>0. hold[r] \in {"none", "handler", "job"} /\ hold = [hold EXCEPT ![r] = hold[r]]
  BY DEF TypeOK
<1>a. hold[r] = "handler" => pc[r] \in {"dispatching", "relaying"}
  BY DEF Books, ArmedWhileOpen
<1>1. CASE Reserve(r)
  BY <1>0, <1>1, <1>a, PlainStep DEF Reserve, Goto, money
<1>2. CASE Shed(r)
  BY <1>0, <1>2, <1>a, PlainStep DEF Shed, Goto, owners, money
<1>3. CASE Refuse(r)
  BY <1>0, <1>3, <1>a, PlainStep DEF Refuse, Goto, money
<1>4. CASE reserve_budget(r)
  BY <1>4, PlainStep DEF reserve_budget, Goto, money
<1>5. CASE NotDispatched(r)
  BY <1>5, InlineRelease DEF NotDispatched, Goto
<1>6. CASE Released(r)
  BY <1>0, <1>6, <1>a, PlainStep DEF Released, Goto, money
<1>7. CASE UpstreamFailed(r)
  BY <1>7, InlineRelease DEF UpstreamFailed, Goto
<1>8. CASE record_usage_terminal(r)
  <2>1. /\ pc[r] = "failing" /\ pc' = [pc EXCEPT ![r] = "recording"]
        /\ hold' = [hold EXCEPT ![r] = hold[r]] /\ UNCHANGED <<settled, charged, recorded>>
    BY <1>0, <1>8 DEF record_usage_terminal, Goto, money
  <2>2. NoJobs(r) /\ charged[r] = <<0>> /\ recorded[r] = <<>> /\ hold[r] # "handler"
    BY <2>1, <1>a DEF Books, FailedIsReleased
  <2>3. CASE Appends
    <3> DEFINE new == Queued("record", 0, "UpstreamError")
    <3>1. new \in JobType /\ new.stage = "queued" /\ new.work = "record" /\ new.cost = 0
      BY DEF Works, Statuses, Queued
    <3>2. SpawnReserved(r, new)
      BY <1>8, <2>3 DEF record_usage_terminal
    <3>3. hold[r] \in {"none", "job"} /\ UNCHANGED money
      BY <1>0, <2>1, <2>2 DEF money
    <3> HIDE DEF new
    <3> QED
      BY <2>1, <2>2, <2>3, <3>1, <3>2, <3>3, SpawnStep
  <2>4. CASE ~Appends
    BY <1>0, <1>8, <2>1, <2>2, <2>4, PlainStep DEF record_usage_terminal
  <2> QED
    BY <2>3, <2>4
<1>9. CASE RecordedInline(r)
  <2> DEFINE rec == [status |-> "UpstreamError", cost |-> 0]
  <2>1. /\ ~Appends /\ pc[r] = "recording" /\ pc' = [pc EXCEPT ![r] = "ended"]
        /\ recorded' = [recorded EXCEPT ![r] = Append(@, rec)]
        /\ UNCHANGED <<hold, settled, job, charged>>
    BY <1>9 DEF RecordedInline, Goto
  <2>2. NoJobs(r) /\ charged[r] = <<0>> /\ recorded[r] = <<>>
    BY <2>1 DEF Books, FailedIsReleased
  <2>3. Append(<<>>, rec) = <<rec>>
    OBVIOUS
  <2>4. recorded' = [recorded EXCEPT ![r] = <<rec>>]
    BY <2>1, <2>2, <2>3 DEF TypeOK
  <2>5. \A q \in Requests : q # r => Same(q)
    BY <2>1, <2>4 DEF Same, TypeOK
  <2>6. pc'[r] = "ended" /\ UNCHANGED <<hold, settled, job, charged>>
    BY <2>1 DEF TypeOK
  <2>7. Books(r)'
    BY <1>a, <2>1, <2>2, <2>6 DEF Books, OpenIsUnspent, ArmedWhileOpen, FailedIsReleased, JobInOrder, ReleaseLast,
      NoJobs, Unspent, Stage, ToCharge, ToRecord, Early
  <2>8. Contract!Record(r, "UpstreamError")
    <3>1. charged[r][1] = 0 /\ charged[r] # <<>>
      BY <2>2
    <3> QED
      BY <2>1, <2>2, <2>4, <3>1 DEF Contract!Record
  <2>9. ContractStep
    BY <2>8 DEF ContractStep, Contract!Next, Statuses
  <2> QED
    BY <2>5, <2>7, <2>9 DEF Keeps
<1>10. CASE RecordedDetached(r)
  BY <1>0, <1>10, <1>a, PlainStep DEF RecordedDetached, Goto, owners, money
<1>11. ASSUME NEW c \in Costs, finish(r, c) PROVE Keeps(r)
  <2>1. c \in Amounts /\ "Ok" \in Statuses
    BY DEF Amounts, Statuses
  <2> QED
    BY <1>11, <2>1, HandOverStep DEF finish, Goto
<1>12. CASE Verdict(r)
  BY <1>0, <1>12, <1>a, PlainStep DEF Verdict, Goto, owners, money
<1>13. CASE relay_opened(r)
  BY <1>0, <1>13, PlainStep DEF relay_opened, Goto, owners, money
<1>14. CASE settle_upstream_error(r)
  <2>1. "UpstreamError" \in Statuses
    BY DEF Statuses
  <2> QED
    BY <1>14, <2>1, AccountingStep DEF settle_upstream_error, Goto
<1>15. ASSUME NEW c \in Amounts, RelayEnds(r, c) PROVE Keeps(r)
  <2>1. PICK st \in {"Ok", "UpstreamError"} : AccountingSettle(r, c, st)
    BY <1>15 DEF RelayEnds
  <2>2. st \in Statuses
    BY DEF Statuses
  <2> QED
    BY <1>15, <2>1, <2>2, AccountingStep DEF RelayEnds, Goto
<1> QED
  BY <1>1, <1>2, <1>3, <1>4, <1>5, <1>6, <1>7, <1>8, <1>9, <1>10, <1>11, <1>12, <1>13,
     <1>14, <1>15 DEF Serve

LEMMA LeaveKeeps ==
  ASSUME TypeOK, NEW r \in Requests, Books(r), Leave(r) PROVE Keeps(r)
<1>0. hold[r] \in {"none", "handler", "job"} /\ hold = [hold EXCEPT ![r] = hold[r]]
  BY DEF TypeOK
<1>1. CASE DropHandler(r)
  <2>1. CASE hold[r] = "handler"
    <3> DEFINE new == Queued("zero", 0, "Ok")
    <3>1. new \in JobType /\ new.stage = "queued" /\ new.work = "zero"
      BY QueuedType DEF Works, Statuses, Queued
    <3>2. hold' = [hold EXCEPT ![r] = "none"] /\ SpawnReserved(r, new)
      BY <1>1, <2>1 DEF DropHandler, DropArmed
    <3>3. NoJobs(r) /\ Unspent(r)
      BY <2>1 DEF Books, ArmedWhileOpen, OpenIsUnspent
    <3>4. pc' = [pc EXCEPT ![r] = "ended"] /\ UNCHANGED money /\ UNCHANGED settled
      BY <1>1 DEF DropHandler
    <3> HIDE DEF new
    <3> QED
      BY <3>1, <3>2, <3>3, <3>4, SpawnStep
  <2>2. CASE hold[r] # "handler"
    BY <1>0, <1>1, <2>2, PlainStep DEF DropHandler, money
  <2> QED
    BY <2>1, <2>2
<1>2. ASSUME NEW c \in Amounts, DropBody(r, c) PROVE Keeps(r)
  <2>1. "ClientCancelled" \in Statuses
    BY DEF Statuses
  <2> QED
    BY <1>2, <2>1, AccountingStep DEF DropBody
<1> QED
  BY <1>1, <1>2 DEF Leave

\* The job of r that runs is the only one, and its request has an outcome.
LEMMA BusyJob ==
  ASSUME TypeOK, NEW r \in Requests, NEW j \in Jobs, Books(r),
         Stage(r, j) \notin {"none", "dropped"}
  PROVE  /\ j = "main" => Stage(r, "release") = "none"
         /\ j = "release" => Stage(r, "main") = "dropped" /\ job[r][j].work = "zero"
         /\ pc[r] \notin {"idle", "reserving", "dispatching", "relaying", "failing"}
         /\ ~(pc[r] = "recording" /\ ~Appends)
         /\ hold[r] # "handler" /\ JobInOrder(r, j)
  BY DEF Books, OpenIsUnspent, ArmedWhileOpen, FailedIsReleased, ReleaseLast, NoJobs, Jobs

\* A job moves on and enters nothing in the books.
LEMMA PlainJob ==
  ASSUME TypeOK, NEW r \in Requests, NEW j \in Jobs, Books(r), NEW s \in Stages,
         Stage(r, j) \notin {"none", "dropped"},
         job' = [job EXCEPT ![r][j].stage = s],
         NEW h \in {"none", "job"}, hold' = [hold EXCEPT ![r] = h],
         UNCHANGED <<pc, settled, charged, recorded>>,
         s \in Early => Stage(r, j) \in Early, s \notin {"none", "charged"}
  PROVE  Keeps(r)
<1>0. Advances(r, j, s)
  BY DEF Advances
<1>1. /\ job'[r][j].stage = s /\ job'[r][j].work = job[r][j].work
      /\ job'[r][j].cost = job[r][j].cost
      /\ \A q \in Requests, i \in Jobs : q # r \/ i # j => job'[q][i] = job[q][i]
  BY <1>0, JobMoves DEF Moved
<1>2. \A q \in Requests : q # r => Same(q)
  BY DEF Same, TypeOK
<1>3. hold'[r] = h
  BY DEF TypeOK
<1>4. Books(r)'
  <2>1. CASE j = "main"
    BY <1>1, <1>3, <2>1, BusyJob DEF Jobs, Books, OpenIsUnspent, ArmedWhileOpen, FailedIsReleased, JobInOrder, ReleaseLast,
      NoJobs, Unspent, Stage, ToCharge, ToRecord, Early
  <2>2. CASE j = "release"
    BY <1>1, <1>3, <2>2, BusyJob DEF Jobs, Books, OpenIsUnspent, ArmedWhileOpen, FailedIsReleased, JobInOrder, ReleaseLast,
      NoJobs, Unspent, Stage, ToCharge, ToRecord, Early
  <2> QED
    BY <2>1, <2>2 DEF Jobs
<1>5. ContractStep
  BY DEF ContractStep, Contract!vars
<1> QED
  BY <1>2, <1>4, <1>5 DEF Keeps

LEMMA JobKeeps ==
  ASSUME TypeOK, NEW r \in Requests, NEW j \in Jobs, Books(r), JobAction(r, j)
  PROVE  Keeps(r)
<1>0. /\ hold[r] \in {"none", "handler", "job"} /\ hold = [hold EXCEPT ![r] = hold[r]]
      /\ {"running", "charged", "missed", "dropped", "done", "died"} \subseteq Stages
      /\ job[r][j].cost \in Amounts /\ job[r][j].status \in Statuses
  BY DEF TypeOK, JobType, Stages
<1>1. CASE StartJob(r, j)
  <2>1. Stage(r, j) = "queued" /\ job' = [job EXCEPT ![r][j].stage = "running"]
    BY <1>1 DEF StartJob, Advance, Stage
  <2>2. hold[r] \in {"none", "job"}
    BY <1>0, <2>1, BusyJob
  <2> QED
    BY <1>0, <1>1, <2>1, <2>2, PlainJob DEF StartJob, owners, money, Early
<1>2. CASE JobSettle(r, j)
  <2>1. /\ Stage(r, j) = "running" /\ job' = [job EXCEPT ![r][j].stage = "charged"]
        /\ job[r][j].work # "record" /\ Settle(r, job[r][j].cost)
        /\ UNCHANGED <<pc, settled, recorded>>
        /\ hold' = [hold EXCEPT ![r] = IF job[r][j].work = "account" THEN "none" ELSE @]
    BY <1>2 DEF JobSettle, Advance, Stage
  <2>2. Unspent(r)
    BY <2>1, BusyJob DEF JobInOrder, ToCharge, Early
  <2>3. Append(<<>>, job[r][j].cost) = <<job[r][j].cost>>
    OBVIOUS
  <2>4. charged' = [charged EXCEPT ![r] = <<job[r][j].cost>>]
    BY <2>1, <2>2, <2>3 DEF Settle, Unspent, TypeOK
  <2>5. /\ job'[r][j].stage = "charged" /\ job'[r][j].work = job[r][j].work
        /\ job'[r][j].cost = job[r][j].cost
        /\ \A q \in Requests, i \in Jobs : q # r \/ i # j => job'[q][i] = job[q][i]
    <3>1. Advances(r, j, "charged") /\ "charged" \in Stages
      BY <1>0, <2>1 DEF Advances
    <3> QED
      BY ONLY TypeOK, r \in Requests, j \in Jobs, <3>1, JobMoves DEF Moved
  <2>6. \A q \in Requests : q # r => Same(q)
    BY <2>1, <2>4 DEF Same, TypeOK
  <2>7. charged'[r] = <<job[r][j].cost>> /\ recorded'[r] = <<>> /\ hold'[r] # "handler"
    BY <2>1, <2>2, <2>4, BusyJob DEF TypeOK, Unspent
  <2>8. Books(r)'
    <3>1. CASE j = "main"
      BY <2>1, <2>5, <2>7, <3>1, BusyJob DEF Jobs, Books, OpenIsUnspent, ArmedWhileOpen, FailedIsReleased, JobInOrder, ReleaseLast,
      NoJobs, Unspent, Stage, ToCharge, ToRecord, Early
    <3>2. CASE j = "release"
      BY <2>1, <2>5, <2>7, <3>2, BusyJob DEF Jobs, Books, OpenIsUnspent, ArmedWhileOpen, FailedIsReleased, JobInOrder, ReleaseLast,
      NoJobs, Unspent, Stage, ToCharge, ToRecord, Early
    <3> QED
      BY <3>1, <3>2 DEF Jobs
  <2>9. Contract!Settle(r, job[r][j].cost)
    BY <2>1, <2>2, <2>4 DEF Contract!Settle, Unspent
  <2>10. ContractStep
    BY <1>0, <2>9 DEF ContractStep, Contract!Next
  <2> QED
    BY <2>6, <2>8, <2>10 DEF Keeps
<1>3. CASE JobRecord(r, j)
  <2> DEFINE rec == [status |-> job[r][j].status, cost |-> job[r][j].cost]
  <2>1. /\ job[r][j].work # "zero" /\ job' = [job EXCEPT ![r][j].stage = "done"]
        /\ Stage(r, j) = IF job[r][j].work = "record" THEN "running" ELSE "charged"
        /\ UNCHANGED <<pc, hold, settled, charged>>
        /\ \/ recorded' = [recorded EXCEPT ![r] = Append(@, rec)]
           \/ UNCHANGED recorded
    BY <1>3 DEF JobRecord, Advance, Stage, owners
  <2>2. hold[r] \in {"none", "job"} /\ JobInOrder(r, j) /\ j = "main"
    BY <1>0, <2>1, BusyJob DEF Jobs
  <2>3. CASE UNCHANGED recorded
    <3>1. Stage(r, j) \notin {"none", "dropped"} /\ "done" \in Stages
      BY <1>0, <2>1
    <3>2. hold' = [hold EXCEPT ![r] = hold[r]]
      BY <1>0, <2>1
    <3>3. "done" \notin Early /\ "done" \notin {"none", "charged"}
      BY DEF Early
    <3>4. job' = [job EXCEPT ![r][j].stage = "done"] /\ UNCHANGED <<pc, settled, charged, recorded>>
      BY <2>1, <2>3
    <3> QED
      BY ONLY TypeOK, Books(r), r \in Requests, j \in Jobs, <2>2, <3>1, <3>2, <3>3, <3>4, PlainJob
  <2>4. CASE recorded' = [recorded EXCEPT ![r] = Append(@, rec)]
    <3>1. charged[r] = <<job[r][j].cost>> /\ recorded[r] = <<>>
      <4>1. job[r][j].work \in Works
        BY DEF TypeOK, JobType
      <4> QED
        BY <2>1, <2>2, <4>1 DEF JobInOrder, ToRecord, Early, Works
    <3>2. Append(<<>>, rec) = <<rec>>
      OBVIOUS
    <3>3. recorded' = [recorded EXCEPT ![r] = <<rec>>]
      BY <2>4, <3>1, <3>2 DEF TypeOK
    <3>4. /\ job'[r][j].stage = "done" /\ job'[r][j].work = job[r][j].work
          /\ \A q \in Requests, i \in Jobs : q # r \/ i # j => job'[q][i] = job[q][i]
      <4>1. Advances(r, j, "done") /\ "done" \in Stages
        BY <1>0, <2>1 DEF Advances
      <4> QED
        BY ONLY TypeOK, r \in Requests, j \in Jobs, <4>1, JobMoves DEF Moved
    <3>5. \A q \in Requests : q # r => Same(q)
      BY <2>1, <3>3 DEF Same, TypeOK
    <3>6. Books(r)'
      BY <2>1, <2>2, <3>4, BusyJob DEF Jobs, Books, OpenIsUnspent, ArmedWhileOpen, FailedIsReleased, JobInOrder, ReleaseLast,
      NoJobs, Unspent, Stage, ToCharge, ToRecord, Early
    <3>7. Contract!Record(r, job[r][j].status)
      <4>1. charged[r][1] = job[r][j].cost /\ charged[r] # <<>>
        BY <3>1
      <4> QED
        BY <2>1, <3>1, <3>3, <4>1 DEF Contract!Record
    <3>8. ContractStep
      BY <1>0, <3>7 DEF ContractStep, Contract!Next
    <3> QED
      BY <3>5, <3>6, <3>8 DEF Keeps
  <2> QED
    BY <2>1, <2>3, <2>4
<1>4. CASE ZeroDone(r, j)
  <2>1. Stage(r, j) = "charged" /\ job' = [job EXCEPT ![r][j].stage = "done"]
    BY <1>4 DEF ZeroDone, Advance, Stage
  <2>2. hold[r] \in {"none", "job"}
    BY <1>0, <2>1, BusyJob
  <2> QED
    BY <1>0, <1>4, <2>1, <2>2, PlainJob DEF ZeroDone, owners, money, Early
<1>5. CASE DropFuture(r, j)
  <2> DEFINE gone == [job EXCEPT ![r][j].stage = "dropped"]
             new == Queued("zero", 0, "Ok")
             h == IF job[r][j].work = "account" THEN "none" ELSE hold[r]
  <2>1. /\ Stage(r, j) = "missed" /\ UNCHANGED <<pc, settled, charged, recorded>>
        /\ hold' = [hold EXCEPT ![r] = h]
    BY <1>5 DEF DropFuture, Stage, money
  <2>2. h \in {"none", "job"}
    BY <1>0, <2>1, BusyJob
  <2>3. CASE job' = gone
    BY <1>0, <2>1, <2>2, <2>3, PlainJob DEF Early
  <2>4. CASE job[r][j].work = "account" /\ job' = [gone EXCEPT ![r]["release"] = new]
    <3>1. j = "main" /\ Unspent(r)
      BY <2>1, <2>4, BusyJob DEF Jobs, JobInOrder, ToCharge, Early
    <3>2. new.work = "zero" /\ new.stage = "queued"
      BY DEF Queued
    <3>3. job[r]["main"] \in JobType /\ "main" \in Jobs /\ "release" \in Jobs
      BY DEF TypeOK, Jobs
    <3> HIDE DEF new
    <3>4. job'[r]["release"] = new /\ job'[r]["main"].stage = "dropped"
      BY <2>4, <3>1, <3>3 DEF TypeOK, JobType
    <3>5. \A q \in Requests : q # r => job'[q] = job[q]
      BY <2>4 DEF TypeOK
    <3>6. \A q \in Requests : q # r => Same(q)
      BY <2>1, <3>5 DEF Same, TypeOK
    <3>7. hold'[r] # "handler"
      BY <2>1, <2>2 DEF TypeOK
    <3>8. Books(r)'
      BY <2>1, <3>1, <3>2, <3>4, <3>7, BusyJob DEF Jobs, Books, OpenIsUnspent, ArmedWhileOpen, FailedIsReleased, JobInOrder, ReleaseLast,
      NoJobs, Unspent, Stage, ToCharge, ToRecord, Early
    <3>9. ContractStep
      BY <2>1 DEF ContractStep, Contract!vars
    <3> QED
      BY <3>6, <3>8, <3>9 DEF Keeps
  <2> QED
    BY <1>5, <2>3, <2>4 DEF DropFuture
<1>6. CASE JobDies(r, j)
  <2>1. Stage(r, j) \in {"charged", "running"} /\ job' = [job EXCEPT ![r][j].stage = "died"]
    BY <1>6 DEF JobDies, Stage
  <2>2. hold[r] \in {"none", "job"}
    BY <1>0, <2>1, BusyJob
  <2> QED
    BY <1>0, <1>6, <2>1, <2>2, PlainJob DEF JobDies, owners, money, Early
<1>7. CASE MissQueueWait(r, j)
  <2>1. Stage(r, j) = "queued" /\ job' = [job EXCEPT ![r][j].stage = "missed"]
    BY <1>7 DEF MissQueueWait, Advance, Stage
  <2>2. hold[r] \in {"none", "job"}
    BY <1>0, <2>1, BusyJob
  <2> QED
    BY <1>0, <1>7, <2>1, <2>2, PlainJob DEF MissQueueWait, owners, money, Early
<1> QED
  BY <1>1, <1>2, <1>3, <1>4, <1>5, <1>6, <1>7 DEF JobAction, Job

-----------------------------------------------------------------------------

LEMMA InitIInv == Init => IInv
<1> SUFFICES ASSUME Init PROVE IInv
  OBVIOUS
<1>1. NoJob \in JobType
  BY DEF NoJob, JobType, Stages, Works, Amounts, Statuses
<1>2. TypeOK
  BY <1>1, AccountingAssumption DEF Init, TypeOK
<1>3. ASSUME NEW r \in Requests PROVE Books(r)
  <2>1. job[r]["main"] = NoJob /\ job[r]["release"] = NoJob
    BY DEF Init, Jobs
  <2>2. NoJob.stage = "none" /\ NoJob.work = "zero"
    BY DEF NoJob
  <2> QED
    BY <2>1, <2>2 DEF Init, Books, OpenIsUnspent, ArmedWhileOpen, FailedIsReleased, JobInOrder, ReleaseLast,
      NoJobs, Unspent, Stage, ToCharge, ToRecord, Early
<1> QED
  BY <1>2, <1>3 DEF IInv

LEMMA BooksStep == IInv /\ [Next]_vars => IInv' /\ ContractStep
<1> SUFFICES ASSUME IInv, [Next]_vars PROVE IInv' /\ ContractStep
  OBVIOUS
<1>0. TypeOK /\ TypeOK' /\ \A q \in Requests : Books(q)
  BY TypeStep DEF IInv
<1>1. ASSUME NEW r \in Requests, Keeps(r) PROVE IInv' /\ ContractStep
  <2>1. ASSUME NEW q \in Requests PROVE Books(q)'
    BY <1>0, <1>1, SameBooks DEF Keeps
  <2> QED
    BY <1>0, <1>1, <2>1 DEF IInv, Keeps
<1>2. ASSUME NEW r \in Requests, Serve(r) \/ Leave(r) PROVE IInv' /\ ContractStep
  BY <1>0, <1>1, <1>2, ServeKeeps, LeaveKeeps
<1>3. ASSUME NEW r \in Requests, NEW j \in Jobs, JobAction(r, j) PROVE IInv' /\ ContractStep
  BY <1>0, <1>1, <1>3, JobKeeps
<1>4. CASE UNCHANGED vars
  <2>1. \A q \in Requests : Same(q)
    BY <1>4 DEF vars, owners, money, Same
  <2>2. \A q \in Requests : Books(q)'
    BY <1>0, <2>1, SameBooks
  <2>3. ContractStep
    BY <1>4 DEF vars, money, ContractStep, Contract!vars
  <2> QED
    BY <1>0, <2>2, <2>3 DEF IInv
<1> QED
  BY <1>2, <1>3, <1>4 DEF Next, Quiet, JobAction

\* The books of every request are in order in every state.
THEOREM BooksInvariant == Spec => []IInv
  BY InitIInv, BooksStep, PTL DEF Spec

\* The variables keep their types.
THEOREM AccountingTypeCorrect == Spec => []TypeOK
  BY BooksInvariant, PTL DEF IInv

\* On every path of serve, of the relay and of their cancellations, a request
\* is charged at most once and recorded at most once, and a record is made
\* after the charge and for the amount charged.
THEOREM ContractTheorem == Spec => ImplementsContract
<1>1. Init => Contract!Init
  BY DEF Init, Contract!Init
<1>2. IInv /\ [Next]_vars => [Contract!Next]_(Contract!vars)
  BY BooksStep DEF ContractStep
<1>3. Spec => Contract!Spec
  BY <1>1, <1>2, BooksInvariant, PTL DEF Spec, Contract!Spec
<1> QED
  BY <1>3 DEF ImplementsContract

-----------------------------------------------------------------------------
(* Units of settlement capacity are neither lost nor made *)

\* A request holds its reservation from Reserve to the step that turns it into
\* a job or drops it, and while it does it has no job.
Owns(r) ==
  /\ pc[r] = "idle" => ~slot[r]
  /\ pc[r] = "reserving" \/ hold[r] = "handler" => slot[r]
  /\ slot[r] => NoJobs(r)

LiveStages == {"queued", "running", "charged"}
Slots == {r \in Requests : slot[r]}
Live == {x \in Requests \X Jobs : job[x[1]][x[2]].stage \in LiveStages}

\* Every unit of capacity is free, in a slot or in a live job.
Counted == /\ IsFiniteSet(Slots) /\ IsFiniteSet(Live)
           /\ pending + Cardinality(Slots) + Cardinality(Live) = MaxPending

CapacityInv == Counted /\ \A r \in Requests : Owns(r)

\* How one step moves a unit: it stays, is reserved, given back, spent on the
\* job of the request, returned by a job, or taken by the fallback release.
Unmoved == Slots' = Slots /\ Live' = Live /\ pending' = pending
Taken == \E r : /\ r \notin Slots /\ Slots' = Slots \cup {r} /\ Live' = Live
                /\ pending > 0 /\ pending' = pending - 1
GivenBack == \E r \in Slots : /\ Slots' = Slots \ {r} /\ Live' = Live
                              /\ pending' = pending + 1
Spent == \E r \in Slots : \E x : /\ x \notin Live /\ Slots' = Slots \ {r}
                                 /\ Live' = Live \cup {x} /\ pending' = pending
Returned == \E x \in Live : /\ Slots' = Slots /\ Live' = Live \ {x}
                            /\ pending' = pending + 1
Retaken == \E x : /\ x \notin Live /\ Slots' = Slots /\ Live' = Live \cup {x}
                  /\ pending > 0 /\ pending' = pending - 1
UnitMoves == Unmoved \/ Taken \/ GivenBack \/ Spent \/ Returned \/ Retaken

LEMMA AddOne ==
  ASSUME NEW S, IsFiniteSet(S), NEW x, x \notin S
  PROVE  /\ IsFiniteSet(S \cup {x}) /\ Cardinality(S) \in Nat
         /\ Cardinality(S \cup {x}) = Cardinality(S) + 1
  BY FS_AddElement, FS_CardinalityType

LEMMA RemoveOne ==
  ASSUME NEW S, IsFiniteSet(S), NEW x \in S
  PROVE  /\ IsFiniteSet(S \ {x}) /\ Cardinality(S) \in Nat /\ Cardinality(S \ {x}) \in Nat
         /\ Cardinality(S \ {x}) = Cardinality(S) - 1
  BY FS_RemoveElement, FS_CardinalityType

LEMMA CountedStep ==
  ASSUME pending \in Nat, Counted, UnitMoves PROVE Counted'
<1> USE AccountingAssumption
<1>0. /\ IsFiniteSet(Slots) /\ IsFiniteSet(Live) /\ pending \in Nat /\ MaxPending \in Nat
      /\ Cardinality(Slots) \in Nat /\ Cardinality(Live) \in Nat
      /\ pending + Cardinality(Slots) + Cardinality(Live) = MaxPending
  BY FS_CardinalityType DEF Counted
<1>1. CASE Unmoved
  BY <1>0, <1>1 DEF Unmoved, Counted
<1>2. CASE Taken
  BY <1>0, <1>2, AddOne DEF Taken, Counted
<1>3. CASE GivenBack
  BY <1>0, <1>3, RemoveOne DEF GivenBack, Counted
<1>4. CASE Spent
  <2>0. PICK r \in Slots :
          \E x : /\ x \notin Live /\ Slots' = Slots \ {r}
                 /\ Live' = Live \cup {x} /\ pending' = pending
    BY <1>4 DEF Spent
  <2>1. PICK x : /\ x \notin Live /\ Slots' = Slots \ {r}
                 /\ Live' = Live \cup {x} /\ pending' = pending
    BY <2>0
  <2>2. IsFiniteSet(Slots') /\ Cardinality(Slots') = Cardinality(Slots) - 1
    BY <1>0, <2>1, RemoveOne
  <2>3. IsFiniteSet(Live') /\ Cardinality(Live') = Cardinality(Live) + 1
    BY <1>0, <2>1, AddOne
  <2> QED
    BY <1>0, <2>1, <2>2, <2>3 DEF Counted
<1>5. CASE Returned
  BY <1>0, <1>5, RemoveOne DEF Returned, Counted
<1>6. CASE Retaken
  <2>1. PICK x : /\ x \notin Live /\ Slots' = Slots /\ Live' = Live \cup {x}
                 /\ pending > 0 /\ pending' = pending - 1
    BY <1>6 DEF Retaken
  <2>2. IsFiniteSet(Live') /\ Cardinality(Live') = Cardinality(Live) + 1
    BY <1>0, <2>1, AddOne
  <2> QED
    BY <1>0, <2>1, <2>2 DEF Counted
<1> QED
  BY <1>1, <1>2, <1>3, <1>4, <1>5, <1>6 DEF UnitMoves

LEMMA SlotFreed ==
  ASSUME TypeOK, NEW r \in Requests, slot' = [slot EXCEPT ![r] = FALSE]
  PROVE  /\ Slots' = Slots \ {r} /\ ~slot'[r]
         /\ \A q \in Requests : q # r => slot'[q] = slot[q]
  BY DEF TypeOK, Slots

LEMMA SameLive == job' = job => Live' = Live
  BY DEF Live

\* A job that becomes live, ceases to be, or stays what it was.
LEMMA LiveChange ==
  ASSUME NEW r \in Requests, NEW j \in Jobs,
         \A q \in Requests, i \in Jobs : q # r \/ i # j => job'[q][i] = job[q][i]
  PROVE  /\ job[r][j].stage \notin LiveStages /\ job'[r][j].stage \in LiveStages
              => <<r, j>> \notin Live /\ Live' = Live \cup {<<r, j>>}
         /\ job[r][j].stage \in LiveStages /\ job'[r][j].stage \notin LiveStages
              => <<r, j>> \in Live /\ Live' = Live \ {<<r, j>>}
         /\ (job[r][j].stage \in LiveStages) = (job'[r][j].stage \in LiveStages)
              => Live' = Live
<1> DEFINE In(x) == job[x[1]][x[2]].stage \in LiveStages
           InP(x) == job'[x[1]][x[2]].stage \in LiveStages
           here == <<r, j>>
<1>1. here \in Requests \X Jobs /\ here[1] = r /\ here[2] = j
  OBVIOUS
<1>2. ASSUME NEW x \in Requests \X Jobs, x # here PROVE In(x) <=> InP(x)
  <2>1. x[1] \in Requests /\ x[2] \in Jobs /\ (x[1] # r \/ x[2] # j)
    BY <1>2
  <2> QED
    BY <2>1
<1>3. /\ Live = {x \in Requests \X Jobs : In(x)}
      /\ Live' = {x \in Requests \X Jobs : InP(x)}
      /\ In(here) <=> job[r][j].stage \in LiveStages
      /\ InP(here) <=> job'[r][j].stage \in LiveStages
  BY <1>1 DEF Live, LiveStages
<1> HIDE DEF In, InP, here
<1>4. /\ ~In(here) /\ InP(here) => here \notin Live /\ Live' = Live \cup {here}
      /\ In(here) /\ ~InP(here) => here \in Live /\ Live' = Live \ {here}
      /\ (In(here) <=> InP(here)) => Live' = Live
  BY <1>1, <1>2, <1>3
<1> QED
  BY <1>3, <1>4 DEF here

\* A step of request r keeps every unit owned.
Conserves(r) == /\ \A q \in Requests : q # r => slot'[q] = slot[q]
                /\ Owns(r)' /\ UnitMoves

LEMMA PlainOwns ==
  ASSUME TypeOK, NEW r \in Requests, Owns(r), UNCHANGED <<slot, job, pending>>,
         pc'[r] \notin {"idle", "reserving"}, hold'[r] = "handler" => slot[r]
  PROVE  Conserves(r)
<1>1. Unmoved
  BY DEF Unmoved, Slots, Live
<1>2. Owns(r)'
  BY DEF Owns, NoJobs, Stage
<1> QED
  BY <1>1, <1>2 DEF Conserves, UnitMoves

LEMMA DropOwns ==
  ASSUME TypeOK, NEW r \in Requests, Owns(r), DropSlot(r), UNCHANGED job,
         pc'[r] = "ended", hold'[r] # "handler"
  PROVE  Conserves(r)
<1>1. /\ Slots' = Slots \ {r} /\ ~slot'[r]
      /\ \A q \in Requests : q # r => slot'[q] = slot[q]
  BY SlotFreed DEF DropSlot
<1>2. Owns(r)'
  BY <1>1 DEF Owns
<1>3. Live' = Live
  BY SameLive
<1>4. CASE slot[r]
  <2>1. GivenBack
    BY <1>1, <1>3, <1>4 DEF GivenBack, DropSlot, Slots
  <2> QED
    BY <1>1, <1>2, <2>1 DEF Conserves, UnitMoves
<1>5. CASE ~slot[r]
  <2>1. Unmoved
    BY <1>1, <1>3, <1>5 DEF Unmoved, DropSlot, Slots
  <2> QED
    BY <1>1, <1>2, <2>1 DEF Conserves, UnitMoves
<1> QED
  BY <1>4, <1>5

LEMMA SpawnOwns ==
  ASSUME TypeOK, NEW r \in Requests, Owns(r), NEW new \in JobType, new.stage = "queued",
         SpawnReserved(r, new), pending' = pending,
         pc'[r] \notin {"idle", "reserving"}, hold'[r] # "handler"
  PROVE  Conserves(r)
<1>1. /\ slot[r] /\ Slots' = Slots \ {r} /\ ~slot'[r]
      /\ \A q \in Requests : q # r => slot'[q] = slot[q]
  BY SlotFreed DEF SpawnReserved
<1>2. /\ job'[r]["main"] = new /\ "main" \in Jobs
      /\ \A q \in Requests, i \in Jobs : q # r \/ i # "main" => job'[q][i] = job[q][i]
  BY SpawnType, QueuedType
<1>3. job[r]["main"].stage = "none"
  BY <1>1 DEF Owns, NoJobs, Stage
<1>4. <<r, "main">> \notin Live /\ Live' = Live \cup {<<r, "main">>}
  BY <1>2, <1>3, LiveChange DEF LiveStages
<1>5. Spent
  BY <1>1, <1>4 DEF Spent, Slots
<1>6. Owns(r)'
  BY <1>1 DEF Owns
<1> QED
  BY <1>1, <1>5, <1>6 DEF Conserves, UnitMoves

LEMMA HandOverOwns ==
  ASSUME TypeOK, NEW r \in Requests, Owns(r), NEW c \in Amounts, NEW st \in Statuses,
         HandOver(r, c, st), pending' = pending, pc'[r] \notin {"idle", "reserving"}
  PROVE  Conserves(r)
<1>1. /\ Queued("account", c, st) \in JobType /\ Queued("account", c, st).stage = "queued"
      /\ SpawnReserved(r, Queued("account", c, st)) /\ hold'[r] = "job"
  BY QueuedType DEF Works, Queued, HandOver, TypeOK
<1> QED
  BY <1>1, SpawnOwns

LEMMA AccountingOwns ==
  ASSUME TypeOK, NEW r \in Requests, Books(r), Owns(r), NEW c \in Amounts, NEW st \in Statuses,
         AccountingSettle(r, c, st), pending' = pending, pc'[r] \notin {"idle", "reserving"}
  PROVE  Conserves(r)
<1>1. CASE settled[r]
  <2>1. UNCHANGED <<slot, job, pending>> /\ (hold'[r] = "handler" => slot[r])
    BY <1>1 DEF AccountingSettle, owners, Owns
  <2> QED
    BY <2>1, PlainOwns
<1>2. CASE ~settled[r]
  BY <1>2, HandOverOwns DEF AccountingSettle
<1> QED
  BY <1>1, <1>2

LEMMA ServeOwns ==
  ASSUME TypeOK, NEW r \in Requests, Books(r), Owns(r), Serve(r) PROVE Conserves(r)
<1>a. hold[r] = "handler" => slot[r] /\ pc[r] \in {"dispatching", "relaying"}
  BY DEF Books, ArmedWhileOpen, Owns
<1>1. CASE Reserve(r)
  <2>1. /\ ~slot[r] /\ NoJobs(r) /\ slot' = [slot EXCEPT ![r] = TRUE] /\ UNCHANGED job
        /\ pending > 0 /\ pending' = pending - 1 /\ pc'[r] = "reserving"
    BY <1>1 DEF Reserve, Goto, Owns, Books, OpenIsUnspent, TypeOK
  <2>2. /\ r \notin Slots /\ Slots' = Slots \cup {r} /\ slot'[r]
        /\ \A q \in Requests : q # r => slot'[q] = slot[q]
    BY <2>1 DEF Slots, TypeOK
  <2>3. Taken
    BY <2>1, <2>2, SameLive DEF Taken
  <2>4. Owns(r)'
    BY <2>1, <2>2 DEF Owns, NoJobs, Stage
  <2> QED
    BY <2>2, <2>3, <2>4 DEF Conserves, UnitMoves
<1>2. CASE Shed(r)
  BY <1>2, <1>a, PlainOwns DEF Shed, Goto, owners, TypeOK
<1>3. CASE Refuse(r)
  BY <1>3, <1>a, DropOwns DEF Refuse, Goto, TypeOK
<1>4. CASE reserve_budget(r)
  <2>1. slot[r] /\ pc'[r] = "dispatching" /\ UNCHANGED <<slot, job, pending>>
    BY <1>4 DEF reserve_budget, Goto, TypeOK, Owns
  <2> QED
    BY <2>1, PlainOwns
<1>5. CASE NotDispatched(r)
  BY <1>5, <1>a, PlainOwns DEF NotDispatched, Goto, TypeOK
<1>6. CASE Released(r)
  BY <1>6, <1>a, DropOwns DEF Released, Goto, TypeOK
<1>7. CASE UpstreamFailed(r)
  BY <1>7, <1>a, PlainOwns DEF UpstreamFailed, Goto, TypeOK
<1>8. CASE record_usage_terminal(r)
  <2>1. pc[r] = "failing" /\ pc'[r] = "recording" /\ UNCHANGED <<hold, pending>>
    BY <1>8 DEF record_usage_terminal, Goto, TypeOK
  <2>2. CASE Appends
    <3> DEFINE new == Queued("record", 0, "UpstreamError")
    <3>1. new \in JobType /\ new.stage = "queued"
      BY QueuedType DEF Works, Statuses, Queued
    <3>2. SpawnReserved(r, new)
      BY <1>8, <2>2 DEF record_usage_terminal
    <3> HIDE DEF new
    <3> QED
      BY <1>a, <2>1, <3>1, <3>2, SpawnOwns
  <2>3. CASE ~Appends
    BY <1>8, <1>a, <2>1, <2>3, PlainOwns DEF record_usage_terminal
  <2> QED
    BY <2>2, <2>3
<1>9. CASE RecordedInline(r)
  BY <1>9, <1>a, DropOwns DEF RecordedInline, Goto, TypeOK
<1>10. CASE RecordedDetached(r)
  BY <1>10, <1>a, PlainOwns DEF RecordedDetached, Goto, owners, TypeOK
<1>11. ASSUME NEW c \in Costs, finish(r, c) PROVE Conserves(r)
  <2>1. c \in Amounts /\ "Ok" \in Statuses /\ pc'[r] = "finishing" /\ pending' = pending
    BY <1>11 DEF Amounts, Statuses, finish, Goto, TypeOK
  <2> QED
    BY <1>11, <2>1, HandOverOwns DEF finish
<1>12. CASE Verdict(r)
  BY <1>12, <1>a, PlainOwns DEF Verdict, Goto, owners, TypeOK
<1>13. CASE relay_opened(r)
  BY <1>13, <1>a, PlainOwns DEF relay_opened, Goto, owners, TypeOK
<1>14. CASE settle_upstream_error(r)
  <2>1. /\ "UpstreamError" \in Statuses /\ 0 \in Amounts /\ pc'[r] = "ended"
        /\ pending' = pending /\ AccountingSettle(r, 0, "UpstreamError")
    BY <1>14 DEF Amounts, Statuses, settle_upstream_error, Goto, TypeOK
  <2> QED
    BY <2>1, AccountingOwns
<1>15. ASSUME NEW c \in Amounts, RelayEnds(r, c) PROVE Conserves(r)
  <2>1. PICK st \in {"Ok", "UpstreamError"} : AccountingSettle(r, c, st)
    BY <1>15 DEF RelayEnds
  <2>2. st \in Statuses /\ pc'[r] = "closing" /\ pending' = pending
    BY <1>15 DEF Statuses, RelayEnds, Goto, TypeOK
  <2> QED
    BY <2>1, <2>2, AccountingOwns
<1> QED
  BY <1>1, <1>2, <1>3, <1>4, <1>5, <1>6, <1>7, <1>8, <1>9, <1>10, <1>11, <1>12, <1>13,
     <1>14, <1>15 DEF Serve

LEMMA LeaveOwns ==
  ASSUME TypeOK, NEW r \in Requests, Books(r), Owns(r), Leave(r) PROVE Conserves(r)
<1>1. CASE DropHandler(r)
  <2>1. pc'[r] = "ended"
    BY <1>1 DEF DropHandler, TypeOK
  <2>2. CASE hold[r] = "handler"
    <3> DEFINE new == Queued("zero", 0, "Ok")
    <3>1. new \in JobType /\ new.stage = "queued"
      BY QueuedType DEF Works, Statuses, Queued
    <3>2. hold'[r] = "none" /\ SpawnReserved(r, new) /\ pending' = pending
      BY <1>1, <2>2 DEF DropHandler, DropArmed, TypeOK
    <3> HIDE DEF new
    <3> QED
      BY <2>1, <3>1, <3>2, SpawnOwns
  <2>3. CASE hold[r] # "handler"
    BY <1>1, <2>1, <2>3, DropOwns DEF DropHandler
  <2> QED
    BY <2>2, <2>3
<1>2. ASSUME NEW c \in Amounts, DropBody(r, c) PROVE Conserves(r)
  <2>1. "ClientCancelled" \in Statuses /\ pc'[r] = "ended" /\ pending' = pending
    BY <1>2 DEF Statuses, DropBody, TypeOK
  <2> QED
    BY <1>2, <2>1, AccountingOwns DEF DropBody
<1> QED
  BY <1>1, <1>2 DEF Leave

\* A job that moves on holds no slot, and its request is past reserving.
LEMMA JobMoveOwns ==
  ASSUME TypeOK, NEW r \in Requests, NEW j \in Jobs, Books(r), Owns(r), NEW s \in Stages,
         Stage(r, j) \notin {"none", "dropped"}, Advances(r, j, s),
         UNCHANGED <<pc, slot>>, hold'[r] # "handler",
         IF Stage(r, j) \in LiveStages /\ s \notin LiveStages
         THEN pending' = pending + 1
         ELSE (Stage(r, j) \in LiveStages) = (s \in LiveStages) /\ pending' = pending
  PROVE  Conserves(r)
<1>1. /\ ~slot[r] /\ ~slot'[r] /\ pc'[r] \notin {"idle", "reserving"}
  BY BusyJob DEF Owns, NoJobs, Jobs
<1>2. Owns(r)'
  BY <1>1 DEF Owns
<1>3. /\ job'[r][j].stage = s
      /\ \A q \in Requests, i \in Jobs : q # r \/ i # j => job'[q][i] = job[q][i]
  BY JobMoves DEF Moved
<1>4. Slots' = Slots
  BY DEF Slots
<1>5. Returned \/ Unmoved
  BY <1>3, <1>4, LiveChange DEF Returned, Unmoved, Stage
<1> QED
  BY <1>2, <1>5 DEF Conserves, UnitMoves

LEMMA JobOwns ==
  ASSUME TypeOK, NEW r \in Requests, NEW j \in Jobs, Books(r), Owns(r), JobAction(r, j)
  PROVE  Conserves(r)
<1>0. /\ hold[r] = "handler" => Stage(r, j) \in {"none", "dropped"}
      /\ {"running", "charged", "missed", "dropped", "done", "died"} \subseteq Stages
  BY BusyJob DEF Stages
<1>1. CASE StartJob(r, j)
  <2>1. /\ Stage(r, j) = "queued" /\ Advances(r, j, "running")
        /\ UNCHANGED <<pc, slot, hold, pending>>
    BY <1>1 DEF StartJob, Advance, Stage, Advances, owners
  <2> QED
    BY <1>0, <2>1, JobMoveOwns DEF LiveStages
<1>2. CASE JobSettle(r, j)
  <2>1. /\ Stage(r, j) = "running" /\ Advances(r, j, "charged")
        /\ UNCHANGED <<pc, slot, pending>> /\ hold'[r] \in {hold[r], "none"}
    BY <1>2 DEF JobSettle, Advance, Stage, Advances, TypeOK
  <2> QED
    BY <1>0, <2>1, JobMoveOwns DEF LiveStages
<1>3. CASE JobRecord(r, j) \/ ZeroDone(r, j) \/ JobDies(r, j) \/ MissQueueWait(r, j)
  <2>1. /\ Stage(r, j) \in LiveStages /\ UNCHANGED <<pc, slot, hold>> /\ pending' = pending + 1
        /\ Advances(r, j, "done") \/ Advances(r, j, "died") \/ Advances(r, j, "missed")
    BY <1>3 DEF JobRecord, ZeroDone, JobDies, MissQueueWait, Advance, Stage, Advances, owners,
                LiveStages
  <2> QED
    BY <1>0, <2>1, JobMoveOwns DEF LiveStages
<1>4. CASE DropFuture(r, j)
  <2>1. /\ Stage(r, j) = "missed" /\ UNCHANGED <<pc, slot>> /\ hold'[r] \in {hold[r], "none"}
    BY <1>4 DEF DropFuture, Stage, TypeOK
  <2>2. CASE Advances(r, j, "dropped") /\ pending' = pending
    BY <1>0, <2>1, <2>2, JobMoveOwns DEF LiveStages
  <2>3. CASE /\ job[r][j].work = "account" /\ pending > 0 /\ pending' = pending - 1
             /\ job' = [[job EXCEPT ![r][j].stage = "dropped"]
                          EXCEPT ![r]["release"] = Queued("zero", 0, "Ok")]
    <3>1. j = "main" /\ Stage(r, "release") = "none"
      BY <2>1, <2>3, BusyJob DEF Jobs
    <3>2. /\ Queued("zero", 0, "Ok").stage = "queued" /\ "main" \in Jobs /\ "release" \in Jobs
          /\ job[r]["main"] \in JobType
      BY DEF Queued, Jobs, TypeOK
    <3> DEFINE new == Queued("zero", 0, "Ok")
               gone == [job EXCEPT ![r]["main"].stage = "dropped"]
    <3>3. /\ gone \in [Requests -> [Jobs -> JobType]] /\ gone[r]["main"].stage = "dropped"
          /\ \A q \in Requests, i \in Jobs : q # r \/ i # "main" => gone[q][i] = job[q][i]
      BY <3>2 DEF TypeOK, JobType, Stages
    <3>a. job' = [gone EXCEPT ![r]["release"] = new] /\ new.stage = "queued"
      BY <2>3, <3>1, <3>2
    <3> HIDE DEF new, gone
    <3>4. /\ job'[r]["release"].stage = "queued" /\ job'[r]["main"].stage = "dropped"
          /\ \A q \in Requests, i \in Jobs : q # r => job'[q][i] = job[q][i]
      BY <3>2, <3>3, <3>a
    <3>5. /\ gone[r]["main"].stage \notin LiveStages /\ job[r]["main"].stage \notin LiveStages
          /\ gone[r]["release"].stage \notin LiveStages
          /\ job'[r]["release"].stage \in LiveStages
      BY <2>1, <3>1, <3>2, <3>3, <3>4 DEF Stage, LiveStages
    <3>6. <<r, "release">> \notin Live /\ Live' = Live \cup {<<r, "release">>}
      <4>1. ASSUME NEW q \in Requests, NEW i \in Jobs, ~(q = r /\ i = "release")
            PROVE  job'[q][i].stage \in LiveStages <=> job[q][i].stage \in LiveStages
        <5>1. CASE q # r
          BY <3>4, <5>1
        <5>2. CASE q = r /\ i = "main"
          BY <3>4, <3>5, <5>2 DEF LiveStages
        <5> QED
          BY <4>1, <5>1, <5>2 DEF Jobs
      <4> DEFINE here == <<r, "release">>
      <4>2. /\ here \in Requests \X Jobs /\ job[here[1]][here[2]].stage \notin LiveStages
            /\ job'[here[1]][here[2]].stage \in LiveStages
        BY <3>1, <3>2, <3>4, <3>5 DEF Stage, LiveStages
      <4>3. ASSUME NEW x \in Requests \X Jobs, x # here
            PROVE  job'[x[1]][x[2]].stage \in LiveStages <=> job[x[1]][x[2]].stage \in LiveStages
        <5>1. x[1] \in Requests /\ x[2] \in Jobs /\ ~(x[1] = r /\ x[2] = "release")
          BY <4>3
        <5> QED
          BY <4>1, <5>1
      <4> HIDE DEF here
      <4>4. here \notin Live /\ Live' = Live \cup {here}
        BY ONLY <4>2, <4>3 DEF Live
      <4> QED
        BY <4>4 DEF here
    <3>7. Slots' = Slots
      BY <2>1 DEF Slots
    <3>8. Retaken
      BY <2>3, <3>6, <3>7 DEF Retaken
    <3>9. ~slot'[r] /\ pc'[r] \notin {"idle", "reserving"} /\ hold'[r] # "handler"
      BY <1>0, <2>1, <3>1, BusyJob DEF Owns, NoJobs
    <3>10. Owns(r)'
      BY <3>9 DEF Owns
    <3> QED
      BY <2>1, <3>8, <3>10 DEF Conserves, UnitMoves
  <2> QED
    BY <1>4, <2>2, <2>3 DEF DropFuture, Advances
<1> QED
  BY <1>1, <1>2, <1>3, <1>4 DEF JobAction, Job

LEMMA InitCapacity == Init => CapacityInv
<1> SUFFICES ASSUME Init PROVE CapacityInv
  OBVIOUS
<1>1. \A r \in Requests : Owns(r)
  BY DEF Init, Owns
<1>2. \A r \in Requests, j \in Jobs : job[r][j].stage = "none"
  BY DEF Init, NoJob
<1>3. Slots = {} /\ Live = {}
  BY <1>2 DEF Init, Slots, Live, LiveStages
<1>4. pending = MaxPending /\ MaxPending \in Nat
  BY AccountingAssumption DEF Init
<1> QED
  BY <1>1, <1>3, <1>4, FS_EmptySet DEF CapacityInv, Counted

LEMMA CapacityStep == IInv /\ CapacityInv /\ [Next]_vars => CapacityInv'
<1> SUFFICES ASSUME IInv, CapacityInv, [Next]_vars PROVE CapacityInv'
  OBVIOUS
<1>0. TypeOK /\ pending \in Nat /\ \A q \in Requests : Books(q) /\ Owns(q)
  BY DEF IInv, TypeOK, CapacityInv
<1>1. ASSUME NEW r \in Requests, Keeps(r), Conserves(r) PROVE CapacityInv'
  <2>1. ASSUME NEW q \in Requests PROVE Owns(q)'
    <3>1. CASE q = r
      BY <1>1, <3>1 DEF Conserves
    <3>2. CASE q # r
      <4>1. Same(q) /\ slot'[q] = slot[q] /\ Owns(q)
        BY <1>0, <1>1, <3>2 DEF Keeps, Conserves
      <4> QED
        BY <4>1 DEF Same, Owns, NoJobs, Stage
    <3> QED
      BY <3>1, <3>2
  <2>2. Counted'
    BY <1>0, <1>1, CountedStep DEF Conserves, CapacityInv
  <2> QED
    BY <2>1, <2>2 DEF CapacityInv
<1>2. ASSUME NEW r \in Requests, Serve(r) \/ Leave(r) PROVE CapacityInv'
  BY <1>0, <1>1, <1>2, ServeKeeps, LeaveKeeps, ServeOwns, LeaveOwns
<1>3. ASSUME NEW r \in Requests, NEW j \in Jobs, JobAction(r, j) PROVE CapacityInv'
  BY <1>0, <1>1, <1>3, JobKeeps, JobOwns
<1>4. CASE UNCHANGED vars
  BY <1>4 DEF vars, owners, CapacityInv, Counted, Slots, Live, Owns, NoJobs, Stage
<1> QED
  BY <1>2, <1>3, <1>4 DEF Next, Quiet, JobAction

\* Each admitted request owns its unit of settlement capacity until it has
\* become its one job, and no path of serve, of the relay or of a job returns
\* a unit twice or keeps it.
THEOREM CapacityTheorem == Spec => []CapacityOwned
<1>1. IInv /\ CapacityInv => CapacityOwned
  <2> SUFFICES ASSUME IInv, CapacityInv PROVE CapacityOwned
    OBVIOUS
  <2>1. /\ OwnedUnits = Cardinality(Slots) + Cardinality(Live)
        /\ pending \in Nat /\ Cardinality(Slots) \in Nat /\ Cardinality(Live) \in Nat
    BY FS_CardinalityType DEF OwnedUnits, Slots, Live, LiveStages, CapacityInv, Counted,
                              IInv, TypeOK
  <2>2. pending + OwnedUnits = MaxPending
    BY <2>1 DEF CapacityInv, Counted
  <2>3. ASSUME NEW r \in Requests, hold[r] = "handler" PROVE slot[r] /\ ~settled[r]
    BY <2>3 DEF IInv, Books, ArmedWhileOpen, OpenIsUnspent, CapacityInv, Owns
  <2> QED
    BY <2>2, <2>3 DEF CapacityOwned
<1>2. Spec => []CapacityInv
  BY InitCapacity, CapacityStep, BooksInvariant, PTL DEF Spec
<1> QED
  BY <1>1, <1>2, BooksInvariant, PTL

-----------------------------------------------------------------------------
(* A request is charged what it owes, and before it is told so *)

\* What the charge of a request is once its job has come to an end.
JobPaid(r, j) ==
  /\ Stage(r, j) = "none" => job[r][j].work = "zero"
  /\ job[r][j].work # "account" => job[r][j].cost = 0
  /\ Stage(r, j) \in {"charged", "done", "died"} => charged[r] = <<job[r][j].cost>>
  /\ Stage(r, j) = "dropped" => charged[r] \in {<<>>, <<0>>}

MainRecord(r) == [status |-> job[r]["main"].status, cost |-> job[r]["main"].cost]

Outcome(r) ==
  /\ Stage(r, "main") = "done" /\ job[r]["main"].work = "account"
       => recorded[r] \in {<<>>, <<MainRecord(r)>>}
  /\ pc[r] = "dispatching" => hold[r] = "handler"
  /\ pc[r] = "releasing" => NoJobs(r) /\ charged[r] = <<0>>
  /\ pc[r] = "finishing" =>
       /\ ~streamed[r] /\ Stage(r, "main") # "none"
       /\ job[r]["main"].work = "account" /\ job[r]["main"].status = "Ok"
  /\ pc[r] = "recording" /\ Appends => Stage(r, "main") # "none"
  /\ pc[r] \in {"relaying", "closing"} => streamed[r]
  /\ pc[r] = "closing" => Stage(r, "main") # "none"
  /\ pc[r] = "ended" /\ answer[r] # "refused" /\ Stage(r, "main") = "none"
       => charged[r] = <<0>>

ChargedZero(r) == charged[r] = <<0>>
NoCharge(r) == charged[r] \in {<<>>, <<0>>}

Settled(r) ==
  /\ Stage(r, "main") = "done" /\ job[r]["main"].work = "account"
  /\ job[r]["main"].status = "Ok"
  /\ (recorded[r] # <<>> \/ OnUndurable = "Serve")

Told(r) ==
  /\ answer[r] = "ok" => pc[r] = "ended"
  /\ answer[r] = "ok" /\ ~streamed[r] => Settled(r)

Paid(r) == JobPaid(r, "main") /\ JobPaid(r, "release") /\ Outcome(r) /\ Told(r)

PaidInv == \A r \in Requests : Paid(r)

\* A step of request r leaves what the others were told alone.
Pays(r) == /\ \A q \in Requests : q # r => answer'[q] = answer[q]
           /\ streamed' = streamed /\ Paid(r)'

\* A handler step that charges nothing and spawns nothing.
LEMMA PlainPays ==
  ASSUME TypeOK, NEW r \in Requests, Books(r), Paid(r),
         UNCHANGED <<streamed, job, charged, recorded>>,
         NEW p, NEW a, pc'[r] = p, answer' = [answer EXCEPT ![r] = a],
         p \notin {"releasing", "finishing", "closing"}, ~(p = "recording" /\ Appends),
         p = "dispatching" => hold'[r] = "handler",
         p = "relaying" => streamed[r],
         p = "ended" /\ a # "refused" /\ Stage(r, "main") = "none" => ChargedZero(r),
         a = "ok" => p = "ended",
         a = "ok" /\ ~streamed[r] => Settled(r)
  PROVE  Pays(r)
<1>1. answer'[r] = a /\ \A q \in Requests : q # r => answer'[q] = answer[q]
  BY DEF TypeOK
<1>2. JobPaid(r, "main")' /\ JobPaid(r, "release")'
  BY DEF Paid, JobPaid, Stage
<1>3. Outcome(r)'
  BY <1>1 DEF Paid, Outcome, Stage, NoJobs, MainRecord, ChargedZero
<1>4. Told(r)'
  BY <1>1 DEF Told, Settled, Stage
<1> QED
  BY <1>1, <1>2, <1>3, <1>4 DEF Pays, Paid

\* The handler settles zero inline, having no job.
LEMMA InlinePays ==
  ASSUME TypeOK, NEW r \in Requests, Books(r), Paid(r), pc[r] = "dispatching",
         pc'[r] \in {"releasing", "failing"}, Settle(r, 0),
         UNCHANGED <<streamed, job, recorded, answer>>
  PROVE  Pays(r)
<1>1. NoJobs(r) /\ charged[r] = <<>> /\ recorded[r] = <<>> /\ answer[r] # "ok"
  BY DEF Books, OpenIsUnspent, Unspent, Paid, Told, Settled
<1>2. Append(<<>>, 0) = <<0>>
  OBVIOUS
<1>3. charged'[r] = <<0>>
  BY <1>1, <1>2 DEF Settle, TypeOK
<1>4. JobPaid(r, "main")' /\ JobPaid(r, "release")'
  BY <1>1 DEF Paid, JobPaid, Stage, NoJobs
<1>5. Outcome(r)' /\ Told(r)'
  BY <1>1, <1>3 DEF Outcome, Told, Settled, Stage, NoJobs
<1> QED
  BY <1>4, <1>5 DEF Pays, Paid

\* The request turns into its job.
LEMMA SpawnPays ==
  ASSUME TypeOK, NEW r \in Requests, Books(r), Paid(r), NoJobs(r), NEW new \in JobType,
         SpawnReserved(r, new), UNCHANGED <<streamed, charged, recorded>>,
         NEW p \in {"ended", "finishing", "closing", "recording"}, pc'[r] = p,
         NEW a, answer' = [answer EXCEPT ![r] = a], a # "ok",
         new.stage = "queued", new.work # "account" => new.cost = 0,
         p = "finishing" => ~streamed[r] /\ new.work = "account" /\ new.status = "Ok",
         p = "closing" => streamed[r]
  PROVE  Pays(r)
<1>1. answer'[r] = a /\ \A q \in Requests : q # r => answer'[q] = answer[q]
  BY DEF TypeOK
<1>2. job'[r]["main"] = new /\ job'[r]["release"] = job[r]["release"]
  BY SpawnType, QueuedType
<1>3. JobPaid(r, "main")' /\ JobPaid(r, "release")'
  BY <1>2 DEF Paid, JobPaid, Stage, NoJobs
<1>4. Outcome(r)' /\ Told(r)'
  BY <1>1, <1>2 DEF Outcome, Told, Settled, Stage
<1> QED
  BY <1>1, <1>3, <1>4 DEF Pays, Paid

LEMMA HandOverPays ==
  ASSUME TypeOK, NEW r \in Requests, Books(r), Paid(r), NEW c \in Amounts, NEW st \in Statuses,
         HandOver(r, c, st), UNCHANGED <<streamed, charged, recorded>>,
         NEW p \in {"ended", "finishing", "closing"}, pc'[r] = p,
         NEW a, answer' = [answer EXCEPT ![r] = a], a # "ok",
         p = "finishing" => ~streamed[r] /\ st = "Ok", p = "closing" => streamed[r]
  PROVE  Pays(r)
<1> DEFINE new == Queued("account", c, st)
<1>1. NoJobs(r)
  BY DEF HandOver, Books, ArmedWhileOpen, OpenIsUnspent
<1>2. new \in JobType /\ new.stage = "queued" /\ new.work = "account" /\ new.status = st
  BY QueuedType DEF Works, Queued
<1>3. SpawnReserved(r, new)
  BY DEF HandOver
<1> HIDE DEF new
<1> QED
  BY <1>1, <1>2, <1>3, SpawnPays

LEMMA ServePays ==
  ASSUME TypeOK, NEW r \in Requests, Books(r), Paid(r), Serve(r) PROVE Pays(r)
<1>0. /\ answer = [answer EXCEPT ![r] = answer[r]]
      /\ pc[r] # "ended" => answer[r] # "ok"
  BY DEF TypeOK, Paid, Told, Settled
<1>1. CASE Reserve(r)
  <2>1. /\ pc[r] # "ended" /\ pc'[r] = "reserving" /\ UNCHANGED <<streamed, job, charged, recorded>>
        /\ answer' = [answer EXCEPT ![r] = answer[r]]
    BY <1>0, <1>1 DEF Reserve, Goto, money, TypeOK
  <2> QED
    BY <1>0, <2>1, PlainPays
<1>2. CASE Shed(r)
  <2>1. /\ pc'[r] = "ended" /\ UNCHANGED <<streamed, job, charged, recorded>>
        /\ answer' = [answer EXCEPT ![r] = "refused"]
    BY <1>2 DEF Shed, Goto, Tell, money, TypeOK
  <2> QED
    BY <2>1, PlainPays
<1>3. CASE Refuse(r)
  <2>1. /\ pc'[r] = "ended" /\ UNCHANGED <<streamed, job, charged, recorded>>
        /\ answer' = [answer EXCEPT ![r] = "refused"]
    BY <1>3 DEF Refuse, Goto, Tell, money, TypeOK
  <2> QED
    BY <2>1, PlainPays
<1>4. CASE reserve_budget(r)
  <2>1. /\ pc[r] # "ended" /\ pc'[r] = "dispatching" /\ hold'[r] = "handler"
        /\ UNCHANGED <<streamed, job, charged, recorded>>
        /\ answer' = [answer EXCEPT ![r] = answer[r]]
    BY <1>0, <1>4 DEF reserve_budget, Goto, money, TypeOK
  <2> QED
    BY <1>0, <2>1, PlainPays
<1>5. CASE NotDispatched(r)
  BY <1>5, InlinePays DEF NotDispatched, Goto, TypeOK
<1>6. CASE Released(r)
  <2>1. charged[r] = <<0>>
    BY <1>6 DEF Released, Goto, Paid, Outcome
  <2>2. /\ pc'[r] = "ended" /\ UNCHANGED <<streamed, job, charged, recorded>>
        /\ answer' = [answer EXCEPT ![r] = "failed"]
    BY <1>6 DEF Released, Goto, Tell, money, TypeOK
  <2> QED
    BY <2>1, <2>2, PlainPays DEF ChargedZero
<1>7. CASE UpstreamFailed(r)
  BY <1>7, InlinePays DEF UpstreamFailed, Goto, TypeOK
<1>8. CASE record_usage_terminal(r)
  <2>1. /\ pc[r] = "failing" /\ pc'[r] = "recording" /\ NoJobs(r)
        /\ UNCHANGED <<streamed, charged, recorded>> /\ answer' = [answer EXCEPT ![r] = answer[r]]
    BY <1>0, <1>8 DEF record_usage_terminal, Goto, money, TypeOK, Books, FailedIsReleased
  <2>2. CASE Appends
    <3> DEFINE new == Queued("record", 0, "UpstreamError")
    <3>1. new \in JobType /\ new.stage = "queued" /\ new.cost = 0
      BY QueuedType DEF Works, Statuses, Queued
    <3>2. SpawnReserved(r, new)
      BY <1>8, <2>2 DEF record_usage_terminal
    <3> HIDE DEF new
    <3> QED
      BY <1>0, <2>1, <3>1, <3>2, SpawnPays
  <2>3. CASE ~Appends
    BY <1>0, <1>8, <2>1, <2>3, PlainPays DEF record_usage_terminal
  <2> QED
    BY <2>2, <2>3
<1>9. CASE RecordedInline(r)
  <2>1. /\ NoJobs(r) /\ charged[r] = <<0>> /\ pc'[r] = "ended" /\ answer'[r] = "failed"
        /\ UNCHANGED <<streamed, job, charged>>
        /\ \A q \in Requests : q # r => answer'[q] = answer[q]
    BY <1>9 DEF RecordedInline, Goto, Tell, TypeOK, Books, FailedIsReleased
  <2>2. JobPaid(r, "main")' /\ JobPaid(r, "release")'
    BY <2>1 DEF Paid, JobPaid, Stage
  <2>3. Outcome(r)' /\ Told(r)'
    BY <2>1 DEF Outcome, Told, Settled, Stage, NoJobs
  <2> QED
    BY <2>1, <2>2, <2>3 DEF Pays, Paid
<1>10. CASE RecordedDetached(r)
  <2>1. Stage(r, "main") # "none"
    BY <1>10 DEF RecordedDetached, Goto, Paid, Outcome
  <2>2. /\ pc'[r] = "ended" /\ UNCHANGED <<streamed, job, charged, recorded>>
        /\ answer' = [answer EXCEPT ![r] = "failed"]
    BY <1>10 DEF RecordedDetached, Goto, Tell, money, TypeOK
  <2> QED
    BY <2>1, <2>2, PlainPays
<1>11. ASSUME NEW c \in Costs, finish(r, c) PROVE Pays(r)
  <2>1. /\ c \in Amounts /\ "Ok" \in Statuses /\ pc'[r] = "finishing" /\ HandOver(r, c, "Ok")
        /\ UNCHANGED <<streamed, charged, recorded>> /\ ~streamed[r] /\ pc[r] # "ended"
        /\ answer' = [answer EXCEPT ![r] = answer[r]]
    BY <1>0, <1>11 DEF Amounts, Statuses, finish, Goto, TypeOK, money
  <2> QED
    BY <1>0, <2>1, HandOverPays
<1>12. CASE Verdict(r)
  <2> DEFINE a == IF job[r]["main"].stage = "done"
                     /\ (recorded[r] # <<>> \/ OnUndurable = "Serve") THEN "ok" ELSE "failed"
  <2>1. /\ pc[r] = "finishing" /\ pc'[r] = "ended" /\ answer' = [answer EXCEPT ![r] = a]
        /\ UNCHANGED <<streamed, job, charged, recorded>>
    BY <1>12 DEF Verdict, Goto, Tell, money, TypeOK
  <2>2. /\ Stage(r, "main") # "none" /\ job[r]["main"].work = "account"
        /\ job[r]["main"].status = "Ok" /\ a # "refused"
        /\ a = "ok" => Stage(r, "main") = "done" /\ (recorded[r] # <<>> \/ OnUndurable = "Serve")
    BY <2>1 DEF Paid, Outcome, Stage
  <2> HIDE DEF a
  <2> QED
    BY <2>1, <2>2, PlainPays DEF Settled
<1>13. CASE relay_opened(r)
  <2>1. /\ streamed[r] /\ pc[r] # "ended" /\ pc'[r] = "relaying"
        /\ UNCHANGED <<streamed, job, charged, recorded>>
        /\ answer' = [answer EXCEPT ![r] = answer[r]]
    BY <1>0, <1>13 DEF relay_opened, Goto, money, TypeOK
  <2> QED
    BY <1>0, <2>1, PlainPays
<1>14. CASE settle_upstream_error(r)
  <2>1. /\ "UpstreamError" \in Statuses /\ 0 \in Amounts /\ pc'[r] = "ended" /\ ~settled[r]
        /\ UNCHANGED <<streamed, charged, recorded>>
        /\ answer' = [answer EXCEPT ![r] = "failed"] /\ AccountingSettle(r, 0, "UpstreamError")
    BY <1>14 DEF Amounts, Statuses, settle_upstream_error, Goto, Tell, TypeOK, money, Books,
                 OpenIsUnspent
  <2> QED
    BY <2>1, HandOverPays DEF AccountingSettle
<1>15. ASSUME NEW c \in Amounts, RelayEnds(r, c) PROVE Pays(r)
  <2>1. PICK st \in {"Ok", "UpstreamError"} : AccountingSettle(r, c, st)
    BY <1>15 DEF RelayEnds
  <2>2. /\ st \in Statuses /\ pc'[r] = "closing" /\ ~settled[r] /\ streamed[r] /\ pc[r] # "ended"
        /\ UNCHANGED <<streamed, charged, recorded>> /\ answer' = [answer EXCEPT ![r] = answer[r]]
    BY <1>0, <1>15 DEF Statuses, RelayEnds, Goto, TypeOK, money, Books, OpenIsUnspent, Paid,
                       Outcome
  <2> QED
    BY <1>0, <2>1, <2>2, HandOverPays DEF AccountingSettle
<1> QED
  BY <1>1, <1>2, <1>3, <1>4, <1>5, <1>6, <1>7, <1>8, <1>9, <1>10, <1>11, <1>12, <1>13,
     <1>14, <1>15 DEF Serve

LEMMA LeavePays ==
  ASSUME TypeOK, NEW r \in Requests, Books(r), Paid(r), Leave(r) PROVE Pays(r)
<1>1. CASE DropHandler(r)
  <2>1. /\ pc[r] \in {"dispatching", "releasing", "failing", "recording", "finishing"}
        /\ pc'[r] = "ended" /\ answer' = [answer EXCEPT ![r] = "failed"]
        /\ UNCHANGED <<streamed, charged, recorded>>
    BY <1>1 DEF DropHandler, Tell, TypeOK, money
  <2>2. CASE hold[r] = "handler"
    <3> DEFINE new == Queued("zero", 0, "Ok")
    <3>1. new \in JobType /\ new.stage = "queued" /\ new.cost = 0
      BY QueuedType DEF Works, Statuses, Queued
    <3>2. SpawnReserved(r, new) /\ NoJobs(r)
      BY <1>1, <2>2 DEF DropHandler, DropArmed, Books, ArmedWhileOpen, OpenIsUnspent
    <3> HIDE DEF new
    <3> QED
      BY <2>1, <3>1, <3>2, SpawnPays
  <2>3. CASE hold[r] # "handler"
    <3>1. Stage(r, "main") = "none" => charged[r] = <<0>>
      BY <2>1, <2>3 DEF Paid, Outcome, Books, FailedIsReleased
    <3>2. job' = job
      BY <1>1, <2>3 DEF DropHandler
    <3> QED
      BY <2>1, <3>1, <3>2, PlainPays DEF ChargedZero
  <2> QED
    BY <2>2, <2>3
<1>2. ASSUME NEW c \in Amounts, DropBody(r, c) PROVE Pays(r)
  <2>1. /\ "ClientCancelled" \in Statuses /\ pc'[r] = "ended"
        /\ UNCHANGED <<streamed, charged, recorded>> /\ AccountingSettle(r, c, "ClientCancelled")
        /\ answer' = [answer EXCEPT ![r] = IF settled[r] THEN "ok" ELSE "failed"]
        /\ pc[r] \in {"relaying", "closing"} /\ streamed[r]
    BY <1>2 DEF Statuses, DropBody, Tell, TypeOK, money, Paid, Outcome
  <2>2. CASE settled[r]
    <3>1. Stage(r, "main") # "none" /\ job' = job /\ answer' = [answer EXCEPT ![r] = "ok"]
      BY <2>1, <2>2 DEF AccountingSettle, Books, OpenIsUnspent, Paid, Outcome
    <3> QED
      BY <2>1, <3>1, PlainPays
  <2>3. CASE ~settled[r]
    BY <2>1, <2>3, HandOverPays DEF AccountingSettle
  <2> QED
    BY <2>2, <2>3
<1> QED
  BY <1>1, <1>2 DEF Leave

Busy == {"queued", "running", "charged", "missed"}

\* A job moves to stage s, having charged and recorded what that takes.
LEMMA JobMovePays ==
  ASSUME TypeOK, NEW r \in Requests, NEW j \in Jobs, Books(r), Paid(r), NEW s \in Stages,
         Stage(r, j) \in Busy, Advances(r, j, s), s # "none",
         UNCHANGED <<pc, streamed, answer>>,
         \/ charged'[r] = charged[r]
         \/ Unspent(r) /\ charged'[r] = <<job[r][j].cost>> /\ s = "charged",
         s \in {"charged", "done", "died"} => charged'[r] = <<job[r][j].cost>>,
         s = "dropped" => NoCharge(r)',
         s = "done" /\ job[r][j].work = "account" =>
           recorded'[r] \in {<<>>, <<[status |-> job[r][j].status, cost |-> job[r][j].cost]>>}
  PROVE  Pays(r)
<1>1. /\ job'[r][j].stage = s /\ job'[r][j].work = job[r][j].work
      /\ job'[r][j].cost = job[r][j].cost /\ job'[r][j].status = job[r][j].status
      /\ \A i \in Jobs : i # j => job'[r][i] = job[r][i]
  BY JobMoves DEF Moved
<1>2. /\ j = "main" => Stage(r, "release") = "none"
      /\ j = "release" => Stage(r, "main") = "dropped" /\ job[r][j].work = "zero"
      /\ pc[r] \notin {"idle", "reserving", "dispatching", "relaying", "failing"}
  BY BusyJob DEF Busy
<1>3. pc[r] # "releasing" /\ ~(answer[r] = "ok" /\ ~streamed[r])
  <2>1. Stage(r, "main") # "done" /\ ~NoJobs(r)
    BY <1>2 DEF Jobs, Busy, NoJobs
  <2> QED
    BY <2>1 DEF Paid, Outcome, Told, Settled
<1>4. CASE j = "main"
  <2>1. job'[r]["release"] = job[r]["release"]
    BY <1>1, <1>4 DEF Jobs
  <2>2. JobPaid(r, "main")' /\ JobPaid(r, "release")'
    BY <1>1, <1>2, <1>4, <2>1 DEF Paid, JobPaid, NoCharge, Stage
  <2>3. Outcome(r)'
    BY <1>1, <1>2, <1>3, <1>4 DEF Paid, Outcome, Stage, MainRecord
  <2>4. Told(r)'
    BY <1>3 DEF Paid, Told, Settled
  <2> QED
    BY <2>2, <2>3, <2>4 DEF Pays, Paid
<1>5. CASE j = "release"
  <2>1. job'[r]["main"] = job[r]["main"] /\ Stage(r, "main") = "dropped"
    BY <1>1, <1>2, <1>5 DEF Jobs
  <2>2. job[r][j].cost = 0 /\ charged[r] \in {<<>>, <<0>>}
    BY <1>2, <1>5, <2>1 DEF Paid, JobPaid
  <2>3. JobPaid(r, "main")' /\ JobPaid(r, "release")'
    BY <1>1, <1>2, <1>5, <2>1, <2>2 DEF Paid, JobPaid, Stage
  <2>4. Outcome(r)' /\ Told(r)'
    BY <1>2, <1>3, <2>1 DEF Paid, Outcome, Told, Settled, Stage
  <2> QED
    BY <2>3, <2>4 DEF Pays, Paid
<1> QED
  BY <1>4, <1>5 DEF Jobs

LEMMA JobPays ==
  ASSUME TypeOK, NEW r \in Requests, NEW j \in Jobs, Books(r), Paid(r), JobAction(r, j)
  PROVE  Pays(r)
<1>0. /\ {"running", "charged", "missed", "dropped", "done", "died"} \subseteq Stages
      /\ job[r][j].work \in Works /\ JobPaid(r, j)
  BY DEF Stages, TypeOK, JobType, Paid, Jobs
<1>a. Stage(r, j) \in Busy => JobInOrder(r, j) /\ (j = "release" => job[r][j].work = "zero")
  BY BusyJob DEF Busy
<1>1. CASE StartJob(r, j)
  <2>1. /\ Stage(r, j) = "queued" /\ Advances(r, j, "running")
        /\ UNCHANGED <<pc, streamed, answer, charged, recorded>>
    BY <1>1 DEF StartJob, Advance, Stage, Advances, money
  <2> QED
    BY <1>0, <2>1, JobMovePays DEF Busy
<1>2. CASE JobSettle(r, j)
  <2>1. /\ Stage(r, j) = "running" /\ Advances(r, j, "charged") /\ job[r][j].work # "record"
        /\ UNCHANGED <<pc, streamed, answer, recorded>> /\ Settle(r, job[r][j].cost)
    BY <1>2 DEF JobSettle, Advance, Stage, Advances
  <2>2. Unspent(r)
    BY <1>a, <2>1 DEF Busy, JobInOrder, ToCharge, Early
  <2>3. Append(<<>>, job[r][j].cost) = <<job[r][j].cost>>
    OBVIOUS
  <2>4. charged'[r] = <<job[r][j].cost>>
    BY <2>1, <2>2, <2>3 DEF Settle, Unspent, TypeOK
  <2> QED
    BY <1>0, <2>1, <2>2, <2>4, JobMovePays DEF Busy
<1>3. CASE JobRecord(r, j)
  <2> DEFINE rec == [status |-> job[r][j].status, cost |-> job[r][j].cost]
  <2>1. /\ Advances(r, j, "done") /\ job[r][j].work # "zero"
        /\ Stage(r, j) = IF job[r][j].work = "record" THEN "running" ELSE "charged"
        /\ UNCHANGED <<pc, streamed, answer, charged>>
        /\ \/ recorded' = [recorded EXCEPT ![r] = Append(@, rec)]
           \/ UNCHANGED recorded
    BY <1>3 DEF JobRecord, Advance, Stage, Advances
  <2>2. charged[r] = <<job[r][j].cost>> /\ recorded[r] = <<>>
    BY <1>0, <1>a, <2>1 DEF Works, Busy, JobInOrder, ToRecord, Early
  <2>3. Append(<<>>, rec) = <<rec>>
    OBVIOUS
  <2>4. recorded'[r] \in {<<>>, <<rec>>}
    BY <2>1, <2>2, <2>3 DEF TypeOK
  <2>5. Stage(r, j) \in Busy
    BY <2>1 DEF Busy
  <2> QED
    BY <1>0, <2>1, <2>2, <2>4, <2>5, JobMovePays
<1>4. CASE ZeroDone(r, j)
  <2>1. /\ Stage(r, j) = "charged" /\ Advances(r, j, "done") /\ job[r][j].work = "zero"
        /\ UNCHANGED <<pc, streamed, answer, charged, recorded>>
    BY <1>4 DEF ZeroDone, Advance, Stage, Advances, money
  <2>2. charged[r] = <<job[r][j].cost>>
    BY <1>0, <2>1 DEF JobPaid
  <2> QED
    BY <1>0, <2>1, <2>2, JobMovePays DEF Busy
<1>5. CASE DropFuture(r, j)
  <2>1. /\ Stage(r, j) = "missed" /\ Stage(r, j) \in Busy
        /\ UNCHANGED <<pc, streamed, answer, charged, recorded>>
    BY <1>5 DEF DropFuture, Stage, Busy, money
  <2>2. charged[r] \in {<<>>, <<0>>}
    <3>1. CASE job[r][j].work # "record"
      BY <1>a, <2>1, <3>1 DEF JobInOrder, ToCharge, Early, Unspent
    <3>2. CASE job[r][j].work = "record"
      BY <1>0, <1>a, <2>1, <3>2 DEF JobInOrder, ToRecord, Early, JobPaid
    <3> QED
      BY <3>1, <3>2
  <2>3. CASE Advances(r, j, "dropped")
    BY <1>0, <2>1, <2>2, <2>3, JobMovePays DEF NoCharge
  <2>4. CASE /\ job[r][j].work = "account"
             /\ job' = [[job EXCEPT ![r][j].stage = "dropped"]
                          EXCEPT ![r]["release"] = Queued("zero", 0, "Ok")]
    <3> DEFINE new == Queued("zero", 0, "Ok")
               gone == [job EXCEPT ![r]["main"].stage = "dropped"]
    <3>1. j = "main" /\ "main" \in Jobs /\ "release" \in Jobs /\ job[r]["main"] \in JobType
      BY <1>a, <2>1, <2>4 DEF Jobs, TypeOK
    <3>2. new.stage = "queued" /\ new.work = "zero" /\ new.cost = 0
      BY DEF Queued
    <3>3. /\ gone \in [Requests -> [Jobs -> JobType]] /\ gone[r]["main"].stage = "dropped"
          /\ gone[r]["main"].work = job[r]["main"].work
          /\ gone[r]["main"].cost = job[r]["main"].cost
          /\ gone[r]["main"].status = job[r]["main"].status
      BY <3>1 DEF TypeOK, JobType, Stages
    <3>4. job' = [gone EXCEPT ![r]["release"] = new]
      BY <2>4, <3>1
    <3> HIDE DEF new, gone
    <3>5. job'[r]["release"] = new /\ job'[r]["main"] = gone[r]["main"]
      BY <3>1, <3>3, <3>4
    <3>6. /\ pc[r] \notin {"idle", "reserving", "dispatching", "relaying", "failing", "releasing"}
          /\ ~(answer[r] = "ok" /\ ~streamed[r]) /\ Stage(r, "main") = "missed"
      BY <2>1, <3>1, BusyJob DEF Paid, Outcome, Told, Settled, NoJobs
    <3>7. JobPaid(r, "main")' /\ JobPaid(r, "release")'
      BY <2>1, <2>2, <2>4, <3>1, <3>2, <3>3, <3>5 DEF JobPaid, Stage
    <3>8. Outcome(r)' /\ Told(r)'
      BY <2>1, <3>3, <3>5, <3>6 DEF Paid, Outcome, Told, Settled, Stage
    <3> QED
      BY <2>1, <3>7, <3>8 DEF Pays, Paid
  <2> QED
    BY <1>5, <2>3, <2>4 DEF DropFuture, Advances
<1>6. CASE JobDies(r, j)
  <2>1. /\ Stage(r, j) = "charged" \/ (Stage(r, j) = "running" /\ job[r][j].work = "record")
        /\ Advances(r, j, "died")
        /\ UNCHANGED <<pc, streamed, answer, charged, recorded>> /\ Stage(r, j) \in Busy
    BY <1>6 DEF JobDies, Stage, Advances, money, Busy
  <2>2. charged[r] = <<job[r][j].cost>>
    BY <1>0, <1>a, <2>1 DEF JobPaid, JobInOrder, ToRecord, Early
  <2> QED
    BY <1>0, <2>1, <2>2, JobMovePays
<1>7. CASE MissQueueWait(r, j)
  <2>1. /\ Stage(r, j) = "queued" /\ Advances(r, j, "missed")
        /\ UNCHANGED <<pc, streamed, answer, charged, recorded>>
    BY <1>7 DEF MissQueueWait, Advance, Stage, Advances, money
  <2> QED
    BY <1>0, <2>1, JobMovePays DEF Busy
<1> QED
  BY <1>1, <1>2, <1>3, <1>4, <1>5, <1>6, <1>7 DEF JobAction, Job

LEMMA InitPaid == Init => PaidInv
<1> SUFFICES ASSUME Init, NEW r \in Requests PROVE Paid(r)
  BY DEF PaidInv
<1>1. job[r]["main"] = NoJob /\ job[r]["release"] = NoJob /\ pc[r] = "idle" /\ answer[r] = "none"
  BY DEF Init, Jobs
<1>2. NoJob.stage = "none" /\ NoJob.work = "zero" /\ NoJob.cost = 0
  BY DEF NoJob
<1> QED
  BY <1>1, <1>2 DEF Paid, JobPaid, Outcome, Told, Settled, Stage

LEMMA PaidStep == IInv /\ PaidInv /\ [Next]_vars => PaidInv'
<1> SUFFICES ASSUME IInv, PaidInv, [Next]_vars PROVE PaidInv'
  OBVIOUS
<1>0. TypeOK /\ \A q \in Requests : Books(q) /\ Paid(q)
  BY DEF IInv, PaidInv
<1>1. ASSUME NEW r \in Requests, Keeps(r), Pays(r) PROVE PaidInv'
  <2> SUFFICES ASSUME NEW q \in Requests PROVE Paid(q)'
    BY DEF PaidInv
  <2>1. CASE q = r
    BY <1>1, <2>1 DEF Pays
  <2>2. CASE q # r
    <3>1. Same(q) /\ answer'[q] = answer[q] /\ streamed'[q] = streamed[q] /\ Paid(q)
      BY <1>0, <1>1, <2>2 DEF Keeps, Pays
    <3> QED
      BY <3>1 DEF Same, Paid, JobPaid, Outcome, Told, Settled, Stage, NoJobs, MainRecord
  <2> QED
    BY <2>1, <2>2
<1>2. ASSUME NEW r \in Requests, Serve(r) \/ Leave(r) PROVE PaidInv'
  BY <1>0, <1>1, <1>2, ServeKeeps, LeaveKeeps, ServePays, LeavePays
<1>3. ASSUME NEW r \in Requests, NEW j \in Jobs, JobAction(r, j) PROVE PaidInv'
  BY <1>0, <1>1, <1>3, JobKeeps, JobPays
<1>4. CASE UNCHANGED vars
  BY <1>4 DEF vars, owners, money, PaidInv, Paid, JobPaid, Outcome, Told, Settled, Stage, NoJobs, MainRecord
<1> QED
  BY <1>2, <1>3, <1>4 DEF Next, Quiet, JobAction

\* On every path of serve, of the relay, of the jobs and of their
\* cancellations: a caller told "ok" has been charged its measured cost (and
\* its record is durable where that is demanded), and an admitted request that
\* is over was settled once, for what it owes, unless its job missed the queue
\* wait.
THEOREM AccountedTheorem == Spec => []AccountedOnce
<1>1. IInv /\ PaidInv => AccountedOnce
  <2> SUFFICES ASSUME IInv, PaidInv PROVE AccountedOnce
    OBVIOUS
  <2>1. ASSUME NEW r \in Requests, answer[r] = "ok", ~streamed[r]
        PROVE  /\ charged[r] = <<job[r]["main"].cost>>
               /\ OnUndurable = "Refuse" =>
                    recorded[r] = <<[status |-> "Ok", cost |-> job[r]["main"].cost]>>
    BY <2>1 DEF PaidInv, Paid, Told, Settled, Outcome, JobPaid, MainRecord, Stage
  <2>2. ASSUME NEW r \in Requests, pc[r] = "ended", JobsOver(r), Admitted(r)
        PROVE  IF Missed(r) THEN charged[r] \in {<<>>, <<0>>} ELSE charged[r] = <<Owed(r)>>
    <3>1. /\ Paid(r) /\ ReleaseLast(r) /\ answer[r] # "refused"
          /\ Over(job[r]["main"].stage)
      BY <2>2 DEF PaidInv, IInv, Books, Admitted, JobsOver, Jobs
    <3>2. CASE Missed(r)
      <4>1. Stage(r, "main") = "dropped"
        BY <3>1, <3>2 DEF Missed, Jobs, ReleaseLast, Stage
      <4> QED
        BY <3>1, <3>2, <4>1 DEF Paid, JobPaid
    <3>3. CASE ~Missed(r)
      <4>1. Stage(r, "main") \in {"none", "done", "died"}
        BY <3>1, <3>3 DEF Missed, Jobs, Stage, Over
      <4>2. CASE Stage(r, "main") = "none"
        BY <2>2, <3>1, <3>3, <4>2 DEF Paid, JobPaid, Outcome, Owed
      <4>3. CASE Stage(r, "main") # "none"
        BY <3>1, <3>3, <4>1, <4>3 DEF Paid, JobPaid, Owed
      <4> QED
        BY <4>2, <4>3
    <3> QED
      BY <3>2, <3>3
  <2> QED
    BY <2>1, <2>2 DEF AccountedOnce, ServedIsAccounted, SettledExactlyOnce
<1>2. Spec => []PaidInv
  BY InitPaid, PaidStep, BooksInvariant, PTL DEF Spec
<1> QED
  BY <1>1, <1>2, BooksInvariant, PTL
=============================================================================
