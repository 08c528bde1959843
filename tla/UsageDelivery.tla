--------------------------- MODULE UsageDelivery ---------------------------
(***************************************************************************)
(* UsageDelivery (usage/mod.rs): where the usage record of a request goes. *)
(* Billing grade, it is appended to the journal (module UsageJournal);     *)
(* telemetry grade, it is put into the bounded buffer of a batched sink    *)
(* (usage/batch.rs).  Either way it is also offered to the queue of the    *)
(* worker that writes the management index of the Store.  Nothing here     *)
(* makes a request wait: a full queue drops, and counts.  At shutdown the  *)
(* buffer is flushed and the index drained, each within a bound, and what  *)
(* they report is all the operator learns.                                 *)
(***************************************************************************)
EXTENDS UsageJournal

CONSTANTS Setups

SetupType ==
  [journal : Configs, billing : BOOLEAN,
   blocking : BOOLEAN,                 \* the Store is SQLite: its worker is a thread
   capacity : Nat, index_batch : Nat,  \* UsageIndexSettings
   buffer : Nat, max_batch : Nat]      \* BatchSettings; no index, no buffer if 0

ASSUME DeliveryAssumption ==
  /\ Setups \subseteq SetupType
  /\ \A s \in Setups :
       /\ s.index_batch <= s.capacity /\ (s.capacity > 0 => s.index_batch > 0)
       /\ s.buffer > 0 => s.max_batch > 0
       /\ ~s.billing => \A w \in Workers : s.journal.consumer[w] = {}

VARIABLES
  setup,
  recorded,  \* the records that went to the fan-out
  index,     \* the queue of the index worker, the worker and its report
  rows,      \* external: the usage rows of the Store
  refused,   \* history: records whose index write failed or timed out
  queued,    \* history: records the index queue took
  buffer,    \* the queue of the batched sink, its flush task and the flush
  sent,      \* external: what the sink's destination has
  rejected,  \* history: records in a batch the destination refused
  before     \* history: records the buffer took before the flush was asked for

indexVars == <<index, rows, refused, queued>>
bufferVars == <<buffer, sent, rejected, before>>
deliveryVars == <<vars, setup, recorded, indexVars, bufferVars>>

FlushMessage == NoEvent

IndexType ==
  [queue : Seq(Events), open : BOOLEAN, stop : BOOLEAN,
   pc : {"recv", "gather", "write", "done", "aborted"}, batch : Seq(Events),
   written : Nat, leftover : Nat, failed : BOOLEAN,
   report : {"none", "waiting", "reported", "unreported", "unwaited"}]

BufferType ==
  [queue : Seq(Events \cup {FlushMessage}), held : Seq(Events),
   pc : {"recv", "gather", "write", "drain"}, dropped : Nat, abandoned : Nat,
   flush : {"none", "asked", "Flushed", "Failed", "TimedOut"}]

\* The types, and the bounds of the two queues and of their batches.
DeliveryTypeOK ==
  /\ TypeOK /\ setup \in Setups
  /\ recorded \subseteq Events
  /\ index \in IndexType /\ buffer \in BufferType
  /\ UNION {rows, refused, queued, sent, rejected, before} \subseteq Events

DeliveryInit ==
  /\ setup \in Setups
  /\ Init /\ conf = setup.journal
  /\ recorded = {} /\ rows = {} /\ refused = {} /\ queued = {}
  /\ index = [queue |-> <<>>, open |-> setup.capacity > 0, stop |-> FALSE, pc |-> "recv",
              batch |-> <<>>, written |-> 0, leftover |-> 0, failed |-> FALSE,
              report |-> "none"]
  /\ buffer = [queue |-> <<>>, held |-> <<>>, pc |-> "recv", dropped |-> 0,
               abandoned |-> 0, flush |-> "none"]
  /\ sent = {} /\ rejected = {} /\ before = {}

-----------------------------------------------------------------------------
(* The request's side *)

\* append_store: try_reserve on a queue that may be full or closed.
AppendStore(e) ==
  IF index.open /\ index.pc # "aborted" /\ Len(index.queue) < setup.capacity
    THEN /\ index' = [index EXCEPT !.queue = Append(@, e)]
         /\ queued' = queued \cup {e}
         /\ UNCHANGED <<rows, refused>>
    ELSE UNCHANGED indexVars

\* BatchedSink::record: try_send, and a record that does not fit is dropped.
BufferRecord(e) ==
  \/ setup.buffer = 0 /\ UNCHANGED bufferVars
  \/ /\ setup.buffer > 0 /\ Len(buffer.queue) = setup.buffer
     /\ buffer' = [buffer EXCEPT !.dropped = @ + 1]
     /\ UNCHANGED <<sent, rejected, before>>
  \/ /\ Len(buffer.queue) < setup.buffer
     /\ buffer' = [buffer EXCEPT !.queue = Append(@, e)]
     /\ before' = IF buffer.flush = "none" THEN before \cup {e} ELSE before
     /\ UNCHANGED <<sent, rejected>>

\* record, telemetry grade.
RecordTelemetry(e) ==
  /\ ~setup.billing /\ e \in conf.events \ recorded
  /\ recorded' = recorded \cup {e}
  /\ AppendStore(e) /\ BufferRecord(e)
  /\ UNCHANGED <<vars, setup>>

\* record, billing grade: once the event is durable it is offered to the index.
Journaled(e) == answer[e] # "Durable" /\ answer'[e] = "Durable"

RecordBilling ==
  /\ setup.billing /\ AppendStep
  /\ IF \E e \in Events : Journaled(e)
       THEN AppendStore(CHOOSE e \in Events : Journaled(e)) ELSE UNCHANGED indexVars
  /\ UNCHANGED <<setup, recorded, bufferVars>>

-----------------------------------------------------------------------------
(* The index worker: sqlite_usage_index_worker, async_usage_index_worker *)

\* The stop flag is seen: what is held and queued is discarded, and counted.
Discarded(k) == [k EXCEPT !.pc = "done", !.leftover = Len(k.batch) + Len(k.queue),
                          !.batch = <<>>, !.queue = <<>>]

\* Mutant: a closed queue ends the worker with records still in it.
BugIndexRecv ==
  /\ index.pc = "recv"
  /\ index.queue # <<>> \/ (~index.open /\ setup.capacity > 0)
  /\ index' = IF index.open
                THEN [index EXCEPT !.batch = <<Head(index.queue)>>, !.queue = Tail(@),
                                   !.pc = "gather"]
                ELSE [index EXCEPT !.pc = "done"]

IndexRecv ==
  /\ index.pc = "recv"
  /\ index' = IF index.queue # <<>>
                THEN LET k == [index EXCEPT !.batch = <<Head(index.queue)>>, !.queue = Tail(@)]
                     IN IF k.stop THEN Discarded(k) ELSE [k EXCEPT !.pc = "gather"]
                ELSE [index EXCEPT !.pc = "done"]
  /\ index.queue # <<>> \/ (~index.open /\ setup.capacity > 0)

IndexGather ==
  /\ index.pc = "gather" /\ index.queue # <<>> /\ Len(index.batch) < setup.index_batch
  /\ index' = [index EXCEPT !.batch = Append(@, Head(index.queue)), !.queue = Tail(@)]

\* The batch is full, flush_interval has passed or the channel is closed.
IndexBatch ==
  /\ index.pc = "gather"
  /\ index' = IF index.stop THEN Discarded(index) ELSE [index EXCEPT !.pc = "write"]

\* A write that timed out may still land.
IndexWrite(ok, landed) ==
  /\ index.pc = "write" /\ (ok => landed) /\ (landed /\ ~ok => ~setup.blocking)
  /\ rows' = IF landed THEN rows \cup ToSet(index.batch) ELSE rows
  /\ refused' = IF ok THEN refused ELSE refused \cup ToSet(index.batch)
  /\ index' = [index EXCEPT !.pc = "recv", !.batch = <<>>, !.failed = @ \/ ~ok,
                            !.written = IF ok THEN @ + Len(index.batch) ELSE @]
  /\ UNCHANGED queued

\* drain_index closes the queue and waits; abandon_index, and dropping the last
\* handle, stop the worker instead.
DrainIndex ==
  /\ setup.capacity > 0 /\ index.report = "none"
  /\ index' = [index EXCEPT !.open = FALSE, !.report = "waiting"]

AbandonIndex ==
  /\ setup.capacity > 0 /\ index.report = "none"
  /\ index' = [index EXCEPT !.open = FALSE, !.stop = TRUE, !.report = "unwaited"]

IndexReports ==
  /\ index.report = "waiting" /\ index.pc = "done"
  /\ index' = [index EXCEPT !.report = "reported"]

\* The wait overruns its bound: a task is aborted, a thread only told to stop.
IndexOverruns ==
  /\ index.report = "waiting" /\ index.pc # "done"
  /\ index' = [index EXCEPT !.stop = TRUE, !.report = "unreported",
                            !.pc = IF setup.blocking THEN @ ELSE "aborted"]

IndexStep ==
  /\ \/ /\ IndexRecv \/ IndexGather \/ IndexBatch \/ DrainIndex \/ AbandonIndex
           \/ IndexReports \/ IndexOverruns
        /\ UNCHANGED <<rows, refused, queued>>
     \/ \E ok, landed \in BOOLEAN : IndexWrite(ok, landed)
  /\ UNCHANGED <<vars, setup, recorded, bufferVars>>

-----------------------------------------------------------------------------
(* The flush task of a batched sink: flush_loop, drain, flush *)

\* A flush message takes along everything that is queued.
Records(q) ==
  LET batch[n \in 0..Len(q)] == IF n = 0 THEN <<>>
        ELSE IF q[n] = FlushMessage THEN batch[n - 1] ELSE Append(batch[n - 1], q[n])
  IN batch[Len(q)]
Drained(k) == [k EXCEPT !.held = @ \o Records(k.queue), !.queue = <<>>, !.pc = "drain"]

BufferRecv ==
  /\ buffer.pc \in {"recv", "gather"} /\ buffer.queue # <<>>
  /\ buffer.pc = "gather" => Len(buffer.held) < setup.max_batch
  /\ buffer' = IF Head(buffer.queue) = FlushMessage THEN Drained(buffer)
               ELSE [buffer EXCEPT !.held = Append(@, Head(buffer.queue)),
                                   !.queue = Tail(@), !.pc = "gather"]
  /\ UNCHANGED <<sent, rejected, before>>

\* The batch is full or flush_interval has passed.
BufferBatch ==
  /\ buffer.pc = "gather"
  /\ buffer' = [buffer EXCEPT !.pc = "write"]
  /\ UNCHANGED <<sent, rejected, before>>

\* flush: a batch the destination refuses is dropped, and counted. The one that
\* drain wrote is the answer to the flush, if it is still waited for.
BufferWrite(ok) ==
  /\ buffer.pc \in {"write", "drain"} /\ (buffer.held = <<>> => ok)
  /\ sent' = IF ok THEN sent \cup ToSet(buffer.held) ELSE sent
  /\ rejected' = IF ok THEN rejected ELSE rejected \cup ToSet(buffer.held)
  /\ buffer' = [buffer EXCEPT !.pc = "recv", !.held = <<>>,
       !.dropped = IF ok THEN @ ELSE @ + Len(buffer.held),
       !.flush = IF buffer.pc = "drain" /\ @ = "asked"
                   THEN IF ok THEN "Flushed" ELSE "Failed" ELSE @]
  /\ UNCHANGED before

\* flush at shutdown: the message waits for a slot, behind the records.
Flush ==
  /\ setup.buffer > 0 /\ buffer.flush = "none" /\ Len(buffer.queue) < setup.buffer
  /\ buffer' = [buffer EXCEPT !.queue = Append(@, FlushMessage), !.flush = "asked"]
  /\ UNCHANGED <<sent, rejected, before>>

\* abandon counts the slots of the queue that are taken.
Abandoned(k) == [k EXCEPT !.abandoned = Len(k.queue), !.dropped = @ + Len(k.queue)]

\* The budget ends.
FlushTimesOut ==
  /\ setup.buffer > 0 /\ buffer.flush \in {"none", "asked"}
  /\ buffer' = [Abandoned(buffer) EXCEPT !.flush = "TimedOut"]
  /\ UNCHANGED <<sent, rejected, before>>

BufferStep ==
  /\ \/ BufferRecv \/ BufferBatch \/ Flush \/ FlushTimesOut
     \/ \E ok \in BOOLEAN : BufferWrite(ok)
  /\ UNCHANGED <<vars, setup, recorded, indexVars>>

-----------------------------------------------------------------------------
JournalStep ==
  /\ setup.billing
  /\ \/ \E w \in Workers : Deliver(w) \/ Abandon(w)
     \/ \E p \in Positions, c \in Consumers : LeaseExpires(p, c)
     \/ Maintain
  /\ UNCHANGED <<setup, recorded, indexVars, bufferVars>>

DeliveryNext ==
  \/ \E e \in Events : RecordTelemetry(e)
  \/ RecordBilling \/ JournalStep \/ IndexStep \/ BufferStep

DeliverySpec == DeliveryInit /\ [][DeliveryNext]_deliveryVars
FairSpec == DeliverySpec /\ Fairness

-----------------------------------------------------------------------------
(* Properties *)

\* What shutdown reports is true (IndexDrainReport, FlushOutcome::Flushed): an
\* index drain that reports has left no record the queue ever took unwritten
\* but those it counted as failed, and its counts are those; a flush that
\* answers Flushed leaves no record in the buffer that was taken before it was
\* asked for, so each is with the destination or was counted as dropped.
ReportsHonest ==
  /\ index.report = "reported" =>
       /\ index.leftover = Cardinality(queued \ (rows \cup refused))
       /\ index.written = Cardinality(queued \ refused)
       /\ (index.leftover = 0 /\ ~index.failed) => queued \subseteq rows
  /\ buffer.flush = "Flushed" => before \subseteq sent \cup rejected

\* No record goes missing in silence, in the journal, the usage index or the
\* buffer of a sink, each within its bound: what is not delivered was counted.
LossIsReported ==
  /\ DeliveryTypeOK /\ NothingLost /\ ReportsHonest
  /\ Len(index.queue) <= setup.capacity /\ Len(index.batch) <= setup.index_batch
  /\ Len(buffer.queue) <= setup.buffer
  /\ buffer.pc \in {"gather", "write"} => Len(buffer.held) <= setup.max_batch
=============================================================================
