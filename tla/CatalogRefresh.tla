--------------------------- MODULE CatalogRefresh ---------------------------
(***************************************************************************)
(* The import of the model catalogue: CatalogRefresher and its background  *)
(* loop (backends/catalog_refresh.rs, catalog_runtime.rs), the catalogue a *)
(* process holds (LastKnownGoodCatalog in backends/catalog.rs) and the     *)
(* store all replicas share (backends/catalog_store.rs and its PostgreSQL  *)
(* implementation).                                                        *)
(*                                                                         *)
(* A document is its own ETag and its own Last-Modified date; a build of   *)
(* the gateway normalizes it to content, which is what the store is keyed  *)
(* by.  The upstream moves on, and back; whatever is between may drop the  *)
(* validators of an answer.  A call of the store may land and not be heard *)
(* of, or land late.  A process may end at any point, and the next one may *)
(* be of another build.  Ages, intervals and back-off are durations: a     *)
(* refresh may come due whenever the loop waits.                           *)
(***************************************************************************)
EXTENDS Naturals, FiniteSets

CONSTANTS
  Replicas,
  Docs,         \* documents the upstream may serve
  Seed,         \* the document that is bundled, not one of Docs
  Contents, NoContent,
  Builds,
  None,         \* no document, and a validator that is not stated
  MaxMoves,     \* bound: how often the upstream moves
  MaxStops,     \* bound: how many processes end
  MaxRefusals,  \* bound: where the count of refusals saturates
  Configs

Documents == Docs \cup {Seed}
Stated == {"etag", "date"}

ConfigType ==
  [replicas : SUBSET Replicas,
   docs : SUBSET Documents,                \* those the source serves
   content : [Builds -> [Documents -> Contents]],
   builds : SUBSET Builds,
   states : SUBSET SUBSET Stated,          \* the validators an answer may state
   bootstrap : {"Empty", "Seed"},
   durable : BOOLEAN,                      \* PostgreSQL; the store in memory if not
   faults : SUBSET {"source", "store", "late", "unsolicited"}]

ASSUME CatalogAssumption ==
  /\ Seed \notin Docs /\ None \notin Documents /\ NoContent \notin Contents
  /\ MaxMoves \in Nat /\ MaxStops \in Nat /\ MaxRefusals \in Nat \ {0}
  /\ Configs \subseteq ConfigType /\ IsFiniteSet(Replicas)
  /\ \A c \in Configs :
       c.docs # {} /\ c.builds # {} /\ (~c.durable => Cardinality(c.replicas) = 1)

VARIABLES
  conf,
  doc,       \* external: the document the source serves
  moves,     \* how often it has moved
  store,     \* axond_catalog_snapshot and axond_catalog_active
  late,      \* statements of the store given up on, that may still land
  stops,     \* how many processes have ended
  replica,   \* per replica: its refresher
  index,     \* per replica: the content its published price index is of
  evidence   \* history: the content the source had, when it last answered

vars == <<conf, doc, moves, store, late, stops, replica, index, evidence>>

Snapshots == [content : Contents \cup {NoContent},
              etag : Documents \cup {None}, date : Documents \cup {None}]
NoSnapshot == [content |-> NoContent, etag |-> None, date |-> None]

StoreType == [bytes : [Contents -> Documents \cup {None}],   \* the payload of a snapshot
              active : Snapshots, refusals : 0..MaxRefusals]
EmptyStore == [bytes |-> [c \in Contents |-> None], active |-> NoSnapshot, refusals |-> 0]

\* asked is what the request carried, answer what was answered, of document of.
ReplicaType ==
  [pc : {"boot", "seeding", "idle", "asked", "retaining", "confirming", "refusing"},
   build : Builds, active : Snapshots, refusals : 0..MaxRefusals,
   asked : Snapshots, answer : Snapshots, of : Documents \cup {None}]
Fresh(b) == [pc |-> "boot", build |-> b, active |-> NoSnapshot, refusals |-> 0,
             asked |-> NoSnapshot, answer |-> NoSnapshot, of |-> None]

\* The types.
CatalogTypeOK ==
  /\ conf \in Configs /\ doc \in conf.docs
  /\ moves \in 0..MaxMoves /\ stops \in 0..MaxStops
  /\ store \in StoreType /\ late \subseteq Snapshots
  /\ replica \in [Replicas -> ReplicaType]
  /\ index \in [Replicas -> Contents \cup {NoContent}]
  /\ evidence \in [Replicas -> Contents \cup {NoContent}]

Init ==
  /\ conf \in Configs /\ doc \in conf.docs
  /\ moves = 0 /\ stops = 0 /\ store = EmptyStore /\ late = {}
  /\ \E b \in conf.builds : replica = [r \in Replicas |-> Fresh(b)]
  /\ index = [r \in Replicas |-> NoContent]
  /\ evidence = [r \in Replicas |-> NoContent]

-----------------------------------------------------------------------------
(* SourceValidators, LastKnownGoodCatalog *)

Counted(n) == IF n < MaxRefusals THEN n + 1 ELSE n

\* carry_over: a validator that is not stated is not withdrawn.
CarryOver(held, stated) ==
  [held EXCEPT !.etag = IF stated.etag = None THEN @ ELSE stated.etag,
               !.date = IF stated.date = None THEN @ ELSE stated.date]

IsEmpty(v) == v.etag = None /\ v.date = None

\* admit: the validators of new content replace those held.
Admitted(held, snapshot) ==
  IF held.content = snapshot.content THEN CarryOver(held, snapshot) ELSE snapshot

CanConfirmUnchanged(k) == k.active.content # NoContent /\ ~IsEmpty(k.asked)

-----------------------------------------------------------------------------
(* CatalogStore: the store after an operation *)

\* Mutant: a validator the new content does not state is kept from the old one.
BugActivated(s, snapshot, d) ==
  [bytes |-> [s.bytes EXCEPT ![snapshot.content] = IF @ = None THEN d ELSE @],
   active |-> [CarryOver(s.active, snapshot) EXCEPT !.content = snapshot.content],
   refusals |-> 0]

\* activate: the insert and the move of the pointer are one transaction; the
\* payload of content that is there already is not written again.
Activated(s, snapshot, d) ==
  [bytes |-> [s.bytes EXCEPT ![snapshot.content] = IF @ = None THEN d ELSE @],
   active |-> IF s.active.content = snapshot.content
                THEN CarryOver(s.active, snapshot) ELSE snapshot,
   refusals |-> 0]

\* confirm: only if the content is the active one.
Confirmed(s, stated) ==
  IF s.active.content # stated.content THEN s
  ELSE [s EXCEPT !.active = CarryOver(@, stated), !.refusals = 0]

RefusedDurably(s) == [s EXCEPT !.refusals = Counted(@)]

-----------------------------------------------------------------------------
(* CatalogRefresher *)

Becomes(r, k) == replica' = [replica EXCEPT ![r] = k]

\* The outcome is here: the loop waits again, and the status is published.
Publishes(r, k) ==
  /\ Becomes(r, [k EXCEPT !.pc = "idle", !.asked = NoSnapshot, !.answer = NoSnapshot,
                          !.of = None])
  /\ index' = [index EXCEPT ![r] = k.active.content]

\* A refusal is counted in the holder, and then in the store.
Refuses(r, k) ==
  /\ Becomes(r, [k EXCEPT !.pc = "refusing", !.refusals = Counted(@), !.asked = NoSnapshot,
                          !.answer = NoSnapshot, !.of = None])
  /\ UNCHANGED index

\* hydrate: the payload, parsed by this build, is the content it is stored as.
Hydrates(k) ==
  LET c == store.active.content IN conf.content[k.build][store.bytes[c]] = c

\* Mutant: a stored catalogue this build cannot reproduce is read again.
BugLoad(r, ok) ==
  LET k == [replica[r] EXCEPT !.refusals = store.refusals]
  IN /\ replica[r].pc = "boot" /\ ok
     /\ IF store.active = NoSnapshot THEN Publishes(r, k)
        ELSE IF Hydrates(k) THEN Publishes(r, [k EXCEPT !.active = store.active])
        ELSE Becomes(r, [replica[r] EXCEPT !.refusals = Counted(@)]) /\ UNCHANGED index
     /\ UNCHANGED <<conf, doc, moves, store, late, stops, evidence>>

\* restore.  What no longer hydrates is refused, on top of the stored count, and
\* nothing of it is kept.
Load(r, ok) ==
  LET k == [replica[r] EXCEPT !.refusals = store.refusals]
  IN /\ replica[r].pc = "boot" /\ (ok \/ "store" \in conf.faults)
     /\ CASE ~ok -> Refuses(r, replica[r])
          [] ok /\ store.active.content # NoContent /\ Hydrates(k) ->
               Publishes(r, [k EXCEPT !.active = store.active])
          [] ok /\ store.active.content # NoContent /\ ~Hydrates(k) -> Refuses(r, k)
          [] ok /\ store.active.content = NoContent ->
               IF conf.bootstrap = "Empty" THEN Publishes(r, k)
               ELSE Becomes(r, [k EXCEPT !.pc = "seeding"]) /\ UNCHANGED index
     /\ UNCHANGED <<conf, doc, moves, store, late, stops, evidence>>

\* seed_snapshot: its tag is of the excerpt, not of the document it was cut from.
SeedSnapshot(b) == [content |-> conf.content[b][Seed], etag |-> Seed, date |-> None]

\* What became of a call of the store: it landed, and was heard of.
Outcome(landed, heard) ==
  (heard => landed) /\ ("store" \in conf.faults \/ heard)

ImportSeed(r, landed, heard) ==
  LET k == replica[r]  seed == SeedSnapshot(k.build)
  IN /\ k.pc = "seeding" /\ Outcome(landed, heard)
     /\ store' = IF landed THEN Activated(store, seed, Seed) ELSE store
     /\ IF heard THEN Publishes(r, [k EXCEPT !.active = Admitted(@, seed), !.refusals = 0])
        ELSE Refuses(r, k)
     /\ UNCHANGED <<conf, doc, moves, late, stops, evidence>>

\* refresh asks with the validators of what is active.
Ask(r) ==
  LET k == replica[r]
  IN /\ k.pc = "idle"
     /\ Becomes(r, [k EXCEPT !.pc = "asked", !.asked = k.active])
     /\ UNCHANGED <<conf, doc, moves, store, late, stops, index, evidence>>

\* External: the source has not moved from the document asked about. A tag that
\* is sent decides, and the date only without one.
NotModified(v) == IF v.etag # None THEN v.etag = doc ELSE v.date = doc

\* What an answer about document d states.
Validators(c, said) == [content |-> c, etag |-> IF "etag" \in said THEN doc ELSE None,
                        date |-> IF "date" \in said THEN doc ELSE None]

\* The seed source has no date, and nothing drops its tag.
MaySay == IF doc = Seed THEN {{"etag"}} ELSE conf.states

\* The answer is a document, or that there is nothing new.
Answer(r, said) ==
  LET k == replica[r]  c == conf.content[k.build][doc]
  IN /\ k.pc = "asked" /\ said \in MaySay
     /\ evidence' = [evidence EXCEPT ![r] = c]
     /\ Becomes(r, IF NotModified(k.asked)
          THEN [k EXCEPT !.pc = "confirming", !.answer = Validators(k.active.content, said)]
          ELSE [k EXCEPT !.pc = "retaining", !.answer = Validators(c, said), !.of = doc])
     /\ UNCHANGED <<conf, doc, moves, store, late, stops, index>>

\* An intermediary says "not modified" to a question that was not conditional;
\* or the source is down, does not answer in time, or its payload is refused.
Unsolicited(r) ==
  LET k == replica[r]
  IN /\ k.pc = "asked" /\ IsEmpty(k.asked) /\ "unsolicited" \in conf.faults
     /\ Becomes(r, [k EXCEPT !.pc = "confirming"])
     /\ UNCHANGED <<conf, doc, moves, store, late, stops, index, evidence>>

SourceFails(r) ==
  /\ replica[r].pc = "asked" /\ "source" \in conf.faults
  /\ Refuses(r, replica[r])
  /\ UNCHANGED <<conf, doc, moves, store, late, stops, evidence>>

\* retain, then record_refresh: what the store did not take is not admitted.
Retain(r, landed, heard) ==
  LET k == replica[r]
  IN /\ k.pc = "retaining" /\ Outcome(landed, heard)
     /\ store' = IF landed THEN Activated(store, k.answer, k.of) ELSE store
     /\ IF heard THEN Publishes(r, [k EXCEPT !.active = Admitted(@, k.answer), !.refusals = 0])
        ELSE Refuses(r, k)
     /\ UNCHANGED <<conf, doc, moves, late, stops, evidence>>

\* A statement given up on lands later, or never.
MayLand(landed, heard, statement) ==
  late' \in IF landed \/ "late" \notin conf.faults THEN {late} ELSE {late, late \cup {statement}}

\* Whether the store moved its confirmation is not looked at.
Confirm(r, landed, heard) ==
  LET k == replica[r]
  IN /\ k.pc = "confirming" /\ CanConfirmUnchanged(k) /\ Outcome(landed, heard)
     /\ store' = IF landed THEN Confirmed(store, k.answer) ELSE store
     /\ MayLand(landed, heard, k.answer)
     /\ IF heard THEN Publishes(r, [k EXCEPT !.active = CarryOver(@, k.answer), !.refusals = 0])
        ELSE Refuses(r, k)
     /\ UNCHANGED <<conf, doc, moves, stops, evidence>>

\* UnsolicitedUnchanged: the store is not asked, and nothing is kept of it.
RefuseUnchanged(r) ==
  /\ replica[r].pc = "confirming" /\ ~CanConfirmUnchanged(replica[r])
  /\ Refuses(r, replica[r])
  /\ UNCHANGED <<conf, doc, moves, store, late, stops, evidence>>

\* record_refusal_durably: best effort, and then the outcome.
RefuseDurably(r, landed) ==
  /\ replica[r].pc = "refusing" /\ (landed \/ "store" \in conf.faults)
  /\ store' = IF landed THEN RefusedDurably(store) ELSE store
  /\ MayLand(landed, landed, NoSnapshot)
  /\ Publishes(r, replica[r])
  /\ UNCHANGED <<conf, doc, moves, stops, evidence>>

-----------------------------------------------------------------------------
(* The environment *)

LateLands(statement) ==
  /\ statement \in late
  /\ late' = late \ {statement}
  /\ store' = IF statement = NoSnapshot THEN RefusedDurably(store) ELSE Confirmed(store, statement)
  /\ UNCHANGED <<conf, doc, moves, stops, replica, index, evidence>>

Publish(d) ==
  /\ moves < MaxMoves /\ d \in conf.docs \ {doc}
  /\ doc' = d /\ moves' = moves + 1
  /\ UNCHANGED <<conf, store, late, stops, replica, index, evidence>>

\* The process ends, and one of build b starts.
Restart(r, b) ==
  /\ stops < MaxStops /\ stops' = stops + 1
  /\ Becomes(r, Fresh(b))
  /\ store' = IF conf.durable THEN store ELSE EmptyStore
  /\ index' = [index EXCEPT ![r] = NoContent]
  /\ evidence' = [evidence EXCEPT ![r] = NoContent]
  /\ UNCHANGED <<conf, doc, moves, late>>

-----------------------------------------------------------------------------
StoreCall(r, landed, heard) ==
  ImportSeed(r, landed, heard) \/ Retain(r, landed, heard) \/ Confirm(r, landed, heard)

Step(r) ==
  \/ \E ok \in BOOLEAN : Load(r, ok) \/ RefuseDurably(r, ok)
  \/ Ask(r) \/ RefuseUnchanged(r) \/ Unsolicited(r) \/ SourceFails(r)
  \/ \E said \in SUBSET Stated : Answer(r, said)
  \/ \E landed, heard \in BOOLEAN : StoreCall(r, landed, heard)

Next ==
  \/ \E r \in conf.replicas : Step(r) \/ \E b \in conf.builds : Restart(r, b)
  \/ \E statement \in late : LateLands(statement)
  \/ \E d \in Docs : Publish(d)

Spec == Init /\ [][Next]_vars

\* The loop goes on; the source answers, and the store is heard of, now and then.
Fairness ==
  \A r \in Replicas :
    /\ WF_vars(r \in conf.replicas /\ Step(r))
    /\ SF_vars(r \in conf.replicas /\ \E said \in SUBSET Stated : Answer(r, said))
    /\ SF_vars(r \in conf.replicas /\ StoreCall(r, TRUE, TRUE))

FairSpec == Spec /\ Fairness

-----------------------------------------------------------------------------
(* Properties *)

\* Documents that may be imported: what the source serves, and what is bundled.
Imported(c) == c.docs \cup (IF c.bootstrap = "Seed" THEN {Seed} ELSE {})

\* Two documents that were filed as the same content, by whichever builds, are
\* that content to every build to which one of them is.
BuildsAgree(c) ==
  \A d, e \in Imported(c) : \A of, alike, b \in c.builds :
    c.content[of][d] = c.content[alike][e] /\ c.content[b][d] = c.content[of][d]
      => c.content[b][e] = c.content[b][d]

\* A catalogue that reads healthy is the one the source had when it last
\* answered (record_refresh, can_confirm_unchanged): whatever validators were
\* dropped, carried over, confirmed by another replica or adopted from the
\* store, "not modified" never confirms content that has moved, as long as the
\* builds agree on which documents are alike.  And what is active, or requests
\* are priced from, is retained, whatever the store did not take.
ConfirmedIsCurrent ==
  /\ CatalogTypeOK
  /\ store.active.content # NoContent => store.bytes[store.active.content] # None
  /\ \A r \in conf.replicas :
    /\ BuildsAgree(conf) /\ replica[r].pc = "idle" /\ replica[r].refusals = 0
         /\ evidence[r] # NoContent
         => replica[r].active.content = evidence[r]
    /\ index[r] # NoContent => store.bytes[index[r]] # None

\* No refusal is for good (restore, refused): once the upstream and the
\* processes stay, every replica comes to serve what the upstream has, from an
\* empty store, the seed, a stored catalogue its build cannot reproduce, or one
\* another replica has moved.
EventuallyCurrent ==
  <>[](\A r \in conf.replicas : index[r] = conf.content[replica[r].build][doc])
=============================================================================
