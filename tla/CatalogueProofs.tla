-------------------------- MODULE CatalogueProofs ---------------------------
(***************************************************************************)
(* What is proved about the catalogue, for every number of replicas,       *)
(* document, content and build, and for any pattern of faults.             *)
(***************************************************************************)
EXTENDS Catalogue, FiniteSetTheorems, WellFoundedInduction, TLAPS

-----------------------------------------------------------------------------
(* The inductive invariant of the refreshing replicas *)

\* Document d was imported, and a build of the deployment makes content x of it.
FiledAs(c, d, x) == d \in Imported(c) /\ \E b \in c.builds : c.content[b][d] = x

\* The validators of a snapshot are of documents filed as its content.
Filed(c, s) ==
  /\ s.content = NoContent => IsEmpty(s)
  /\ s.etag # None => FiledAs(c, s.etag, s.content)
  /\ s.date # None => FiledAs(c, s.date, s.content)

\* And they are of documents that build b files as that content.
FiledBy(c, b, s) ==
  /\ s.etag # None => c.content[b][s.etag] = s.content
  /\ s.date # None => c.content[b][s.date] = s.content

\* The payload of what is active is kept, and every payload is of a document
\* filed as the content it is stored as.
StoreInv(c, s) ==
  /\ s.active.content # NoContent => s.bytes[s.active.content] # None
  /\ \A x \in Contents : s.bytes[x] # None => FiledAs(c, s.bytes[x], x)
  /\ Filed(c, s.active)

\* What a replica holds, retained: its own catalogue and the one it prices from.
Retained(c, bytes, k, i) ==
  /\ k.build \in c.builds
  /\ k.active.content # NoContent => bytes[k.active.content] # None
  /\ i # NoContent => bytes[i] # None
  /\ Filed(c, k.active)
  /\ k.pc = "seeding" => c.bootstrap = "Seed"
  /\ k.pc \in {"asked", "retaining", "confirming"} => k.asked = k.active

\* An answer on its way is about the content it says it is.
Answered(c, k, e) ==
  /\ k.pc = "retaining" =>
       /\ k.of \in Imported(c) /\ c.content[k.build][k.of] = k.answer.content
       /\ Filed(c, k.answer) /\ FiledBy(c, k.build, k.answer)
       /\ k.answer.content \in Contents /\ k.answer.content = e
  /\ k.pc = "confirming" /\ CanConfirmUnchanged(k) =>
       k.answer.content = k.active.content /\ Filed(c, k.answer)
  /\ k.pc \in {"boot", "seeding"} => e = NoContent
  /\ k.pc = "refusing" => k.refusals # 0

\* While the builds agree: what the replica asks with is of documents its own
\* build files as what it holds, and what it confirms is what the source has.
Current(c, k, e) ==
  /\ FiledBy(c, k.build, k.active)
  /\ k.pc = "confirming" /\ CanConfirmUnchanged(k) =>
       FiledBy(c, k.build, k.answer) /\ k.active.content = e
  /\ k.pc = "idle" /\ k.refusals = 0 /\ e # NoContent => k.active.content = e

RefreshInv ==
  /\ CatalogTypeOK
  /\ StoreInv(conf, store)
  /\ \A s \in late : Filed(conf, s)
  /\ \A r \in conf.replicas :
       /\ Retained(conf, store.bytes, replica[r], index[r])
       /\ Answered(conf, replica[r], evidence[r])
       /\ BuildsAgree(conf) => Current(conf, replica[r], evidence[r])

-----------------------------------------------------------------------------
(* Snapshots and the store *)

\* A snapshot and its fields.
LEMMA SnapshotParts ==
  ASSUME NEW s \in Snapshots
  PROVE  /\ s.content \in Contents \cup {NoContent}
         /\ s.etag \in Documents \cup {None} /\ s.date \in Documents \cup {None}
BY DEF Snapshots

\* carry_over keeps the content, and each validator is one of the two.
LEMMA CarryOverParts ==
  ASSUME NEW held \in Snapshots, NEW stated \in Snapshots
  PROVE  /\ CarryOver(held, stated) \in Snapshots
         /\ CarryOver(held, stated).content = held.content
         /\ CarryOver(held, stated).etag = IF stated.etag = None THEN held.etag ELSE stated.etag
         /\ CarryOver(held, stated).date = IF stated.date = None THEN held.date ELSE stated.date
BY DEF CarryOver, Snapshots

\* Carried over onto the same content, validators stay of what is held.
LEMMA CarryOverFiled ==
  ASSUME NEW c, NEW held \in Snapshots, NEW stated \in Snapshots,
         Filed(c, held), Filed(c, stated), held.content = stated.content
  PROVE  /\ Filed(c, CarryOver(held, stated))
         /\ \A b : FiledBy(c, b, held) /\ FiledBy(c, b, stated)
                     => FiledBy(c, b, CarryOver(held, stated))
<1>1. PICK s \in Snapshots : s = CarryOver(held, stated)
  BY CarryOverParts
<1>2. /\ s.content = held.content
      /\ s.etag = (IF stated.etag = None THEN held.etag ELSE stated.etag)
      /\ s.date = (IF stated.date = None THEN held.date ELSE stated.date)
  BY <1>1, CarryOverParts
<1>3. Filed(c, s)
  BY <1>2 DEF Filed, IsEmpty
<1>4. \A b : FiledBy(c, b, held) /\ FiledBy(c, b, stated) => FiledBy(c, b, s)
  BY <1>2 DEF FiledBy
<1> QED BY <1>1, <1>3, <1>4

\* Nothing that is retained is lost.
Grows(bytes, later) == \A x \in Contents : bytes[x] # None => later[x] # None

\* activate keeps the store sound, whatever was active.
LEMMA ActivatedStore ==
  ASSUME NEW c, NEW s \in StoreType, StoreInv(c, s), NEW snapshot \in Snapshots,
         snapshot.content \in Contents, Filed(c, snapshot), NEW d \in Documents,
         FiledAs(c, d, snapshot.content)
  PROVE  /\ Activated(s, snapshot, d) \in StoreType
         /\ StoreInv(c, Activated(s, snapshot, d))
         /\ Grows(s.bytes, Activated(s, snapshot, d).bytes)
         /\ Activated(s, snapshot, d).bytes[snapshot.content] # None
<1> DEFINE bytes == [s.bytes EXCEPT ![snapshot.content] = IF @ = None THEN d ELSE @]
           active == IF s.active.content = snapshot.content
                       THEN CarryOver(s.active, snapshot) ELSE snapshot
<1>1. /\ s.bytes \in [Contents -> Documents \cup {None}] /\ s.active \in Snapshots
      /\ s.refusals \in 0..MaxRefusals
  BY DEF StoreType
<1>2. d # None /\ NoContent \notin Contents
  BY CatalogAssumption
<1>3. /\ bytes \in [Contents -> Documents \cup {None}]
      /\ bytes[snapshot.content] = IF s.bytes[snapshot.content] = None THEN d
                                   ELSE s.bytes[snapshot.content]
      /\ \A x \in Contents : x # snapshot.content => bytes[x] = s.bytes[x]
  BY <1>1
<1>4. /\ active \in Snapshots /\ active.content = snapshot.content /\ Filed(c, active)
  BY <1>1, CarryOverParts, CarryOverFiled DEF StoreInv
<1>5. Activated(s, snapshot, d) = [bytes |-> bytes, active |-> active, refusals |-> 0]
  BY DEF Activated
<1> HIDE DEF bytes, active
<1>6. PICK t : t = [bytes |-> bytes, active |-> active, refusals |-> 0]
  OBVIOUS
<1>7. t.bytes = bytes /\ t.active = active /\ t.refusals = 0
  BY <1>6
<1>8. 0 \in 0..MaxRefusals
  BY CatalogAssumption
<1>9. t \in StoreType
  BY <1>3, <1>4, <1>6, <1>8 DEF StoreType
<1>10. bytes[snapshot.content] # None
  BY <1>2, <1>3
<1>11. \A x \in Contents : s.bytes[x] # None => bytes[x] # None
  BY <1>3, <1>10
<1>12. \A x \in Contents : bytes[x] # None => FiledAs(c, bytes[x], x)
  <2> SUFFICES ASSUME NEW x \in Contents, bytes[x] # None
               PROVE  FiledAs(c, bytes[x], x)
    OBVIOUS
  <2>1. s.bytes[x] # None => FiledAs(c, s.bytes[x], x)
    BY DEF StoreInv
  <2> QED BY <1>3, <2>1
<1>13. StoreInv(c, t)
  BY <1>4, <1>7, <1>10, <1>12 DEF StoreInv
<1> QED BY <1>5, <1>6, <1>7, <1>9, <1>10, <1>11, <1>13 DEF Grows

\* confirm moves validators of the active content only.
LEMMA ConfirmedStore ==
  ASSUME NEW c, NEW s \in StoreType, StoreInv(c, s), NEW stated \in Snapshots, Filed(c, stated)
  PROVE  /\ Confirmed(s, stated) \in StoreType /\ StoreInv(c, Confirmed(s, stated))
         /\ Confirmed(s, stated).bytes = s.bytes
<1>1. CASE s.active.content # stated.content
  BY <1>1 DEF Confirmed
<1>2. CASE s.active.content = stated.content
  <2>1. /\ s.bytes \in [Contents -> Documents \cup {None}] /\ s.active \in Snapshots
        /\ 0 \in 0..MaxRefusals
    BY CatalogAssumption DEF StoreType
  <2>2. PICK a : a = CarryOver(s.active, stated)
    OBVIOUS
  <2>3. a \in Snapshots /\ a.content = s.active.content /\ Filed(c, a)
    BY <1>2, <2>1, <2>2, CarryOverParts, CarryOverFiled DEF StoreInv
  <2>4. PICK t : t = [s EXCEPT !.active = a, !.refusals = 0]
    OBVIOUS
  <2>5. t \in StoreType /\ t.bytes = s.bytes /\ t.active = a
    BY <2>1, <2>3, <2>4 DEF StoreType
  <2>6. Confirmed(s, stated) = t
    BY <1>2, <2>2, <2>4 DEF Confirmed
  <2>7. StoreInv(c, t)
    BY <2>3, <2>5 DEF StoreInv
  <2> QED BY <2>5, <2>6, <2>7
<1> QED BY <1>1, <1>2

\* A refusal is counted, up to the bound, and never back to none.
LEMMA CountedType ==
  ASSUME NEW n \in 0..MaxRefusals
  PROVE  Counted(n) \in 0..MaxRefusals /\ Counted(n) # 0
BY CatalogAssumption DEF Counted

\* record_refusal leaves the catalogue of the store alone.
LEMMA RefusedStore ==
  ASSUME NEW c, NEW s \in StoreType, StoreInv(c, s)
  PROVE  /\ RefusedDurably(s) \in StoreType /\ StoreInv(c, RefusedDurably(s))
         /\ RefusedDurably(s).bytes = s.bytes
<1>1. s.refusals \in 0..MaxRefusals
  BY DEF StoreType
<1>2. PICK n \in 0..MaxRefusals : n = Counted(s.refusals)
  BY <1>1, CountedType
<1>3. PICK t : t = [s EXCEPT !.refusals = n]
  OBVIOUS
<1>4. t \in StoreType /\ t.bytes = s.bytes /\ t.active = s.active
  BY <1>2, <1>3 DEF StoreType
<1>5. RefusedDurably(s) = t
  BY <1>2, <1>3 DEF RefusedDurably
<1> QED BY <1>4, <1>5 DEF StoreInv

-----------------------------------------------------------------------------
(* One replica's step *)

\* What is asked of the record a replica becomes.
Sound(c, bytes, k, e, i) ==
  /\ Retained(c, bytes, k, i) /\ Answered(c, k, e)
  /\ BuildsAgree(c) => Current(c, k, e)

\* A replica that stays is sound in a store that only grows.
LEMMA SoundInGrown ==
  ASSUME NEW c, NEW bytes, NEW later, Grows(bytes, later), NEW k \in ReplicaType,
         NEW e, NEW i \in Contents \cup {NoContent}, Sound(c, bytes, k, e, i)
  PROVE  Sound(c, later, k, e, i)
<1>1. k.active.content \in Contents \cup {NoContent}
  BY SnapshotParts DEF ReplicaType
<1> QED BY <1>1 DEF Sound, Retained, Grows

\* A step of one replica: what it became is sound, and the store grew.
LEMMA OneMoves ==
  ASSUME RefreshInv, NEW r \in conf.replicas, NEW k \in ReplicaType,
         NEW e \in Contents \cup {NoContent}, NEW i \in Contents \cup {NoContent},
         UNCHANGED <<conf, doc, moves, stops>>,
         Becomes(r, k), index' = [index EXCEPT ![r] = i], evidence' = [evidence EXCEPT ![r] = e],
         store' \in StoreType, StoreInv(conf, store'), Grows(store.bytes, store'.bytes),
         late' \subseteq Snapshots, \A s \in late' : Filed(conf, s),
         Sound(conf, store'.bytes, k, e, i)
  PROVE  RefreshInv'
<1>1. /\ replica \in [Replicas -> ReplicaType] /\ index \in [Replicas -> Contents \cup {NoContent}]
      /\ evidence \in [Replicas -> Contents \cup {NoContent}] /\ conf \in Configs
  BY DEF RefreshInv, CatalogTypeOK
<1>2. conf.replicas \subseteq Replicas
  BY <1>1, CatalogAssumption DEF ConfigType
<1>3. /\ replica' \in [Replicas -> ReplicaType] /\ index' \in [Replicas -> Contents \cup {NoContent}]
      /\ evidence' \in [Replicas -> Contents \cup {NoContent}]
  BY <1>1, <1>2 DEF Becomes
<1>4. CatalogTypeOK'
  BY <1>3 DEF RefreshInv, CatalogTypeOK
<1>5. ASSUME NEW q \in conf.replicas
      PROVE  Sound(conf, store'.bytes, replica'[q], evidence'[q], index'[q])
  <2>1. CASE q = r
    <3>1. replica'[q] = k /\ evidence'[q] = e /\ index'[q] = i
      BY <1>1, <1>2, <2>1 DEF Becomes
    <3> QED BY <3>1
  <2>2. CASE q # r
    <3>1. replica'[q] = replica[q] /\ evidence'[q] = evidence[q] /\ index'[q] = index[q]
      BY <1>1, <1>2, <2>2 DEF Becomes
    <3>2. Sound(conf, store.bytes, replica[q], evidence[q], index[q])
      BY DEF RefreshInv, Sound
    <3>3. replica[q] \in ReplicaType /\ index[q] \in Contents \cup {NoContent}
      BY <1>1, <1>2
    <3>4. Sound(conf, store'.bytes, replica[q], evidence[q], index[q])
      BY <3>2, <3>3, SoundInGrown
    <3> QED BY <3>1, <3>4
  <2> QED BY <2>1, <2>2
<1>6. ASSUME NEW q \in conf.replicas
      PROVE  /\ Retained(conf, store'.bytes, replica'[q], index'[q])
             /\ Answered(conf, replica'[q], evidence'[q])
             /\ BuildsAgree(conf) => Current(conf, replica'[q], evidence'[q])
  BY <1>5 DEF Sound
<1> QED BY <1>4, <1>6 DEF RefreshInv

\* The record of a replica, and what it holds, at the start of its step.
LEMMA AtStart ==
  ASSUME RefreshInv, NEW r \in conf.replicas
  PROVE  /\ replica[r] \in ReplicaType /\ r \in Replicas
         /\ index[r] \in Contents \cup {NoContent} /\ evidence[r] \in Contents \cup {NoContent}
         /\ Sound(conf, store.bytes, replica[r], evidence[r], index[r])
         /\ index = [index EXCEPT ![r] = index[r]] /\ evidence = [evidence EXCEPT ![r] = evidence[r]]
         /\ Grows(store.bytes, store.bytes) /\ late \subseteq Snapshots
         /\ conf \in ConfigType /\ doc \in conf.docs /\ conf.docs \subseteq Documents
         /\ store \in StoreType /\ StoreInv(conf, store) /\ \A s \in late : Filed(conf, s)
         /\ conf.builds \subseteq Builds /\ conf.content \in [Builds -> [Documents -> Contents]]
<1>1. /\ replica \in [Replicas -> ReplicaType] /\ index \in [Replicas -> Contents \cup {NoContent}]
      /\ evidence \in [Replicas -> Contents \cup {NoContent}] /\ conf \in ConfigType
      /\ doc \in conf.docs /\ store \in StoreType /\ late \subseteq Snapshots
  BY CatalogAssumption DEF RefreshInv, CatalogTypeOK
<1>2. /\ conf.replicas \subseteq Replicas /\ conf.docs \subseteq Documents
      /\ conf.builds \subseteq Builds /\ conf.content \in [Builds -> [Documents -> Contents]]
  BY <1>1 DEF ConfigType
<1>3. Sound(conf, store.bytes, replica[r], evidence[r], index[r])
  BY DEF RefreshInv, Sound
<1>4. StoreInv(conf, store) /\ \A s \in late : Filed(conf, s)
  BY DEF RefreshInv
<1> QED BY <1>1, <1>2, <1>3, <1>4 DEF Grows

\* The record a replica waits with.
Waiting(k) ==
  [k EXCEPT !.pc = "idle", !.asked = NoSnapshot, !.answer = NoSnapshot, !.of = None]
Refusing(k) ==
  [k EXCEPT !.pc = "refusing", !.refusals = Counted(@), !.asked = NoSnapshot,
            !.answer = NoSnapshot, !.of = None]

LEMMA NoSnapshotType == NoSnapshot \in Snapshots /\ \A c : Filed(c, NoSnapshot)
BY DEF NoSnapshot, Snapshots, Filed, IsEmpty

LEMMA WaitingParts ==
  ASSUME NEW k \in ReplicaType
  PROVE  /\ Waiting(k) \in ReplicaType
         /\ Waiting(k).pc = "idle" /\ Waiting(k).active = k.active
         /\ Waiting(k).build = k.build /\ Waiting(k).refusals = k.refusals
BY NoSnapshotType DEF Waiting, ReplicaType

LEMMA RefusingParts ==
  ASSUME NEW k \in ReplicaType
  PROVE  /\ Refusing(k) \in ReplicaType
         /\ Refusing(k).pc = "refusing" /\ Refusing(k).active = k.active
         /\ Refusing(k).build = k.build /\ Refusing(k).refusals # 0
<1>1. k.refusals \in 0..MaxRefusals
  BY DEF ReplicaType
<1>2. PICK n \in 0..MaxRefusals : n = Counted(k.refusals) /\ n # 0
  BY <1>1, CountedType
<1>3. Refusing(k) = [k EXCEPT !.pc = "refusing", !.refusals = n, !.asked = NoSnapshot,
                               !.answer = NoSnapshot, !.of = None]
  BY <1>2 DEF Refusing
<1> QED BY <1>2, <1>3, NoSnapshotType DEF ReplicaType

\* A replica that waits is sound when what it holds is, and it is what the
\* source had, or a refusal says otherwise.
LEMMA WaitingSound ==
  ASSUME NEW c, NEW bytes, NEW k \in ReplicaType, NEW e,
         k.build \in c.builds, Filed(c, k.active),
         k.active.content # NoContent => bytes[k.active.content] # None,
         BuildsAgree(c) => FiledBy(c, k.build, k.active),
         BuildsAgree(c) /\ k.refusals = 0 /\ e # NoContent => k.active.content = e
  PROVE  Sound(c, bytes, Waiting(k), e, k.active.content)
<1>1. PICK w \in ReplicaType : w = Waiting(k)
  BY WaitingParts
<1>2. /\ w.pc = "idle" /\ w.active = k.active /\ w.build = k.build /\ w.refusals = k.refusals
  BY <1>1, WaitingParts
<1>3. Retained(c, bytes, w, k.active.content)
  BY <1>2 DEF Retained
<1>4. Answered(c, w, e)
  BY <1>2 DEF Answered
<1>5. BuildsAgree(c) => Current(c, w, e)
  BY <1>2 DEF Current
<1> QED BY <1>1, <1>3, <1>4, <1>5 DEF Sound

\* A refused one keeps what it held.
LEMMA RefusingSound ==
  ASSUME NEW c, NEW bytes, NEW k \in ReplicaType, NEW e, NEW i,
         k.build \in c.builds, Filed(c, k.active),
         k.active.content # NoContent => bytes[k.active.content] # None,
         i # NoContent => bytes[i] # None,
         BuildsAgree(c) => FiledBy(c, k.build, k.active)
  PROVE  Sound(c, bytes, Refusing(k), e, i)
<1>1. PICK w \in ReplicaType : w = Refusing(k)
  BY RefusingParts
<1>2. /\ w.pc = "refusing" /\ w.active = k.active /\ w.build = k.build /\ w.refusals # 0
  BY <1>1, RefusingParts
<1>3. Retained(c, bytes, w, i)
  BY <1>2 DEF Retained
<1>4. Answered(c, w, e)
  BY <1>2 DEF Answered
<1>5. BuildsAgree(c) => Current(c, w, e)
  BY <1>2 DEF Current
<1> QED BY <1>1, <1>3, <1>4, <1>5 DEF Sound

\* Both as steps.
LEMMA PublishMoves ==
  ASSUME RefreshInv, NEW r \in conf.replicas, NEW k \in ReplicaType, Publishes(r, k),
         UNCHANGED <<conf, doc, moves, stops, evidence>>,
         store' \in StoreType, StoreInv(conf, store'), Grows(store.bytes, store'.bytes),
         late' \subseteq Snapshots, \A s \in late' : Filed(conf, s),
         k.build \in conf.builds, Filed(conf, k.active),
         k.active.content # NoContent => store'.bytes[k.active.content] # None,
         BuildsAgree(conf) => FiledBy(conf, k.build, k.active),
         BuildsAgree(conf) /\ k.refusals = 0 /\ evidence[r] # NoContent
           => k.active.content = evidence[r]
  PROVE  RefreshInv'
<1>1. PICK e \in Contents \cup {NoContent} :
        e = evidence[r] /\ evidence' = [evidence EXCEPT ![r] = e]
  BY AtStart
<1>2. PICK w \in ReplicaType : w = Waiting(k)
  BY WaitingParts
<1>3. Becomes(r, w) /\ index' = [index EXCEPT ![r] = k.active.content]
  BY <1>2 DEF Publishes, Waiting
<1>4. PICK i \in Contents \cup {NoContent} : i = k.active.content
  BY SnapshotParts DEF ReplicaType
<1>5. Sound(conf, store'.bytes, w, e, i)
  BY <1>1, <1>2, <1>4, WaitingSound
<1> QED BY <1>1, <1>3, <1>4, <1>5, OneMoves

LEMMA RefuseMoves ==
  ASSUME RefreshInv, NEW r \in conf.replicas, NEW k \in ReplicaType, Refuses(r, k),
         UNCHANGED <<conf, doc, moves, stops, evidence>>,
         store' \in StoreType, StoreInv(conf, store'), Grows(store.bytes, store'.bytes),
         late' \subseteq Snapshots, \A s \in late' : Filed(conf, s),
         k.build = replica[r].build, k.active = replica[r].active
  PROVE  RefreshInv'
<1>1. PICK e \in Contents \cup {NoContent} :
        e = evidence[r] /\ evidence' = [evidence EXCEPT ![r] = e]
  BY AtStart
<1>2. PICK w \in ReplicaType : w = Refusing(k)
  BY RefusingParts
<1>3. Becomes(r, w) /\ UNCHANGED index
  BY <1>2 DEF Refuses, Refusing
<1>4. PICK i \in Contents \cup {NoContent} : i = index[r] /\ index = [index EXCEPT ![r] = i]
  BY AtStart
<1>5. Sound(conf, store.bytes, replica[r], evidence[r], index[r]) /\ replica[r] \in ReplicaType
  BY AtStart
<1>6. Sound(conf, store'.bytes, replica[r], e, i)
  BY <1>1, <1>4, <1>5, SoundInGrown
<1>7. /\ k.build \in conf.builds /\ Filed(conf, k.active)
      /\ k.active.content # NoContent => store'.bytes[k.active.content] # None
      /\ i # NoContent => store'.bytes[i] # None
      /\ BuildsAgree(conf) => FiledBy(conf, k.build, k.active)
  BY <1>6 DEF Sound, Retained, Current
<1>8. Sound(conf, store'.bytes, w, e, i)
  BY <1>2, <1>7, RefusingSound
<1> QED BY <1>1, <1>3, <1>4, <1>8, OneMoves

\* A stored catalogue that hydrates is, while the builds agree, one whose
\* validators this build can ask with.
LEMMA HydratedFiled ==
  ASSUME NEW c, NEW s \in StoreType, StoreInv(c, s), BuildsAgree(c), NEW b \in c.builds,
         s.active.content # NoContent, c.content[b][s.bytes[s.active.content]] = s.active.content
  PROVE  FiledBy(c, b, s.active)
<1>1. PICK x : x = s.active.content
  OBVIOUS
<1>2. x \in Contents /\ s.bytes[x] # None
  BY <1>1, SnapshotParts DEF StoreType, StoreInv
<1>3. PICK d : d = s.bytes[x]
  OBVIOUS
<1>4. FiledAs(c, d, x) /\ c.content[b][d] = x
  BY <1>1, <1>2, <1>3 DEF StoreInv
<1>5. ASSUME NEW v, FiledAs(c, v, x)
      PROVE  c.content[b][v] = x
  BY <1>4, <1>5 DEF BuildsAgree, FiledAs
<1>6. Filed(c, s.active)
  BY DEF StoreInv
<1> QED BY <1>1, <1>5, <1>6 DEF Filed, FiledBy

LEMMA LoadKeeps ==
  ASSUME RefreshInv, NEW r \in conf.replicas, NEW ok \in BOOLEAN, Load(r, ok)
  PROVE  RefreshInv'
<1>1. UNCHANGED <<conf, doc, moves, store, late, stops, evidence>> /\ replica[r].pc = "boot"
  BY DEF Load
<1>2. /\ store' \in StoreType /\ StoreInv(conf, store') /\ Grows(store.bytes, store'.bytes)
      /\ late' \subseteq Snapshots /\ \A s \in late' : Filed(conf, s)
      /\ replica[r] \in ReplicaType
      /\ Sound(conf, store.bytes, replica[r], evidence[r], index[r])
  BY <1>1, AtStart
<1>3. PICK k : k = [replica[r] EXCEPT !.refusals = store.refusals]
  OBVIOUS
<1>4. /\ k \in ReplicaType /\ k.build = replica[r].build /\ k.active = replica[r].active
      /\ k.pc = "boot"
  BY <1>1, <1>2, <1>3 DEF ReplicaType, StoreType
<1>5. evidence[r] = NoContent /\ k.build \in conf.builds
  BY <1>1, <1>2, <1>4 DEF Sound, Answered, Retained
<1>6. CASE ~ok
  BY <1>1, <1>2, <1>6, RefuseMoves DEF Load
<1>7. CASE ok /\ store.active.content # NoContent /\ Hydrates(k)
  <2>1. PICK a \in Snapshots : a = store.active
    BY <1>2, <1>1 DEF StoreType
  <2>2. PICK w : w = [k EXCEPT !.active = a]
    OBVIOUS
  <2>3. w \in ReplicaType /\ w.build = k.build /\ w.active = a
    BY <1>4, <2>1, <2>2 DEF ReplicaType
  <2>4. Publishes(r, w)
    BY <1>3, <1>7, <2>1, <2>2 DEF Load
  <2>5. Filed(conf, a) /\ (a.content # NoContent => store'.bytes[a.content] # None)
    BY <1>1, <1>2, <2>1 DEF StoreInv
  <2>6. BuildsAgree(conf) => FiledBy(conf, w.build, a)
    BY <1>1, <1>2, <1>5, <1>7, <2>1, <2>3, HydratedFiled DEF Hydrates
  <2> QED BY <1>1, <1>2, <1>5, <2>3, <2>4, <2>5, <2>6, PublishMoves
<1>8. CASE ok /\ store.active.content # NoContent /\ ~Hydrates(k)
  <2>1. Refuses(r, k)
    BY <1>3, <1>8 DEF Load
  <2> QED BY <1>1, <1>2, <1>4, <2>1, RefuseMoves
<1>9. CASE ok /\ store.active.content = NoContent
  <2>1. /\ Filed(conf, k.active) /\ (k.active.content # NoContent => store'.bytes[k.active.content] # None)
        /\ BuildsAgree(conf) => FiledBy(conf, k.build, k.active)
        /\ index[r] # NoContent => store'.bytes[index[r]] # None
    BY <1>1, <1>2, <1>4 DEF Sound, Retained, Current
  <2>2. CASE conf.bootstrap = "Empty"
    <3>1. Publishes(r, k)
      BY <1>3, <1>9, <2>2 DEF Load
    <3> QED BY <1>1, <1>2, <1>4, <1>5, <2>1, <3>1, PublishMoves
  <2>3. CASE conf.bootstrap # "Empty"
    <3>1. conf.bootstrap = "Seed"
      BY <2>3, AtStart DEF ConfigType
    <3>2. PICK w : w = [k EXCEPT !.pc = "seeding"]
      OBVIOUS
    <3>3. Becomes(r, w) /\ UNCHANGED index
      BY <1>3, <1>9, <2>3, <3>2 DEF Load
    <3>4. w \in ReplicaType /\ w.pc = "seeding" /\ w.active = k.active /\ w.build = k.build
      BY <1>4, <3>2 DEF ReplicaType
    <3>5. Sound(conf, store'.bytes, w, evidence[r], index[r])
      BY <1>5, <2>1, <3>1, <3>4 DEF Sound, Retained, Answered, Current
    <3>6. PICK e \in Contents \cup {NoContent}, i \in Contents \cup {NoContent} :
            /\ e = evidence[r] /\ evidence = [evidence EXCEPT ![r] = e]
            /\ i = index[r] /\ index = [index EXCEPT ![r] = i]
      BY AtStart
    <3> QED BY <1>1, <1>2, <3>3, <3>4, <3>5, <3>6, OneMoves
  <2> QED BY <2>2, <2>3
<1> QED BY <1>6, <1>7, <1>8, <1>9

\* admit: what is held is the new content, with validators of it.
LEMMA AdmittedFiled ==
  ASSUME NEW c, NEW held \in Snapshots, NEW snapshot \in Snapshots,
         Filed(c, held), Filed(c, snapshot)
  PROVE  /\ Admitted(held, snapshot) \in Snapshots
         /\ Admitted(held, snapshot).content = snapshot.content
         /\ Filed(c, Admitted(held, snapshot))
         /\ \A b : FiledBy(c, b, held) /\ FiledBy(c, b, snapshot)
                     => FiledBy(c, b, Admitted(held, snapshot))
<1>1. CASE held.content = snapshot.content
  BY <1>1, CarryOverParts, CarryOverFiled DEF Admitted
<1>2. CASE held.content # snapshot.content
  BY <1>2 DEF Admitted
<1> QED BY <1>1, <1>2

\* An import that the store is asked to keep: the seed, or an answer.  It is
\* admitted only when the store was heard to have it.
LEMMA ImportMoves ==
  ASSUME RefreshInv, NEW r \in conf.replicas, NEW snapshot \in Snapshots, NEW d \in Documents,
         NEW landed \in BOOLEAN, NEW heard \in BOOLEAN, Outcome(landed, heard),
         snapshot.content \in Contents, Filed(conf, snapshot), FiledAs(conf, d, snapshot.content),
         FiledBy(conf, replica[r].build, snapshot),
         evidence[r] # NoContent => snapshot.content = evidence[r],
         store' = IF landed THEN Activated(store, snapshot, d) ELSE store,
         IF heard
           THEN Publishes(r, [replica[r] EXCEPT !.active = Admitted(@, snapshot), !.refusals = 0])
           ELSE Refuses(r, replica[r]),
         UNCHANGED <<conf, doc, moves, late, stops, evidence>>
  PROVE  RefreshInv'
<1>1. /\ replica[r] \in ReplicaType /\ store \in StoreType /\ StoreInv(conf, store)
      /\ late' \subseteq Snapshots /\ \A s \in late' : Filed(conf, s)
      /\ Sound(conf, store.bytes, replica[r], evidence[r], index[r])
  BY AtStart
<1>2. /\ store' \in StoreType /\ StoreInv(conf, store') /\ Grows(store.bytes, store'.bytes)
      /\ landed => store'.bytes[snapshot.content] # None
  BY <1>1, ActivatedStore, AtStart
<1>3. CASE ~heard
  BY <1>1, <1>2, <1>3, RefuseMoves
<1>4. CASE heard
  <2>1. PICK held \in Snapshots : held = replica[r].active
    BY <1>1 DEF ReplicaType
  <2>2. Filed(conf, held) /\ replica[r].build \in conf.builds
    BY <1>1, <2>1 DEF Sound, Retained
  <2>3. PICK a : a = Admitted(held, snapshot)
    OBVIOUS
  <2>4. /\ a \in Snapshots /\ a.content = snapshot.content /\ Filed(conf, a)
        /\ BuildsAgree(conf) => FiledBy(conf, replica[r].build, a)
    BY <1>1, <2>1, <2>2, <2>3, AdmittedFiled DEF Sound, Current
  <2>5. PICK w : w = [replica[r] EXCEPT !.active = a, !.refusals = 0]
    OBVIOUS
  <2>6. w \in ReplicaType /\ w.active = a /\ w.build = replica[r].build
    <3>1. 0 \in 0..MaxRefusals
      BY CatalogAssumption
    <3> QED BY <1>1, <2>4, <2>5, <3>1 DEF ReplicaType
  <2>7. Publishes(r, w)
    BY <1>4, <2>1, <2>3, <2>5
  <2>8. landed
    BY <1>4 DEF Outcome
  <2> QED BY <1>1, <1>2, <2>2, <2>4, <2>6, <2>7, <2>8, PublishMoves
<1> QED BY <1>3, <1>4

LEMMA ImportSeedKeeps ==
  ASSUME RefreshInv, NEW r \in conf.replicas, NEW landed \in BOOLEAN, NEW heard \in BOOLEAN,
         ImportSeed(r, landed, heard)
  PROVE  RefreshInv'
<1>1. /\ replica[r] \in ReplicaType /\ Sound(conf, store.bytes, replica[r], evidence[r], index[r])
      /\ conf.builds \subseteq Builds /\ conf.content \in [Builds -> [Documents -> Contents]]
  BY AtStart
<1>2. replica[r].pc = "seeding"
  BY DEF ImportSeed
<1>3. /\ conf.bootstrap = "Seed" /\ evidence[r] = NoContent /\ replica[r].build \in conf.builds
  BY <1>1, <1>2 DEF Sound, Retained, Answered
<1>4. PICK b \in conf.builds : b = replica[r].build
  BY <1>3
<1>5. PICK x \in Contents : x = conf.content[b][Seed]
  BY <1>1 DEF Documents
<1>6. Seed \in Documents /\ Seed # None /\ Seed \in Imported(conf)
  BY <1>3, CatalogAssumption DEF Documents, Imported
<1>7. PICK s : s = SeedSnapshot(b)
  OBVIOUS
<1>8. s = [content |-> x, etag |-> Seed, date |-> None]
  BY <1>5, <1>7 DEF SeedSnapshot
<1>9. s \in Snapshots /\ s.content = x /\ s.etag = Seed /\ s.date = None
  BY <1>6, <1>8 DEF Snapshots
<1>10. x # NoContent
  BY CatalogAssumption
<1>11. FiledAs(conf, Seed, x)
  BY <1>5, <1>6 DEF FiledAs
<1>12. Filed(conf, s) /\ FiledBy(conf, b, s)
  BY <1>5, <1>9, <1>10, <1>11 DEF Filed, FiledBy
<1> QED BY <1>3, <1>4, <1>6, <1>7, <1>9, <1>11, <1>12, ImportMoves DEF ImportSeed

LEMMA RetainKeeps ==
  ASSUME RefreshInv, NEW r \in conf.replicas, NEW landed \in BOOLEAN, NEW heard \in BOOLEAN,
         Retain(r, landed, heard)
  PROVE  RefreshInv'
<1>1. /\ replica[r] \in ReplicaType /\ Sound(conf, store.bytes, replica[r], evidence[r], index[r])
      /\ conf \in ConfigType /\ conf.docs \subseteq Documents
  BY AtStart
<1>2. replica[r].pc = "retaining"
  BY DEF Retain
<1>3. PICK s, d : s \in Snapshots /\ s = replica[r].answer /\ d = replica[r].of
  BY <1>1 DEF ReplicaType
<1>4. /\ d \in Imported(conf) /\ conf.content[replica[r].build][d] = s.content
      /\ Filed(conf, s) /\ FiledBy(conf, replica[r].build, s)
      /\ s.content \in Contents /\ s.content = evidence[r] /\ replica[r].build \in conf.builds
  BY <1>1, <1>2, <1>3 DEF Sound, Answered, Retained
<1>5. d \in Documents
  BY <1>1, <1>4 DEF Imported, Documents
<1>6. FiledAs(conf, d, s.content)
  BY <1>4 DEF FiledAs
<1> QED BY <1>3, <1>4, <1>5, <1>6, ImportMoves DEF Retain

LEMMA AskKeeps ==
  ASSUME RefreshInv, NEW r \in conf.replicas, Ask(r)
  PROVE  RefreshInv'
<1>1. /\ replica[r] \in ReplicaType /\ Sound(conf, store.bytes, replica[r], evidence[r], index[r])
      /\ store \in StoreType /\ StoreInv(conf, store) /\ Grows(store.bytes, store.bytes)
      /\ late \subseteq Snapshots /\ \A s \in late : Filed(conf, s)
  BY AtStart
<1>2. UNCHANGED <<conf, doc, moves, store, late, stops, index, evidence>>
  BY DEF Ask
<1>3. PICK w : w = [replica[r] EXCEPT !.pc = "asked", !.asked = replica[r].active]
  OBVIOUS
<1>4. /\ w \in ReplicaType /\ w.pc = "asked" /\ w.active = replica[r].active
      /\ w.build = replica[r].build /\ w.asked = w.active
  BY <1>1, <1>3 DEF ReplicaType
<1>5. Becomes(r, w)
  BY <1>3 DEF Ask
<1>6. Sound(conf, store'.bytes, w, evidence[r], index[r])
  BY <1>1, <1>2, <1>4 DEF Sound, Retained, Answered, Current
<1>7. PICK e \in Contents \cup {NoContent}, i \in Contents \cup {NoContent} :
        /\ e = evidence[r] /\ evidence = [evidence EXCEPT ![r] = e]
        /\ i = index[r] /\ index = [index EXCEPT ![r] = i]
  BY AtStart
<1> QED BY <1>1, <1>2, <1>4, <1>5, <1>6, <1>7, OneMoves

LEMMA UnsolicitedKeeps ==
  ASSUME RefreshInv, NEW r \in conf.replicas, Unsolicited(r)
  PROVE  RefreshInv'
<1>1. /\ replica[r] \in ReplicaType /\ Sound(conf, store.bytes, replica[r], evidence[r], index[r])
      /\ store \in StoreType /\ StoreInv(conf, store) /\ Grows(store.bytes, store.bytes)
      /\ late \subseteq Snapshots /\ \A s \in late : Filed(conf, s)
  BY AtStart
<1>2. /\ UNCHANGED <<conf, doc, moves, store, late, stops, index, evidence>>
      /\ replica[r].pc = "asked" /\ IsEmpty(replica[r].asked)
  BY DEF Unsolicited
<1>3. PICK w : w = [replica[r] EXCEPT !.pc = "confirming"]
  OBVIOUS
<1>4. /\ w \in ReplicaType /\ w.pc = "confirming" /\ w.active = replica[r].active
      /\ w.build = replica[r].build /\ w.asked = replica[r].asked
  BY <1>1, <1>3 DEF ReplicaType
<1>5. Becomes(r, w)
  BY <1>3 DEF Unsolicited
<1>6. ~CanConfirmUnchanged(w)
  BY <1>2, <1>4 DEF CanConfirmUnchanged
<1>7. Sound(conf, store'.bytes, w, evidence[r], index[r])
  BY <1>1, <1>2, <1>4, <1>6 DEF Sound, Retained, Answered, Current
<1>8. PICK e \in Contents \cup {NoContent}, i \in Contents \cup {NoContent} :
        /\ e = evidence[r] /\ evidence = [evidence EXCEPT ![r] = e]
        /\ i = index[r] /\ index = [index EXCEPT ![r] = i]
  BY AtStart
<1> QED BY <1>1, <1>2, <1>4, <1>5, <1>7, <1>8, OneMoves

\* What an answer states is of the document the source has.
LEMMA ValidatorsParts ==
  ASSUME NEW x \in Contents \cup {NoContent}, NEW said, doc \in Documents
  PROVE  /\ Validators(x, said) \in Snapshots /\ Validators(x, said).content = x
         /\ Validators(x, said).etag \in {doc, None} /\ Validators(x, said).date \in {doc, None}
BY DEF Validators, Snapshots

\* The answer: a document of this build's content, or that the one asked about
\* is the one the source has, and then it is of what is held.
LEMMA AnswerKeeps ==
  ASSUME RefreshInv, NEW r \in conf.replicas, NEW said, Answer(r, said)
  PROVE  RefreshInv'
<1>1. /\ replica[r] \in ReplicaType /\ Sound(conf, store.bytes, replica[r], evidence[r], index[r])
      /\ store \in StoreType /\ StoreInv(conf, store) /\ Grows(store.bytes, store.bytes)
      /\ late \subseteq Snapshots /\ \A s \in late : Filed(conf, s)
      /\ doc \in conf.docs /\ conf.docs \subseteq Documents
      /\ conf.builds \subseteq Builds /\ conf.content \in [Builds -> [Documents -> Contents]]
  BY AtStart
<1>2. /\ UNCHANGED <<conf, doc, moves, store, late, stops, index>> /\ replica[r].pc = "asked"
  BY DEF Answer
<1>3. PICK b \in conf.builds : b = replica[r].build
  BY <1>1 DEF Sound, Retained
<1>4. PICK x \in Contents : x = conf.content[b][doc]
  BY <1>1
<1>5. evidence' = [evidence EXCEPT ![r] = x]
  BY <1>3, <1>4 DEF Answer
<1>6. PICK i \in Contents \cup {NoContent} : i = index[r] /\ index = [index EXCEPT ![r] = i]
  BY AtStart
<1>7. /\ replica[r].asked = replica[r].active /\ Filed(conf, replica[r].active)
      /\ (BuildsAgree(conf) => FiledBy(conf, b, replica[r].active))
      /\ replica[r].active \in Snapshots
      /\ replica[r].active.content # NoContent => store.bytes[replica[r].active.content] # None
      /\ i # NoContent => store.bytes[i] # None
  BY <1>1, <1>2, <1>3, <1>6 DEF Sound, Retained, Current, ReplicaType
<1>8. doc \in Imported(conf) /\ doc # None /\ NoContent \notin Contents /\ doc \in Documents
  BY <1>1, CatalogAssumption DEF Imported
<1>9. FiledAs(conf, doc, x)
  BY <1>4, <1>8 DEF FiledAs
<1>10. CASE ~NotModified(replica[r].asked)
  <2>1. PICK s \in Snapshots : s = Validators(x, said)
    BY <1>8, ValidatorsParts
  <2>2. /\ s.content = x /\ s.etag \in {doc, None} /\ s.date \in {doc, None}
    BY <1>8, <2>1, ValidatorsParts
  <2>3. Filed(conf, s) /\ FiledBy(conf, b, s)
    BY <1>4, <1>8, <1>9, <2>2 DEF Filed, FiledBy
  <2>4. PICK w : w = [replica[r] EXCEPT !.pc = "retaining", !.answer = s, !.of = doc]
    OBVIOUS
  <2>5. Becomes(r, w)
    BY <1>3, <1>4, <1>10, <2>1, <2>4 DEF Answer
  <2>6. /\ w \in ReplicaType /\ w.pc = "retaining" /\ w.active = replica[r].active
        /\ w.build = b /\ w.asked = w.active /\ w.answer = s /\ w.of = doc
    BY <1>1, <1>3, <1>7, <1>8, <2>4 DEF ReplicaType
  <2>7. Sound(conf, store'.bytes, w, x, i)
    BY <1>2, <1>3, <1>4, <1>7, <1>8, <2>2, <2>3, <2>6 DEF Sound, Retained, Answered, Current
  <2> QED BY <1>1, <1>2, <1>5, <1>6, <2>5, <2>6, <2>7, OneMoves
<1>11. CASE NotModified(replica[r].asked)
  <2>1. PICK y \in Contents \cup {NoContent} : y = replica[r].active.content
    BY <1>7, SnapshotParts
  <2>2. PICK s \in Snapshots : s = Validators(y, said)
    BY <1>8, ValidatorsParts
  <2>3. /\ s.content = y /\ s.etag \in {doc, None} /\ s.date \in {doc, None}
    BY <1>8, <2>2, ValidatorsParts
  <2>4. replica[r].active.etag = doc \/ replica[r].active.date = doc
    BY <1>7, <1>11 DEF NotModified
  <2>5. FiledAs(conf, doc, y) /\ (BuildsAgree(conf) => conf.content[b][doc] = y) /\ y # NoContent
    BY <1>7, <1>8, <2>1, <2>4 DEF Filed, FiledBy, IsEmpty
  <2>6. Filed(conf, s) /\ (BuildsAgree(conf) => FiledBy(conf, b, s) /\ y = x)
    BY <1>4, <1>8, <2>3, <2>5 DEF Filed, FiledBy
  <2>7. PICK w : w = [replica[r] EXCEPT !.pc = "confirming", !.answer = s]
    OBVIOUS
  <2>8. Becomes(r, w)
    BY <1>11, <2>1, <2>2, <2>7 DEF Answer
  <2>9. /\ w \in ReplicaType /\ w.pc = "confirming" /\ w.active = replica[r].active
        /\ w.build = b /\ w.asked = w.active /\ w.answer = s
    BY <1>1, <1>3, <1>7, <2>7 DEF ReplicaType
  <2>10. Sound(conf, store'.bytes, w, x, i)
    BY <1>2, <1>3, <1>7, <2>1, <2>3, <2>6, <2>9 DEF Sound, Retained, Answered, Current
  <2> QED BY <1>1, <1>2, <1>5, <1>6, <2>8, <2>9, <2>10, OneMoves
<1> QED BY <1>10, <1>11

\* A source that fails, and an answer nobody asked for, are refusals.
LEMMA SourceFailsKeeps ==
  ASSUME RefreshInv, NEW r \in conf.replicas, SourceFails(r) \/ RefuseUnchanged(r)
  PROVE  RefreshInv'
<1>1. /\ UNCHANGED <<conf, doc, moves, store, late, stops, evidence>>
      /\ Refuses(r, replica[r])
  BY DEF SourceFails, RefuseUnchanged
<1>2. /\ store' \in StoreType /\ StoreInv(conf, store') /\ Grows(store.bytes, store'.bytes)
      /\ late' \subseteq Snapshots /\ \A s \in late' : Filed(conf, s)
      /\ replica[r] \in ReplicaType
  BY <1>1, AtStart
<1> QED BY <1>1, <1>2, RefuseMoves

LEMMA MayLandFiled ==
  ASSUME NEW c, NEW landed, NEW heard, NEW s \in Snapshots, Filed(c, s), MayLand(landed, heard, s),
         late \subseteq Snapshots, \A t \in late : Filed(c, t)
  PROVE  late' \subseteq Snapshots /\ \A t \in late' : Filed(c, t)
<1>1. late' = late \/ late' = late \cup {s}
  BY DEF MayLand
<1> QED BY <1>1

LEMMA ConfirmKeeps ==
  ASSUME RefreshInv, NEW r \in conf.replicas, NEW landed \in BOOLEAN, NEW heard \in BOOLEAN,
         Confirm(r, landed, heard)
  PROVE  RefreshInv'
<1>1. /\ replica[r] \in ReplicaType /\ Sound(conf, store.bytes, replica[r], evidence[r], index[r])
      /\ store \in StoreType /\ StoreInv(conf, store) /\ Grows(store.bytes, store.bytes)
      /\ late \subseteq Snapshots /\ \A s \in late : Filed(conf, s)
  BY AtStart
<1>2. PICK s \in Snapshots, held \in Snapshots : s = replica[r].answer /\ held = replica[r].active
  BY <1>1 DEF ReplicaType
<1>3. /\ replica[r].pc = "confirming" /\ CanConfirmUnchanged(replica[r])
      /\ UNCHANGED <<conf, doc, moves, stops, evidence>>
      /\ store' = IF landed THEN Confirmed(store, s) ELSE store
      /\ MayLand(landed, heard, s)
  BY <1>2 DEF Confirm
<1>4. /\ s.content = held.content /\ Filed(conf, s) /\ Filed(conf, held)
      /\ replica[r].build \in conf.builds
      /\ held.content # NoContent => store.bytes[held.content] # None
      /\ BuildsAgree(conf) => /\ FiledBy(conf, replica[r].build, s) /\ held.content = evidence[r]
                              /\ FiledBy(conf, replica[r].build, held)
  BY <1>1, <1>2, <1>3 DEF Sound, Retained, Answered, Current
<1>5. /\ store' \in StoreType /\ StoreInv(conf, store') /\ store'.bytes = store.bytes
  BY <1>1, <1>3, <1>4, ConfirmedStore
<1>6. late' \subseteq Snapshots /\ \A t \in late' : Filed(conf, t)
  BY <1>1, <1>3, <1>4, MayLandFiled
<1>7. Grows(store.bytes, store'.bytes)
  BY <1>1, <1>5
<1>8. CASE ~heard
  <2>1. Refuses(r, replica[r])
    BY <1>8 DEF Confirm
  <2> QED BY <1>1, <1>3, <1>5, <1>6, <1>7, <2>1, RefuseMoves
<1>9. CASE heard
  <2>1. PICK a : a = CarryOver(held, s)
    OBVIOUS
  <2>2. /\ a \in Snapshots /\ a.content = held.content /\ Filed(conf, a)
        /\ BuildsAgree(conf) => FiledBy(conf, replica[r].build, a)
    BY <1>4, <2>1, CarryOverParts, CarryOverFiled
  <2>3. PICK w : w = [replica[r] EXCEPT !.active = a, !.refusals = 0]
    OBVIOUS
  <2>4. w \in ReplicaType /\ w.active = a /\ w.build = replica[r].build
    <3>1. 0 \in 0..MaxRefusals
      BY CatalogAssumption
    <3> QED BY <1>1, <2>2, <2>3, <3>1 DEF ReplicaType
  <2>5. Publishes(r, w)
    BY <1>2, <1>9, <2>1, <2>3 DEF Confirm
  <2> QED BY <1>3, <1>4, <1>5, <1>6, <1>7, <2>2, <2>4, <2>5, PublishMoves
<1> QED BY <1>8, <1>9

LEMMA RefuseDurablyKeeps ==
  ASSUME RefreshInv, NEW r \in conf.replicas, NEW landed \in BOOLEAN, RefuseDurably(r, landed)
  PROVE  RefreshInv'
<1>1. /\ replica[r] \in ReplicaType /\ Sound(conf, store.bytes, replica[r], evidence[r], index[r])
      /\ store \in StoreType /\ StoreInv(conf, store) /\ Grows(store.bytes, store.bytes)
      /\ late \subseteq Snapshots /\ \A s \in late : Filed(conf, s)
  BY AtStart
<1>2. /\ replica[r].pc = "refusing" /\ UNCHANGED <<conf, doc, moves, stops, evidence>>
      /\ store' = (IF landed THEN RefusedDurably(store) ELSE store)
      /\ MayLand(landed, landed, NoSnapshot) /\ Publishes(r, replica[r])
  BY DEF RefuseDurably
<1>3. store' \in StoreType /\ StoreInv(conf, store') /\ store'.bytes = store.bytes
  BY <1>1, <1>2, RefusedStore
<1>4. late' \subseteq Snapshots /\ \A t \in late' : Filed(conf, t)
  BY <1>1, <1>2, NoSnapshotType, MayLandFiled
<1>5. /\ replica[r].build \in conf.builds /\ Filed(conf, replica[r].active) /\ replica[r].refusals # 0
      /\ replica[r].active.content # NoContent => store'.bytes[replica[r].active.content] # None
      /\ BuildsAgree(conf) => FiledBy(conf, replica[r].build, replica[r].active)
  BY <1>1, <1>2, <1>3 DEF Sound, Retained, Answered, Current
<1>6. Grows(store.bytes, store'.bytes)
  BY <1>1, <1>3
<1> QED BY <1>1, <1>2, <1>3, <1>4, <1>5, <1>6, PublishMoves

-----------------------------------------------------------------------------
(* The environment's steps *)

LEMMA LateLandsKeeps ==
  ASSUME RefreshInv, NEW s \in late, LateLands(s)
  PROVE  RefreshInv'
<1>1. /\ store \in StoreType /\ StoreInv(conf, store) /\ s \in Snapshots /\ Filed(conf, s)
  BY DEF RefreshInv, CatalogTypeOK
<1>2. /\ UNCHANGED <<conf, doc, moves, stops, replica, index, evidence>> /\ late' = late \ {s}
      /\ store' = (IF s = NoSnapshot THEN RefusedDurably(store) ELSE Confirmed(store, s))
  BY DEF LateLands
<1>3. store' \in StoreType /\ StoreInv(conf, store') /\ store'.bytes = store.bytes
  BY <1>1, <1>2, RefusedStore, ConfirmedStore
<1>4. late' \subseteq late
  BY <1>2
<1>5. CatalogTypeOK'
  BY <1>2, <1>3, <1>4 DEF RefreshInv, CatalogTypeOK
<1> QED BY <1>2, <1>3, <1>4, <1>5 DEF RefreshInv

LEMMA PublishKeeps ==
  ASSUME RefreshInv, NEW d, Publish(d)
  PROVE  RefreshInv'
<1>1. /\ UNCHANGED <<conf, store, late, stops, replica, index, evidence>>
      /\ doc' \in conf.docs /\ moves < MaxMoves /\ moves' = moves + 1
  BY DEF Publish
<1>2. moves' \in 0..MaxMoves
  BY <1>1, CatalogAssumption DEF RefreshInv, CatalogTypeOK
<1>3. CatalogTypeOK'
  BY <1>1, <1>2 DEF RefreshInv, CatalogTypeOK
<1> QED BY <1>1, <1>3 DEF RefreshInv

\* A process that has just started holds nothing.
LEMMA FreshSound ==
  ASSUME NEW c, NEW b \in Builds, b \in c.builds, NEW bytes
  PROVE  Fresh(b) \in ReplicaType /\ Sound(c, bytes, Fresh(b), NoContent, NoContent)
<1>1. PICK k : k = Fresh(b)
  OBVIOUS
<1>2. 0 \in 0..MaxRefusals
  BY CatalogAssumption
<1>3. /\ k \in ReplicaType /\ k.pc = "boot" /\ k.build = b /\ k.active = NoSnapshot
  BY <1>1, <1>2, NoSnapshotType DEF Fresh, ReplicaType
<1>4. Filed(c, NoSnapshot) /\ FiledBy(c, b, NoSnapshot) /\ NoSnapshot.content = NoContent
  BY NoSnapshotType DEF NoSnapshot, FiledBy
<1> QED BY <1>1, <1>3, <1>4 DEF Sound, Retained, Answered, Current

LEMMA EmptyStoreSound ==
  EmptyStore \in StoreType /\ \A c : StoreInv(c, EmptyStore)
<1>1. PICK s : s = EmptyStore
  OBVIOUS
<1>2. 0 \in 0..MaxRefusals
  BY CatalogAssumption
<1>3. /\ s \in StoreType /\ s.active = NoSnapshot /\ \A x \in Contents : s.bytes[x] = None
  BY <1>1, <1>2, NoSnapshotType DEF EmptyStore, StoreType
<1>4. NoSnapshot.content = NoContent
  BY DEF NoSnapshot
<1> QED BY <1>1, <1>3, <1>4, NoSnapshotType DEF StoreInv

\* A store in memory is lost with the one process there is.
LEMMA RestartKeeps ==
  ASSUME RefreshInv, NEW r \in conf.replicas, NEW b \in conf.builds, Restart(r, b)
  PROVE  RefreshInv'
<1>1. /\ replica \in [Replicas -> ReplicaType] /\ index \in [Replicas -> Contents \cup {NoContent}]
      /\ evidence \in [Replicas -> Contents \cup {NoContent}] /\ conf \in Configs
      /\ store \in StoreType /\ StoreInv(conf, store) /\ stops \in 0..MaxStops
  BY DEF RefreshInv, CatalogTypeOK
<1>2. /\ conf.replicas \subseteq Replicas /\ conf.builds \subseteq Builds
      /\ ~conf.durable => Cardinality(conf.replicas) = 1
  BY <1>1, CatalogAssumption DEF ConfigType
<1>3. /\ UNCHANGED <<conf, doc, moves, late>> /\ Becomes(r, Fresh(b))
      /\ stops < MaxStops /\ stops' = stops + 1
      /\ store' = (IF conf.durable THEN store ELSE EmptyStore)
      /\ index' = [index EXCEPT ![r] = NoContent] /\ evidence' = [evidence EXCEPT ![r] = NoContent]
  BY DEF Restart
<1>4. Fresh(b) \in ReplicaType /\ Sound(conf, store'.bytes, Fresh(b), NoContent, NoContent)
  BY <1>2, FreshSound
<1>5. store' \in StoreType /\ StoreInv(conf, store')
  BY <1>1, <1>3, EmptyStoreSound
<1>6. stops' \in 0..MaxStops
  BY <1>1, <1>3, CatalogAssumption
<1>7. /\ replica' \in [Replicas -> ReplicaType] /\ index' \in [Replicas -> Contents \cup {NoContent}]
      /\ evidence' \in [Replicas -> Contents \cup {NoContent}]
  BY <1>1, <1>2, <1>3, <1>4 DEF Becomes
<1>8. CatalogTypeOK'
  BY <1>3, <1>5, <1>6, <1>7 DEF RefreshInv, CatalogTypeOK
<1>9. ~conf.durable => conf.replicas = {r}
  <2>1. IsFiniteSet(conf.replicas)
    BY <1>2, CatalogAssumption, FS_Subset
  <2> QED BY <1>2, <2>1, FS_Singleton
<1>10. ASSUME NEW q \in conf.replicas
       PROVE  Sound(conf, store'.bytes, replica'[q], evidence'[q], index'[q])
  <2>1. CASE q = r
    BY <1>1, <1>2, <1>3, <1>4, <2>1 DEF Becomes
  <2>2. CASE q # r
    <3>1. store' = store
      BY <1>3, <1>9, <2>2
    <3>2. replica'[q] = replica[q] /\ evidence'[q] = evidence[q] /\ index'[q] = index[q]
      BY <1>1, <1>2, <1>3, <2>2 DEF Becomes
    <3>3. Sound(conf, store.bytes, replica[q], evidence[q], index[q])
      BY DEF RefreshInv, Sound
    <3> QED BY <3>1, <3>2, <3>3
  <2> QED BY <2>1, <2>2
<1>11. ASSUME NEW q \in conf.replicas
       PROVE  /\ Retained(conf, store'.bytes, replica'[q], index'[q])
              /\ Answered(conf, replica'[q], evidence'[q])
              /\ BuildsAgree(conf) => Current(conf, replica'[q], evidence'[q])
  BY <1>10 DEF Sound
<1> QED BY <1>3, <1>5, <1>8, <1>11 DEF RefreshInv

-----------------------------------------------------------------------------
LEMMA RefreshInit == Init => RefreshInv
<1> SUFFICES ASSUME Init PROVE RefreshInv
  OBVIOUS
<1>1. PICK b \in conf.builds : replica = [r \in Replicas |-> Fresh(b)]
  BY DEF Init
<1>2. /\ conf \in Configs /\ conf.builds \subseteq Builds /\ conf.replicas \subseteq Replicas
  BY CatalogAssumption DEF Init, ConfigType
<1>3. /\ Fresh(b) \in ReplicaType
      /\ Sound(conf, store.bytes, Fresh(b), NoContent, NoContent)
  BY <1>2, FreshSound
<1>4. store \in StoreType /\ StoreInv(conf, store)
  BY EmptyStoreSound DEF Init
<1>5. 0 \in 0..MaxMoves /\ 0 \in 0..MaxStops
  BY CatalogAssumption
<1>6. CatalogTypeOK
  BY <1>1, <1>3, <1>4, <1>5 DEF Init, CatalogTypeOK
<1>7. \A r \in conf.replicas : replica[r] = Fresh(b) /\ index[r] = NoContent /\ evidence[r] = NoContent
  BY <1>1, <1>2 DEF Init
<1> QED BY <1>3, <1>4, <1>6, <1>7 DEF Init, RefreshInv, Sound

LEMMA RefreshNext == RefreshInv /\ [Next]_vars => RefreshInv'
<1> SUFFICES ASSUME RefreshInv, [Next]_vars PROVE RefreshInv'
  OBVIOUS
<1>1. CASE UNCHANGED vars
  BY <1>1 DEF vars, RefreshInv, CatalogTypeOK
<1>2. ASSUME NEW r \in conf.replicas, Step(r)
      PROVE  RefreshInv'
  <2>1. CASE \E ok \in BOOLEAN : Load(r, ok) \/ RefuseDurably(r, ok)
    BY <2>1, LoadKeeps, RefuseDurablyKeeps
  <2>2. CASE Ask(r) \/ RefuseUnchanged(r) \/ Unsolicited(r) \/ SourceFails(r)
    BY <2>2, AskKeeps, UnsolicitedKeeps, SourceFailsKeeps
  <2>3. CASE \E said \in SUBSET Stated : Answer(r, said)
    BY <2>3, AnswerKeeps
  <2>4. CASE \E landed, heard \in BOOLEAN : StoreCall(r, landed, heard)
    BY <2>4, ImportSeedKeeps, RetainKeeps, ConfirmKeeps DEF StoreCall
  <2> QED BY <1>2, <2>1, <2>2, <2>3, <2>4 DEF Step
<1>3. ASSUME NEW r \in conf.replicas, NEW b \in conf.builds, Restart(r, b)
      PROVE  RefreshInv'
  BY <1>3, RestartKeeps
<1>4. ASSUME NEW s \in late, LateLands(s)
      PROVE  RefreshInv'
  BY <1>4, LateLandsKeeps
<1>5. ASSUME NEW d \in Docs, Publish(d)
      PROVE  RefreshInv'
  BY <1>5, PublishKeeps
<1> QED BY <1>1, <1>2, <1>3, <1>4, <1>5 DEF Next

\* The inductive invariant holds of the catalogue: the reading of documents
\* alone (CatalogData) leaves the replicas as they are.
LEMMA RefreshInvariant == CatalogueSpec => []RefreshInv
<1>1. CatalogueInit => RefreshInv
  BY RefreshInit DEF CatalogueInit
<1>2. RefreshInv /\ [CatalogueNext]_allVars => RefreshInv'
  <2> SUFFICES ASSUME RefreshInv, [CatalogueNext]_allVars PROVE [Next]_vars
    BY RefreshNext
  <2> QED BY DEF CatalogueNext, allVars
<1> QED BY <1>1, <1>2, PTL DEF CatalogueSpec

\* A catalogue that reads healthy is the one the source had when it last
\* answered, in every deployment whose builds agree on which documents are
\* alike; and, in every deployment, what is active or priced from is retained.
THEOREM ConfirmedCatalogueIsCurrent == CatalogueSpec => []ConfirmedIsCurrent
<1>1. RefreshInv => ConfirmedIsCurrent
  BY DEF RefreshInv, ConfirmedIsCurrent, StoreInv, Retained, Current
<1> QED BY <1>1, RefreshInvariant, PTL

-----------------------------------------------------------------------------
(* What has been imported *)

\* d was read, and c is the content.
Reads(d, c) == d \in Samples /\ ~normalize(d).refused /\ c = normalize(d).v
\* Content that is held is what a document was read as.
Held(x) == x = None0 \/ \E d, c : Reads(d, c) /\ x = <<c>>

ImportInv ==
  IF Alone
  THEN /\ import.doc \in Samples /\ Held(import.was) /\ Held(import.now)
       /\ import.admitted <=> ~normalize(import.doc).refused
       /\ import.admitted => import.now = <<normalize(import.doc).v>>
       /\ ~import.admitted => import.now = import.was
  ELSE import = Nothing

LEMMA AfterParts ==
  ASSUME NEW held, NEW d, NEW content
  PROVE  /\ After(held, d, content).doc = d /\ After(held, d, content).was = held
         /\ After(held, d, content).admitted <=> ~content.refused
         /\ content.refused => After(held, d, content).now = held
         /\ ~content.refused => After(held, d, content).now = <<content.v>>
BY DEF After

\* Whatever was read, and whatever was held.
LEMMA AfterHeld ==
  ASSUME NEW held, Held(held), NEW d \in Samples,
         NEW i, i = After(held, d, normalize(d))
  PROVE  /\ i.doc \in Samples /\ Held(i.was) /\ Held(i.now)
         /\ i.admitted <=> ~normalize(i.doc).refused
         /\ i.admitted => i.now = <<normalize(i.doc).v>>
         /\ ~i.admitted => i.now = i.was
<1>1. PICK n : n = normalize(d)
  OBVIOUS
<1>2. /\ i.doc = d /\ i.was = held /\ (i.admitted <=> ~n.refused)
      /\ (n.refused => i.now = held) /\ (~n.refused => i.now = <<n.v>>)
  BY <1>1, AfterParts
<1>3. ~n.refused => Reads(d, n.v)
  BY <1>1 DEF Reads
<1>4. Held(i.now)
  BY <1>2, <1>3 DEF Held
<1> QED BY <1>1, <1>2, <1>4

LEMMA NextKeepsConf == ASSUME [Next]_vars PROVE conf' = conf
<1>1. \A r, ok : Load(r, ok) \/ RefuseDurably(r, ok) => conf' = conf
  BY DEF Load, RefuseDurably
<1>2. \A r : Ask(r) \/ RefuseUnchanged(r) \/ Unsolicited(r) \/ SourceFails(r) => conf' = conf
  BY DEF Ask, RefuseUnchanged, Unsolicited, SourceFails
<1>3. \A r, said : Answer(r, said) => conf' = conf
  BY DEF Answer
<1>4. \A r, landed, heard : StoreCall(r, landed, heard) => conf' = conf
  BY DEF StoreCall, ImportSeed, Retain, Confirm
<1>5. \A r, b : Restart(r, b) => conf' = conf
  BY DEF Restart
<1>6. \A s : LateLands(s) \/ Publish(s) => conf' = conf
  BY DEF LateLands, Publish
<1> QED BY <1>1, <1>2, <1>3, <1>4, <1>5, <1>6 DEF Next, Step, vars

LEMMA ImportInvariant == CatalogueSpec => []ImportInv
<1>1. CatalogueInit => ImportInv
  <2> SUFFICES ASSUME CatalogueInit PROVE ImportInv
    OBVIOUS
  <2>1. CASE Alone
    <3>1. PICK d \in Samples : import = After(None0, d, normalize(d))
      BY <2>1 DEF CatalogueInit, FirstImport
    <3>2. Held(None0)
      BY DEF Held
    <3> QED BY <2>1, <3>1, <3>2, AfterHeld DEF ImportInv
  <2>2. CASE ~Alone
    BY <2>2 DEF CatalogueInit, ImportInv
  <2> QED BY <2>1, <2>2
<1>2. ImportInv /\ [CatalogueNext]_allVars => ImportInv'
  <2> SUFFICES ASSUME ImportInv, [CatalogueNext]_allVars PROVE ImportInv'
    OBVIOUS
  <2>1. CASE UNCHANGED import
    <3>1. [Next]_vars
      BY DEF CatalogueNext, allVars
    <3>2. Alone' = Alone
      BY <3>1, NextKeepsConf DEF Alone
    <3> QED BY <2>1, <3>2 DEF ImportInv
  <2>2. CASE ~UNCHANGED import
    <3>1. PICK d \in Refreshes \cup {import.doc} : Alone /\ Import(d) /\ UNCHANGED vars
      BY <2>2 DEF CatalogueNext, allVars
    <3>2. d \in Samples /\ Held(import.now)
      BY <3>1, CatalogDataAssumption DEF ImportInv
    <3>3. import' = After(import.now, d, normalize(d))
      BY <3>1 DEF Import
    <3>4. PICK held : held = import.now
      OBVIOUS
    <3>5. PICK i : i = After(held, d, normalize(d))
      OBVIOUS
    <3>6. /\ i.doc \in Samples /\ Held(i.was) /\ Held(i.now)
          /\ i.admitted <=> ~normalize(i.doc).refused
          /\ i.admitted => i.now = <<normalize(i.doc).v>>
          /\ ~i.admitted => i.now = i.was
      BY <3>2, <3>4, <3>5, AfterHeld
    <3>7. import' = i /\ Alone'
      BY <3>1, <3>3, <3>4, <3>5 DEF Alone, vars
    <3> QED BY <3>6, <3>7 DEF ImportInv
  <2> QED BY <2>1, <2>2
<1> QED BY <1>1, <1>2, PTL DEF CatalogueSpec

-----------------------------------------------------------------------------
(* normalize: what is read, part by part *)

LEMMA ReadOrRefused ==
  /\ Refused.refused
  /\ \A v : ~Got(v).refused /\ Got(v).v = v
BY DEF Refused, Got

LEMMA AllReadParts ==
  ASSUME NEW f, ~AllRead(f).refused
  PROVE  AllRead(f).v = [k \in DOMAIN f |-> f[k].v] /\ \A k \in DOMAIN f : ~f[k].refused
<1>1. ~(\E k \in DOMAIN f : f[k].refused)
  BY ReadOrRefused DEF AllRead
<1>2. AllRead(f) = Got([k \in DOMAIN f |-> f[k].v])
  BY <1>1 DEF AllRead
<1> QED BY <1>1, <1>2, ReadOrRefused

\* The offering of one wire model.
OfferingOf(d, k) ==
  [model |-> canonical_model_id(k[2], DOMAIN d.models).v, facts |-> facts(Wire(d, k)),
   overrides |-> overrides(d.models, canonical_model_id(k[2], DOMAIN d.models).v, Wire(d, k)),
   price |-> price(Wire(d, k).cost).v, endpoint |-> endpoint(Wire(d, k).endpoint)]

LEMMA OfferingRead ==
  ASSUME NEW d, NEW k, ~Offering(d.models, k[2], Wire(d, k)).refused
  PROVE  /\ Offering(d.models, k[2], Wire(d, k)).v = OfferingOf(d, k)
         /\ ~canonical_model_id(k[2], DOMAIN d.models).refused
         /\ ~price(Wire(d, k).cost).refused
<1>1. PICK m, n, p : /\ m = Wire(d, k) /\ n = canonical_model_id(k[2], DOMAIN d.models)
                     /\ p = price(m.cost)
  OBVIOUS
<1>2. Offering(d.models, k[2], m) = Offered(d.models, m, n, p)
  BY <1>1, ReadOrRefused DEF Offering
<1>3. ~n.refused /\ ~p.refused
  BY <1>1, <1>2, ReadOrRefused DEF Offered
<1>4. Offered(d.models, m, n, p) =
        Got([model |-> n.v, facts |-> facts(m), overrides |-> overrides(d.models, n.v, m),
             price |-> p.v, endpoint |-> endpoint(m.endpoint)])
  BY <1>3 DEF Offered
<1> QED BY <1>1, <1>2, <1>3, <1>4, ReadOrRefused DEF OfferingOf

\* Content that was read: the providers, the neutral records and the offerings.
LEMMA ReadParts ==
  ASSUME NEW d, NEW c, Reads(d, c)
  PROVE  /\ c = [providers |-> [p \in DOMAIN d.providers |-> Provider(d.providers[p])],
                 neutral |-> [k \in DOMAIN d.models |-> facts(d.models[k])],
                 offerings |-> [k \in OfferingKeys(d) |-> OfferingOf(d, k)]]
         /\ \A k \in OfferingKeys(d) : /\ ~canonical_model_id(k[2], DOMAIN d.models).refused
                                       /\ ~price(Wire(d, k).cost).refused
         /\ DocumentTyped(d)
<1>1. PICK f : f = [k \in OfferingKeys(d) |-> Offering(d.models, k[2], Wire(d, k))]
  OBVIOUS
<1>2. PICK o : o = AllRead(f)
  OBVIOUS
<1>3. normalize(d) = Content(d, o)
  BY <1>1, <1>2, ReadOrRefused DEF Reads, normalize
<1>4. ~o.refused
  BY <1>3, ReadOrRefused DEF Reads, Content
<1>5. Content(d, o) = Got([providers |-> [p \in DOMAIN d.providers |-> Provider(d.providers[p])],
                           neutral |-> [k \in DOMAIN d.models |-> facts(d.models[k])],
                           offerings |-> o.v])
  BY <1>3, ReadOrRefused DEF Reads, Content
<1>6. o.v = [k \in DOMAIN f |-> f[k].v] /\ \A k \in DOMAIN f : ~f[k].refused
  BY <1>2, <1>4, AllReadParts
<1>7. DOMAIN f = OfferingKeys(d)
  BY <1>1
<1>8. ASSUME NEW k \in OfferingKeys(d)
      PROVE  /\ f[k].v = OfferingOf(d, k)
             /\ ~canonical_model_id(k[2], DOMAIN d.models).refused
             /\ ~price(Wire(d, k).cost).refused
  <2>1. f[k] = Offering(d.models, k[2], Wire(d, k)) /\ ~f[k].refused
    BY <1>1, <1>6, <1>7
  <2> QED BY <2>1, OfferingRead
<1>9. o.v = [k \in OfferingKeys(d) |-> OfferingOf(d, k)]
  BY <1>6, <1>7, <1>8
<1> QED BY <1>3, <1>5, <1>8, <1>9, ReadOrRefused, SamplesTyped DEF Reads

\* A key of an offering is a pair, of a provider and the id it publishes.
LEMMA KeyParts ==
  ASSUME NEW d, NEW k \in OfferingKeys(d)
  PROVE  /\ k = <<k[1], k[2]>> /\ k[1] \in DOMAIN d.providers
         /\ k[2] \in DOMAIN d.providers[k[1]].models
BY DEF OfferingKeys

LEMMA KeysTyped ==
  ASSUME NEW d, DocumentTyped(d), NEW k \in OfferingKeys(d)
  PROVE  ModelTyped(k[2], Wire(d, k))
BY KeyParts DEF DocumentTyped, ModelsTyped, Wire

-----------------------------------------------------------------------------
(* canonical_model_id *)

LEMMA ReverseParts ==
  ASSUME NEW s \in Seq(STRING)
  PROVE  /\ Reverse(s) \in Seq(STRING) /\ Len(Reverse(s)) = Len(s)
         /\ \A i \in 1..Len(s) : Reverse(s)[i] = s[Len(s) - i + 1]
BY DEF Reverse

\* An id is a suffix of itself, and of every other one only when it is shorter.
LEMMA SuffixParts ==
  ASSUME NEW s \in Seq(STRING), NEW t \in Seq(STRING)
  PROVE  /\ IsSuffix(s, s)
         /\ IsSuffix(s, t) => Len(s) <= Len(t) /\ (Len(s) = Len(t) => s = t)
<1>1. IsSuffix(s, s)
  BY DEF IsSuffix, IsPrefix
<1>2. ASSUME IsSuffix(s, t)
      PROVE  Len(s) <= Len(t)
  BY <1>2, ReverseParts DEF IsSuffix, IsPrefix
<1>3. ASSUME IsSuffix(s, t), Len(s) = Len(t)
      PROVE  s = t
  <2>1. PICK u \in Seq(STRING), v \in Seq(STRING), n \in Nat :
          u = Reverse(s) /\ v = Reverse(t) /\ n = Len(s)
    BY ReverseParts
  <2>2. Len(u) = n /\ Len(v) = n
    BY <1>3, <2>1, ReverseParts
  <2>3. SubSeq(u, 1, n) = SubSeq(v, 1, n)
    BY <1>3, <2>1, <2>2 DEF IsSuffix, IsPrefix
  <2>4. \A i \in 1..n : u[i] = v[i]
    BY <2>2, <2>3
  <2>5. \A i \in 1..n : s[i] = u[n - i + 1] /\ t[i] = v[n - i + 1]
    <3> SUFFICES ASSUME NEW i \in 1..n PROVE s[i] = u[n - i + 1] /\ t[i] = v[n - i + 1]
      OBVIOUS
    <3>1. PICK j \in 1..n : j = n - i + 1 /\ n - j + 1 = i
      OBVIOUS
    <3> QED BY <1>3, <2>1, <3>1, ReverseParts
  <2>6. \A i \in 1..n : s[i] = t[i]
    <3> SUFFICES ASSUME NEW i \in 1..n PROVE s[i] = t[i]
      OBVIOUS
    <3>1. PICK j \in 1..n : j = n - i + 1
      OBVIOUS
    <3> QED BY <2>4, <2>5, <3>1
  <2> QED BY <1>3, <2>1, <2>6
<1> QED BY <1>1, <1>2, <1>3

\* The model of a callable id: its own neutral record, the one record it is the
\* tail of, or itself.
LEMMA CanonicalParts ==
  ASSUME NEW published \in Seq(STRING), NEW neutral, IsFiniteSet(neutral),
         \A id \in neutral : id \in Seq(STRING),
         ~canonical_model_id(published, neutral).refused
  PROVE  LET model == canonical_model_id(published, neutral).v
             owners == {m \in neutral : IsSuffix(published, m)}
         IN IF owners = {} \/ published \in owners THEN model = published ELSE owners = {model}
<1> DEFINE model == canonical_model_id(published, neutral).v
           owners == {m \in neutral : IsSuffix(published, m)}
           tails == Tails(published, neutral)
<1>1. CASE published \in neutral
  <2>1. model = published
    BY <1>1, ReadOrRefused DEF canonical_model_id
  <2>2. published \in owners
    BY <1>1, SuffixParts
  <2> QED BY <2>1, <2>2
<1>2. CASE published \notin neutral
  <2>1. published \notin owners
    BY <1>2
  <2>2. tails = owners
    <3>1. ASSUME NEW id \in neutral
          PROVE  IsSuffix(published, id) => Len(id) > Len(published)
      <4>1. id \in Seq(STRING) /\ id # published
        BY <1>2
      <4>2. Len(id) \in Nat /\ Len(published) \in Nat
        BY <4>1
      <4> QED BY <4>1, <4>2, SuffixParts
    <3> QED BY <3>1 DEF Tails
  <2>3. canonical_model_id(published, neutral) = Resolved(published, owners)
    BY <1>2, <2>2 DEF canonical_model_id
  <2>4. CASE owners = {}
    <3>1. Resolved(published, {}) = Got(published)
      <4>1. Cardinality({}) # 1
        BY FS_EmptySet
      <4> QED BY <4>1 DEF Resolved
    <3> QED BY <2>3, <2>4, <3>1, ReadOrRefused
  <2>5. CASE owners # {}
    <3>1. PICK own : own = owners
      OBVIOUS
    <3>2. Cardinality(own) = 1 /\ Resolved(published, own) = Got(CHOOSE id \in own : TRUE)
      <4>1. Cardinality(own) = 1
        BY <2>3, <2>5, <3>1, ReadOrRefused DEF Resolved
      <4> QED BY <2>5, <3>1, <4>1 DEF Resolved
    <3>3. IsFiniteSet(own)
      BY <3>1, FS_Subset
    <3>4. PICK x : own = {x}
      BY <3>2, <3>3, FS_Singleton
    <3>5. (CHOOSE id \in own : TRUE) = x
      BY <3>4
    <3>6. model = x
      BY <2>3, <3>1, <3>2, <3>5, ReadOrRefused
    <3> QED BY <2>1, <2>5, <3>1, <3>4, <3>6
  <2> QED BY <2>4, <2>5
<1> QED BY <1>1, <1>2

-----------------------------------------------------------------------------
(* Rates and schedules *)

LEMMA InRangeParts ==
  ASSUME NEW n, ~InRange(n).refused
  PROVE  InRange(n).v = n /\ n \in 0..RateMax
<1>1. n \in 0..RateMax
  BY ReadOrRefused DEF InRange
<1> QED BY <1>1, ReadOrRefused DEF InRange

\* A rate that is read fits the unit it is filed in.
LEMMA NanoRange ==
  ASSUME NEW raw, ~nano_dollars_per_million(raw).refused
  PROVE  nano_dollars_per_million(raw).v \in 0..RateMax
<1>1. PICK d : d = parse_decimal(raw).v
  OBVIOUS
<1>2. PICK shift : shift = raw.exponent + Places
  OBVIOUS
<1>3. nano_dollars_per_million(raw) = Moved(d, shift)
  BY <1>1, <1>2, ReadOrRefused DEF nano_dollars_per_million
<1>4. \E n : Moved(d, shift) = InRange(n) \/ Moved(d, shift) = Refused
  BY DEF Moved, Grown, Shrunk
<1> QED BY <1>3, <1>4, InRangeParts, ReadOrRefused

LEMMA RatesParts ==
  ASSUME NEW stated, ~rates(stated).refused
  PROVE  /\ BaseRates \subseteq DOMAIN stated
         /\ rates(stated).v = [f \in DOMAIN stated |-> nano_dollars_per_million(stated[f]).v]
         /\ \A f \in DOMAIN stated : ~nano_dollars_per_million(stated[f]).refused
<1>1. BaseRates \subseteq DOMAIN stated
  BY ReadOrRefused DEF rates
<1>2. PICK r : r = [f \in DOMAIN stated |-> nano_dollars_per_million(stated[f])]
  OBVIOUS
<1>3. rates(stated) = AllRead(r) /\ DOMAIN r = DOMAIN stated
  BY <1>1, <1>2 DEF rates
<1>4. AllRead(r).v = [k \in DOMAIN r |-> r[k].v] /\ \A k \in DOMAIN r : ~r[k].refused
  BY <1>3, AllReadParts
<1>5. \A f \in DOMAIN stated : r[f] = nano_dollars_per_million(stated[f])
  BY <1>2
<1> QED BY <1>1, <1>3, <1>4, <1>5

\* The tiers of a schedule that is read are the thresholds of what was folded.
LEMMA ScheduleParts ==
  ASSUME NEW tiers, ~Schedule(tiers).refused
  PROVE  LET at == {t.threshold : t \in Range(tiers.v)}
         IN /\ ~tiers.refused /\ Cardinality(at) = Len(tiers.v)
            /\ Schedule(tiers).v = ByThreshold(tiers.v, at)
            /\ DOMAIN Schedule(tiers).v = at
<1>1. ~tiers.refused
  BY ReadOrRefused DEF Schedule
<1>2. PICK at : at = {t.threshold : t \in Range(tiers.v)}
  OBVIOUS
<1>3. Schedule(tiers) = Sorted(tiers.v, at)
  BY <1>1, <1>2 DEF Schedule
<1>4. Cardinality(at) = Len(tiers.v)
  BY <1>3, ReadOrRefused DEF Sorted
<1>5. Schedule(tiers).v = ByThreshold(tiers.v, at)
  BY <1>3, <1>4, ReadOrRefused DEF Sorted
<1>6. DOMAIN Schedule(tiers).v = at
  BY <1>5 DEF ByThreshold
<1> QED BY <1>1, <1>2, <1>4, <1>5, <1>6

\* The legacy key is folded into a tier, or added as one.
LEMMA WithLegacyParts ==
  ASSUME NEW tiers, tiers \in Seq(Range(tiers)), NEW legacy, ~WithLegacy(tiers, legacy).refused
  PROVE  LET same == {i \in DOMAIN tiers : tiers[i].threshold = LegacyContext}
             above == {i \in DOMAIN tiers : tiers[i].threshold > LegacyContext}
             moved == LegacyTier(tiers, above, legacy)
         IN \/ /\ same # {} /\ tiers[Min(same)].rates = legacy
               /\ WithLegacy(tiers, legacy).v = tiers
            \/ /\ same = {} /\ moved # {}
               /\ WithLegacy(tiers, legacy).v = [tiers EXCEPT ![Min(moved)].threshold = LegacyContext]
            \/ /\ same = {} /\ moved = {}
               /\ WithLegacy(tiers, legacy).v =
                    Append(tiers, [threshold |-> LegacyContext, rates |-> legacy])
<1> DEFINE same == {i \in DOMAIN tiers : tiers[i].threshold = LegacyContext}
           above == {i \in DOMAIN tiers : tiers[i].threshold > LegacyContext}
           moved == LegacyTier(tiers, above, legacy)
           lowered == [tiers EXCEPT ![Min(moved)].threshold = LegacyContext]
           added == Append(tiers, [threshold |-> LegacyContext, rates |-> legacy])
<1>1. WithLegacy(tiers, legacy) =
        IF same # {} THEN IF tiers[Min(same)].rates = legacy THEN Got(tiers) ELSE Refused
        ELSE IF moved # {} THEN Got(lowered) ELSE Got(added)
  BY DEF WithLegacy
<1> HIDE DEF same, above, moved, lowered, added
<1>2. CASE same # {}
  BY <1>1, <1>2, ReadOrRefused DEF same, above, moved
<1>3. CASE same = {} /\ moved # {}
  BY <1>1, <1>3, ReadOrRefused DEF same, above, moved, lowered
<1>4. CASE same = {} /\ moved = {}
  BY <1>1, <1>4, ReadOrRefused DEF same, above, moved, added
<1> QED BY <1>2, <1>3, <1>4

LEMMA AllTiersParts ==
  ASSUME NEW c, CostTyped(c), ~AllTiers(c).refused
  PROVE  LET stated == [i \in DOMAIN c.tiers |-> ReadTier(c.tiers[i]).v]
         IN /\ \A i \in DOMAIN c.tiers : ~ReadTier(c.tiers[i]).refused
            /\ stated \in Seq(Range(stated)) /\ Len(stated) = Len(c.tiers)
            /\ DOMAIN stated = DOMAIN c.tiers
            /\ c.legacy = None0 => AllTiers(c).v = stated
            /\ c.legacy # None0 => /\ ~rates(c.legacy[1]).refused
                                   /\ ~WithLegacy(stated, rates(c.legacy[1]).v).refused
                                   /\ AllTiers(c).v = WithLegacy(stated, rates(c.legacy[1]).v).v
<1>1. PICK f : f = [i \in DOMAIN c.tiers |-> ReadTier(c.tiers[i])]
  OBVIOUS
<1>2. PICK a, l : a = AllRead(f) /\ l = rates(c.legacy[1])
  OBVIOUS
<1>3. AllTiers(c) = IF c.legacy = None0 THEN a ELSE Folded(a, l)
  BY <1>1, <1>2 DEF AllTiers
<1>4. ~a.refused /\ (c.legacy # None0 => ~l.refused /\ AllTiers(c) = WithLegacy(a.v, l.v))
  BY <1>3, ReadOrRefused DEF Folded
<1>5. a.v = [i \in DOMAIN f |-> f[i].v] /\ \A i \in DOMAIN f : ~f[i].refused
  BY <1>2, <1>4, AllReadParts
<1>6. PICK stated : stated = [i \in DOMAIN c.tiers |-> ReadTier(c.tiers[i]).v]
  OBVIOUS
<1>7. a.v = stated /\ \A i \in DOMAIN c.tiers : ~ReadTier(c.tiers[i]).refused
  BY <1>1, <1>5, <1>6
<1>8. DOMAIN c.tiers = 1..Len(c.tiers) /\ Len(c.tiers) \in Nat
  BY DEF CostTyped
<1>9. DOMAIN stated = 1..Len(c.tiers)
  BY <1>6, <1>8
<1>10. stated \in Seq(Range(stated)) /\ Len(stated) = Len(c.tiers)
  <2>1. stated \in [1..Len(c.tiers) -> Range(stated)]
    BY <1>6, <1>8, <1>9 DEF Range
  <2> QED BY <1>8, <2>1
<1> QED BY <1>2, <1>3, <1>4, <1>6, <1>7, <1>8, <1>9, <1>10

\* A schedule is flat only when no tier and no legacy key is stated.
LEMMA FlatParts ==
  ASSUME NEW c, CostTyped(c), ~Schedule(AllTiers(c)).refused
  PROVE  DOMAIN Schedule(AllTiers(c)).v = {} <=> c.tiers = <<>> /\ c.legacy = None0
<1>1. PICK a, v : a = AllTiers(c) /\ v = a.v
  OBVIOUS
<1>2. PICK at : at = {t.threshold : t \in Range(v)}
  OBVIOUS
<1>3. ~a.refused /\ DOMAIN Schedule(a).v = at
  BY <1>1, <1>2, ScheduleParts
<1>4. at = {} <=> DOMAIN v = {}
  BY <1>2 DEF Range
<1>5. PICK stated : stated = [i \in DOMAIN c.tiers |-> ReadTier(c.tiers[i]).v]
  OBVIOUS
<1>6. c.tiers = <<>> <=> DOMAIN c.tiers = {}
  <2>1. PICK s : s = c.tiers
    OBVIOUS
  <2>2. s \in Seq(Range(s))
    BY <2>1 DEF CostTyped
  <2>3. DOMAIN s = 1..Len(s) /\ Len(s) \in Nat /\ (Len(s) = 0 <=> s = <<>>)
    BY <2>2
  <2> QED BY <2>1, <2>3
<1>7. CASE c.legacy = None0
  <2>1. v = stated /\ DOMAIN stated = DOMAIN c.tiers
    BY <1>1, <1>3, <1>5, <1>7, AllTiersParts
  <2> QED BY <1>1, <1>3, <1>4, <1>6, <1>7, <2>1
<1>8. CASE c.legacy # None0
  <2>1. PICK l : l = rates(c.legacy[1]).v
    OBVIOUS
  <2>2. /\ stated \in Seq(Range(stated)) /\ ~WithLegacy(stated, l).refused
        /\ v = WithLegacy(stated, l).v
    BY <1>1, <1>3, <1>5, <1>8, <2>1, AllTiersParts
  <2>3. DOMAIN v # {}
    <3> DEFINE same == {i \in DOMAIN stated : stated[i].threshold = LegacyContext}
               above == {i \in DOMAIN stated : stated[i].threshold > LegacyContext}
               moved == LegacyTier(stated, above, l)
    <3>1. \/ same # {} /\ v = stated
          \/ moved # {} /\ v = [stated EXCEPT ![Min(moved)].threshold = LegacyContext]
          \/ v = Append(stated, [threshold |-> LegacyContext, rates |-> l])
      BY <2>2, WithLegacyParts
    <3>2. moved \subseteq DOMAIN stated
      BY DEF LegacyTier
    <3> HIDE DEF moved
    <3>3. CASE same # {} /\ v = stated
      BY <3>3
    <3>4. CASE moved # {} /\ v = [stated EXCEPT ![Min(moved)].threshold = LegacyContext]
      BY <3>2, <3>4
    <3>5. CASE v = Append(stated, [threshold |-> LegacyContext, rates |-> l])
      <4>1. Len(v) = Len(stated) + 1 /\ DOMAIN v = 1..Len(v) /\ Len(stated) \in Nat
        <5>1. PICK e : e = [threshold |-> LegacyContext, rates |-> l]
          OBVIOUS
        <5>2. PICK S : stated \in Seq(S) /\ e \in S
          <6>1. stated \in Seq(Range(stated) \cup {e})
            BY <2>2
          <6> QED BY <6>1
        <5> QED BY <3>5, <5>1, <5>2
      <4> QED BY <4>1
    <3> QED BY <3>1, <3>3, <3>4, <3>5
  <2> QED BY <1>1, <1>3, <1>4, <1>8, <2>3
<1> QED BY <1>7, <1>8

\* A price that is read is none, or the stated base rates with a schedule.
LEMMA PriceParts ==
  ASSUME NEW cost, ~price(cost).refused
  PROVE  \/ /\ price(cost).v = None0
            /\ cost = None0 \/ ~(BaseRates \subseteq DOMAIN cost[1].rates)
         \/ /\ cost # None0 /\ ~rates(cost[1].rates).refused /\ ~Schedule(AllTiers(cost[1])).refused
            /\ price(cost).v = <<[base |-> rates(cost[1].rates).v,
                                  tiers |-> Schedule(AllTiers(cost[1])).v]>>
<1>1. CASE cost = None0
  BY <1>1, ReadOrRefused DEF price
<1>2. CASE cost # None0 /\ DOMAIN cost[1].rates \cap BaseRates = {} /\ states_only_base_rates(cost[1])
  <2>1. price(cost) = Got(None0)
    BY <1>2 DEF price
  <2>2. ~(BaseRates \subseteq DOMAIN cost[1].rates)
    BY <1>2 DEF BaseRates
  <2> QED BY <2>1, <2>2, ReadOrRefused
<1>3. CASE cost # None0 /\ ~(DOMAIN cost[1].rates \cap BaseRates = {} /\ states_only_base_rates(cost[1]))
  <2>1. PICK b, t : b = rates(cost[1].rates) /\ t = Schedule(AllTiers(cost[1]))
    OBVIOUS
  <2>2. price(cost) = Observed(b, t)
    BY <1>3, <2>1 DEF price
  <2>3. ~b.refused /\ ~t.refused
    BY <2>2, ReadOrRefused DEF Observed
  <2>4. price(cost).v = <<[base |-> b.v, tiers |-> t.v]>>
    BY <2>2, <2>3, ReadOrRefused DEF Observed
  <2> QED BY <1>3, <2>1, <2>3, <2>4
<1> QED BY <1>1, <1>2, <1>3

\* A price of whole micro-dollars is billed as what it is.
LEMMA WholeMicros ==
  ASSUME NEW n \in 0..RateMax, n % NanosPerMicro = 0
  PROVE  (n \div NanosPerMicro) * NanosPerMicro = n
<1>1. PICK m \in Nat \ {0} : m = NanosPerMicro
  BY CatalogDataAssumption
<1>2. n \in Nat
  BY CatalogDataAssumption
<1>3. n % m = 0 => (n \div m) * m = n
  BY <1>1, <1>2
<1> QED BY <1>1, <1>3

\* What is billed for a cost that was read.
LEMMA BilledAs ==
  ASSUME NEW cost, cost = None0 \/ CostTyped(cost[1]), ~price(cost).refused
  PROVE  PricedAs(cost, BillablePrice(price(cost).v))
<1>1. CASE /\ price(cost).v = None0
           /\ cost = None0 \/ ~(BaseRates \subseteq DOMAIN cost[1].rates)
  BY <1>1 DEF BillablePrice, PricedAs, Billable
<1>2. CASE /\ cost # None0 /\ ~rates(cost[1].rates).refused /\ ~Schedule(AllTiers(cost[1])).refused
           /\ price(cost).v = <<[base |-> rates(cost[1].rates).v,
                                 tiers |-> Schedule(AllTiers(cost[1])).v]>>
  <2>1. PICK c, stated, base, tiers : /\ c = cost[1] /\ stated = c.rates /\ base = rates(stated).v
                                      /\ tiers = Schedule(AllTiers(c)).v
    OBVIOUS
  <2>2. PICK p : p = [base |-> base, tiers |-> tiers]
    OBVIOUS
  <2>3. p.base = base /\ p.tiers = tiers /\ price(cost).v = <<p>>
    BY <1>2, <2>1, <2>2
  <2>4. BillablePrice(price(cost).v) = model_price_from_cost(p)
    BY <2>3 DEF BillablePrice, None0
  <2>5. DOMAIN tiers = {} <=> c.tiers = <<>> /\ c.legacy = None0
    BY <1>2, <2>1, FlatParts
  <2>6. /\ BaseRates \subseteq DOMAIN stated /\ DOMAIN base = DOMAIN stated
        /\ \A f \in DOMAIN stated : /\ base[f] = nano_dollars_per_million(stated[f]).v
                                    /\ base[f] \in 0..RateMax
    <3>1. /\ BaseRates \subseteq DOMAIN stated
          /\ base = [f \in DOMAIN stated |-> nano_dollars_per_million(stated[f]).v]
          /\ \A f \in DOMAIN stated : ~nano_dollars_per_million(stated[f]).refused
      BY <1>2, <2>1, RatesParts
    <3>2. \A f \in DOMAIN stated : nano_dollars_per_million(stated[f]).v \in 0..RateMax
      BY <3>1, NanoRange
    <3> QED BY <3>1, <3>2
  <2>7. Billable(cost) <=> /\ DOMAIN tiers = {} /\ DOMAIN base \cap AudioRates = {}
                           /\ \A f \in DOMAIN base : base[f] % NanosPerMicro = 0
    BY <1>2, <2>1, <2>5, <2>6 DEF Billable
  <2>8. Billable(cost) \in BOOLEAN
    BY DEF Billable
  <2>9. CASE Billable(cost)
    <3>1. PICK b : b = [f \in DOMAIN base |-> base[f] \div NanosPerMicro]
      OBVIOUS
    <3>2. model_price_from_cost(p) = <<b>>
      BY <2>3, <2>7, <2>9, <3>1 DEF model_price_from_cost
    <3>3. DOMAIN b = DOMAIN stated /\ \A f \in DOMAIN stated : b[f] = base[f] \div NanosPerMicro
      BY <2>6, <3>1
    <3>4. \A f \in DOMAIN stated : b[f] * NanosPerMicro = base[f]
      BY <2>6, <2>7, <2>9, <3>3, WholeMicros
    <3>5. PICK billed : billed = <<b>>
      OBVIOUS
    <3>6. billed # None0 /\ billed[1] = b
      BY <3>5 DEF None0
    <3>7. (billed # None0) = Billable(cost)
      BY <2>9, <3>6, <2>8
    <3>8. \A f \in DOMAIN b : b[f] * NanosPerMicro = nano_dollars_per_million(cost[1].rates[f]).v
      BY <2>1, <2>6, <3>3, <3>4
    <3>9. PricedAs(cost, billed)
      BY <2>1, <3>3, <3>6, <3>7, <3>8 DEF PricedAs
    <3> QED BY <2>4, <3>2, <3>5, <3>9
  <2>10. CASE ~Billable(cost)
    <3>1. model_price_from_cost(p) = None0
      BY <2>3, <2>7, <2>10 DEF model_price_from_cost
    <3>2. (None0 # None0) = Billable(cost)
      BY <2>10, <2>8
    <3> QED BY <2>4, <3>1, <3>2 DEF PricedAs
  <2> QED BY <2>9, <2>10
<1> QED BY <1>1, <1>2, PriceParts

\* The index charges for a callable id what is billable of its own price.
LEMMA IndexedAs ==
  ASSUME NEW c, NEW k \in DOMAIN c.offerings, k = <<k[1], k[2]>>
  PROVE  price_for(price_index(c), k[1], k[2]) = BillablePrice(c.offerings[k].price)
<1>1. PICK b : b = BillablePrice(c.offerings[k].price)
  OBVIOUS
<1>2. b = None0 \/ \E x : b = <<x>>
  BY <1>1 DEF BillablePrice, model_price_from_cost
<1>3. PICK kept : kept = price_index(c)
  OBVIOUS
<1>4. /\ k \in DOMAIN kept <=> b # None0
      /\ k \in DOMAIN kept => kept[k] = b[1]
  BY <1>1, <1>3 DEF price_index
<1>5. price_for(kept, k[1], k[2]) = IF k \in DOMAIN kept THEN <<kept[k]>> ELSE None0
  BY DEF price_for
<1>6. CASE b = None0
  BY <1>1, <1>3, <1>4, <1>5, <1>6
<1>7. CASE b # None0
  <2>1. PICK x : b = <<x>>
    BY <1>2, <1>7
  <2>2. b[1] = x
    BY <2>1
  <2> QED BY <1>1, <1>3, <1>4, <1>5, <1>7, <2>1, <2>2
<1> QED BY <1>6, <1>7

\* One model for each callable id, and it depends on nothing but the neutral
\* records there are.
LEMMA FiledModel ==
  ASSUME NEW d, NEW c, Reads(d, c), NEW k \in OfferingKeys(d)
  PROVE  /\ c.offerings[k].model = canonical_model_id(k[2], DOMAIN c.neutral).v
         /\ DOMAIN c.neutral = DOMAIN d.models
         /\ LET model == c.offerings[k].model
                owners == {m \in DOMAIN d.models : IsSuffix(k[2], m)}
            IN IF owners = {} \/ k[2] \in owners THEN model = k[2] ELSE owners = {model}
<1>1. PICK neutral : neutral = DOMAIN d.models
  OBVIOUS
<1>2. DOMAIN c.neutral = neutral
  BY <1>1, ReadParts
<1>3. c.offerings = [q \in OfferingKeys(d) |-> OfferingOf(d, q)]
  BY ReadParts
<1>4. PICK model : model = canonical_model_id(k[2], neutral).v
  OBVIOUS
<1>5. c.offerings[k].model = model
  BY <1>1, <1>3, <1>4 DEF OfferingOf
<1>6. k[2] \in Seq(STRING) /\ IsFiniteSet(neutral) /\ \A id \in neutral : id \in Seq(STRING)
  <2>1. DocumentTyped(d)
    BY ReadParts
  <2>2. k[2] \in Seq(STRING)
    BY <2>1, KeysTyped DEF ModelTyped
  <2>3. IsFiniteSet(neutral) /\ \A id \in neutral : id \in Seq(STRING)
    BY <1>1, <2>1 DEF DocumentTyped, ModelsTyped, ModelTyped
  <2> QED BY <2>2, <2>3
<1>7. ~canonical_model_id(k[2], neutral).refused
  BY <1>1, ReadParts
<1>8. PICK published : published = k[2]
  OBVIOUS
<1>9. IF {m \in neutral : IsSuffix(published, m)} = {} \/ published \in {m \in neutral : IsSuffix(published, m)}
      THEN model = published ELSE {m \in neutral : IsSuffix(published, m)} = {model}
  BY <1>4, <1>6, <1>7, <1>8, CanonicalParts
<1> QED BY <1>1, <1>2, <1>4, <1>5, <1>8, <1>9

\* What was read of one document is filed and priced as it states, whatever was
\* read before.
LEMMA FiledAndPricedRead ==
  ASSUME NEW d, NEW c, Reads(d, c), NEW was, Held(was)
  PROVE  /\ DOMAIN c.offerings = OfferingKeys(d)
         /\ \A k \in OfferingKeys(d) :
              LET model == c.offerings[k].model
                  owners == {m \in DOMAIN d.models : IsSuffix(k[2], m)}
              IN /\ IF owners = {} \/ k[2] \in owners THEN model = k[2] ELSE owners = {model}
                 /\ \A a \in Range(was) :
                      DOMAIN a.neutral = DOMAIN c.neutral /\ k \in DOMAIN a.offerings =>
                        a.offerings[k].model = model
                 /\ PricedAs(Wire(d, k).cost, price_for(price_index(c), k[1], k[2]))
<1>1. DOMAIN c.offerings = OfferingKeys(d)
  BY ReadParts
<1>2. ASSUME NEW k \in OfferingKeys(d), NEW a \in Range(was),
             DOMAIN a.neutral = DOMAIN c.neutral, k \in DOMAIN a.offerings
      PROVE  a.offerings[k].model = c.offerings[k].model
  <2>1. PICK e : Reads(e, a)
    <3>1. PICK e, x : Reads(e, x) /\ was = <<x>>
      BY <1>2 DEF Held, None0, Range
    <3>2. a = x
      BY <3>1 DEF Range
    <3> QED BY <3>1, <3>2
  <2>2. k \in OfferingKeys(e)
    BY <1>2, <2>1, ReadParts
  <2> QED BY <1>2, <2>1, <2>2, FiledModel
<1>3. ASSUME NEW k \in OfferingKeys(d)
      PROVE  PricedAs(Wire(d, k).cost, price_for(price_index(c), k[1], k[2]))
  <2>1. PICK cost : cost = Wire(d, k).cost
    OBVIOUS
  <2>2. c.offerings[k].price = price(cost).v
    <3>1. c.offerings = [q \in OfferingKeys(d) |-> OfferingOf(d, q)]
      BY ReadParts
    <3> QED BY <2>1, <3>1 DEF OfferingOf
  <2>3. ~price(cost).refused
    BY <2>1, ReadParts
  <2>4. cost = None0 \/ CostTyped(cost[1])
    BY <2>1, ReadParts, KeysTyped DEF ModelTyped
  <2>5. price_for(price_index(c), k[1], k[2]) = BillablePrice(price(cost).v)
    BY <1>1, <2>2, IndexedAs, KeyParts
  <2>6. PricedAs(cost, BillablePrice(price(cost).v))
    BY <2>3, <2>4, BilledAs
  <2> QED BY <2>1, <2>5, <2>6
<1>4. ASSUME NEW k \in OfferingKeys(d)
      PROVE  LET model == c.offerings[k].model
                 owners == {m \in DOMAIN d.models : IsSuffix(k[2], m)}
             IN IF owners = {} \/ k[2] \in owners THEN model = k[2] ELSE owners = {model}
  BY <1>4, FiledModel
<1> QED BY <1>1, <1>2, <1>3, <1>4

\* A document that is admitted was read as the content that is held then.
LEMMA AdmittedRead ==
  ASSUME ImportInv, import.admitted
  PROVE  Alone /\ Reads(import.doc, import.now[1]) /\ Held(import.was)
<1>1. Alone
  <2>1. Nothing.admitted = FALSE
    BY DEF Nothing
  <2> QED BY <2>1 DEF ImportInv
<1>2. /\ import.doc \in Samples /\ Held(import.was)
      /\ import.admitted <=> ~normalize(import.doc).refused
      /\ import.now = <<normalize(import.doc).v>>
  BY <1>1 DEF ImportInv
<1>3. import.now[1] = normalize(import.doc).v /\ ~normalize(import.doc).refused
  BY <1>2
<1> QED BY <1>1, <1>2, <1>3 DEF Reads

\* Whatever documents are read one after another: an admitted one has one model
\* for each callable id, which only other neutral records can change, and the
\* price index bills for the id exactly what its provider states, or nothing.
THEOREM ContentIsFiledAndPriced == CatalogueSpec => []FiledAndPriced
<1>1. ImportInv => FiledAndPriced
  <2> SUFFICES ASSUME ImportInv, import.admitted
               PROVE  LET d == import.doc
                          c == import.now[1]
                      IN /\ DOMAIN c.offerings = OfferingKeys(d)
                         /\ \A k \in OfferingKeys(d) :
                              LET model == c.offerings[k].model
                                  owners == {m \in DOMAIN d.models : IsSuffix(k[2], m)}
                              IN /\ IF owners = {} \/ k[2] \in owners THEN model = k[2]
                                    ELSE owners = {model}
                                 /\ \A a \in Range(import.was) :
                                      DOMAIN a.neutral = DOMAIN c.neutral /\ k \in DOMAIN a.offerings =>
                                        a.offerings[k].model = model
                                 /\ PricedAs(Wire(d, k).cost, price_for(price_index(c), k[1], k[2]))
    BY DEF FiledAndPriced
  <2>1. Reads(import.doc, import.now[1]) /\ Held(import.was)
    BY AdmittedRead
  <2>2. PICK d, c, was : d = import.doc /\ c = import.now[1] /\ was = import.was
    OBVIOUS
  <2>3. Reads(d, c) /\ Held(was)
    BY <2>1, <2>2
  <2> QED BY <2>2, <2>3, FiledAndPricedRead
<1> QED BY <1>1, ImportInvariant, PTL

-----------------------------------------------------------------------------
(* CatalogDiff: the shape of what is compared *)

\* Facts, providers and offerings are records; a limit is one of the three.
FactsShaped(x) ==
  /\ x = [texts |-> x.texts, capabilities |-> x.capabilities, input_modalities |-> x.input_modalities,
          output_modalities |-> x.output_modalities, limits |-> x.limits, lifecycle |-> x.lifecycle]
  /\ x.texts = [f \in TextFields |-> x.texts[f]]
  /\ \E stated \in SUBSET LimitFields : x.limits \in [stated -> Nat]
ProviderShaped(p) ==
  p = [display_name |-> p.display_name, doc_url |-> p.doc_url, endpoint |-> p.endpoint,
       env_vars |-> p.env_vars]
OfferingShaped(neutral, o) ==
  /\ o = [model |-> o.model, facts |-> o.facts, overrides |-> o.overrides, price |-> o.price,
          endpoint |-> o.endpoint]
  /\ FactsShaped(o.facts)
  /\ o.overrides = IF o.model \in DOMAIN neutral THEN differences(o.facts, neutral[o.model]) ELSE {}
Shaped(c) ==
  /\ c = [providers |-> c.providers, neutral |-> c.neutral, offerings |-> c.offerings]
  /\ c.providers = [p \in DOMAIN c.providers |-> c.providers[p]]
  /\ \A p \in DOMAIN c.providers : ProviderShaped(c.providers[p])
  /\ c.neutral = [m \in DOMAIN c.neutral |-> c.neutral[m]]
  /\ \A m \in DOMAIN c.neutral : FactsShaped(c.neutral[m])
  /\ c.offerings = [k \in DOMAIN c.offerings |-> c.offerings[k]]
  /\ \A k \in DOMAIN c.offerings : k = <<k[1], k[2]>> /\ OfferingShaped(c.neutral, c.offerings[k])
  /\ IsFiniteSet(DOMAIN c.offerings)

\* An image of a finite set is finite.
LEMMA FiniteImage ==
  ASSUME NEW S, IsFiniteSet(S), NEW f, DOMAIN f = S
  PROVE  IsFiniteSet({f[x] : x \in S})
<1>1. PICK g : g = [x \in S |-> f[x]]
  OBVIOUS
<1>2. PICK T : T = {f[x] : x \in S}
  OBVIOUS
<1>3. g \in Surjection(S, T)
  BY <1>1, <1>2 DEF Surjection
<1> QED BY <1>2, <1>3, FS_Surjection

LEMMA FiniteKeys ==
  ASSUME NEW d, DocumentTyped(d)
  PROVE  IsFiniteSet(OfferingKeys(d))
<1>1. PICK of : of = [p \in DOMAIN d.providers |-> {<<p, k>> : k \in DOMAIN d.providers[p].models}]
  OBVIOUS
<1>2. PICK S : S = {of[p] : p \in DOMAIN d.providers}
  OBVIOUS
<1>3. IsFiniteSet(S)
  <2>1. PICK P : P = DOMAIN d.providers
    OBVIOUS
  <2>2. IsFiniteSet(P) /\ DOMAIN of = P
    BY <1>1, <2>1 DEF DocumentTyped
  <2> QED BY <1>2, <2>1, <2>2, FiniteImage
<1>4. ASSUME NEW T \in S
      PROVE  IsFiniteSet(T)
  <2>1. PICK p \in DOMAIN d.providers : T = of[p]
    BY <1>2
  <2>2. PICK keys : keys = DOMAIN d.providers[p].models
    OBVIOUS
  <2>3. IsFiniteSet(keys)
    BY <2>2 DEF DocumentTyped, ModelsTyped
  <2>4. PICK f : f = [k \in keys |-> <<p, k>>]
    OBVIOUS
  <2>5. T = {f[k] : k \in keys}
    BY <1>1, <2>1, <2>2, <2>4
  <2> QED BY <2>3, <2>4, <2>5, FiniteImage
<1>5. OfferingKeys(d) = UNION S
  BY <1>1, <1>2 DEF OfferingKeys
<1> QED BY <1>3, <1>4, <1>5, FS_UNION

LEMMA FactsAreShaped ==
  ASSUME NEW m, \E stated \in SUBSET LimitFields : m.limits \in [stated -> Nat]
  PROVE  FactsShaped(facts(m))
<1>1. PICK t, c, l, y : /\ t = [f \in TextFields |-> IF f \in DOMAIN m.texts THEN text(m.texts[f]) ELSE None0]
                        /\ c = capabilities(m.flags) /\ l = m.limits
                        /\ y = IF m.status = None0 THEN "available" ELSE m.status[1]
  OBVIOUS
<1>2. facts(m) = [texts |-> t, capabilities |-> c, input_modalities |-> m.input,
                  output_modalities |-> m.output, limits |-> l, lifecycle |-> y]
  BY <1>1 DEF facts
<1>3. t = [f \in TextFields |-> t[f]]
  BY <1>1
<1>4. PICK x : x = facts(m)
  OBVIOUS
<1>5. x.texts = t /\ x.limits = l /\ x.capabilities = c /\ x.input_modalities = m.input
      /\ x.output_modalities = m.output /\ x.lifecycle = y
  BY <1>2, <1>4
<1>6. x = [texts |-> x.texts, capabilities |-> x.capabilities, input_modalities |-> x.input_modalities,
          output_modalities |-> x.output_modalities, limits |-> x.limits, lifecycle |-> x.lifecycle]
  BY <1>2, <1>4, <1>5
<1>7. \E stated \in SUBSET LimitFields : x.limits \in [stated -> Nat]
  BY <1>1, <1>5
<1> QED BY <1>3, <1>4, <1>5, <1>6, <1>7 DEF FactsShaped

LEMMA ReadIsShaped ==
  ASSUME NEW d, NEW c, Reads(d, c)
  PROVE  Shaped(c)
<1>1. PICK ps, ns, os : /\ ps = [p \in DOMAIN d.providers |-> Provider(d.providers[p])]
                        /\ ns = [k \in DOMAIN d.models |-> facts(d.models[k])]
                        /\ os = [k \in OfferingKeys(d) |-> OfferingOf(d, k)]
  OBVIOUS
<1>2. c = [providers |-> ps, neutral |-> ns, offerings |-> os] /\ DocumentTyped(d)
  BY <1>1, ReadParts
<1>3. c.providers = ps /\ c.neutral = ns /\ c.offerings = os
  BY <1>2
<1>4. c = [providers |-> c.providers, neutral |-> c.neutral, offerings |-> c.offerings]
  BY <1>2, <1>3
<1>5. ASSUME NEW p \in DOMAIN ps
      PROVE  ProviderShaped(ps[p])
  <2>1. PICK q : q = d.providers[p]
    OBVIOUS
  <2>2. PICK n, u, e, v : n = text(q.texts.display_name) /\ u = text(q.texts.doc_url) /\ e = endpoint(q.endpoint)
                          /\ v = EnvVars(q.env)
    OBVIOUS
  <2>3. ps[p] = [display_name |-> n, doc_url |-> u, endpoint |-> e, env_vars |-> v]
    BY <1>1, <2>1, <2>2 DEF Provider
  <2> QED BY <2>3 DEF ProviderShaped
<1>6. ASSUME NEW m \in DOMAIN ns
      PROVE  ns[m] = facts(d.models[m]) /\ FactsShaped(ns[m])
  <2>1. ModelTyped(m, d.models[m]) /\ ns[m] = facts(d.models[m])
    BY <1>1, <1>2 DEF DocumentTyped, ModelsTyped
  <2> QED BY <2>1, FactsAreShaped DEF ModelTyped
<1>7. ASSUME NEW k \in DOMAIN os
      PROVE  k = <<k[1], k[2]>> /\ OfferingShaped(ns, os[k])
  <2>1. k \in OfferingKeys(d) /\ os[k] = OfferingOf(d, k)
    BY <1>1
  <2>2. PICK n, w, x, p, e : /\ n = canonical_model_id(k[2], DOMAIN d.models).v /\ w = Wire(d, k)
                             /\ x = facts(w) /\ p = price(w.cost).v /\ e = endpoint(w.endpoint)
    OBVIOUS
  <2>3. PICK v : v = overrides(d.models, n, w)
    OBVIOUS
  <2>4. os[k] = [model |-> n, facts |-> x, overrides |-> v, price |-> p, endpoint |-> e]
    BY <2>1, <2>2, <2>3 DEF OfferingOf
  <2>5. FactsShaped(x)
    BY <1>2, <2>1, <2>2, KeysTyped, FactsAreShaped DEF ModelTyped
  <2>6. v = IF n \in DOMAIN ns THEN differences(x, ns[n]) ELSE {}
    <3>1. DOMAIN ns = DOMAIN d.models
      BY <1>1
    <3> QED BY <1>6, <2>2, <2>3, <3>1 DEF overrides
  <2>7. PICK o : o = os[k]
    OBVIOUS
  <2>8. o.model = n /\ o.facts = x /\ o.overrides = v /\ o.price = p /\ o.endpoint = e
    BY <2>4, <2>7
  <2>9. OfferingShaped(ns, o)
    BY <2>4, <2>5, <2>6, <2>7, <2>8 DEF OfferingShaped
  <2> QED BY <2>1, <2>7, <2>9, KeyParts
<1>8. IsFiniteSet(DOMAIN os)
  BY <1>1, <1>2, FiniteKeys
<1>9. /\ ps = [p \in DOMAIN ps |-> ps[p]] /\ ns = [m \in DOMAIN ns |-> ns[m]]
      /\ os = [k \in DOMAIN os |-> os[k]]
  BY <1>1
<1> QED BY <1>3, <1>4, <1>5, <1>6, <1>7, <1>8, <1>9 DEF Shaped

LEMMA ReadIsHeld ==
  ASSUME NEW x, Held(x), x # None0
  PROVE  Shaped(x[1])
<1>1. PICK d, c : Reads(d, c) /\ x = <<c>>
  BY DEF Held
<1> QED BY <1>1, ReadIsShaped

\* Facts that differ in no field are the same facts.
LEMMA SameFacts ==
  ASSUME NEW x, NEW y, FactsShaped(x), FactsShaped(y)
  PROVE  differences(x, y) = {} <=> x = y
<1>1. ASSUME differences(x, y) = {}
      PROVE  x = y
  <2>1. /\ \A f \in TextFields : x.texts[f] = y.texts[f]
        /\ \A f \in LimitFields : Limit(x, f) = Limit(y, f)
        /\ \A f \in {"capabilities", "input_modalities", "output_modalities", "lifecycle"} : x[f] = y[f]
    BY <1>1 DEF differences
  <2>2. x.texts = y.texts
    BY <2>1 DEF FactsShaped
  <2>3. /\ x.capabilities = y.capabilities /\ x.input_modalities = y.input_modalities
        /\ x.output_modalities = y.output_modalities /\ x.lifecycle = y.lifecycle
    BY <2>1
  <2>4. x.limits = y.limits
    <3>1. PICK l, r : l = x.limits /\ r = y.limits
      OBVIOUS
    <3>2. PICK L \in SUBSET LimitFields, R \in SUBSET LimitFields : l \in [L -> Nat] /\ r \in [R -> Nat]
      BY <3>1 DEF FactsShaped
    <3>3. ASSUME NEW f \in LimitFields
          PROVE  (f \in L <=> f \in R) /\ (f \in L => l[f] = r[f])
      <4>1. (IF f \in L THEN <<l[f]>> ELSE None0) = (IF f \in R THEN <<r[f]>> ELSE None0)
        BY <2>1, <3>1, <3>2 DEF Limit
      <4>2. \A u : <<u>> # None0
        BY DEF None0
      <4>3. \A u, v : <<u>> = <<v>> => u = v
        OBVIOUS
      <4> QED BY <4>1, <4>2, <4>3
    <3>4. L = R
      BY <3>2, <3>3
    <3> QED BY <3>1, <3>2, <3>3, <3>4
  <2> QED BY <2>2, <2>3, <2>4 DEF FactsShaped
<1>2. ASSUME x = y
      PROVE  differences(x, y) = {}
  BY <1>2 DEF differences
<1> QED BY <1>1, <1>2

LEMMA SameProvider ==
  ASSUME NEW x, NEW y, ProviderShaped(x), ProviderShaped(y)
  PROVE  provider_differences(x, y) = {} <=> x = y
<1>1. ASSUME provider_differences(x, y) = {}
      PROVE  x = y
  <2>1. /\ \A f \in {"display_name", "doc_url", "env_vars"} : x[f] = y[f]
        /\ x.endpoint = y.endpoint
    BY <1>1 DEF provider_differences
  <2>2. x.display_name = y.display_name /\ x.doc_url = y.doc_url /\ x.env_vars = y.env_vars
    BY <2>1
  <2> QED BY <2>1, <2>2 DEF ProviderShaped
<1>2. ASSUME x = y
      PROVE  provider_differences(x, y) = {}
  BY <1>2 DEF provider_differences
<1> QED BY <1>1, <1>2

\* What an offering is paired with is of the same provider and model, there is
\* one of it at most, and pairing is symmetric.
LEMMA PairedParts ==
  ASSUME NEW a, NEW b, NEW m, NEW k, Shaped(a), Shaped(b), NEW x \in paired(a, b, m, k)
  PROVE  /\ x \in OfferingsOf(a, m) /\ x[1] = k[1]
         /\ paired(a, b, m, k) = {x}
         /\ k \in OfferingsOf(a, m) => x = k
         /\ k \in OfferingsOf(b, m) => k \in paired(b, a, m, x)
<1>1. PICK A, B : /\ A = {y \in OfferingsOf(a, m) : y[1] = k[1]}
                  /\ B = {y \in OfferingsOf(b, m) : y[1] = k[1]}
  OBVIOUS
<1>2. paired(a, b, m, k) = IF Cardinality(A) = 1 /\ Cardinality(B) = 1 THEN A ELSE A \cap {k}
  BY <1>1 DEF paired
<1>3. x \in A
  BY <1>2
<1>4. x \in OfferingsOf(a, m) /\ x[1] = k[1]
  BY <1>1, <1>3
<1>5. IsFiniteSet(A) /\ IsFiniteSet(B)
  <2>1. A \subseteq DOMAIN a.offerings /\ B \subseteq DOMAIN b.offerings
    BY <1>1 DEF OfferingsOf
  <2> QED BY <2>1, FS_Subset DEF Shaped
<1>6. paired(b, a, m, x) = IF Cardinality(B) = 1 /\ Cardinality(A) = 1 THEN B ELSE B \cap {x}
  <2>1. A = {y \in OfferingsOf(a, m) : y[1] = x[1]} /\ B = {y \in OfferingsOf(b, m) : y[1] = x[1]}
    BY <1>1, <1>4
  <2> QED BY <2>1 DEF paired
<1>7. CASE Cardinality(A) = 1 /\ Cardinality(B) = 1
  <2>1. A = {x}
    BY <1>3, <1>5, <1>7, FS_Singleton
  <2>2. k \in OfferingsOf(a, m) => k \in A
    BY <1>1
  <2>3. k \in OfferingsOf(b, m) => k \in B
    BY <1>1
  <2> QED BY <1>2, <1>4, <1>6, <1>7, <2>1, <2>2, <2>3
<1>8. CASE ~(Cardinality(A) = 1 /\ Cardinality(B) = 1)
  <2>1. x = k /\ paired(a, b, m, k) = {x}
    BY <1>2, <1>3, <1>8
  <2>2. k \in OfferingsOf(b, m) => k \in B
    BY <1>1
  <2> QED BY <1>4, <1>6, <1>8, <2>1, <2>2
<1> QED BY <1>7, <1>8

\* An offering both sides have is paired with itself, if they file it alike.
LEMMA PairedWithItself ==
  ASSUME NEW a, NEW b, NEW m, NEW k, Shaped(a), k \in OfferingsOf(a, m)
  PROVE  k \in paired(a, b, m, k)
<1>1. PICK A, B : /\ A = {y \in OfferingsOf(a, m) : y[1] = k[1]}
                  /\ B = {y \in OfferingsOf(b, m) : y[1] = k[1]}
  OBVIOUS
<1>2. paired(a, b, m, k) = IF Cardinality(A) = 1 /\ Cardinality(B) = 1 THEN A ELSE A \cap {k}
  BY <1>1 DEF paired
<1>3. k \in A
  BY <1>1
<1> QED BY <1>2, <1>3

LEMMA NoFieldChanges ==
  ASSUME NEW m, NEW to, NEW fields
  PROVE  FieldChanges(m, to, fields) = {} <=> fields = {}
<1> DEFINE Named(class, changed) == IF changed = {} THEN {} ELSE {Change(class, m, to[1], to[2], changed)}
<1>1. FieldChanges(m, to, fields) =
        Named("lifecycle_changed", fields \cap {"lifecycle"}) \cup
        Named("capabilities_changed", fields \cap CapabilityFields) \cup
        Named("metadata_changed", fields \ (CapabilityFields \cup {"lifecycle", "price"})) \cup
        Named("price_changed", fields \cap {"price"})
  BY DEF FieldChanges
<1>2. \A class, changed : Named(class, changed) = {} <=> changed = {}
  OBVIOUS
<1> HIDE DEF Named
<1>3. FieldChanges(m, to, fields) = {} <=>
        /\ fields \cap {"lifecycle"} = {} /\ fields \cap CapabilityFields = {}
        /\ fields \ (CapabilityFields \cup {"lifecycle", "price"}) = {} /\ fields \cap {"price"} = {}
  BY <1>1, <1>2
<1> QED BY <1>3

\* A change between two contents is of a provider, or of a model that came, went
\* or stayed.
LEMMA BetweenParts ==
  ASSUME NEW a, NEW b, NEW x
  PROVE  x \in between(a, b) <=>
           \/ x \in ProviderChanges(a, b)
           \/ \E m \in ModelsOf(b) \ ModelsOf(a) : x \in Whole("model_added", "offering_added", b, m)
           \/ \E m \in ModelsOf(a) \ ModelsOf(b) : x \in Whole("model_removed", "offering_removed", a, m)
           \/ \E m \in ModelsOf(a) \cap ModelsOf(b) : x \in NeutralChanges(a, b, m) \cup OfferingChanges(a, b, m)
<1> DEFINE came == UNION {Whole("model_added", "offering_added", b, m) : m \in ModelsOf(b) \ ModelsOf(a)}
           went == UNION {Whole("model_removed", "offering_removed", a, m) : m \in ModelsOf(a) \ ModelsOf(b)}
           stayed == UNION {NeutralChanges(a, b, m) \cup OfferingChanges(a, b, m) :
                              m \in ModelsOf(a) \cap ModelsOf(b)}
<1>1. between(a, b) = ProviderChanges(a, b) \cup came \cup went \cup stayed
  BY DEF between
<1>2. x \in came <=> \E m \in ModelsOf(b) \ ModelsOf(a) : x \in Whole("model_added", "offering_added", b, m)
  OBVIOUS
<1>3. x \in went <=> \E m \in ModelsOf(a) \ ModelsOf(b) : x \in Whole("model_removed", "offering_removed", a, m)
  OBVIOUS
<1>4. x \in stayed <=> \E m \in ModelsOf(a) \cap ModelsOf(b) :
                          x \in NeutralChanges(a, b, m) \cup OfferingChanges(a, b, m)
  OBVIOUS
<1> HIDE DEF came, went, stayed
<1> QED BY <1>1, <1>2, <1>3, <1>4

LEMMA OfferingChangesParts ==
  ASSUME NEW a, NEW b, NEW m, NEW x
  PROVE  x \in OfferingChanges(a, b, m) <=>
           \/ \E k \in OfferingsOf(b, m) :
                IF paired(a, b, m, k) = {} THEN x = Change("offering_added", m, k[1], k[2], {})
                ELSE \E from \in paired(a, b, m, k) : x \in offering_changes(a, b, m, from, k)
           \/ \E k \in OfferingsOf(a, m) :
                paired(b, a, m, k) = {} /\ x = Change("offering_removed", m, k[1], k[2], {})
<1> DEFINE One(k) == IF paired(a, b, m, k) = {} THEN {Change("offering_added", m, k[1], k[2], {})}
                     ELSE UNION {offering_changes(a, b, m, from, k) : from \in paired(a, b, m, k)}
           Gone == {k \in OfferingsOf(a, m) : paired(b, a, m, k) = {}}
<1>1. OfferingChanges(a, b, m) = (UNION {One(k) : k \in OfferingsOf(b, m)}) \cup
                                 {Change("offering_removed", m, k[1], k[2], {}) : k \in Gone}
  BY DEF OfferingChanges
<1>2. \A k : x \in One(k) <=> IF paired(a, b, m, k) = {} THEN x = Change("offering_added", m, k[1], k[2], {})
                              ELSE \E from \in paired(a, b, m, k) : x \in offering_changes(a, b, m, from, k)
  OBVIOUS
<1> HIDE DEF One
<1>3. x \in UNION {One(k) : k \in OfferingsOf(b, m)} <=> \E k \in OfferingsOf(b, m) : x \in One(k)
  OBVIOUS
<1>4. x \in {Change("offering_removed", m, k[1], k[2], {}) : k \in Gone} <=>
        \E k \in OfferingsOf(a, m) :
          paired(b, a, m, k) = {} /\ x = Change("offering_removed", m, k[1], k[2], {})
  OBVIOUS
<1>5. x \in OfferingChanges(a, b, m) <=>
        \/ \E k \in OfferingsOf(b, m) : x \in One(k)
        \/ \E k \in OfferingsOf(a, m) :
             paired(b, a, m, k) = {} /\ x = Change("offering_removed", m, k[1], k[2], {})
  BY <1>1, <1>3, <1>4
<1> QED BY <1>2, <1>5

\* The fields an offering changed in.
Changed(a, b, from, to) ==
  OfferingFields(a.offerings[from], b.offerings[to], from[2], to[2]) \cup
  (IF a.offerings[from].price = b.offerings[to].price THEN {} ELSE {"price"})

LEMMA OneOfferingChanges ==
  ASSUME NEW a, NEW b, NEW m, NEW from, NEW to
  PROVE  offering_changes(a, b, m, from, to) = FieldChanges(m, to, Changed(a, b, from, to))
BY DEF offering_changes, Changed

\* An offering that changed in no field is the same one.
LEMMA SameOffering ==
  ASSUME NEW a, NEW b, NEW from, NEW to, FactsShaped(a.offerings[from].facts),
         FactsShaped(b.offerings[to].facts)
  PROVE  Changed(a, b, from, to) = {} <=>
           /\ from[2] = to[2] /\ a.offerings[from].facts = b.offerings[to].facts
           /\ a.offerings[from].endpoint = b.offerings[to].endpoint
           /\ a.offerings[from].price = b.offerings[to].price
<1>1. PICK was, now : was = a.offerings[from] /\ now = b.offerings[to]
  OBVIOUS
<1>2. Changed(a, b, from, to) = {} <=>
        /\ differences(now.facts, was.facts) = {} /\ was.endpoint = now.endpoint
        /\ from[2] = to[2] /\ was.price = now.price
  BY <1>1 DEF Changed, OfferingFields
<1>3. differences(now.facts, was.facts) = {} <=> now.facts = was.facts
  BY <1>1, SameFacts
<1> QED BY <1>1, <1>2, <1>3

\* Nothing is named of content that is the same.
LEMMA SameNamesNothing ==
  ASSUME NEW a, Shaped(a)
  PROVE  between(a, a) = {}
<1>1. ASSUME NEW x \in ProviderChanges(a, a)
      PROVE  FALSE
  <2>1. PICK p \in DOMAIN a.providers : provider_differences(a.providers[p], a.providers[p]) # {}
    BY <1>1 DEF ProviderChanges
  <2> QED BY <2>1, SameProvider DEF Shaped
<1>2. ASSUME NEW m, NEW x \in NeutralChanges(a, a, m)
      PROVE  FALSE
  <2>1. CASE m \in DOMAIN a.neutral
    <3>1. differences(a.neutral[m], a.neutral[m]) = {}
      BY <2>1, SameFacts DEF Shaped
    <3> QED BY <1>2, <2>1, <3>1 DEF NeutralChanges
  <2>2. CASE m \notin DOMAIN a.neutral
    BY <1>2, <2>2 DEF NeutralChanges
  <2> QED BY <2>1, <2>2
<1>3. ASSUME NEW m, NEW x \in OfferingChanges(a, a, m)
      PROVE  FALSE
  <2>1. \A k \in OfferingsOf(a, m) : paired(a, a, m, k) = {k}
    BY PairedWithItself, PairedParts
  <2>2. PICK k \in OfferingsOf(a, m) : \E from \in paired(a, a, m, k) : x \in offering_changes(a, a, m, from, k)
    BY <1>3, <2>1, OfferingChangesParts
  <2>3. x \in offering_changes(a, a, m, k, k) /\ k \in DOMAIN a.offerings
    BY <2>1, <2>2 DEF OfferingsOf
  <2>4. Changed(a, a, k, k) = {}
    <3>1. FactsShaped(a.offerings[k].facts)
      BY <2>3 DEF Shaped, OfferingShaped
    <3> QED BY <3>1, SameOffering
  <2> QED BY <2>3, <2>4, OneOfferingChanges, NoFieldChanges
<1> QED BY <1>1, <1>2, <1>3, BetweenParts

\* When nothing is named, the providers are the same...
LEMMA UnnamedProviders ==
  ASSUME NEW a, NEW b, Shaped(a), Shaped(b), between(a, b) = {}
  PROVE  a.providers = b.providers
<1>1. ProviderChanges(a, b) = {}
  BY BetweenParts
<1>2. DOMAIN a.providers = DOMAIN b.providers
  BY <1>1 DEF ProviderChanges
<1>3. \A p \in DOMAIN b.providers : provider_differences(b.providers[p], a.providers[p]) = {}
  BY <1>1, <1>2 DEF ProviderChanges
<1>4. \A p \in DOMAIN b.providers : b.providers[p] = a.providers[p]
  <2> SUFFICES ASSUME NEW p \in DOMAIN b.providers PROVE b.providers[p] = a.providers[p]
    OBVIOUS
  <2>1. PICK x, y : x = b.providers[p] /\ y = a.providers[p]
    OBVIOUS
  <2>2. ProviderShaped(x) /\ ProviderShaped(y) /\ provider_differences(x, y) = {}
    BY <1>2, <1>3, <2>1 DEF Shaped
  <2> QED BY <2>1, <2>2, SameProvider
<1> QED BY <1>2, <1>4 DEF Shaped

\* ... the models are the same ...
LEMMA UnnamedModels ==
  ASSUME NEW a, NEW b, between(a, b) = {}
  PROVE  ModelsOf(a) = ModelsOf(b)
<1>1. \A class, offering, c, m : Whole(class, offering, c, m) # {}
  BY DEF Whole
<1> QED BY <1>1, BetweenParts

\* ... and so are the neutral records ...
LEMMA UnnamedNeutral ==
  ASSUME NEW a, NEW b, Shaped(a), Shaped(b), between(a, b) = {}
  PROVE  a.neutral = b.neutral
<1>1. \A m \in ModelsOf(a) : NeutralChanges(a, b, m) = {}
  BY UnnamedModels, BetweenParts
<1>2. DOMAIN a.neutral \subseteq ModelsOf(a) /\ DOMAIN b.neutral \subseteq ModelsOf(a)
  BY UnnamedModels DEF ModelsOf
<1>3. ASSUME NEW m \in ModelsOf(a)
      PROVE  /\ m \in DOMAIN a.neutral <=> m \in DOMAIN b.neutral
             /\ m \in DOMAIN a.neutral => a.neutral[m] = b.neutral[m]
  <2>1. CASE m \in DOMAIN b.neutral \ DOMAIN a.neutral
    BY <1>1, <2>1 DEF NeutralChanges
  <2>2. CASE m \in DOMAIN a.neutral \ DOMAIN b.neutral
    BY <1>1, <2>2 DEF NeutralChanges
  <2>3. CASE m \in DOMAIN a.neutral \cap DOMAIN b.neutral
    <3>1. differences(b.neutral[m], a.neutral[m]) = {}
      BY <1>1, <2>3 DEF NeutralChanges
    <3> QED BY <2>3, <3>1, SameFacts DEF Shaped
  <2>4. CASE m \notin DOMAIN a.neutral \cup DOMAIN b.neutral
    BY <2>4
  <2> QED BY <2>1, <2>2, <2>3, <2>4
<1> QED BY <1>2, <1>3 DEF Shaped

\* ... and the offerings, which are paired with themselves then.
LEMMA UnnamedOfferings ==
  ASSUME NEW a, NEW b, Shaped(a), Shaped(b), between(a, b) = {}
  PROVE  a.offerings = b.offerings
<1>1. \A m \in ModelsOf(a) : OfferingChanges(a, b, m) = {}
  BY UnnamedModels, BetweenParts
<1>2. /\ \A k \in DOMAIN a.offerings : a.offerings[k].model \in ModelsOf(a)
      /\ \A k \in DOMAIN b.offerings : b.offerings[k].model \in ModelsOf(a)
  BY UnnamedModels DEF ModelsOf
<1>3. ASSUME NEW m \in ModelsOf(a), NEW k \in OfferingsOf(b, m)
      PROVE  /\ paired(a, b, m, k) = {k} /\ k \in DOMAIN a.offerings
             /\ a.offerings[k] = b.offerings[k]
  <2>1. paired(a, b, m, k) # {}
    BY <1>1, <1>3, OfferingChangesParts
  <2>2. PICK from \in paired(a, b, m, k) : offering_changes(a, b, m, from, k) = {}
    <3>1. PICK from \in paired(a, b, m, k) : TRUE
      BY <2>1
    <3>2. \A x : x \in offering_changes(a, b, m, from, k) => x \in OfferingChanges(a, b, m)
      BY <1>3, <2>1, OfferingChangesParts
    <3> QED BY <1>1, <1>3, <3>2
  <2>3. from \in OfferingsOf(a, m) /\ from[1] = k[1] /\ paired(a, b, m, k) = {from}
    BY PairedParts
  <2>4. /\ from \in DOMAIN a.offerings /\ a.offerings[from].model = m
        /\ k \in DOMAIN b.offerings /\ b.offerings[k].model = m
    BY <1>3, <2>3 DEF OfferingsOf
  <2>5. /\ OfferingShaped(a.neutral, a.offerings[from]) /\ OfferingShaped(b.neutral, b.offerings[k])
        /\ from = <<from[1], from[2]>> /\ k = <<k[1], k[2]>>
    BY <2>4 DEF Shaped
  <2>6. Changed(a, b, from, k) = {}
    BY <2>2, OneOfferingChanges, NoFieldChanges
  <2>7. /\ from[2] = k[2] /\ a.offerings[from].facts = b.offerings[k].facts
        /\ a.offerings[from].endpoint = b.offerings[k].endpoint
        /\ a.offerings[from].price = b.offerings[k].price
    BY <2>5, <2>6, SameOffering DEF OfferingShaped
  <2>8. from = k
    BY <2>3, <2>5, <2>7
  <2>9. PICK was, now : was = a.offerings[from] /\ now = b.offerings[k]
    OBVIOUS
  <2>10. was.overrides = now.overrides
    BY <2>4, <2>5, <2>7, <2>9, UnnamedNeutral DEF OfferingShaped
  <2>11. was = now
    BY <2>4, <2>5, <2>7, <2>9, <2>10 DEF OfferingShaped
  <2> QED BY <2>3, <2>4, <2>8, <2>9, <2>11
<1>4. ASSUME NEW m \in ModelsOf(a), NEW k \in OfferingsOf(a, m)
      PROVE  k \in DOMAIN b.offerings
  <2>1. paired(b, a, m, k) # {}
    BY <1>1, <1>4, OfferingChangesParts
  <2>2. PICK now \in paired(b, a, m, k) : TRUE
    BY <2>1
  <2>3. now \in OfferingsOf(b, m) /\ k \in paired(a, b, m, now)
    BY <1>4, PairedParts
  <2>4. k = now
    BY <1>3, <2>3
  <2> QED BY <2>3, <2>4 DEF OfferingsOf
<1>5. DOMAIN a.offerings = DOMAIN b.offerings
  <2>1. \A k \in DOMAIN a.offerings : k \in OfferingsOf(a, a.offerings[k].model)
    BY DEF OfferingsOf
  <2>2. \A k \in DOMAIN b.offerings : k \in OfferingsOf(b, b.offerings[k].model)
    BY DEF OfferingsOf
  <2> QED BY <1>2, <1>3, <1>4, <2>1, <2>2
<1>6. \A k \in DOMAIN b.offerings : a.offerings[k] = b.offerings[k]
  BY <1>2, <1>3 DEF OfferingsOf
<1> QED BY <1>5, <1>6 DEF Shaped

LEMMA NamedWhenChanged ==
  ASSUME NEW a, NEW b, Shaped(a), Shaped(b)
  PROVE  between(a, b) = {} <=> a = b
<1>1. ASSUME between(a, b) = {}
      PROVE  a = b
  BY <1>1, UnnamedProviders, UnnamedNeutral, UnnamedOfferings DEF Shaped
<1> QED BY <1>1, SameNamesNothing

-----------------------------------------------------------------------------
(* CatalogDiff: what a change says *)

\* The part of the changed fields that a change of each class names.
PartOf(class, fields) ==
  CASE class = "lifecycle_changed" -> fields \cap {"lifecycle"}
    [] class = "capabilities_changed" -> fields \cap CapabilityFields
    [] class = "metadata_changed" -> fields \ (CapabilityFields \cup {"lifecycle", "price"})
    [] class = "price_changed" -> fields \cap {"price"}
    [] OTHER -> {}

FieldClasses == {"lifecycle_changed", "capabilities_changed", "metadata_changed", "price_changed"}

LEMMA FieldChangesParts ==
  ASSUME NEW m, NEW to, NEW fields, NEW x
  PROVE  x \in FieldChanges(m, to, fields) <=>
           \E class \in FieldClasses : /\ PartOf(class, fields) # {}
                                       /\ x = Change(class, m, to[1], to[2], PartOf(class, fields))
<1> DEFINE Named(class, changed) == IF changed = {} THEN {} ELSE {Change(class, m, to[1], to[2], changed)}
<1>1. FieldChanges(m, to, fields) =
        Named("lifecycle_changed", fields \cap {"lifecycle"}) \cup
        Named("capabilities_changed", fields \cap CapabilityFields) \cup
        Named("metadata_changed", fields \ (CapabilityFields \cup {"lifecycle", "price"})) \cup
        Named("price_changed", fields \cap {"price"})
  BY DEF FieldChanges
<1>2. \A class, changed : x \in Named(class, changed) <=>
        changed # {} /\ x = Change(class, m, to[1], to[2], changed)
  OBVIOUS
<1> HIDE DEF Named
<1>3. /\ PartOf("lifecycle_changed", fields) = fields \cap {"lifecycle"}
      /\ PartOf("capabilities_changed", fields) = fields \cap CapabilityFields
      /\ PartOf("metadata_changed", fields) = fields \ (CapabilityFields \cup {"lifecycle", "price"})
      /\ PartOf("price_changed", fields) = fields \cap {"price"}
  BY DEF PartOf
<1>4. FieldChanges(m, to, fields) =
        Named("lifecycle_changed", PartOf("lifecycle_changed", fields)) \cup
        Named("capabilities_changed", PartOf("capabilities_changed", fields)) \cup
        Named("metadata_changed", PartOf("metadata_changed", fields)) \cup
        Named("price_changed", PartOf("price_changed", fields))
  BY <1>1, <1>3
<1> QED BY <1>2, <1>4 DEF FieldClasses

\* The classes that name no field.
BareClasses == {"provider_added", "provider_removed", "model_added", "model_removed", "offering_added",
                "offering_removed", "neutral_described", "neutral_dropped"}

\* What the fields of a change are, by its class and by what it is about.
Explained(a, b, x) ==
  /\ x = Change(x.class, x.model, x.provider, x.published, x.fields)
  /\ \/ x.class \in BareClasses /\ x.fields = {}
     \/ /\ x.class = "provider_changed"
        /\ x.fields = provider_differences(b.providers[x.provider], a.providers[x.provider])
     \/ /\ x.class = "neutral_changed"
        /\ x.fields = differences(b.neutral[x.model], a.neutral[x.model])
     \/ /\ x.class \in FieldClasses
        /\ \E from \in paired(a, b, x.model, <<x.provider, x.published>>) :
             x.fields = PartOf(x.class, Changed(a, b, from, <<x.provider, x.published>>))

LEMMA ChangeParts ==
  ASSUME NEW class, NEW m, NEW p, NEW k, NEW fields, NEW x, x = Change(class, m, p, k, fields)
  PROVE  /\ x.class = class /\ x.model = m /\ x.provider = p /\ x.published = k /\ x.fields = fields
         /\ x = Change(x.class, x.model, x.provider, x.published, x.fields)
BY DEF Change

LEMMA BareExplained ==
  ASSUME NEW a, NEW b, NEW class \in BareClasses, NEW m, NEW p, NEW k, NEW x, x = Change(class, m, p, k, {})
  PROVE  Explained(a, b, x)
BY ChangeParts DEF Explained

LEMMA AllExplained ==
  ASSUME NEW a, NEW b, Shaped(a), Shaped(b), NEW x \in between(a, b)
  PROVE  Explained(a, b, x)
<1>1. CASE x \in ProviderChanges(a, b)
  <2>1. CASE \E p : x = Change("provider_added", <<>>, p, <<>>, {})
    BY <2>1, BareExplained DEF BareClasses
  <2>2. CASE \E p : x = Change("provider_removed", <<>>, p, <<>>, {})
    BY <2>2, BareExplained DEF BareClasses
  <2>3. CASE \E p : x = Change("provider_changed", <<>>, p, <<>>,
                               provider_differences(b.providers[p], a.providers[p]))
    <3>1. PICK p, f : /\ x = Change("provider_changed", <<>>, p, <<>>, f)
                      /\ f = provider_differences(b.providers[p], a.providers[p])
      BY <2>3
    <3>2. x.class = "provider_changed" /\ x.provider = p /\ x.fields = f
          /\ x = Change(x.class, x.model, x.provider, x.published, x.fields)
      BY <3>1, ChangeParts
    <3> QED BY <3>1, <3>2 DEF Explained
  <2> QED BY <1>1, <2>1, <2>2, <2>3 DEF ProviderChanges
<1>2. ASSUME NEW class \in BareClasses, NEW offering \in BareClasses, NEW c, NEW m,
             x \in Whole(class, offering, c, m)
      PROVE  Explained(a, b, x)
  <2>1. x = Change(class, m, "", <<>>, {}) \/ \E k \in OfferingsOf(c, m) : x = Change(offering, m, k[1], k[2], {})
    BY <1>2 DEF Whole
  <2> QED BY <2>1, BareExplained
<1>3. ASSUME NEW m, x \in NeutralChanges(a, b, m)
      PROVE  Explained(a, b, x)
  <2>1. CASE x = Change("neutral_described", m, "", <<>>, {})
    BY <2>1, BareExplained DEF BareClasses
  <2>2. CASE x = Change("neutral_dropped", m, "", <<>>, {})
    BY <2>2, BareExplained DEF BareClasses
  <2>3. CASE x = Change("neutral_changed", m, "", <<>>, differences(b.neutral[m], a.neutral[m]))
    <3>1. PICK f, p, k : /\ x = Change("neutral_changed", m, p, k, f)
                         /\ f = differences(b.neutral[m], a.neutral[m])
      BY <2>3
    <3>2. x.class = "neutral_changed" /\ x.model = m /\ x.fields = f
          /\ x = Change(x.class, x.model, x.provider, x.published, x.fields)
      BY <3>1, ChangeParts
    <3> QED BY <3>1, <3>2 DEF Explained
  <2>4. CASE m \in DOMAIN a.neutral \cap DOMAIN b.neutral
    <3>1. NeutralChanges(a, b, m) =
            IF differences(b.neutral[m], a.neutral[m]) = {} THEN {}
            ELSE {Change("neutral_changed", m, "", <<>>, differences(b.neutral[m], a.neutral[m]))}
      BY <2>4 DEF NeutralChanges
    <3> QED BY <1>3, <2>3, <3>1
  <2>5. CASE m \notin DOMAIN a.neutral \cap DOMAIN b.neutral
    <3>1. x = Change("neutral_described", m, "", <<>>, {}) \/ x = Change("neutral_dropped", m, "", <<>>, {})
      BY <1>3, <2>5 DEF NeutralChanges
    <3> QED BY <2>1, <2>2, <3>1
  <2> QED BY <2>4, <2>5
<1>4. ASSUME NEW m, x \in OfferingChanges(a, b, m)
      PROVE  Explained(a, b, x)
  <2>1. CASE \E k : x = Change("offering_added", m, k[1], k[2], {}) \/ x = Change("offering_removed", m, k[1], k[2], {})
    BY <2>1, BareExplained DEF BareClasses
  <2>2. CASE ~(\E k : x = Change("offering_added", m, k[1], k[2], {}) \/ x = Change("offering_removed", m, k[1], k[2], {}))
    <3>1. PICK k \in OfferingsOf(b, m) :
            \E from \in paired(a, b, m, k) : x \in offering_changes(a, b, m, from, k)
      BY <1>4, <2>2, OfferingChangesParts
    <3>2. PICK from \in paired(a, b, m, k) : x \in FieldChanges(m, k, Changed(a, b, from, k))
      BY <3>1, OneOfferingChanges
    <3>3. PICK fields : fields = Changed(a, b, from, k)
      OBVIOUS
    <3>4. PICK class \in FieldClasses : x = Change(class, m, k[1], k[2], PartOf(class, fields))
      BY <3>2, <3>3, FieldChangesParts
    <3>5. PICK part : part = PartOf(class, fields)
      OBVIOUS
    <3>6. x.class = class /\ x.model = m /\ x.provider = k[1] /\ x.published = k[2] /\ x.fields = part
          /\ x = Change(x.class, x.model, x.provider, x.published, x.fields)
      BY <3>4, <3>5, ChangeParts
    <3>7. k = <<x.provider, x.published>>
      BY <3>1, <3>6 DEF OfferingsOf, Shaped
    <3> QED BY <3>2, <3>3, <3>4, <3>5, <3>6, <3>7 DEF Explained
  <2> QED BY <2>1, <2>2
<1>5. {"model_added", "offering_added", "model_removed", "offering_removed"} \subseteq BareClasses
  BY DEF BareClasses
<1> QED BY <1>1, <1>2, <1>3, <1>4, <1>5, BetweenParts

\* No two changes share a sort key.
LEMMA SortKeysDiffer ==
  ASSUME NEW a, NEW b, Shaped(a), Shaped(b), NEW x \in between(a, b), NEW y \in between(a, b),
         SortKey(x) = SortKey(y)
  PROVE  x = y
<1>1. Explained(a, b, x) /\ Explained(a, b, y)
  BY AllExplained
<1>2. x.model = y.model /\ x.provider = y.provider /\ x.class = y.class /\ x.published = y.published
  BY DEF SortKey
<1>3. x.fields = y.fields
  <2>1. CASE x.class \in BareClasses
    BY <1>1, <1>2, <2>1 DEF Explained, BareClasses, FieldClasses
  <2>2. CASE x.class = "provider_changed"
    BY <1>1, <1>2, <2>2 DEF Explained, BareClasses, FieldClasses
  <2>3. CASE x.class = "neutral_changed"
    BY <1>1, <1>2, <2>3 DEF Explained, BareClasses, FieldClasses
  <2>4. CASE x.class \in FieldClasses
    <3>1. PICK k : k = <<x.provider, x.published>>
      OBVIOUS
    <3>2. PICK f \in paired(a, b, x.model, k) : x.fields = PartOf(x.class, Changed(a, b, f, k))
      BY <1>1, <2>4, <3>1 DEF Explained, BareClasses, FieldClasses
    <3>3. PICK g \in paired(a, b, x.model, k) : y.fields = PartOf(x.class, Changed(a, b, g, k))
      BY <1>1, <1>2, <2>4, <3>1 DEF Explained, BareClasses, FieldClasses
    <3>4. f = g
      BY PairedParts
    <3> QED BY <3>2, <3>3, <3>4
  <2> QED BY <1>1, <2>1, <2>2, <2>3, <2>4 DEF Explained
<1> QED BY <1>1, <1>2, <1>3 DEF Explained

\* A callable id whose price moved is named.
LEMMA PriceNamed ==
  ASSUME NEW a, NEW b, Shaped(a), Shaped(b), NEW k \in DOMAIN a.offerings \cap DOMAIN b.offerings,
         a.offerings[k].price # b.offerings[k].price
  PROVE  \E x \in between(a, b) :
           /\ \/ x.class \in {"price_changed", "offering_added"}
              \/ x.class = "metadata_changed" /\ "published_model_id" \in x.fields
           /\ <<x.provider, x.published>> = k
<1>1. PICK m : m = b.offerings[k].model
  OBVIOUS
<1>2. k \in OfferingsOf(b, m) /\ m \in ModelsOf(b) /\ k = <<k[1], k[2]>>
  BY <1>1 DEF OfferingsOf, ModelsOf, Shaped
<1>3. ASSUME NEW x \in between(a, b), x = Change("offering_added", m, k[1], k[2], {})
      PROVE  x.class = "offering_added" /\ <<x.provider, x.published>> = k
  BY <1>2, <1>3, ChangeParts
<1>4. CASE m \notin ModelsOf(a)
  <2>1. PICK x : x = Change("offering_added", m, k[1], k[2], {})
    OBVIOUS
  <2>2. x \in Whole("model_added", "offering_added", b, m)
    BY <1>2, <2>1 DEF Whole
  <2>3. x \in between(a, b)
    BY <1>2, <1>4, <2>2, BetweenParts
  <2> QED BY <1>3, <2>1, <2>3
<1>5. CASE m \in ModelsOf(a) /\ paired(a, b, m, k) = {}
  <2>1. PICK x : x = Change("offering_added", m, k[1], k[2], {})
    OBVIOUS
  <2>2. x \in OfferingChanges(a, b, m)
    BY <1>2, <1>5, <2>1, OfferingChangesParts
  <2>3. x \in between(a, b)
    BY <1>2, <1>5, <2>2, BetweenParts
  <2> QED BY <1>3, <2>1, <2>3
<1>6. CASE m \in ModelsOf(a) /\ paired(a, b, m, k) # {}
  <2>1. PICK from \in paired(a, b, m, k) : TRUE
    BY <1>6
  <2>2. PICK fields : fields = Changed(a, b, from, k)
    OBVIOUS
  <2>3. \A x : x \in FieldChanges(m, k, fields) => x \in between(a, b)
    <3>1. \A x : x \in FieldChanges(m, k, fields) => x \in OfferingChanges(a, b, m)
      BY <1>2, <1>6, <2>1, <2>2, OneOfferingChanges, OfferingChangesParts
    <3> QED BY <1>2, <1>6, <3>1, BetweenParts
  <2>4. CASE from = k
    <3>1. "price" \in fields
      BY <2>2, <2>4 DEF Changed
    <3>2. PICK part : part = PartOf("price_changed", fields)
      OBVIOUS
    <3>3. part # {}
      BY <3>1, <3>2 DEF PartOf
    <3>4. PICK x : x = Change("price_changed", m, k[1], k[2], part)
      OBVIOUS
    <3>5. x \in FieldChanges(m, k, fields)
      BY <3>2, <3>3, <3>4, FieldChangesParts DEF FieldClasses
    <3>6. x.class = "price_changed" /\ <<x.provider, x.published>> = k
      BY <1>2, <3>4, ChangeParts
    <3> QED BY <2>3, <3>5, <3>6
  <2>5. CASE from # k
    <3>1. from[1] = k[1] /\ from = <<from[1], from[2]>>
      BY PairedParts DEF OfferingsOf, Shaped
    <3>2. from[2] # k[2]
      BY <1>2, <2>5, <3>1
    <3>3. "published_model_id" \in fields
      BY <2>2, <3>2 DEF Changed, OfferingFields
    <3>4. PICK part : part = PartOf("metadata_changed", fields)
      OBVIOUS
    <3>5. "published_model_id" \in part
      <4>1. part = fields \ (CapabilityFields \cup {"lifecycle", "price"})
        BY <3>4 DEF PartOf
      <4> QED BY <3>3, <4>1 DEF CapabilityFields
    <3>6. PICK x : x = Change("metadata_changed", m, k[1], k[2], part)
      OBVIOUS
    <3>7. x \in FieldChanges(m, k, fields)
      BY <3>4, <3>5, <3>6, FieldChangesParts DEF FieldClasses
    <3>8. x.class = "metadata_changed" /\ x.fields = part /\ <<x.provider, x.published>> = k
      BY <1>2, <3>6, ChangeParts
    <3> QED BY <2>3, <3>5, <3>7, <3>8
  <2> QED BY <2>4, <2>5
<1> QED BY <1>4, <1>5, <1>6

\* Whatever two contents are read, the difference of the later from the earlier
\* names every change of it: it is empty only when they are the same, no two of
\* its entries share a sort key, and no callable id's price moves unnamed.
THEOREM RefreshNamesEveryChange == CatalogueSpec => []DiffNamesEveryChange
<1>1. ImportInv => DiffNamesEveryChange
  <2> SUFFICES ASSUME ImportInv, import.was # None0
               PROVE  Names(between(import.was[1], import.now[1]), import.was[1], import.now[1])
    BY DEF DiffNamesEveryChange
  <2>1. Alone
    <3>1. Nothing.was = None0
      BY DEF Nothing
    <3> QED BY <3>1 DEF ImportInv
  <2>2. Held(import.was) /\ Held(import.now) /\ import.now # None0
    <3>1. \A x : <<x>> # None0
      BY DEF None0
    <3> QED BY <2>1, <3>1 DEF ImportInv
  <2>3. PICK a, b : a = import.was[1] /\ b = import.now[1]
    OBVIOUS
  <2>4. Shaped(a) /\ Shaped(b)
    BY <2>2, <2>3, ReadIsHeld
  <2>5. PICK diff : diff = between(a, b)
    OBVIOUS
  <2>6. (diff = {}) = (a = b)
    BY <2>4, <2>5, NamedWhenChanged
  <2>7. \A x, y \in diff : SortKey(x) = SortKey(y) => x = y
    BY <2>4, <2>5, SortKeysDiffer
  <2>8. \A k \in DOMAIN a.offerings \cap DOMAIN b.offerings :
          a.offerings[k].price # b.offerings[k].price =>
            \E x \in diff : /\ \/ x.class \in {"price_changed", "offering_added"}
                               \/ x.class = "metadata_changed" /\ "published_model_id" \in x.fields
                            /\ <<x.provider, x.published>> = k
    BY <2>4, <2>5, PriceNamed
  <2>9. Names(diff, a, b)
    BY <2>6, <2>7, <2>8 DEF Names
  <2> QED BY <2>3, <2>5, <2>9
<1> QED BY <1>1, ImportInvariant, PTL

-----------------------------------------------------------------------------
(* nano_dollars_per_million: a number is kept *)

LEMMA LesserOfTwo ==
  ASSUME NEW x \in Int, NEW y \in Int
  PROVE  Min({x, y}) \in {x, y} /\ Min({x, y}) <= x /\ Min({x, y}) <= y
<1>1. \E m \in {x, y} : \A z \in {x, y} : m <= z
  <2>1. CASE x <= y
    BY <2>1
  <2>2. CASE y <= x
    BY <2>2
  <2> QED BY <2>1, <2>2
<1>2. Min({x, y}) \in {x, y} /\ \A z \in {x, y} : Min({x, y}) <= z
  BY <1>1 DEF Min
<1> QED BY <1>2

LEMMA DivideParts ==
  ASSUME NEW n \in Nat, NEW w \in Nat \ {0}
  PROVE  /\ n \div w \in Nat /\ n % w \in Nat /\ n % w < w /\ n = w * (n \div w) + (n % w)
<1>1. n \div w \in Int /\ n % w \in Int /\ 0 <= n % w /\ n % w < w
  OBVIOUS
<1>2. n = w * (n \div w) + (n % w)
  OBVIOUS
<1>3. n \div w >= 0
  OBVIOUS
<1> QED BY <1>1, <1>2, <1>3

\* What a number that grew is worth.
LEMMA GrownKept ==
  ASSUME NEW digits \in Nat, NEW w
  PROVE  /\ ~Grown(digits, w).refused =>
              /\ w \in 1..WideMax /\ Grown(digits, w).v = digits * w /\ digits * w \in 0..RateMax
         /\ Grown(digits, w).refused =>
              w \notin 1..WideMax \/ digits * w > RateMax
<1>1. CASE w \in 1..WideMax
  <2>1. PICK x \in Nat : x = digits * w
    <3>1. w \in Nat
      BY <1>1, CatalogDataAssumption
    <3>2. digits * w \in Nat
      BY <3>1
    <3> QED BY <3>2
  <2>2. Grown(digits, w) = IF x > WideMax THEN Refused ELSE InRange(x)
    BY <1>1, <2>1 DEF Grown
  <2>3. CASE x <= RateMax
    <3>1. ~(x > WideMax) /\ x \in 0..RateMax
      BY <2>3, CatalogDataAssumption
    <3>2. Grown(digits, w) = Got(x)
      BY <2>2, <3>1 DEF InRange
    <3> QED BY <1>1, <2>1, <3>1, <3>2, ReadOrRefused
  <2>4. CASE ~(x <= RateMax)
    <3>1. Grown(digits, w) = Refused
      BY <2>2, <2>4, CatalogDataAssumption DEF InRange
    <3>2. x > RateMax
      BY <2>4, CatalogDataAssumption
    <3> QED BY <2>1, <3>1, <3>2, ReadOrRefused
  <2> QED BY <2>3, <2>4
<1>2. CASE w \notin 1..WideMax
  BY <1>2, ReadOrRefused DEF Grown
<1> QED BY <1>1, <1>2

\* What a number that shrank is worth: v units, and within the noise.
Near(digits, w, v) ==
  \E gap \in Nat : /\ v * w = digits + gap \/ v * w = digits - gap
                   /\ gap * Tolerance <= digits

LEMMA ShrunkKept ==
  ASSUME NEW digits \in Nat, NEW w
  PROVE  /\ ~Shrunk(digits, w).refused =>
              /\ w \in 1..WideMax /\ Near(digits, w, Shrunk(digits, w).v)
              /\ Shrunk(digits, w).v \in Nat /\ (digits > 0 => Shrunk(digits, w).v > 0)
         /\ Shrunk(digits, w).refused /\ digits % w = 0 /\ digits \div w <= RateMax =>
              w \notin 1..WideMax
<1>1. CASE w \notin 1..WideMax
  BY <1>1, ReadOrRefused DEF Shrunk
<1>2. CASE w \in 1..WideMax
  <2>1. PICK z \in Nat \ {0} : z = w
    BY <1>2, CatalogDataAssumption
  <2>2. PICK q \in Nat, r \in Nat : q = digits \div z /\ r = digits % z
    BY DivideParts
  <2>3. r < z /\ digits = z * q + r
    BY <2>2, DivideParts
  <2>4. PICK h : h = Shrunk(digits, w)
    OBVIOUS
  <2>5. PICK n : n = IF r * 2 >= z THEN q + 1 ELSE q
    OBVIOUS
  <2>6. h = IF r = 0 THEN InRange(q)
            ELSE IF is_binary_artifact(digits, z, r) THEN InRange(n) ELSE Refused
    BY <1>2, <2>1, <2>2, <2>4, <2>5 DEF Shrunk
  <2>7. CASE r = 0
    <3>1. h = InRange(q) /\ q * z = digits
      BY <2>3, <2>6, <2>7
    <3>2. Near(digits, z, q)
      <4>1. q * z = digits + 0 /\ 0 * Tolerance <= digits
        BY <3>1, CatalogDataAssumption
      <4> QED BY <4>1 DEF Near
    <3>3. digits > 0 => q > 0
      BY <2>3, <2>7
    <3>4. ~h.refused => h.v = q
      BY <3>1, InRangeParts
    <3>5. h.refused => ~(q <= RateMax)
      BY <3>1, ReadOrRefused, CatalogDataAssumption DEF InRange
    <3> QED BY <1>2, <2>1, <2>2, <2>4, <3>2, <3>3, <3>4, <3>5
  <2>8. CASE r # 0
    <3>1. digits % w # 0
      BY <2>1, <2>2, <2>8
    <3>2. ASSUME ~h.refused
          PROVE  Near(digits, z, h.v) /\ h.v \in Nat /\ h.v > 0
      <4>1. is_binary_artifact(digits, z, r) /\ h = InRange(n)
        BY <2>6, <2>8, <3>2, ReadOrRefused
      <4>2. h.v = n
        BY <3>2, <4>1, InRangeParts
      <4>3. PICK g \in Int : g = Min({r, z - r}) /\ g \in {r, z - r} /\ g <= r /\ g <= z - r
        <5>1. PICK x \in Int, y \in Int : x = r /\ y = z - r
          OBVIOUS
        <5>2. Min({x, y}) \in {x, y} /\ Min({x, y}) <= x /\ Min({x, y}) <= y
          BY LesserOfTwo
        <5> QED BY <5>1, <5>2
      <4>4. PICK t \in Nat : t = Tolerance /\ t >= 2
        BY CatalogDataAssumption
      <4>5. g * t <= digits
        BY <4>1, <4>3, <4>4 DEF is_binary_artifact
      <4>6. CASE r * 2 >= z
        <5>1. n = q + 1 /\ g = z - r
          BY <2>5, <4>3, <4>6
        <5>2. n * z = digits + g /\ g \in Nat
          BY <2>3, <5>1
        <5>3. Near(digits, z, n)
          BY <4>4, <4>5, <5>2 DEF Near
        <5> QED BY <4>2, <5>1, <5>3
      <4>7. CASE ~(r * 2 >= z)
        <5>1. n = q /\ g = r
          BY <2>5, <4>3, <4>7
        <5>2. n * z = digits - g /\ g \in Nat
          BY <2>3, <5>1
        <5>3. Near(digits, z, n)
          BY <4>4, <4>5, <5>2 DEF Near
        <5>4. q # 0
          <6>1. ASSUME q = 0 PROVE FALSE
            <7>1. digits = r
              BY <2>3, <6>1
            <7>2. r * t >= r * 2
              BY <4>4
            <7> QED BY <2>8, <4>5, <5>1, <7>1, <7>2
          <6> QED BY <6>1
        <5> QED BY <4>2, <5>1, <5>3, <5>4
      <4> QED BY <4>6, <4>7
    <3> QED BY <1>2, <2>1, <2>4, <3>1, <3>2
  <2> QED BY <2>7, <2>8
<1> QED BY <1>1, <1>2

\* The two ways a number is moved, and what is required of each.
LEMMA KeptWhenGrown ==
  ASSUME NEW raw, NEW n, NEW digits \in Nat, digits = raw.digits, NEW shift \in Int, ~(shift < 0),
         shift = raw.exponent + Places, NEW w, w = 10^shift,
         n.refused /\ raw.number /\ ~raw.negative =>
           raw.digits > WideMax \/ w \notin 1..WideMax \/ digits * w > RateMax,
         ~n.refused => w \in 1..WideMax /\ n.v = digits * w
  PROVE  NumberKept(raw, n)
<1>1. NumberKept(raw, n) <=>
        LET gap == IF n.v * 1 > digits * w THEN n.v * 1 - digits * w ELSE digits * w - n.v * 1
        IN IF n.refused
           THEN raw.number /\ ~raw.negative /\ (digits * w) % 1 = 0 /\ (digits * w) \div 1 <= RateMax
                  => raw.digits > WideMax \/ w \notin 1..WideMax
           ELSE gap * Tolerance <= digits * w /\ (raw.digits > 0 => n.v > 0)
  BY DEF NumberKept
<1>2. CASE w \in 1..WideMax
  <2>1. w \in Nat /\ w > 0
    BY <1>2, CatalogDataAssumption
  <2>2. PICK x \in Nat : x = digits * w
    <3>1. digits * w \in Nat
      BY <2>1
    <3> QED BY <3>1
  <2>3. x \div 1 = x
    OBVIOUS
  <2>4. digits > 0 => x > 0
    BY <2>1, <2>2
  <2>5. CASE n.refused
    <3>1. raw.number /\ ~raw.negative /\ x \div 1 <= RateMax => raw.digits > WideMax
      BY <1>2, <2>2, <2>3, <2>5, CatalogDataAssumption
    <3> QED BY <1>1, <2>2, <2>5, <3>1
  <2>6. CASE ~n.refused
    <3>1. n.v = x
      BY <2>2, <2>6
    <3>2. PICK t \in Nat : t = Tolerance
      BY CatalogDataAssumption
    <3>3. ~(x * 1 > x) /\ (x - x * 1) * t <= x
      OBVIOUS
    <3>4. ~(n.v * 1 > digits * w) /\ (digits * w - n.v * 1) * Tolerance <= digits * w
      BY <2>2, <3>1, <3>2, <3>3
    <3>5. raw.digits > 0 => n.v > 0
      BY <2>4, <3>1
    <3> QED BY <1>1, <2>6, <3>4, <3>5
  <2> QED BY <2>5, <2>6
<1>3. CASE w \notin 1..WideMax
  BY <1>1, <1>3
<1> QED BY <1>2, <1>3

LEMMA KeptWhenShrunk ==
  ASSUME NEW raw, NEW n, NEW digits \in Nat, digits = raw.digits, NEW shift \in Int, shift < 0,
         shift = raw.exponent + Places, NEW w, w = 10^(-shift),
         n.refused /\ raw.number /\ ~raw.negative =>
           \/ raw.digits > WideMax \/ w \notin 1..WideMax
           \/ ~(digits % w = 0 /\ digits \div w <= RateMax),
         ~n.refused => /\ w \in 1..WideMax /\ Near(digits, w, n.v) /\ n.v \in Nat
                       /\ digits > 0 => n.v > 0
  PROVE  NumberKept(raw, n)
<1>1. NumberKept(raw, n) <=>
        LET gap == IF n.v * w > digits THEN n.v * w - digits ELSE digits - n.v * w
        IN IF n.refused
           THEN raw.number /\ ~raw.negative /\ digits % w = 0 /\ digits \div w <= RateMax
                  => raw.digits > WideMax \/ w \notin 1..WideMax
           ELSE gap * Tolerance <= digits /\ (raw.digits > 0 => n.v > 0)
  BY DEF NumberKept
<1>2. CASE n.refused
  BY <1>1, <1>2
<1>3. CASE ~n.refused
  <2>1. w \in Nat /\ n.v \in Nat
    BY <1>3, CatalogDataAssumption
  <2>2. PICK x \in Nat : x = n.v * w
    <3>1. n.v * w \in Nat
      BY <2>1
    <3> QED BY <3>1
  <2>3. PICK gap \in Nat : (x = digits + gap \/ x = digits - gap) /\ gap * Tolerance <= digits
    BY <1>3, <2>2 DEF Near
  <2>4. (IF x > digits THEN x - digits ELSE digits - x) = gap
    BY <2>3
  <2> QED BY <1>1, <1>3, <2>2, <2>3, <2>4
<1> QED BY <1>2, <1>3

\* A number that is read is the rate it is filed as, up to the noise; and one
\* that the unit states exactly is read.
LEMMA NumberIsKept ==
  ASSUME NEW raw, NumberTyped(raw)
  PROVE  NumberKept(raw, nano_dollars_per_million(raw))
<1>1. PICK shift \in Int, digits \in Nat : shift = raw.exponent + Places /\ digits = raw.digits
  BY CatalogDataAssumption DEF NumberTyped
<1>2. PICK n : n = nano_dollars_per_million(raw)
  OBVIOUS
<1>3. CASE ~raw.number \/ raw.negative \/ digits > WideMax
  <2>1. n.refused /\ (~raw.number \/ raw.negative \/ raw.digits > WideMax)
    BY <1>1, <1>2, <1>3, ReadOrRefused DEF nano_dollars_per_million, parse_decimal
  <2>2. CASE shift < 0
    BY <1>1, <1>2, <2>1, <2>2, KeptWhenShrunk
  <2>3. CASE ~(shift < 0)
    BY <1>1, <1>2, <2>1, <2>3, KeptWhenGrown
  <2> QED BY <2>2, <2>3
<1>4. CASE ~(~raw.number \/ raw.negative \/ digits > WideMax)
  <2>1. PICK d : d = [digits |-> digits, exponent |-> raw.exponent]
    OBVIOUS
  <2>2. parse_decimal(raw) = Got(d) /\ d.digits = digits
    BY <1>1, <1>4, <2>1 DEF parse_decimal
  <2>3. n = Moved(d, shift)
    BY <1>1, <1>2, <2>2, ReadOrRefused DEF nano_dollars_per_million
  <2>4. CASE shift < 0
    <3>1. PICK w : w = 10^(-shift)
      OBVIOUS
    <3>2. n = Shrunk(digits, w)
      BY <2>2, <2>3, <2>4, <3>1 DEF Moved
    <3>3. /\ ~n.refused => /\ w \in 1..WideMax /\ Near(digits, w, n.v) /\ n.v \in Nat
                           /\ digits > 0 => n.v > 0
          /\ n.refused /\ digits % w = 0 /\ digits \div w <= RateMax => w \notin 1..WideMax
      BY <3>2, ShrunkKept
    <3>4. NumberKept(raw, n)
      BY <1>1, <2>4, <3>1, <3>3, KeptWhenShrunk
    <3> QED BY <1>2, <3>4
  <2>5. CASE ~(shift < 0)
    <3>1. PICK w : w = 10^shift
      OBVIOUS
    <3>2. n = Grown(digits, w)
      BY <2>2, <2>3, <2>5, <3>1 DEF Moved
    <3>3. /\ ~n.refused => w \in 1..WideMax /\ n.v = digits * w
          /\ n.refused => w \notin 1..WideMax \/ digits * w > RateMax
      BY <3>2, GrownKept
    <3>4. NumberKept(raw, n)
      BY <1>1, <2>5, <3>1, <3>3, KeptWhenGrown
    <3> QED BY <1>2, <3>4
  <2> QED BY <2>4, <2>5
<1> QED BY <1>3, <1>4

-----------------------------------------------------------------------------
(* A schedule charges what is stated *)

LEMMA LeastOfSome ==
  ASSUME NEW S \in SUBSET Nat, S # {}
  PROVE  \E n \in S : \A m \in S : n <= m
<1> DEFINE R == OpToRel(<, Nat)
<1>1. IsWellFoundedOn(R, Nat)
  BY NatLessThanWellFounded
<1>2. \A x, y \in Nat : <<x, y>> \in R <=> x < y
  BY DEF OpToRel
<1> HIDE DEF R
<1>3. PICK x \in S : \A y \in S : <<y, x>> \notin R
  BY <1>1, WFMin
<1>4. \A y \in S : ~ (y < x)
  BY <1>2, <1>3
<1> QED BY <1>4

LEMMA MinIsOne ==
  ASSUME NEW S \in SUBSET Nat, S # {}
  PROVE  Min(S) \in S
<1>1. \E n \in S : \A m \in S : n <= m
  BY LeastOfSome
<1> QED BY <1>1 DEF Min

LEMMA GreatestBelow ==
  ASSUME NEW S \in SUBSET Nat, S # {}, NEW n \in Nat, \A t \in S : t < n
  PROVE  Max(S) \in S /\ \A t \in S : t <= Max(S)
<1>1. PICK B \in SUBSET Nat : B = {m \in Nat : \A t \in S : t <= m}
  OBVIOUS
<1>2. n \in B
  BY <1>1
<1>3. PICK u \in B : \A m \in B : u <= m
  BY <1>2, LeastOfSome
<1>4. u \in Nat /\ \A t \in S : t <= u
  BY <1>1, <1>3
<1>5. u \in S
  <2>1. ASSUME u \notin S PROVE FALSE
    <3>1. PICK t \in S : TRUE
      OBVIOUS
    <3>2. \A s \in S : s <= u - 1
      BY <1>4, <2>1
    <3>3. u - 1 \in Nat
      BY <1>4, <3>1, <3>2
    <3>4. u - 1 \in B
      BY <1>1, <3>2, <3>3
    <3> QED BY <1>3, <1>4, <3>4
  <2> QED BY <2>1
<1>6. \E x \in S : \A y \in S : x >= y
  BY <1>4, <1>5
<1>7. Max(S) \in S /\ \A y \in S : Max(S) >= y
  BY <1>6 DEF Max
<1> QED BY <1>7

\* The rates above the highest threshold that is passed, or the base.
LEMMA ObservedParts ==
  ASSUME NEW p, NEW g, g = p.tiers, NEW D \in SUBSET Nat, D = DOMAIN g, NEW n \in Nat
  PROVE  \/ (\A t \in D : ~(t < n)) /\ ObservedAt(p, n) = p.base
         \/ \E u \in D : /\ u < n /\ \A t \in D : t < n => t <= u
                         /\ ObservedAt(p, n) = g[u]
<1>1. PICK below \in SUBSET Nat : below = {t \in D : t < n}
  OBVIOUS
<1>2. ObservedAt(p, n) = IF below = {} THEN p.base ELSE g[Max(below)]
  BY <1>1 DEF ObservedAt
<1>3. CASE below = {}
  BY <1>1, <1>2, <1>3
<1>4. CASE below # {}
  <2>1. PICK u : u = Max(below)
    OBVIOUS
  <2>2. u \in below /\ \A t \in below : t <= u
    BY <1>1, <1>4, <2>1, GreatestBelow
  <2> QED BY <1>1, <1>2, <1>4, <2>1, <2>2
<1> QED BY <1>3, <1>4

\* The thresholds and rates a cost states, the legacy key with the tiers.
Stated0(c) ==
  {[t |-> c.tiers[i].size[1], r |-> rates(c.tiers[i].rates).v] : i \in DOMAIN c.tiers} \cup
  (IF c.legacy = None0 THEN {} ELSE {[t |-> LegacyContext, r |-> rates(c.legacy[1]).v]})

LEMMA StatedParts ==
  ASSUME NEW c, NEW X, X = Stated0(c), \A x \in X : x.t \in Nat, NEW n \in Nat
  PROVE  \/ (\A x \in X : ~(x.t < n)) /\ StatedAt(c, n) = rates(c.rates).v
         \/ \E x \in X : /\ x.t < n /\ \A y \in X : y.t < n => y.t <= x.t
                         /\ StatedAt(c, n) = x.r
<1>1. PICK below : below = {x \in X : x.t < n}
  OBVIOUS
<1>2. StatedAt(c, n) = IF below = {} THEN rates(c.rates).v
                       ELSE (CHOOSE x \in below : \A y \in below : y.t <= x.t).r
  BY <1>1 DEF StatedAt, Stated0
<1>3. CASE below = {}
  BY <1>1, <1>2, <1>3
<1>4. CASE below # {}
  <2>1. PICK S : S = {x.t : x \in below}
    OBVIOUS
  <2>2. S \in SUBSET Nat /\ S # {} /\ \A t \in S : t < n
    BY <1>1, <1>4, <2>1
  <2>3. Max(S) \in S /\ \A t \in S : t <= Max(S)
    BY <2>2, GreatestBelow
  <2>4. \E x \in below : \A y \in below : y.t <= x.t
    BY <2>1, <2>3
  <2>5. PICK x : x = CHOOSE z \in below : \A y \in below : y.t <= z.t
    OBVIOUS
  <2>6. x \in below /\ \A y \in below : y.t <= x.t
    BY <2>4, <2>5
  <2>7. StatedAt(c, n) = x.r
    BY <1>2, <1>4, <2>5
  <2>8. x \in X /\ x.t < n /\ \A y \in X : y.t < n => y.t <= x.t
    BY <1>1, <2>6
  <2> QED BY <2>7, <2>8
<1> QED BY <1>3, <1>4

\* A schedule charges what is stated when the two have the same thresholds, with
\* the same rates...
LEMMA ChargedAlike ==
  ASSUME NEW c, NEW p, NEW g, g = p.tiers, NEW D \in SUBSET Nat, D = DOMAIN g, p.base = rates(c.rates).v,
         NEW X, X = Stated0(c), \A x \in X : x.t \in D /\ g[x.t] = x.r,
         \A t \in D : \E x \in X : x.t = t,
         NEW n \in Nat
  PROVE  ObservedAt(p, n) = StatedAt(c, n)
<1>1. \A x \in X : x.t \in Nat
  OBVIOUS
<1>2. \/ (\A x \in X : ~(x.t < n)) /\ StatedAt(c, n) = rates(c.rates).v
      \/ \E x \in X : /\ x.t < n /\ \A y \in X : y.t < n => y.t <= x.t
                      /\ StatedAt(c, n) = x.r
  BY <1>1, StatedParts
<1>3. \/ (\A t \in D : ~(t < n)) /\ ObservedAt(p, n) = p.base
      \/ \E u \in D : /\ u < n /\ \A t \in D : t < n => t <= u
                      /\ ObservedAt(p, n) = g[u]
  BY ONLY ObservedParts, g = p.tiers, D \in SUBSET Nat, D = DOMAIN g, n \in Nat
<1>4. CASE (\A x \in X : ~(x.t < n)) /\ StatedAt(c, n) = rates(c.rates).v
  BY <1>3, <1>4
<1>5. ASSUME NEW x \in X, x.t < n, \A y \in X : y.t < n => y.t <= x.t, StatedAt(c, n) = x.r
      PROVE  ObservedAt(p, n) = StatedAt(c, n)
  <2>1. PICK u \in D : /\ u < n /\ \A t \in D : t < n => t <= u
                       /\ ObservedAt(p, n) = g[u]
    BY <1>3, <1>5
  <2>2. x.t <= u /\ u <= x.t
    BY <1>5, <2>1
  <2>3. u = x.t
    BY <1>1, <2>2
  <2> QED BY <1>5, <2>1, <2>3
<1> QED BY <1>2, <1>4, <1>5

\* ... and when one threshold that is stated has been lowered to the legacy one,
\* which has the same rates, with none between the two.
LEMMA ChargedWhenLowered ==
  ASSUME NEW c, NEW p, NEW g, g = p.tiers, NEW D \in SUBSET Nat, D = DOMAIN g, p.base = rates(c.rates).v,
         NEW X, X = Stated0(c), NEW was \in Nat, was > LegacyContext, LegacyContext \in D,
         \A x \in X : (x.t = was /\ x.r = g[LegacyContext]) \/ (x.t \in D /\ g[x.t] = x.r),
         \A t \in D : \E x \in X : x.t = t,
         \A t \in D : t > LegacyContext => t > was,
         NEW n \in Nat
  PROVE  ObservedAt(p, n) = StatedAt(c, n)
<1>1. \A x \in X : x.t \in Nat
  OBVIOUS
<1>2. \/ (\A x \in X : ~(x.t < n)) /\ StatedAt(c, n) = rates(c.rates).v
      \/ \E x \in X : /\ x.t < n /\ \A y \in X : y.t < n => y.t <= x.t
                      /\ StatedAt(c, n) = x.r
  BY <1>1, StatedParts
<1>3. \/ (\A t \in D : ~(t < n)) /\ ObservedAt(p, n) = p.base
      \/ \E u \in D : /\ u < n /\ \A t \in D : t < n => t <= u
                      /\ ObservedAt(p, n) = g[u]
  BY ObservedParts
<1>4. CASE (\A x \in X : ~(x.t < n)) /\ StatedAt(c, n) = rates(c.rates).v
  BY <1>3, <1>4
<1>5. ASSUME NEW x \in X, x.t < n, \A y \in X : y.t < n => y.t <= x.t, StatedAt(c, n) = x.r
      PROVE  ObservedAt(p, n) = StatedAt(c, n)
  <2>1. CASE x.t \in D /\ g[x.t] = x.r
    <3>1. PICK u \in D : /\ u < n /\ \A t \in D : t < n => t <= u
                         /\ ObservedAt(p, n) = g[u]
      BY <1>3, <1>5, <2>1
    <3>2. x.t <= u /\ u <= x.t
      BY <1>5, <2>1, <3>1
    <3>3. u = x.t
      BY <1>1, <3>2
    <3> QED BY <1>5, <2>1, <3>1, <3>3
  <2>2. CASE x.t = was /\ x.r = g[LegacyContext]
    <3>1. LegacyContext < n
      BY <1>5, <2>2, CatalogDataAssumption
    <3>2. PICK u \in D : /\ u < n /\ \A t \in D : t < n => t <= u
                         /\ ObservedAt(p, n) = g[u]
      BY <1>3, <3>1
    <3>3. LegacyContext <= u /\ u <= was
      BY <1>5, <2>2, <3>1, <3>2
    <3>4. u = LegacyContext
      BY <3>3, CatalogDataAssumption
    <3> QED BY <1>5, <2>2, <3>2, <3>4
  <2> QED BY <2>1, <2>2
<1> QED BY <1>2, <1>4, <1>5

\* A schedule that is accepted names each threshold once, with its tier's rates.
LEMMA ScheduleReads ==
  ASSUME NEW T, T \in Seq(Range(T)), NEW at, at = {t.threshold : t \in Range(T)}, Cardinality(at) = Len(T)
  PROVE  /\ at = {T[i].threshold : i \in DOMAIN T}
         /\ \A i, j \in DOMAIN T : T[i].threshold = T[j].threshold => i = j
         /\ \A i \in DOMAIN T : ByThreshold(T, at)[T[i].threshold] = T[i].rates
<1>1. DOMAIN T = 1..Len(T) /\ Len(T) \in Nat
  OBVIOUS
<1>2. at = {T[i].threshold : i \in DOMAIN T}
  BY DEF Range
<1>3. PICK D : D = DOMAIN T
  OBVIOUS
<1>4. PICK f : f = [i \in D |-> T[i].threshold]
  OBVIOUS
<1>5. f \in Surjection(D, at)
  BY <1>2, <1>3, <1>4 DEF Surjection
<1>6. IsFiniteSet(D) /\ Cardinality(D) = Len(T)
  <2>1. PICK N \in Nat : N = Len(T)
    BY <1>1
  <2>2. IsFiniteSet(1..N) /\ Cardinality(1..N) = IF 1 > N THEN 0 ELSE N - 1 + 1
    <3>1. 1 \in Int /\ N \in Int
      OBVIOUS
    <3> QED BY <3>1, FS_Interval
  <2>3. (IF 1 > N THEN 0 ELSE N - 1 + 1) = N
    OBVIOUS
  <2> QED BY <1>1, <1>3, <2>1, <2>2, <2>3
<1>7. f \in Injection(D, at)
  BY <1>5, <1>6, FS_Surjection
<1>8. \A i, j \in D : f[i] = f[j] => i = j
  BY <1>7 DEF Injection, IsInjective
<1>9. \A i, j \in DOMAIN T : T[i].threshold = T[j].threshold => i = j
  BY <1>3, <1>4, <1>8
<1>10. ASSUME NEW i \in DOMAIN T
       PROVE  ByThreshold(T, at)[T[i].threshold] = T[i].rates
  <2>1. PICK t : t = T[i].threshold
    OBVIOUS
  <2>2. t \in at /\ T[i] \in Range(T)
    BY <1>2, <2>1 DEF Range
  <2>3. PICK x : x = CHOOSE y \in Range(T) : y.threshold = t
    OBVIOUS
  <2>4. x \in Range(T) /\ x.threshold = t
    BY <2>1, <2>2, <2>3
  <2>5. x = T[i]
    BY <1>9, <2>1, <2>4 DEF Range
  <2>6. ByThreshold(T, at)[t] = x.rates
    BY <2>2, <2>3 DEF ByThreshold
  <2> QED BY <2>1, <2>5, <2>6
<1> QED BY <1>2, <1>9, <1>10

\* A tier that is read has the stated size and rates.
LEMMA TierRead ==
  ASSUME NEW tier, TierTyped(tier), ~ReadTier(tier).refused
  PROVE  /\ ReadTier(tier).v = [threshold |-> tier.size[1], rates |-> rates(tier.rates).v]
         /\ tier.size[1] \in Nat /\ tier.size = <<tier.size[1]>>
<1>1. PICK r : r = rates(tier.rates)
  OBVIOUS
<1>2. tier.size # None0 /\ ReadTier(tier) = WithThreshold(tier, r)
  BY <1>1, ReadOrRefused DEF ReadTier
<1>3. ReadTier(tier) = Got([threshold |-> tier.size[1], rates |-> r.v])
  BY <1>2, ReadOrRefused DEF WithThreshold
<1>4. PICK s : s = tier.size
  OBVIOUS
<1>5. s \in Seq(Nat) /\ Len(s) <= 1 /\ s # <<>>
  BY <1>2, <1>4 DEF TierTyped, None0
<1>6. Len(s) = 1 /\ s[1] \in Nat /\ s = <<s[1]>>
  <2>1. Len(s) \in Nat /\ (Len(s) = 0 => s = <<>>)
    BY <1>5
  <2>2. Len(s) = 1
    <3>1. PICK N \in Nat : N = Len(s)
      BY <2>1
    <3>2. N # 0 /\ N <= 1
      BY <1>5, <2>1, <3>1
    <3>3. N = 1
      BY <3>2
    <3> QED BY <3>1, <3>3
  <2>3. PICK n \in Nat : n = s[1]
    BY <1>5, <2>2
  <2>4. s = [i \in 1..1 |-> n]
    BY <1>5, <2>2, <2>3
  <2>5. <<n>> = [i \in 1..1 |-> n]
    OBVIOUS
  <2> QED BY <2>2, <2>3, <2>4, <2>5
<1> QED BY <1>1, <1>3, <1>4, <1>6, ReadOrRefused

\* The stated ones are the tiers S, and the legacy key if there is one.
StatedBy(c, S, l) ==
  \A x : x \in Stated0(c) <=>
    \/ \E i \in DOMAIN S : x = [t |-> S[i].threshold, r |-> S[i].rates]
    \/ c.legacy # None0 /\ x = [t |-> LegacyContext, r |-> l]

\* What the tiers of a cost were read as, and what the cost states.
LEMMA StatedAsRead ==
  ASSUME NEW c, CostTyped(c), NEW S, S = [i \in DOMAIN c.tiers |-> ReadTier(c.tiers[i]).v],
         \A i \in DOMAIN c.tiers : ~ReadTier(c.tiers[i]).refused, NEW l, l = rates(c.legacy[1]).v
  PROVE  /\ DOMAIN S = DOMAIN c.tiers
         /\ \A i \in DOMAIN S : /\ S[i].threshold \in Nat /\ c.tiers[i].size = <<S[i].threshold>>
                                /\ S[i] = [threshold |-> S[i].threshold, rates |-> S[i].rates]
         /\ StatedBy(c, S, l)
<1>1. DOMAIN S = DOMAIN c.tiers
  OBVIOUS
<1>2. ASSUME NEW i \in DOMAIN S
      PROVE  /\ S[i].threshold = c.tiers[i].size[1] /\ S[i].rates = rates(c.tiers[i].rates).v
             /\ S[i].threshold \in Nat /\ c.tiers[i].size = <<S[i].threshold>>
             /\ S[i] = [threshold |-> S[i].threshold, rates |-> S[i].rates]
  <2>1. PICK tier : tier = c.tiers[i]
    OBVIOUS
  <2>2. TierTyped(tier) /\ ~ReadTier(tier).refused /\ S[i] = ReadTier(tier).v
    BY <1>1, <2>1 DEF CostTyped, Range
  <2>3. PICK r : r = rates(tier.rates).v
    OBVIOUS
  <2>4. /\ S[i] = [threshold |-> tier.size[1], rates |-> r]
        /\ tier.size[1] \in Nat /\ tier.size = <<tier.size[1]>>
    BY <2>2, <2>3, TierRead
  <2> QED BY <2>1, <2>3, <2>4
<1>3. ASSUME NEW x
      PROVE  x \in Stated0(c) <=>
              \/ \E i \in DOMAIN S : x = [t |-> S[i].threshold, r |-> S[i].rates]
              \/ c.legacy # None0 /\ x = [t |-> LegacyContext, r |-> l]
  <2>1. x \in Stated0(c) <=>
          \/ \E i \in DOMAIN c.tiers : x = [t |-> c.tiers[i].size[1], r |-> rates(c.tiers[i].rates).v]
          \/ c.legacy # None0 /\ x = [t |-> LegacyContext, r |-> l]
    BY DEF Stated0
  <2>2. PICK f, g : /\ f = [i \in DOMAIN S |-> [t |-> c.tiers[i].size[1], r |-> rates(c.tiers[i].rates).v]]
                    /\ g = [i \in DOMAIN S |-> [t |-> S[i].threshold, r |-> S[i].rates]]
    OBVIOUS
  <2>3. f = g
    BY <1>2, <2>2
  <2>4. (\E i \in DOMAIN c.tiers : x = [t |-> c.tiers[i].size[1], r |-> rates(c.tiers[i].rates).v])
          <=> \E i \in DOMAIN S : x = f[i]
    BY <1>1, <2>2
  <2>5. (\E i \in DOMAIN S : x = [t |-> S[i].threshold, r |-> S[i].rates]) <=> \E i \in DOMAIN S : x = g[i]
    BY <2>2
  <2> QED BY <2>1, <2>3, <2>4, <2>5
<1> QED BY <1>1, <1>2, <1>3 DEF StatedBy

\* A schedule that was accepted: the tiers, and the function of thresholds.
Scheduled(T, g) ==
  LET at == {t.threshold : t \in Range(T)}
  IN T \in Seq(Range(T)) /\ Cardinality(at) = Len(T) /\ g = ByThreshold(T, at)

LEMMA ScheduledParts ==
  ASSUME NEW T, NEW g, Scheduled(T, g)
  PROVE  /\ DOMAIN g = {T[i].threshold : i \in DOMAIN T}
         /\ \A i \in DOMAIN T : T[i].threshold \in DOMAIN g /\ g[T[i].threshold] = T[i].rates
<1>1. PICK at : at = {t.threshold : t \in Range(T)}
  OBVIOUS
<1>2. T \in Seq(Range(T)) /\ Cardinality(at) = Len(T) /\ g = ByThreshold(T, at)
  BY <1>1 DEF Scheduled
<1>3. /\ at = {T[i].threshold : i \in DOMAIN T}
      /\ \A i \in DOMAIN T : g[T[i].threshold] = T[i].rates
  BY <1>1, <1>2, ScheduleReads
<1>4. DOMAIN g = at
  BY <1>2 DEF ByThreshold
<1> QED BY <1>3, <1>4

\* The tiers T are the stated ones.
Covers(X, T) ==
  /\ \A i \in DOMAIN T : T[i].threshold \in Nat
  /\ \A x \in X : \E i \in DOMAIN T : x.t = T[i].threshold /\ x.r = T[i].rates
  /\ \A i \in DOMAIN T : \E x \in X : x.t = T[i].threshold

\* They charge what is stated, then.
LEMMA FoldedAlike ==
  ASSUME NEW c, NEW p, NEW T, Scheduled(T, p.tiers), p.base = rates(c.rates).v, Covers(Stated0(c), T),
         NEW n \in Nat
  PROVE  ObservedAt(p, n) = StatedAt(c, n)
<1>1. PICK g, X, D : g = p.tiers /\ X = Stated0(c) /\ D = DOMAIN g
  OBVIOUS
<1>2. /\ D = {T[i].threshold : i \in DOMAIN T}
      /\ \A i \in DOMAIN T : T[i].threshold \in D /\ g[T[i].threshold] = T[i].rates
  <2>1. Scheduled(T, g)
    BY <1>1
  <2>2. /\ DOMAIN g = {T[i].threshold : i \in DOMAIN T}
        /\ \A i \in DOMAIN T : T[i].threshold \in DOMAIN g /\ g[T[i].threshold] = T[i].rates
    BY ONLY <2>1, ScheduledParts
  <2> QED BY <1>1, <2>2
<1>3. D \in SUBSET Nat
  BY <1>2 DEF Covers
<1>4. \A x \in X : x.t \in D /\ g[x.t] = x.r
  BY <1>1, <1>2 DEF Covers
<1>5. \A t \in D : \E x \in X : x.t = t
  BY <1>1, <1>2 DEF Covers
<1> QED BY <1>1, <1>3, <1>4, <1>5, ChargedAlike

\* Tier k is the one the legacy key spells in the older way: the lowest above its
\* boundary, where there is none, at its rates.
Lowest(S, k, l) ==
  /\ k \in DOMAIN S /\ S[k].threshold > LegacyContext /\ S[k].rates = l
  /\ \A i \in DOMAIN S : S[i].threshold \in Nat /\ S[i].threshold # LegacyContext
  /\ \A i \in DOMAIN S : i # k /\ S[i].threshold > LegacyContext => S[i].threshold > S[k].threshold

LEMMA LegacyTierIsLowest ==
  ASSUME NEW S, NEW l, NEW k \in LegacyTier(S, {i \in DOMAIN S : S[i].threshold > LegacyContext}, l),
         \A i \in DOMAIN S : S[i].threshold \in Nat /\ S[i].threshold # LegacyContext,
         \A i, j \in DOMAIN S : S[i].threshold = S[j].threshold => i = j
  PROVE  Lowest(S, k, l)
<1>1. PICK above : above = {i \in DOMAIN S : S[i].threshold > LegacyContext}
  OBVIOUS
<1>2. /\ k \in above /\ S[k].rates = l
      /\ \A j \in above : S[k].threshold < S[j].threshold
                          \/ (S[k].threshold = S[j].threshold /\ k <= j)
  BY <1>1 DEF LegacyTier
<1>3. k \in DOMAIN S /\ S[k].threshold > LegacyContext
  BY <1>1, <1>2
<1>4. ASSUME NEW i \in DOMAIN S, i # k, S[i].threshold > LegacyContext
      PROVE  S[i].threshold > S[k].threshold
  <2>1. i \in above /\ S[i].threshold # S[k].threshold
    BY <1>1, <1>3, <1>4
  <2>2. S[k].threshold < S[i].threshold
    BY <1>2, <2>1
  <2> QED BY <1>3, <2>2
<1> QED BY <1>2, <1>3, <1>4 DEF Lowest

LEMMA LoweredParts ==
  ASSUME NEW S, S \in Seq(Range(S)), NEW k \in DOMAIN S, NEW T, T = [S EXCEPT ![k].threshold = LegacyContext],
         \A i \in DOMAIN S : S[i] = [threshold |-> S[i].threshold, rates |-> S[i].rates]
  PROVE  /\ DOMAIN T = DOMAIN S /\ T[k].threshold = LegacyContext /\ T[k].rates = S[k].rates
         /\ \A i \in DOMAIN S : i # k => T[i] = S[i]
         /\ T \in Seq(Range(T))
<1>1. PICK e, h, r : e = [S[k] EXCEPT !.threshold = LegacyContext] /\ h = S[k].threshold /\ r = S[k].rates
  OBVIOUS
<1>2. S[k] = [threshold |-> h, rates |-> r]
  BY <1>1
<1>3. e.threshold = LegacyContext /\ e.rates = r
  BY <1>1, <1>2
<1>4. T = [S EXCEPT ![k] = e]
  BY <1>1
<1>5. DOMAIN T = DOMAIN S /\ T[k] = e /\ \A i \in DOMAIN S : i # k => T[i] = S[i]
  BY <1>4
<1>6. T \in Seq(Range(T))
  <2>1. PICK N \in Nat : N = Len(S) /\ DOMAIN S = 1..N
    OBVIOUS
  <2>2. DOMAIN T = 1..N /\ T = [i \in 1..N |-> T[i]]
    BY <1>4, <1>5, <2>1
  <2>3. PICK R : R = Range(T)
    OBVIOUS
  <2>4. T \in [1..N -> R]
    BY <2>2, <2>3 DEF Range
  <2>5. T \in Seq(R)
    BY ONLY <2>4, N \in Nat
  <2> QED BY <2>3, <2>5
<1> QED BY <1>1, <1>3, <1>5, <1>6

\* What is stated: the tiers S, and the legacy key at the rates l.
States(X, S, l) ==
  /\ \A i \in DOMAIN S : \E x \in X : x.t = S[i].threshold /\ x.r = S[i].rates
  /\ \E x \in X : x.t = LegacyContext /\ x.r = l
  /\ \A x \in X : \/ \E i \in DOMAIN S : x.t = S[i].threshold /\ x.r = S[i].rates
                  \/ x.t = LegacyContext /\ x.r = l

\* Tiers of which one is lowered to the legacy boundary.
IsLowered(S, k, T) ==
  /\ DOMAIN T = DOMAIN S /\ T[k].threshold = LegacyContext /\ T[k].rates = S[k].rates
  /\ \A i \in DOMAIN S : i # k => T[i] = S[i]

\* A tier that was lowered to the legacy boundary charges the same.
LEMMA FoldedLower ==
  ASSUME NEW c, NEW p, NEW S, NEW l, NEW k, Lowest(S, k, l), NEW T, IsLowered(S, k, T),
         Scheduled(T, p.tiers), p.base = rates(c.rates).v, States(Stated0(c), S, l), NEW n \in Nat
  PROVE  ObservedAt(p, n) = StatedAt(c, n)
<1>1. /\ k \in DOMAIN S /\ S[k].threshold > LegacyContext /\ S[k].rates = l
      /\ \A i \in DOMAIN S : S[i].threshold \in Nat /\ S[i].threshold # LegacyContext
      /\ \A i \in DOMAIN S : i # k /\ S[i].threshold > LegacyContext => S[i].threshold > S[k].threshold
  BY DEF Lowest
<1>2. /\ DOMAIN T = DOMAIN S /\ T[k].threshold = LegacyContext /\ T[k].rates = l
      /\ \A i \in DOMAIN S : i # k => T[i] = S[i]
  BY <1>1 DEF IsLowered
<1>3. PICK g, X, D, was : g = p.tiers /\ X = Stated0(c) /\ D = DOMAIN g /\ was = S[k].threshold
  OBVIOUS
<1>4. /\ D = {T[i].threshold : i \in DOMAIN T}
      /\ \A i \in DOMAIN T : T[i].threshold \in D /\ g[T[i].threshold] = T[i].rates
  <2>1. Scheduled(T, g)
    BY <1>3
  <2>2. /\ DOMAIN g = {T[i].threshold : i \in DOMAIN T}
        /\ \A i \in DOMAIN T : T[i].threshold \in DOMAIN g /\ g[T[i].threshold] = T[i].rates
    BY ONLY <2>1, ScheduledParts
  <2> QED BY <1>3, <2>2
<1>5. \A t \in D : t = LegacyContext \/ \E i \in DOMAIN S : i # k /\ t = S[i].threshold
  BY <1>2, <1>4
<1>6. \A i \in DOMAIN S : i # k => S[i].threshold \in D /\ g[S[i].threshold] = S[i].rates
  BY <1>2, <1>4
<1>7. LegacyContext \in D /\ g[LegacyContext] = l /\ was \in Nat /\ was > LegacyContext
  BY <1>1, <1>2, <1>3, <1>4
<1>8. D \in SUBSET Nat
  BY <1>1, <1>5, CatalogDataAssumption
<1>9. ASSUME NEW x \in X
      PROVE  (x.t = was /\ x.r = g[LegacyContext]) \/ (x.t \in D /\ g[x.t] = x.r)
  <2>1. \/ \E i \in DOMAIN S : x.t = S[i].threshold /\ x.r = S[i].rates
        \/ x.t = LegacyContext /\ x.r = l
    BY <1>3 DEF States
  <2> QED BY <1>1, <1>3, <1>6, <1>7, <2>1
<1>10. \A t \in D : \E x \in X : x.t = t
  BY <1>3, <1>5 DEF States
<1>11. \A t \in D : t > LegacyContext => t > was
  <2> SUFFICES ASSUME NEW t \in D, t > LegacyContext PROVE t > was
    OBVIOUS
  <2>1. t # LegacyContext
    BY CatalogDataAssumption
  <2>2. PICK i \in DOMAIN S : i # k /\ t = S[i].threshold
    BY <1>5, <2>1
  <2> QED BY <1>1, <1>3, <2>2
<1> QED BY <1>3, <1>7, <1>8, <1>9, <1>10, <1>11, ChargedWhenLowered

\* What a cost states, as what its tiers were read as.
AsRead(c, S, l) ==
  /\ S \in Seq(Range(S))
  /\ \A i \in DOMAIN S : /\ S[i].threshold \in Nat
                         /\ S[i] = [threshold |-> S[i].threshold, rates |-> S[i].rates]
  /\ Unambiguous(c) => \A i, j \in DOMAIN S : S[i].threshold = S[j].threshold => i = j
  /\ c.legacy = None0 => Covers(Stated0(c), S)
  /\ c.legacy # None0 => States(Stated0(c), S, l)

LEMMA CostAsRead ==
  ASSUME NEW c, CostTyped(c), NEW S, S = [i \in DOMAIN c.tiers |-> ReadTier(c.tiers[i]).v],
         S \in Seq(Range(S)), \A i \in DOMAIN c.tiers : ~ReadTier(c.tiers[i]).refused,
         NEW l, l = rates(c.legacy[1]).v
  PROVE  AsRead(c, S, l)
<1>1. PICK X : X = Stated0(c)
  OBVIOUS
<1>2. /\ DOMAIN S = DOMAIN c.tiers
      /\ \A i \in DOMAIN S : /\ S[i].threshold \in Nat /\ c.tiers[i].size = <<S[i].threshold>>
                             /\ S[i] = [threshold |-> S[i].threshold, rates |-> S[i].rates]
      /\ \A x : x \in X <=>
           \/ \E i \in DOMAIN S : x = [t |-> S[i].threshold, r |-> S[i].rates]
           \/ c.legacy # None0 /\ x = [t |-> LegacyContext, r |-> l]
  <2>1. /\ DOMAIN S = DOMAIN c.tiers
        /\ \A i \in DOMAIN S : /\ S[i].threshold \in Nat /\ c.tiers[i].size = <<S[i].threshold>>
                               /\ S[i] = [threshold |-> S[i].threshold, rates |-> S[i].rates]
    BY StatedAsRead
  <2>2. \A x : x \in Stated0(c) <=>
           \/ \E i \in DOMAIN S : x = [t |-> S[i].threshold, r |-> S[i].rates]
           \/ c.legacy # None0 /\ x = [t |-> LegacyContext, r |-> l]
    <3>1. StatedBy(c, S, l)
      BY StatedAsRead
    <3> QED BY <3>1 DEF StatedBy
  <2> QED BY <1>1, <2>1, <2>2
<1>3. ASSUME NEW i \in DOMAIN S
      PROVE  \E x \in X : x.t = S[i].threshold /\ x.r = S[i].rates
  <2>1. PICK x : x = [t |-> S[i].threshold, r |-> S[i].rates]
    OBVIOUS
  <2>2. x \in X
    BY <1>2, <2>1
  <2>3. x.t = S[i].threshold /\ x.r = S[i].rates
    BY <2>1
  <2> QED BY <2>2, <2>3
<1>4. ASSUME c.legacy # None0
      PROVE  \E x \in X : x.t = LegacyContext /\ x.r = l
  <2>1. PICK x : x = [t |-> LegacyContext, r |-> l]
    OBVIOUS
  <2>2. x \in X
    BY <1>2, <1>4, <2>1
  <2>3. x.t = LegacyContext /\ x.r = l
    BY <2>1
  <2> QED BY <2>2, <2>3
<1>5. ASSUME NEW x \in X
      PROVE  \/ \E i \in DOMAIN S : x.t = S[i].threshold /\ x.r = S[i].rates
             \/ c.legacy # None0 /\ x.t = LegacyContext /\ x.r = l
  <2>2. \/ \E i \in DOMAIN S : x = [t |-> S[i].threshold, r |-> S[i].rates]
        \/ c.legacy # None0 /\ x = [t |-> LegacyContext, r |-> l]
    BY <1>2
  <2>3. CASE c.legacy # None0 /\ x = [t |-> LegacyContext, r |-> l]
    BY <2>3
  <2>4. CASE \E i \in DOMAIN S : x = [t |-> S[i].threshold, r |-> S[i].rates]
    <3>1. PICK i \in DOMAIN S : x = [t |-> S[i].threshold, r |-> S[i].rates]
      BY <2>4
    <3>2. x.t = S[i].threshold /\ x.r = S[i].rates
      BY <3>1
    <3> QED BY <3>2
  <2> QED BY <2>2, <2>3, <2>4
<1>6. ASSUME Unambiguous(c), NEW i \in DOMAIN S, NEW j \in DOMAIN S, S[i].threshold = S[j].threshold
      PROVE  i = j
  <2>1. c.tiers[i].size = <<S[i].threshold>> /\ c.tiers[j].size = <<S[j].threshold>>
    BY <1>2
  <2>2. c.tiers[i].size = c.tiers[j].size
    BY <1>6, <2>1
  <2> QED BY <1>2, <1>6, <2>2 DEF Unambiguous
<1>7. c.legacy = None0 => Covers(X, S)
  BY <1>2, <1>3, <1>5 DEF Covers
<1>8. c.legacy # None0 => States(X, S, l)
  BY <1>3, <1>4, <1>5 DEF States
<1> QED BY <1>1, <1>2, <1>6, <1>7, <1>8 DEF AsRead

\* Tiers with the legacy key folded in are a sequence again.
LEMMA FoldedIsSeq ==
  ASSUME NEW S, NEW l, S \in Seq(Range(S)),
         \A i \in DOMAIN S : S[i] = [threshold |-> S[i].threshold, rates |-> S[i].rates]
  PROVE  ~WithLegacy(S, l).refused => WithLegacy(S, l).v \in Seq(Range(WithLegacy(S, l).v))
<1> SUFFICES ASSUME ~WithLegacy(S, l).refused
             PROVE  WithLegacy(S, l).v \in Seq(Range(WithLegacy(S, l).v))
  OBVIOUS
<1>1. PICK T : T = WithLegacy(S, l).v
  OBVIOUS
<1> DEFINE same == {i \in DOMAIN S : S[i].threshold = LegacyContext}
           above == {i \in DOMAIN S : S[i].threshold > LegacyContext}
           moved == LegacyTier(S, above, l)
           added == [threshold |-> LegacyContext, rates |-> l]
<1>2. \/ T = S
      \/ moved # {} /\ T = [S EXCEPT ![Min(moved)].threshold = LegacyContext]
      \/ T = Append(S, added)
  BY <1>1, WithLegacyParts
<1>3. PICK N \in Nat : DOMAIN S = 1..N /\ N = Len(S)
  OBVIOUS
<1>4. moved \in SUBSET Nat /\ moved \subseteq DOMAIN S
  BY <1>3 DEF LegacyTier
<1>5. CASE T = S
  BY <1>1, <1>5
<1>6. CASE moved # {} /\ T = [S EXCEPT ![Min(moved)].threshold = LegacyContext]
  <2>1. PICK k : k = Min(moved)
    OBVIOUS
  <2>2. k \in DOMAIN S /\ T = [S EXCEPT ![k].threshold = LegacyContext]
    BY <1>4, <1>6, <2>1, MinIsOne
  <2>3. T \in Seq(Range(T))
    BY <2>2, LoweredParts
  <2> QED BY <1>1, <2>3
<1>7. CASE T = Append(S, added)
  <2>1. PICK e : e = added
    OBVIOUS
  <2>2. PICK R : S \in Seq(R) /\ e \in R
    <3>1. S \in Seq(Range(S) \cup {e})
      OBVIOUS
    <3> QED BY <3>1
  <2>3. T \in Seq(R) /\ DOMAIN T = 1..(N + 1)
    BY <1>3, <1>7, <2>1, <2>2
  <2>4. PICK M \in Nat : M = N + 1
    OBVIOUS
  <2>5. PICK U : U = Range(T)
    OBVIOUS
  <2>6. T \in [1..M -> U]
    BY <2>3, <2>4, <2>5 DEF Range
  <2>7. T \in Seq(U)
    BY ONLY <2>6, M \in Nat
  <2> QED BY <1>1, <2>5, <2>7
<1> QED BY <1>2, <1>5, <1>6, <1>7

\* The three ways the legacy key is folded.
LEMMA FoldedIn ==
  ASSUME NEW c, c.legacy # None0, Unambiguous(c), NEW S, NEW l, AsRead(c, S, l), ~WithLegacy(S, l).refused,
         NEW p, p.base = rates(c.rates).v, Scheduled(WithLegacy(S, l).v, p.tiers), NEW n \in Nat
  PROVE  ObservedAt(p, n) = StatedAt(c, n)
<1>1. /\ S \in Seq(Range(S))
      /\ \A i \in DOMAIN S : /\ S[i].threshold \in Nat
                             /\ S[i] = [threshold |-> S[i].threshold, rates |-> S[i].rates]
      /\ \A i, j \in DOMAIN S : S[i].threshold = S[j].threshold => i = j
      /\ States(Stated0(c), S, l)
  BY DEF AsRead
<1>2. PICK T : T = WithLegacy(S, l).v
  OBVIOUS
<1> DEFINE same == {i \in DOMAIN S : S[i].threshold = LegacyContext}
           above == {i \in DOMAIN S : S[i].threshold > LegacyContext}
           moved == LegacyTier(S, above, l)
           added == [threshold |-> LegacyContext, rates |-> l]
<1>3. \/ same # {} /\ S[Min(same)].rates = l /\ T = S
      \/ same = {} /\ moved # {} /\ T = [S EXCEPT ![Min(moved)].threshold = LegacyContext]
      \/ same = {} /\ moved = {} /\ T = Append(S, added)
  <2>1. S \in Seq(Range(S))
    BY <1>1
  <2> QED BY ONLY <1>2, <2>1, ~WithLegacy(S, l).refused, WithLegacyParts
<1>4. PICK N \in Nat : DOMAIN S = 1..N /\ N = Len(S)
  BY <1>1
<1>5. same \in SUBSET Nat /\ moved \in SUBSET Nat /\ moved \subseteq DOMAIN S
  BY <1>4 DEF LegacyTier
<1>6. CASE same # {} /\ S[Min(same)].rates = l /\ T = S
  <2>1. Min(same) \in same
    BY <1>5, <1>6, MinIsOne
  <2>2. PICK j \in DOMAIN S : S[j].threshold = LegacyContext /\ S[j].rates = l
    BY <1>6, <2>1
  <2>3. Covers(Stated0(c), S)
    BY <1>1, <2>2 DEF Covers, States
  <2> QED BY <1>2, <1>6, <2>3, FoldedAlike
<1>7. CASE same = {} /\ moved # {} /\ T = [S EXCEPT ![Min(moved)].threshold = LegacyContext]
  <2>1. PICK k : k = Min(moved)
    OBVIOUS
  <2>2. k \in moved /\ T = [S EXCEPT ![k].threshold = LegacyContext]
    BY <1>5, <1>7, <2>1, MinIsOne
  <2>3. \A i \in DOMAIN S : S[i].threshold \in Nat /\ S[i].threshold # LegacyContext
    BY <1>1, <1>7
  <2>4. Lowest(S, k, l)
    BY <1>1, <2>2, <2>3, LegacyTierIsLowest
  <2>5. IsLowered(S, k, T)
    BY <1>1, <1>5, <2>2, LoweredParts DEF IsLowered
  <2> QED BY <1>1, <1>2, <2>4, <2>5, FoldedLower
<1>8. CASE same = {} /\ moved = {} /\ T = Append(S, added)
  <2>1. PICK e : e = added
    OBVIOUS
  <2>2. e.threshold = LegacyContext /\ e.rates = l /\ T = Append(S, e)
    BY <1>8, <2>1
  <2>3. PICK R : S \in Seq(R) /\ e \in R
    <3>1. S \in Seq(Range(S) \cup {e})
      BY <1>1
    <3> QED BY <3>1
  <2>4. Len(T) = N + 1 /\ T[N + 1] = e /\ DOMAIN T = 1..(N + 1) /\ \A i \in 1..N : T[i] = S[i]
    BY <1>4, <2>2, <2>3
  <2>5. /\ \A i \in DOMAIN T : i = N + 1 \/ i \in DOMAIN S
        /\ N + 1 \in DOMAIN T /\ T[N + 1].threshold = LegacyContext /\ T[N + 1].rates = l
        /\ \A i \in DOMAIN S : i \in DOMAIN T /\ T[i] = S[i]
    BY <1>4, <2>2, <2>4
  <2>6. Covers(Stated0(c), T)
    <3>1. \A i \in DOMAIN T : T[i].threshold \in Nat
      BY <1>1, <2>5, CatalogDataAssumption
    <3>2. \A x \in Stated0(c) : \E i \in DOMAIN T : x.t = T[i].threshold /\ x.r = T[i].rates
      BY <1>1, <2>5 DEF States
    <3>3. \A i \in DOMAIN T : \E x \in Stated0(c) : x.t = T[i].threshold
      BY <1>1, <2>5 DEF States
    <3> QED BY <3>1, <3>2, <3>3 DEF Covers
  <2> QED BY <1>2, <2>6, FoldedAlike
<1> QED BY <1>3, <1>6, <1>7, <1>8

\* However the legacy key is folded into the tiers, a context of any size is
\* charged what is stated for it.
LEMMA ScheduleIsKept ==
  ASSUME NEW c, CostTyped(c), ~Schedule(AllTiers(c)).refused, Unambiguous(c),
         NEW p, p.base = rates(c.rates).v, p.tiers = Schedule(AllTiers(c)).v, NEW n \in Nat
  PROVE  ObservedAt(p, n) = StatedAt(c, n)
<1>1. PICK a, T, S, l : /\ a = AllTiers(c) /\ T = a.v /\ l = rates(c.legacy[1]).v
                        /\ S = [i \in DOMAIN c.tiers |-> ReadTier(c.tiers[i]).v]
  OBVIOUS
<1>2. PICK at : at = {t.threshold : t \in Range(T)}
  OBVIOUS
<1>3. ~a.refused /\ Cardinality(at) = Len(T) /\ p.tiers = ByThreshold(T, at)
  BY <1>1, <1>2, ScheduleParts
<1>4. /\ \A i \in DOMAIN c.tiers : ~ReadTier(c.tiers[i]).refused
      /\ S \in Seq(Range(S))
      /\ c.legacy = None0 => T = S
      /\ c.legacy # None0 => ~WithLegacy(S, l).refused /\ T = WithLegacy(S, l).v
  BY <1>1, <1>3, AllTiersParts
<1>5. AsRead(c, S, l)
  BY <1>1, <1>4, CostAsRead
<1>6. T \in Seq(Range(T))
  BY <1>4, <1>5, FoldedIsSeq DEF AsRead
<1>7. Scheduled(T, p.tiers)
  BY <1>2, <1>3, <1>6 DEF Scheduled
<1>8. CASE c.legacy = None0
  <2>1. T = S /\ Covers(Stated0(c), S)
    BY <1>4, <1>5, <1>8 DEF AsRead
  <2> QED BY <1>7, <2>1, FoldedAlike
<1>9. CASE c.legacy # None0
  <2>1. ~WithLegacy(S, l).refused /\ Scheduled(WithLegacy(S, l).v, p.tiers)
    BY <1>4, <1>7, <1>9
  <2> QED BY <1>5, <1>9, <2>1, FoldedIn
<1> QED BY <1>8, <1>9

\* A price that was read is none, or charges what the cost states.
LEMMA PriceIsKept ==
  ASSUME NEW cost, cost # None0, CostTyped(cost[1]), ~price(cost).refused
  PROVE  ScheduleKept(cost[1], price(cost).v)
<1> SUFFICES ASSUME price(cost).v # None0, Unambiguous(cost[1]), NEW n \in 0..(LegacyContext + 4)
             PROVE  ObservedAt(price(cost).v[1], n) = StatedAt(cost[1], n)
  BY DEF ScheduleKept
<1>1. PICK c, p : /\ c = cost[1] /\ ~Schedule(AllTiers(c)).refused
                  /\ p = [base |-> rates(c.rates).v, tiers |-> Schedule(AllTiers(c)).v]
                  /\ price(cost).v = <<p>>
  BY PriceParts
<1>2. p.base = rates(c.rates).v /\ p.tiers = Schedule(AllTiers(c)).v /\ price(cost).v[1] = p
  BY <1>1
<1>3. n \in Nat
  BY CatalogDataAssumption
<1> QED BY <1>1, <1>2, <1>3, ScheduleIsKept

\* Whatever document is read, whether it is admitted or not: every rate it states
\* is kept, and a context of any size is charged what the document states for it.
THEOREM ReadPricesAreKept == CatalogueSpec => []SchedulesKept
<1>1. ImportInv => SchedulesKept
  <2> SUFFICES ASSUME ImportInv, NEW k \in OfferingKeys(import.doc), Wire(import.doc, k).cost # None0
               PROVE  LET cost == Wire(import.doc, k).cost[1] IN
                      /\ \A f \in DOMAIN cost.rates :
                           NumberKept(cost.rates[f], nano_dollars_per_million(cost.rates[f]))
                      /\ import.admitted => ScheduleKept(cost, import.now[1].offerings[k].price)
    BY DEF SchedulesKept
  <2>1. Alone
    <3>1. OfferingKeys(NoDocument) = {}
      BY DEF OfferingKeys, NoDocument
    <3>2. Nothing.doc = NoDocument
      BY DEF Nothing
    <3> QED BY <3>1, <3>2 DEF ImportInv
  <2>2. PICK d, w, cost : d = import.doc /\ w = Wire(d, k) /\ cost = w.cost
    OBVIOUS
  <2>3. d \in Samples /\ DocumentTyped(d)
    BY <2>1, <2>2, SamplesTyped DEF ImportInv
  <2>4. cost # None0 /\ CostTyped(cost[1])
    BY <2>2, <2>3, KeysTyped DEF ModelTyped
  <2>5. \A f \in DOMAIN cost[1].rates :
          NumberKept(cost[1].rates[f], nano_dollars_per_million(cost[1].rates[f]))
    BY <2>4, NumberIsKept DEF CostTyped, RatesTyped
  <2>6. ASSUME import.admitted
        PROVE  ScheduleKept(cost[1], import.now[1].offerings[k].price)
    <3>1. PICK c : c = import.now[1]
      OBVIOUS
    <3>2. Reads(d, c)
      BY <2>2, <2>6, <3>1, AdmittedRead
    <3>3. c.offerings = [q \in OfferingKeys(d) |-> OfferingOf(d, q)] /\ ~price(cost).refused
      BY <2>2, <3>2, ReadParts
    <3>4. c.offerings[k].price = price(cost).v
      BY <2>2, <3>3 DEF OfferingOf
    <3> QED BY <2>4, <3>1, <3>3, <3>4, PriceIsKept
  <2> QED BY <2>2, <2>5, <2>6
<1> QED BY <1>1, ImportInvariant, PTL
=============================================================================
