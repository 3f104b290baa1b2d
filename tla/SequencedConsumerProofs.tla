----------------------- MODULE SequencedConsumerProofs -----------------------
(***************************************************************************)
(* Proofs about SequencedConsumer, for every bound, batch size, page size, *)
(* set of faults and set of events that cannot be applied.                 *)
(***************************************************************************)
EXTENDS SequencedConsumer, FiniteSetTheorems, WellFoundedInduction, TLAPS

-----------------------------------------------------------------------------
(* Keys are totally ordered. *)

LEMMA KeyLeqTransitive ==
  ASSUME NEW a \in Key, NEW b \in Key, NEW c \in Key, KeyLeq(a, b), KeyLeq(b, c)
  PROVE  KeyLeq(a, c)
BY DEF Key, KeyLeq, KeyLess

LEMMA KeyLeqTotal ==
  ASSUME NEW a \in Key, NEW b \in Key
  PROVE  KeyLeq(a, b) \/ KeyLess(b, a)
BY DEF Key, KeyLeq, KeyLess

\* The keys of re-emitted sequences are keys, and of a journaled sequence.
LEMMA KeysBetweenType ==
  ASSUME TypeOK, NEW lo \in Nat \ {0}, NEW hi \in 0 .. Len(journal)
  PROVE  \A k \in KeysBetween(lo, hi) : k \in Key /\ k[1] >= 1
<1> SUFFICES ASSUME NEW k \in KeysBetween(lo, hi)
             PROVE  k \in Key /\ k[1] >= 1
  BY Zenon
<1>1. PICK s \in lo .. hi : k \in {<<s, i>> : i \in 0 .. journal[s] - 1}
  BY Zenon DEF KeysBetween
<1>2. PICK i \in 0 .. journal[s] - 1 : k = <<s, i>>
  BY Zenon, <1>1
<1>3. s \in Nat /\ s >= 1 /\ s \in 1 .. Len(journal)
  BY DEF TypeOK
<1>4. journal[s] \in Nat
  BY <1>3 DEF TypeOK
<1>5. i \in Nat
  BY <1>4
<1> QED
  BY Zenon, <1>2, <1>3, <1>5 DEF Key

-----------------------------------------------------------------------------
(* The inductive invariant, in named parts. *)

\* The publisher's position is a key the journal has.
PublishedInJournal ==
  /\ published[1] <= Len(journal)
  /\ published[2] <= LastIdx(published[1])

\* Entry ids are handed out in increasing order.
IdsBelowNext ==
  /\ IsFiniteSet(stream)
  /\ groupLast < nextId
  /\ \A e \in stream : e.id < nextId

\* Only events of a journaled command are ever in flight.
InFlightKeys ==
  /\ \A e \in stream \cup batch : e.key[1] >= 1
  /\ \A k \in page : k[1] >= 1

\* The in-memory position trails the stored one, and both stand on an event
\* whose effects are committed.
IsApplied(k) == \E i \in 1 .. Len(applied) : applied[i] = k
Positions ==
  /\ KeyLeq(offset, stored)
  /\ offset = StartKey \/ IsApplied(offset)
  /\ stored = StartKey \/ IsApplied(stored)
  /\ \A i \in 1 .. Len(applied) : KeyLeq(applied[i], stored)

\* What is about to be acknowledged is at or below the in-memory position.
DoneIsApplied == \A e \in done : KeyLeq(e.key, offset)

TInv == TypeOK /\ PublishedInJournal

IInv ==
  /\ TInv
  /\ IdsBelowNext
  /\ InFlightKeys
  /\ Positions
  /\ DoneIsApplied
  /\ AckedIsCommitted
  /\ NoSequenceSkipped

-----------------------------------------------------------------------------
(* Types *)

LEMMA CommitType ==
  ASSUME TypeOK, NEW k \in Key, Commit(k)
  PROVE  stored' \in Key /\ applied' \in Seq(Key)
BY DEF TypeOK, Commit

LEMMA NotAppliedType ==
  ASSUME TypeOK, NEW k \in Key, NotApplied(k)
  PROVE  /\ stored' \in Key /\ applied' \in Seq(Key)
         /\ offset' \in Key /\ halted' \in BOOLEAN
<1>1. CASE Commit(k) /\ UNCHANGED <<offset, halted>>
  BY Zenon, <1>1, CommitType DEF TypeOK
<1>2. CASE halted' = TRUE /\ UNCHANGED <<dbVars, offset>>
  BY Zenon, <1>2 DEF TypeOK, dbVars
<1>3. CASE UNCHANGED <<dbVars, offset, halted>>
  BY Zenon, <1>3 DEF TypeOK, dbVars
<1> QED
  BY Zenon, <1>1, <1>2, <1>3 DEF NotApplied

LEMMA TypeInit == Init => TInv
<1> SUFFICES ASSUME Init PROVE TInv
  BY Zenon
<1>1. TypeOK
  <2>1. journal \in Seq(Nat \ {0}) /\ applied \in Seq(Key)
    BY DEF Init
  <2>2. StartKey \in Key
    BY Zenon DEF StartKey, Key
  <2> QED
    BY Zenon, <2>1, <2>2 DEF Init, TypeOK
<1>2. PublishedInJournal
  BY DEF Init, PublishedInJournal, StartKey, LastIdx
<1> QED
  BY Zenon, <1>1, <1>2 DEF TInv

\* Steps that leave the engine alone preserve its part of the invariant.
LEMMA EngineUnchanged ==
  ASSUME TInv, UNCHANGED engineVars
  PROVE  /\ PublishedInJournal'
         /\ journal' \in Seq(Nat \ {0}) /\ published' \in Key
BY Zenon DEF TInv, TypeOK, engineVars, PublishedInJournal, LastIdx

LEMMA RedisUnchanged ==
  ASSUME TypeOK, UNCHANGED redisVars
  PROVE  /\ stream' \subseteq Entry /\ nextId' \in Nat
         /\ groupExists' \in BOOLEAN /\ groupLast' \in Nat /\ pel' \subseteq Entry
BY Zenon DEF TypeOK, redisVars

LEMMA TypeStepEngine ==
  ASSUME TInv, EngineCommand \/ Publish \/ Republish
  PROVE  TInv'
<1> USE DEF TInv, TypeOK, redisVars, dbVars, sourceVars, cycleVars, recoverVars
<1>1. CASE EngineCommand
  <2>1. PICK n \in Nat \ {0} : journal' = Append(journal, n)
    BY <1>1, ConsumerAssumption DEF EngineCommand
  <2>2. /\ journal' \in Seq(Nat \ {0}) /\ Len(journal') = Len(journal) + 1
        /\ \A s \in 1 .. Len(journal) : journal'[s] = journal[s]
    BY <2>1
  <2>3. TypeOK'
    BY Zenon, <1>1, <2>2 DEF EngineCommand
  <2>4. PublishedInJournal'
    <3>1. published' = published /\ published[1] \in 0 .. Len(journal)
      BY <1>1 DEF EngineCommand, PublishedInJournal, Key
    <3> QED
      BY <2>2, <3>1 DEF PublishedInJournal, LastIdx
  <2> QED
    BY Zenon, <2>3, <2>4
<1>2. CASE Publish
  <2>1. published[1] \in 0 .. Len(journal) /\ published[2] \in Nat
    BY DEF PublishedInJournal, Key
  <2>2. published' = NextKey(published) /\ journal' = journal
    BY Zenon, <1>2 DEF Publish
  <2>3. published' \in Key
    BY <2>1, <2>2 DEF NextKey, Key
  <2>4. PublishedInJournal'
    <3>1. CASE published[2] < LastIdx(published[1])
      <4>1. LastIdx(published[1]) \in Int
        BY <2>1 DEF LastIdx
      <4> QED
        BY <2>1, <2>2, <3>1, <4>1 DEF PublishedInJournal, NextKey, LastIdx
    <3>2. CASE ~(published[2] < LastIdx(published[1]))
      <4>1. LastIdx(published[1]) \in Int
        BY <2>1 DEF LastIdx
      <4>2. published[2] = LastIdx(published[1])
        BY <2>1, <3>2, <4>1 DEF PublishedInJournal
      <4>3. published = <<published[1], published[2]>>
        BY DEF Key
      <4>4. published[1] < Len(journal)
        BY <1>2, <2>1, <4>2, <4>3 DEF Publish
      <4>5. published' = <<published[1] + 1, 0>>
        BY Zenon, <2>2, <3>2 DEF NextKey
      <4>6. journal[published[1] + 1] \in Nat \ {0}
        BY <2>1, <4>4
      <4> QED
        BY <2>1, <2>2, <4>4, <4>5, <4>6 DEF PublishedInJournal, LastIdx
    <3> QED
      BY Zenon, <3>1, <3>2
  <2>5. stream' \subseteq Entry /\ nextId' \in Nat
    BY <1>2, <2>3 DEF Publish, Entry
  <2> QED
    BY Zenon, <1>2, <2>3, <2>4, <2>5 DEF Publish
<1>3. CASE Republish
  <2>1. PICK s \in 0 .. published[1] - 1 : published' = <<s, LastIdx(s)>>
    BY Zenon, <1>3 DEF Republish
  <2>2. s \in 0 .. Len(journal)
    BY DEF PublishedInJournal, Key
  <2>3. LastIdx(s) \in Nat
    <3>1. CASE s = 0
      BY Zenon, <3>1 DEF LastIdx
    <3>2. CASE s # 0
      <4>1. journal[s] \in Nat \ {0}
        BY <2>2, <3>2
      <4> QED
        BY <3>2, <4>1 DEF LastIdx
    <3> QED
      BY Zenon, <3>1, <3>2
  <2>4. published' \in Key
    BY <2>1, <2>2, <2>3 DEF Key
  <2>5. PublishedInJournal'
    BY <1>3, <2>1, <2>2, <2>3 DEF PublishedInJournal, Republish, LastIdx
  <2> QED
    BY Zenon, <1>3, <2>4, <2>5 DEF Republish
<1> QED
  BY Zenon, <1>1, <1>2, <1>3

\* What RecoverReturns and StartRecover leave is well typed.
LEMMA RecoverTypes ==
  ASSUME TypeOK, (\E f \in {"idle", "batch"} : StartRecover(f))
                 \/ (\E b \in BOOLEAN : RecoverReturns(b))
  PROVE  /\ pc' \in {"idle", "batch", "fetch", "ack"}
         /\ after' \in Nat /\ page' \subseteq Key /\ caller' \in {"idle", "batch"}
<1>1. CASE \E f \in {"idle", "batch"} : StartRecover(f)
  <2>1. offset[1] \in Nat
    BY Zenon DEF TypeOK, Key
  <2> QED
    BY <1>1, <2>1 DEF StartRecover
<1>2. CASE \E b \in BOOLEAN : RecoverReturns(b)
  BY <1>2 DEF RecoverReturns
<1> QED
  BY Zenon, <1>1, <1>2

LEMMA TypeStepRead ==
  ASSUME TInv, Trim \/ Wipe \/ Start \/ Crash \/ ReadReset \/ Read
  PROVE  TInv'
<1> USE DEF TInv, TypeOK, redisVars, dbVars, sourceVars, cycleVars, recoverVars
<1>0. StartKey \in Key
  BY Zenon DEF StartKey, Key
<1>1. PublishedInJournal' /\ journal' \in Seq(Nat \ {0}) /\ published' \in Key
  BY Zenon, EngineUnchanged DEF Trim, Wipe, Start, Crash, ReadReset, Read
<1>2. CASE Trim
  BY Zenon, <1>1, <1>2 DEF Trim
<1>3. CASE Wipe
  BY Zenon, <1>1, <1>3 DEF Wipe
<1>4. CASE Start
  BY Zenon, <1>1, <1>4 DEF Start
<1>5. CASE Crash
  <2>1. /\ batch' \subseteq Entry /\ done' \subseteq Entry /\ page' \subseteq Key
        /\ pc' = "down" /\ cursor' = "0" /\ caller' = "idle"
        /\ groupReady' = FALSE /\ halted' = FALSE /\ recovered' = FALSE
        /\ offset' \in Key /\ after' \in Nat /\ crashes' \in Nat
    BY <1>0, <1>5 DEF Crash
  <2>2. UNCHANGED <<redisVars, dbVars, faults>>
    BY Zenon, <1>5 DEF Crash
  <2> QED
    BY Zenon, <1>1, <2>1, <2>2
<1>6. CASE ReadReset
  <2>1. /\ pc' \in {"idle", "batch", "fetch", "ack"}
        /\ after' \in Nat /\ page' \subseteq Key /\ caller' \in {"idle", "batch"}
    BY Zenon, <1>6, RecoverTypes DEF ReadReset
  <2> QED
    BY Zenon, <1>1, <1>6, <2>1 DEF ReadReset
<1>7. CASE Read
  <2>1. \A S : FirstById(S, BatchSize) \subseteq S
    BY Zenon DEF FirstById
  <2>2. PICK entries \in SUBSET Entry : OnRead(entries)
    BY Zenon, <1>7, <2>1 DEF Read
  <2>3. /\ batch' \subseteq Entry /\ done' \subseteq Entry /\ recovered' \in BOOLEAN
        /\ pc' \in {"down", "idle", "batch", "fetch", "page", "ack"}
        /\ after' \in Nat /\ page' \subseteq Key /\ caller' \in {"idle", "batch"}
    <3>1. CASE entries # {}
      BY Zenon, <2>2, <3>1 DEF OnRead
    <3>2. CASE entries = {}
      <4>1. CASE StartRecover("idle")
        BY Zenon, <2>2, <3>2, <4>1, RecoverTypes DEF OnRead
      <4>2. CASE UNCHANGED <<pc, recoverVars>>
        BY Zenon, <2>2, <3>2, <4>2 DEF OnRead
      <4> QED
        BY Zenon, <2>2, <3>2, <4>1, <4>2 DEF OnRead
    <3> QED
      BY Zenon, <3>1, <3>2
  <2>4. groupLast' \in Nat /\ pel' \subseteq Entry /\ cursor' \in {"0", ">"}
    <3> DEFINE new == FirstById({e \in stream : e.id > groupLast}, BatchSize)
    <3>1. new \subseteq Entry
      BY Zenon, <2>1
    <3>2. \A l \in new : l.id \in Nat
      BY Zenon, <3>1 DEF Entry
    <3>3. \/ UNCHANGED <<cursor, groupLast, pel>>
          \/ /\ cursor' = ">" /\ pel' = pel \cup new
             /\ groupLast' = groupLast \/ \E l \in new : groupLast' = l.id
      BY SMTT(30), <1>7 DEF Read
    <3> HIDE DEF new
    <3> QED
      BY Zenon, <3>1, <3>2, <3>3
  <2> QED
    BY Zenon, <1>1, <1>7, <2>3, <2>4 DEF Read
<1> QED
  BY Zenon, <1>2, <1>3, <1>4, <1>5, <1>6, <1>7

LEMMA TypeStepBatch ==
  ASSUME TInv, SkipEntry \/ EntryGap \/ UnrecoverableGap \/ ApplyEntry \/ EndBatch \/ Ack
  PROVE  TInv'
<1> USE DEF TInv, TypeOK, redisVars, dbVars, sourceVars, cycleVars, recoverVars
<1>1. PublishedInJournal' /\ journal' \in Seq(Nat \ {0}) /\ published' \in Key
  BY Zenon, EngineUnchanged
  DEF SkipEntry, EntryGap, UnrecoverableGap, ApplyEntry, EndBatch, Ack
<1>2. CASE SkipEntry
  BY Zenon, <1>1, <1>2 DEF SkipEntry, EntryDone
<1>3. CASE EntryGap
  <2>1. /\ pc' \in {"idle", "batch", "fetch", "ack"}
        /\ after' \in Nat /\ page' \subseteq Key /\ caller' \in {"idle", "batch"}
    BY Zenon, <1>3, RecoverTypes DEF EntryGap
  <2> QED
    BY Zenon, <1>1, <1>3, <2>1 DEF EntryGap
<1>4. CASE UnrecoverableGap
  BY Zenon, <1>1, <1>4 DEF UnrecoverableGap
<1>5. CASE ApplyEntry
  <2>1. PICK e \in batch :
          \/ Applied(e.key) /\ EntryDone(e) /\ UNCHANGED pc
          \/ NotApplied(e.key) /\ pc' = "ack" /\ UNCHANGED cycleVars
    BY Zenon, <1>5 DEF ApplyEntry
  <2>2. e \in Entry /\ e.key \in Key
    BY Zenon DEF Entry
  <2>3. /\ stored' \in Key /\ applied' \in Seq(Key)
        /\ offset' \in Key /\ halted' \in BOOLEAN
    <3>1. CASE Applied(e.key)
      BY Zenon, <2>2, <3>1, CommitType DEF Applied
    <3>2. CASE NotApplied(e.key)
      BY Zenon, <2>2, <3>2, NotAppliedType
    <3> QED
      BY Zenon, <2>1, <3>1, <3>2
  <2>4. /\ batch' \subseteq Entry /\ done' \subseteq Entry /\ recovered' \in BOOLEAN
        /\ pc' \in {"down", "idle", "batch", "fetch", "page", "ack"}
    BY Zenon, <2>1, <2>2 DEF EntryDone
  <2> QED
    BY Zenon, <1>1, <1>5, <2>3, <2>4 DEF ApplyEntry
<1>6. CASE EndBatch
  BY Zenon, <1>1, <1>6 DEF EndBatch
<1>7. CASE Ack
  BY Zenon, <1>1, <1>7 DEF Ack
<1> QED
  BY Zenon, <1>2, <1>3, <1>4, <1>5, <1>6, <1>7

LEMMA TypeStepRecover ==
  ASSUME TInv, FetchPage \/ PageItem \/ PageDone
  PROVE  TInv'
<1> USE DEF TInv, TypeOK, redisVars, dbVars, sourceVars, cycleVars, recoverVars
<1>1. PublishedInJournal' /\ journal' \in Seq(Nat \ {0}) /\ published' \in Key
  BY Zenon, EngineUnchanged DEF FetchPage, PageItem, PageDone
<1>2. CASE FetchPage
  <2>1. CASE \E b \in BOOLEAN : RecoverReturns(b)
    <3>1. /\ pc' \in {"idle", "batch", "fetch", "ack"}
          /\ after' \in Nat /\ page' \subseteq Key /\ caller' \in {"idle", "batch"}
      BY Zenon, <2>1, RecoverTypes
    <3>2. batch' \subseteq Entry /\ done' \subseteq Entry /\ recovered' \in BOOLEAN
      BY Zenon, <2>1 DEF RecoverReturns
    <3> QED
      BY Zenon, <1>1, <1>2, <3>1, <3>2 DEF FetchPage
  <2>2. CASE ~\E b \in BOOLEAN : RecoverReturns(b)
    <3>1. PICK e \in after + 1 .. Len(journal) :
            page' \subseteq KeysBetween(after + 1, e) /\ after' = e
      BY Zenon, <1>2, <2>2 DEF FetchPage, Served
    <3>2. after + 1 \in Nat \ {0} /\ e \in 0 .. Len(journal)
      OBVIOUS
    <3>3. page' \subseteq Key
      BY Zenon, <3>1, <3>2, KeysBetweenType
    <3> QED
      <4>1. ~RecoverReturns(TRUE) /\ ~RecoverReturns(FALSE)
        BY Zenon, <2>2
      <4>2. pc' = "page" /\ UNCHANGED <<cycleVars, caller>>
        BY <1>2, <4>1, Zenon DEF FetchPage
      <4>3. UNCHANGED <<redisVars, dbVars, sourceVars, offset, halted, crashes, faults>>
        BY <1>2, Zenon DEF FetchPage
      <4>4. after' \in Nat
        BY <3>1, <3>2
      <4> QED
        BY Zenon, <1>1, <3>3, <4>2, <4>3, <4>4
  <2> QED
    BY Zenon, <2>1, <2>2
<1>3. CASE PageItem
  <2>1. PICK k \in page :
          \/ /\ page' = page \ {k}
             /\ UNCHANGED <<dbVars, offset, halted, pc, cycleVars, after, caller>>
          \/ halted' = TRUE /\ RecoverReturns(FALSE) /\ UNCHANGED <<dbVars, offset>>
          \/ Applied(k) /\ page' = page \ {k} /\ UNCHANGED <<pc, cycleVars, after, caller>>
          \/ NotApplied(k) /\ RecoverReturns(FALSE)
    BY Zenon, <1>3 DEF PageItem
  <2>2. k \in Key
    BY Zenon
  <2>3. /\ stored' \in Key /\ applied' \in Seq(Key)
        /\ offset' \in Key /\ halted' \in BOOLEAN
    <3>1. CASE Applied(k)
      BY Zenon, <2>2, <3>1, CommitType DEF Applied
    <3>2. CASE NotApplied(k)
      BY Zenon, <2>2, <3>2, NotAppliedType
    <3> QED
      BY Zenon, <2>1, <3>1, <3>2
  <2>4. /\ pc' \in {"down", "idle", "batch", "fetch", "page", "ack"}
        /\ batch' \subseteq Entry /\ done' \subseteq Entry /\ recovered' \in BOOLEAN
        /\ after' \in Nat /\ page' \subseteq Key /\ caller' \in {"idle", "batch"}
    <3>1. CASE RecoverReturns(FALSE)
      <4>1. batch' \subseteq Entry /\ done' \subseteq Entry /\ recovered' \in BOOLEAN
        BY Zenon, <3>1 DEF RecoverReturns
      <4> QED
        BY Zenon, <3>1, <4>1, RecoverTypes
    <3>2. CASE page' = page \ {k} /\ UNCHANGED <<pc, cycleVars, after, caller>>
      BY Zenon, <3>2
    <3> QED
      BY Zenon, <2>1, <3>1, <3>2
  <2> QED
    BY Zenon, <1>1, <1>3, <2>3, <2>4 DEF PageItem
<1>4. CASE PageDone
  BY Zenon, <1>1, <1>4 DEF PageDone
<1> QED
  BY Zenon, <1>2, <1>3, <1>4

LEMMA TypeStep == TInv /\ [Next]_vars => TInv'
<1> SUFFICES ASSUME TInv, [Next]_vars PROVE TInv'
  BY Zenon
<1>1. CASE Next
  BY Zenon, <1>1, TypeStepEngine, TypeStepRead, TypeStepBatch, TypeStepRecover
  DEF Next, Consumer, Environment
<1>2. CASE UNCHANGED vars
  BY Zenon, <1>2 DEF TInv, TypeOK, PublishedInJournal, LastIdx, vars, engineVars, redisVars,
              dbVars, sourceVars, cycleVars, recoverVars
<1> QED
  BY Zenon, <1>1, <1>2

\* Every reachable state is well typed, whatever the constants: the state of
\* the consumer, of the Redis group and of the offset row.
THEOREM TypeCorrect == Spec => []TypeOK
<1>1. Spec => []TInv
  BY TypeInit, TypeStep, PTL DEF Spec
<1>2. TInv => TypeOK
  BY Zenon DEF TInv
<1> QED
  BY <1>1, <1>2, PTL

-----------------------------------------------------------------------------
(* Committing an event *)

\* What one commit of an event that follows the in-memory position does.
LEMMA CommitEffect ==
  ASSUME TypeOK, Positions, NoSequenceSkipped, NEW k \in Key, k[1] >= 1,
         Follows(offset, k), Commit(k)
  PROVE  /\ KeyLeq(stored, stored') /\ KeyLeq(k, stored')
         /\ \A i \in 1 .. Len(applied) : i \in 1 .. Len(applied') /\ applied'[i] = applied[i]
         /\ \E i \in 1 .. Len(applied') : applied'[i] = k
         /\ stored' = stored \/ stored' = k
         /\ \A i \in 1 .. Len(applied') : KeyLeq(applied'[i], stored')
         /\ NoSequenceSkipped'
<1> USE DEF TypeOK
<1>1. stored' = (IF KeyLess(stored, k) THEN k ELSE stored)
  BY Zenon DEF Commit
<1>2. KeyLeq(stored, stored') /\ KeyLeq(k, stored') /\ stored' \in Key
      /\ (stored' = stored \/ stored' = k)
  BY Zenon, <1>1, KeyLeqTotal DEF KeyLeq
<1>3. CASE IsApplied(k)
  <2>1. applied' = applied
    BY Zenon, <1>3 DEF Commit, IsApplied
  <2>2. \A i \in 1 .. Len(applied) : KeyLeq(applied[i], stored')
    <3> TAKE i \in 1 .. Len(applied)
    <3>1. applied[i] \in Key /\ KeyLeq(applied[i], stored)
      BY DEF Positions
    <3> QED
      BY Zenon, <1>2, <3>1, KeyLeqTransitive
  <2> QED
    BY Zenon, <1>2, <1>3, <2>1, <2>2 DEF IsApplied, NoSequenceSkipped
<1>4. CASE ~IsApplied(k)
  <2>1. applied' = Append(applied, k)
    BY Zenon, <1>4 DEF Commit, IsApplied
  <2>2. /\ Len(applied') = Len(applied) + 1 /\ Len(applied) \in Nat
        /\ \A i \in 1 .. Len(applied) : applied'[i] = applied[i]
        /\ applied'[Len(applied) + 1] = k
    BY <2>1
  <2>3. \A i \in 1 .. Len(applied') : KeyLeq(applied'[i], stored')
    <3> TAKE i \in 1 .. Len(applied')
    <3>1. CASE i = Len(applied) + 1
      BY Zenon, <1>2, <2>2, <3>1
    <3>2. CASE i \in 1 .. Len(applied)
      <4>1. applied[i] \in Key /\ KeyLeq(applied[i], stored)
        BY <3>2 DEF Positions
      <4> QED
        BY Zenon, <1>2, <2>2, <3>2, <4>1, KeyLeqTransitive
    <3> QED
      BY <2>2, <3>1, <3>2
  <2>4. NoSequenceSkipped'
    <3> SUFFICES ASSUME NEW i \in 1 .. Len(applied')
                 PROVE  \/ applied'[i] = <<1, 0>>
                        \/ /\ applied'[i][2] = 0
                           /\ \E j \in 1 .. i - 1 : applied'[j][1] = applied'[i][1] - 1
                        \/ \E j \in 1 .. i - 1 :
                             applied'[j] = <<applied'[i][1], applied'[i][2] - 1>>
      BY Zenon DEF NoSequenceSkipped
    <3>1. CASE i \in 1 .. Len(applied)
      <4>1. \A j \in 1 .. i - 1 : j \in 1 .. Len(applied)
        BY <3>1
      <4> QED
        BY Zenon, <2>2, <3>1, <4>1 DEF NoSequenceSkipped
    <3>2. CASE i = Len(applied) + 1
      <4>1. i - 1 = Len(applied) /\ applied'[i] = k
        BY <2>2, <3>2
      <4>2. offset \in Key /\ k = <<k[1], k[2]>> /\ offset = <<offset[1], offset[2]>>
            /\ k[1] \in Nat /\ k[2] \in Nat /\ offset[1] \in Nat /\ offset[2] \in Nat
        BY DEF Key
      <4>3. CASE offset = StartKey
        <5>1. k[1] = 1 /\ k[2] = 0
          BY <4>2, <4>3 DEF StartKey, Follows
        <5> QED
          BY Zenon, <4>1, <4>2, <5>1
      <4>4. CASE offset # StartKey
        <5>1. PICK j \in 1 .. Len(applied) : applied[j] = offset
          BY Zenon, <4>4 DEF Positions, IsApplied
        <5>2. applied'[j] = offset
          BY Zenon, <2>2, <5>1
        <5>3. CASE k[1] = offset[1]
          <6>1. offset = <<k[1], k[2] - 1>>
            BY <4>2, <5>3 DEF Follows
          <6> QED
            BY Zenon, <4>1, <5>2, <6>1
        <5>4. CASE k[1] # offset[1]
          <6>1. k[2] = 0 /\ offset[1] = k[1] - 1
            BY <4>2, <5>4 DEF Follows
          <6> QED
            BY Zenon, <4>1, <5>2, <6>1
        <5> QED
          BY Zenon, <5>3, <5>4
      <4> QED
        BY Zenon, <4>3, <4>4
    <3> QED
      BY <2>2, <3>1, <3>2
  <2> QED
    BY <1>2, <2>2, <2>3, <2>4
<1> QED
  BY Zenon, <1>3, <1>4

\* An attempt to apply an event that follows the in-memory position.
LEMMA AttemptEffect ==
  ASSUME TypeOK, TypeOK', Positions, NoSequenceSkipped, NEW k \in Key, k[1] >= 1,
         Follows(offset, k), Applied(k) \/ NotApplied(k)
  PROVE  /\ Positions' /\ NoSequenceSkipped'
         /\ KeyLeq(stored, stored') /\ KeyLeq(offset, offset')
         /\ Applied(k) => offset' = k
<1>0. offset \in Key /\ stored \in Key /\ stored' \in Key /\ offset' \in Key
  BY Zenon DEF TypeOK
<1>1. KeyLess(offset, k)
  BY <1>0 DEF Follows, KeyLess, Key
<1>2. CASE Commit(k)
  <2>1. /\ KeyLeq(stored, stored') /\ KeyLeq(k, stored')
        /\ \A i \in 1 .. Len(applied) : i \in 1 .. Len(applied') /\ applied'[i] = applied[i]
        /\ \E i \in 1 .. Len(applied') : applied'[i] = k
        /\ stored' = stored \/ stored' = k
        /\ \A i \in 1 .. Len(applied') : KeyLeq(applied'[i], stored')
        /\ NoSequenceSkipped'
    BY Zenon, <1>2, CommitEffect
  <2>2. (offset' = k /\ Applied(k)) \/ offset' = offset
    BY Zenon DEF Applied, NotApplied
  <2>3. KeyLeq(offset, stored) /\ (offset = StartKey \/ IsApplied(offset))
        /\ (stored = StartKey \/ IsApplied(stored))
    BY Zenon DEF Positions
  <2>4. KeyLeq(offset', stored') /\ KeyLeq(offset, offset')
    BY Zenon, <1>0, <1>1, <2>1, <2>2, <2>3, KeyLeqTransitive DEF KeyLeq
  <2>5. offset' = StartKey \/ IsApplied(offset)'
    BY SMTT(30), <2>1, <2>2, <2>3 DEF IsApplied
  <2>6. stored' = StartKey \/ IsApplied(stored)'
    BY Zenon, <2>1, <2>3 DEF IsApplied
  <2>7. Applied(k) => offset' = k
    BY Zenon DEF Applied
  <2> QED
    BY Zenon, <2>1, <2>4, <2>5, <2>6, <2>7 DEF Positions
<1>3. CASE UNCHANGED <<dbVars, offset>> /\ ~Applied(k)
  BY Zenon, <1>3 DEF dbVars, Positions, IsApplied, NoSequenceSkipped, KeyLeq
<1> QED
  BY Zenon, <1>2, <1>3 DEF Applied, NotApplied

\* Steps that leave the offsets and the committed effects alone.
LEMMA NoAttempt ==
  ASSUME Positions, NoSequenceSkipped, UNCHANGED <<dbVars, offset>>
  PROVE  /\ Positions' /\ NoSequenceSkipped'
         /\ stored' = stored /\ offset' = offset
BY Zenon DEF dbVars, Positions, IsApplied, NoSequenceSkipped

-----------------------------------------------------------------------------
(* Reading, delivering and acknowledging *)

\* What is lowest by id is closed downwards.
LEMMA FirstByIdClosed ==
  ASSUME NEW S \in SUBSET Entry, IsFiniteSet(S), NEW n \in Nat,
         NEW l \in FirstById(S, n), NEW e \in S, e.id <= l.id
  PROVE  e \in FirstById(S, n)
<1> DEFINE below(x) == {f \in S : f.id < x.id}
<1>1. l \in S /\ \A f \in S : f.id \in Nat
  BY Zenon DEF FirstById, Entry
<1>2. below(e) \subseteq below(l) /\ below(l) \subseteq S
  BY <1>1
<1>3. IsFiniteSet(below(l)) /\ IsFiniteSet(below(e))
  BY Zenon, <1>2, FS_Subset
<1>4. /\ Cardinality(below(e)) <= Cardinality(below(l))
      /\ Cardinality(below(e)) \in Nat /\ Cardinality(below(l)) \in Nat
  BY Zenon, <1>2, <1>3, FS_Subset, FS_CardinalityType
<1>5. Cardinality(below(l)) < n
  BY Zenon DEF FirstById
<1> QED
  BY <1>4, <1>5 DEF FirstById

\* Steps that deliver nothing, acknowledge nothing and do not move the stored
\* offset back keep acknowledged entries committed.
LEMMA AckedStable ==
  ASSUME TypeOK, TypeOK', AckedIsCommitted, stream' \subseteq stream,
         groupLast' = groupLast, pel' = pel, KeyLeq(stored, stored')
  PROVE  AckedIsCommitted'
<1> SUFFICES ASSUME NEW e \in stream', e.id <= groupLast', e \notin pel'
             PROVE  KeyLeq(e.key, stored')
  BY Zenon DEF AckedIsCommitted
<1>1. KeyLeq(e.key, stored) /\ e.key \in Key
  BY Zenon DEF AckedIsCommitted, TypeOK, Entry
<1> QED
  BY Zenon, <1>1, KeyLeqTransitive DEF TypeOK

-----------------------------------------------------------------------------
(* The invariant is inductive *)

LEMMA InvInit == Init => IInv
<1> SUFFICES ASSUME Init PROVE IInv
  BY Zenon
<1>1. TInv
  BY Zenon, TypeInit
<1>2. IdsBelowNext
  BY FS_EmptySet DEF Init, IdsBelowNext
<1>3. InFlightKeys /\ DoneIsApplied /\ AckedIsCommitted
  BY Zenon DEF Init, InFlightKeys, DoneIsApplied, AckedIsCommitted
<1>4. Positions /\ NoSequenceSkipped
  BY DEF Init, Positions, NoSequenceSkipped, KeyLeq
<1> QED
  BY Zenon, <1>1, <1>2, <1>3, <1>4 DEF IInv

\* The engine's own steps touch neither the offsets nor what is delivered.
LEMMA InvStepEngine ==
  ASSUME IInv, EngineCommand \/ Publish \/ Republish
  PROVE  IInv'
<1>1. TInv' /\ TypeOK /\ TypeOK'
  BY Zenon, TypeStepEngine DEF IInv, TInv
<1>2. Positions' /\ NoSequenceSkipped' /\ stored' = stored /\ offset' = offset
  BY Zenon, NoAttempt DEF IInv, EngineCommand, Publish, Republish, dbVars
<1>3. DoneIsApplied'
  BY Zenon, <1>2 DEF IInv, DoneIsApplied, EngineCommand, Publish, Republish, cycleVars
<1>4. CASE EngineCommand \/ Republish
  <2>1. UNCHANGED <<redisVars, batch, page>>
    BY Zenon, <1>4 DEF EngineCommand, Republish, cycleVars, recoverVars
  <2> QED
    BY Zenon, <1>1, <1>2, <1>3, <2>1
    DEF IInv, redisVars, IdsBelowNext, InFlightKeys, AckedIsCommitted
<1>5. CASE Publish
  <2> DEFINE new == [id |-> nextId, key |-> published']
  <2>1. /\ stream' = stream \cup {new} /\ nextId' = nextId + 1
        /\ UNCHANGED <<groupLast, pel, batch, page>>
    BY Zenon, <1>5 DEF Publish, cycleVars, recoverVars
  <2>2. new.id = nextId /\ new.key[1] >= 1 /\ nextId \in Nat /\ groupLast \in Nat
    <3>1. published' = NextKey(published) /\ published \in Key
          /\ published[1] <= Len(journal) /\ published[2] <= LastIdx(published[1])
      BY Zenon, <1>1, <1>5 DEF Publish, TypeOK, IInv, TInv, PublishedInJournal
    <3>2. published'[1] >= 1
      BY <3>1 DEF NextKey, LastIdx, Key
    <3> QED
      BY Zenon, <1>1, <3>2 DEF TypeOK
  <2> HIDE DEF new
  <2>3. IdsBelowNext'
    <3>1. IsFiniteSet(stream')
      BY Zenon, <2>1, FS_AddElement DEF IInv, IdsBelowNext
    <3>2. \A e \in stream : e.id \in Nat
      BY Zenon, <1>1 DEF TypeOK, Entry
    <3> QED
      BY <2>1, <2>2, <3>1, <3>2 DEF IInv, IdsBelowNext
  <2>4. InFlightKeys'
    BY Zenon, <2>1, <2>2 DEF IInv, InFlightKeys
  <2>5. AckedIsCommitted'
    BY <1>2, <2>1, <2>2 DEF IInv, AckedIsCommitted, IdsBelowNext
  <2> QED
    BY Zenon, <1>1, <1>2, <1>3, <2>3, <2>4, <2>5 DEF IInv
<1> QED
  BY Zenon, <1>4, <1>5

LEMMA InvStepReset ==
  ASSUME IInv, Trim \/ Wipe \/ Start \/ Crash \/ ReadReset
  PROVE  IInv'
<1>1. TInv' /\ TypeOK /\ TypeOK'
  BY Zenon, TypeStepRead DEF IInv, TInv
<1>2. UNCHANGED dbVars /\ stored' = stored /\ applied' = applied
  BY Zenon DEF Trim, Wipe, Start, Crash, ReadReset, dbVars
<1>3. /\ stream' \subseteq stream /\ nextId' = nextId
      /\ \/ groupLast' = groupLast /\ pel' = pel
         \/ stream' = {} /\ groupLast' = 0
  BY Zenon DEF Trim, Wipe, Start, Crash, ReadReset, redisVars
<1>4. /\ batch' \subseteq batch /\ page' \subseteq page /\ done' \subseteq done
      /\ offset' \in {offset, stored} \/ (offset' = StartKey /\ done' = {})
  BY Zenon DEF Trim, Wipe, Start, Crash, ReadReset, StartRecover, cycleVars, recoverVars
<1>5. IdsBelowNext'
  <2>1. IsFiniteSet(stream')
    BY Zenon, <1>3, FS_Subset DEF IInv, IdsBelowNext
  <2> QED
    BY <1>1, <1>3, <2>1 DEF IInv, IdsBelowNext, TypeOK
<1>6. InFlightKeys'
  BY Zenon, <1>3, <1>4 DEF IInv, InFlightKeys
<1>7. KeyLeq(StartKey, stored) /\ KeyLeq(stored, stored) /\ KeyLeq(offset, stored)
  <2>1. stored \in Key /\ StartKey = <<0, 0>>
    BY Zenon, <1>1 DEF TypeOK, StartKey
  <2> QED
    BY <2>1 DEF KeyLeq, KeyLess, Key, IInv, Positions
<1>8. Positions' /\ NoSequenceSkipped'
  BY Zenon, <1>2, <1>4, <1>7 DEF IInv, Positions, IsApplied, NoSequenceSkipped
<1>9. DoneIsApplied'
  <2> SUFFICES ASSUME NEW e \in done' PROVE KeyLeq(e.key, offset')
    BY Zenon DEF DoneIsApplied
  <2>1. e \in done /\ e.key \in Key /\ KeyLeq(e.key, offset) /\ offset \in Key
        /\ stored \in Key
    BY Zenon, <1>1, <1>4 DEF IInv, DoneIsApplied, TypeOK, Entry
  <2>2. KeyLeq(e.key, stored)
    BY Zenon, <1>7, <2>1, KeyLeqTransitive
  <2> QED
    BY Zenon, <1>4, <2>1, <2>2
<1>10. AckedIsCommitted'
  BY Zenon, <1>2, <1>3 DEF IInv, AckedIsCommitted
<1> QED
  BY Zenon, <1>1, <1>5, <1>6, <1>8, <1>9, <1>10 DEF IInv

LEMMA InvStepRead ==
  ASSUME IInv, Read
  PROVE  IInv'
<1> DEFINE unread == {e \in stream : e.id > groupLast}
           new == FirstById(unread, BatchSize)
<1>1. TInv' /\ TypeOK /\ TypeOK'
  BY Zenon, TypeStepRead DEF IInv, TInv
<1>2. /\ UNCHANGED <<dbVars, offset>> /\ stream' = stream /\ nextId' = nextId
      /\ stored' = stored /\ offset' = offset
  BY Zenon DEF Read, dbVars
<1>3. Positions' /\ NoSequenceSkipped'
  BY Zenon, <1>2, NoAttempt DEF IInv
<1>4. new \subseteq unread /\ new \subseteq stream
  BY Zenon DEF FirstById
<1>5. PICK entries : entries \subseteq stream /\ OnRead(entries)
  BY Zenon, <1>4 DEF Read
<1>6. /\ batch' \subseteq batch \cup entries
      /\ done' \subseteq done
      /\ page' \subseteq page
  BY Zenon, <1>5 DEF OnRead, StartRecover, cycleVars, recoverVars
<1>7. InFlightKeys'
  BY Zenon, <1>2, <1>5, <1>6 DEF IInv, InFlightKeys
<1>8. DoneIsApplied'
  BY Zenon, <1>2, <1>6 DEF IInv, DoneIsApplied
<1>9. \/ groupLast' = groupLast /\ pel \subseteq pel'
      \/ /\ pel' = pel \cup new
         /\ \E l \in new : groupLast' = l.id /\ \A e \in new : e.id <= l.id
  <2>1. CASE cursor = "0" /\ FirstById(pel, BatchSize) # {}
    BY Zenon, <2>1 DEF Read
  <2>2. CASE ~(cursor = "0" /\ FirstById(pel, BatchSize) # {})
    <3>1. /\ pel' = pel \cup new
          /\ IF new = {} THEN UNCHANGED groupLast
             ELSE \E l \in new : groupLast' = l.id /\ \A e \in new : e.id <= l.id
      BY Zenon, <2>2 DEF Read
    <3> HIDE DEF new
    <3> QED
      BY Zenon, <3>1
  <2> QED
    BY Zenon, <2>1, <2>2
<1>10. IdsBelowNext'
  <2> HIDE DEF new
  <2> QED
    BY Zenon, <1>2, <1>4, <1>9 DEF IInv, IdsBelowNext
<1>11. AckedIsCommitted'
  <2>1. CASE groupLast' = groupLast /\ pel \subseteq pel'
    BY Zenon, <1>2, <2>1 DEF IInv, AckedIsCommitted
  <2>2. CASE /\ pel' = pel \cup new
             /\ \E l \in new : groupLast' = l.id /\ \A e \in new : e.id <= l.id
    <3>1. PICK l \in new : groupLast' = l.id
      BY Zenon, <2>2
    <3> SUFFICES ASSUME NEW e \in stream, e.id <= l.id, e \notin pel \cup new
                 PROVE  KeyLeq(e.key, stored)
      BY Zenon, <1>2, <2>2, <3>1 DEF AckedIsCommitted
    <3>2. unread \subseteq Entry /\ IsFiniteSet(unread) /\ BatchSize \in Nat
      BY Zenon, <1>1, FS_Subset, ConsumerAssumption DEF TypeOK, IInv, IdsBelowNext
    <3>3. e \notin unread
      BY Zenon, <3>2, FirstByIdClosed
    <3>4. e.id <= groupLast
      BY <1>1, <3>3 DEF TypeOK, Entry
    <3> QED
      BY Zenon, <3>4 DEF IInv, AckedIsCommitted
  <2> QED
    BY Zenon, <1>9, <2>1, <2>2
<1> QED
  BY Zenon, <1>1, <1>3, <1>7, <1>8, <1>10, <1>11 DEF IInv

LEMMA InvStepBatch ==
  ASSUME IInv, SkipEntry \/ EntryGap \/ UnrecoverableGap \/ ApplyEntry \/ EndBatch
  PROVE  IInv'
<1>1. TInv' /\ TypeOK /\ TypeOK'
  BY Zenon, TypeStepBatch DEF IInv, TInv
<1>2. UNCHANGED redisVars /\ page' \subseteq page /\ batch' \subseteq batch
  BY Zenon DEF SkipEntry, EntryGap, UnrecoverableGap, ApplyEntry, EndBatch, EntryDone,
         StartRecover, cycleVars, recoverVars
<1>3. IdsBelowNext' /\ InFlightKeys'
  BY Zenon, <1>2 DEF IInv, IdsBelowNext, InFlightKeys, redisVars
<1>4. /\ Positions' /\ NoSequenceSkipped'
      /\ KeyLeq(stored, stored') /\ KeyLeq(offset, offset')
      /\ \A e \in done' : e \in done \/ KeyLeq(e.key, offset')
  <2>1. CASE SkipEntry \/ EntryGap \/ UnrecoverableGap \/ EndBatch
    <3>1. UNCHANGED <<dbVars, offset>>
      BY Zenon, <2>1 DEF SkipEntry, EntryGap, UnrecoverableGap, EndBatch
    <3>2. \A e \in done' : e \in done \/ KeyLeq(e.key, offset)
      BY Zenon, <2>1 DEF SkipEntry, EntryGap, UnrecoverableGap, EndBatch, EntryDone, cycleVars
    <3> QED
      BY Zenon, <3>1, <3>2, NoAttempt DEF IInv, KeyLeq
  <2>2. CASE ApplyEntry
    <3>1. PICK e \in batch :
            /\ Follows(offset, e.key)
            /\ \/ Applied(e.key) /\ EntryDone(e)
               \/ NotApplied(e.key) /\ UNCHANGED cycleVars
      BY Zenon, <2>2 DEF ApplyEntry
    <3>2. e.key \in Key /\ e.key[1] >= 1
      BY Zenon, <1>1 DEF IInv, InFlightKeys, TypeOK, Entry
    <3>3. /\ Positions' /\ NoSequenceSkipped'
          /\ KeyLeq(stored, stored') /\ KeyLeq(offset, offset')
          /\ Applied(e.key) => offset' = e.key
      BY Zenon, <1>1, <3>1, <3>2, AttemptEffect DEF IInv
    <3> QED
      BY Zenon, <3>1, <3>3 DEF EntryDone, cycleVars, KeyLeq
  <2> QED
    BY Zenon, <2>1, <2>2
<1>5. DoneIsApplied'
  <2> SUFFICES ASSUME NEW e \in done', e \in done PROVE KeyLeq(e.key, offset')
    BY Zenon, <1>4 DEF DoneIsApplied
  <2>1. e.key \in Key /\ KeyLeq(e.key, offset) /\ offset \in Key /\ offset' \in Key
    BY Zenon, <1>1 DEF IInv, DoneIsApplied, TypeOK, Entry
  <2> QED
    BY Zenon, <1>4, <2>1, KeyLeqTransitive
<1>6. AckedIsCommitted'
  BY Zenon, <1>1, <1>2, <1>4, AckedStable DEF IInv, redisVars
<1> QED
  BY Zenon, <1>1, <1>3, <1>4, <1>5, <1>6 DEF IInv

\* The entries an XACK drops are at or below the stored offset.
LEMMA InvStepAck ==
  ASSUME IInv, Ack
  PROVE  IInv'
<1>1. TInv' /\ TypeOK /\ TypeOK'
  BY Zenon, TypeStepBatch DEF IInv, TInv
<1>2. /\ UNCHANGED <<dbVars, offset>> /\ stored' = stored
      /\ stream' = stream /\ nextId' = nextId /\ groupLast' = groupLast /\ page' = page
      /\ batch' = {} /\ done' = {} /\ (pel' = pel \ done \/ pel' = pel)
  BY Zenon DEF Ack, dbVars, recoverVars
<1>3. Positions' /\ NoSequenceSkipped'
  BY Zenon, <1>2, NoAttempt DEF IInv
<1>4. IdsBelowNext' /\ InFlightKeys' /\ DoneIsApplied'
  BY Zenon, <1>2 DEF IInv, IdsBelowNext, InFlightKeys, DoneIsApplied
<1>5. AckedIsCommitted'
  <2> SUFFICES ASSUME NEW e \in stream, e.id <= groupLast, e \notin pel \/ e \in done
               PROVE  KeyLeq(e.key, stored)
    BY Zenon, <1>2 DEF AckedIsCommitted
  <2>1. CASE e \notin pel
    BY Zenon, <2>1 DEF IInv, AckedIsCommitted
  <2>2. CASE e \in done
    <3>1. e.key \in Key /\ KeyLeq(e.key, offset) /\ offset \in Key /\ stored \in Key
          /\ KeyLeq(offset, stored)
      BY Zenon, <1>1, <2>2 DEF IInv, DoneIsApplied, Positions, TypeOK, Entry
    <3> QED
      BY Zenon, <3>1, KeyLeqTransitive
  <2> QED
    BY Zenon, <2>1, <2>2
<1> QED
  BY Zenon, <1>1, <1>3, <1>4, <1>5 DEF IInv

LEMMA InvStepRecover ==
  ASSUME IInv, FetchPage \/ PageItem \/ PageDone
  PROVE  IInv'
<1>1. TInv' /\ TypeOK /\ TypeOK'
  BY Zenon, TypeStepRecover DEF IInv, TInv
<1>2. UNCHANGED redisVars /\ batch' = batch /\ done' = done
  BY Zenon DEF FetchPage, PageItem, PageDone, RecoverReturns, cycleVars
<1>3. IdsBelowNext'
  BY Zenon, <1>2 DEF IInv, IdsBelowNext, redisVars
<1>4. \A k \in page' : k[1] >= 1
  <2>1. CASE FetchPage
    <3>1. CASE page' = {}
      BY Zenon, <3>1
    <3>2. CASE page' # {}
      <4>1. PICK e \in after + 1 .. Len(journal) :
              page' \subseteq KeysBetween(after + 1, e)
        BY Zenon, <2>1, <3>2 DEF FetchPage, RecoverReturns, Served
      <4>2. after + 1 \in Nat \ {0} /\ e \in 0 .. Len(journal)
        BY <1>1 DEF TypeOK
      <4> QED
        BY Zenon, <1>1, <4>1, <4>2, KeysBetweenType
    <3> QED
      BY Zenon, <3>1, <3>2
  <2>2. CASE PageItem \/ PageDone
    <3>1. page' \subseteq page
      BY Zenon, <2>2 DEF PageItem, PageDone, RecoverReturns, recoverVars
    <3> QED
      BY Zenon, <3>1 DEF IInv, InFlightKeys
  <2> QED
    BY Zenon, <2>1, <2>2
<1>5. InFlightKeys'
  BY Zenon, <1>2, <1>4 DEF IInv, InFlightKeys, redisVars
<1>6. /\ Positions' /\ NoSequenceSkipped'
      /\ KeyLeq(stored, stored') /\ KeyLeq(offset, offset')
  <2>1. CASE UNCHANGED <<dbVars, offset>>
    BY Zenon, <2>1, NoAttempt DEF IInv, KeyLeq
  <2>2. CASE \E k \in page : Follows(offset, k) /\ (Applied(k) \/ NotApplied(k))
    <3>1. PICK k \in page : Follows(offset, k) /\ (Applied(k) \/ NotApplied(k))
      BY Zenon, <2>2
    <3>2. k \in Key /\ k[1] >= 1
      BY SMTT(30), <1>1 DEF IInv, InFlightKeys, TypeOK
    <3> QED
      BY Zenon, <1>1, <3>1, <3>2, AttemptEffect DEF IInv
  <2> QED
    BY Zenon, <2>1, <2>2 DEF FetchPage, PageItem, PageDone
<1>7. DoneIsApplied'
  <2> SUFFICES ASSUME NEW e \in done PROVE KeyLeq(e.key, offset')
    BY Zenon, <1>2 DEF DoneIsApplied
  <2>1. e.key \in Key /\ KeyLeq(e.key, offset) /\ offset \in Key /\ offset' \in Key
    BY Zenon, <1>1 DEF IInv, DoneIsApplied, TypeOK, Entry
  <2> QED
    BY Zenon, <1>6, <2>1, KeyLeqTransitive
<1>8. AckedIsCommitted'
  BY Zenon, <1>1, <1>2, <1>6, AckedStable DEF IInv, redisVars
<1> QED
  BY Zenon, <1>1, <1>3, <1>5, <1>6, <1>7, <1>8 DEF IInv

LEMMA InvStep == IInv /\ [Next]_vars => IInv'
<1> SUFFICES ASSUME IInv, [Next]_vars PROVE IInv'
  BY Zenon
<1>1. CASE Next
  BY SMTT(30), <1>1, InvStepEngine, InvStepReset, InvStepRead, InvStepBatch, InvStepAck,
     InvStepRecover
  DEF Next, Consumer, Environment
<1>2. CASE UNCHANGED vars
  <2>1. TInv'
    BY Zenon, <1>2, TypeStep DEF IInv
  <2>2. UNCHANGED <<stream, nextId, groupLast, pel, stored, applied, offset, batch,
                    done, page>>
    BY Zenon, <1>2 DEF vars, redisVars, dbVars, cycleVars, recoverVars
  <2> QED
    BY Zenon, <2>1, <2>2 DEF IInv, IdsBelowNext, InFlightKeys, Positions, IsApplied,
                      DoneIsApplied, AckedIsCommitted, NoSequenceSkipped
<1> QED
  BY Zenon, <1>1, <1>2

\* The invariant holds in every reachable state.
THEOREM Invariance == Spec => []IInv
BY InvInit, InvStep, PTL DEF Spec

-----------------------------------------------------------------------------
(* The properties *)

\* Acknowledge after commit (source.ts ack, called last in runOnce): whatever
\* crashes, is lost, redelivered or republished, an entry the group has
\* delivered and forgotten is at or below the stored offset.
THEOREM AckedIsCommittedAlways == Spec => []AckedIsCommitted
<1>1. IInv => AckedIsCommitted
  BY Zenon DEF IInv
<1> QED
  BY Invariance, <1>1, PTL

\* No command is passed over whole (the gap check of applyOne's callers),
\* whatever fails.
THEOREM NoSequenceSkippedAlways == Spec => []NoSequenceSkipped
<1>1. IInv => NoSequenceSkipped
  BY Zenon DEF IInv
<1> QED
  BY Invariance, <1>1, PTL

\* A commit that moves the stored offset moves it forward, and commits the
\* effects of an event that was not applied before.
LEMMA CommitMoves ==
  ASSUME IInv, NEW k \in Key, Commit(k), stored' # stored
  PROVE  KeyLess(stored, stored') /\ applied' = Append(applied, stored')
<1>1. KeyLess(stored, k) /\ stored' = k
  BY Zenon DEF Commit
<1>2. \A i \in 1 .. Len(applied) : applied[i] # k
  <2> SUFFICES ASSUME NEW i \in 1 .. Len(applied), applied[i] = k PROVE FALSE
    BY Zenon
  <2>1. KeyLeq(k, stored) /\ stored \in Key
    BY Zenon DEF IInv, TInv, TypeOK, Positions
  <2> QED
    BY <1>1, <2>1 DEF KeyLeq, KeyLess, Key
<1> QED
  BY Zenon, <1>1, <1>2 DEF Commit

\* The offset row (advanceOffset, in the transaction that applies the event)
\* never moves back and never moves without its event's effects.
THEOREM OffsetMovesWithWorkAlways == Spec => OffsetMovesWithWork
<1>1. ASSUME IInv, [Next]_vars, stored' # stored
      PROVE  KeyLess(stored, stored') /\ applied' = Append(applied, stored')
  <2>1. \E k \in Key : Commit(k)
    <3>1. CASE ApplyEntry
      <4>1. PICK e \in batch : Applied(e.key) \/ NotApplied(e.key)
        BY Zenon, <3>1 DEF ApplyEntry
      <4>2. e.key \in Key
        BY Zenon, <1>1 DEF IInv, TInv, TypeOK, Entry
      <4>3. Commit(e.key)
        BY Zenon, <1>1, <4>1 DEF Applied, NotApplied, dbVars
      <4> QED
        BY Zenon, <4>2, <4>3
    <3>2. CASE PageItem
      <4>1. PICK k \in page : Applied(k) \/ NotApplied(k)
        BY Zenon, <1>1, <3>2 DEF PageItem, dbVars
      <4>2. k \in Key
        BY Zenon, <1>1 DEF IInv, TInv, TypeOK
      <4>3. Commit(k)
        BY Zenon, <1>1, <4>1 DEF Applied, NotApplied, dbVars
      <4> QED
        BY Zenon, <4>2, <4>3
    <3>3. UNCHANGED dbVars => stored' = stored
      BY Zenon DEF dbVars
    <3> QED
      BY Zenon, <1>1, <3>1, <3>2, <3>3
      DEF Next, Consumer, Environment, vars, Start, ReadReset, Read, SkipEntry, EntryGap,
          UnrecoverableGap, EndBatch, Ack, FetchPage, PageDone, EngineCommand, Publish,
          Republish, Trim, Wipe, Crash
  <2> QED
    BY Zenon, <1>1, <2>1, CommitMoves
<1>2. IInv /\ [Next]_vars =>
        [stored' # stored => KeyLess(stored, stored') /\ applied' = Append(applied, stored')]_vars
  BY Zenon, <1>1
<1> QED
  BY Invariance, <1>2, PTL DEF Spec, OffsetMovesWithWork

\* Whatever fails, nothing is forgotten before it is applied (runOnce and
\* applyOne in sequenced-consumer.ts).
THEOREM NothingDroppedAlways == Spec => []NothingDropped
BY AckedIsCommittedAlways, NoSequenceSkippedAlways, PTL DEF NothingDropped

-----------------------------------------------------------------------------
(* Exactly once, in order, where nothing is lost (Lossless).  Every entry of *)
(* the stream has its predecessor's before it (Linked), so the older ones of *)
(* a batch, or of what the group still holds as pending, are either with it  *)
(* or at or below the offset (BatchReach, PendingReach); a recovery has      *)
(* everything up to its page (PageReach).  So the event that follows the     *)
(* offset is the journal's next one, and what is committed is a prefix.      *)

\* k is an event of a journaled command.
InJournal(k) == k[1] \in 1 .. Len(journal) /\ k[2] \in 0 .. journal[k[1]] - 1

\* Every entry but the first was published after the event before it, and
\* everything up to the publisher's position is in the stream.
Linked ==
  /\ \A e \in stream :
       /\ InJournal(e.key)
       /\ e.key = <<1, 0>> \/ \E f \in stream : f.id < e.id /\ e.key = NextKey(f.key)
  /\ \A k \in Key : InJournal(k) /\ KeyLeq(k, published) => \E f \in stream : f.key = k

\* Where the process is.
Phases ==
  /\ pc # "down" => offset = stored
  /\ pc \in {"down", "idle", "fetch", "page"} \/ (pc = "ack" /\ ~halted) => batch = {}
  /\ pc \in {"fetch", "page"} => caller = "idle"
  /\ pc = "fetch" => page = {}
  /\ pc \notin {"fetch", "page"} => page = {} /\ after = 0

BatchReach ==
  /\ batch \subseteq stream
  /\ \A e \in batch, f \in stream : f.id < e.id => f \in batch \/ KeyLeq(f.key, offset)

PendingReach ==
  /\ pel \subseteq stream
  /\ \A e \in pel : e.id <= groupLast
  /\ pc # "down" /\ ~halted /\ cursor = ">" =>
       \A e \in pel : e \in batch \/ KeyLeq(e.key, offset)

PageReach ==
  /\ after \in 0 .. Len(journal)
  /\ \A k \in page : InJournal(k) /\ k[1] <= after
  /\ \A k \in Key : InJournal(k) /\ k[1] <= after => k \in page \/ KeyLeq(k, offset)

CommittedIsPrefix ==
  /\ stored = StartKey \/ InJournal(stored)
  /\ \A k \in Key : InJournal(k) /\ KeyLeq(k, stored) => IsApplied(k)

LInv ==
  /\ Linked /\ Phases /\ BatchReach /\ PendingReach /\ PageReach /\ CommittedIsPrefix

DInv == IInv /\ (Lossless => LInv)

\* A set of natural numbers has a lowest one.
LEMMA LowestNat ==
  ASSUME NEW S \in SUBSET Nat, S # {}
  PROVE  \E n \in S : \A m \in S : n <= m
<1> DEFINE R == {p \in Nat \X Nat : p[1] < p[2]}
<1>1. \E n \in S : \A m \in S : ~(<<m, n>> \in R)
  <2>1. IsWellFoundedOn(R, Nat)
    BY Zenon, NatLessThanWellFounded DEF OpToRel
  <2> HIDE DEF R
  <2> QED
    BY Zenon, <2>1, WFMin
<1>2. PICK n \in S : \A m \in S : ~(<<m, n>> \in R)
  BY Zenon, <1>1
<1>3. \A m \in S : n <= m
  <2> TAKE m \in S
  <2>1. ~(<<m, n>> \in R) /\ m \in Nat /\ n \in Nat
    BY Zenon, <1>2
  <2> QED
    BY <2>1
<1> QED
  BY Zenon, <1>3

\* A read that finds nothing pending means that nothing is.
LEMMA FirstByIdNonempty ==
  ASSUME NEW S \in SUBSET Entry, NEW n \in Nat \ {0}, FirstById(S, n) = {}
  PROVE  S = {}
<1> SUFFICES ASSUME S # {} PROVE FALSE
  BY Zenon
<1>1. {e.id : e \in S} \in SUBSET Nat /\ {e.id : e \in S} # {}
  BY Zenon DEF Entry
<1>2. PICK i \in {e.id : e \in S} : \A j \in {e.id : e \in S} : i <= j
  BY Zenon, <1>1, LowestNat
<1>3. PICK e \in S : e.id = i
  BY Zenon, <1>2
<1>4. {f \in S : f.id < e.id} = {}
  BY SMTT(30), <1>1, <1>2, <1>3
<1>5. Cardinality({f \in S : f.id < e.id}) = 0
  BY Zenon, <1>4, FS_EmptySet
<1> QED
  BY <1>5 DEF FirstById

-----------------------------------------------------------------------------
(* The next event *)

\* Where the key after an event of the journal lies, and what is before it.
LEMMA NextKeyFacts ==
  ASSUME TypeOK, NEW k \in Key, k = StartKey \/ InJournal(k)
  PROVE  /\ NextKey(k) \in Key /\ KeyLess(k, NextKey(k))
         /\ \A o \in Key : (o = StartKey \/ InJournal(o)) /\ KeyLeq(k, o) /\ KeyLess(o, NextKey(k))
                             => o = k
         /\ \A o \in Key : (o = StartKey \/ InJournal(o)) /\ KeyLess(o, NextKey(k)) => KeyLeq(o, k)
<1>1. /\ k = <<k[1], k[2]>> /\ k[1] \in Nat /\ k[2] \in Nat
      /\ LastIdx(k[1]) \in Nat /\ k[2] <= LastIdx(k[1])
  <2>1. k = <<k[1], k[2]>> /\ k[1] \in Nat /\ k[2] \in Nat
    BY DEF Key
  <2>2. CASE k = StartKey
    BY <2>1, <2>2 DEF StartKey, LastIdx
  <2>3. CASE InJournal(k)
    <3>1. journal[k[1]] \in Nat \ {0} /\ k[1] # 0 /\ k[2] \in 0 .. journal[k[1]] - 1
      BY <2>3 DEF InJournal, TypeOK
    <3> QED
      BY <2>1, <3>1 DEF LastIdx
  <2> QED
    BY Zenon, <2>2, <2>3
<1>2. \A o \in Key : o = StartKey \/ InJournal(o) =>
        o = <<o[1], o[2]>> /\ o[1] \in Nat /\ o[2] \in Nat /\ (o[1] = k[1] => o[2] <= LastIdx(k[1]))
  <2> SUFFICES ASSUME NEW o \in Key, o = StartKey \/ InJournal(o)
               PROVE  o = <<o[1], o[2]>> /\ o[1] \in Nat /\ o[2] \in Nat
                      /\ (o[1] = k[1] => o[2] <= LastIdx(k[1]))
    BY Zenon
  <2>1. o = <<o[1], o[2]>> /\ o[1] \in Nat /\ o[2] \in Nat
    BY DEF Key
  <2>2. CASE o = StartKey
    BY <1>1, <2>1, <2>2 DEF StartKey
  <2>3. CASE InJournal(o)
    <3>1. journal[o[1]] \in Nat \ {0} /\ o[1] # 0 /\ o[2] \in 0 .. journal[o[1]] - 1
      BY <2>3 DEF InJournal, TypeOK
    <3> QED
      BY <2>1, <3>1 DEF LastIdx
  <2> QED
    BY Zenon, <2>2, <2>3
<1>3. NextKey(k) = IF k[2] < LastIdx(k[1]) THEN <<k[1], k[2] + 1>> ELSE <<k[1] + 1, 0>>
  BY Zenon DEF NextKey
<1>4. NextKey(k) \in Key /\ KeyLess(k, NextKey(k))
  BY <1>1, <1>3 DEF Key, KeyLess
<1>5. ASSUME NEW o \in Key, o = StartKey \/ InJournal(o), KeyLess(o, NextKey(k))
      PROVE  KeyLeq(o, k)
  <2>1. o = <<o[1], o[2]>> /\ o[1] \in Nat /\ o[2] \in Nat /\ (o[1] = k[1] => o[2] <= LastIdx(k[1]))
    BY Zenon, <1>2, <1>5
  <2>2. o[1] < k[1] \/ (o[1] = k[1] /\ o[2] <= k[2])
    BY <1>1, <1>3, <1>5, <2>1 DEF KeyLess
  <2> QED
    BY <1>1, <2>1, <2>2 DEF KeyLeq, KeyLess
<1>6. ASSUME NEW o \in Key, KeyLeq(k, o), KeyLeq(o, k)
      PROVE  o = k
  BY <1>6, <1>1 DEF KeyLeq, KeyLess, Key
<1> QED
  BY Zenon, <1>4, <1>5, <1>6

\* A key that follows an event and is in the journal comes next, unless the
\* event has successors in its own sequence.
LEMMA FollowsIsNext ==
  ASSUME TypeOK, NEW o \in Key, o = StartKey \/ InJournal(o), NEW k \in Key, InJournal(k),
         Follows(o, k),
         k[1] = o[1] \/ o[1] = 0 \/ o[2] >= journal[o[1]] - 1
  PROVE  k = NextKey(o)
<1>1. o = <<o[1], o[2]>> /\ o[1] \in Nat /\ o[2] \in Nat /\ k = <<k[1], k[2]>> /\ k[1] \in Nat /\ k[2] \in Nat
  BY DEF Key
<1>2. k[1] # 0 /\ k[1] \in 1 .. Len(journal) /\ journal[k[1]] \in Nat \ {0} /\ k[2] <= journal[k[1]] - 1
  BY DEF InJournal, TypeOK
<1>3. o[1] = 0 => o[2] = 0
  BY DEF StartKey, InJournal
<1>4. CASE k[1] = o[1]
  <2>1. k[2] = o[2] + 1 /\ o[2] < LastIdx(o[1])
    BY <1>1, <1>2, <1>4 DEF Follows, LastIdx
  <2> QED
    BY Zenon, <1>1, <1>4, <2>1 DEF NextKey
<1>5. CASE k[1] # o[1]
  <2>1. k[1] = o[1] + 1 /\ k[2] = 0
    BY Zenon, <1>5 DEF Follows
  <2>2. ~(o[2] < LastIdx(o[1]))
    <3>1. CASE o[1] = 0
      BY <1>3, <3>1 DEF LastIdx
    <3>2. CASE o[1] # 0
      <4>1. journal[o[1]] \in Nat /\ o[2] >= journal[o[1]] - 1
        BY <1>5, <3>2 DEF StartKey, InJournal, TypeOK
      <4> QED
        BY <1>1, <3>2, <4>1 DEF LastIdx
    <3> QED
      BY Zenon, <3>1, <3>2
  <2> QED
    BY Zenon, <1>1, <2>1, <2>2 DEF NextKey
<1> QED
  BY Zenon, <1>4, <1>5

\* The entry the batch is at, if it is past the offset, is the journal's next.
LEMMA NextEntryIsNext ==
  ASSUME IInv, LInv, pc = "batch",
         NEW e \in batch, IsNextEntry(e), ~KeyLeq(e.key, offset)
  PROVE  e.key \in Key /\ InJournal(e.key) /\ offset = stored /\ e.key = NextKey(offset)
<1>1. TypeOK /\ offset \in Key /\ e.key \in Key /\ e \in stream /\ \A f \in stream : f.key \in Key
  BY Zenon DEF IInv, TInv, TypeOK, Entry, LInv, BatchReach
<1>2. /\ InJournal(e.key) /\ \A f \in stream : InJournal(f.key)
      /\ offset = stored /\ (offset = StartKey \/ InJournal(offset))
  BY Zenon, <1>1 DEF LInv, Linked, Phases, CommittedIsPrefix
<1>3. KeyLess(offset, e.key)
  BY Zenon, <1>1, KeyLeqTotal
<1>4. CASE e.key = <<1, 0>>
  <2>1. offset[1] \in Nat /\ offset[2] \in Nat /\ (offset[1] < 1 \/ (offset[1] = 1 /\ offset[2] < 0))
    BY <1>1, <1>3, <1>4 DEF KeyLess, Key
  <2>2. offset = StartKey
    BY <1>2, <2>1 DEF InJournal
  <2> QED
    BY SMTT(30), <1>1, <1>2, <1>4, <2>2 DEF NextKey, StartKey, LastIdx
<1>5. CASE e.key # <<1, 0>>
  <2>1. PICK f \in stream : f.id < e.id /\ e.key = NextKey(f.key)
    BY Zenon, <1>1, <1>5 DEF LInv, Linked
  <2>2. /\ f.key \in Key /\ InJournal(f.key) /\ KeyLess(f.key, e.key)
        /\ KeyLeq(f.key, offset) /\ KeyLess(offset, e.key) => offset = f.key
    BY <1>1, <1>2, <2>1, NextKeyFacts
  <2>3. f \notin batch
    <3> SUFFICES ASSUME f \in batch PROVE FALSE
      BY Zenon
    <3>1. KeyLess(e.key, f.key) \/ e.key = f.key
      BY Zenon DEF IsNextEntry
    <3> QED
      BY <1>1, <2>2, <3>1 DEF KeyLess, Key
  <2>4. KeyLeq(f.key, offset)
    BY Zenon, <2>1, <2>3 DEF LInv, BatchReach
  <2> QED
    BY Zenon, <1>1, <1>2, <1>3, <2>1, <2>2, <2>4
<1> QED
  BY Zenon, <1>4, <1>5

\* And so is the item a recovered page is at, if it follows the offset.
LEMMA PageItemIsNext ==
  ASSUME IInv, LInv, pc = "page",
         NEW k \in page, \A j \in page : KeyLeq(k, j), Follows(offset, k)
  PROVE  k \in Key /\ InJournal(k) /\ offset = stored /\ k = NextKey(offset)
<1>1. TypeOK /\ offset \in Key /\ k \in Key
  BY Zenon DEF IInv, TInv, TypeOK
<1>2. /\ InJournal(k) /\ k[1] <= after /\ offset = stored /\ (offset = StartKey \/ InJournal(offset))
  BY Zenon, <1>1 DEF LInv, PageReach, Phases, CommittedIsPrefix
<1>3. /\ k = <<k[1], k[2]>> /\ k[1] \in Nat /\ k[2] \in Nat /\ after \in Nat
      /\ offset = <<offset[1], offset[2]>> /\ offset[1] \in Nat /\ offset[2] \in Nat
  BY <1>1 DEF Key, LInv, PageReach
<1>4. k[1] # offset[1] /\ offset[1] # 0 => offset[2] >= journal[offset[1]] - 1
  <2> SUFFICES ASSUME k[1] # offset[1], offset[1] # 0 PROVE offset[2] >= journal[offset[1]] - 1
    BY Zenon
  <2> DEFINE s == offset[1]
             l == <<s, journal[s] - 1>>
  <2>1. s \in 1 .. Len(journal) /\ k[1] = s + 1 /\ k[2] = 0
    BY <1>2, <1>3 DEF StartKey, InJournal, Follows
  <2>2. journal[s] \in Nat \ {0}
    BY <1>1, <2>1 DEF TypeOK
  <2>3. l \in Key /\ InJournal(l) /\ l[1] = s /\ l[2] = journal[s] - 1
    BY <2>1, <2>2 DEF InJournal, Key
  <2>4. l \in page \/ KeyLeq(l, offset)
    BY <1>2, <1>3, <2>1, <2>3 DEF LInv, PageReach
  <2>5. l \notin page
    <3> SUFFICES ASSUME l \in page PROVE FALSE
      BY Zenon
    <3>1. KeyLeq(k, l)
      BY Zenon
    <3> QED
      BY <1>3, <2>1, <2>2, <2>3, <3>1 DEF KeyLeq, KeyLess
  <2>6. KeyLeq(l, offset)
    BY Zenon, <2>4, <2>5
  <2> HIDE DEF l
  <2> QED
    BY <1>3, <2>2, <2>3, <2>6 DEF KeyLeq, KeyLess
<1>5. k[1] = offset[1] \/ offset[1] = 0 \/ offset[2] >= journal[offset[1]] - 1
  BY Zenon, <1>4
<1> QED
  BY Zenon, <1>1, <1>2, <1>5, FollowsIsNext

\* The next event is committed: the prefix grows by it.
LEMMA CommitPrefix ==
  ASSUME IInv, CommittedIsPrefix, NEW k \in Key, InJournal(k), k = NextKey(stored),
         Commit(k), journal' = journal
  PROVE  /\ stored' = k /\ applied' = Append(applied, k) /\ KeyLess(stored, k)
         /\ CommittedIsPrefix'
<1>1. TypeOK /\ stored \in Key /\ (stored = StartKey \/ InJournal(stored)) /\ applied \in Seq(Key)
  BY Zenon DEF IInv, TInv, TypeOK, CommittedIsPrefix
<1>2. /\ KeyLess(stored, k)
      /\ \A o \in Key : (o = StartKey \/ InJournal(o)) /\ KeyLess(o, k) => KeyLeq(o, stored)
  BY Zenon, <1>1, NextKeyFacts
<1>3. stored' = k /\ stored' # stored
  BY <1>1, <1>2 DEF Commit, KeyLess, Key
<1>4. applied' = Append(applied, k)
  BY Zenon, <1>3, CommitMoves
<1>5. /\ \A i \in 1 .. Len(applied) : i \in 1 .. Len(applied') /\ applied'[i] = applied[i]
      /\ Len(applied') \in 1 .. Len(applied') /\ applied'[Len(applied')] = k
  BY <1>1, <1>4
<1>6. \A j \in Key : InJournal(j) /\ KeyLeq(j, k) => IsApplied(j)'
  <2> SUFFICES ASSUME NEW j \in Key, InJournal(j), KeyLeq(j, k)
               PROVE  \E i \in 1 .. Len(applied') : applied'[i] = j
    BY Zenon DEF IsApplied
  <2>1. CASE j = k
    BY Zenon, <1>5, <2>1
  <2>2. CASE j # k
    <3>1. KeyLeq(j, stored)
      BY Zenon, <1>2, <2>2 DEF KeyLeq
    <3>2. IsApplied(j)
      BY Zenon, <3>1 DEF CommittedIsPrefix
    <3> QED
      BY Zenon, <1>5, <3>2 DEF IsApplied
  <2> QED
    BY Zenon, <2>1, <2>2
<1> QED
  BY Zenon, <1>2, <1>3, <1>4, <1>6 DEF CommittedIsPrefix, InJournal

-----------------------------------------------------------------------------
(* LInv is inductive where nothing is lost. *)

LEMMA LosslessInit == Init => LInv
<1> SUFFICES ASSUME Init PROVE LInv
  BY Zenon
<1>1. Len(journal) = 0
  BY Zenon DEF Init
<1>2. \A k : ~InJournal(k)
  BY <1>1 DEF InJournal
<1>3. Linked /\ Phases /\ BatchReach /\ PendingReach /\ CommittedIsPrefix
  BY Zenon, <1>2 DEF Init, Linked, Phases, BatchReach, PendingReach, CommittedIsPrefix
<1>4. PageReach
  BY <1>1, <1>2 DEF Init, PageReach
<1> QED
  BY Zenon, <1>3, <1>4 DEF LInv

\* A command is journaled: what was in the journal stays as it was.
LEMMA LosslessCommand ==
  ASSUME IInv, LInv, EngineCommand
  PROVE  LInv'
<1>1. TypeOK /\ TInv
  BY Zenon DEF IInv, TInv
<1>2. PICK n \in Nat \ {0} : journal' = Append(journal, n)
  BY ConsumerAssumption DEF EngineCommand
<1>3. /\ Len(journal') = Len(journal) + 1 /\ Len(journal) \in Nat
      /\ \A s \in 1 .. Len(journal) : journal'[s] = journal[s]
  BY <1>1, <1>2 DEF TypeOK
<1>4. UNCHANGED <<published, redisVars, dbVars, pc, sourceVars, offset, halted, cycleVars, recoverVars>>
  BY Zenon DEF EngineCommand
<1>5. /\ \A k : InJournal(k) => InJournal(k)'
      /\ \A k : InJournal(k)' /\ k[1] <= Len(journal) => InJournal(k)
      /\ \A k : InJournal(k) => NextKey(k)' = NextKey(k)
  <2>1. \A k : InJournal(k) => InJournal(k)'
    BY <1>3 DEF InJournal
  <2>2. \A k : InJournal(k)' /\ k[1] <= Len(journal) => InJournal(k)
    BY <1>3 DEF InJournal
  <2>3. \A k : InJournal(k) => NextKey(k)' = NextKey(k)
    <3> SUFFICES ASSUME NEW k, InJournal(k) PROVE NextKey(k)' = NextKey(k)
      BY Zenon
    <3>1. journal'[k[1]] = journal[k[1]]
      BY Zenon, <1>3 DEF InJournal
    <3>2. LastIdx(k[1])' = LastIdx(k[1])
      BY Zenon, <3>1 DEF LastIdx
    <3> QED
      BY Zenon, <3>2 DEF NextKey
  <2> QED
    BY Zenon, <2>1, <2>2, <2>3
<1>6. /\ \A k \in Key : KeyLeq(k, published) => k[1] <= Len(journal)
      /\ \A k \in Key : KeyLeq(k, stored) => k[1] <= Len(journal)
  <2>1. published \in Key /\ published[1] <= Len(journal)
    BY Zenon, <1>1 DEF TInv, TypeOK, PublishedInJournal
  <2>2. stored \in Key /\ stored[1] <= Len(journal)
    BY <1>1, <1>3 DEF TypeOK, LInv, CommittedIsPrefix, StartKey, InJournal
  <2> QED
    BY <1>3, <2>1, <2>2 DEF KeyLeq, KeyLess, Key
<1>7. Linked'
  <2>1. \A e \in stream :
          /\ InJournal(e.key)'
          /\ e.key = <<1, 0>> \/ \E f \in stream : f.id < e.id /\ e.key = NextKey(f.key)'
    <3> SUFFICES ASSUME NEW e \in stream
                 PROVE  /\ InJournal(e.key)'
                        /\ e.key # <<1, 0>> =>
                             \E f \in stream : f.id < e.id /\ e.key = NextKey(f.key)'
      BY Zenon
    <3>1. Linked
      BY Zenon DEF LInv
    <3>2. InJournal(e.key)
      BY Zenon, <3>1 DEF Linked
    <3>3. InJournal(e.key)'
      BY Zenon, <1>5, <3>2
    <3>4. ASSUME e.key # <<1, 0>>
          PROVE  \E f \in stream : f.id < e.id /\ e.key = NextKey(f.key)'
      <4>1. PICK f \in stream : f.id < e.id /\ e.key = NextKey(f.key)
        BY Zenon, <3>1, <3>4 DEF Linked
      <4>2. InJournal(f.key)
        BY Zenon, <3>1 DEF Linked
      <4>3. NextKey(f.key)' = NextKey(f.key)
        BY Zenon, <1>5, <4>2
      <4> QED
        BY Zenon, <4>1, <4>3
    <3> QED
      BY Zenon, <3>3, <3>4
  <2>2. \A k \in Key : InJournal(k)' /\ KeyLeq(k, published) => \E f \in stream : f.key = k
    BY Zenon, <1>5, <1>6 DEF LInv, Linked
  <2> QED
    BY Zenon, <1>4, <2>1, <2>2 DEF Linked, redisVars
<1>8. Phases' /\ BatchReach' /\ PendingReach'
  BY Zenon, <1>4 DEF LInv, Phases, BatchReach, PendingReach, redisVars, dbVars, sourceVars, cycleVars,
              recoverVars
<1>9. PageReach'
  <2>1. after \in 0 .. Len(journal)
    BY Zenon DEF LInv, PageReach
  <2>2. \A k \in Key : InJournal(k)' /\ k[1] <= after => InJournal(k)
    BY <1>3, <1>5, <2>1 DEF Key
  <2>3. after' = after /\ page' = page /\ offset' = offset
    BY Zenon, <1>4 DEF recoverVars
  <2>4. after \in 0 .. Len(journal')
    BY <1>3, <2>1
  <2>5. \A k \in page : InJournal(k)' /\ k[1] <= after
    BY Zenon, <1>5 DEF LInv, PageReach
  <2>6. \A k \in Key : InJournal(k)' /\ k[1] <= after => k \in page \/ KeyLeq(k, offset)
    BY Zenon, <2>2 DEF LInv, PageReach
  <2> QED
    BY Zenon, <2>3, <2>4, <2>5, <2>6 DEF PageReach
<1>10. CommittedIsPrefix'
  <2>1. \A k \in Key : InJournal(k)' /\ KeyLeq(k, stored) => IsApplied(k)
    BY Zenon, <1>5, <1>6 DEF LInv, CommittedIsPrefix
  <2>2. stored' = stored /\ applied' = applied
    BY Zenon, <1>4 DEF dbVars
  <2>3. stored = StartKey \/ InJournal(stored)'
    BY Zenon, <1>5, <2>2 DEF LInv, CommittedIsPrefix, InJournal
  <2> QED
    BY Zenon, <2>1, <2>2, <2>3 DEF CommittedIsPrefix, IsApplied, InJournal
<1> QED
  BY Zenon, <1>7, <1>8, <1>9, <1>10 DEF LInv

\* An entry is added after the entry of the event before it.
LEMMA LosslessPublish ==
  ASSUME IInv, LInv, Publish
  PROVE  LInv'
<1> DEFINE new == [id |-> nextId, key |-> published']
<1>1. TypeOK /\ TInv /\ TInv'
  BY Zenon, TypeStepEngine DEF IInv, TInv
<1>2. /\ stream' = stream \cup {new} /\ published' = NextKey(published)
      /\ UNCHANGED <<journal, groupLast, pel, dbVars, pc, sourceVars, offset, halted, cycleVars,
                     recoverVars>>
  BY Zenon DEF Publish
<1>3. /\ new.id = nextId /\ new.key = published' /\ nextId \in Nat
      /\ \A e \in stream : e.id \in Nat /\ e.id < nextId
  BY Zenon, <1>1 DEF TypeOK, Entry, IInv, IdsBelowNext
<1>4. published \in Key /\ (published = StartKey \/ InJournal(published))
  <2>1. published \in Key /\ published[1] <= Len(journal) /\ published[2] <= LastIdx(published[1])
    BY Zenon, <1>1 DEF TInv, TypeOK, PublishedInJournal
  <2>2. published = <<published[1], published[2]>> /\ published[1] \in Nat /\ published[2] \in Nat
    BY <2>1 DEF Key
  <2>3. CASE published[1] = 0
    BY <2>1, <2>2, <2>3 DEF LastIdx, StartKey
  <2>4. CASE published[1] # 0
    <3>1. journal[published[1]] \in Nat
      BY <1>1, <2>1, <2>2, <2>4 DEF TypeOK
    <3> QED
      BY <1>1, <2>1, <2>2, <2>4, <3>1 DEF LastIdx, InJournal
  <2> QED
    BY Zenon, <2>1, <2>3, <2>4
<1>5. /\ published' \in Key /\ KeyLess(published, published')
      /\ \A o \in Key : (o = StartKey \/ InJournal(o)) /\ KeyLess(o, published') => KeyLeq(o, published)
  BY Zenon, <1>1, <1>2, <1>4, NextKeyFacts
<1>6. InJournal(published')
  <2>1. published'[1] <= Len(journal) /\ published'[2] <= LastIdx(published'[1])
    BY Zenon, <1>1, <1>2 DEF TInv, PublishedInJournal, LastIdx
  <2>2. published'[1] \in Nat /\ published'[2] \in Nat /\ published'[1] # 0
    <3>1. published'[1] \in Nat /\ published'[2] \in Nat
      BY Zenon, <1>5 DEF Key
    <3> QED
      BY <2>1, <3>1, <1>4, <1>5 DEF LastIdx, KeyLess, Key
  <2>3. journal[published'[1]] \in Nat
    BY <1>1, <2>1, <2>2 DEF TypeOK
  <2> QED
    BY <1>1, <2>1, <2>2, <2>3 DEF LastIdx, InJournal
<1> HIDE DEF new
<1>7. Linked'
  <2>1. published' = <<1, 0>> \/ \E f \in stream : f.id < nextId /\ published' = NextKey(f.key)
    <3>1. CASE published = StartKey
      BY SMTT(30), <1>2, <3>1 DEF NextKey, StartKey, LastIdx
    <3>2. CASE InJournal(published)
      <4>1. PICK f \in stream : f.key = published
        BY Zenon, <1>4, <3>2 DEF LInv, Linked, KeyLeq
      <4> QED
        BY Zenon, <1>2, <1>3, <4>1
    <3> QED
      BY Zenon, <1>4, <3>1, <3>2
  <2>2. \A e \in stream \cup {new} :
          /\ InJournal(e.key)
          /\ e.key = <<1, 0>> \/ \E f \in stream \cup {new} : f.id < e.id /\ e.key = NextKey(f.key)
    BY Zenon, <1>3, <1>6, <2>1 DEF LInv, Linked
  <2>3. \A k \in Key : InJournal(k) /\ KeyLeq(k, published') => \E f \in stream \cup {new} : f.key = k
    BY Zenon, <1>3, <1>5 DEF LInv, Linked, KeyLeq
  <2> QED
    BY Zenon, <1>2, <2>2, <2>3 DEF Linked, InJournal, NextKey, LastIdx
<1>8. BatchReach'
  BY <1>2, <1>3 DEF LInv, BatchReach, cycleVars
<1>9. Phases' /\ PendingReach' /\ PageReach' /\ CommittedIsPrefix'
  BY Zenon, <1>2 DEF LInv, Phases, PendingReach, PageReach, CommittedIsPrefix, IsApplied, InJournal, dbVars,
              sourceVars, cycleVars, recoverVars
<1> QED
  BY Zenon, <1>7, <1>8, <1>9 DEF LInv

LEMMA LosslessRepublish ==
  ASSUME IInv, LInv, Republish
  PROVE  LInv'
<1>1. TypeOK /\ TypeOK'
  BY Zenon, TypeStepEngine DEF IInv, TInv
<1>2. UNCHANGED <<journal, redisVars, dbVars, pc, sourceVars, offset, halted, cycleVars, recoverVars>>
  BY Zenon DEF Republish
<1>3. PICK s \in 0 .. published[1] - 1 : published' = <<s, LastIdx(s)>>
  BY Zenon DEF Republish
<1>4. \A k \in Key : KeyLeq(k, published') => KeyLeq(k, published)
  <2>1. published \in Key /\ published' \in Key
    BY Zenon, <1>1 DEF TypeOK
  <2>2. KeyLeq(published', published)
    BY <1>3, <2>1 DEF KeyLeq, KeyLess, Key
  <2> QED
    BY Zenon, <2>1, <2>2, KeyLeqTransitive
<1>5. Linked'
  <2>1. \A k \in Key : InJournal(k) /\ KeyLeq(k, published') => \E f \in stream : f.key = k
    BY Zenon, <1>4 DEF LInv, Linked
  <2> QED
    BY Zenon, <1>2, <2>1 DEF LInv, Linked, redisVars, InJournal, NextKey, LastIdx
<1>6. Phases' /\ BatchReach' /\ PendingReach' /\ PageReach' /\ CommittedIsPrefix'
  BY Zenon, <1>2 DEF LInv, Phases, BatchReach, PendingReach, PageReach, CommittedIsPrefix, IsApplied,
              InJournal, redisVars, dbVars, sourceVars, cycleVars, recoverVars
<1> QED
  BY Zenon, <1>5, <1>6 DEF LInv

\* Steps of the process leave the engine and the stream alone.
LEMMA LinkedStays ==
  ASSUME Linked, UNCHANGED engineVars, stream' = stream
  PROVE  Linked' /\ \A k : InJournal(k)' = InJournal(k)
BY Zenon DEF Linked, InJournal, NextKey, LastIdx, engineVars

LEMMA PrefixStays ==
  ASSUME CommittedIsPrefix, UNCHANGED <<engineVars, dbVars>>
  PROVE  CommittedIsPrefix'
BY Zenon DEF CommittedIsPrefix, InJournal, IsApplied, engineVars, dbVars

\* recover() asks for a page from the offset's own sequence on: what is
\* before it is at or below the offset.
LEMMA RecoverReach ==
  ASSUME TypeOK, CommittedIsPrefix, offset = stored, offset' = offset, UNCHANGED engineVars,
         NEW from, StartRecover(from)
  PROVE  PageReach' /\ pc' = "fetch" /\ page' = {} /\ caller' = from
<1>1. pc' = "fetch" /\ page' = {} /\ caller' = from
      /\ after' = IF offset[1] > 0 THEN offset[1] - 1 ELSE 0
  BY Zenon DEF StartRecover
<1>2. offset \in Key /\ offset[1] \in Nat /\ offset[1] <= Len(journal) /\ Len(journal) \in Nat
  BY DEF TypeOK, Key, CommittedIsPrefix, StartKey, InJournal
<1>3. after' \in 0 .. Len(journal)
  BY <1>1, <1>2
<1>4. \A k \in Key : InJournal(k) /\ k[1] <= after' => KeyLeq(k, offset)
  BY <1>1, <1>2 DEF InJournal, KeyLeq, KeyLess, Key
<1> QED
  BY Zenon, <1>1, <1>3, <1>4 DEF PageReach, InJournal, engineVars

LEMMA LosslessReset ==
  ASSUME IInv, LInv, Start \/ Crash \/ ReadReset
  PROVE  LInv'
<1>1. TypeOK
  BY Zenon DEF IInv, TInv
<1>2. UNCHANGED <<engineVars, redisVars, dbVars>> /\ stream' = stream
  BY Zenon DEF Start, Crash, ReadReset, redisVars
<1>3. Linked' /\ CommittedIsPrefix'
  BY Zenon, <1>2, LinkedStays, PrefixStays DEF LInv
<1>4. CASE Start
  <2>1. /\ pc = "down" /\ pc' = "idle" /\ offset' = stored /\ stored' = stored
        /\ cursor' = "0" /\ UNCHANGED <<cycleVars, recoverVars>>
    BY Zenon, <1>4 DEF Start, dbVars
  <2>2. batch = {} /\ page = {} /\ after = 0
    BY Zenon, <2>1 DEF LInv, Phases
  <2>3. Phases' /\ BatchReach' /\ PendingReach'
    BY Zenon, <1>2, <2>1, <2>2 DEF LInv, Phases, BatchReach, PendingReach, redisVars, cycleVars, recoverVars
  <2>4. PageReach'
    BY <1>1, <1>2, <2>1, <2>2 DEF PageReach, InJournal, engineVars, recoverVars, TypeOK
  <2> QED
    BY Zenon, <1>3, <2>3, <2>4 DEF LInv
<1>5. CASE Crash
  <2>1. pc' = "down" /\ batch' = {} /\ page' = {} /\ after' = 0
    BY Zenon, <1>5 DEF Crash
  <2>2. Phases' /\ BatchReach' /\ PendingReach'
    BY Zenon, <1>2, <2>1 DEF LInv, Phases, BatchReach, PendingReach, redisVars
  <2>3. PageReach'
    BY <1>1, <1>2, <2>1 DEF PageReach, InJournal, engineVars, TypeOK
  <2> QED
    BY Zenon, <1>3, <2>2, <2>3 DEF LInv
<1>6. CASE ReadReset
  <2>1. /\ pc = "idle" /\ cursor' = "0" /\ UNCHANGED <<offset, halted, cycleVars>>
        /\ StartRecover("idle") /\ stored' = stored
    BY Zenon, <1>6 DEF ReadReset, dbVars
  <2>2. batch = {} /\ offset = stored
    BY Zenon, <2>1 DEF LInv, Phases
  <2>3. PageReach' /\ pc' = "fetch" /\ page' = {} /\ caller' = "idle"
    BY Zenon, <1>1, <1>2, <2>1, <2>2, RecoverReach DEF LInv
  <2>4. Phases' /\ BatchReach' /\ PendingReach'
    BY Zenon, <1>2, <2>1, <2>2, <2>3 DEF LInv, Phases, BatchReach, PendingReach, redisVars, cycleVars
  <2> QED
    BY Zenon, <1>3, <2>3, <2>4 DEF LInv
<1> QED
  BY Zenon, <1>4, <1>5, <1>6

\* Entries are delivered from the oldest one that is pending, or new, on.
LEMMA LosslessRead ==
  ASSUME IInv, LInv, Read
  PROVE  LInv'
<1> DEFINE pending == FirstById(pel, BatchSize)
           unread == {e \in stream : e.id > groupLast}
           new == FirstById(unread, BatchSize)
<1>1. TypeOK /\ BatchSize \in Nat \ {0} /\ IsFiniteSet(stream)
  BY Zenon, ConsumerAssumption DEF IInv, TInv, IdsBelowNext
<1>2. /\ UNCHANGED <<engineVars, dbVars>> /\ stream' = stream /\ UNCHANGED <<offset, halted>>
      /\ pc = "idle" /\ ~halted /\ stored' = stored
  BY Zenon DEF Read, dbVars
<1>3. Linked' /\ CommittedIsPrefix' /\ \A k : InJournal(k)' = InJournal(k)
  BY Zenon, <1>2, LinkedStays, PrefixStays DEF LInv
<1>4. /\ batch = {} /\ offset = stored /\ page = {} /\ after = 0
      /\ pel \subseteq stream /\ \A e \in pel : e.id <= groupLast
  BY Zenon, <1>2 DEF LInv, Phases, PendingReach
<1>5. /\ pending \subseteq pel /\ new \subseteq unread /\ unread \subseteq stream
      /\ pel \subseteq Entry /\ unread \subseteq Entry /\ groupLast \in Nat
      /\ IsFiniteSet(pel) /\ IsFiniteSet(unread)
      /\ \A e \in stream : e.id \in Nat
  BY Zenon, <1>1, <1>4, FS_Subset DEF FirstById, TypeOK, Entry
<1>6. \A f \in stream : f.id <= groupLast /\ f \notin pel => KeyLeq(f.key, offset)
  BY Zenon, <1>4 DEF IInv, AckedIsCommitted
<1>7. /\ \A e \in pending, f \in pel : f.id < e.id => f \in pending
      /\ \A e \in new, f \in unread : f.id < e.id => f \in new
  <2>1. ASSUME NEW e \in pending, NEW f \in pel, f.id < e.id PROVE f \in pending
    <3>1. f.id <= e.id
      BY <1>4, <1>5, <2>1
    <3> QED
      BY Zenon, <1>1, <1>5, <3>1, FirstByIdClosed
  <2>2. ASSUME NEW e \in new, NEW f \in unread, f.id < e.id PROVE f \in new
    <3>1. f.id <= e.id
      BY <1>5, <2>2
    <3> QED
      BY Zenon, <1>1, <1>5, <3>1, FirstByIdClosed
  <2> QED
    BY Zenon, <2>1, <2>2
\* What a delivery of S leaves.
<1>8. ASSUME NEW S, OnRead(S), S \subseteq stream,
             \A e \in S, f \in stream : f.id < e.id => f \in S \/ KeyLeq(f.key, offset)
      PROVE  Phases' /\ BatchReach' /\ PageReach' /\ batch' = S
  <2>1. CASE S # {}
    <3>1. batch' = S /\ pc' = "batch" /\ UNCHANGED recoverVars
      BY Zenon, <1>8, <2>1 DEF OnRead
    <3>2. Phases' /\ BatchReach'
      BY Zenon, <1>2, <1>4, <1>8, <3>1 DEF Phases, BatchReach, recoverVars
    <3>3. PageReach'
      BY <1>1, <1>2, <1>4, <3>1 DEF PageReach, InJournal, engineVars, recoverVars, TypeOK
    <3> QED
      BY Zenon, <3>1, <3>2, <3>3
  <2>2. CASE S = {} /\ StartRecover("idle")
    <3>1. batch' = {}
      BY Zenon, <1>4, <1>8, <2>2 DEF OnRead, cycleVars
    <3>2. PageReach' /\ pc' = "fetch" /\ page' = {} /\ caller' = "idle"
      BY Zenon, <1>1, <1>2, <1>4, <2>2, RecoverReach DEF LInv
    <3>3. Phases' /\ BatchReach'
      BY Zenon, <1>2, <1>4, <3>1, <3>2 DEF Phases, BatchReach
    <3> QED
      BY Zenon, <2>2, <3>1, <3>2, <3>3
  <2>3. CASE S = {} /\ UNCHANGED <<pc, recoverVars>>
    <3>1. batch' = {}
      BY Zenon, <1>4, <1>8, <2>3 DEF OnRead, cycleVars
    <3>2. Phases' /\ BatchReach'
      BY Zenon, <1>2, <1>4, <2>3, <3>1 DEF Phases, BatchReach, recoverVars
    <3>3. PageReach'
      BY <1>1, <1>2, <1>4, <2>3 DEF PageReach, InJournal, engineVars, recoverVars, TypeOK
    <3> QED
      BY Zenon, <2>3, <3>1, <3>2, <3>3
  <2> QED
    BY Zenon, <1>8, <2>1, <2>2, <2>3 DEF OnRead
<1>9. CASE cursor = "0" /\ pending # {}
  <2>1. OnRead(pending \cap stream) /\ UNCHANGED <<cursor, groupLast, pel>>
    BY Zenon, <1>9 DEF Read
  <2>2. pending \cap stream = pending
    BY Zenon, <1>4, <1>5
  <2>3. \A e \in pending, f \in stream : f.id < e.id => f \in pending \/ KeyLeq(f.key, offset)
    <3> SUFFICES ASSUME NEW e \in pending, NEW f \in stream, f.id < e.id, f \notin pending
                 PROVE  KeyLeq(f.key, offset)
      BY Zenon
    <3>1. f \notin pel
      BY Zenon, <1>7
    <3>2. f.id <= groupLast
      BY <1>4, <1>5
    <3> QED
      BY Zenon, <1>6, <3>1, <3>2
  <2> HIDE DEF pending
  <2>4. Phases' /\ BatchReach' /\ PageReach'
    BY Zenon, <1>4, <1>5, <1>8, <2>1, <2>2, <2>3
  <2>5. PendingReach'
    BY Zenon, <1>2, <1>4, <1>9, <2>1 DEF PendingReach
  <2> QED
    BY Zenon, <1>3, <2>4, <2>5 DEF LInv
<1>10. CASE ~(cursor = "0" /\ pending # {})
  <2>1. /\ OnRead(new) /\ cursor' = ">" /\ pel' = pel \cup new
        /\ IF new = {} THEN UNCHANGED groupLast
           ELSE \E l \in new : groupLast' = l.id /\ \A e \in new : e.id <= l.id
    BY Zenon, <1>10 DEF Read
  <2>2. \A e \in pel : KeyLeq(e.key, offset)
    <3>1. CASE cursor = "0"
      <4>1. pel = {}
        BY Zenon, <1>1, <1>5, <1>10, <3>1, FirstByIdNonempty
      <4> QED
        BY Zenon, <4>1
    <3>2. CASE cursor = ">"
      BY Zenon, <1>2, <1>4, <3>2 DEF LInv, PendingReach
    <3> QED
      BY Zenon, <1>1, <3>1, <3>2 DEF TypeOK
  <2>3. \A e \in new, f \in stream : f.id < e.id => f \in new \/ KeyLeq(f.key, offset)
    <3> SUFFICES ASSUME NEW e \in new, NEW f \in stream, f.id < e.id, f \notin new
                 PROVE  KeyLeq(f.key, offset)
      BY Zenon
    <3>1. f \notin unread
      BY Zenon, <1>7
    <3>2. f.id <= groupLast
      BY <1>5, <3>1
    <3> QED
      BY Zenon, <1>6, <2>2, <3>2
  <2>4. new \subseteq stream
    BY Zenon, <1>5
  <2>5. \A e \in new : e.id > groupLast /\ e.id \in Nat
    BY Zenon, <1>5
  <2> HIDE DEF new, unread
  <2>6. Phases' /\ BatchReach' /\ PageReach' /\ batch' = new
    BY Zenon, <1>8, <2>1, <2>3, <2>4
  <2>7. \A e \in pel \cup new : e.id <= groupLast'
    <3>1. CASE new = {}
      BY Zenon, <1>4, <2>1, <3>1
    <3>2. CASE new # {}
      <4>1. PICK l \in new : groupLast' = l.id /\ \A e \in new : e.id <= l.id
        BY Zenon, <2>1, <3>2
      <4> QED
        BY <1>4, <1>5, <2>5, <4>1
    <3> QED
      BY Zenon, <3>1, <3>2
  <2>8. PendingReach'
    BY Zenon, <1>2, <1>4, <2>1, <2>2, <2>4, <2>6, <2>7 DEF PendingReach
  <2> QED
    BY Zenon, <1>3, <2>6, <2>8 DEF LInv
<1> QED
  BY Zenon, <1>9, <1>10

\* An offset that moves on leaves reached what was.
LEMMA ReachGrows ==
  ASSUME TypeOK, offset' \in Key, KeyLeq(offset, offset'), NEW k \in Key, KeyLeq(k, offset)
  PROVE  KeyLeq(k, offset')
BY Zenon, KeyLeqTransitive DEF TypeOK

\* The entry the batch is at is done: it was applied before, or it is now.
LEMMA EntryReach ==
  ASSUME IInv, LInv, NEW e \in batch, EntryDone(e), offset' \in Key, KeyLeq(offset, offset'),
         KeyLeq(e.key, offset'), pc = "batch", pc' = "batch", stored' = offset',
         UNCHANGED <<engineVars, redisVars, sourceVars, halted, recoverVars>>
  PROVE  Linked' /\ Phases' /\ BatchReach' /\ PendingReach' /\ PageReach'
<1>1. TypeOK /\ \A f \in stream : f.key \in Key
  BY Zenon DEF IInv, TInv, TypeOK, Entry
<1>2. /\ batch' = batch \ {e} /\ stream' = stream /\ pel' = pel /\ groupLast' = groupLast
      /\ cursor' = cursor /\ page = {} /\ after = 0 /\ page' = {} /\ after' = 0
  BY Zenon DEF EntryDone, redisVars, sourceVars, recoverVars, LInv, Phases
<1>3. \A f \in stream : KeyLeq(f.key, offset) => KeyLeq(f.key, offset')
  BY Zenon, <1>1, ReachGrows
<1>4. Linked'
  BY Zenon, <1>2, LinkedStays DEF LInv
<1>5. Phases'
  BY Zenon, <1>2 DEF Phases
<1>6. BatchReach'
  BY Zenon, <1>2, <1>3 DEF LInv, BatchReach
<1>7. PendingReach'
  BY Zenon, <1>2, <1>3 DEF LInv, PendingReach
<1>8. PageReach'
  BY SMTT(30), <1>1, <1>2 DEF PageReach, InJournal, engineVars, TypeOK
<1> QED
  BY Zenon, <1>4, <1>5, <1>6, <1>7, <1>8

\* The batch never meets a gap.
LEMMA NoGap ==
  ASSUME IInv, LInv, pc = "batch", NEW e \in batch
  PROVE  ~IsGap(e)
<1> SUFFICES ASSUME IsGap(e) PROVE FALSE
  BY Zenon
<1>1. /\ e.key \in Key /\ InJournal(e.key) /\ offset = stored /\ e.key = NextKey(offset)
      /\ ~Follows(offset, e.key)
  BY Zenon, NextEntryIsNext DEF IsGap
<1>2. offset[1] \in Nat /\ offset[2] \in Nat
  BY Zenon DEF IInv, TInv, TypeOK, Key
<1> QED
  BY SMTT(30), <1>1, <1>2 DEF NextKey, Follows

LEMMA LosslessBatch ==
  ASSUME IInv, LInv, Lossless, SkipEntry \/ EntryGap \/ UnrecoverableGap \/ ApplyEntry \/ EndBatch
  PROVE  LInv'
<1>1. TypeOK /\ TypeOK' /\ pc = "batch" /\ offset = stored
  BY Zenon, TypeStepBatch
     DEF IInv, TInv, LInv, Phases, SkipEntry, EntryGap, UnrecoverableGap, ApplyEntry, EndBatch
<1>2. CASE SkipEntry
  <2>1. PICK e \in batch : KeyLeq(e.key, offset) /\ EntryDone(e)
    BY Zenon, <1>2 DEF SkipEntry
  <2>2. /\ UNCHANGED <<engineVars, redisVars, dbVars, pc, sourceVars, offset, halted, recoverVars>>
        /\ offset' \in Key /\ stored' = stored /\ KeyLeq(offset, offset')
    BY Zenon, <1>1, <1>2 DEF SkipEntry, dbVars, TypeOK, KeyLeq
  <2>3. Linked' /\ Phases' /\ BatchReach' /\ PendingReach' /\ PageReach'
    BY Zenon, <1>1, <2>1, <2>2, EntryReach
  <2>4. CommittedIsPrefix'
    BY Zenon, <2>2, PrefixStays DEF LInv
  <2> QED
    BY Zenon, <2>3, <2>4 DEF LInv
<1>3. ~EntryGap /\ ~UnrecoverableGap
  BY Zenon, <1>1, NoGap DEF EntryGap, UnrecoverableGap
<1>4. CASE ApplyEntry
  <2>1. PICK e \in batch :
          /\ IsNextEntry(e) /\ ~KeyLeq(e.key, offset)
          /\ \/ Applied(e.key) /\ EntryDone(e) /\ UNCHANGED pc
             \/ NotApplied(e.key) /\ pc' = "ack" /\ UNCHANGED cycleVars
    BY Zenon, <1>4 DEF ApplyEntry
  <2>2. UNCHANGED <<engineVars, redisVars, sourceVars, recoverVars>> /\ journal' = journal
    BY Zenon, <1>4 DEF ApplyEntry, engineVars
  <2>3. e.key \in Key /\ InJournal(e.key) /\ e.key = NextKey(stored)
    BY Zenon, <1>1, <2>1, NextEntryIsNext
  <2>4. CASE Applied(e.key) /\ EntryDone(e) /\ UNCHANGED pc
    <3>1. Commit(e.key) /\ offset' = e.key /\ halted' = halted
      BY Zenon, <2>4 DEF Applied
    <3>2. stored' = e.key /\ KeyLess(stored, e.key) /\ CommittedIsPrefix'
      BY Zenon, <2>2, <2>3, <3>1, CommitPrefix DEF LInv
    <3>3. Linked' /\ Phases' /\ BatchReach' /\ PendingReach' /\ PageReach'
      BY Zenon, <1>1, <2>2, <2>3, <2>4, <3>1, <3>2, EntryReach DEF KeyLeq
    <3> QED
      BY Zenon, <3>2, <3>3 DEF LInv
  <2>5. CASE NotApplied(e.key) /\ pc' = "ack" /\ UNCHANGED cycleVars
    <3>1. halted' = TRUE /\ UNCHANGED <<dbVars, offset>> /\ stored' = stored
      BY Zenon, <2>5 DEF NotApplied, Lossless, dbVars
    <3>2. Linked' /\ CommittedIsPrefix'
      BY Zenon, <2>2, <3>1, LinkedStays, PrefixStays DEF LInv, redisVars
    <3>3. Phases' /\ BatchReach' /\ PendingReach'
      BY Zenon, <1>1, <2>2, <2>5, <3>1
      DEF LInv, Phases, BatchReach, PendingReach, redisVars, cycleVars, recoverVars
    <3>4. PageReach'
      BY Zenon, <2>2, <3>1 DEF LInv, PageReach, InJournal, engineVars, recoverVars
    <3> QED
      BY Zenon, <3>2, <3>3, <3>4 DEF LInv
  <2> QED
    BY Zenon, <2>1, <2>4, <2>5
<1>5. CASE EndBatch
  <2>1. /\ batch = {} /\ pc' = "ack"
        /\ UNCHANGED <<engineVars, redisVars, dbVars, sourceVars, offset, halted, cycleVars,
                       recoverVars>>
    BY Zenon, <1>5 DEF EndBatch
  <2>2. Linked' /\ CommittedIsPrefix'
    BY Zenon, <2>1, LinkedStays, PrefixStays DEF LInv, redisVars
  <2>3. Phases' /\ BatchReach' /\ PendingReach'
    BY Zenon, <1>1, <2>1
    DEF LInv, Phases, BatchReach, PendingReach, redisVars, dbVars, sourceVars, cycleVars, recoverVars
  <2>4. PageReach'
    BY Zenon, <2>1 DEF LInv, PageReach, InJournal, engineVars, recoverVars
  <2> QED
    BY Zenon, <2>2, <2>3, <2>4 DEF LInv
<1> QED
  BY Zenon, <1>2, <1>3, <1>4, <1>5

LEMMA LosslessAck ==
  ASSUME IInv, LInv, Ack
  PROVE  LInv'
<1>1. /\ pc = "ack" /\ pc' = "idle" /\ pel' \subseteq pel /\ batch' = {} /\ stored' = stored
      /\ UNCHANGED <<engineVars, stream, groupLast, dbVars, sourceVars, offset, halted, recoverVars>>
  BY Zenon DEF Ack, dbVars
<1>2. Linked' /\ CommittedIsPrefix'
  BY Zenon, <1>1, LinkedStays, PrefixStays DEF LInv
<1>3. Phases' /\ BatchReach' /\ PendingReach'
  BY Zenon, <1>1 DEF LInv, Phases, BatchReach, PendingReach, sourceVars, recoverVars
<1>4. PageReach'
  BY Zenon, <1>1 DEF LInv, PageReach, InJournal, engineVars, recoverVars
<1> QED
  BY Zenon, <1>2, <1>3, <1>4 DEF LInv

\* A recovery that ends leaves the position where it is.
LEMMA RecoverEnds ==
  ASSUME TypeOK, LInv, pc \in {"fetch", "page"}, NEW ok, RecoverReturns(ok), halted => halted',
         UNCHANGED <<engineVars, redisVars, dbVars, sourceVars, offset>>
  PROVE  LInv'
<1>1. /\ pc' = "idle" /\ batch' = batch /\ batch = {} /\ page' = {} /\ after' = 0
      /\ offset' = offset /\ offset = stored /\ stored' = stored
      /\ stream' = stream /\ pel' = pel /\ groupLast' = groupLast /\ cursor' = cursor
  BY Zenon DEF RecoverReturns, LInv, Phases, dbVars, redisVars, sourceVars
<1>2. Linked' /\ CommittedIsPrefix'
  BY Zenon, <1>1, LinkedStays, PrefixStays DEF LInv
<1>3. Phases' /\ BatchReach'
  BY Zenon, <1>1 DEF Phases, BatchReach
<1>4. PendingReach'
  BY Zenon, <1>1 DEF LInv, PendingReach
<1>5. PageReach'
  BY <1>1 DEF PageReach, InJournal, engineVars, TypeOK
<1> QED
  BY Zenon, <1>2, <1>3, <1>4, <1>5 DEF LInv

\* An item of the page is done with: it was applied before, or it is now.
LEMMA ItemReach ==
  ASSUME IInv, LInv, NEW k \in page, page' = page \ {k}, offset' \in Key,
         KeyLeq(offset, offset'), KeyLeq(k, offset'), pc = "page", pc' = "page",
         stored' = offset',
         UNCHANGED <<engineVars, redisVars, sourceVars, halted, cycleVars, after, caller>>
  PROVE  Linked' /\ Phases' /\ BatchReach' /\ PendingReach' /\ PageReach'
<1>1. TypeOK /\ page \subseteq Key /\ \A f \in stream : f.key \in Key
  BY Zenon DEF IInv, TInv, TypeOK, Entry
<1>2. /\ batch' = batch /\ batch = {} /\ stream' = stream /\ pel' = pel
      /\ groupLast' = groupLast /\ cursor' = cursor /\ caller = "idle"
  BY Zenon DEF redisVars, sourceVars, cycleVars, LInv, Phases
<1>3. \A o \in Key : KeyLeq(o, offset) => KeyLeq(o, offset')
  BY Zenon, <1>1, ReachGrows
<1>4. Linked'
  BY Zenon, <1>2, LinkedStays DEF LInv
<1>5. Phases' /\ BatchReach'
  BY Zenon, <1>2 DEF Phases, BatchReach
<1>6. pel \subseteq stream
  BY Zenon DEF LInv, PendingReach
<1>7. PendingReach'
  BY Zenon, <1>1, <1>2, <1>3, <1>6 DEF LInv, PendingReach
<1>8. PageReach'
  BY Zenon, <1>1, <1>3 DEF LInv, PageReach, InJournal, engineVars
<1> QED
  BY Zenon, <1>4, <1>5, <1>7, <1>8

LEMMA LosslessRecover ==
  ASSUME IInv, LInv, Lossless, FetchPage \/ PageItem \/ PageDone
  PROVE  LInv'
<1>1. TypeOK /\ pc \in {"fetch", "page"} /\ offset = stored /\ batch = {} /\ caller = "idle"
  BY Zenon DEF IInv, TInv, LInv, Phases, FetchPage, PageItem, PageDone
<1>2. CASE FetchPage
  <2>1. /\ UNCHANGED <<engineVars, redisVars, dbVars, sourceVars, offset, halted>>
        /\ stored' = stored /\ stream' = stream
    BY Zenon, <1>2 DEF FetchPage, dbVars, redisVars
  <2>2. CASE \E ok \in BOOLEAN : RecoverReturns(ok)
    BY Zenon, <1>1, <2>1, <2>2, RecoverEnds
  <2>3. CASE \E e \in after + 1 .. Len(journal) :
               /\ page' = Served(after, e, 0) /\ after' = e /\ pc' = "page"
               /\ UNCHANGED <<cycleVars, caller>>
    <3>1. PICK e \in after + 1 .. Len(journal) :
               /\ page' = Served(after, e, 0) /\ after' = e /\ pc' = "page"
               /\ UNCHANGED <<cycleVars, caller>>
      BY Zenon, <2>3
    <3>2. after \in Nat /\ Len(journal) \in Nat /\ e \in Nat /\ page = {}
      BY SMTT(30), <1>1, <1>2 DEF TypeOK, FetchPage, LInv, Phases
    <3>3. \A k \in page' : InJournal(k) /\ k[1] <= e
      <4> SUFFICES ASSUME NEW k \in page' PROVE InJournal(k) /\ k[1] <= e
        BY Zenon
      <4>1. k \in KeysBetween(after + 1, e)
        BY Zenon, <3>1 DEF Served
      <4>2. PICK s \in after + 1 .. e : k \in {<<s, i>> : i \in 0 .. journal[s] - 1}
        BY Zenon, <4>1 DEF KeysBetween
      <4>3. PICK i \in 0 .. journal[s] - 1 : k = <<s, i>>
        BY Zenon, <4>2
      <4> QED
        BY <3>2, <4>3 DEF InJournal
    <3>4. \A k \in Key : InJournal(k) /\ k[1] <= e => k \in page' \/ KeyLeq(k, offset)
      <4> SUFFICES ASSUME NEW k \in Key, InJournal(k), k[1] <= e, ~KeyLeq(k, offset)
                   PROVE  k \in page'
        BY Zenon
      <4>1. k[1] > after
        BY <3>2 DEF LInv, PageReach, Key
      <4>2. k = <<k[1], k[2]>> /\ k[1] \in after + 1 .. e /\ k[2] \in 0 .. journal[k[1]] - 1
        BY <3>2, <4>1 DEF Key, InJournal
      <4>3. k \in {<<k[1], i>> : i \in 0 .. journal[k[1]] - 1}
        BY Zenon, <4>2
      <4>4. k \in KeysBetween(after + 1, e)
        BY Zenon, <4>2, <4>3 DEF KeysBetween
      <4>5. k[1] # 0
        BY <3>2, <4>2
      <4> QED
        BY Zenon, <3>1, <4>4, <4>5 DEF Served
    <3>5. PageReach'
      BY <2>1, <3>1, <3>2, <3>3, <3>4 DEF PageReach, InJournal, engineVars
    <3>6. Linked' /\ CommittedIsPrefix'
      BY Zenon, <2>1, LinkedStays, PrefixStays DEF LInv
    <3>7. Phases' /\ BatchReach' /\ PendingReach'
      BY SMTT(30), <1>1, <1>2, <2>1, <3>1
      DEF LInv, Phases, BatchReach, PendingReach, redisVars, sourceVars, cycleVars, FetchPage
    <3> QED
      BY Zenon, <3>5, <3>6, <3>7 DEF LInv
  <2>4. {0} \cup {f \in after + 1 .. Len(journal) : "hole" \in faults} = {0}
    BY Zenon DEF Lossless
  <2> QED
    BY Zenon, <1>2, <2>2, <2>3, <2>4 DEF FetchPage
<1>3. CASE PageItem
  <2>1. PICK k \in page :
          /\ \A j \in page : KeyLeq(k, j)
          /\ \/ /\ KeyLeq(k, offset) /\ page' = page \ {k}
                /\ UNCHANGED <<dbVars, offset, halted, pc, cycleVars, after, caller>>
             \/ /\ halted' = TRUE /\ RecoverReturns(FALSE)
                /\ UNCHANGED <<dbVars, offset>>
             \/ /\ Follows(offset, k) /\ Applied(k) /\ page' = page \ {k}
                /\ UNCHANGED <<pc, cycleVars, after, caller>>
             \/ NotApplied(k) /\ RecoverReturns(FALSE)
    BY Zenon, <1>3 DEF PageItem
  <2>2. UNCHANGED <<engineVars, redisVars, sourceVars>> /\ pc = "page" /\ journal' = journal
    BY Zenon, <1>3 DEF PageItem, engineVars
  <2>3. CASE /\ KeyLeq(k, offset) /\ page' = page \ {k}
             /\ UNCHANGED <<dbVars, offset, halted, pc, cycleVars, after, caller>>
    <3>1. offset' \in Key /\ KeyLeq(offset, offset') /\ stored' = stored
      BY Zenon, <1>1, <2>3 DEF TypeOK, KeyLeq, dbVars
    <3>2. Linked' /\ Phases' /\ BatchReach' /\ PendingReach' /\ PageReach'
      BY Zenon, <1>1, <2>2, <2>3, <3>1, ItemReach
    <3>3. CommittedIsPrefix'
      BY Zenon, <2>2, <2>3, PrefixStays DEF LInv
    <3> QED
      BY Zenon, <3>2, <3>3 DEF LInv
  <2>4. CASE halted' = TRUE /\ RecoverReturns(FALSE) /\ UNCHANGED <<dbVars, offset>>
    BY Zenon, <1>1, <2>2, <2>4, RecoverEnds
  <2>5. CASE /\ Follows(offset, k) /\ Applied(k) /\ page' = page \ {k}
             /\ UNCHANGED <<pc, cycleVars, after, caller>>
    <3>1. Commit(k) /\ offset' = k /\ halted' = halted
      BY Zenon, <2>5 DEF Applied
    <3>2. k \in Key /\ InJournal(k) /\ k = NextKey(stored)
      BY Zenon, <1>1, <2>1, <2>2, <2>5, PageItemIsNext
    <3>3. stored' = k /\ KeyLess(stored, k) /\ CommittedIsPrefix'
      BY Zenon, <2>2, <3>1, <3>2, CommitPrefix DEF LInv
    <3>4. Linked' /\ Phases' /\ BatchReach' /\ PendingReach' /\ PageReach'
      BY Zenon, <1>1, <2>2, <2>5, <3>1, <3>2, <3>3, ItemReach DEF KeyLeq
    <3> QED
      BY Zenon, <3>3, <3>4 DEF LInv
  <2>6. CASE NotApplied(k) /\ RecoverReturns(FALSE)
    <3>1. halted' = TRUE /\ UNCHANGED <<dbVars, offset>>
      BY Zenon, <2>6 DEF NotApplied, Lossless
    <3> QED
      BY Zenon, <1>1, <2>2, <2>6, <3>1, RecoverEnds
  <2> QED
    BY Zenon, <2>1, <2>3, <2>4, <2>5, <2>6
<1>4. CASE PageDone
  <2>1. /\ page = {} /\ pc' = "fetch" /\ stored' = stored /\ stream' = stream
        /\ UNCHANGED <<engineVars, redisVars, dbVars, sourceVars, offset, halted, cycleVars,
                       recoverVars>>
    BY Zenon, <1>4 DEF PageDone, dbVars, redisVars
  <2>2. Linked' /\ CommittedIsPrefix'
    BY Zenon, <2>1, LinkedStays, PrefixStays DEF LInv
  <2>3. Phases' /\ BatchReach' /\ PendingReach'
    BY SMTT(30), <1>1, <1>4, <2>1
    DEF LInv, Phases, BatchReach, PendingReach, redisVars, sourceVars, cycleVars, recoverVars,
        PageDone
  <2>4. PageReach'
    BY Zenon, <2>1 DEF LInv, PageReach, InJournal, engineVars, recoverVars
  <2> QED
    BY Zenon, <2>2, <2>3, <2>4 DEF LInv
<1> QED
  BY Zenon, <1>2, <1>3, <1>4

LEMMA LosslessStep == DInv /\ [Next]_vars => DInv'
<1> SUFFICES ASSUME DInv, [Next]_vars PROVE DInv'
  BY Zenon
<1>1. IInv /\ IInv' /\ (Lossless => LInv)
  BY Zenon, InvStep DEF DInv
<1>2. faults' = faults
  BY Zenon DEF Next, Consumer, Environment, vars, Start, ReadReset, Read, SkipEntry, EntryGap,
     UnrecoverableGap, ApplyEntry, EndBatch, Ack, FetchPage, PageItem, PageDone, EngineCommand,
     Publish, Republish, Trim, Wipe, Crash
<1>3. ASSUME Lossless PROVE LInv'
  <2>1. LInv /\ ~Trim /\ ~Wipe
    BY Zenon, <1>1, <1>3 DEF Lossless, Trim, Wipe
  <2>2. CASE Next
    BY Zenon, <1>1, <1>3, <2>1, <2>2, LosslessCommand, LosslessPublish, LosslessRepublish,
       LosslessReset, LosslessRead, LosslessBatch, LosslessAck, LosslessRecover
    DEF Next, Consumer, Environment
  <2>3. CASE UNCHANGED vars
    BY Zenon, <2>1, <2>3
    DEF vars, engineVars, redisVars, dbVars, sourceVars, cycleVars, recoverVars, LInv, Linked,
        Phases, BatchReach, PendingReach, PageReach, CommittedIsPrefix, InJournal, NextKey,
        LastIdx, IsApplied
  <2> QED
    BY Zenon, <2>2, <2>3
<1> QED
  BY Zenon, <1>1, <1>2, <1>3 DEF DInv, Lossless

\* A commit is the abstract reader's next event.
LEMMA CommitDelivers ==
  ASSUME IInv, LInv, Lossless, faults' = faults, NEW k \in Key, InJournal(k),
         k = NextKey(stored), Commit(k), journal' = journal
  PROVE  Delivery!Apply
<1>1. /\ TypeOK /\ stored \in Key /\ (stored = StartKey \/ InJournal(stored))
      /\ applied \in Seq(Key) /\ CommittedIsPrefix
  BY Zenon DEF IInv, TInv, TypeOK, LInv, CommittedIsPrefix
<1>2. applied' = Append(applied, k) /\ KeyLess(stored, k)
  BY Zenon, <1>1, CommitPrefix
<1>3. Lossless'
  BY Zenon DEF Lossless
<1>4. \A j \in Delivery!Keys(journal) : j \in Key /\ InJournal(j)
  <2> SUFFICES ASSUME NEW j \in Delivery!Keys(journal) PROVE j \in Key /\ InJournal(j)
    BY Zenon
  <2>1. PICK s \in 1 .. Len(journal) : j \in {<<s, i>> : i \in 0 .. journal[s] - 1}
    BY Zenon DEF Delivery!Keys
  <2>2. PICK i \in 0 .. journal[s] - 1 : j = <<s, i>>
    BY Zenon, <2>1
  <2>3. journal[s] \in Nat
    BY SMTT(30), <1>1, <2>1 DEF TypeOK
  <2> QED
    BY <2>2, <2>3 DEF InJournal, Key
<1>5. k \in Delivery!Keys(journal)
  <2>1. k = <<k[1], k[2]>> /\ k[1] \in 1 .. Len(journal) /\ k[2] \in 0 .. journal[k[1]] - 1
    BY DEF InJournal, Key
  <2>2. k \in {<<k[1], i>> : i \in 0 .. journal[k[1]] - 1}
    BY Zenon, <2>1
  <2>3. \E s \in 1 .. Len(journal) : k \in {<<s, i>> : i \in 0 .. journal[s] - 1}
    BY Zenon, <2>1, <2>2
  <2> QED
    BY Zenon, <2>3 DEF Delivery!Keys
<1>6. \A i \in 1 .. Len(applied) : applied[i] # k
  <2> SUFFICES ASSUME NEW i \in 1 .. Len(applied), applied[i] = k PROVE FALSE
    BY Zenon
  <2>1. KeyLeq(k, stored)
    BY Zenon DEF IInv, Positions
  <2> QED
    BY <1>1, <1>2, <2>1 DEF KeyLeq, KeyLess, Key
<1>7. \A j \in Delivery!Keys(journal) :
        Delivery!Before(j, k) => \E i \in 1 .. Len(applied) : applied[i] = j
  <2> SUFFICES ASSUME NEW j \in Delivery!Keys(journal), Delivery!Before(j, k)
               PROVE  \E i \in 1 .. Len(applied) : applied[i] = j
    BY Zenon
  <2>1. j \in Key /\ InJournal(j) /\ KeyLess(j, k)
    BY Zenon, <1>4 DEF Delivery!Before, KeyLess
  <2>2. KeyLeq(j, stored)
    BY Zenon, <1>1, <2>1, NextKeyFacts
  <2> QED
    BY Zenon, <1>1, <2>1, <2>2 DEF CommittedIsPrefix, IsApplied
<1> QED
  BY Zenon, <1>2, <1>3, <1>5, <1>6, <1>7 DEF Delivery!Apply

LEMMA DeliveryStep == DInv /\ [Next]_vars => [Delivery!Next]_(Delivery!vars)
<1> SUFFICES ASSUME DInv, [Next]_vars PROVE Delivery!Next \/ UNCHANGED Delivery!vars
  BY Zenon
<1>1. IInv /\ (Lossless => LInv)
  BY Zenon DEF DInv
<1>2. faults' = faults /\ Lossless' = Lossless
  BY Zenon DEF Next, Consumer, Environment, vars, Start, ReadReset, Read, SkipEntry, EntryGap,
     UnrecoverableGap, ApplyEntry, EndBatch, Ack, FetchPage, PageItem, PageDone, EngineCommand,
     Publish, Republish, Trim, Wipe, Crash, Lossless
<1>3. CASE ~Lossless
  BY Zenon, <1>2, <1>3 DEF Delivery!vars
<1>4. ASSUME journal' = journal, applied' = applied
      PROVE  UNCHANGED Delivery!vars
  BY Zenon, <1>2, <1>4 DEF Delivery!vars
<1>5. CASE Lossless /\ EngineCommand
  <2>1. (\E n \in 1 .. MaxEvents : journal' = Append(journal, n)) /\ applied' = applied
    BY Zenon, <1>5 DEF EngineCommand, dbVars
  <2> QED
    BY Zenon, <1>2, <1>5, <2>1 DEF Delivery!Next, Delivery!Journal
<1>6. CASE Lossless /\ ApplyEntry
  <2>1. PICK e \in batch :
          /\ IsNextEntry(e) /\ ~KeyLeq(e.key, offset) /\ (Applied(e.key) \/ NotApplied(e.key))
    BY Zenon, <1>6 DEF ApplyEntry
  <2>2. journal' = journal /\ pc = "batch"
    BY Zenon, <1>6 DEF ApplyEntry, engineVars
  <2>3. CASE Applied(e.key)
    <3>1. Commit(e.key) /\ e.key \in Key /\ InJournal(e.key) /\ e.key = NextKey(stored)
      BY Zenon, <1>1, <1>6, <2>1, <2>2, <2>3, NextEntryIsNext DEF Applied
    <3>2. Delivery!Apply
      BY Zenon, <1>1, <1>2, <1>6, <2>2, <3>1, CommitDelivers
    <3> QED
      BY Zenon, <3>2 DEF Delivery!Next
  <2>4. CASE NotApplied(e.key)
    <3>1. applied' = applied
      BY Zenon, <1>6, <2>4 DEF NotApplied, Lossless, dbVars
    <3> QED
      BY Zenon, <1>4, <2>2, <3>1
  <2> QED
    BY Zenon, <2>1, <2>3, <2>4
<1>7. CASE Lossless /\ PageItem
  <2>1. PICK k \in page :
          /\ \A j \in page : KeyLeq(k, j)
          /\ \/ UNCHANGED dbVars
             \/ Follows(offset, k) /\ Applied(k)
             \/ NotApplied(k)
    BY Zenon, <1>7 DEF PageItem
  <2>2. journal' = journal /\ pc = "page"
    BY Zenon, <1>7 DEF PageItem, engineVars
  <2>3. CASE Follows(offset, k) /\ Applied(k)
    <3>1. Commit(k) /\ k \in Key /\ InJournal(k) /\ k = NextKey(stored)
      BY Zenon, <1>1, <1>7, <2>1, <2>2, <2>3, PageItemIsNext DEF Applied
    <3>2. Delivery!Apply
      BY Zenon, <1>1, <1>2, <1>7, <2>2, <3>1, CommitDelivers
    <3> QED
      BY Zenon, <3>2 DEF Delivery!Next
  <2>4. CASE UNCHANGED dbVars \/ NotApplied(k)
    <3>1. applied' = applied
      BY Zenon, <1>7, <2>4 DEF NotApplied, Lossless, dbVars
    <3> QED
      BY Zenon, <1>4, <2>2, <3>1
  <2> QED
    BY Zenon, <2>1, <2>3, <2>4
<1>8. ASSUME UNCHANGED dbVars, UNCHANGED journal
      PROVE  UNCHANGED Delivery!vars
  BY Zenon, <1>4, <1>8 DEF dbVars
<1> QED
  BY Zenon, <1>3, <1>5, <1>6, <1>7, <1>8
  DEF Next, Consumer, Environment, vars, engineVars, Start, ReadReset, Read, SkipEntry, EntryGap,
      UnrecoverableGap, EndBatch, Ack, FetchPage, PageDone, Publish, Republish, Trim, Wipe, Crash

\* Exactly once and in order (runOnce, recover and applyOne): as long as
\* nothing takes an event away before it is applied, what the consumer commits
\* - through any number of crashes, republished events, lost acknowledgements
\* and unanswered requests - is at every moment a prefix of the engine's
\* journal, event after event, none twice and none left out.
THEOREM ImplementsDeliveryAlways == Spec => ImplementsDelivery
<1>1. Init => DInv
  BY Zenon, InvInit, LosslessInit DEF DInv
<1>2. Spec => []DInv
  BY <1>1, LosslessStep, PTL DEF Spec
<1>3. Init => Delivery!Init
  BY Zenon DEF Init, Delivery!Init
<1> QED
  BY <1>2, <1>3, DeliveryStep, PTL DEF Spec, ImplementsDelivery, Delivery!Spec

=============================================================================
