-------------------------- MODULE SequencedConsumer --------------------------
(***************************************************************************)
(* The durable reader of one market's engine events that the settlement    *)
(* worker and the trade tape share                                         *)
(* (apps/api/src/services/engine-stream/sequenced-consumer.ts), the Redis  *)
(* consumer-group source it reads (services/settlement/source.ts) and, as  *)
(* its environment, the engine's journal, its publisher and the stream.    *)
(*                                                                         *)
(* An event is named by its key <<seq, idx>>.  Its payload is not          *)
(* modelled: what matters here is which keys are applied, in what order,   *)
(* and which deliveries are acknowledged.                                  *)
(***************************************************************************)
EXTENDS Integers, Sequences, FiniteSets

CONSTANTS
  MaxSeq,      \* bound: commands the engine journals
  MaxEvents,   \* bound: events one command emits
  MaxAdds,     \* bound: XADDs to the stream
  MaxCrashes,  \* bound: process crashes
  BatchSize,   \* COUNT of an XREADGROUP
  PageSize,    \* limit of a re-emission request
  Poison       \* keys of the events that can never be applied

FaultKinds == {"transient", "unreachable", "trim", "wipe", "republish", "ack", "hole"}

ASSUME ConsumerAssumption ==
  /\ MaxSeq \in Nat /\ MaxEvents \in Nat \ {0}
  /\ MaxAdds \in Nat /\ MaxCrashes \in Nat
  /\ BatchSize \in Nat \ {0} /\ PageSize \in Nat \ {0}
  /\ Poison \subseteq Nat \X Nat

VARIABLES
  \* the engine: events per journaled command, and the last key published
  journal, published,
  \* Redis: entries of the stream, next entry id, and the consumer group
  stream, nextId, groupExists, groupLast, pel,
  \* PostgreSQL: the engine_offsets row, and the keys whose effects committed
  stored, applied,
  \* the consumer process: its position in runOnce and its in-memory state
  pc, groupReady, cursor, offset, halted, batch, done, recovered,
  after, page, caller, crashes,
  \* which failures this environment has
  faults

engineVars == <<journal, published>>
redisVars  == <<stream, nextId, groupExists, groupLast, pel>>
dbVars     == <<stored, applied>>
sourceVars == <<groupReady, cursor>>
cycleVars  == <<batch, done, recovered>>
recoverVars == <<after, page, caller>>
vars == <<engineVars, redisVars, dbVars, pc, sourceVars, offset, halted,
          cycleVars, recoverVars, crashes, faults>>

-----------------------------------------------------------------------------
(* Keys *)

StartKey == <<0, 0>>

KeyLess(a, b) == a[1] < b[1] \/ (a[1] = b[1] /\ a[2] < b[2])
KeyLeq(a, b)  == a = b \/ KeyLess(a, b)

\* Mutation: any later sequence is taken for the next one.
FollowsAnyLater(o, k) ==
  IF k[1] = o[1] THEN k[2] = o[2] + 1 ELSE k[1] > o[1] /\ k[2] = 0

\* The key that must come next after `o`, if the stream is contiguous.
Follows(o, k) ==
  IF k[1] = o[1] THEN k[2] = o[2] + 1 ELSE k[1] = o[1] + 1 /\ k[2] = 0

\* The index of the last event of sequence s; sequence 0 is the start key's.
LastIdx(s) == IF s = 0 THEN 0 ELSE journal[s] - 1

\* The key the engine's output really has next after k.
NextKey(k) ==
  IF k[2] < LastIdx(k[1]) THEN <<k[1], k[2] + 1>> ELSE <<k[1] + 1, 0>>

KeysBetween(lo, hi) == UNION {{<<s, i>> : i \in 0 .. journal[s] - 1} : s \in lo .. hi}

\* What re-emission serves of the sequences after a and up to e, if it has
\* lost sequence h (0: none).
Served(a, e, h) == {k \in KeysBetween(a + 1, e) : k[1] # h}

\* A page of re-emitted events after sequence a ends with sequence e: whole
\* sequences, and no more of them than it takes to reach PageSize events.
IsPageEnd(a, e, h) ==
  LET full(n) == Cardinality(Served(a, n, h)) >= PageSize
  IN  /\ full(e) \/ \A f \in e + 1 .. Len(journal) : f = h
      /\ \A f \in a .. e - 1 : ~full(f)

\* The n entries of S with the lowest ids.
FirstById(S, n) == {e \in S : Cardinality({f \in S : f.id < e.id}) < n}

-----------------------------------------------------------------------------
(* Initial state: nothing journaled, the consumer process not yet started. *)

Init ==
  /\ journal = <<>> /\ published = StartKey
  /\ stream = {} /\ nextId = 1
  /\ groupExists = FALSE /\ groupLast = 0 /\ pel = {}
  /\ stored = StartKey /\ applied = <<>>
  /\ pc = "down" /\ groupReady = FALSE /\ cursor = "0"
  /\ offset = StartKey /\ halted = FALSE
  /\ batch = {} /\ done = {} /\ recovered = FALSE
  /\ after = 0 /\ page = {} /\ caller = "idle"
  /\ crashes = 0 /\ faults \in SUBSET FaultKinds

-----------------------------------------------------------------------------
(* The engine and its transport *)

\* A command is journaled; every command emits at least one event.
EngineCommand ==
  /\ Len(journal) < MaxSeq
  /\ \E n \in 1 .. MaxEvents : journal' = Append(journal, n)
  /\ UNCHANGED <<published, redisVars, dbVars, pc, sourceVars, offset, halted,
                 cycleVars, recoverVars, crashes, faults>>

\* One XADD: events go out one at a time in (seq, idx) order.
Publish ==
  /\ nextId <= MaxAdds
  /\ published # <<Len(journal), LastIdx(Len(journal))>>
  /\ published' = NextKey(published)
  /\ stream' = stream \cup {[id |-> nextId, key |-> published']}
  /\ nextId' = nextId + 1
  /\ UNCHANGED <<journal, groupExists, groupLast, pel, dbVars, pc, sourceVars,
                 offset, halted, cycleVars, recoverVars, crashes, faults>>

\* After a failed publish or a restart the engine publishes again from its
\* watermark, which lags: a whole sequence boundary below what went out.
\* (MaxAdds must leave room for everything there is to publish.)
Republish ==
  /\ "republish" \in faults
  /\ \E s \in 0 .. published[1] - 1 :
       /\ nextId + MaxEvents * (MaxSeq - s) <= MaxAdds + 1
       /\ published' = <<s, LastIdx(s)>>
  /\ UNCHANGED <<journal, redisVars, dbVars, pc, sourceVars, offset, halted,
                 cycleVars, recoverVars, crashes, faults>>

\* MAXLEN trimming removes the oldest entry, delivered or not.
Trim ==
  /\ "trim" \in faults
  /\ \E e \in FirstById(stream, 1) : stream' = stream \ {e}
  /\ UNCHANGED <<engineVars, nextId, groupExists, groupLast, pel, dbVars, pc,
                 sourceVars, offset, halted, cycleVars, recoverVars, crashes, faults>>

\* The stream is deleted, and the group with it.
Wipe ==
  /\ "wipe" \in faults
  /\ groupExists \/ stream # {}
  /\ stream' = {} /\ groupExists' = FALSE /\ groupLast' = 0 /\ pel' = {}
  /\ UNCHANGED <<engineVars, nextId, dbVars, pc, sourceVars, offset, halted,
                 cycleVars, recoverVars, crashes, faults>>

-----------------------------------------------------------------------------
(* The consumer process *)

\* Mutation: a restarted source reads only new entries.
StartAtNew ==
  /\ pc = "down"
  /\ pc' = "idle"
  /\ offset' = stored
  /\ groupReady' = FALSE /\ cursor' = ">" /\ halted' = FALSE
  /\ UNCHANGED <<engineVars, redisVars, dbVars, cycleVars, recoverVars, crashes, faults>>

\* init(): the position is the stored offset, else the configured start key.
Start ==
  /\ pc = "down"
  /\ pc' = "idle"
  /\ offset' = stored
  /\ groupReady' = FALSE /\ cursor' = "0" /\ halted' = FALSE
  /\ UNCHANGED <<engineVars, redisVars, dbVars, cycleVars, recoverVars, crashes, faults>>

\* The process dies; only Redis and PostgreSQL remember anything.
Crash ==
  /\ pc # "down"
  /\ crashes < MaxCrashes
  /\ crashes' = crashes + 1
  /\ pc' = "down"
  /\ groupReady' = FALSE /\ cursor' = "0" /\ halted' = FALSE
  /\ offset' = StartKey
  /\ batch' = {} /\ done' = {} /\ recovered' = FALSE
  /\ after' = 0 /\ page' = {} /\ caller' = "idle"
  /\ UNCHANGED <<engineVars, redisVars, dbVars, faults>>

\* Mutation: the first sequence is not special.
StartRecoverUnderflow(from) ==
  /\ pc' = "fetch"
  /\ caller' = from
  /\ after' = offset[1] - 1
  /\ page' = {}

\* recover() asks from the sequence before the offset's.
StartRecover(from) ==
  /\ pc' = "fetch"
  /\ caller' = from
  /\ after' = IF offset[1] > 0 THEN offset[1] - 1 ELSE 0
  /\ page' = {}

\* XREADGROUP answers NOGROUP: the stream or the group has vanished.
ReadReset ==
  /\ pc = "idle" /\ ~halted
  /\ groupReady /\ ~groupExists
  /\ groupReady' = FALSE /\ cursor' = "0"
  /\ StartRecover("idle")
  /\ UNCHANGED <<engineVars, redisVars, dbVars, offset, halted, cycleVars, crashes, faults>>

\* An empty read: recover only if the engine says it is ahead.
OnRead(entries) ==
  IF entries # {}
  THEN /\ batch' = entries /\ done' = {} /\ recovered' = FALSE
       /\ pc' = "batch"
       /\ UNCHANGED recoverVars
  ELSE /\ UNCHANGED cycleVars
       /\ \/ /\ Len(journal) > offset[1]
             /\ StartRecover("idle")
          \/ /\ Len(journal) <= offset[1] \/ "unreachable" \in faults
             /\ UNCHANGED <<pc, recoverVars>>

\* Pending entries first; then, once none is left, new ones.  A pending entry
\* that was trimmed is delivered without fields and dropped by the source.
Read ==
  /\ pc = "idle" /\ ~halted
  /\ groupReady => groupExists
  /\ groupReady' = TRUE /\ groupExists' = TRUE
  /\ LET pending == FirstById(pel, BatchSize)
         new == FirstById({e \in stream : e.id > groupLast}, BatchSize)
     IN IF cursor = "0" /\ pending # {}
        THEN /\ OnRead(pending \cap stream)
             /\ UNCHANGED <<cursor, groupLast, pel>>
        ELSE /\ OnRead(new)
             /\ cursor' = ">"
             /\ pel' = pel \cup new
             /\ IF new = {} THEN UNCHANGED groupLast
                ELSE \E l \in new : groupLast' = l.id /\ \A e \in new : e.id <= l.id
  /\ UNCHANGED <<engineVars, stream, nextId, dbVars, offset, halted, crashes, faults>>

\* Mutation: the offset is advanced in a transaction of its own.
CommitOffsetOnly(k) ==
  /\ k \notin Poison
  /\ stored' = IF KeyLess(stored, k) THEN k ELSE stored
  /\ applied' \in {applied, Append(applied, k)}

\* The transaction that applies k and advances the offset commits.
Commit(k) ==
  /\ k \notin Poison
  /\ stored' = IF KeyLess(stored, k) THEN k ELSE stored
  /\ applied' = IF \E i \in 1 .. Len(applied) : applied[i] = k
                THEN applied ELSE Append(applied, k)

\* applyOne(k) returns true.
Applied(k) ==
  /\ Commit(k)
  /\ offset' = k
  /\ UNCHANGED halted

\* Mutation: an event that cannot be applied is parked and passed.
NotAppliedParks(k) ==
  /\ k \in Poison
  /\ stored' = k /\ offset' = k
  /\ UNCHANGED <<applied, halted>>

\* applyOne(k) returns false: the event can never be applied, or a transient
\* failure outlasted its retries - perhaps after the commit went through.
NotApplied(k) ==
  \/ /\ k \in Poison
     /\ halted' = TRUE
     /\ UNCHANGED <<dbVars, offset>>
  \/ /\ "transient" \in faults
     /\ UNCHANGED <<dbVars, offset, halted>>
  \/ /\ "transient" \in faults
     /\ Commit(k)
     /\ UNCHANGED <<offset, halted>>

\* The batch is worked through in key order.
IsNextEntry(e) ==
  \A f \in batch : KeyLess(e.key, f.key) \/ (e.key = f.key /\ e.id <= f.id)

EntryDone(e) ==
  /\ done' = done \cup {e}
  /\ batch' = batch \ {e}
  /\ recovered' = FALSE

\* Already applied: redelivered, republished or recovered.
SkipEntry ==
  /\ pc = "batch"
  /\ \E e \in batch : IsNextEntry(e) /\ KeyLeq(e.key, offset) /\ EntryDone(e)
  /\ UNCHANGED <<engineVars, redisVars, dbVars, pc, sourceVars, offset, halted,
                 recoverVars, crashes, faults>>

IsGap(e) == IsNextEntry(e) /\ ~KeyLeq(e.key, offset) /\ ~Follows(offset, e.key)

\* A gap in the stream: the engine's journal has what is missing.
EntryGap ==
  /\ pc = "batch" /\ ~recovered
  /\ \E e \in batch : IsGap(e)
  /\ StartRecover("batch")
  /\ UNCHANGED <<engineVars, redisVars, dbVars, sourceVars, offset, halted,
                 cycleVars, crashes, faults>>

\* Recovery did not close the gap.
UnrecoverableGap ==
  /\ pc = "batch" /\ recovered
  /\ \E e \in batch : IsGap(e)
  /\ halted' = TRUE
  /\ pc' = "ack"
  /\ UNCHANGED <<engineVars, redisVars, dbVars, sourceVars, offset, cycleVars,
                 recoverVars, crashes, faults>>

\* Mutation: an entry is acknowledged although applying it failed.
ApplyEntryAcksFailed ==
  /\ pc = "batch"
  /\ \E e \in batch :
       /\ IsNextEntry(e) /\ ~KeyLeq(e.key, offset) /\ Follows(offset, e.key)
       /\ \/ Applied(e.key) /\ EntryDone(e) /\ UNCHANGED pc
          \/ NotApplied(e.key) /\ pc' = "ack" /\ EntryDone(e)
  /\ UNCHANGED <<engineVars, redisVars, sourceVars, recoverVars, crashes, faults>>

ApplyEntry ==
  /\ pc = "batch"
  /\ \E e \in batch :
       /\ IsNextEntry(e) /\ ~KeyLeq(e.key, offset) /\ Follows(offset, e.key)
       /\ \/ Applied(e.key) /\ EntryDone(e) /\ UNCHANGED pc
          \/ NotApplied(e.key) /\ pc' = "ack" /\ UNCHANGED cycleVars
  /\ UNCHANGED <<engineVars, redisVars, sourceVars, recoverVars, crashes, faults>>

EndBatch ==
  /\ pc = "batch" /\ batch = {}
  /\ pc' = "ack"
  /\ UNCHANGED <<engineVars, redisVars, dbVars, sourceVars, offset, halted,
                 cycleVars, recoverVars, crashes, faults>>

\* After the commits that cover them.  A failed XACK ends the cycle.
Ack ==
  /\ pc = "ack"
  /\ pc' = "idle"
  /\ \/ pel' = pel \ done
     \/ "ack" \in faults /\ UNCHANGED pel
  /\ batch' = {} /\ done' = {} /\ recovered' = FALSE
  /\ UNCHANGED <<engineVars, stream, nextId, groupExists, groupLast, dbVars,
                 sourceVars, offset, halted, recoverVars, crashes, faults>>

RecoverReturns(ok) ==
  /\ pc' = IF caller = "idle" THEN "idle" ELSE IF ok THEN "batch" ELSE "ack"
  /\ recovered' = (caller = "batch" /\ ok)
  /\ UNCHANGED <<batch, done>>
  /\ after' = 0 /\ page' = {} /\ caller' = "idle"

\* One page of GET /v1/events; an empty one ends the recovery.
FetchPage ==
  /\ pc = "fetch"
  /\ \/ \E h \in {0} \cup {f \in after + 1 .. Len(journal) : "hole" \in faults} :
          \/ \E e \in (after + 1 .. Len(journal)) \ {h} :
               /\ IsPageEnd(after, e, h)
               /\ page' = Served(after, e, h)
               /\ after' = e
               /\ pc' = "page"
               /\ UNCHANGED <<cycleVars, caller>>
          \/ (after + 1 .. Len(journal)) \ {h} = {} /\ RecoverReturns(TRUE)
     \/ "unreachable" \in faults /\ RecoverReturns(FALSE)
  /\ UNCHANGED <<engineVars, redisVars, dbVars, sourceVars, offset, halted, crashes, faults>>

\* One event of the page, in key order.
PageItem ==
  /\ pc = "page"
  /\ \E k \in page :
     /\ \A j \in page : KeyLeq(k, j)
     /\ \/ /\ KeyLeq(k, offset)
           /\ page' = page \ {k}
           /\ UNCHANGED <<dbVars, offset, halted, pc, cycleVars, after, caller>>
        \/ /\ ~KeyLeq(k, offset) /\ ~Follows(offset, k)
           /\ halted' = TRUE
           /\ RecoverReturns(FALSE)
           /\ UNCHANGED <<dbVars, offset>>
        \/ /\ ~KeyLeq(k, offset) /\ Follows(offset, k)
           /\ \/ /\ Applied(k)
                 /\ page' = page \ {k}
                 /\ UNCHANGED <<pc, cycleVars, after, caller>>
              \/ NotApplied(k) /\ RecoverReturns(FALSE)
  /\ UNCHANGED <<engineVars, redisVars, sourceVars, crashes, faults>>

PageDone ==
  /\ pc = "page" /\ page = {}
  /\ pc' = "fetch"
  /\ UNCHANGED <<engineVars, redisVars, dbVars, sourceVars, offset, halted,
                 cycleVars, recoverVars, crashes, faults>>

-----------------------------------------------------------------------------
Consumer ==
  \/ Start \/ ReadReset \/ Read
  \/ SkipEntry \/ EntryGap \/ UnrecoverableGap \/ ApplyEntry \/ EndBatch \/ Ack
  \/ FetchPage \/ PageItem \/ PageDone

Environment == EngineCommand \/ Publish \/ Republish \/ Trim \/ Wipe \/ Crash

Next == Consumer \/ Environment

Spec == Init /\ [][Next]_vars

\* The reader's loop runs for ever, a crashed process is restarted, and not
\* every acknowledgement is lost.
ConsumerFair == WF_vars(Consumer) /\ SF_vars(Ack /\ pel' = pel \ done)

\* The engine finishes what it publishes.
PublisherFair == WF_vars(Publish)

FairSpec == Spec /\ ConsumerFair /\ PublisherFair

-----------------------------------------------------------------------------
(* Properties *)

Key == Nat \X Nat
Entry == [id : Nat, key : Key]

\* Type invariant.
TypeOK ==
  /\ journal \in Seq(Nat \ {0}) /\ published \in Key
  /\ stream \subseteq Entry /\ nextId \in Nat
  /\ groupExists \in BOOLEAN /\ groupLast \in Nat /\ pel \subseteq Entry
  /\ stored \in Key /\ applied \in Seq(Key)
  /\ pc \in {"down", "idle", "batch", "fetch", "page", "ack"}
  /\ groupReady \in BOOLEAN /\ cursor \in {"0", ">"}
  /\ offset \in Key /\ halted \in BOOLEAN
  /\ batch \subseteq Entry /\ done \subseteq Entry /\ recovered \in BOOLEAN
  /\ after \in Nat /\ page \subseteq Key /\ caller \in {"idle", "batch"}
  /\ crashes \in Nat /\ faults \subseteq FaultKinds

\* Whatever was acknowledged has been applied: an entry the group has
\* delivered and no longer holds as pending is at or below the stored offset,
\* so a crash after the XACK loses nothing ("only after that commits,
\* acknowledge it").
AckedIsCommitted ==
  \A e \in stream : e.id <= groupLast /\ e \notin pel => KeyLeq(e.key, stored)

\* No whole command is ever passed over: an event is applied only after the
\* one before it in its sequence or, if it is the first of its sequence, after
\* some event of the sequence before - whatever fails.
NoSequenceSkipped ==
  \A i \in 1 .. Len(applied) :
    \/ applied[i] = <<1, 0>>
    \/ /\ applied[i][2] = 0
       /\ \E j \in 1 .. i - 1 : applied[j][1] = applied[i][1] - 1
    \/ \E j \in 1 .. i - 1 : applied[j] = <<applied[i][1], applied[i][2] - 1>>

\* Whatever fails, nothing is forgotten before it is applied: neither an entry
\* of the stream by an acknowledgement nor a whole command by the offset
\* (runOnce and applyOne in sequenced-consumer.ts).
NothingDropped == AckedIsCommitted /\ NoSequenceSkipped

\* "Crash anywhere and nothing is lost or doubled": the committed effects are
\* exactly the engine's events in order, with none left out.
NothingLost ==
  \A i \in 1 .. Len(applied) :
    applied[i] = IF i = 1 THEN NextKey(StartKey) ELSE NextKey(applied[i - 1])

\* Nothing here takes an event away before it is applied: neither the stream
\* nor re-emission loses one, and no attempt to apply one is given up.
Lossless == faults \cap {"transient", "trim", "wipe", "hole"} = {}

\* What the consumer commits in such an environment.
Delivery == INSTANCE InOrderDelivery WITH
  journal <- IF Lossless THEN journal ELSE <<>>,
  applied <- IF Lossless THEN applied ELSE <<>>

\* Through crashes, republishing, lost acknowledgements and an engine that
\* does not answer, the consumer is an exactly-once in-order reader of the
\* journal: what it commits implements InOrderDelivery (runOnce and recover in
\* sequenced-consumer.ts).
ImplementsDelivery == Delivery!Spec

\* An event that cannot be applied is not skipped, not parked, and the stored
\* offset does not pass it.
PoisonNotPassed ==
  \A k \in Poison \cap KeysBetween(1, Len(journal)) : KeyLess(stored, k)

\* The stored offset never moves back, and never moves without its event's
\* effects being committed in the same step.
OffsetMovesWithWork ==
  [][stored' # stored => KeyLess(stored, stored') /\ applied' = Append(applied, stored')]_vars

\* With no more than crashes, republishing and lost acknowledgements every
\* event of every journaled command is eventually applied, unless one that can
\* never be applied is in the way.
EverythingApplied ==
  faults \subseteq {"republish", "ack"} =>
    \A s \in 1 .. MaxSeq :
      (Len(journal) >= s) ~> /\ Len(journal) >= s
                             /\ \/ Poison \cap KeysBetween(1, s) # {}
                                \/ KeyLeq(<<s, LastIdx(s)>>, stored)

=============================================================================
