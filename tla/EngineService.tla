---------------------------- MODULE EngineService ----------------------------
(***************************************************************************)
(* The durable side of the matching engine: every command is journaled,    *)
(* matched and published to the stream before its caller hears of it.      *)
(*                                                                         *)
(* What a command does to the book is left to MatchingEngine; here it is a *)
(* number of events, the same each time the journal is replayed.  An event *)
(* is its key <<seq, idx>>.  Two requests can be on their way at once: one *)
(* holding the runtime lock and waiting for the egress lock, one holding   *)
(* the egress lock and publishing.                                         *)
(***************************************************************************)
EXTENDS Integers, Sequences, FiniteSets

CONSTANTS
  MaxSeq,         \* bound: commands
  MaxEvents,      \* bound: events of one command
  MaxFailures,    \* bound: crashes and failed operations
  SnapshotEvery,  \* snapshot_every_n
  SyncEvery,      \* watermark_sync_every
  RingCapacity    \* event_ring_capacity

\* Configuration accepts only positive cadences and capacities, and the ring
\* holds far more than the events of one command (50 000 by default).
ASSUME BoundsAssumption ==
  /\ MaxSeq \in Nat /\ MaxEvents \in Nat \ {0} /\ MaxFailures \in Nat
  /\ SnapshotEvery \in Nat \ {0} /\ SyncEvery \in Nat \ {0}
  /\ RingCapacity \in Nat /\ RingCapacity >= MaxEvents

VARIABLES
  journal,    \* journal.wal: the kind and the number of events of each command
  snap,       \* last_seq of the snapshot file, 0 while there is none
  wmDisk,     \* published.watermark
  up,         \* the process: down, boot (republishing) or serving
  lastSnap,   \* Runtime.last_snapshot_seq
  waiting,    \* sequence of the request holding the runtime lock, 0: none
  out,        \* holder of the egress lock: its sequence, its stage and the
              \* events of the publish it is in
  ring,       \* EventRing.events
  lookup,     \* sequences of the placements the lookup index holds
  wm,         \* Watermark.value
  sinceSync,  \* Watermark.since_sync
  stream,     \* events ever added to the stream
  newest,     \* key of the newest stream entry
  answered,   \* sequences whose request returned success
  failures

diskVars == <<journal, snap, wmDisk>>
memVars == <<up, lastSnap, waiting, out, ring, lookup, wm, sinceSync>>
streamVars == <<stream, newest>>
vars == <<diskVars, memVars, streamVars, answered, failures>>

Kinds == {"place", "other"}
Free == [seq |-> 0, stage |-> "free", todo |-> {}]

Ev(s) == {<<s, i>> : i \in 0 .. journal[s].n - 1}
EvBetween(lo, hi) == UNION {Ev(s) : s \in lo .. hi}

Before(a, b) == a[1] < b[1] \/ (a[1] = b[1] /\ a[2] < b[2])

\* Something goes wrong.
Failure == failures < MaxFailures /\ failures' = failures + 1

Init ==
  /\ journal = <<>> /\ snap = 0 /\ wmDisk = 0
  /\ up = "down" /\ lastSnap = 0 /\ waiting = 0 /\ out = Free
  /\ ring = {} /\ lookup = {} /\ wm = 0 /\ sinceSync = 0
  /\ stream = {} /\ newest = <<0, 0>> /\ answered = {} /\ failures = 0

-----------------------------------------------------------------------------
\* A request: journal, match, snapshot on cadence, publish.

\* Under the runtime lock the command gets the next sequence, is written to the
\* journal, synced and matched.
Journaled ==
  /\ up = "serving" /\ waiting = 0 /\ Len(journal) < MaxSeq
  /\ \E kind \in Kinds, n \in 1 .. MaxEvents :
       journal' = Append(journal, [kind |-> kind, n |-> n])
  /\ UNCHANGED <<wmDisk, up, out, ring, lookup, wm, sinceSync, streamVars, answered>>

SnapshotDue == Len(journal) + 1 - lastSnap >= SnapshotEvery

\* submit: on cadence the book is written out, and the request goes on to wait
\* for the egress lock.
Submit ==
  /\ Journaled
  /\ waiting' = Len(journal) + 1
  /\ IF SnapshotDue
     THEN snap' = Len(journal) + 1 /\ lastSnap' = Len(journal) + 1
     ELSE UNCHANGED <<snap, lastSnap>>
  /\ UNCHANGED failures

\* The snapshot cannot be written, and its error ends the request of a command
\* that is journaled and matched.
SnapshotFails ==
  /\ Journaled
  /\ SnapshotDue
  /\ Failure
  /\ UNCHANGED <<waiting, snap, lastSnap>>

\* Hand over hand: the egress lock is taken before the runtime lock is let go.
TakeEgress ==
  /\ up = "serving" /\ waiting # 0 /\ out = Free
  /\ out' = [seq |-> waiting, stage |-> "record", todo |-> {}]
  /\ waiting' = 0
  /\ UNCHANGED <<diskVars, up, lastSnap, ring, lookup, wm, sinceSync,
                 streamVars, answered, failures>>

\* A mutation: single events are evicted, not whole sequences.
KeptByEvent(s) ==
  {e \in ring : Cardinality({f \in ring : ~Before(f, e)}) + journal[s].n <= RingCapacity}

\* EventRing.record evicts whole sequences, oldest first, until the events of
\* the new command fit.
Kept(s) ==
  {e \in ring : Cardinality({f \in ring : f[1] >= e[1]}) + journal[s].n <= RingCapacity}
Recorded(s) == Kept(s) \cup Ev(s)

\* A mutation: a ring that does not reach back far enough is used all the same.
OutputsFromAnyRing(r, a) ==
  IF r # {} THEN {e \in r : e[1] > a} ELSE EvBetween(a + 1, Len(journal))

\* Everything after sequence a: from the ring r when it reaches back that far,
\* from the journal otherwise.
OutputsFrom(r, a) ==
  IF \E e \in r : e[1] <= a + 1
  THEN {e \in r : e[1] > a}
  ELSE EvBetween(a + 1, Len(journal))

\* A mutation: what an earlier publish left behind is forgotten.
GapForgotten(r, seq) == {}

\* The events below seq that an earlier publish did not confirm.
Gap(r, seq) ==
  IF wm + 1 < seq THEN {e \in OutputsFrom(r, wm) : e[1] < seq} ELSE {}

\* Lookup index, ring, and then the gap goes out before the command itself.
Record ==
  /\ up = "serving" /\ out.stage = "record"
  /\ LET s == out.seq
         r == Recorded(s)
     IN  /\ lookup' = IF journal[s].kind = "place" THEN lookup \cup {s} ELSE lookup
         /\ ring' = r
         /\ out' = IF Gap(r, s) # {}
                   THEN [out EXCEPT !.stage = "gap", !.todo = Gap(r, s)]
                   ELSE [out EXCEPT !.stage = "own", !.todo = Ev(s)]
  /\ UNCHANGED <<diskVars, up, lastSnap, waiting, wm, sinceSync, streamVars,
                 answered, failures>>

Publishing == out.stage \in {"gap", "own", "boot"}

\* A mutation: events go out in any order.
XAddAnyOrder ==
  /\ Publishing
  /\ \E e \in out.todo :
       /\ stream' = stream \cup {e}
       /\ newest' = e
       /\ out' = [out EXCEPT !.todo = @ \ {e}]
  /\ UNCHANGED <<diskVars, up, lastSnap, waiting, ring, lookup, wm, sinceSync,
                 answered, failures>>

\* One XADD.
XAdd ==
  /\ Publishing
  /\ \E e \in out.todo :
       /\ \A f \in out.todo \ {e} : Before(e, f)
       /\ stream' = stream \cup {e}
       /\ newest' = e
       /\ out' = [out EXCEPT !.todo = @ \ {e}]
  /\ UNCHANGED <<diskVars, up, lastSnap, waiting, ring, lookup, wm, sinceSync,
                 answered, failures>>

\* A mutation: the watermark names the next sequence instead of the last.
ConfirmsNext == out.seq + 1

\* The sequence a finished publish confirms.
Confirms == IF out.stage = "gap" THEN out.seq - 1 ELSE out.seq

\* Watermark.advance_to: never back, to disk every SyncEvery-th time.
Advance ==
  IF Confirms <= wm
  THEN UNCHANGED <<wm, wmDisk, sinceSync>>
  ELSE /\ wm' = Confirms
       /\ IF sinceSync + 1 >= SyncEvery
          THEN wmDisk' = Confirms /\ sinceSync' = 0
          ELSE sinceSync' = sinceSync + 1 /\ UNCHANGED wmDisk

\* The gap is out: the command's own events follow.
GapPublished ==
  /\ out.stage = "gap" /\ out.todo = {}
  /\ Advance
  /\ out' = [out EXCEPT !.stage = "own", !.todo = Ev(out.seq)]
  /\ UNCHANGED <<journal, snap, up, lastSnap, waiting, ring, lookup, streamVars,
                 answered, failures>>

\* The command's events are out: the caller is answered.
OwnPublished ==
  /\ out.stage = "own" /\ out.todo = {}
  /\ Advance
  /\ answered' = answered \cup {out.seq}
  /\ out' = Free
  /\ UNCHANGED <<journal, snap, up, lastSnap, waiting, ring, lookup, streamVars, failures>>

\* A publish fails, or the watermark cannot be written after it: the request
\* ends with an error that leaves its outcome open.
RequestFails ==
  /\ out.stage \in {"gap", "own"}
  /\ Failure
  /\ out' = Free
  /\ \/ UNCHANGED <<wm, sinceSync>>
     \/ /\ out.todo = {} /\ Confirms > wm /\ sinceSync + 1 >= SyncEvery
        /\ wm' = Confirms /\ sinceSync' = sinceSync + 1
  /\ UNCHANGED <<diskVars, up, lastSnap, waiting, ring, lookup, streamVars, answered>>

\* The caller goes away and its request is dropped at the await it is at.
Drop ==
  /\ up = "serving"
  /\ Failure
  /\ \/ waiting # 0 /\ waiting' = 0 /\ UNCHANGED out
     \/ out.stage \in {"record", "gap", "own"} /\ out' = Free /\ UNCHANGED waiting
  /\ UNCHANGED <<diskVars, up, lastSnap, ring, lookup, wm, sinceSync, streamVars, answered>>

-----------------------------------------------------------------------------
\* The process.

\* Memory is gone; the disk and the stream stay.
Stop ==
  /\ up' = "down" /\ lastSnap' = 0 /\ waiting' = 0 /\ out' = Free
  /\ ring' = {} /\ lookup' = {} /\ wm' = 0 /\ sinceSync' = 0

\* A crash, or a boot that cannot republish: the process exits.
Crash ==
  /\ up # "down"
  /\ Failure
  /\ Stop
  /\ UNCHANGED <<diskVars, streamVars, answered>>

\* A clean stop drains the requests and flushes the watermark.
Shutdown ==
  /\ up = "serving" /\ waiting = 0 /\ out = Free
  /\ wmDisk' = wm
  /\ Stop
  /\ UNCHANGED <<journal, snap, streamVars, answered, failures>>

\* A mutation: the lookup index is rebuilt from the journal's tail only.
RecoverTailIndex ==
  /\ up = "down"
  /\ lastSnap' \in {snap, 0}
  /\ wm' = wmDisk
  /\ lookup' = {s \in snap + 1 .. Len(journal) : journal[s].kind = "place"}
  /\ IF wmDisk < Len(journal)
     THEN /\ up' = "boot"
          /\ out' = [seq |-> Len(journal), stage |-> "boot",
                     todo |-> EvBetween(wmDisk + 1, Len(journal))]
     ELSE up' = "serving" /\ UNCHANGED out
  /\ UNCHANGED <<diskVars, waiting, ring, sinceSync, streamVars, answered, failures>>

\* Snapshot (a damaged one counts as none), watermark and lookup index are
\* read back; what the watermark does not confirm is to be published again.
Recover ==
  /\ up = "down"
  /\ lastSnap' \in {snap, 0}
  /\ wm' = wmDisk
  /\ lookup' = {s \in 1 .. Len(journal) : journal[s].kind = "place"}
  /\ IF wmDisk < Len(journal)
     THEN /\ up' = "boot"
          /\ out' = [seq |-> Len(journal), stage |-> "boot",
                     todo |-> EvBetween(wmDisk + 1, Len(journal))]
     ELSE up' = "serving" /\ UNCHANGED out
  /\ UNCHANGED <<diskVars, waiting, ring, sinceSync, streamVars, answered, failures>>

\* republish_gap is done: the watermark is flushed and the engine serves.
BootPublished ==
  /\ out.stage = "boot" /\ out.todo = {}
  /\ wm' = out.seq /\ wmDisk' = out.seq /\ sinceSync' = 0
  /\ up' = "serving" /\ out' = Free
  /\ UNCHANGED <<journal, snap, lastSnap, waiting, ring, lookup, streamVars,
                 answered, failures>>

Next ==
  \/ Submit \/ TakeEgress \/ Record \/ XAdd
  \/ GapPublished \/ OwnPublished \/ RequestFails
  \/ Crash \/ Shutdown \/ Recover \/ BootPublished

Spec == Init /\ [][Next]_vars

\* A request may also end between its journal record and its ring record.
LossyNext == Next \/ SnapshotFails \/ Drop

LossySpec == Init /\ [][LossyNext]_vars

-----------------------------------------------------------------------------
\* Properties.

Key == (0 .. MaxSeq) \X (0 .. MaxEvents)

\* Every variable has its type: the disk, the process's memory and the
\* egress stage are as the structs of runtime.rs, egress.rs and lookup.rs.
TypeOK ==
  /\ journal \in Seq([kind : Kinds, n : 1 .. MaxEvents]) /\ Len(journal) <= MaxSeq
  /\ snap \in 0 .. Len(journal) /\ wmDisk \in 0 .. Len(journal)
  /\ up \in {"down", "boot", "serving"}
  /\ lastSnap \in 0 .. Len(journal) /\ waiting \in 0 .. Len(journal)
  /\ out \in [seq : 0 .. Len(journal), stage : {"free", "record", "gap", "own", "boot"},
              todo : SUBSET Key]
  /\ ring \subseteq Key /\ lookup \subseteq 1 .. Len(journal)
  /\ wm \in 0 .. Len(journal) /\ sinceSync \in Nat
  /\ stream \subseteq Key /\ newest \in Key
  /\ answered \subseteq 1 .. Len(journal) /\ failures \in 0 .. MaxFailures

\* The watermark may lag the stream and never leads it: every event of every
\* command it confirms, in memory or on disk, is in the stream.  Nothing is
\* ever republished below it, so an event it passed over would be lost.
WatermarkNeverLeads ==
  EvBetween(1, wm) \cup EvBetween(1, wmDisk) \subseteq stream

\* A successful return means the events are in the stream, and so are those of
\* every earlier command, whatever happened to its own publish.
AnsweredIsPublished ==
  \A s \in answered : EvBetween(1, s) \subseteq stream

\* A command still between its journal record and its ring record.
InFlight(s) == s = waiting \/ (out.stage = "record" /\ s = out.seq)

\* Re-emission leaves no hole: asked for what follows any sequence, the engine
\* serves all events of every journaled command, those whose publish failed
\* included, that is not still on its way into the ring.
ReEmissionHasNoHole ==
  up = "serving" =>
    \A a \in 0 .. Len(journal), s \in 1 .. Len(journal) :
      s > a /\ ~InFlight(s) => Ev(s) \subseteq OutputsFrom(ring, a)

\* The sweeper's question is answered from the journal: a journaled placement
\* is found by the lookup even if publishing it failed.
PlacementsAreFound ==
  up = "serving" =>
    \A s \in 1 .. Len(journal) :
      journal[s].kind = "place" /\ ~InFlight(s) => s \in lookup

\* What was confirmed, by the watermark or to a caller, is in the stream
\* (Service::submit, Watermark::advance_to).
ConfirmedIsPublished == WatermarkNeverLeads /\ AnsweredIsPublished

\* What was journaled is served: its events by re-emission and its placements
\* by the lookup (EventRing::since, OrderIndex).
JournalIsServed == ReEmissionHasNoHole /\ PlacementsAreFound

Stream == INSTANCE EngineStream WITH
  journal <- [s \in 1 .. Len(journal) |-> journal[s].n],
  last <- newest

\* Through crashes, failed publishes and restarts the stream only ever moves on
\* by one event or back to the start of a published command: the environment
\* that SequencedConsumer is verified against (Service::submit, Service::boot).
ImplementsStream == Stream!Spec

=============================================================================
