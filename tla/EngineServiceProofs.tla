------------------------- MODULE EngineServiceProofs -------------------------
(***************************************************************************)
(* Proofs about EngineService.                                             *)
(*                                                                         *)
(* The locks hand a request over in order, so at most the last two journal *)
(* records are missing from the ring (Locks).  A ring that holds an event  *)
(* holds everything recorded since (RingWhole), so the gap taken from it   *)
(* is complete, and whatever a publish is about to confirm is in the       *)
(* stream or still in its hands (PendingCovers).  The watermark, and the   *)
(* answer, follow.                                                         *)
(***************************************************************************)
EXTENDS EngineService, FiniteSetTheorems, TLAPS

\* Who holds which lock, and for which sequence.
Locks ==
  /\ up = "boot" <=> out.stage = "boot"
  /\ up # "serving" => waiting = 0
  /\ up = "down" => out = Free /\ ring = {} /\ wm = 0
  /\ out.stage = "free" => out = Free
  /\ waiting # 0 => waiting = Len(journal)
  /\ out.stage = "boot" => out.seq = Len(journal) /\ out.seq >= 1 /\ ring = {}
  /\ out.stage \in {"record", "gap", "own"} =>
       out.seq >= 1 /\ out.seq = IF waiting = 0 THEN Len(journal) ELSE Len(journal) - 1

\* From its oldest event on, the ring has all of every recorded command.
RingWhole ==
  \A e \in ring, s \in 1 .. Len(journal) :
    e[1] <= s /\ ~InFlight(s) => Ev(s) \subseteq ring

\* What a publish is about to confirm is out, or is in its hands.
PendingCovers ==
  Publishing => \A s \in 1 .. Confirms : Ev(s) \subseteq stream \cup out.todo

ConfirmedInStream ==
  /\ \A s \in 1 .. wm : Ev(s) \subseteq stream
  /\ \A s \in 1 .. wmDisk : Ev(s) \subseteq stream

AnsweredInStream == \A s \in answered : \A t \in 1 .. s : Ev(t) \subseteq stream

IndexComplete ==
  up # "down" =>
    \A s \in 1 .. Len(journal) :
      journal[s].kind = "place" /\ ~InFlight(s) => s \in lookup

TInv == TypeOK /\ Locks

IInv ==
  /\ TInv
  /\ RingWhole /\ PendingCovers /\ ConfirmedInStream /\ AnsweredInStream
  /\ IndexComplete

-----------------------------------------------------------------------------
(* Events and the journal. *)

LEMMA ElementType ==
  ASSUME NEW S, NEW q \in Seq(S), NEW i \in 1 .. Len(q)
  PROVE  q[i] \in S
OBVIOUS

\* The events of a journaled command are keys of its sequence, at least one.
LEMMA EvFacts ==
  ASSUME TypeOK, NEW s \in 1 .. Len(journal)
  PROVE  /\ journal[s].n \in 1 .. MaxEvents /\ s \in Nat
         /\ Ev(s) \subseteq Key
         /\ \A e \in Ev(s) : e[1] = s
         /\ <<s, 0>> \in Ev(s)
<1>a. journal \in Seq([kind : Kinds, n : 1 .. MaxEvents]) /\ Len(journal) <= MaxSeq
  BY Zenon DEF TypeOK
<1>b. journal[s] \in [kind : Kinds, n : 1 .. MaxEvents]
  BY Zenon, <1>a, ElementType
<1>1. journal[s].n \in 1 .. MaxEvents /\ s \in 0 .. MaxSeq /\ s \in Nat
  BY <1>a, <1>b, BoundsAssumption
<1>2. Ev(s) \subseteq Key
  BY <1>1, BoundsAssumption DEF Ev, Key
<1>3. \A e \in Ev(s) : e[1] = s
  BY DEF Ev
<1>4. 0 \in 0 .. journal[s].n - 1
  BY <1>1, BoundsAssumption
<1> QED
  BY Zenon, <1>1, <1>2, <1>3, <1>4 DEF Ev

\* So are those of a range of commands.
LEMMA EvBetweenFacts ==
  ASSUME TypeOK, NEW lo \in Nat \ {0}, NEW hi \in 0 .. Len(journal)
  PROVE  /\ EvBetween(lo, hi) \subseteq Key
         /\ \A s \in lo .. hi : s \in 1 .. Len(journal) /\ Ev(s) \subseteq EvBetween(lo, hi)
<1>1. \A s \in lo .. hi : s \in 1 .. Len(journal)
  BY DEF TypeOK
<1>2. \A s \in lo .. hi : Ev(s) \subseteq Key
  BY Zenon, <1>1, EvFacts
<1> QED
  BY Zenon, <1>1, <1>2 DEF EvBetween

\* A new command leaves the earlier ones as they are.
LEMMA JournalGrows ==
  ASSUME TypeOK, Journaled
  PROVE  /\ journal' \in Seq([kind : Kinds, n : 1 .. MaxEvents])
         /\ Len(journal') = Len(journal) + 1 /\ Len(journal') <= MaxSeq
         /\ Len(journal) \in Nat
         /\ \A s \in 1 .. Len(journal) : journal'[s] = journal[s] /\ Ev(s)' = Ev(s)
<1>1. PICK kind \in Kinds, n \in 1 .. MaxEvents :
        journal' = Append(journal, [kind |-> kind, n |-> n])
  BY Zenon DEF Journaled
<1>2. /\ journal' \in Seq([kind : Kinds, n : 1 .. MaxEvents])
      /\ Len(journal') = Len(journal) + 1 /\ Len(journal) \in Nat
      /\ \A s \in 1 .. Len(journal) : journal'[s] = journal[s]
  BY <1>1 DEF TypeOK
<1>3. Len(journal') <= MaxSeq
  BY <1>2, BoundsAssumption DEF Journaled
<1> QED
  BY Zenon, <1>2, <1>3 DEF Ev

-----------------------------------------------------------------------------
(* Types and locks. *)

LEMMA TypeInit == Init => TInv
BY BoundsAssumption DEF Init, TInv, TypeOK, Locks, Free, Key

LEMMA SubmitTypes == TInv /\ Submit => TInv'
<1> SUFFICES ASSUME TInv, Submit PROVE TInv'
  BY Zenon
<1>1. TypeOK /\ Journaled
  BY Zenon DEF TInv, Submit
<1> DEFINE n == Len(journal)
<1>2. /\ journal' \in Seq([kind : Kinds, n : 1 .. MaxEvents])
      /\ Len(journal') = n + 1 /\ Len(journal') <= MaxSeq /\ n \in Nat
  BY Zenon, <1>1, JournalGrows
<1>3. TypeOK'
  <2>1. /\ snap' \in 0 .. n + 1 /\ lastSnap' \in 0 .. n + 1 /\ waiting' \in 0 .. n + 1
        /\ wmDisk' \in 0 .. n + 1 /\ wm' \in 0 .. n + 1
    BY <1>1, <1>2 DEF TypeOK, Submit, Journaled
  <2>2. /\ out' \in [seq : 0 .. n + 1, stage : {"free", "record", "gap", "own", "boot"},
                     todo : SUBSET Key]
        /\ lookup' \subseteq 1 .. n + 1 /\ answered' \subseteq 1 .. n + 1
    BY <1>1, <1>2 DEF TypeOK, Submit, Journaled
  <2>3. /\ up' \in {"down", "boot", "serving"} /\ ring' \subseteq Key /\ sinceSync' \in Nat
        /\ stream' \subseteq Key /\ newest' \in Key /\ failures' \in 0 .. MaxFailures
    BY Zenon, <1>1 DEF TypeOK, Submit, Journaled, streamVars
  <2> QED
    BY SMTT(30), <1>2, <2>1, <2>2, <2>3 DEF TypeOK, Key
<1>4. /\ up = "serving" /\ up' = up /\ waiting = 0 /\ waiting' = n + 1 /\ out' = out
      /\ Locks
  BY Zenon DEF TInv, Submit, Journaled
<1>5. Locks'
  BY <1>2, <1>4 DEF Locks, Free
<1> QED
  BY Zenon, <1>3, <1>5 DEF TInv

LEMMA TakeEgressTypes == TInv /\ TakeEgress => TInv'
<1> SUFFICES ASSUME TInv, TakeEgress PROVE TInv'
  BY Zenon
<1>1. TypeOK'
  BY SMTT(30) DEF TInv, TypeOK, TakeEgress, diskVars, streamVars, Key
<1>2. Locks'
  BY DEF TInv, TypeOK, Locks, TakeEgress, Free, diskVars, streamVars
<1> QED
  BY Zenon, <1>1, <1>2 DEF TInv

\* The gap, like the ring it may come from, holds events.
LEMMA GapType ==
  ASSUME TypeOK, NEW r \in SUBSET Key, NEW s \in 1 .. Len(journal)
  PROVE  Gap(r, s) \subseteq Key
<1>1. EvBetween(wm + 1, Len(journal)) \subseteq Key
  <2>1. wm + 1 \in Nat \ {0} /\ Len(journal) \in 0 .. Len(journal)
    BY DEF TypeOK
  <2> QED
    BY Zenon, <2>1, EvBetweenFacts
<1> QED
  BY Zenon, <1>1 DEF Gap, OutputsFrom

LEMMA RecordTypes == TInv /\ Record => TInv'
<1> SUFFICES ASSUME TInv, Record PROVE TInv'
  BY Zenon
<1> DEFINE s == out.seq
<1>1. s \in 1 .. Len(journal) /\ waiting # s
  BY DEF TInv, TypeOK, Locks, Record
<1>2. Ev(s) \subseteq Key /\ s \in Nat
  BY Zenon, <1>1, EvFacts DEF TInv
<1>3. Recorded(s) \in SUBSET Key
  BY Zenon, <1>2 DEF Recorded, Kept, TInv, TypeOK
<1>4. Gap(Recorded(s), s) \subseteq Key
  BY Zenon, <1>1, <1>3, GapType DEF TInv
<1>5. /\ out' \in [seq : 0 .. Len(journal), stage : {"gap", "own"}, todo : SUBSET Key]
      /\ out'.seq = s
  <2>1. CASE Gap(Recorded(s), s) # {}
    <3>1. out' = [out EXCEPT !.stage = "gap", !.todo = Gap(Recorded(s), s)]
      BY Zenon, <2>1 DEF Record
    <3> QED
      BY Zenon, <3>1, <1>4 DEF TInv, TypeOK
  <2>2. CASE Gap(Recorded(s), s) = {}
    <3>1. out' = [out EXCEPT !.stage = "own", !.todo = Ev(s)]
      BY Zenon, <2>2 DEF Record
    <3> QED
      BY Zenon, <3>1, <1>2 DEF TInv, TypeOK
  <2> QED
    BY Zenon, <2>1, <2>2
<1>6. ring' = Recorded(s) /\ lookup' \in SUBSET (1 .. Len(journal))
  BY Zenon, <1>1 DEF Record, TInv, TypeOK
<1>7. TypeOK'
  BY Zenon, <1>3, <1>5, <1>6 DEF TInv, TypeOK, Record, diskVars, streamVars, Key
<1>8. Locks'
  BY Zenon, <1>1, <1>5 DEF TInv, TypeOK, Locks, Record, diskVars, streamVars, Free
<1> QED
  BY Zenon, <1>7, <1>8 DEF TInv

LEMMA XAddTypes == TInv /\ XAdd => TInv'
<1> SUFFICES ASSUME TInv, XAdd PROVE TInv'
  BY Zenon
<1>1. PICK e \in out.todo :
        stream' = stream \cup {e} /\ newest' = e /\ out' = [out EXCEPT !.todo = @ \ {e}]
  BY Zenon DEF XAdd
<1>2. e \in Key
  BY Zenon DEF TInv, TypeOK
<1>3. /\ out' \in [seq : 0 .. Len(journal), stage : {"free", "record", "gap", "own", "boot"},
                   todo : SUBSET Key]
      /\ out'.seq = out.seq /\ out'.stage = out.stage /\ out.stage # "free"
  BY SMTT(30), <1>1 DEF TInv, TypeOK, XAdd, Publishing
<1>4. TypeOK'
  BY Zenon, <1>1, <1>2, <1>3 DEF TInv, TypeOK, XAdd, diskVars, Key
<1>5. Locks'
  BY <1>3 DEF TInv, TypeOK, Locks, XAdd, diskVars, Publishing, Free
<1> QED
  BY Zenon, <1>4, <1>5 DEF TInv

\* The sequence a publish confirms is a journaled one.
LEMMA ConfirmsType ==
  ASSUME TInv, Publishing
  PROVE  Confirms \in 0 .. Len(journal) /\ out.seq \in 1 .. Len(journal)
BY DEF TInv, TypeOK, Locks, Publishing, Confirms

LEMMA AdvanceTypes ==
  ASSUME TInv, Publishing, Advance
  PROVE  /\ wm' \in 0 .. Len(journal) /\ wmDisk' \in 0 .. Len(journal) /\ sinceSync' \in Nat
         /\ wm' \in {wm, Confirms} /\ wmDisk' \in {wmDisk, Confirms}
<1>1. Confirms \in 0 .. Len(journal) /\ wm \in 0 .. Len(journal)
      /\ wmDisk \in 0 .. Len(journal) /\ sinceSync \in Nat
  BY SMTT(30), ConfirmsType DEF TInv, TypeOK
<1> HIDE DEF Confirms
<1> QED
  BY <1>1 DEF Advance

LEMMA GapPublishedTypes == TInv /\ GapPublished => TInv'
<1> SUFFICES ASSUME TInv, GapPublished PROVE TInv'
  BY Zenon
<1>1. Publishing /\ Advance /\ out.stage = "gap"
  BY Zenon DEF GapPublished, Publishing
<1>2. out.seq \in 1 .. Len(journal)
  BY Zenon, <1>1, ConfirmsType
<1>3. Ev(out.seq) \subseteq Key
  BY Zenon, <1>2, EvFacts DEF TInv
<1>4. /\ out' \in [seq : 0 .. Len(journal), stage : {"own"}, todo : SUBSET Key]
      /\ out'.seq = out.seq
  BY Zenon, <1>3 DEF GapPublished, TInv, TypeOK
<1>a. wm' \in 0 .. Len(journal) /\ wmDisk' \in 0 .. Len(journal) /\ sinceSync' \in Nat
  BY Zenon, <1>1, AdvanceTypes
<1>5. TypeOK'
  BY Zenon, <1>a, <1>4 DEF TInv, TypeOK, GapPublished, streamVars, Key
<1>6. Locks'
  BY <1>1, <1>4 DEF TInv, TypeOK, Locks, GapPublished, Free
<1> QED
  BY Zenon, <1>5, <1>6 DEF TInv

LEMMA OwnPublishedTypes == TInv /\ OwnPublished => TInv'
<1> SUFFICES ASSUME TInv, OwnPublished PROVE TInv'
  BY Zenon
<1>1. Publishing /\ Advance /\ out.stage = "own"
  BY Zenon DEF OwnPublished, Publishing
<1>2. out.seq \in 1 .. Len(journal)
  BY Zenon, <1>1, ConfirmsType
<1>a. wm' \in 0 .. Len(journal) /\ wmDisk' \in 0 .. Len(journal) /\ sinceSync' \in Nat
  BY Zenon, <1>1, AdvanceTypes
<1>b. answered' \subseteq 1 .. Len(journal)
  BY Zenon, <1>2 DEF OwnPublished, TInv, TypeOK
<1>c. out' \in [seq : 0 .. Len(journal), stage : {"free", "record", "gap", "own", "boot"},
               todo : SUBSET Key]
  BY DEF OwnPublished, Free, TInv, TypeOK
<1>3. TypeOK'
  BY Zenon, <1>a, <1>b, <1>c DEF TInv, TypeOK, OwnPublished, streamVars, Key
<1>4. Locks'
  BY <1>1 DEF TInv, TypeOK, Locks, OwnPublished, Free
<1> QED
  BY Zenon, <1>3, <1>4 DEF TInv

LEMMA RequestFailsTypes == TInv /\ RequestFails => TInv'
<1> SUFFICES ASSUME TInv, RequestFails PROVE TInv'
  BY Zenon
<1>1. Publishing
  BY Zenon DEF RequestFails, Publishing
<1>a. Confirms \in 0 .. Len(journal) /\ wm \in 0 .. Len(journal)
      /\ sinceSync \in Nat /\ failures \in 0 .. MaxFailures
  BY Zenon, <1>1, ConfirmsType DEF TInv, TypeOK
<1>2. wm' \in 0 .. Len(journal) /\ sinceSync' \in Nat /\ failures' \in 0 .. MaxFailures
  BY <1>a, BoundsAssumption DEF RequestFails, Failure
<1>3. TypeOK'
  BY SMTT(30), <1>2 DEF TInv, TypeOK, RequestFails, streamVars, diskVars, Key, Free
<1>4. Locks'
  BY DEF TInv, TypeOK, Locks, RequestFails, Free, diskVars
<1> QED
  BY Zenon, <1>3, <1>4 DEF TInv

LEMMA CrashTypes == TInv /\ Crash => TInv'
<1> SUFFICES ASSUME TInv, Crash PROVE TInv'
  BY Zenon
<1>1. failures' \in 0 .. MaxFailures
  BY BoundsAssumption DEF Crash, Failure, TInv, TypeOK
<1>2. TypeOK'
  BY <1>1 DEF TInv, TypeOK, Crash, Stop, streamVars, diskVars, Key, Free
<1>3. Locks'
  BY Zenon DEF TInv, TypeOK, Locks, Crash, Stop, Free, diskVars
<1> QED
  BY Zenon, <1>2, <1>3 DEF TInv

LEMMA ShutdownTypes == TInv /\ Shutdown => TInv'
<1> SUFFICES ASSUME TInv, Shutdown PROVE TInv'
  BY Zenon
<1>1. TypeOK'
  BY Zenon DEF TInv, TypeOK, Shutdown, Stop, streamVars, Key, Free
<1>2. Locks'
  BY Zenon DEF TInv, TypeOK, Locks, Shutdown, Stop, Free
<1> QED
  BY Zenon, <1>1, <1>2 DEF TInv

LEMMA RecoverTypes == TInv /\ Recover => TInv'
<1> SUFFICES ASSUME TInv, Recover PROVE TInv'
  BY Zenon
<1>1. EvBetween(wmDisk + 1, Len(journal)) \subseteq Key
  <2>1. wmDisk + 1 \in Nat \ {0} /\ Len(journal) \in 0 .. Len(journal)
    BY DEF TInv, TypeOK
  <2> QED
    BY Zenon, <2>1, EvBetweenFacts DEF TInv
<1>2. TypeOK'
  BY SMTT(30), <1>1 DEF TInv, TypeOK, Recover, streamVars, diskVars, Key, Free, Locks
<1>3. Locks'
  BY DEF TInv, TypeOK, Locks, Recover, Free, diskVars
<1> QED
  BY Zenon, <1>2, <1>3 DEF TInv

LEMMA BootPublishedTypes == TInv /\ BootPublished => TInv'
<1> SUFFICES ASSUME TInv, BootPublished PROVE TInv'
  BY Zenon
<1>1. TypeOK'
  BY SMTT(30) DEF TInv, TypeOK, BootPublished, streamVars, Key, Free
<1>2. Locks'
  BY Zenon DEF TInv, TypeOK, Locks, BootPublished, Free
<1> QED
  BY Zenon, <1>1, <1>2 DEF TInv

LEMMA TypeStep == TInv /\ [Next]_vars => TInv'
<1> SUFFICES ASSUME TInv, [Next]_vars PROVE TInv'
  BY Zenon
<1>1. CASE UNCHANGED vars
  BY SMTT(30), <1>1 DEF TInv, TypeOK, Locks, vars, diskVars, memVars, streamVars, Key, Free
<1> QED
  BY Zenon, <1>1, SubmitTypes, TakeEgressTypes, RecordTypes, XAddTypes, GapPublishedTypes,
     OwnPublishedTypes, RequestFailsTypes, CrashTypes, ShutdownTypes, RecoverTypes,
     BootPublishedTypes DEF Next

\* Types hold in every reachable state, for every bound and cadence.
THEOREM TypeCorrect == Spec => []TypeOK
<1>1. TInv => TypeOK
  BY Zenon DEF TInv
<1> QED
  BY <1>1, TypeInit, TypeStep, PTL DEF Spec

-----------------------------------------------------------------------------
(* The ring and the gap. *)

LEMMA RingFinite == ASSUME TypeOK PROVE IsFiniteSet(ring)
<1>1. IsFiniteSet(0 .. MaxSeq) /\ IsFiniteSet(0 .. MaxEvents)
  BY FS_Interval, BoundsAssumption
<1>2. IsFiniteSet(Key)
  BY Zenon, <1>1, FS_Product DEF Key
<1> QED
  BY Zenon, <1>2, FS_Subset DEF TypeOK

\* Eviction starts with the oldest: what is younger than a kept event is kept.
LEMMA KeptUpwards ==
  ASSUME TypeOK, NEW s \in 1 .. Len(journal), NEW e \in Kept(s), NEW f \in ring, e[1] <= f[1]
  PROVE  f \in Kept(s)
<1> DEFINE From(g) == {h \in ring : h[1] >= g[1]}
<1>a. journal[s].n \in 1 .. MaxEvents
  BY Zenon, EvFacts
<1>1. journal[s].n \in Nat
  BY <1>a, BoundsAssumption
<1>2. \A h \in ring : h[1] \in Nat
  BY DEF TypeOK, Key
<1>3. e \in ring
  BY Zenon DEF Kept
<1>4. From(f) \subseteq From(e)
  BY <1>2, <1>3
<1>5. IsFiniteSet(From(e))
  <2>1. From(e) \subseteq ring
    BY Zenon
  <2> QED
    BY Zenon, <2>1, RingFinite, FS_Subset
<1>6. Cardinality(From(f)) <= Cardinality(From(e))
  BY Zenon, <1>4, <1>5, FS_Subset
<1>7. Cardinality(From(e)) \in Nat /\ Cardinality(From(f)) \in Nat
  BY Zenon, <1>4, <1>5, FS_Subset, FS_CardinalityType
<1>8. Cardinality(From(e)) + journal[s].n <= RingCapacity
  BY Zenon DEF Kept
<1>9. Cardinality(From(f)) + journal[s].n <= RingCapacity
  <2> HIDE DEF From
  <2> QED
    BY <1>1, <1>6, <1>7, <1>8, BoundsAssumption
<1> QED
  BY Zenon, <1>9 DEF Kept

\* Recording the command that holds the egress lock keeps the ring whole.
LEMMA RecordedWhole ==
  ASSUME TInv, RingWhole, out.stage = "record",
         NEW e \in Recorded(out.seq), NEW s \in 1 .. Len(journal),
         e[1] <= s, s # waiting
  PROVE  Ev(s) \subseteq Recorded(out.seq)
<1> DEFINE q == out.seq
<1>1. /\ q \in 1 .. Len(journal) /\ Len(journal) \in Nat
      /\ Len(journal) = IF waiting = 0 THEN q ELSE q + 1
      /\ waiting # 0 => waiting = Len(journal)
  BY DEF TInv, TypeOK, Locks
<1>2. CASE s = q
  BY Zenon, <1>2 DEF Recorded
<1>3. CASE s # q
  <2>1. e \notin Ev(q)
    <3> SUFFICES ASSUME e \in Ev(q) PROVE FALSE
      BY Zenon
    <3>1. e[1] = q
      BY Zenon, <1>1, EvFacts DEF TInv
    <3> QED
      BY <3>1, <1>1, <1>3
  <2>2. e \in Kept(q) /\ e \in ring
    BY Zenon, <2>1 DEF Recorded, Kept
  <2>3. Ev(s) \subseteq ring
    BY Zenon, <1>3, <2>2 DEF RingWhole, InFlight
  <2>4. \A f \in Ev(s) : f[1] = s
    BY Zenon, EvFacts DEF TInv
  <2>5. \A f \in Ev(s) : f \in Kept(q)
    BY Zenon, <1>1, <2>2, <2>3, <2>4, KeptUpwards DEF TInv
  <2> QED
    BY Zenon, <2>5 DEF Recorded
<1> QED
  BY Zenon, <1>2, <1>3

\* The gap holds everything between the watermark and the command.
LEMMA GapCovers ==
  ASSUME TInv, RingWhole, out.stage = "record",
         NEW s \in 1 .. Len(journal), wm < s, s < out.seq
  PROVE  Ev(s) \subseteq Gap(Recorded(out.seq), out.seq)
<1> DEFINE q == out.seq
           r == Recorded(q)
<1>1. /\ q \in 1 .. Len(journal) /\ Len(journal) \in Nat /\ wm \in Nat
      /\ Len(journal) = IF waiting = 0 THEN q ELSE q + 1
      /\ waiting # 0 => waiting = Len(journal)
  BY DEF TInv, TypeOK, Locks
<1>2. s # waiting /\ wm + 1 < q
  BY <1>1
<1>3. \A f \in Ev(s) : f[1] = s
  BY Zenon, EvFacts DEF TInv
<1>4. Ev(s) \subseteq OutputsFrom(r, wm)
  <2>1. CASE \E e \in r : e[1] <= wm + 1
    <3>1. PICK e \in r : e[1] <= wm + 1
      BY Zenon, <2>1
    <3>2. e[1] \in Nat
      <4>1. Ev(q) \subseteq Key
        BY Zenon, <1>1, EvFacts DEF TInv
      <4> QED
        BY <4>1 DEF Recorded, Kept, TInv, TypeOK, Key
    <3>3. e[1] <= s
      BY <1>1, <3>1, <3>2
    <3>4. Ev(s) \subseteq r
      BY Zenon, <1>2, <3>3, RecordedWhole
    <3> HIDE DEF r
    <3> QED
      BY Zenon, <2>1, <1>3, <3>4 DEF OutputsFrom
  <2>2. CASE ~ \E e \in r : e[1] <= wm + 1
    <3>1. wm + 1 \in Nat \ {0} /\ Len(journal) \in 0 .. Len(journal)
          /\ s \in wm + 1 .. Len(journal)
      BY <1>1
    <3>2. Ev(s) \subseteq EvBetween(wm + 1, Len(journal))
      BY Zenon, <3>1, EvBetweenFacts DEF TInv
    <3> HIDE DEF r
    <3> QED
      BY Zenon, <2>2, <3>2 DEF OutputsFrom
  <2> QED
    BY Zenon, <2>1, <2>2
<1> HIDE DEF r
<1>5. Ev(s) \subseteq Gap(r, q)
  BY Zenon, <1>2, <1>3, <1>4 DEF Gap
<1> QED
  BY Zenon, <1>5 DEF r

-----------------------------------------------------------------------------
(* Nothing is lost below the watermark. *)

LEMMA SafeInit == Init => IInv
<1> SUFFICES ASSUME Init PROVE IInv
  BY Zenon
<1>1. TInv
  BY Zenon, TypeInit
<1> QED
  BY <1>1 DEF Init, IInv, RingWhole, PendingCovers, Publishing, Confirms, Free,
     ConfirmedInStream, AnsweredInStream, IndexComplete

\* As long as the journal stays as it is, so do the events.
LEMMA SameEvents == ASSUME journal' = journal, NEW s PROVE Ev(s)' = Ev(s)
BY Zenon DEF Ev

LEMMA SubmitSafe == IInv /\ Submit => IInv'
<1> SUFFICES ASSUME IInv, Submit PROVE IInv'
  BY Zenon
<1> DEFINE n == Len(journal)
<1>1. TypeOK /\ Journaled /\ TInv'
  BY Zenon, SubmitTypes DEF IInv, TInv, Submit
<1>2. /\ Len(journal') = n + 1 /\ n \in Nat
      /\ \A s \in 1 .. n : journal'[s] = journal[s] /\ Ev(s)' = Ev(s)
  BY Zenon, <1>1, JournalGrows
<1>3. /\ up = "serving" /\ up' = up /\ waiting = 0 /\ waiting' = n + 1
      /\ out' = out /\ ring' = ring /\ lookup' = lookup /\ stream' = stream
      /\ wm' = wm /\ wmDisk' = wmDisk /\ answered' = answered
  BY Zenon DEF Submit, Journaled, streamVars
<1>4. \A s \in 1 .. n + 1 : ~InFlight(s)' => s \in 1 .. n /\ ~InFlight(s)
  BY <1>2, <1>3 DEF InFlight
<1>5. RingWhole'
  BY <1>2, <1>3, <1>4 DEF IInv, RingWhole
<1>6. IndexComplete'
  BY Zenon, <1>2, <1>3, <1>4 DEF IInv, IndexComplete
<1>7. PendingCovers'
  <2> SUFFICES ASSUME Publishing', NEW s \in 1 .. Confirms'
               PROVE  Ev(s)' \subseteq (stream \cup out.todo)'
    BY Zenon DEF PendingCovers
  <2>1. Publishing /\ Confirms' = Confirms
    BY Zenon, <1>3 DEF Publishing, Confirms
  <2>2. Confirms \in 0 .. n
    BY Zenon, <2>1, ConfirmsType DEF IInv
  <2>3. s \in 1 .. n /\ s \in 1 .. Confirms
    BY <2>1, <2>2, <1>2
  <2>4. Ev(s) \subseteq stream \cup out.todo
    BY Zenon, <2>1, <2>3 DEF IInv, PendingCovers
  <2> QED
    BY Zenon, <2>3, <2>4, <1>2, <1>3
<1>8. ConfirmedInStream'
  <2>1. wm \in 0 .. n /\ wmDisk \in 0 .. n
    BY Zenon, <1>1 DEF TypeOK
  <2> QED
    BY <2>1, <1>2, <1>3 DEF IInv, ConfirmedInStream
<1>9. AnsweredInStream'
  <2> SUFFICES ASSUME NEW s \in answered, NEW t \in 1 .. s
               PROVE  Ev(t)' \subseteq stream
    BY Zenon, <1>3 DEF AnsweredInStream
  <2>1. s \in 1 .. n
    BY Zenon, <1>1 DEF TypeOK
  <2>2. t \in 1 .. n
    BY <2>1, <1>2
  <2> QED
    BY Zenon, <2>2, <1>2 DEF IInv, AnsweredInStream
<1> QED
  BY Zenon, <1>1, <1>5, <1>6, <1>7, <1>8, <1>9 DEF IInv

\* A step that neither journals nor touches the ring, the index or the way a
\* command gets there keeps ring and index complete.
LEMMA RingAndIndexStay ==
  ASSUME IInv, journal' = journal, ring' = ring, lookup' = lookup,
         up' = up \/ up = "boot",
         \A s \in 1 .. Len(journal) : InFlight(s)' <=> InFlight(s)
  PROVE  RingWhole' /\ IndexComplete'
BY Zenon, SameEvents DEF IInv, RingWhole, IndexComplete

LEMMA TakeEgressSafe == IInv /\ TakeEgress => IInv'
<1> SUFFICES ASSUME IInv, TakeEgress PROVE IInv'
  BY Zenon
<1>1. TInv /\ TInv'
  BY Zenon, TakeEgressTypes DEF IInv
<1>2. /\ journal' = journal /\ ring' = ring /\ lookup' = lookup /\ up' = up
      /\ stream' = stream /\ wm' = wm /\ wmDisk' = wmDisk /\ answered' = answered
  BY Zenon DEF TakeEgress, diskVars, streamVars
<1>3. \A s \in 1 .. Len(journal) : InFlight(s)' <=> InFlight(s)
  BY DEF TakeEgress, InFlight, Free
<1>4. RingWhole' /\ IndexComplete'
  BY Zenon, <1>2, <1>3, RingAndIndexStay
<1>5. PendingCovers'
  BY Zenon DEF TakeEgress, PendingCovers, Publishing
<1>6. ConfirmedInStream' /\ AnsweredInStream'
  BY Zenon, <1>2, SameEvents DEF IInv, ConfirmedInStream, AnsweredInStream
<1> QED
  BY Zenon, <1>1, <1>4, <1>5, <1>6 DEF IInv

LEMMA RecordSafe == IInv /\ Record => IInv'
<1> SUFFICES ASSUME IInv, Record PROVE IInv'
  BY Zenon
<1> DEFINE q == out.seq
           r == Recorded(q)
<1>1. TInv /\ TInv' /\ RingWhole /\ out.stage = "record"
  BY Zenon, RecordTypes DEF IInv, Record
<1>2. /\ journal' = journal /\ up' = up /\ waiting' = waiting /\ ring' = r
      /\ stream' = stream /\ wm' = wm /\ wmDisk' = wmDisk /\ answered' = answered
  BY Zenon DEF Record, diskVars, streamVars
<1>3. q \in 1 .. Len(journal) /\ wm \in Nat /\ Len(journal) \in Nat
  BY <1>1 DEF TInv, TypeOK, Locks
<1>4. \/ /\ out'.stage = "gap" /\ out'.seq = q /\ out'.todo = Gap(r, q) /\ Gap(r, q) # {}
      \/ /\ out'.stage = "own" /\ out'.seq = q /\ out'.todo = Ev(q) /\ Gap(r, q) = {}
  BY Zenon DEF Record, IInv, TInv, TypeOK
<1>5. \A s \in 1 .. Len(journal) : ~InFlight(s)' => s # waiting /\ (s = q \/ ~InFlight(s))
  BY Zenon, <1>2 DEF InFlight
<1>6. RingWhole'
  <2> SUFFICES ASSUME NEW e \in r, NEW s \in 1 .. Len(journal), e[1] <= s, ~InFlight(s)'
               PROVE  Ev(s)' \subseteq r
    BY Zenon, <1>2 DEF RingWhole
  <2> QED
    BY Zenon, <1>1, <1>2, <1>5, RecordedWhole, SameEvents
<1>7. IndexComplete'
  <2> SUFFICES ASSUME NEW s \in 1 .. Len(journal), journal[s].kind = "place", ~InFlight(s)'
               PROVE  s \in lookup'
    BY Zenon, <1>2 DEF IndexComplete
  <2>1. CASE s = q
    BY Zenon, <2>1 DEF Record
  <2>2. CASE ~InFlight(s)
    BY Zenon, <2>2 DEF Record, IInv, IndexComplete
  <2> QED
    BY Zenon, <1>5, <2>1, <2>2
<1>8. PendingCovers'
  <2> SUFFICES ASSUME NEW s \in 1 .. Confirms'
               PROVE  Ev(s) \subseteq stream \cup out'.todo
    BY Zenon, <1>2, SameEvents DEF PendingCovers
  <2>1. Confirms' = IF out'.stage = "gap" THEN q - 1 ELSE q
    BY Zenon, <1>4 DEF Confirms
  <2>2. s \in 1 .. Len(journal)
    BY <1>3, <2>1
  <2>3. CASE s <= wm
    BY <2>2, <2>3, <1>3 DEF IInv, ConfirmedInStream
  <2>4. CASE wm < s /\ s < q
    <3>1. Ev(s) \subseteq Gap(r, q)
      BY Zenon, <1>1, <2>2, <2>4, GapCovers
    <3>2. <<s, 0>> \in Ev(s)
      BY Zenon, <1>1, <2>2, EvFacts DEF TInv
    <3> HIDE DEF r
    <3> QED
      BY Zenon, <3>1, <3>2, <1>4
  <2>5. CASE s = q
    BY <2>1, <2>5, <1>3, <1>4
  <2> QED
    BY <2>1, <2>2, <2>3, <2>4, <2>5, <1>3
<1>9. ConfirmedInStream' /\ AnsweredInStream'
  BY Zenon, <1>2, SameEvents DEF IInv, ConfirmedInStream, AnsweredInStream
<1> QED
  BY Zenon, <1>1, <1>6, <1>7, <1>8, <1>9 DEF IInv

LEMMA XAddSafe == IInv /\ XAdd => IInv'
<1> SUFFICES ASSUME IInv, XAdd PROVE IInv'
  BY Zenon
<1>1. TInv /\ TInv'
  BY Zenon, XAddTypes DEF IInv
<1>2. PICK e \in out.todo : stream' = stream \cup {e} /\ out' = [out EXCEPT !.todo = @ \ {e}]
  BY Zenon DEF XAdd
<1>3. /\ journal' = journal /\ ring' = ring /\ lookup' = lookup /\ up' = up /\ waiting' = waiting
      /\ wm' = wm /\ wmDisk' = wmDisk /\ answered' = answered
  BY Zenon DEF XAdd, diskVars
<1>4. out'.stage = out.stage /\ out'.seq = out.seq /\ out'.todo = out.todo \ {e}
  BY Zenon, <1>1, <1>2 DEF TInv, TypeOK
<1>5. RingWhole' /\ IndexComplete'
  BY Zenon, <1>3, <1>4, RingAndIndexStay DEF InFlight
<1>6. PendingCovers'
  BY <1>2, <1>3, <1>4, SameEvents DEF IInv, PendingCovers, Publishing, Confirms
<1>7. ConfirmedInStream' /\ AnsweredInStream'
  BY Zenon, <1>2, <1>3, SameEvents DEF IInv, ConfirmedInStream, AnsweredInStream
<1> QED
  BY Zenon, <1>1, <1>5, <1>6, <1>7 DEF IInv

\* What a finished publish confirms is in the stream.
LEMMA FinishedIsOut ==
  ASSUME IInv, Publishing, out.todo = {}
  PROVE  \A s \in 1 .. Confirms : Ev(s) \subseteq stream
BY Zenon DEF IInv, PendingCovers

\* Moving the watermark, in memory or on disk, to what is confirmed is safe.
LEMMA WatermarkMoves ==
  ASSUME IInv, Publishing, out.todo = {}, journal' = journal, stream' = stream,
         wm' \in {wm, Confirms}, wmDisk' \in {wmDisk, Confirms}
  PROVE  ConfirmedInStream'
BY Zenon, FinishedIsOut, SameEvents DEF IInv, ConfirmedInStream

LEMMA GapPublishedSafe == IInv /\ GapPublished => IInv'
<1> SUFFICES ASSUME IInv, GapPublished PROVE IInv'
  BY Zenon
<1>1. TInv /\ TInv' /\ Publishing /\ Advance /\ out.todo = {} /\ out.stage = "gap"
  BY Zenon, GapPublishedTypes DEF IInv, GapPublished, Publishing
<1>2. /\ journal' = journal /\ ring' = ring /\ lookup' = lookup /\ up' = up /\ waiting' = waiting
      /\ stream' = stream /\ answered' = answered
  BY Zenon DEF GapPublished, streamVars
<1>3. out'.stage = "own" /\ out'.seq = out.seq /\ out'.todo = Ev(out.seq)
  BY Zenon DEF GapPublished, IInv, TInv, TypeOK
<1>4. RingWhole' /\ IndexComplete'
  BY Zenon, <1>1, <1>2, <1>3, RingAndIndexStay DEF InFlight
<1>5. ConfirmedInStream'
  BY Zenon, <1>1, <1>2, AdvanceTypes, WatermarkMoves
<1>6. PendingCovers'
  <2> SUFFICES ASSUME NEW s \in 1 .. out.seq PROVE Ev(s) \subseteq stream \cup Ev(out.seq)
    BY <1>2, <1>3, SameEvents DEF PendingCovers, Confirms
  <2>1. CASE s = out.seq
    BY Zenon, <2>1
  <2>2. CASE s # out.seq
    <3>1. s \in 1 .. Confirms
      BY <1>1, <2>2, ConfirmsType DEF Confirms
    <3> QED
      BY Zenon, <3>1, <1>1, FinishedIsOut
  <2> QED
    BY Zenon, <2>1, <2>2
<1>7. AnsweredInStream'
  BY Zenon, <1>2, SameEvents DEF IInv, AnsweredInStream
<1> QED
  BY Zenon, <1>1, <1>4, <1>5, <1>6, <1>7 DEF IInv

LEMMA OwnPublishedSafe == IInv /\ OwnPublished => IInv'
<1> SUFFICES ASSUME IInv, OwnPublished PROVE IInv'
  BY Zenon
<1>1. TInv /\ TInv' /\ Publishing /\ Advance /\ out.todo = {} /\ out.stage = "own"
  BY Zenon, OwnPublishedTypes DEF IInv, OwnPublished, Publishing
<1>2. /\ journal' = journal /\ ring' = ring /\ lookup' = lookup /\ up' = up /\ waiting' = waiting
      /\ stream' = stream /\ answered' = answered \cup {out.seq} /\ out' = Free
  BY Zenon DEF OwnPublished, streamVars
<1>3. RingWhole' /\ IndexComplete'
  BY Zenon, <1>1, <1>2, RingAndIndexStay DEF InFlight, Free
<1>4. ConfirmedInStream'
  BY Zenon, <1>1, <1>2, AdvanceTypes, WatermarkMoves
<1>5. PendingCovers'
  BY Zenon, <1>2 DEF PendingCovers, Publishing, Free
<1>6. AnsweredInStream'
  <2>1. \A t \in 1 .. out.seq : Ev(t) \subseteq stream
    BY Zenon, <1>1, FinishedIsOut DEF Confirms
  <2> QED
    BY Zenon, <2>1, <1>2, SameEvents DEF IInv, AnsweredInStream
<1> QED
  BY Zenon, <1>1, <1>3, <1>4, <1>5, <1>6 DEF IInv

LEMMA RequestFailsSafe == IInv /\ RequestFails => IInv'
<1> SUFFICES ASSUME IInv, RequestFails PROVE IInv'
  BY Zenon
<1>1. TInv /\ TInv' /\ Publishing /\ out.stage \in {"gap", "own"}
  BY Zenon, RequestFailsTypes DEF IInv, RequestFails, Publishing
<1>2. /\ journal' = journal /\ ring' = ring /\ lookup' = lookup /\ up' = up /\ waiting' = waiting
      /\ stream' = stream /\ answered' = answered /\ out' = Free /\ wmDisk' = wmDisk
  BY Zenon DEF RequestFails, streamVars, diskVars
<1>3. RingWhole' /\ IndexComplete'
  BY Zenon, <1>1, <1>2, RingAndIndexStay DEF InFlight, Free
<1>4. ConfirmedInStream'
  <2>1. CASE wm' = wm
    BY Zenon, <2>1, <1>2, SameEvents DEF IInv, ConfirmedInStream
  <2>2. CASE out.todo = {} /\ wm' = Confirms
    BY Zenon, <2>2, <1>1, <1>2, WatermarkMoves
  <2> QED
    BY Zenon, <2>1, <2>2 DEF RequestFails
<1>5. PendingCovers'
  BY Zenon, <1>2 DEF PendingCovers, Publishing, Free
<1>6. AnsweredInStream'
  BY Zenon, <1>2, SameEvents DEF IInv, AnsweredInStream
<1> QED
  BY Zenon, <1>1, <1>3, <1>4, <1>5, <1>6 DEF IInv

\* A process that stops forgets what it had in memory.
LEMMA StopSafe ==
  ASSUME IInv, TInv', Stop, journal' = journal, stream' = stream, answered' = answered,
         wmDisk' \in {wm, wmDisk}
  PROVE  IInv'
<1>1. RingWhole' /\ IndexComplete' /\ PendingCovers'
  BY Zenon DEF Stop, RingWhole, IndexComplete, PendingCovers, Publishing, Free
<1>2. ConfirmedInStream'
  BY SameEvents DEF Stop, IInv, ConfirmedInStream
<1>3. AnsweredInStream'
  BY Zenon, SameEvents DEF IInv, AnsweredInStream
<1> QED
  BY Zenon, <1>1, <1>2, <1>3 DEF IInv

LEMMA CrashSafe == IInv /\ Crash => IInv'
BY Zenon, CrashTypes, StopSafe DEF IInv, Crash, diskVars, streamVars

LEMMA ShutdownSafe == IInv /\ Shutdown => IInv'
BY Zenon, ShutdownTypes, StopSafe DEF IInv, Shutdown, streamVars

LEMMA RecoverSafe == IInv /\ Recover => IInv'
<1> SUFFICES ASSUME IInv, Recover PROVE IInv'
  BY Zenon
<1>1. TInv /\ TInv' /\ TypeOK /\ ring = {} /\ out = Free /\ waiting = 0
  BY Zenon, RecoverTypes DEF IInv, TInv, Locks, Recover
<1>2. /\ journal' = journal /\ ring' = ring /\ waiting' = waiting /\ wm' = wmDisk
      /\ stream' = stream /\ answered' = answered /\ wmDisk' = wmDisk
      /\ lookup' = {s \in 1 .. Len(journal) : journal[s].kind = "place"}
  BY Zenon DEF Recover, streamVars, diskVars
<1>3. RingWhole' /\ IndexComplete'
  BY Zenon, <1>1, <1>2 DEF RingWhole, IndexComplete
<1>4. ConfirmedInStream' /\ AnsweredInStream'
  BY Zenon, <1>2, SameEvents DEF IInv, ConfirmedInStream, AnsweredInStream
<1>5. PendingCovers'
  <2>1. CASE wmDisk < Len(journal)
    <3>1. out' = [seq |-> Len(journal), stage |-> "boot",
                  todo |-> EvBetween(wmDisk + 1, Len(journal))]
      BY Zenon, <2>1 DEF Recover
    <3>2. SUFFICES ASSUME NEW s \in 1 .. Len(journal)
                   PROVE  Ev(s) \subseteq stream \cup EvBetween(wmDisk + 1, Len(journal))
      BY Zenon, <3>1, <1>2, SameEvents DEF PendingCovers, Confirms
    <3>3. wmDisk \in Nat /\ Len(journal) \in Nat
      BY <1>1 DEF TypeOK
    <3>4. CASE s <= wmDisk
      BY <3>3, <3>4 DEF IInv, ConfirmedInStream
    <3>5. CASE s > wmDisk
      <4>1. wmDisk + 1 \in Nat \ {0} /\ Len(journal) \in 0 .. Len(journal)
            /\ s \in wmDisk + 1 .. Len(journal)
        BY <3>3, <3>5
      <4> QED
        BY Zenon, <4>1, <1>1, EvBetweenFacts
    <3> QED
      BY <3>3, <3>4, <3>5
  <2>2. CASE ~(wmDisk < Len(journal))
    BY <2>2, <1>1 DEF Recover, PendingCovers, Publishing, Free
  <2> QED
    BY Zenon, <2>1, <2>2
<1> QED
  BY Zenon, <1>1, <1>3, <1>4, <1>5 DEF IInv

LEMMA BootPublishedSafe == IInv /\ BootPublished => IInv'
<1> SUFFICES ASSUME IInv, BootPublished PROVE IInv'
  BY Zenon
<1>1. TInv /\ TInv' /\ Publishing /\ out.todo = {} /\ out.stage = "boot" /\ up = "boot"
  BY Zenon, BootPublishedTypes DEF IInv, BootPublished, Publishing, TInv, Locks
<1>2. /\ journal' = journal /\ ring' = ring /\ lookup' = lookup /\ waiting' = waiting
      /\ stream' = stream /\ answered' = answered /\ out' = Free
      /\ wm' = Confirms /\ wmDisk' = Confirms
  BY Zenon, <1>1 DEF BootPublished, streamVars, Confirms
<1>3. RingWhole' /\ IndexComplete'
  BY Zenon, <1>1, <1>2, RingAndIndexStay DEF InFlight, Free
<1>4. ConfirmedInStream'
  BY Zenon, <1>1, <1>2, WatermarkMoves
<1>5. PendingCovers' /\ AnsweredInStream'
  BY Zenon, <1>2, SameEvents DEF PendingCovers, Publishing, Free, IInv, AnsweredInStream
<1> QED
  BY Zenon, <1>1, <1>3, <1>4, <1>5 DEF IInv

LEMMA SafeStep == IInv /\ [Next]_vars => IInv'
<1> SUFFICES ASSUME IInv, [Next]_vars PROVE IInv'
  BY Zenon
<1>1. CASE UNCHANGED vars
  <2>1. TInv'
    BY Zenon, TypeStep DEF IInv
  <2>2. /\ journal' = journal /\ ring' = ring /\ lookup' = lookup /\ up' = up
        /\ out' = out /\ waiting' = waiting /\ stream' = stream
        /\ wm' = wm /\ wmDisk' = wmDisk /\ answered' = answered
    BY Zenon, <1>1 DEF vars, diskVars, memVars, streamVars
  <2>3. RingWhole' /\ IndexComplete'
    BY Zenon, <2>2, RingAndIndexStay DEF InFlight
  <2>4. PendingCovers' /\ ConfirmedInStream' /\ AnsweredInStream'
    BY Zenon, <2>2, SameEvents DEF IInv, PendingCovers, Publishing, Confirms, ConfirmedInStream,
       AnsweredInStream
  <2> QED
    BY Zenon, <2>1, <2>3, <2>4 DEF IInv
<1> QED
  BY Zenon, <1>1, SubmitSafe, TakeEgressSafe, RecordSafe, XAddSafe, GapPublishedSafe,
     OwnPublishedSafe, RequestFailsSafe, CrashSafe, ShutdownSafe, RecoverSafe,
     BootPublishedSafe DEF Next

\* The inductive invariant holds in every reachable state of the service.
THEOREM Invariance == Spec => []IInv
BY SafeInit, SafeStep, PTL DEF Spec

\* Through every crash, failed publish and failed watermark write, for every
\* ring capacity and cadence, the watermark never leads the stream.
THEOREM WatermarkNeverLeadsAlways == Spec => []WatermarkNeverLeads
<1>1. IInv => WatermarkNeverLeads
  BY Zenon DEF IInv, ConfirmedInStream, WatermarkNeverLeads, EvBetween
<1> QED
  BY <1>1, Invariance, PTL

\* An answered command and everything before it is in the stream.
THEOREM AnsweredIsPublishedAlways == Spec => []AnsweredIsPublished
<1>1. IInv => AnsweredIsPublished
  BY Zenon DEF IInv, AnsweredInStream, AnsweredIsPublished, EvBetween
<1> QED
  BY <1>1, Invariance, PTL

\* Re-emission serves every journaled command that is not on its way.
THEOREM ReEmissionHasNoHoleAlways == Spec => []ReEmissionHasNoHole
<1>1. IInv => ReEmissionHasNoHole
  <2> SUFFICES ASSUME IInv, NEW a \in 0 .. Len(journal), NEW s \in 1 .. Len(journal),
                      s > a, ~InFlight(s)
               PROVE  Ev(s) \subseteq OutputsFrom(ring, a)
    BY Zenon DEF ReEmissionHasNoHole
  <2>1. TypeOK /\ RingWhole
    BY Zenon DEF IInv, TInv
  <2>2. \A f \in Ev(s) : f[1] = s
    BY Zenon, <2>1, EvFacts
  <2>3. CASE \E e \in ring : e[1] <= a + 1
    <3>1. PICK e \in ring : e[1] <= a + 1
      BY Zenon, <2>3
    <3>2. e[1] \in Nat
      BY <2>1 DEF TypeOK, Key
    <3>3. Ev(s) \subseteq ring
      BY <2>1, <3>1, <3>2 DEF RingWhole
    <3> QED
      BY Zenon, <2>2, <2>3, <3>3 DEF OutputsFrom
  <2>4. CASE ~ \E e \in ring : e[1] <= a + 1
    <3>1. a + 1 \in Nat \ {0} /\ Len(journal) \in 0 .. Len(journal) /\ s \in a + 1 .. Len(journal)
      BY <2>1 DEF TypeOK
    <3>2. Ev(s) \subseteq EvBetween(a + 1, Len(journal))
      BY Zenon, <2>1, <3>1, EvBetweenFacts
    <3> QED
      BY Zenon, <2>4, <3>2 DEF OutputsFrom
  <2> QED
    BY Zenon, <2>3, <2>4
<1> QED
  BY <1>1, Invariance, PTL

\* The lookup finds every journaled placement that is not on its way.
THEOREM PlacementsAreFoundAlways == Spec => []PlacementsAreFound
<1>1. IInv => PlacementsAreFound
  BY Zenon DEF IInv, IndexComplete, PlacementsAreFound
<1> QED
  BY <1>1, Invariance, PTL

\* What the watermark or an answer confirms is in the stream (Service::submit).
THEOREM ConfirmedIsPublishedAlways == Spec => []ConfirmedIsPublished
BY WatermarkNeverLeadsAlways, AnsweredIsPublishedAlways, PTL DEF ConfirmedIsPublished

\* What was journaled is served by re-emission and by the lookup
\* (EventRing::since, OrderIndex).
THEOREM JournalIsServedAlways == Spec => []JournalIsServed
BY ReEmissionHasNoHoleAlways, PlacementsAreFoundAlways, PTL DEF JournalIsServed

-----------------------------------------------------------------------------
(* The stream as EngineStream describes it.  What a publish holds is an      *)
(* unbroken run of events (TodoIsTail) whose first one is the successor of   *)
(* the newest entry or begins a command the stream has reached (NextComes);  *)
(* a publish starts above the watermark, which the newest entry has passed   *)
(* (Marks).                                                                  *)

IsEvent(e) == e[1] \in 1 .. Len(journal) /\ e[2] \in 0 .. journal[e[1]].n - 1

\* The newest entry is the last event of sequence w, or of a later sequence.
Past(w) ==
  newest[1] > w \/ (newest[1] = w /\ (w = 0 \/ newest[2] = journal[w].n - 1))

Marks ==
  /\ newest = <<0, 0>> \/ IsEvent(newest)
  /\ Past(wm) /\ Past(wmDisk)
  /\ up # "down" => wmDisk <= wm
  /\ waiting # 0 => wm < waiting
  /\ out.stage \in {"record", "gap", "own"} => wm < out.seq
  /\ \A e \in ring : IsEvent(e)

TodoIsTail ==
  Publishing => \A e \in out.todo :
    /\ IsEvent(e) /\ wm < e[1] /\ e[1] <= Confirms
    /\ e[2] + 1 < journal[e[1]].n => <<e[1], e[2] + 1>> \in out.todo
    /\ e[2] + 1 = journal[e[1]].n /\ e[1] < Confirms => <<e[1] + 1, 0>> \in out.todo

Comes(m) ==
  \/ m[1] = newest[1] /\ m[2] = newest[2] + 1
  \/ m[2] = 0 /\ Past(m[1] - 1)

NextComes ==
  Publishing =>
    /\ \A m \in out.todo : (\A f \in out.todo \ {m} : Before(m, f)) => Comes(m)
    /\ out.todo = {} =>
         Confirms >= 1 /\ newest[1] = Confirms /\ newest[2] = journal[Confirms].n - 1

SInv == IInv /\ Marks /\ TodoIsTail /\ NextComes

\* The events of a sequence, as pairs.
LEMMA EvIsEvent ==
  ASSUME TypeOK, NEW s \in 1 .. Len(journal)
  PROVE  /\ \A e \in Ev(s) : IsEvent(e) /\ e[1] = s
         /\ \A i \in 0 .. journal[s].n - 1 : <<s, i>> \in Ev(s)
BY DEF Ev, IsEvent

\* A publish of everything above lo up to hi starts with the first event of
\* lo + 1 and has no hole.
LEMMA RunStarts ==
  ASSUME TypeOK, NEW lo \in Nat, NEW hi \in 1 .. Len(journal), lo < hi,
         NEW T \in SUBSET Key,
         \A s \in lo + 1 .. hi : Ev(s) \subseteq T,
         \A e \in T : IsEvent(e) /\ lo < e[1] /\ e[1] <= hi
  PROVE  /\ \A e \in T :
              /\ e[2] + 1 < journal[e[1]].n => <<e[1], e[2] + 1>> \in T
              /\ e[2] + 1 = journal[e[1]].n /\ e[1] < hi => <<e[1] + 1, 0>> \in T
         /\ <<lo + 1, 0>> \in T
         /\ \A m \in T : (\A f \in T \ {m} : Before(m, f)) => m[1] = lo + 1 /\ m[2] = 0
<1>1. \A s \in lo + 1 .. hi : /\ s \in 1 .. Len(journal) /\ journal[s].n \in Nat \ {0}
                              /\ \A i \in 0 .. journal[s].n - 1 : <<s, i>> \in T
  <2> TAKE s \in lo + 1 .. hi
  <2>1. s \in 1 .. Len(journal)
    BY DEF TypeOK
  <2>2. journal[s].n \in 1 .. MaxEvents
    BY Zenon, <2>1, EvFacts
  <2> QED
    BY <2>1, <2>2, EvIsEvent, BoundsAssumption
<1>2. \A e \in T : e[1] \in Nat /\ e[2] \in Nat /\ e[1] \in lo + 1 .. hi /\ e[2] < journal[e[1]].n
  <2> TAKE e \in T
  <2>1. e[1] \in Nat /\ e[2] \in Nat
    BY BoundsAssumption DEF Key
  <2>2. e[1] \in lo + 1 .. hi /\ e[2] \in 0 .. journal[e[1]].n - 1
    BY <2>1 DEF IsEvent
  <2>3. journal[e[1]].n \in Nat
    BY Zenon, <1>1, <2>2
  <2> QED
    BY <2>1, <2>2, <2>3
<1>3. ASSUME NEW e \in T
      PROVE  /\ e[2] + 1 < journal[e[1]].n => <<e[1], e[2] + 1>> \in T
             /\ e[2] + 1 = journal[e[1]].n /\ e[1] < hi => <<e[1] + 1, 0>> \in T
  <2>1. e[2] + 1 < journal[e[1]].n => e[2] + 1 \in 0 .. journal[e[1]].n - 1
    BY <1>1, <1>2
  <2>2. e[1] < hi => e[1] + 1 \in lo + 1 .. hi
    BY <1>2
  <2>3. \A s \in lo + 1 .. hi : 0 \in 0 .. journal[s].n - 1
    BY <1>1
  <2>4. e[2] + 1 < journal[e[1]].n => <<e[1], e[2] + 1>> \in T
    BY Zenon, <1>1, <1>2, <2>1
  <2>5. e[1] < hi => <<e[1] + 1, 0>> \in T
    BY Zenon, <1>1, <2>2, <2>3
  <2> QED
    BY Zenon, <2>4, <2>5
<1>4. <<lo + 1, 0>> \in T
  <2>1. lo + 1 \in lo + 1 .. hi
    OBVIOUS
  <2>2. 0 \in 0 .. journal[lo + 1].n - 1
    BY <1>1, <2>1
  <2> QED
    BY Zenon, <1>1, <2>1, <2>2
<1>5. ASSUME NEW m \in T, \A f \in T \ {m} : Before(m, f)
      PROVE  m[1] = lo + 1 /\ m[2] = 0
  BY <1>2, <1>4, <1>5 DEF Before
<1> QED
  BY Zenon, <1>3, <1>4, <1>5

LEMMA OrderInit == Init => SInv
BY SafeInit, BoundsAssumption
   DEF Init, SInv, Marks, Past, TodoIsTail, NextComes, Publishing, Free

\* A step that leaves journal, stream and watermark alone, and publishes
\* nothing, leaves the order alone.
LEMMA MarksStay ==
  ASSUME Marks, journal' = journal, newest' = newest, ring' = ring, wm' = wm, wmDisk' = wmDisk,
         up' = up
  PROVE  /\ newest' = <<0, 0>> \/ IsEvent(newest)'
         /\ Past(wm)' /\ Past(wmDisk)'
         /\ up' # "down" => wmDisk' <= wm'
         /\ \A e \in ring' : IsEvent(e)'
BY Zenon DEF Marks, Past, IsEvent

LEMMA SubmitOrder == SInv /\ Submit => SInv'
<1> SUFFICES ASSUME SInv, Submit PROVE SInv'
  BY Zenon
<1>1. IInv' /\ TypeOK /\ TInv
  BY Zenon, SubmitSafe DEF SInv, IInv, TInv
<1>2. /\ Len(journal') = Len(journal) + 1 /\ Len(journal) \in Nat
      /\ \A s \in 1 .. Len(journal) : journal'[s] = journal[s]
  BY Zenon, <1>1, JournalGrows DEF Submit
<1>3. /\ newest' = newest /\ wm' = wm /\ wmDisk' = wmDisk /\ up' = up /\ ring' = ring /\ out' = out
      /\ waiting = 0 /\ waiting' = Len(journal) + 1
  BY Zenon DEF Submit, Journaled, streamVars
<1>4. \A e : IsEvent(e) => IsEvent(e)'
  BY <1>2 DEF IsEvent
<1>5. \A w \in 0 .. Len(journal) : Past(w) => Past(w)'
  BY <1>2, <1>3 DEF Past
<1>6. Marks'
  BY <1>1, <1>2, <1>3, <1>4, <1>5 DEF SInv, Marks, TypeOK
<1>7. TodoIsTail'
  <2> SUFFICES ASSUME Publishing, NEW e \in out.todo
               PROVE  /\ IsEvent(e)' /\ wm' < e[1] /\ e[1] <= Confirms'
                      /\ e[2] + 1 < journal'[e[1]].n => <<e[1], e[2] + 1>> \in out.todo
                      /\ e[2] + 1 = journal'[e[1]].n /\ e[1] < Confirms' =>
                           <<e[1] + 1, 0>> \in out.todo
    BY Zenon, <1>3 DEF TodoIsTail, Publishing
  <2>1. Confirms' = Confirms /\ journal'[e[1]] = journal[e[1]]
    BY Zenon, <1>2, <1>3 DEF Confirms, SInv, TodoIsTail, IsEvent
  <2> QED
    BY Zenon, <2>1, <1>3, <1>4 DEF SInv, TodoIsTail
<1>8. NextComes'
  <2> SUFFICES ASSUME Publishing PROVE NextComes'
    BY Zenon, <1>3 DEF NextComes, Publishing
  <2>1. Confirms' = Confirms /\ Confirms \in 0 .. Len(journal)
    BY Zenon, <1>1, <1>3, ConfirmsType DEF Confirms
  <2>2. \A m \in out.todo : m[1] \in 1 .. Len(journal)
    BY Zenon DEF SInv, TodoIsTail, IsEvent
  <2>3. \A m \in out.todo : Comes(m) => Comes(m)'
    BY <1>2, <1>3, <1>5, <2>2 DEF Comes
  <2> QED
    BY <1>2, <1>3, <2>1, <2>3 DEF SInv, NextComes, Publishing, Before
<1> QED
  BY Zenon, <1>1, <1>6, <1>7, <1>8 DEF SInv

LEMMA TakeEgressOrder == SInv /\ TakeEgress => SInv'
<1> SUFFICES ASSUME SInv, TakeEgress PROVE SInv'
  BY Zenon
<1>1. IInv'
  BY Zenon, TakeEgressSafe DEF SInv
<1>2. /\ journal' = journal /\ newest' = newest /\ ring' = ring /\ wm' = wm /\ wmDisk' = wmDisk
      /\ up' = up /\ waiting # 0 /\ waiting' = 0 /\ out'.seq = waiting /\ out'.stage = "record"
  BY Zenon DEF TakeEgress, diskVars, streamVars
<1>3. Marks'
  BY Zenon, <1>2, MarksStay DEF SInv, Marks
<1> QED
  BY Zenon, <1>1, <1>2, <1>3 DEF SInv, TodoIsTail, NextComes, Publishing

LEMMA RecordOrder == SInv /\ Record => SInv'
<1> SUFFICES ASSUME SInv, Record PROVE SInv'
  BY Zenon
<1> DEFINE q == out.seq
           r == Recorded(q)
           G == Gap(r, q)
<1>1. /\ IInv' /\ TypeOK /\ TInv /\ RingWhole /\ out.stage = "record"
  BY Zenon, RecordSafe DEF SInv, IInv, TInv, Record
<1>2. /\ journal' = journal /\ up' = up /\ waiting' = waiting /\ ring' = r
      /\ newest' = newest /\ wm' = wm /\ wmDisk' = wmDisk
  BY Zenon DEF Record, diskVars, streamVars
<1>3. q \in 1 .. Len(journal) /\ wm \in Nat /\ Len(journal) \in Nat /\ wm < q
  BY <1>1 DEF TInv, TypeOK, Locks, SInv, Marks
<1>4. \/ /\ out'.stage = "gap" /\ out'.seq = q /\ out'.todo = G /\ G # {}
      \/ /\ out'.stage = "own" /\ out'.seq = q /\ out'.todo = Ev(q) /\ G = {}
  BY Zenon, <1>1 DEF Record, TypeOK
<1>5. \A e \in r : IsEvent(e)
  <2>1. \A e \in Ev(q) : IsEvent(e)
    BY Zenon, <1>1, <1>3, EvIsEvent
  <2> QED
    BY Zenon, <2>1 DEF Recorded, Kept, SInv, Marks
<1> HIDE DEF r
<1>6. Marks'
  BY Zenon, <1>2, <1>3, <1>4, <1>5 DEF SInv, Marks, IsEvent, Past
<1>7. \A t \in wm + 1 .. q - 1 : Ev(t) \subseteq G
  <2> TAKE t \in wm + 1 .. q - 1
  <2>1. t \in 1 .. Len(journal) /\ wm < t /\ t < q
    BY <1>3
  <2> QED
    BY Zenon, <1>1, <2>1, GapCovers DEF r
<1>8. \A e \in G : IsEvent(e) /\ wm < e[1] /\ e[1] <= q - 1
  <2> SUFFICES ASSUME NEW e \in G PROVE IsEvent(e) /\ wm < e[1] /\ e[1] <= q - 1
    BY Zenon
  <2>1. e \in OutputsFrom(r, wm) /\ e[1] < q
    BY Zenon DEF Gap
  <2>2. IsEvent(e) /\ wm < e[1]
    <3>1. CASE e \in r /\ e[1] > wm
      BY Zenon, <1>5, <3>1, <1>3 DEF IsEvent
    <3>2. CASE e \in EvBetween(wm + 1, Len(journal))
      <4>1. PICK t \in wm + 1 .. Len(journal) : e \in Ev(t)
        BY Zenon, <3>2 DEF EvBetween
      <4>2. t \in 1 .. Len(journal) /\ wm < t
        BY <1>3
      <4> QED
        BY Zenon, <1>1, <4>1, <4>2, EvIsEvent
    <3> QED
      BY Zenon, <2>1, <3>1, <3>2 DEF OutputsFrom
  <2> QED
    BY <1>3, <2>1, <2>2 DEF IsEvent
<1>9. CASE out'.stage = "gap"
  <2>1. wm < q - 1
    BY <1>3, <1>4, <1>8, <1>9 DEF IsEvent
  <2>2. out'.seq = q /\ out'.todo = G
    BY Zenon, <1>4, <1>9
  <2>3. q - 1 \in 1 .. Len(journal) /\ G \in SUBSET Key /\ Confirms' = q - 1
    <3>1. out'.todo \subseteq Key
      BY Zenon, <1>1 DEF IInv, TInv, TypeOK, Key
    <3> QED
      BY <1>3, <1>9, <2>1, <2>2, <3>1 DEF Confirms
  <2> HIDE DEF G
  <2>4. /\ \A e \in G :
             /\ e[2] + 1 < journal[e[1]].n => <<e[1], e[2] + 1>> \in G
             /\ e[2] + 1 = journal[e[1]].n /\ e[1] < q - 1 => <<e[1] + 1, 0>> \in G
        /\ <<wm + 1, 0>> \in G
        /\ \A m \in G : (\A f \in G \ {m} : Before(m, f)) => m[1] = wm + 1 /\ m[2] = 0
    BY Zenon, <1>1, <1>3, <1>7, <1>8, <2>1, <2>3, RunStarts
  <2>5. TodoIsTail'
    BY Zenon, <1>2, <1>8, <2>2, <2>3, <2>4 DEF TodoIsTail, IsEvent
  <2>6. NextComes'
    BY <1>2, <1>3, <2>2, <2>3, <2>4 DEF NextComes, Comes, Past, SInv, Marks, Before
  <2> QED
    BY Zenon, <1>1, <1>6, <2>5, <2>6 DEF SInv
<1>10. CASE out'.stage = "own"
  <2>1. out'.seq = q /\ out'.todo = Ev(q) /\ G = {} /\ Confirms' = q
    BY Zenon, <1>4, <1>10 DEF Confirms
  <2>2. wm = q - 1
    <3> SUFFICES ASSUME wm # q - 1 PROVE FALSE
      BY Zenon
    <3>1. wm + 1 \in wm + 1 .. q - 1 /\ wm + 1 \in 1 .. Len(journal)
      BY <1>3
    <3>2. <<wm + 1, 0>> \in Ev(wm + 1)
      BY Zenon, <1>1, <3>1, EvFacts
    <3> QED
      BY Zenon, <1>7, <2>1, <3>1, <3>2
  <2>3. Ev(q) \in SUBSET Key /\ \A e \in Ev(q) : IsEvent(e) /\ q - 1 < e[1] /\ e[1] <= q
    <3>1. Ev(q) \subseteq Key
      BY Zenon, <1>1, <1>3, EvFacts
    <3> QED
      BY <1>1, <1>3, <3>1, EvIsEvent
  <2>4. \A s \in (q - 1) + 1 .. q : Ev(s) \subseteq Ev(q)
    BY <1>3
  <2>5. q - 1 \in Nat /\ q - 1 < q
    BY <1>3
  <2>6. /\ \A e \in Ev(q) :
             /\ e[2] + 1 < journal[e[1]].n => <<e[1], e[2] + 1>> \in Ev(q)
             /\ e[2] + 1 = journal[e[1]].n /\ e[1] < q => <<e[1] + 1, 0>> \in Ev(q)
        /\ <<(q - 1) + 1, 0>> \in Ev(q)
        /\ \A m \in Ev(q) : (\A f \in Ev(q) \ {m} : Before(m, f)) => m[1] = (q - 1) + 1 /\ m[2] = 0
    BY <1>1, <1>3, <2>3, <2>4, <2>5, RunStarts
  <2>7. TodoIsTail'
    BY Zenon, <1>2, <1>3, <2>1, <2>2, <2>3, <2>6 DEF TodoIsTail, IsEvent
  <2>8. NextComes'
    BY <1>2, <1>3, <2>1, <2>2, <2>6 DEF NextComes, Comes, Past, SInv, Marks, Before
  <2> QED
    BY Zenon, <1>1, <1>6, <2>7, <2>8 DEF SInv
<1> QED
  BY Zenon, <1>4, <1>9, <1>10

LEMMA XAddOrder == SInv /\ XAdd => SInv'
<1> SUFFICES ASSUME SInv, XAdd PROVE SInv'
  BY Zenon
<1>1. IInv' /\ TypeOK /\ TInv /\ Publishing
  BY Zenon, XAddSafe DEF SInv, IInv, TInv, XAdd
<1>2. PICK e \in out.todo :
        /\ \A f \in out.todo \ {e} : Before(e, f)
        /\ newest' = e /\ out' = [out EXCEPT !.todo = @ \ {e}]
  BY Zenon DEF XAdd
<1>3. /\ journal' = journal /\ ring' = ring /\ up' = up /\ waiting' = waiting
      /\ wm' = wm /\ wmDisk' = wmDisk
  BY Zenon DEF XAdd, diskVars
<1>4. /\ out'.stage = out.stage /\ out'.seq = out.seq /\ out'.todo = out.todo \ {e}
      /\ Confirms' = Confirms
  BY Zenon, <1>1, <1>2 DEF TypeOK, Confirms
<1>5. /\ wm \in Nat /\ wmDisk \in Nat /\ wmDisk <= wm /\ Confirms \in 0 .. Len(journal)
      /\ \A f \in out.todo : f[1] \in Nat /\ f[2] \in Nat
  <2>1. up # "down"
    BY <1>1 DEF TInv, Locks, Publishing, Free
  <2>2. wm \in Nat /\ wmDisk \in Nat /\ \A f \in out.todo : f[1] \in Nat /\ f[2] \in Nat
    BY <1>1 DEF TypeOK, Key
  <2> QED
    BY Zenon, <1>1, <2>1, <2>2, ConfirmsType DEF SInv, Marks
<1>6. IsEvent(e) /\ wm < e[1] /\ e[1] <= Confirms
  BY Zenon, <1>1 DEF SInv, TodoIsTail
<1>7. Marks'
  BY <1>2, <1>3, <1>4, <1>5, <1>6 DEF SInv, Marks, Past, IsEvent
<1>8. TodoIsTail'
  <2> SUFFICES ASSUME NEW f \in out.todo \ {e}
               PROVE  /\ IsEvent(f) /\ wm < f[1] /\ f[1] <= Confirms
                      /\ f[2] + 1 < journal[f[1]].n => <<f[1], f[2] + 1>> \in out.todo \ {e}
                      /\ f[2] + 1 = journal[f[1]].n /\ f[1] < Confirms =>
                           <<f[1] + 1, 0>> \in out.todo \ {e}
    BY Zenon, <1>3, <1>4 DEF TodoIsTail, IsEvent
  <2>1. Before(e, f)
    BY Zenon, <1>2
  <2>2. <<f[1], f[2] + 1>> # e /\ <<f[1] + 1, 0>> # e
    BY <2>1, <1>5 DEF Before
  <2> QED
    BY Zenon, <1>1, <2>2 DEF SInv, TodoIsTail
<1>9. NextComes'
  <2> DEFINE n == journal[e[1]].n
  <2>1. n \in Nat /\ e[2] < n
    <3>1. e[1] \in 1 .. Len(journal)
      BY Zenon, <1>6 DEF IsEvent
    <3>2. n \in 1 .. MaxEvents
      BY Zenon, <1>1, <3>1, EvFacts
    <3>3. n \in Nat
      BY <3>2, BoundsAssumption
    <3> QED
      BY <1>5, <1>6, <3>3 DEF IsEvent
  <2>2. /\ e[2] + 1 < n => <<e[1], e[2] + 1>> \in out.todo
        /\ e[2] + 1 = n /\ e[1] < Confirms => <<e[1] + 1, 0>> \in out.todo
    BY Zenon, <1>1 DEF SInv, TodoIsTail
  <2>3. ASSUME NEW m \in out'.todo, \A f \in out'.todo \ {m} : Before(m, f)
        PROVE  Comes(m)'
    <3>1. m \in out.todo /\ m # e /\ Before(e, m) /\ m[1] <= Confirms /\ IsEvent(m)
      BY Zenon, <1>1, <1>2, <1>4 DEF SInv, TodoIsTail
    <3>2. CASE e[2] + 1 < n
      <4> DEFINE k == <<e[1], e[2] + 1>>
      <4>1. k \in out'.todo
        BY <1>4, <1>5, <2>2, <3>2
      <4>2. m = k \/ Before(m, k)
        BY Zenon, <2>3, <4>1
      <4>3. m[1] = e[1] /\ m[2] = e[2] + 1
        BY <1>5, <3>1, <4>2 DEF Before
      <4> QED
        BY Zenon, <1>2, <4>3 DEF Comes
    <3>3. CASE e[2] + 1 = n /\ e[1] < Confirms
      <4> DEFINE k == <<e[1] + 1, 0>>
      <4>1. k \in out'.todo
        BY <1>4, <1>5, <2>2, <3>3
      <4>2. m = k \/ Before(m, k)
        BY Zenon, <2>3, <4>1
      <4>a. m[1] = e[1] => m[2] < n
        <5>1. m[1] = e[1] => m[2] \in 0 .. n - 1
          BY Zenon, <3>1 DEF IsEvent
        <5> QED
          BY <5>1, <2>1
      <4>3. m[1] = e[1] + 1 /\ m[2] = 0
        <5> HIDE DEF n
        <5> QED
          BY <1>5, <2>1, <3>1, <3>3, <4>2, <4>a DEF Before
      <4>4. m[1] - 1 = e[1] /\ e[2] = n - 1
        BY <4>3, <1>5, <2>1, <3>3
      <4>5. Past(e[1])'
        BY Zenon, <1>2, <1>3, <4>4 DEF Past
      <4> QED
        BY Zenon, <4>3, <4>4, <4>5 DEF Comes, Past
    <3>4. CASE e[2] + 1 = n /\ e[1] = Confirms
      <4>a. m[1] = e[1] => m[2] < n
        <5>1. m[1] = e[1] => m[2] \in 0 .. n - 1
          BY Zenon, <3>1 DEF IsEvent
        <5> QED
          BY <5>1, <2>1
      <4> HIDE DEF n
      <4> QED
        BY <1>5, <2>1, <3>1, <3>4, <4>a DEF Before
    <3> HIDE DEF n
    <3> QED
      BY <1>5, <1>6, <2>1, <3>2, <3>3, <3>4
  <2>4. ASSUME out'.todo = {}
        PROVE  Confirms >= 1 /\ e[1] = Confirms /\ e[2] = n - 1
    <3>1. out.todo = {e}
      BY Zenon, <1>4, <2>4
    <3>2. <<e[1], e[2] + 1>> # e /\ <<e[1] + 1, 0>> # e
      BY <1>5
    <3>3. ~ (e[2] + 1 < n) /\ ~ (e[2] + 1 = n /\ e[1] < Confirms)
      BY Zenon, <2>2, <3>1, <3>2
    <3> HIDE DEF n
    <3> QED
      BY <1>5, <1>6, <2>1, <3>3
  <2>5. \A m \in out'.todo : (\A f \in out'.todo \ {m} : Before(m, f)) => Comes(m)'
    BY Zenon, <2>3
  <2>6. out'.todo = {} => Confirms >= 1 /\ newest'[1] = Confirms
                          /\ newest'[2] = journal[Confirms].n - 1
    BY Zenon, <2>4, <1>2
  <2> QED
    BY Zenon, <2>5, <2>6, <1>3, <1>4 DEF NextComes, Before
<1> QED
  BY Zenon, <1>1, <1>7, <1>8, <1>9 DEF SInv

\* The newest entry is past what a finished publish confirms.
LEMMA FinishedIsPast ==
  ASSUME SInv, Publishing, out.todo = {}
  PROVE  /\ Confirms >= 1 /\ Confirms \in 1 .. Len(journal) /\ Past(Confirms)
         /\ newest[1] = Confirms /\ wm <= Confirms
<1>1. TypeOK /\ TInv
  BY Zenon DEF SInv, IInv, TInv
<1>2. Confirms >= 1 /\ newest[1] = Confirms /\ newest[2] = journal[Confirms].n - 1
  BY Zenon DEF SInv, NextComes
<1>3. Confirms \in 0 .. Len(journal) /\ wm \in Nat /\ newest[1] \in Nat
  BY <1>1, ConfirmsType DEF TypeOK, Key
<1>4. wm <= Confirms
  BY <1>2, <1>3 DEF SInv, Marks, Past
<1> QED
  BY <1>2, <1>3, <1>4 DEF Past

\* What the advance of the watermark leaves it at, in memory and on disk, is
\* past, whether or not it was written.
LEMMA AdvanceKeepsMarks ==
  ASSUME SInv, Publishing, out.todo = {}, up # "down", journal' = journal, newest' = newest,
         wm' \in {wm, Confirms}, wmDisk' \in {wmDisk, Confirms}, wmDisk' = Confirms => wm' = Confirms
  PROVE  Past(wm)' /\ Past(wmDisk)' /\ wmDisk' <= wm' /\ wm' <= Confirms
<1>1. /\ Confirms \in 1 .. Len(journal) /\ Past(Confirms) /\ wm <= Confirms
      /\ Past(wm) /\ Past(wmDisk) /\ wmDisk <= wm
  BY Zenon, FinishedIsPast DEF SInv, Marks
<1>2. wm \in Nat /\ wmDisk \in Nat /\ Confirms \in Nat
  BY <1>1 DEF SInv, IInv, TInv, TypeOK
<1>3. \A w : Past(w) => (newest'[1] > w \/ (newest'[1] = w /\ (w = 0 \/ newest'[2] = journal'[w].n - 1)))
  BY Zenon DEF Past
<1> QED
  BY <1>1, <1>2, <1>3 DEF Past

LEMMA GapPublishedOrder == SInv /\ GapPublished => SInv'
<1> SUFFICES ASSUME SInv, GapPublished PROVE SInv'
  BY Zenon
<1> DEFINE q == out.seq
<1>1. IInv' /\ TypeOK /\ TInv /\ Publishing /\ out.todo = {} /\ up # "down" /\ Confirms = q - 1
  BY Zenon, GapPublishedSafe DEF SInv, IInv, TInv, GapPublished, Publishing, Confirms, Locks, Free
<1>2. /\ journal' = journal /\ newest' = newest /\ ring' = ring /\ up' = up /\ waiting' = waiting
  BY Zenon DEF GapPublished, streamVars
<1>3. /\ out'.stage = "own" /\ out'.seq = q /\ out'.todo = Ev(q) /\ Confirms' = q
  BY Zenon, <1>1 DEF GapPublished, TypeOK, Confirms
<1>4. /\ wm' \in {wm, Confirms} /\ wmDisk' \in {wmDisk, Confirms}
      /\ wmDisk' = Confirms => wm' = Confirms \/ Confirms <= wm
  BY Zenon DEF GapPublished, Advance
<1>5. /\ Confirms \in 1 .. Len(journal) /\ Past(Confirms) /\ wm <= Confirms /\ newest[1] = Confirms
  BY Zenon, <1>1, FinishedIsPast
<1>6. q \in 1 .. Len(journal) /\ q - 1 \in Nat /\ q - 1 < q /\ wm \in Nat /\ wmDisk \in Nat
  BY <1>1, <1>5 DEF TypeOK
<1>7. wmDisk' = Confirms => wm' = Confirms
  BY <1>4, <1>5, <1>6, <1>1 DEF TypeOK
<1>8. Past(wm)' /\ Past(wmDisk)' /\ wmDisk' <= wm' /\ wm' <= Confirms
  BY Zenon, <1>1, <1>2, <1>4, <1>7, AdvanceKeepsMarks
<1>9. Ev(q) \in SUBSET Key /\ \A e \in Ev(q) : IsEvent(e) /\ q - 1 < e[1] /\ e[1] <= q
  <2>1. Ev(q) \subseteq Key
    BY Zenon, <1>1, <1>6, EvFacts
  <2> QED
    BY <1>1, <1>6, <2>1, EvIsEvent
<1>10. \A s \in (q - 1) + 1 .. q : Ev(s) \subseteq Ev(q)
  BY <1>6
<1>11. /\ \A e \in Ev(q) :
            /\ e[2] + 1 < journal[e[1]].n => <<e[1], e[2] + 1>> \in Ev(q)
            /\ e[2] + 1 = journal[e[1]].n /\ e[1] < q => <<e[1] + 1, 0>> \in Ev(q)
       /\ <<(q - 1) + 1, 0>> \in Ev(q)
       /\ \A m \in Ev(q) : (\A f \in Ev(q) \ {m} : Before(m, f)) => m[1] = (q - 1) + 1 /\ m[2] = 0
  <2>1. TypeOK
    BY Zenon, <1>1
  <2> HIDE DEF q
  <2> QED
    BY Zenon, <1>6, <1>9, <1>10, <2>1, RunStarts
<1>12. wm' < q /\ (waiting' # 0 => wm' < waiting')
  <2>1. wm' \in Nat /\ q \in Nat /\ wm' < q
    BY <1>1, <1>4, <1>6, <1>8
  <2>2. waiting # 0 => q < waiting
    BY <1>1 DEF TInv, Locks, GapPublished
  <2> QED
    BY <1>1, <1>2, <1>4, <1>6, <2>1, <2>2 DEF TypeOK, SInv, Marks
<1>13. Marks'
  BY Zenon, <1>2, <1>3, <1>8, <1>12 DEF SInv, Marks, IsEvent
<1>14. TodoIsTail'
  <2>1. \A e \in Ev(q) : wm' < e[1]
    BY <1>1, <1>4, <1>6, <1>8, <1>9 DEF IsEvent
  <2> QED
    BY Zenon, <1>2, <1>3, <1>9, <1>11, <2>1 DEF TodoIsTail, IsEvent
<1>15. NextComes'
  <2>1. Past(q - 1)'
    BY Zenon, <1>1, <1>2, <1>3, <1>5 DEF Past
  <2>2. \A m \in Ev(q) : (\A f \in Ev(q) \ {m} : Before(m, f)) => m[1] - 1 = q - 1 /\ m[2] = 0
    BY <1>11, <1>6
  <2> QED
    BY <1>2, <1>3, <1>11, <2>1, <2>2 DEF NextComes, Comes, Past, Before
<1> QED
  BY Zenon, <1>1, <1>13, <1>14, <1>15 DEF SInv

\* A step after which nothing is being published.
LEMMA QuietOrder ==
  ASSUME IInv', Marks', out'.stage \notin {"gap", "own", "boot"}
  PROVE  SInv'
BY Zenon DEF SInv, TodoIsTail, NextComes, Publishing

LEMMA OwnPublishedOrder == SInv /\ OwnPublished => SInv'
<1> SUFFICES ASSUME SInv, OwnPublished PROVE SInv'
  BY Zenon
<1>1. IInv' /\ TypeOK /\ TInv /\ Publishing /\ out.todo = {} /\ up # "down" /\ Confirms = out.seq
  BY SMTT(30), OwnPublishedSafe DEF SInv, IInv, TInv, OwnPublished, Publishing, Confirms, Locks, Free
<1>2. /\ journal' = journal /\ newest' = newest /\ ring' = ring /\ up' = up /\ waiting' = waiting
      /\ out'.stage = "free"
  BY Zenon DEF OwnPublished, streamVars, Free
<1>4. /\ wm' \in {wm, Confirms} /\ wmDisk' \in {wmDisk, Confirms}
      /\ wmDisk' = Confirms => wm' = Confirms \/ Confirms <= wm
  BY Zenon DEF OwnPublished, Advance
<1>5. /\ Confirms \in 1 .. Len(journal) /\ wm <= Confirms
  BY Zenon, <1>1, FinishedIsPast
<1>7. wmDisk' = Confirms => wm' = Confirms
  BY <1>1, <1>4, <1>5 DEF TypeOK
<1>8. Past(wm)' /\ Past(wmDisk)' /\ wmDisk' <= wm' /\ wm' <= Confirms
  BY Zenon, <1>1, <1>2, <1>4, <1>7, AdvanceKeepsMarks
<1>9. waiting' # 0 => wm' < waiting'
  <2>1. waiting # 0 => out.seq < waiting
    BY <1>1 DEF TInv, Locks, OwnPublished
  <2> QED
    BY Zenon, <1>1, <1>2, <1>4, <1>5, <1>8, <2>1 DEF TypeOK, SInv, Marks
<1>10. Marks'
  BY Zenon, <1>2, <1>8, <1>9 DEF SInv, Marks, IsEvent
<1> QED
  BY Zenon, <1>1, <1>2, <1>10, QuietOrder

LEMMA RequestFailsOrder == SInv /\ RequestFails => SInv'
<1> SUFFICES ASSUME SInv, RequestFails PROVE SInv'
  BY Zenon
<1>1. IInv' /\ TypeOK /\ TInv /\ Publishing /\ up # "down"
  BY SMTT(30), RequestFailsSafe DEF SInv, IInv, TInv, RequestFails, Publishing, Locks, Free
<1>2. /\ journal' = journal /\ newest' = newest /\ ring' = ring /\ up' = up /\ waiting' = waiting
      /\ wmDisk' = wmDisk /\ out'.stage = "free"
  BY Zenon DEF RequestFails, diskVars, streamVars, Free
<1>3. CASE wm' = wm
  <2>1. Marks'
    BY Zenon, <1>2, <1>3, MarksStay DEF SInv, Marks
  <2> QED
    BY Zenon, <1>1, <1>2, <2>1, QuietOrder
<1>4. CASE out.todo = {} /\ Confirms > wm /\ wm' = Confirms
  <2>1. Confirms \in 1 .. Len(journal) /\ wm <= Confirms
    BY Zenon, <1>1, <1>4, FinishedIsPast
  <2>2. Past(wm)' /\ Past(wmDisk)' /\ wmDisk' <= wm'
    BY Zenon, <1>1, <1>2, <1>4, AdvanceKeepsMarks
  <2>3. waiting' # 0 => wm' < waiting'
    <3>1. waiting # 0 => out.seq < waiting
      BY <1>1 DEF TInv, Locks, RequestFails
    <3>2. Confirms <= out.seq
      BY <1>1 DEF Confirms, TypeOK
    <3> QED
      BY <1>1, <1>2, <1>4, <2>1, <3>1, <3>2 DEF TypeOK
  <2>4. Marks'
    BY Zenon, <1>2, <2>2, <2>3 DEF SInv, Marks, IsEvent
  <2> QED
    BY Zenon, <1>1, <1>2, <2>4, QuietOrder
<1> QED
  BY Zenon, <1>3, <1>4 DEF RequestFails

\* Memory is gone, and what the disk confirms is still past.
LEMMA StopOrder ==
  ASSUME SInv, IInv', Stop, journal' = journal, newest' = newest, wmDisk' \in {wmDisk, wm}
  PROVE  SInv'
<1>1. /\ up' = "down" /\ out'.stage = "free" /\ waiting' = 0 /\ ring' = {} /\ wm' = 0
  BY Zenon DEF Stop, Free
<1>2. newest[1] \in Nat
  BY DEF SInv, IInv, TInv, TypeOK, Key
<1>3. \A w : Past(w) => (newest'[1] > w \/ (newest'[1] = w /\ (w = 0 \/ newest'[2] = journal'[w].n - 1)))
  BY Zenon DEF Past
<1>4. Past(wm)' /\ Past(wmDisk)'
  BY <1>1, <1>2, <1>3 DEF SInv, Marks, Past
<1>5. Marks'
  BY Zenon, <1>1, <1>4 DEF SInv, Marks, IsEvent
<1> QED
  BY Zenon, <1>1, <1>5, QuietOrder

LEMMA CrashOrder == SInv /\ Crash => SInv'
BY Zenon, CrashSafe, StopOrder DEF SInv, Crash, diskVars, streamVars

LEMMA ShutdownOrder == SInv /\ Shutdown => SInv'
BY Zenon, ShutdownSafe, StopOrder DEF SInv, Shutdown, streamVars

LEMMA RecoverOrder == SInv /\ Recover => SInv'
<1> SUFFICES ASSUME SInv, Recover PROVE SInv'
  BY Zenon
<1> DEFINE L == Len(journal)
           T == EvBetween(wmDisk + 1, L)
<1>1. IInv' /\ TypeOK /\ TInv /\ up = "down"
  BY Zenon, RecoverSafe DEF SInv, IInv, TInv, Recover
<1>2. /\ journal' = journal /\ newest' = newest /\ ring' = ring /\ ring = {} /\ waiting' = 0
      /\ wm' = wmDisk /\ wmDisk' = wmDisk /\ out = Free
  BY Zenon, <1>1 DEF Recover, diskVars, streamVars, TInv, Locks
<1>3. L \in Nat /\ wmDisk \in Nat /\ Past(wmDisk)
  BY <1>1 DEF TypeOK, SInv, Marks
<1>4. \/ /\ wmDisk < L /\ up' = "boot"
         /\ out'.seq = L /\ out'.stage = "boot" /\ out'.todo = T
      \/ /\ up' = "serving" /\ out'.stage = "free"
  BY <1>2 DEF Recover, Free
<1>5. Marks'
  BY <1>2, <1>3, <1>4 DEF SInv, Marks, Past, IsEvent
<1>6. CASE up' = "serving"
  BY Zenon, <1>1, <1>4, <1>5, <1>6, QuietOrder
<1>7. CASE wmDisk < L /\ up' = "boot"
  <2>1. /\ out'.seq = L /\ out'.stage = "boot" /\ out'.todo = T /\ Confirms' = L
        /\ L \in 1 .. Len(journal)
    BY <1>3, <1>4, <1>7 DEF Confirms
  <2>2. T \in SUBSET Key
    BY Zenon, <1>1, <2>1 DEF IInv, TInv, TypeOK, Key
  <2>3. \A s \in wmDisk + 1 .. L : Ev(s) \subseteq T
    BY Zenon DEF EvBetween
  <2>4. \A e \in T : IsEvent(e) /\ wmDisk < e[1] /\ e[1] <= L
    <3> SUFFICES ASSUME NEW e \in T PROVE IsEvent(e) /\ wmDisk < e[1] /\ e[1] <= L
      BY Zenon
    <3>1. PICK s \in wmDisk + 1 .. L : e \in Ev(s)
      BY Zenon DEF EvBetween
    <3>2. s \in 1 .. Len(journal) /\ wmDisk < s /\ s <= L
      BY <1>3
    <3> QED
      BY Zenon, <1>1, <3>1, <3>2, EvIsEvent
  <2>5. TypeOK
    BY Zenon, <1>1
  <2>6. /\ \A e \in T :
             /\ e[2] + 1 < journal[e[1]].n => <<e[1], e[2] + 1>> \in T
             /\ e[2] + 1 = journal[e[1]].n /\ e[1] < L => <<e[1] + 1, 0>> \in T
        /\ <<wmDisk + 1, 0>> \in T
        /\ \A m \in T : (\A f \in T \ {m} : Before(m, f)) => m[1] = wmDisk + 1 /\ m[2] = 0
    <3>1. wmDisk \in Nat /\ wmDisk < L /\ L \in 1 .. Len(journal)
      BY Zenon, <1>3, <1>7, <2>1
    <3> HIDE DEF L, T
    <3> QED
      BY Zenon, <3>1, <2>2, <2>3, <2>4, <2>5, RunStarts
  <2>7. TodoIsTail'
    <3> HIDE DEF T
    <3> QED
      BY Zenon, <1>2, <2>1, <2>4, <2>6 DEF TodoIsTail, IsEvent
  <2>8. NextComes'
    <3> HIDE DEF T
    <3>1. \A m \in T : (\A f \in T \ {m} : Before(m, f)) => m[1] - 1 = wmDisk /\ m[2] = 0
      BY <1>3, <2>6
    <3> QED
      BY Zenon, <1>2, <1>3, <2>1, <2>6, <3>1 DEF NextComes, Comes, Past, Before
  <2> QED
    BY Zenon, <1>1, <1>5, <2>7, <2>8 DEF SInv
<1> QED
  BY Zenon, <1>4, <1>6, <1>7

LEMMA BootPublishedOrder == SInv /\ BootPublished => SInv'
<1> SUFFICES ASSUME SInv, BootPublished PROVE SInv'
  BY Zenon
<1>1. IInv' /\ Publishing /\ out.todo = {} /\ Confirms = out.seq /\ waiting = 0 /\ ring = {}
  BY Zenon, BootPublishedSafe DEF SInv, IInv, TInv, BootPublished, Publishing, Confirms, Locks
<1>2. /\ journal' = journal /\ newest' = newest /\ ring' = ring /\ waiting' = waiting
      /\ wm' = Confirms /\ wmDisk' = Confirms /\ out'.stage = "free"
  BY Zenon, <1>1 DEF BootPublished, streamVars, Free
<1>3. Confirms \in 1 .. Len(journal) /\ Past(Confirms)
  BY Zenon, <1>1, FinishedIsPast
<1>4. Marks'
  BY <1>1, <1>2, <1>3 DEF SInv, Marks, Past, IsEvent
<1> QED
  BY Zenon, <1>1, <1>2, <1>4, QuietOrder

LEMMA OrderStep == SInv /\ [Next]_vars => SInv'
<1> SUFFICES ASSUME SInv, [Next]_vars PROVE SInv'
  BY Zenon
<1>1. CASE UNCHANGED vars
  <2>1. IInv'
    BY Zenon, <1>1, SafeStep DEF SInv
  <2> QED
    BY Zenon, <1>1, <2>1 DEF vars, diskVars, memVars, streamVars, SInv, Marks, TodoIsTail, NextComes, Past,
                      Comes, Confirms, Publishing, IsEvent, Before
<1> QED
  BY Zenon, <1>1, SubmitOrder, TakeEgressOrder, RecordOrder, XAddOrder, GapPublishedOrder,
     OwnPublishedOrder, RequestFailsOrder, CrashOrder, ShutdownOrder, RecoverOrder,
     BootPublishedOrder DEF Next

-----------------------------------------------------------------------------
\* The stream is the one EngineStream promises.

LEMMA StreamInit == Init => Stream!Init
<1> SUFFICES ASSUME Init PROVE Stream!Init
  BY Zenon
<1>1. Len(journal) = 0 /\ newest = <<0, 0>>
  BY Zenon DEF Init
<1> QED
  BY <1>1 DEF Stream!Init

\* The refinement mapping at one sequence.
LEMMA StreamJournal ==
  ASSUME TypeOK
  PROVE  /\ Len([s \in 1 .. Len(journal) |-> journal[s].n]) = Len(journal)
         /\ \A t \in 1 .. Len(journal) :
              /\ [s \in 1 .. Len(journal) |-> journal[s].n][t] = journal[t].n
              /\ Stream!LastIdx(t) = journal[t].n - 1
BY DEF TypeOK, Stream!LastIdx

\* A command is journaled with the events it emits.
LEMMA SubmitJournals == TypeOK /\ Submit => Stream!Journal
<1> SUFFICES ASSUME TypeOK, Submit PROVE Stream!Journal
  BY Zenon
<1>1. PICK kind \in Kinds, n \in 1 .. MaxEvents : journal' = Append(journal, [kind |-> kind, n |-> n])
  BY Zenon DEF Submit, Journaled
<1>2. newest' = newest
  BY Zenon DEF Submit, Journaled, streamVars
<1>3. /\ Len(journal') = Len(journal) + 1 /\ Len(journal) \in Nat
      /\ \A s \in 1 .. Len(journal) : journal'[s] = journal[s]
  BY Zenon, JournalGrows DEF Submit
<1>4. journal'[Len(journal) + 1].n = n
  BY <1>1 DEF TypeOK
<1>5. [s \in 1 .. Len(journal') |-> journal'[s].n] =
        Append([s \in 1 .. Len(journal) |-> journal[s].n], n)
  BY <1>3, <1>4
<1> QED
  BY Zenon, <1>2, <1>5 DEF Stream!Journal

\* One XADD is the entry after the newest one or the start of a command that
\* is in the stream already.
LEMMA XAddAdds == SInv /\ XAdd => Stream!Add \/ Stream!Restart
<1> SUFFICES ASSUME SInv, XAdd PROVE Stream!Add \/ Stream!Restart
  BY Zenon
<1> DEFINE J == [s \in 1 .. Len(journal) |-> journal[s].n]
<1>1. TypeOK /\ Publishing
  BY Zenon DEF SInv, IInv, TInv, XAdd
<1>2. PICK e \in out.todo :
        /\ \A f \in out.todo \ {e} : Before(e, f)
        /\ newest' = e
  BY Zenon DEF XAdd
<1>3. journal' = journal
  BY Zenon DEF XAdd, diskVars
<1>4. IsEvent(e) /\ Comes(e) /\ (newest = <<0, 0>> \/ IsEvent(newest))
  BY Zenon, <1>1, <1>2 DEF SInv, TodoIsTail, NextComes, Marks
<1>5. /\ newest \in Nat \X Nat /\ e \in Nat \X Nat /\ Len(journal) \in Nat
      /\ newest = <<newest[1], newest[2]>> /\ e = <<e[1], e[2]>>
      /\ newest[1] \in 0 .. Len(journal)
  BY <1>1, <1>4, BoundsAssumption DEF TypeOK, Key, IsEvent
<1>6. /\ Len(J) = Len(journal)
      /\ \A t \in 1 .. Len(journal) : Stream!LastIdx(t) = journal[t].n - 1 /\ journal[t].n \in Nat
  <2>1. \A t \in 1 .. Len(journal) : journal[t].n \in Nat
    <3>1. \A t \in 1 .. Len(journal) : journal[t].n \in 1 .. MaxEvents
      BY Zenon, <1>1, EvFacts
    <3> QED
      BY <3>1, BoundsAssumption
  <2> QED
    BY Zenon, <1>1, <2>1, StreamJournal
<1>7. Stream!LastIdx(0) = 0
  BY Zenon DEF Stream!LastIdx
<1>8. CASE e[1] = newest[1] /\ e[2] = newest[2] + 1
  <2>1. e[1] \in 1 .. Len(journal) /\ e[2] \in 0 .. journal[e[1]].n - 1
    BY Zenon, <1>4 DEF IsEvent
  <2>2. newest[2] < Stream!LastIdx(newest[1])
    BY <1>5, <1>6, <1>8, <2>1
  <2>3. e = Stream!NextKey(newest)
    BY Zenon, <1>5, <1>8, <2>2 DEF Stream!NextKey
  <2>4. newest # <<Len(J), Stream!LastIdx(Len(J))>>
    <3>1. newest[1] = Len(J) => Stream!LastIdx(Len(J)) = Stream!LastIdx(newest[1])
      BY Zenon
    <3>2. Stream!LastIdx(newest[1]) \in Int
      BY <1>6, <1>8, <2>1
    <3> QED
      BY <2>2, <3>1, <3>2, <1>5
  <2> QED
    BY Zenon, <1>2, <1>3, <2>3, <2>4 DEF Stream!Add
<1>9. CASE e[2] = 0 /\ newest[1] >= e[1]
  <2>1. e[1] \in 1 .. newest[1]
    BY <1>4, <1>5, <1>9 DEF IsEvent
  <2>2. newest' = <<e[1], 0>>
    BY Zenon, <1>2, <1>5, <1>9
  <2> QED
    BY Zenon, <1>3, <2>1, <2>2 DEF Stream!Restart
<1>10. CASE e[2] = 0 /\ newest[1] = e[1] - 1 /\ Past(e[1] - 1)
  <2>1. e[1] \in 1 .. Len(journal)
    BY Zenon, <1>4 DEF IsEvent
  <2>2. newest[2] = Stream!LastIdx(newest[1])
    <3>1. CASE newest[1] = 0
      BY <1>4, <1>7, <3>1 DEF IsEvent
    <3>2. CASE newest[1] # 0
      BY <1>5, <1>6, <1>10, <3>2 DEF Past
    <3> QED
      BY Zenon, <3>1, <3>2
  <2>3. Stream!NextKey(newest) = <<newest[1] + 1, 0>>
    BY <1>5, <2>2 DEF Stream!NextKey
  <2>4. e = <<newest[1] + 1, 0>>
    BY <1>5, <1>10
  <2>5. newest # <<Len(J), Stream!LastIdx(Len(J))>>
    BY <1>5, <1>6, <1>10, <2>1
  <2> QED
    BY Zenon, <1>2, <1>3, <2>3, <2>4, <2>5 DEF Stream!Add
<1>11. e[2] = 0 /\ Past(e[1] - 1) => newest[1] >= e[1] \/ newest[1] = e[1] - 1
  BY <1>5 DEF Past
<1> QED
  BY Zenon, <1>4, <1>8, <1>9, <1>10, <1>11 DEF Comes

\* Every other step leaves journal and stream alone.
LEMMA StreamStep == SInv /\ [Next]_vars => [Stream!Next]_Stream!vars
<1> SUFFICES ASSUME SInv, [Next]_vars PROVE [Stream!Next]_Stream!vars
  BY Zenon
<1>1. TypeOK
  BY Zenon DEF SInv, IInv, TInv
<1>2. CASE Submit
  BY Zenon, <1>1, <1>2, SubmitJournals DEF Stream!Next
<1>3. CASE XAdd
  BY Zenon, <1>3, XAddAdds DEF Stream!Next
<1>4. CASE journal' = journal /\ newest' = newest
  BY Zenon, <1>4 DEF Stream!vars
<1>5. TakeEgress \/ Record \/ Crash \/ Recover \/ UNCHANGED vars => journal' = journal /\ newest' = newest
  BY Zenon DEF TakeEgress, Record, Crash, Recover, vars, diskVars, streamVars
<1>6. GapPublished \/ OwnPublished \/ RequestFails \/ Shutdown \/ BootPublished =>
        journal' = journal /\ newest' = newest
  BY Zenon DEF GapPublished, OwnPublished, RequestFails, Shutdown, BootPublished, diskVars, streamVars
<1> QED
  BY Zenon, <1>2, <1>3, <1>4, <1>5, <1>6 DEF Next

\* Through crashes, failed publishes, watermarks that lag and restarts, the
\* stream the engine writes only ever moves on by one event or back to the
\* start of a command it has published some of, for journals, rings and
\* cadences of any size: what SequencedConsumer's publisher is assumed to do
\* (Service::submit, Service::boot, republish_gap).
THEOREM ImplementsStreamAlways == Spec => ImplementsStream
<1>1. Init => SInv
  BY Zenon, OrderInit
<1>2. SInv /\ [Next]_vars => SInv'
  BY Zenon, OrderStep
<1>3. Init => Stream!Init
  BY Zenon, StreamInit
<1>4. SInv /\ [Next]_vars => [Stream!Next]_Stream!vars
  BY Zenon, StreamStep
<1> QED
  BY <1>1, <1>2, <1>3, <1>4, PTL DEF Spec, ImplementsStream, Stream!Spec

=============================================================================
