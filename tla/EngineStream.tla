---------------------------- MODULE EngineStream -----------------------------
(***************************************************************************)
(* What the engine promises its stream, and what the consumers are built   *)
(* on: entries follow the journal's order without leaving one out, except  *)
(* that the engine may go back and start again at the beginning of a       *)
(* command it has already published some of.                               *)
(***************************************************************************)
EXTENDS Integers, Sequences

CONSTANT MaxEvents   \* bound: events one command emits

VARIABLES
  journal,   \* events emitted by each journaled command
  last       \* key of the newest stream entry, <<0, 0>> while there is none

vars == <<journal, last>>

LastIdx(s) == IF s = 0 THEN 0 ELSE journal[s] - 1

NextKey(k) ==
  IF k[2] < LastIdx(k[1]) THEN <<k[1], k[2] + 1>> ELSE <<k[1] + 1, 0>>

Init == journal = <<>> /\ last = <<0, 0>>

\* The engine journals one more command.
Journal ==
  /\ \E n \in 1 .. MaxEvents : journal' = Append(journal, n)
  /\ UNCHANGED last

\* The entry after the newest one is added.
Add ==
  /\ last # <<Len(journal), LastIdx(Len(journal))>>
  /\ last' = NextKey(last)
  /\ UNCHANGED journal

\* The engine starts again with a command that has entries in the stream.
Restart ==
  /\ \E s \in 1 .. last[1] : last' = <<s, 0>>
  /\ UNCHANGED journal

Next == Journal \/ Add \/ Restart

Spec == Init /\ [][Next]_vars

=============================================================================
