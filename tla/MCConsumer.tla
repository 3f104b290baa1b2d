----------------------------- MODULE MCConsumer ------------------------------
(***************************************************************************)
(* SequencedConsumer in three environments.  The steady one crashes         *)
(* processes, republishes and loses acknowledgements; in the second the     *)
(* engine also fails to answer; the stormy one has every failure there is,  *)
(* and is kept shorter.                                                     *)
(***************************************************************************)
EXTENDS SequencedConsumer

\* The second event of the second command can never be applied.
SecondOfSecond == {<<2, 1>>}

Steady == {"republish", "ack"}

ConsumerInit == Init /\ faults \in {Steady, Steady \cup {"unreachable"}, FaultKinds}

\* Bound: one crash where more than that fails.
Shorter == faults # Steady => crashes <= 1

ConsumerSpec ==
  /\ ConsumerInit
  /\ [][Next /\ Shorter']_vars
  /\ faults = Steady => ConsumerFair /\ PublisherFair

=============================================================================
