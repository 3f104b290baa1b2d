--------------------------- MODULE InOrderDelivery ---------------------------
(***************************************************************************)
(* What a sequenced consumer promises: of the events a growing journal     *)
(* holds, a prefix has been applied - in order, each once, none left out.  *)
(* How the events travel, and what fails on the way, does not show.        *)
(***************************************************************************)
EXTENDS Integers, Sequences

CONSTANT MaxEvents   \* bound: events one command emits

VARIABLES
  journal,   \* events emitted by each journaled command
  applied    \* keys of the applied events, in the order they were applied

vars == <<journal, applied>>

\* Every key of a journal: <<seq, idx>> with idx counted from zero.
Keys(j) == UNION {{<<s, i>> : i \in 0 .. j[s] - 1} : s \in 1 .. Len(j)}

Before(a, b) == a[1] < b[1] \/ (a[1] = b[1] /\ a[2] < b[2])

Init == journal = <<>> /\ applied = <<>>

\* The engine journals one more command.
Journal ==
  /\ \E n \in 1 .. MaxEvents : journal' = Append(journal, n)
  /\ UNCHANGED applied

\* The first event not yet applied is applied.
Apply ==
  /\ \E k \in Keys(journal) :
       /\ \A i \in 1 .. Len(applied) : applied[i] # k
       /\ \A j \in Keys(journal) :
            Before(j, k) => \E i \in 1 .. Len(applied) : applied[i] = j
       /\ applied' = Append(applied, k)
  /\ UNCHANGED journal

Next == Journal \/ Apply

Spec == Init /\ [][Next]_vars

=============================================================================
