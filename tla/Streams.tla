------------------------------- MODULE Streams --------------------------------
(***************************************************************************)
(* Sequences that hold what was numbered 1, 2, ... in the order it was     *)
(* handed over: what all the specifications of ports in this project say   *)
(* of their queues, packets and FIFOs put end to end.                      *)
(***************************************************************************)
EXTENDS Integers, Sequences, Functions

\* Numbers, which are positive, come in order and each once.
InOrder(s) ==
  \A i, j \in DOMAIN s : i < j /\ s[i] > 0 /\ s[j] > 0 => s[i] < s[j]

\* Of the numbers 1 .. n, s holds all but those in "without", in order, among
\* other things that are not numbers.
Carries(s, n, without) ==
  /\ InOrder(s)
  /\ {x \in Range(s) : x > 0} = (1 .. n) \ without

\* The same, and nothing else.
IsStream(s, n, without) == Carries(s, n, without) /\ \A x \in Range(s) : x > 0
=============================================================================
