------------------------------ MODULE Recorder ------------------------------
(***************************************************************************)
(* What storaged promises its producers, whatever fails: a slot of a ring  *)
(* is freed only once its sample is recorded, and what is recorded of a    *)
(* ring is its samples in the order they were pushed, each once, from the  *)
(* first one on.                                                           *)
(***************************************************************************)
EXTENDS Integers, Sequences

CONSTANT NS   \* the rings

VARIABLES
  pushed,     \* per ring: samples pushed into it
  recorded,   \* per ring: its samples in the log, in the log's order
  freed       \* per ring: slots given back to its producer

vars == <<pushed, recorded, freed>>

\* The first k samples of a ring.
FirstOf(k) == [i \in 1 .. k |-> i - 1]

Fresh ==
  /\ pushed = [n \in NS |-> 0]
  /\ recorded = [n \in NS |-> <<>>]
  /\ freed = [n \in NS |-> 0]

Init == Fresh

Push(n) ==
  /\ pushed' = [pushed EXCEPT ![n] = @ + 1]
  /\ UNCHANGED <<recorded, freed>>

\* The log holds the first samples of every ring, those freed among them: a batch enters
\* it whole, and leaves it only while nobody has relied on it.
Record ==
  /\ \E log \in {recorded'} :
       \A n \in NS : Len(log[n]) \in freed[n] .. pushed[n] /\ log[n] = FirstOf(Len(log[n]))
  /\ UNCHANGED <<pushed, freed>>

\* Slots whose samples are recorded go back to the producer.
Free(n) ==
  /\ freed' = [freed EXCEPT ![n] = freed'[n]]
  /\ freed[n] < freed'[n] /\ freed'[n] <= Len(recorded[n])
  /\ UNCHANGED <<pushed, recorded>>

\* Power is lost: the rings of the next boot are new, the records of these are history.
Reboot == Fresh'

Next == (\E n \in NS : Push(n) \/ Free(n)) \/ Record \/ Reboot

Spec == Init /\ [][Next]_vars
=============================================================================
