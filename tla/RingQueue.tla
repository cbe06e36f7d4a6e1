----------------------------- MODULE RingQueue -----------------------------
(***************************************************************************)
(* What the ring promises its two users (include/ipc/ring.h): a bounded    *)
(* first-in first-out queue of numbered samples.  Ring implements it.      *)
(***************************************************************************)
EXTENDS Naturals, Sequences

CONSTANTS Capacity,   \* the most samples that may wait
          Word,       \* sequence numbers are 0 .. Word - 1 and wrap
          Payload     \* what a producer may offer

VARIABLES queue,      \* the unread samples, oldest first
          next,       \* the number the next accepted sample gets
          got         \* the last sample handed to the consumer

qvars == <<queue, next, got>>

Init ==
  /\ queue = <<>>
  /\ next = 0
  /\ got = <<>>

\* An accepted push: at the back, numbered, and only when there is room.
Push(v) ==
  /\ Len(queue) < Capacity
  /\ queue' = Append(queue, [seq |-> next, val |-> v])
  /\ next' = (next + 1) % Word
  /\ UNCHANGED got

\* The i-th unread sample is copied out and stays in the queue.
Peek(i) ==
  /\ got' = queue[i]
  /\ UNCHANGED <<queue, next>>

\* The n oldest samples leave.
Release(n) ==
  /\ queue' = SubSeq(queue, n + 1, Len(queue))
  /\ UNCHANGED <<next, got>>

\* The consumer is done with the sample it was handed.
Forget ==
  /\ got' = <<>>
  /\ UNCHANGED <<queue, next>>

Next ==
  \/ \E v \in Payload : Push(v)
  \/ \E i \in 1 .. Len(queue) : Peek(i)
  \/ \E n \in 0 .. Len(queue) : Release(n)
  \/ Forget

Spec == Init /\ [][Next]_qvars
=============================================================================
