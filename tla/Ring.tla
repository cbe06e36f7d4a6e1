------------------------------- MODULE Ring -------------------------------
(***************************************************************************)
(* The single-producer single-consumer ring of src/ipc/ring.c, one step    *)
(* per access to shared memory, with a third process reading its depth     *)
(* and with the death and restart of the producer or the consumer between  *)
(* any two steps.                                                          *)
(***************************************************************************)
EXTENDS Integers, Sequences

CONSTANTS Capacity,   \* RING_CAPACITY
          Word,       \* 2^64: head, tail and seq are counted modulo this
          Payload,    \* slot contents that carry a valid src
          NoLabel,    \* slot contents whose src is 0 (a zeroed slot)
          MaxOffer    \* bound: calls of ring_push in one behaviour

ASSUME CapacityAssumption == Capacity \in Nat \ {0}
ASSUME WordAssumption == Word \in Nat /\ Word % Capacity = 0 /\ Word >= 2 * Capacity
ASSUME LabelAssumption == NoLabel \notin Payload
ASSUME OfferAssumption == MaxOffer \in Nat

VARIABLES
  head, tail, overruns, rejected, slot,   \* ring_t, in shared memory
  ppc, pin, phead,                        \* the producer inside ring_push
  cop, cpc, cn, ctail, cout,              \* the consumer inside a ring call
  got,                                    \* the last slot ring_peek returned
  opc, otail, depth,                      \* a third party in ring_depth
  offered, pushed, died                   \* history: pushes begun, accepted, cut short

shared   == <<head, tail, overruns, rejected, slot>>
producer == <<ppc, pin, phead>>
consumer == <<cop, cpc, cn, ctail, cout, got>>
observer == <<opc, otail, depth>>
history  == <<offered, pushed, died>>
vars     == <<shared, producer, consumer, observer, history>>

Seq64   == 0 .. Word - 1
Index   == 0 .. Capacity - 1
Content == Payload \cup {NoLabel}
Slot    == [seq : Seq64, val : Content]

\* Unsigned 64-bit arithmetic.
Sub(a, b) == (a - b) % Word
Add(a, b) == (a + b) % Word

\* seq & MASK
At(s) == s % Capacity

\* head - tail, as it stands.
Unread == Sub(head, tail)

Zeroed == [seq |-> 0, val |-> NoLabel]

---------------------------------------------------------------------------
\* ring_init
Init ==
  /\ head = 0 /\ tail = 0 /\ overruns = 0 /\ rejected = 0
  /\ slot = [i \in Index |-> Zeroed]
  /\ ppc = "idle" /\ pin = NoLabel /\ phead = 0
  /\ cop = "none" /\ cpc = "idle" /\ cn = 0 /\ ctail = 0 /\ cout = 0
  /\ got = <<>>
  /\ opc = "idle" /\ otail = 0 /\ depth = 0
  /\ offered = 0 /\ pushed = 0 /\ died = 0

---------------------------------------------------------------------------
(* ring_push *)

\* Back to the caller: the locals are gone.
PushReturn == ppc' = "idle" /\ pin' = NoLabel /\ phead' = 0

\* The call, with the check of the label.
PushCall(v) ==
  /\ ppc = "idle"
  /\ offered < MaxOffer
  /\ offered' = offered + 1
  /\ pin' = v
  /\ ppc' = IF v \in Payload THEN "head" ELSE "reject"
  /\ UNCHANGED <<shared, phead, consumer, observer, pushed, died>>

PushReject ==
  /\ ppc = "reject"
  /\ rejected' = rejected + 1
  /\ PushReturn
  /\ UNCHANGED <<head, tail, overruns, slot, consumer, observer, history>>

PushLoadHead ==
  /\ ppc = "head"
  /\ phead' = head
  /\ ppc' = "tail"
  /\ UNCHANGED <<shared, pin, consumer, observer, history>>

\* The load of tail and the check for room, which is local.
PushLoadTail ==
  /\ ppc = "tail"
  /\ ppc' = IF Sub(phead, tail) >= Capacity THEN "overrun" ELSE "copy"
  /\ UNCHANGED <<shared, pin, phead, consumer, observer, history>>

\* Mutant: a drop nobody counts.
PushOverrunSilent ==
  /\ ppc = "overrun"
  /\ PushReturn
  /\ UNCHANGED <<shared, consumer, observer, history>>

PushOverrun ==
  /\ ppc = "overrun"
  /\ overruns' = overruns + 1
  /\ PushReturn
  /\ UNCHANGED <<head, tail, rejected, slot, consumer, observer, history>>

\* The whole of *in, the caller's own seq field included.
PushCopy ==
  /\ ppc = "copy"
  /\ \E s \in Seq64 : slot' = [slot EXCEPT ![At(phead)] = [seq |-> s, val |-> pin]]
  /\ ppc' = "number"
  /\ UNCHANGED <<head, tail, overruns, rejected, pin, phead, consumer, observer,
                 history>>

\* Mutant: the slot keeps the number its caller gave it.
PushNumberMissing ==
  /\ ppc = "number"
  /\ ppc' = "publish"
  /\ UNCHANGED <<shared, pin, phead, consumer, observer, history>>

PushNumber ==
  /\ ppc = "number"
  /\ slot' = [slot EXCEPT ![At(phead)].seq = phead]
  /\ ppc' = "publish"
  /\ UNCHANGED <<head, tail, overruns, rejected, pin, phead, consumer, observer,
                 history>>

PushPublish ==
  /\ ppc = "publish"
  /\ head' = Add(phead, 1)
  /\ pushed' = pushed + 1
  /\ PushReturn
  /\ UNCHANGED <<tail, overruns, rejected, slot, consumer, observer, offered, died>>

\* kill -9 of the producer inside ring_push.  The supervisor restarts it; it
\* attaches to the same ring and never initializes it.
ProducerDies ==
  /\ ppc # "idle"
  /\ died' = died + 1
  /\ PushReturn
  /\ UNCHANGED <<shared, consumer, observer, offered, pushed>>

---------------------------------------------------------------------------
(* ring_peek(i), ring_release(n) and ring_pop *)

ConsumerReturn == cop' = "none" /\ cpc' = "idle" /\ cn' = 0 /\ ctail' = 0 /\ cout' = 0

\* A call; the caller's slot buffer no longer counts as a result.
ConsumerCall(op, n) ==
  /\ cpc = "idle"
  /\ cop' = op
  /\ cpc' = "tail"
  /\ cn' = n
  /\ got' = <<>>
  /\ UNCHANGED <<shared, producer, ctail, cout, observer, history>>

\* The first load of ring_peek and of ring_release.
ConsumerLoadTail ==
  /\ cpc = "tail"
  /\ ctail' = tail
  /\ cpc' = "head"
  /\ UNCHANGED <<shared, producer, cop, cn, cout, got, observer, history>>

\* Mutant: off by one, ring_peek reads the slot at head.
PeekLoadHeadOneMore ==
  /\ cpc = "head" /\ cop \in {"peek", "pop"}
  /\ \/ /\ Sub(head, ctail) < cn
        /\ ConsumerReturn
     \/ /\ Sub(head, ctail) >= cn
        /\ cpc' = "seq"
        /\ UNCHANGED <<cop, cn, ctail, cout>>
  /\ UNCHANGED <<shared, producer, got, observer, history>>

\* ring_peek loads head: fewer than cn + 1 unread, and it returns false.
PeekLoadHead ==
  /\ cpc = "head" /\ cop \in {"peek", "pop"}
  /\ \/ /\ Sub(head, ctail) <= cn
        /\ ConsumerReturn
     \/ /\ Sub(head, ctail) > cn
        /\ cpc' = "seq"
        /\ UNCHANGED <<cop, cn, ctail, cout>>
  /\ UNCHANGED <<shared, producer, got, observer, history>>

\* *out = slot[...], word by word: the number first.
PeekCopySeq ==
  /\ cpc = "seq"
  /\ cout' = slot[At(Add(ctail, cn))].seq
  /\ cpc' = "val"
  /\ UNCHANGED <<shared, producer, cop, cn, ctail, got, observer, history>>

\* Mutant: the index is forgotten half way through the copy.
PeekCopyValOldest ==
  /\ cpc = "val"
  /\ got' = [seq |-> cout, val |-> slot[At(ctail)].val]
  /\ \/ /\ cop = "peek"
        /\ ConsumerReturn
     \/ /\ cop = "pop"
        /\ cop' = "release" /\ cpc' = "tail" /\ cn' = 1 /\ ctail' = 0 /\ cout' = 0
  /\ UNCHANGED <<shared, producer, observer, history>>

\* The rest of the copy.  ring_peek returns; ring_pop calls ring_release(r, 1).
PeekCopyVal ==
  /\ cpc = "val"
  /\ got' = [seq |-> cout, val |-> slot[At(Add(ctail, cn))].val]
  /\ \/ /\ cop = "peek"
        /\ ConsumerReturn
     \/ /\ cop = "pop"
        /\ cop' = "release" /\ cpc' = "tail" /\ cn' = 1 /\ ctail' = 0 /\ cout' = 0
  /\ UNCHANGED <<shared, producer, observer, history>>

\* Mutant: ring_release frees what was never pushed.
ReleaseLoadHeadUnchecked ==
  /\ cpc = "head" /\ cop = "release"
  /\ cpc' = "store"
  /\ UNCHANGED <<shared, producer, cop, cn, ctail, cout, got, observer, history>>

\* ring_release loads head: fewer than cn unread, and it returns false.
ReleaseLoadHead ==
  /\ cpc = "head" /\ cop = "release"
  /\ \/ /\ cn > Sub(head, ctail)
        /\ ConsumerReturn
     \/ /\ cn <= Sub(head, ctail)
        /\ cpc' = "store"
        /\ UNCHANGED <<cop, cn, ctail, cout>>
  /\ UNCHANGED <<shared, producer, got, observer, history>>

ReleaseStore ==
  /\ cpc = "store"
  /\ tail' = Add(ctail, cn)
  /\ ConsumerReturn
  /\ UNCHANGED <<head, overruns, rejected, slot, producer, got, observer, history>>

\* kill -9 of the consumer inside a ring call, and its restart.
ConsumerDies ==
  /\ cpc # "idle"
  /\ got' = <<>>
  /\ ConsumerReturn
  /\ UNCHANGED <<shared, producer, observer, history>>

---------------------------------------------------------------------------
(* ring_depth, called by a process that is neither end of the ring. *)

DepthLoadTail ==
  /\ opc = "idle"
  /\ otail' = tail
  /\ depth' = 0
  /\ opc' = "head"
  /\ UNCHANGED <<shared, producer, consumer, history>>

DepthLoadHead ==
  /\ opc = "head"
  /\ depth' = Sub(head, otail)
  /\ otail' = 0
  /\ opc' = "idle"
  /\ UNCHANGED <<shared, producer, consumer, history>>

---------------------------------------------------------------------------
ProducerNext ==
  \/ \E v \in Content : PushCall(v)
  \/ PushReject
  \/ PushLoadHead
  \/ PushLoadTail
  \/ PushOverrun
  \/ PushCopy
  \/ PushNumber
  \/ PushPublish
  \/ ProducerDies

ConsumerNext ==
  \/ \E i \in 0 .. Capacity : ConsumerCall("peek", i)
  \/ \E n \in 0 .. Capacity + 1 : ConsumerCall("release", n)
  \/ ConsumerCall("pop", 0)
  \/ ConsumerLoadTail
  \/ PeekLoadHead
  \/ PeekCopySeq
  \/ PeekCopyVal
  \/ ReleaseLoadHead
  \/ ReleaseStore
  \/ ConsumerDies

ObserverNext == DepthLoadTail \/ DepthLoadHead

Next == ProducerNext \/ ConsumerNext \/ ObserverNext

Spec == Init /\ [][Next]_vars

---------------------------------------------------------------------------
(* Properties *)

PushWindow == {"copy", "number", "publish"}
PeekCopy   == {"seq", "val"}

\* The variables of ring_t and of the three callers have their types.
TypeOK ==
  /\ head \in Seq64 /\ tail \in Seq64 /\ overruns \in Nat /\ rejected \in Nat
  /\ slot \in [Index -> Slot]
  /\ ppc \in {"idle", "head", "tail", "reject", "overrun"} \cup PushWindow
  /\ pin \in Content /\ phead \in Seq64
  /\ cop \in {"none", "peek", "pop", "release"}
  /\ cpc \in {"idle", "tail", "head", "store"} \cup PeekCopy
  /\ cn \in 0 .. Capacity + 1 /\ ctail \in Seq64 /\ cout \in Seq64
  /\ got \in Slot \cup {<<>>}
  /\ opc \in {"idle", "head"} /\ otail \in Seq64 /\ depth \in Seq64
  /\ offered \in Nat /\ pushed \in Nat /\ died \in Nat

\* The ring never holds more than its capacity, and a push that found room
\* still has it when it writes, however stale its tail.
RoomInv ==
  /\ Unread <= Capacity
  /\ ppc \in {"tail"} \cup PushWindow => phead = head
  /\ ppc \in PushWindow => Unread < Capacity

\* Every unread slot is whole: it carries the number of its position and a
\* payload some producer labeled, also while the next one is half written.
SlotInv ==
  /\ \A i \in Index :
       i < Unread => /\ slot[At(Add(tail, i))].seq = Add(tail, i)
                     /\ slot[At(Add(tail, i))].val \in Payload
  /\ ppc \in {"head", "tail", "overrun"} \cup PushWindow => pin \in Payload
  /\ ppc \in {"number", "publish"} => slot[At(head)].val = pin
  /\ ppc = "publish" => slot[At(head)].seq = head

\* The head the consumer read may be old, but what it promised is still there.
ConsumerInv ==
  /\ cpc \in {"head", "store"} \cup PeekCopy => ctail = tail
  /\ cpc \in PeekCopy => cn < Unread /\ cop \in {"peek", "pop"}
  /\ cpc = "val" => cout = slot[At(Add(ctail, cn))].seq
  /\ cpc = "store" => cn <= Unread

\* The inductive invariant.
RingInv == TypeOK /\ RoomInv /\ SlotInv /\ ConsumerInv

\* The producer never stores to the slot the consumer is copying (ring_push's
\* and ring_peek's plain accesses to slot[] are never concurrent).
NoDataRace ==
  ppc \in {"copy", "number"} /\ cpc \in PeekCopy => At(phead) # At(Add(ctail, cn))

\* A third party never sees the consumer ahead of the producer: the depth it
\* computes is at most the number of samples ever accepted, not near 2^64.
DepthNotWrapped == depth <= pushed

\* Every ring_push begun is accounted for: accepted, counted as an overrun,
\* counted as a rejection, cut short by a crash, or still running.
NoHiddenDrop ==
  offered = pushed + overruns + rejected + died + (IF ppc = "idle" THEN 0 ELSE 1)

---------------------------------------------------------------------------
\* The queue the shared memory stands for.
Contents == [i \in 1 .. Unread |-> slot[At(Add(tail, i - 1))]]

Queue == INSTANCE RingQueue WITH queue <- Contents, next <- head

\* The ring is a bounded FIFO queue of numbered samples: no torn, lost,
\* duplicated or reordered sample reaches the consumer.
IsQueue == Queue!Spec
=============================================================================
