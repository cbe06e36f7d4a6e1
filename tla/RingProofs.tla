---------------------------- MODULE RingProofs ----------------------------
(***************************************************************************)
(* The ring's invariant, for every capacity, word size and payload set.    *)
(***************************************************************************)
EXTENDS Ring, TLAPS

---------------------------------------------------------------------------
(* Arithmetic modulo Word and Capacity *)

\* Quotient and remainder.
LEMMA DivMod ==
  ASSUME NEW c \in Nat \ {0}, NEW x \in Int
  PROVE  /\ x \div c \in Int
         /\ x % c \in 0 .. c - 1
         /\ x = c * (x \div c) + (x % c)
  BY SMT

\* Remainders of numbers at most one modulus away from the range.
LEMMA ModCases ==
  ASSUME NEW c \in Nat \ {0}, NEW x \in Int
  PROVE  /\ x \in 0 .. c - 1 => x % c = x
         /\ x \in c .. 2 * c - 1 => x % c = x - c
         /\ x \in (-c) .. -1 => x % c = x + c
  BY SMT

\* Multiples of c are at least c apart.
LEMMA MultipleGap ==
  ASSUME NEW c \in Nat \ {0}, NEW p \in Int, NEW q \in Int, p < q
  PROVE  c * q - c * p >= c
  BY SMT

\* Two numbers less than c apart have different remainders.
LEMMA ModDistinct ==
  ASSUME NEW c \in Nat \ {0}, NEW x \in Int, NEW y \in Int, x < y, y - x < c
  PROVE  x % c # y % c
<1> SUFFICES ASSUME x % c = y % c PROVE FALSE
  OBVIOUS
<1> DEFINE p == x \div c
           q == y \div c
<1>1. p \in Int /\ q \in Int /\ x % c \in Int /\ x = c * p + (x % c) /\ y = c * q + (y % c)
  BY DivMod
<1> HIDE DEF p, q
<1>2. c * p \in Int /\ c * q \in Int
  BY <1>1
<1>3. CASE p < q
  <2>1. c * q - c * p >= c
    BY <1>1, <1>3, MultipleGap
  <2> QED BY <2>1, <1>1, <1>2
<1>4. CASE p = q
  BY <1>1, <1>2, <1>4
<1>5. CASE q < p
  <2>1. c * p - c * q >= c
    BY <1>1, <1>5, MultipleGap
  <2> QED BY <2>1, <1>1, <1>2
<1> QED BY <1>1, <1>3, <1>4, <1>5

\* A whole number of laps does not change the slot.
LEMMA ModShift ==
  ASSUME NEW c \in Nat \ {0}, NEW w \in Nat, w % c = 0, NEW x \in Int
  PROVE  (x - w) % c = x % c
<1> DEFINE k == w \div c
           p == x \div c
           r == x % c
<1>1. w = c * k /\ k \in Int
  BY DivMod
<1>2. x = c * p + r /\ p \in Int /\ r \in 0 .. c - 1
  BY DivMod
<1> HIDE DEF k, p
<1>3. c * p - c * k = c * (p - k) /\ c * p \in Int /\ c * k \in Int /\ c * (p - k) \in Int
  BY <1>1, <1>2
<1>4. x - w = c * (p - k) + r
  BY <1>1, <1>2, <1>3
<1> HIDE DEF r
<1>5. \A m \in Int : (c * m + r) % c = r
  BY <1>2
<1>6. (c * (p - k) + r) % c = r
  BY <1>1, <1>2, <1>5
<1> QED BY <1>4, <1>6 DEF r

---------------------------------------------------------------------------
(* What the ring's index arithmetic computes *)

\* Capacity and Word as numbers, Word a multiple of Capacity.
LEMMA Sizes ==
  /\ Capacity \in Nat \ {0} /\ Word \in Nat \ {0} /\ 2 * Capacity <= Word
  /\ Word % Capacity = 0
  BY CapacityAssumption, WordAssumption

\* Indices and slots have their types.
LEMMA IndexTypes ==
  /\ \A a, b \in Int : Sub(a, b) \in Seq64 /\ Add(a, b) \in Seq64
  /\ \A s \in Int : At(s) \in Index
<1>1. \A a, b \in Int : Sub(a, b) \in Seq64
  BY Sizes, DivMod DEF Sub, Seq64
<1>2. \A a, b \in Int : Add(a, b) \in Seq64
  BY Sizes, DivMod DEF Add, Seq64
<1>3. \A s \in Int : At(s) \in Index
  BY Sizes, DivMod DEF At, Index
<1> QED BY <1>1, <1>2, <1>3

\* The same for operands in range.
LEMMA RangeTypes ==
  \A a, b \in Seq64 : Sub(a, b) \in Seq64 /\ Add(a, 1) \in Seq64 /\ a \in Nat /\ a <= Word - 1
<1>1. \A a \in Seq64 : a \in Nat /\ a \in Int /\ a <= Word - 1
  BY Sizes DEF Seq64
<1> QED BY <1>1, IndexTypes

\* Add and Sub by cases, for operands in range.
LEMMA AddCases ==
  ASSUME NEW s \in Seq64, NEW n \in 0 .. Word - 1
  PROVE  Add(s, n) = IF s + n < Word THEN s + n ELSE s + n - Word
<1>1. s + n \in 0 .. 2 * Word - 1
  BY Sizes DEF Seq64
<1>2. CASE s + n < Word
  <2>1. (s + n) % Word = s + n
    BY <1>1, <1>2, Sizes, ModCases
  <2> QED BY <1>2, <2>1 DEF Add
<1>3. CASE ~(s + n < Word)
  <2>1. (s + n) % Word = (s + n) - Word
    BY <1>1, <1>3, Sizes, ModCases
  <2> QED BY <1>1, <1>3, <2>1, Sizes DEF Add, Seq64
<1> QED BY <1>2, <1>3

\* The distance between two indices, by whether the later one has wrapped.
LEMMA SubCases ==
  ASSUME NEW a \in Seq64, NEW b \in Seq64
  PROVE  Sub(a, b) = IF b <= a THEN a - b ELSE a - b + Word
<1> DEFINE d == a - b
<1>1. d \in Int /\ Word \in Nat \ {0}
  BY Sizes DEF Seq64
<1>2. CASE b <= a
  <2>1. d \in 0 .. Word - 1
    BY <1>2, Sizes DEF Seq64
  <2> HIDE DEF d
  <2>2. d % Word = d
    BY <1>1, <2>1, ModCases
  <2> QED BY <1>2, <2>2 DEF Sub, d
<1>3. CASE ~(b <= a)
  <2>1. d \in (-Word) .. -1
    BY <1>3, Sizes DEF Seq64
  <2> HIDE DEF d
  <2>2. d % Word = d + Word
    BY <1>1, <2>1, ModCases
  <2> QED BY <1>3, <2>2 DEF Sub, d
<1> QED BY <1>2, <1>3

\* Publishing a slot makes one more unread.
LEMMA SubPublish ==
  ASSUME NEW h \in Seq64, NEW t \in Seq64, Sub(h, t) < Word - 1
  PROVE  Sub(Add(h, 1), t) = Sub(h, t) + 1
<1>1. 1 \in 0 .. Word - 1 /\ h \in Int
  BY Sizes DEF Seq64
<1>2. Add(h, 1) \in Seq64
  BY <1>1, IndexTypes
<1>3. Add(h, 1) = IF h + 1 < Word THEN h + 1 ELSE h + 1 - Word
  BY <1>1, AddCases
<1>4. Sub(h, t) = IF t <= h THEN h - t ELSE h - t + Word
  BY SubCases
<1>5. Sub(Add(h, 1), t) = IF t <= Add(h, 1) THEN Add(h, 1) - t ELSE Add(h, 1) - t + Word
  BY <1>2, SubCases
<1> QED BY <1>3, <1>4, <1>5, Sizes DEF Seq64

\* Releasing n slots makes n fewer unread.
LEMMA SubRelease ==
  ASSUME NEW h \in Seq64, NEW t \in Seq64, NEW n \in Nat, n <= Sub(h, t)
  PROVE  Sub(h, Add(t, n)) = Sub(h, t) - n
<1>1. Sub(h, t) \in Seq64
  BY IndexTypes DEF Seq64
<1>2. n \in 0 .. Word - 1
  BY <1>1, Sizes DEF Seq64
<1>3. Add(t, n) \in Seq64
  BY <1>2, IndexTypes DEF Seq64
<1>4. Add(t, n) = IF t + n < Word THEN t + n ELSE t + n - Word
  BY <1>2, AddCases
<1>5. Sub(h, t) = IF t <= h THEN h - t ELSE h - t + Word
  BY SubCases
<1>6. Sub(h, Add(t, n)) = IF Add(t, n) <= h THEN h - Add(t, n) ELSE h - Add(t, n) + Word
  BY <1>3, SubCases
<1> QED BY <1>4, <1>5, <1>6, Sizes DEF Seq64

\* The slot after the last unread one is the head's.
LEMMA AddUnread ==
  ASSUME NEW h \in Seq64, NEW t \in Seq64
  PROVE  Add(t, Sub(h, t)) = h
<1>1. Sub(h, t) \in 0 .. Word - 1
  BY IndexTypes DEF Seq64
<1> QED BY <1>1, Sizes, AddCases, SubCases DEF Seq64

\* Positions counted from a released tail.
LEMMA AddAdd ==
  ASSUME NEW t \in Seq64, NEW n \in Nat, NEW i \in Nat, n + i < Word
  PROVE  Add(Add(t, n), i) = Add(t, n + i)
<1>1. n \in 0 .. Word - 1 /\ i \in 0 .. Word - 1 /\ n + i \in 0 .. Word - 1
  BY Sizes
<1>2. Add(t, n) \in Seq64
  BY <1>1, IndexTypes DEF Seq64
<1> QED BY <1>1, <1>2, Sizes, AddCases DEF Seq64

\* Zero slots after an index is the index.
LEMMA AddZero == \A t \in Seq64 : Add(t, 0) = t
  BY Sizes, AddCases DEF Seq64

\* Slots less than a lap apart are different slots, also across the wrap.
LEMMA AtDistinct ==
  ASSUME NEW t \in Seq64, NEW i \in Nat, NEW j \in Nat, i < j, j - i < Capacity,
         j < Word
  PROVE  At(Add(t, i)) # At(Add(t, j))
<1>1. t \in Int /\ t + i \in Int /\ t + j \in Int
  BY Sizes DEF Seq64
<1>2. \A n \in 0 .. Word - 1 : At(Add(t, n)) = (t + n) % Capacity
  <2> SUFFICES ASSUME NEW n \in 0 .. Word - 1
               PROVE  At(Add(t, n)) = (t + n) % Capacity
    OBVIOUS
  <2>1. CASE t + n < Word
    BY <2>1, AddCases DEF At
  <2>2. CASE ~(t + n < Word)
    <3>1. Add(t, n) = (t + n) - Word
      BY <1>1, <2>2, Sizes, AddCases
    <3>2. t + n \in Int
      BY <1>1, Sizes
    <3>3. ((t + n) - Word) % Capacity = (t + n) % Capacity
      BY <3>2, Sizes, ModShift
    <3> QED BY <3>1, <3>3 DEF At
  <2> QED BY <2>1, <2>2
<1>3. i \in 0 .. Word - 1 /\ j \in 0 .. Word - 1
  BY Sizes
<1>4. t + i < t + j /\ (t + j) - (t + i) < Capacity
  BY <1>1, Sizes
<1>5. (t + i) % Capacity # (t + j) % Capacity
  BY <1>1, <1>4, Sizes, ModDistinct
<1> QED BY <1>2, <1>3, <1>5

---------------------------------------------------------------------------
(* The invariant *)

\* ring_init establishes the invariant.
LEMMA InitInv == Init => RingInv
<1> SUFFICES ASSUME Init PROVE RingInv
  OBVIOUS
<1>1. 0 \in Seq64 /\ Sub(0, 0) = 0
  BY Sizes, SubCases DEF Seq64
<1>2. TypeOK
  BY <1>1, Sizes DEF Init, TypeOK, Zeroed, Slot, Content
<1>3. RoomInv /\ SlotInv /\ ConsumerInv
  BY <1>1, Sizes DEF Init, RoomInv, SlotInv, ConsumerInv, Unread, PushWindow, PeekCopy, Index
<1> QED BY <1>2, <1>3 DEF RingInv

\* What every step may use of the types.
LEMMA UnreadType ==
  ASSUME TypeOK
  PROVE  /\ Unread \in 0 .. Word - 1
         /\ \A i \in Nat : At(Add(tail, i)) \in Index /\ Add(tail, i) \in Seq64
         /\ At(head) \in Index
<1>1. head \in Int /\ tail \in Int
  BY Sizes DEF TypeOK, Seq64
<1>2. Unread \in Seq64
  BY <1>1, IndexTypes DEF Unread
<1>3. \A i \in Nat : Add(tail, i) \in Seq64 /\ Add(tail, i) \in Int
  BY <1>1, Sizes, IndexTypes DEF Seq64
<1> QED BY <1>1, <1>2, <1>3, IndexTypes DEF Seq64

\* A store to the slot at head, inside the window, leaves the unread slots alone.
LEMMA StoreAtHead ==
  ASSUME RingInv, ppc \in PushWindow, NEW x \in Slot,
         slot' = [slot EXCEPT ![At(head)] = x]
  PROVE  /\ slot' \in [Index -> Slot]
         /\ slot'[At(head)] = x
         /\ \A i \in Index : i < Unread => slot'[At(Add(tail, i))] = slot[At(Add(tail, i))]
<1>0. /\ Unread \in 0 .. Word - 1
      /\ \A i \in Nat : At(Add(tail, i)) \in Index
      /\ At(head) \in Index
  BY UnreadType DEF RingInv
<1>1. Unread < Capacity /\ slot \in [Index -> Slot] /\ head \in Seq64 /\ tail \in Seq64
  BY DEF RingInv, RoomInv, TypeOK
<1>2. Add(tail, Unread) = head
  BY <1>1, AddUnread DEF Unread
<1>3. \A i \in Index : i < Unread => At(Add(tail, i)) # At(head)
  BY <1>0, <1>1, <1>2, Sizes, AtDistinct DEF Index
<1>4. \A i \in Index : i \in Nat
  BY Sizes DEF Index
<1>5. slot' \in [Index -> Slot] /\ slot'[At(head)] = x
  BY <1>0, <1>1
<1>6. \A i \in Index : i < Unread => slot'[At(Add(tail, i))] = slot[At(Add(tail, i))]
  BY <1>0, <1>1, <1>3, <1>4
<1> QED BY <1>5, <1>6

\* Every step of ring_push, and the producer's death, keeps the invariant.
LEMMA ProducerStep ==
  ASSUME RingInv, ProducerNext
  PROVE  RingInv'
<1> TypeOK /\ RoomInv /\ SlotInv /\ ConsumerInv
  BY DEF RingInv
<1>0. /\ Unread \in 0 .. Word - 1
      /\ \A i \in Nat : At(Add(tail, i)) \in Index /\ Add(tail, i) \in Seq64
      /\ At(head) \in Index
  BY UnreadType
<1>1. ASSUME NEW v \in Content, PushCall(v) PROVE RingInv'
  <2>1. TypeOK'
    BY <1>1 DEF TypeOK, PushCall, shared, consumer, observer, PushWindow
  <2>2. Unread' = Unread
    BY <1>1 DEF PushCall, shared, Unread
  <2>3. RoomInv' /\ SlotInv' /\ ConsumerInv'
    BY <1>1, <2>2 DEF RoomInv, SlotInv, ConsumerInv, PushCall, shared, consumer,
       PushWindow, PeekCopy
  <2> QED BY <2>1, <2>3 DEF RingInv
<1>2. CASE PushReject
  <2>1. TypeOK'
    BY <1>2, Sizes DEF TypeOK, PushReject, PushReturn, consumer, observer, history,
       Content, Seq64
  <2>2. Unread' = Unread
    BY <1>2 DEF PushReject, Unread
  <2>3. RoomInv' /\ SlotInv' /\ ConsumerInv'
    BY <1>2, <2>2 DEF RoomInv, SlotInv, ConsumerInv, PushReject, PushReturn, consumer,
       PushWindow, PeekCopy
  <2> QED BY <2>1, <2>3 DEF RingInv
<1>3. CASE PushLoadHead
  <2>1. TypeOK'
    BY <1>3 DEF TypeOK, PushLoadHead, shared, consumer, observer, history, PushWindow
  <2>2. Unread' = Unread
    BY <1>3 DEF PushLoadHead, shared, Unread
  <2>3. RoomInv' /\ SlotInv' /\ ConsumerInv'
    BY <1>3, <2>2 DEF RoomInv, SlotInv, ConsumerInv, PushLoadHead, shared, consumer,
       PushWindow, PeekCopy
  <2> QED BY <2>1, <2>3 DEF RingInv
<1>4. CASE PushLoadTail
  <2>1. TypeOK'
    BY <1>4 DEF TypeOK, PushLoadTail, shared, consumer, observer, history, PushWindow
  <2>2. Unread' = Unread
    BY <1>4 DEF PushLoadTail, shared, Unread
  <2>3. ppc' = "copy" => Unread < Capacity
    BY <1>0, <1>4, Sizes DEF PushLoadTail, RoomInv, Unread
  <2>4. RoomInv' /\ SlotInv' /\ ConsumerInv'
    BY <1>4, <2>2, <2>3 DEF RoomInv, SlotInv, ConsumerInv, PushLoadTail, shared,
       consumer, PushWindow, PeekCopy
  <2> QED BY <2>1, <2>4 DEF RingInv
<1>5. CASE PushOverrun
  <2>1. TypeOK'
    BY <1>5, Sizes DEF TypeOK, PushOverrun, PushReturn, consumer, observer, history,
       Content, Seq64
  <2>2. Unread' = Unread
    BY <1>5 DEF PushOverrun, Unread
  <2>3. RoomInv' /\ SlotInv' /\ ConsumerInv'
    BY <1>5, <2>2 DEF RoomInv, SlotInv, ConsumerInv, PushOverrun, PushReturn, consumer,
       PushWindow, PeekCopy
  <2> QED BY <2>1, <2>3 DEF RingInv
<1>6. CASE PushCopy
  <2>1. phead = head /\ ppc \in PushWindow
    BY <1>6 DEF PushCopy, RoomInv, PushWindow
  <2>2. PICK s \in Seq64 : slot' = [slot EXCEPT ![At(head)] = [seq |-> s, val |-> pin]]
    BY <1>6, <2>1 DEF PushCopy
  <2> DEFINE x == [seq |-> s, val |-> pin]
  <2>3. x \in Slot
    BY DEF TypeOK, Slot
  <2>4. /\ slot' \in [Index -> Slot]
        /\ slot'[At(head)].val = pin
        /\ \A i \in Index : i < Unread => slot'[At(Add(tail, i))] = slot[At(Add(tail, i))]
    <3>1. slot' = [slot EXCEPT ![At(head)] = x]
      BY <2>2
    <3> HIDE DEF x
    <3>2. /\ slot' \in [Index -> Slot]
          /\ slot'[At(head)] = x
          /\ \A i \in Index : i < Unread => slot'[At(Add(tail, i))] = slot[At(Add(tail, i))]
      BY <2>1, <2>3, <3>1, StoreAtHead
    <3> QED BY <3>2 DEF x
  <2>5. TypeOK'
    BY <1>6, <2>4 DEF TypeOK, PushCopy, consumer, observer, history, PushWindow
  <2>6. Unread' = Unread
    BY <1>6 DEF PushCopy, Unread
  <2>7. RoomInv' /\ SlotInv'
    BY <1>6, <2>1, <2>4, <2>6 DEF RoomInv, SlotInv, PushCopy, PushWindow
  <2>8. ConsumerInv'
    <3>1. cpc = "val" => /\ cn \in Index /\ cn < Unread
                         /\ slot'[At(Add(tail, cn))] = slot[At(Add(tail, cn))]
      BY <1>0, <2>1, <2>4, Sizes DEF ConsumerInv, RoomInv, TypeOK, PeekCopy, Index
    <3>2. cop' = cop /\ cpc' = cpc /\ cn' = cn /\ ctail' = ctail /\ cout' = cout /\ tail' = tail /\ head' = head
      BY <1>6 DEF PushCopy, consumer
    <3> QED BY <1>0, <2>6, <3>1, <3>2 DEF ConsumerInv, PeekCopy
  <2> QED BY <2>5, <2>7, <2>8 DEF RingInv
<1>7. CASE PushNumber
  <2>1. phead = head /\ ppc \in PushWindow /\ slot[At(head)].val = pin /\ pin \in Content
    BY <1>7 DEF PushNumber, RoomInv, SlotInv, TypeOK, PushWindow
  <2>2. slot' = [slot EXCEPT ![At(head)] = [seq |-> head, val |-> pin]]
    <3>1. slot[At(head)] \in Slot /\ slot' = [slot EXCEPT ![At(head)].seq = head]
      BY <1>0, <1>7, <2>1 DEF PushNumber, TypeOK
    <3>2. [slot[At(head)] EXCEPT !.seq = head] = [seq |-> head, val |-> pin]
      BY <2>1, <3>1 DEF Slot
    <3> QED BY <3>1, <3>2
  <2> DEFINE x == [seq |-> head, val |-> pin]
  <2>3. x \in Slot
    BY DEF TypeOK, Slot
  <2>4. /\ slot' \in [Index -> Slot]
        /\ slot'[At(head)].val = pin /\ slot'[At(head)].seq = head
        /\ \A i \in Index : i < Unread => slot'[At(Add(tail, i))] = slot[At(Add(tail, i))]
    <3>1. slot' = [slot EXCEPT ![At(head)] = x]
      BY <2>2
    <3> HIDE DEF x
    <3>2. /\ slot' \in [Index -> Slot]
          /\ slot'[At(head)] = x
          /\ \A i \in Index : i < Unread => slot'[At(Add(tail, i))] = slot[At(Add(tail, i))]
      BY <2>1, <2>3, <3>1, StoreAtHead
    <3> QED BY <3>2 DEF x
  <2>5. TypeOK'
    BY <1>7, <2>4 DEF TypeOK, PushNumber, consumer, observer, history, PushWindow
  <2>6. Unread' = Unread
    BY <1>7 DEF PushNumber, Unread
  <2>7. RoomInv' /\ SlotInv'
    BY <1>7, <2>1, <2>4, <2>6 DEF RoomInv, SlotInv, PushNumber, PushWindow
  <2>8. ConsumerInv'
    <3>1. cpc = "val" => /\ cn \in Index /\ cn < Unread
                         /\ slot'[At(Add(tail, cn))] = slot[At(Add(tail, cn))]
      BY <1>0, <2>1, <2>4, Sizes DEF ConsumerInv, RoomInv, TypeOK, PeekCopy, Index
    <3>2. cop' = cop /\ cpc' = cpc /\ cn' = cn /\ ctail' = ctail /\ cout' = cout /\ tail' = tail /\ head' = head
      BY <1>7 DEF PushNumber, consumer
    <3> QED BY <1>0, <2>6, <3>1, <3>2 DEF ConsumerInv, PeekCopy
  <2> QED BY <2>5, <2>7, <2>8 DEF RingInv
<1>8. CASE PushPublish
  <2>1. /\ phead = head /\ Unread < Capacity /\ pin \in Payload
        /\ slot[At(head)].val = pin /\ slot[At(head)].seq = head
        /\ head \in Seq64 /\ tail \in Seq64
    BY <1>8 DEF PushPublish, RoomInv, SlotInv, TypeOK, PushWindow
  <2>2. Unread' = Unread + 1
    <3>1. Sub(head, tail) < Word - 1
      BY <1>0, <2>1, Sizes DEF Unread
    <3> QED BY <1>8, <2>1, <3>1, SubPublish DEF PushPublish, Unread
  <2>3. Add(tail, Unread) = head
    BY <2>1, AddUnread DEF Unread
  <2>4. TypeOK'
    <3>1. head' \in Seq64
      BY <1>8, <2>1, IndexTypes DEF PushPublish, Seq64
    <3> QED BY <1>8, <3>1, Sizes DEF TypeOK, PushPublish, PushReturn, consumer, observer,
               Content, Seq64
  <2>5. RoomInv'
    BY <1>0, <1>8, <2>1, <2>2, Sizes DEF RoomInv, PushPublish, PushReturn, PushWindow
  <2>6. SlotInv'
    <3>1. ASSUME NEW i \in Index, i < Unread + 1
          PROVE  slot[At(Add(tail, i))].seq = Add(tail, i) /\ slot[At(Add(tail, i))].val \in Payload
      <4>1. CASE i < Unread
        BY <3>1, <4>1 DEF SlotInv
      <4>2. CASE i = Unread
        BY <4>2, <2>1, <2>3
      <4> QED BY <1>0, <3>1, <4>1, <4>2, Sizes DEF Index
    <3> QED BY <1>8, <2>2, <3>1 DEF SlotInv, PushPublish, PushReturn, PushWindow
  <2>7. ConsumerInv'
    BY <1>0, <1>8, <2>2, Sizes DEF ConsumerInv, TypeOK, PushPublish, consumer, PeekCopy
  <2> QED BY <2>4, <2>5, <2>6, <2>7 DEF RingInv
<1>9. CASE ProducerDies
  <2>1. TypeOK'
    BY <1>9, Sizes DEF TypeOK, ProducerDies, PushReturn, shared, consumer, observer,
       Content, Seq64
  <2>2. Unread' = Unread
    BY <1>9 DEF ProducerDies, shared, Unread
  <2>3. RoomInv' /\ SlotInv' /\ ConsumerInv'
    BY <1>9, <2>2 DEF RoomInv, SlotInv, ConsumerInv, ProducerDies, PushReturn, shared,
       consumer, PushWindow, PeekCopy
  <2> QED BY <2>1, <2>3 DEF RingInv
<1> QED BY <1>1, <1>2, <1>3, <1>4, <1>5, <1>6, <1>7, <1>8, <1>9 DEF ProducerNext

\* Every step of ring_peek, ring_release and ring_pop, and the consumer's death,
\* keeps the invariant.
LEMMA ConsumerStep ==
  ASSUME RingInv, ConsumerNext
  PROVE  RingInv'
<1> TypeOK /\ RoomInv /\ SlotInv /\ ConsumerInv
  BY DEF RingInv
<1>0. /\ Unread \in 0 .. Word - 1
      /\ \A i \in Nat : At(Add(tail, i)) \in Index /\ Add(tail, i) \in Seq64
      /\ At(head) \in Index
  BY UnreadType
<1>1. ASSUME NEW op \in {"peek", "pop", "release"}, NEW n \in 0 .. Capacity + 1,
             ConsumerCall(op, n)
      PROVE  RingInv'
  <2>1. TypeOK'
    BY <1>1 DEF TypeOK, ConsumerCall, shared, producer, observer, history
  <2>2. Unread' = Unread
    BY <1>1 DEF ConsumerCall, shared, Unread
  <2>3. RoomInv' /\ SlotInv' /\ ConsumerInv'
    BY <1>1, <2>2 DEF RoomInv, SlotInv, ConsumerInv, ConsumerCall, shared, producer,
       PushWindow, PeekCopy
  <2> QED BY <2>1, <2>3 DEF RingInv
<1>2. CASE ConsumerLoadTail
  <2>1. TypeOK'
    BY <1>2 DEF TypeOK, ConsumerLoadTail, shared, producer, observer, history
  <2>2. Unread' = Unread
    BY <1>2 DEF ConsumerLoadTail, shared, Unread
  <2>3. RoomInv' /\ SlotInv' /\ ConsumerInv'
    BY <1>2, <2>2 DEF RoomInv, SlotInv, ConsumerInv, ConsumerLoadTail, shared, producer,
       PushWindow, PeekCopy
  <2> QED BY <2>1, <2>3 DEF RingInv
<1>3. CASE PeekLoadHead
  <2>1. TypeOK'
    BY <1>3, Sizes DEF TypeOK, PeekLoadHead, ConsumerReturn, shared, producer, observer,
       history, PeekCopy, Seq64
  <2>2. Unread' = Unread
    BY <1>3 DEF PeekLoadHead, shared, Unread
  <2>3. RoomInv' /\ SlotInv'
    BY <1>3, <2>2 DEF RoomInv, SlotInv, PeekLoadHead, shared, producer, PushWindow
  <2>4. ConsumerInv'
    BY <1>0, <1>3, <2>2, Sizes DEF ConsumerInv, TypeOK, PeekLoadHead, ConsumerReturn,
       shared, PeekCopy, Unread
  <2> QED BY <2>1, <2>3, <2>4 DEF RingInv
<1>4. CASE PeekCopySeq
  <2>1. cn \in Nat /\ ctail = tail
    BY <1>4, Sizes DEF PeekCopySeq, ConsumerInv, TypeOK, PeekCopy
  <2>2. slot[At(Add(ctail, cn))] \in Slot
    BY <1>0, <2>1 DEF TypeOK
  <2>3. TypeOK'
    BY <1>4, <2>2 DEF TypeOK, PeekCopySeq, shared, producer, observer, history, PeekCopy,
       Slot
  <2>4. Unread' = Unread
    BY <1>4 DEF PeekCopySeq, shared, Unread
  <2>5. RoomInv' /\ SlotInv' /\ ConsumerInv'
    BY <1>4, <2>4 DEF RoomInv, SlotInv, ConsumerInv, PeekCopySeq, shared, producer,
       PushWindow, PeekCopy
  <2> QED BY <2>3, <2>5 DEF RingInv
<1>5. CASE PeekCopyVal
  <2>1. cn \in Nat /\ ctail = tail
    BY <1>5, Sizes DEF PeekCopyVal, ConsumerInv, TypeOK, PeekCopy
  <2>2. slot[At(Add(ctail, cn))] \in Slot
    BY <1>0, <2>1 DEF TypeOK
  <2>3. got' \in Slot
    BY <1>5, <2>2 DEF TypeOK, PeekCopyVal, Slot
  <2>4. TypeOK'
    BY <1>5, <2>3, Sizes DEF TypeOK, PeekCopyVal, ConsumerReturn, shared, producer,
       observer, history, Seq64
  <2>5. Unread' = Unread
    BY <1>5 DEF PeekCopyVal, shared, Unread
  <2>6. RoomInv' /\ SlotInv' /\ ConsumerInv'
    BY <1>5, <2>5 DEF RoomInv, SlotInv, ConsumerInv, PeekCopyVal, ConsumerReturn, shared,
       producer, PushWindow, PeekCopy
  <2> QED BY <2>4, <2>6 DEF RingInv
<1>6. CASE ReleaseLoadHead
  <2>1. TypeOK'
    BY <1>6, Sizes DEF TypeOK, ReleaseLoadHead, ConsumerReturn, shared, producer, observer,
       history, Seq64
  <2>2. Unread' = Unread
    BY <1>6 DEF ReleaseLoadHead, shared, Unread
  <2>3. RoomInv' /\ SlotInv'
    BY <1>6, <2>2 DEF RoomInv, SlotInv, ReleaseLoadHead, shared, producer, PushWindow
  <2>4. ConsumerInv'
    BY <1>6, <2>2 DEF ConsumerInv, ReleaseLoadHead, ConsumerReturn, shared, PeekCopy, Unread
  <2> QED BY <2>1, <2>3, <2>4 DEF RingInv
<1>7. CASE ReleaseStore
  <2>1. /\ ctail = tail /\ cn \in Nat /\ cn <= Unread /\ Unread <= Capacity
        /\ head \in Seq64 /\ tail \in Seq64
    BY <1>7, Sizes DEF ReleaseStore, ConsumerInv, RoomInv, TypeOK
  <2>2. tail' = Add(tail, cn) /\ head' = head /\ slot' = slot
    BY <1>7, <2>1 DEF ReleaseStore
  <2>3. Unread' = Unread - cn
    BY <2>1, <2>2, SubRelease DEF Unread
  <2>4. TypeOK'
    BY <1>0, <1>7, <2>1, <2>2, Sizes DEF TypeOK, ReleaseStore, ConsumerReturn, producer,
       observer, history, Seq64
  <2>5. RoomInv'
    BY <1>0, <1>7, <2>1, <2>2, <2>3, Sizes DEF RoomInv, ReleaseStore, producer
  <2>6. SlotInv'
    <3>1. ASSUME NEW i \in Index, i < Unread'
          PROVE  /\ slot[At(Add(tail', i))].seq = Add(tail', i)
                 /\ slot[At(Add(tail', i))].val \in Payload
      <4>1. cn + i < Unread /\ cn + i \in Index /\ i \in Nat /\ cn + i < Word
        BY <1>0, <2>1, <2>3, <3>1, Sizes DEF Index
      <4>2. Add(tail', i) = Add(tail, cn + i)
        BY <2>1, <2>2, <4>1, AddAdd
      <4> QED BY <4>1, <4>2 DEF SlotInv
    <3> QED BY <1>7, <2>2, <3>1 DEF SlotInv, ReleaseStore, producer
  <2>7. ConsumerInv'
    BY <1>7 DEF ConsumerInv, ReleaseStore, ConsumerReturn, PeekCopy
  <2> QED BY <2>4, <2>5, <2>6, <2>7 DEF RingInv
<1>8. CASE ConsumerDies
  <2>1. TypeOK'
    BY <1>8, Sizes DEF TypeOK, ConsumerDies, ConsumerReturn, shared, producer, observer,
       history, Seq64
  <2>2. Unread' = Unread
    BY <1>8 DEF ConsumerDies, shared, Unread
  <2>3. RoomInv' /\ SlotInv' /\ ConsumerInv'
    BY <1>8, <2>2 DEF RoomInv, SlotInv, ConsumerInv, ConsumerDies, ConsumerReturn, shared,
       producer, PushWindow, PeekCopy
  <2> QED BY <2>1, <2>3 DEF RingInv
<1>9. 0 .. Capacity \subseteq 0 .. Capacity + 1 /\ 0 \in 0 .. Capacity + 1
  BY Sizes
<1> QED BY <1>1, <1>2, <1>3, <1>4, <1>5, <1>6, <1>7, <1>8, <1>9 DEF ConsumerNext

\* ring_depth and stuttering steps keep the invariant.
LEMMA ObserverStep ==
  ASSUME RingInv, ObserverNext \/ UNCHANGED vars
  PROVE  RingInv'
<1> TypeOK /\ RoomInv /\ SlotInv /\ ConsumerInv
  BY DEF RingInv
<1>0. 0 \in Seq64 /\ \A t \in Seq64 : Sub(head, t) \in Seq64
  BY Sizes, IndexTypes DEF TypeOK, Seq64
<1>1. TypeOK'
  <2>1. CASE DepthLoadTail
    BY <1>0, <2>1 DEF TypeOK, DepthLoadTail, shared, producer, consumer, history
  <2>2. CASE DepthLoadHead
    BY <1>0, <2>2 DEF TypeOK, DepthLoadHead, shared, producer, consumer, history
  <2>3. CASE UNCHANGED vars
    BY <2>3 DEF TypeOK, vars, shared, producer, consumer, observer, history
  <2> QED BY <2>1, <2>2, <2>3 DEF ObserverNext
<1>2. UNCHANGED <<shared, producer, consumer>>
  BY DEF ObserverNext, DepthLoadTail, DepthLoadHead, vars
<1>3. RoomInv' /\ SlotInv' /\ ConsumerInv'
  BY <1>2 DEF RoomInv, SlotInv, ConsumerInv, Unread, shared, producer, consumer,
     PushWindow, PeekCopy
<1> QED BY <1>1, <1>3 DEF RingInv

\* Every reachable state of the ring satisfies the inductive invariant: never
\* more than Capacity unread, every unread slot whole, numbered and labeled, and
\* a stale index on either side harmless (ring_push, ring_peek, ring_release).
THEOREM RingCorrect == Spec => []RingInv
<1>1. RingInv /\ [Next]_vars => RingInv'
  BY ProducerStep, ConsumerStep, ObserverStep DEF Next
<1> QED BY <1>1, InitInv, PTL DEF Spec

\* The shared ring and its users' locals always have their types.
THEOREM TypeCorrect == Spec => []TypeOK
<1>1. RingInv => TypeOK
  BY DEF RingInv
<1> QED BY <1>1, RingCorrect, PTL

\* The producer's plain stores and the consumer's plain loads of slot[] are
\* never to the same slot at the same time.
THEOREM RaceFree == Spec => []NoDataRace
<1>1. RingInv => NoDataRace
  <2> SUFFICES ASSUME RingInv, ppc \in {"copy", "number"}, cpc \in PeekCopy
               PROVE  At(phead) # At(Add(ctail, cn))
    BY DEF NoDataRace
  <2>1. /\ phead = head /\ ctail = tail /\ cn < Unread /\ Unread < Capacity
        /\ cn \in Nat /\ head \in Seq64 /\ tail \in Seq64
    BY Sizes DEF RingInv, RoomInv, ConsumerInv, TypeOK, PushWindow
  <2>2. Unread \in 0 .. Word - 1
    BY UnreadType DEF RingInv
  <2>3. Add(tail, Unread) = head
    BY <2>1, AddUnread DEF Unread
  <2>4. At(Add(tail, cn)) # At(Add(tail, Unread))
    BY <2>1, <2>2, Sizes, AtDistinct
  <2> QED BY <2>1, <2>3, <2>4
<1> QED BY <1>1, RingCorrect, PTL

---------------------------------------------------------------------------
(* The counters *)

\* Every ring_push begun is accounted for in the counters.
THEOREM DropsCounted == Spec => []NoHiddenDrop
<1>1. Init => NoHiddenDrop
  BY DEF Init, NoHiddenDrop
<1>2. RingInv /\ NoHiddenDrop /\ [Next]_vars => NoHiddenDrop'
  <2> SUFFICES ASSUME RingInv, NoHiddenDrop, [Next]_vars PROVE NoHiddenDrop'
    OBVIOUS
  <2>0. /\ offered \in Nat /\ pushed \in Nat /\ died \in Nat /\ overruns \in Nat
        /\ rejected \in Nat
    BY DEF RingInv, TypeOK
  <2>1. CASE ProducerNext
    <3>1. ASSUME NEW v \in Content, PushCall(v) PROVE NoHiddenDrop'
      BY <2>0, <3>1 DEF NoHiddenDrop, PushCall, shared
    <3>2. CASE PushReject
      BY <2>0, <3>2 DEF NoHiddenDrop, PushReject, PushReturn, history
    <3>3. CASE PushLoadHead \/ PushLoadTail
      BY <2>0, <3>3 DEF NoHiddenDrop, PushLoadHead, PushLoadTail, shared, history
    <3>4. CASE PushOverrun
      BY <2>0, <3>4 DEF NoHiddenDrop, PushOverrun, PushReturn, history
    <3>5. CASE PushCopy \/ PushNumber
      BY <2>0, <3>5 DEF NoHiddenDrop, PushCopy, PushNumber, history
    <3>6. CASE PushPublish
      BY <2>0, <3>6 DEF NoHiddenDrop, PushPublish, PushReturn
    <3>7. CASE ProducerDies
      BY <2>0, <3>7 DEF NoHiddenDrop, ProducerDies, PushReturn, shared
    <3> QED BY <2>1, <3>1, <3>2, <3>3, <3>4, <3>5, <3>6, <3>7 DEF ProducerNext
  <2>2. CASE ConsumerNext \/ ObserverNext \/ UNCHANGED vars
    <3>1. UNCHANGED <<ppc, overruns, rejected, history>>
      BY <2>2 DEF ConsumerNext, ConsumerCall, ConsumerLoadTail, PeekLoadHead, PeekCopySeq,
         PeekCopyVal, ReleaseLoadHead, ReleaseStore, ConsumerDies, ObserverNext,
         DepthLoadTail, DepthLoadHead, vars, shared, producer, history
    <3> QED BY <3>1 DEF NoHiddenDrop, history
  <2> QED BY <2>1, <2>2 DEF Next
<1> QED BY <1>1, <1>2, RingCorrect, PTL DEF Spec

\* What ring_depth's caller is in the middle of computing.
DepthInv == Unread <= pushed /\ (opc = "head" => Sub(head, otail) <= pushed) /\ depth <= pushed

\* ring_depth never returns more than was ever pushed: reading tail before head
\* keeps its caller from seeing a tail ahead of the head.
THEOREM DepthSane == Spec => []DepthNotWrapped
<1>1. Init => DepthInv
  <2>1. Sub(0, 0) = 0
    BY Sizes, SubCases DEF Seq64
  <2> QED BY <2>1 DEF Init, DepthInv, Unread
<1>2. RingInv /\ DepthInv /\ [Next]_vars => DepthInv'
  <2> SUFFICES ASSUME RingInv, DepthInv, [Next]_vars PROVE DepthInv'
    OBVIOUS
  <2>0. /\ pushed \in Nat /\ depth \in Seq64 /\ head \in Seq64 /\ tail \in Seq64
        /\ otail \in Seq64 /\ Unread \in Seq64 /\ Sub(head, otail) \in Seq64
    BY RangeTypes DEF RingInv, TypeOK, Unread
  <2>1. CASE PushPublish
    <3>1. head' = Add(head, 1) /\ tail' = tail /\ pushed' = pushed + 1
          /\ UNCHANGED <<opc, otail, depth>>
      BY <2>1 DEF PushPublish, RingInv, RoomInv, PushWindow, observer
    <3>2. ASSUME NEW t \in Seq64, Sub(head, t) <= pushed
          PROVE  Sub(Add(head, 1), t) <= pushed + 1
      <4>1. Sub(head, t) \in Nat /\ Sub(head, t) <= Word - 1
        BY <2>0, RangeTypes
      <4>2. CASE Sub(head, t) < Word - 1
        <5>1. Sub(Add(head, 1), t) = Sub(head, t) + 1
          BY <2>0, <4>2, SubPublish
        <5> QED BY <2>0, <3>2, <4>1, <5>1
      <4>3. CASE Sub(head, t) = Word - 1
        <5>1. Sub(Add(head, 1), t) \in Nat /\ Sub(Add(head, 1), t) <= Word - 1
          BY <2>0, RangeTypes
        <5> QED BY <2>0, <3>2, <4>3, <5>1, Sizes
      <4> QED BY <4>1, <4>2, <4>3, Sizes
    <3>3. Unread' <= pushed + 1
      BY <2>0, <3>1, <3>2 DEF DepthInv, Unread
    <3>4. opc = "head" => Sub(head', otail) <= pushed + 1
      BY <2>0, <3>1, <3>2 DEF DepthInv
    <3>5. depth <= pushed + 1
      BY <2>0, Sizes DEF DepthInv, Seq64
    <3> QED BY <3>1, <3>3, <3>4, <3>5 DEF DepthInv
  <2>2. CASE ReleaseStore
    <3>1. /\ tail' = Add(tail, cn) /\ head' = head /\ pushed' = pushed
          /\ UNCHANGED <<opc, otail, depth>> /\ cn \in Nat /\ cn <= Unread
      BY <2>2, Sizes DEF ReleaseStore, RingInv, ConsumerInv, TypeOK, observer, history
    <3>2. Unread' = Unread - cn
      BY <2>0, <3>1, SubRelease DEF Unread
    <3> QED BY <2>0, <3>1, <3>2, Sizes DEF DepthInv, Seq64
  <2>3. CASE DepthLoadTail
    <3>1. head' = head /\ tail' = tail /\ pushed' = pushed /\ otail' = tail /\ depth' = 0
      BY <2>3 DEF DepthLoadTail, shared, history
    <3> QED BY <2>0, <3>1 DEF DepthInv, Unread
  <2>4. CASE DepthLoadHead
    <3>1. /\ head' = head /\ tail' = tail /\ pushed' = pushed
          /\ depth' = Sub(head, otail) /\ opc' = "idle" /\ opc = "head"
      BY <2>4 DEF DepthLoadHead, shared, history
    <3> QED BY <3>1 DEF DepthInv, Unread
  <2>5. CASE UNCHANGED <<head, tail, pushed, opc, otail, depth>>
    BY <2>5 DEF DepthInv, Unread
  <2>6. ProducerNext => PushPublish \/ UNCHANGED <<head, tail, pushed, opc, otail, depth>>
    BY DEF ProducerNext, PushCall, PushReject, PushLoadHead, PushLoadTail, PushOverrun,
       PushCopy, PushNumber, ProducerDies, shared, observer, history
  <2>7. ConsumerNext => ReleaseStore \/ UNCHANGED <<head, tail, pushed, opc, otail, depth>>
    BY DEF ConsumerNext, ConsumerCall, ConsumerLoadTail, PeekLoadHead, PeekCopySeq,
       PeekCopyVal, ReleaseLoadHead, ConsumerDies, shared, observer, history
  <2>8. UNCHANGED vars => UNCHANGED <<head, tail, pushed, opc, otail, depth>>
    BY DEF vars, shared, observer, history
  <2> QED BY <2>1, <2>2, <2>3, <2>4, <2>5, <2>6, <2>7, <2>8 DEF Next, ObserverNext
<1>3. DepthInv => DepthNotWrapped
  BY DEF DepthInv, DepthNotWrapped
<1> QED BY <1>1, <1>2, <1>3, RingCorrect, PTL DEF Spec

---------------------------------------------------------------------------
(* The ring implements the queue *)

\* What a step does to the queue the shared memory stands for.
LEMMA ContentsFacts ==
  ASSUME RingInv
  PROVE  /\ Contents \in Seq(Slot) /\ Len(Contents) = Unread
         /\ \A i \in 1 .. Unread : Contents[i] = slot[At(Add(tail, i - 1))]
<1>1. Unread \in Nat /\ \A i \in 1 .. Unread : slot[At(Add(tail, i - 1))] \in Slot
  BY UnreadType, Sizes DEF RingInv, TypeOK
<1> QED BY <1>1 DEF Contents

\* Storing into the slot at head does not show.
LEMMA ContentsUnchanged ==
  ASSUME RingInv, head' = head, tail' = tail,
         \A i \in Index : i < Unread => slot'[At(Add(tail, i))] = slot[At(Add(tail, i))]
  PROVE  Contents' = Contents
<1>1. Unread \in Nat /\ Unread <= Capacity /\ Unread' = Unread
  BY UnreadType, Sizes DEF RingInv, RoomInv, Unread
<1>2. \A i \in 1 .. Unread : i - 1 \in Index /\ i - 1 < Unread
  BY <1>1, Sizes DEF Index
<1>3. \A i \in 1 .. Unread : slot'[At(Add(tail, i - 1))] = slot[At(Add(tail, i - 1))]
  BY <1>2
<1> QED BY <1>1, <1>3 DEF Contents

\* The slot stores of ring_push leave every unread slot as it was.
LEMMA PushStores ==
  ASSUME RingInv, PushCopy \/ PushNumber
  PROVE  \A i \in Index : i < Unread => slot'[At(Add(tail, i))] = slot[At(Add(tail, i))]
<1> TypeOK /\ RoomInv /\ SlotInv
  BY DEF RingInv
<1>1. phead = head /\ ppc \in PushWindow /\ At(head) \in Index
  BY UnreadType DEF PushCopy, PushNumber, RoomInv, PushWindow
<1>2. \E x \in Slot : slot' = [slot EXCEPT ![At(head)] = x]
  <2>1. CASE PushCopy
    <3>1. PICK s \in Seq64 : slot' = [slot EXCEPT ![At(head)] = [seq |-> s, val |-> pin]]
      BY <1>1, <2>1 DEF PushCopy
    <3>2. [seq |-> s, val |-> pin] \in Slot
      BY DEF TypeOK, Slot
    <3> QED BY <3>1, <3>2
  <2>2. CASE PushNumber
    <3>1. slot[At(head)] \in Slot
      BY <1>1 DEF TypeOK
    <3>2. [slot[At(head)] EXCEPT !.seq = head] \in Slot
      BY <3>1 DEF TypeOK, Slot
    <3>3. slot' = [slot EXCEPT ![At(head)] = [slot[At(head)] EXCEPT !.seq = head]]
      BY <1>1, <2>2 DEF PushNumber, TypeOK
    <3> QED BY <3>2, <3>3
  <2> QED BY <2>1, <2>2
<1> QED BY <1>1, <1>2, StoreAtHead

\* Every step that publishes and releases nothing leaves the queue as it was.
LEMMA QuietStep ==
  ASSUME RingInv, [Next]_vars, ~PushPublish, ~ReleaseStore
  PROVE  head' = head /\ Contents' = Contents
<1>1. CASE PushCopy \/ PushNumber
  <2>1. head' = head /\ tail' = tail
    BY <1>1 DEF PushCopy, PushNumber
  <2> QED BY <1>1, <2>1, PushStores, ContentsUnchanged
<1>2. CASE ~PushCopy /\ ~PushNumber
  <2>1. UNCHANGED <<head, tail, slot>>
    BY <1>2 DEF Next, ProducerNext, PushCall, PushReject, PushLoadHead, PushLoadTail,
       PushOverrun, ProducerDies, ConsumerNext, ConsumerCall, ConsumerLoadTail,
       PeekLoadHead, PeekCopySeq, PeekCopyVal, ReleaseLoadHead, ConsumerDies, ObserverNext,
       DepthLoadTail, DepthLoadHead, vars, shared
  <2> QED BY <2>1, ContentsUnchanged
<1> QED BY <1>1, <1>2

\* The shared ring implements the bounded FIFO queue of numbered samples: what
\* ring_peek hands out is the oldest unread samples, in order, whole and once
\* pushed, and ring_release drops exactly the oldest.
THEOREM RingIsQueue == Spec => IsQueue
<1>1. Init => Queue!Init
  <2> SUFFICES ASSUME Init PROVE Queue!Init
    OBVIOUS
  <2>1. Sub(0, 0) = 0
    BY Sizes, SubCases DEF Seq64
  <2>2. Contents = <<>>
    BY <2>1 DEF Init, Contents, Unread
  <2> QED BY <2>2 DEF Init, Queue!Init
<1>2. RingInv /\ [Next]_vars => [Queue!Next]_(Queue!qvars)
  <2> SUFFICES ASSUME RingInv, [Next]_vars
               PROVE  Queue!Next \/ UNCHANGED <<Contents, head, got>>
    BY DEF Queue!qvars
  <2> TypeOK /\ RoomInv /\ SlotInv /\ ConsumerInv
    BY DEF RingInv
  <2>0. /\ Contents \in Seq(Slot) /\ Len(Contents) = Unread
        /\ \A i \in 1 .. Unread : Contents[i] = slot[At(Add(tail, i - 1))]
        /\ Unread \in Nat /\ Unread <= Word - 1
    BY ContentsFacts, UnreadType, Sizes
  <2>1. CASE PushPublish
    <3>1. /\ head' = Add(head, 1) /\ tail' = tail /\ slot' = slot /\ got' = got
          /\ Unread < Capacity /\ head \in Seq64 /\ tail \in Seq64 /\ pin \in Payload
          /\ slot[At(head)] \in Slot
          /\ slot[At(head)].val = pin /\ slot[At(head)].seq = head
      BY <2>1, UnreadType DEF PushPublish, RoomInv, SlotInv, TypeOK, PushWindow, consumer
    <3>2. Unread' = Unread + 1
      <4>1. Sub(head, tail) < Word - 1
        BY <2>0, <3>1, Sizes DEF Unread
      <4> QED BY <3>1, <4>1, SubPublish DEF Unread
    <3>3. slot[At(Add(tail, Unread))] = [seq |-> head, val |-> pin]
      <4>1. Add(tail, Unread) = head
        BY <3>1, AddUnread DEF Unread
      <4> QED BY <3>1, <4>1 DEF Slot
    <3>4. Contents' = [i \in 1 .. Unread + 1 |-> slot[At(Add(tail, i - 1))]]
      BY <3>1, <3>2 DEF Contents
    <3>5. Contents' = Append(Contents, [seq |-> head, val |-> pin])
      BY <2>0, <3>3, <3>4
    <3>6. Queue!Push(pin)
      BY <2>0, <3>1, <3>5 DEF Queue!Push, Add
    <3> QED BY <3>1, <3>6 DEF Queue!Next
  <2>2. CASE ReleaseStore
    <3>1. /\ tail' = Add(tail, cn) /\ head' = head /\ slot' = slot /\ got' = got
          /\ cn \in Nat /\ cn <= Unread /\ head \in Seq64 /\ tail \in Seq64
      BY <2>2, Sizes DEF ReleaseStore, ConsumerInv, TypeOK
    <3>2. Unread' = Unread - cn
      BY <3>1, SubRelease DEF Unread
    <3>3. \A i \in 1 .. Unread - cn : Add(tail', i - 1) = Add(tail, cn + i - 1)
      <4> SUFFICES ASSUME NEW i \in 1 .. Unread - cn
                   PROVE  Add(Add(tail, cn), i - 1) = Add(tail, cn + i - 1)
        BY <3>1
      <4>1. i - 1 \in Nat /\ cn + (i - 1) < Word /\ cn + (i - 1) = cn + i - 1
        BY <2>0, <3>1, Sizes
      <4> QED BY <3>1, <4>1, AddAdd
    <3>4. Contents' = [i \in 1 .. Unread - cn |-> slot[At(Add(tail, cn + i - 1))]]
      BY <3>1, <3>2, <3>3 DEF Contents
    <3>5. \A i \in 1 .. Unread - cn : Contents[cn + i] = slot[At(Add(tail, cn + i - 1))]
      BY <2>0, <3>1
    <3>6. Contents' = SubSeq(Contents, cn + 1, Len(Contents))
      BY <2>0, <3>1, <3>4, <3>5
    <3>7. Queue!Release(cn)
      BY <3>1, <3>6 DEF Queue!Release
    <3>8. cn \in 0 .. Len(Contents)
      BY <2>0, <3>1
    <3> QED BY <3>7, <3>8 DEF Queue!Next
  <2>3. CASE ~PushPublish /\ ~ReleaseStore
    <3>1. head' = head /\ Contents' = Contents
      BY <2>3, QuietStep
    <3>2. CASE PeekCopyVal
      <4>1. /\ ctail = tail /\ cn < Unread /\ cn \in Nat
            /\ cout = slot[At(Add(ctail, cn))].seq
            /\ got' = [seq |-> cout, val |-> slot[At(Add(ctail, cn))].val]
        BY <3>2, Sizes DEF PeekCopyVal, ConsumerInv, TypeOK, PeekCopy
      <4>2. cn + 1 \in 1 .. Unread /\ (cn + 1) - 1 = cn
        BY <2>0, <4>1
      <4>3. Contents[cn + 1] = slot[At(Add(tail, cn))]
        BY <2>0, <4>2
      <4>4. slot[At(Add(tail, cn))] \in Slot
        BY <4>1, UnreadType DEF TypeOK
      <4>5. got' = Contents[cn + 1]
        BY <4>1, <4>3, <4>4 DEF Slot
      <4>6. Queue!Peek(cn + 1)
        BY <3>1, <4>5 DEF Queue!Peek
      <4> QED BY <2>0, <4>2, <4>6 DEF Queue!Next
    <3>3. CASE got' = <<>>
      BY <3>1, <3>3 DEF Queue!Next, Queue!Forget
    <3>4. CASE got' = got
      BY <3>1, <3>4
    <3>5. PeekCopyVal \/ got' = <<>> \/ got' = got
      BY <2>3 DEF Next, ProducerNext, PushCall, PushReject, PushLoadHead, PushLoadTail,
         PushOverrun, PushCopy, PushNumber, ProducerDies, ConsumerNext, ConsumerCall,
         ConsumerLoadTail, PeekLoadHead, PeekCopySeq, ReleaseLoadHead, ConsumerDies,
         ObserverNext, DepthLoadTail, DepthLoadHead, vars, consumer
    <3> QED BY <3>2, <3>3, <3>4, <3>5
  <2> QED BY <2>1, <2>2, <2>3
<1> QED BY <1>1, <1>2, RingCorrect, PTL DEF Spec, IsQueue, Queue!Spec
=============================================================================
