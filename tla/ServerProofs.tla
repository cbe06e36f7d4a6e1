---------------------------- MODULE ServerProofs ----------------------------
(***************************************************************************)
(* The connection loop's promises, for any clients, slots and deadlines.   *)
(***************************************************************************)
EXTENDS Server, FiniteSetTheorems, SequenceTheorems, WellFoundedInduction, TLAPS

---------------------------------------------------------------------------
(* The least of a set of numbers *)

\* Every nonempty set of natural numbers has a least element.
LEMMA LeastNat ==
  ASSUME NEW T \in SUBSET Nat, T # {}
  PROVE  \E x \in T : \A y \in T : x <= y
<1> DEFINE less == {p \in Nat \X Nat : p[1] < p[2]}
<1>1. IsWellFoundedOn(less, Nat)
  BY NatLessThanWellFounded DEF OpToRel
<1> HIDE DEF less
<1>2. PICK x \in T : \A y \in T : ~(<<y, x>> \in less)
  BY <1>1, WFMin
<1>3. ASSUME NEW y \in T, y < x PROVE FALSE
  BY <1>2, <1>3 DEF less
<1> QED BY <1>3

\* What Min gives for a set of natural numbers.
LEMMA MinOfNats ==
  ASSUME NEW T \in SUBSET Nat, T # {}
  PROVE  Min(T) \in T /\ \A y \in T : Min(T) <= y
<1>1. \E x \in T : \A y \in T : x <= y
  BY LeastNat
<1> QED BY <1>1 DEF Min

---------------------------------------------------------------------------
(* The parser *)

Verdicts == {"ok", "bad", "method"}
Units    == Verdicts \cup {"part"}
Statuses == Units \cup {"none", "large"}

LEMMA Constants ==
  /\ MaxConns \in Nat \ {0} /\ Deadline \in Nat \ {0} /\ MaxWait \in Nat \ {0}
  /\ AcceptPause \in Nat \ {0} /\ ReqMax \in Nat \ {0} /\ OutUnits \in Nat \ {0}
  /\ AcceptsPerStep \in Nat \ {0}
BY ServerAssumption

\* A request without an end and with room left is incomplete, and no other is.
LEMMA ParseIncomplete ==
  ASSUME NEW req \in Seq(Units)
  PROVE  Parse(req) = "incomplete" <=>
           (\A i \in DOMAIN req : req[i] = "part") /\ Len(req) < ReqMax
<1> DEFINE ends == {i \in DOMAIN req : req[i] # "part"}
<1>1. CASE ends = {}
  BY <1>1, Constants DEF Parse
<1>2. CASE ends # {}
  <2>1. Min(ends) \in ends
    BY <1>2, MinOfNats
  <2>2. req[Min(ends)] \in Verdicts
    BY <2>1 DEF Units
  <2>3. Parse(req) = req[Min(ends)]
    BY <1>2 DEF Parse
  <2> QED BY <1>2, <2>2, <2>3 DEF Verdicts
<1> QED BY <1>1, <1>2

\* The first end decides.
LEMMA ParseAt ==
  ASSUME NEW req \in Seq(Units), NEW m \in DOMAIN req, req[m] # "part",
         \A i \in DOMAIN req : i < m => req[i] = "part"
  PROVE  Parse(req) = req[m]
<1> DEFINE ends == {i \in DOMAIN req : req[i] # "part"}
<1>1. m \in ends /\ ends \in SUBSET Nat
  OBVIOUS
<1>2. Min(ends) \in ends /\ Min(ends) <= m
  BY <1>1, MinOfNats
<1>3. Min(ends) = m
  BY <1>1, <1>2
<1>4. Parse(req) = req[Min(ends)]
  BY <1>1 DEF Parse
<1> QED BY <1>3, <1>4

LEMMA ParseType ==
  ASSUME NEW req \in Seq(Units)
  PROVE  Parse(req) \in Statuses \cup {"incomplete"}
<1> DEFINE ends == {i \in DOMAIN req : req[i] # "part"}
<1>1. CASE ends = {}
  BY <1>1 DEF Parse, Statuses
<1>2. CASE ends # {}
  <2>1. Min(ends) \in ends
    BY <1>2, MinOfNats
  <2> QED BY <1>2, <2>1 DEF Parse, Statuses, Units
<1> QED BY <1>1, <1>2

\* A verdict stands whatever is sent later.
LEMMA ParseExtends ==
  ASSUME NEW req \in Seq(Units), NEW u \in Units,
         Parse(req) # "incomplete", Len(req) < ReqMax
  PROVE  Parse(Append(req, u)) = Parse(req)
<1> DEFINE ends == {i \in DOMAIN req : req[i] # "part"}
           more == Append(req, u)
<1>1. more \in Seq(Units) /\ Len(more) = Len(req) + 1
      /\ \A i \in DOMAIN req : i \in DOMAIN more /\ more[i] = req[i]
  OBVIOUS
<1>2. ends # {}
  BY ParseIncomplete
<1>3. PICK m \in ends : \A i \in ends : m <= i
  <2>1. ends \in SUBSET Nat
    OBVIOUS
  <2> HIDE DEF ends
  <2> QED BY <1>2, <2>1, LeastNat
<1>4. m \in DOMAIN req /\ req[m] # "part" /\ \A i \in DOMAIN req : i < m => req[i] = "part"
  BY <1>3
<1> HIDE DEF more, ends
<1>5. m \in DOMAIN more /\ more[m] = req[m] /\ \A i \in DOMAIN more : i < m => more[i] = "part"
  BY <1>1, <1>4
<1>6. Parse(req) = req[m]
  BY <1>4, ParseAt
<1>7. Parse(more) = more[m]
  BY <1>1, <1>4, <1>5, ParseAt
<1> QED BY <1>5, <1>6, <1>7 DEF more

\* So does the answer.
LEMMA AnswerStands ==
  ASSUME NEW sent \in Seq(Units), NEW u \in Units, Answer(sent) # "incomplete"
  PROVE  Answer(Append(sent, u)) = Answer(sent)
<1>1. CASE Len(sent) < ReqMax
  <2>1. SubSeq(sent, 1, Smaller(ReqMax, Len(sent))) = sent
    BY <1>1, Constants DEF Smaller
  <2>2. SubSeq(Append(sent, u), 1, Smaller(ReqMax, Len(Append(sent, u)))) = Append(sent, u)
    BY <1>1, Constants DEF Smaller
  <2> QED BY <1>1, <2>1, <2>2, ParseExtends DEF Answer
<1>2. CASE Len(sent) >= ReqMax
  <2>1. Smaller(ReqMax, Len(sent)) = ReqMax /\ Smaller(ReqMax, Len(Append(sent, u))) = ReqMax
    BY <1>2, Constants DEF Smaller
  <2>2. SubSeq(Append(sent, u), 1, ReqMax) = SubSeq(sent, 1, ReqMax)
    BY <1>2, Constants
  <2> QED BY <2>1, <2>2 DEF Answer
<1> QED BY <1>1, <1>2, Constants

---------------------------------------------------------------------------
(* The inductive invariant *)

ConnType ==
  [client : Clients \cup {NoClient}, state : {"FREE", "READING", "WRITING"}, left : Nat,
   req : Seq(Units), out : Nat, status : Statuses, age : Nat, phase : Nat]

ClientType ==
  [st : {"new", "queued", "open", "served", "dropped", "lost", "timeout", "closed"},
   sent : Seq(Units), rx : Seq(Units), room : Nat, rcvd : Nat, status : Statuses,
   gone : BOOLEAN]

ConnsType ==
  /\ conns \in [Slots -> ConnType] /\ cl \in [Clients -> ClientType]
  /\ queue \in Seq(Clients) /\ served \in Nat /\ drops \in Nat /\ timeouts \in Nat

LoopType ==
  /\ pause \in Nat
  /\ spc \in {"loop", "step", "polling", "handle", "accept", "down"}
  /\ wake \in Nat /\ waited \in Nat
  /\ todo \in SUBSET (0 .. MaxConns)
  /\ stop \in BOOLEAN

\* A connection being read: all its client sent is in the buffer or still to come, and
\* the buffer is no request yet.
IsReading(x, y) ==
  /\ x.state = "READING"
  /\ x.age = x.phase
  /\ x.req \o y.rx = y.sent /\ Parse(x.req) = "incomplete"
  /\ y.rcvd = 0

\* A connection being written: the answer is the client's own, and each unit of it is
\* sent or still to be sent.
IsWriting(x, y) ==
  /\ x.state = "WRITING"
  /\ x.age < x.phase + Deadline
  /\ x.status = Answer(y.sent) /\ x.status # "incomplete"
  /\ x.out + y.rcvd = OutUnits

\* Slot state x holds a connection whose client is in state y.
Held(x, y) ==
  /\ x.client \in Clients /\ y.st = "open"
  /\ x.left + x.phase = Deadline
  /\ IsReading(x, y) \/ IsWriting(x, y)

\* A slot is free or holds its client.
SlotsHold ==
  \A k \in Slots : conns[k] = FreeConn \/ Held(conns[k], cl[conns[k].client])

\* No two slots hold one client.
SlotsDiffer ==
  \A j, k \in Slots : conns[j].client = conns[k].client /\ conns[j] # FreeConn => j = k

\* An open connection has its slot.
OpenIsHeld == \A c \in Clients : cl[c].st = "open" => \E k \in Slots : conns[k].client = c

\* Before it is accepted, nothing of a client's request is read.
IsWaiting(y) == y.st = "queued" /\ y.rx = y.sent /\ y.rcvd = 0

QueueWaits ==
  /\ \A i \in DOMAIN queue : IsWaiting(cl[queue[i]])
  /\ \A i, j \in DOMAIN queue : queue[i] = queue[j] => i = j
  /\ \A c \in Clients : cl[c].st = "new" => cl[c] = NewClient

\* Who ended without an answer was refused and counted, reaped and counted, or had hung up.
Counted ==
  /\ drops = Cardinality(At("dropped"))
  /\ timeouts = Cardinality(At("timeout"))
  /\ \A c \in At("lost") : cl[c].gone

\* Nobody is cut off before statusd is down.
CutOffLast == At("closed") # {} => spc = "down"

\* After reap no deadline has passed; poll sleeps no longer than the nearest one.
NoneOverdue ==
  /\ spc \in {"handle", "accept"} => \A k \in Busy : conns[k].left > 0
  /\ spc = "polling" => \A k \in Busy : wake <= conns[k].left

\* How long the signal can still wait.
StopIsNear ==
  /\ waited <= MaxWait
  /\ ~stop \/ spc = "step" => waited = 0
  /\ spc = "polling" => waited + wake <= MaxWait

ConnInv ==
  ConnsType /\ SlotsHold /\ SlotsDiffer /\ OpenIsHeld /\ QueueWaits /\ ServedInFull /\ Counted

LoopInv == LoopType /\ NoneOverdue /\ StopIsNear /\ CutOffLast

IInv == ConnInv /\ LoopInv

---------------------------------------------------------------------------
(* What a read or a write leaves in the slot *)

\* The connection of slot k goes on in state x, its client in state y; or it has ended.
Handled(k, c, x, y) ==
  /\ conns' = [conns EXCEPT ![k] = x] /\ cl' = [cl EXCEPT ![c] = y]
  /\ x \in ConnType /\ y \in ClientType
  /\ \/ /\ x.client = c /\ Held(x, y) /\ x.left > 0
        /\ served' = served
     \/ /\ x = FreeConn /\ y.st = "lost" /\ y.gone
        /\ served' = served
     \/ /\ x = FreeConn /\ y.st = "served"
        /\ y.rcvd = OutUnits /\ y.status = Answer(y.sent)
        /\ served' = served + 1

LEMMA FreeType == FreeConn \in ConnType /\ FreeConn.state = "FREE" /\ FreeConn.client = NoClient
BY DEF FreeConn, ConnType, Statuses

LEMMA EndedType ==
  ASSUME NEW st \in {"lost", "dropped", "timeout", "closed", "served"}
  PROVE  Ended(st) \in ClientType /\ Ended(st).st = st
<1>1. <<>> \in Seq(Units) /\ "none" \in Statuses
  BY DEF Statuses
<1> QED BY <1>1 DEF Ended, NewClient, ClientType

LEMMA LostType ==
  ASSUME NEW y \in ClientType
  PROVE  Lost(y) \in ClientType /\ Lost(y).st = "lost" /\ Lost(y).gone = y.gone
<1>1. y.gone \in BOOLEAN /\ Ended("lost") \in ClientType /\ Ended("lost").st = "lost"
  BY EndedType DEF ClientType
<1> QED BY <1>1 DEF Lost, ClientType

\* conn_write sends what fits, and counts only a whole response as served.
LEMMA WriteHandles ==
  ASSUME NEW k, NEW x \in ConnType, NEW y \in ClientType,
         Held(x, y), x.state = "WRITING", x.left > 0, ConnWrite(k, x, y)
  PROVE  \E x1, y1 : Handled(k, x.client, x1, y1)
<1> DEFINE n == Smaller(y.room, x.out)
           z == [y EXCEPT !.room = @ - n, !.rcvd = @ + n]
           w == [x EXCEPT !.out = @ - n]
           e == [Ended("served") EXCEPT !.sent = y.sent, !.rcvd = z.rcvd, !.status = x.status]
<1>1. n \in Nat /\ n <= y.room /\ n <= x.out
  BY DEF Smaller, ConnType, ClientType
<1> HIDE DEF n
<1>2. x.age < x.phase + Deadline /\ x.status = Answer(y.sent) /\ x.status # "incomplete"
      /\ x.out + y.rcvd = OutUnits
  BY DEF Held, IsReading, IsWriting
<1>3. CASE n < x.out /\ conns' = [conns EXCEPT ![k] = w]
           /\ cl' = [cl EXCEPT ![x.client] = z] /\ served' = served
  <2>1. z \in ClientType /\ w \in ConnType
    <3>1. y.room - n \in Nat /\ y.rcvd + n \in Nat /\ x.out - n \in Nat
      BY <1>1 DEF ClientType, ConnType
    <3>2. z \in ClientType
      BY <3>1 DEF ClientType
    <3>3. w \in ConnType
      BY <3>1 DEF ConnType
    <3> QED BY <3>2, <3>3
  <2>2. Held(w, z) /\ w.client = x.client /\ w.left > 0
    BY <1>1, <1>2 DEF Held, IsReading, IsWriting, ClientType, ConnType
  <2> HIDE DEF w, z
  <2>3. Handled(k, x.client, w, z)
    BY <1>3, <2>1, <2>2 DEF Handled
  <2> QED BY <2>3
<1>4. CASE n = x.out /\ served' = served + 1 /\ CloseConn(k, x, e)
  <2>1. e \in ClientType /\ e.st = "served" /\ e.rcvd = OutUnits /\ e.sent = y.sent
        /\ e.status = x.status
    <3>1. z.rcvd = OutUnits
      BY <1>1, <1>2, <1>4 DEF ClientType, ConnType
    <3>2. x.status \in Statuses /\ y.sent \in Seq(Units) /\ OutUnits \in Nat
      BY Constants DEF ClientType, ConnType
    <3> HIDE DEF z
    <3> QED BY <3>1, <3>2, EndedType DEF ClientType
  <2> HIDE DEF e
  <2>2. Handled(k, x.client, FreeConn, e)
    BY <1>2, <1>4, <2>1, FreeType DEF Handled, CloseConn
  <2> QED BY <2>2
<1>5. CASE y.gone /\ CloseConn(k, x, Lost(y)) /\ served' = served
  <2>1. Handled(k, x.client, FreeConn, Lost(y))
    BY <1>5, FreeType, LostType DEF Handled, CloseConn
  <2> QED BY <2>1
<1> QED BY <1>3, <1>4, <1>5 DEF ConnWrite, n

\* Of s and t behind it, n units of t have moved over: a and b are what that leaves.
Moved(S, s, t, n, a, b) ==
  /\ a \in Seq(S) /\ b \in Seq(S) /\ a \o b = s \o t
  /\ Len(s \o t) = Len(s) + Len(t) /\ Len(a) = Len(s) + n

LEMMA SplitAt ==
  ASSUME NEW S, NEW s \in Seq(S), NEW t \in Seq(S), NEW n \in Nat, n <= Len(t)
  PROVE  Moved(S, s, t, n, s \o SubSeq(t, 1, n), SubSeq(t, n + 1, Len(t)))
<1> DEFINE a == SubSeq(t, 1, n)
           b == SubSeq(t, n + 1, Len(t))
<1>1. a \in Seq(S) /\ Len(a) = n /\ b \in Seq(S)
  OBVIOUS
<1>2. a \o b = t
  <2>1. 1 \in 1 .. Len(t) + 1 /\ n \in 1 - 1 .. Len(t) /\ Len(t) \in n .. Len(t)
    OBVIOUS
  <2>2. a \o b = SubSeq(t, 1, Len(t))
    BY <2>1, ConcatAdjacentSubSeq
  <2> QED BY <2>2, SubSeqFull
<1> HIDE DEF a, b
<1>3. (s \o a) \o b = s \o (a \o b)
  BY <1>1, ConcatAssociative
<1>4. s \o a \in Seq(S) /\ Len(s \o a) = Len(s) + n /\ Len(s \o t) = Len(s) + Len(t)
  BY <1>1, ConcatProperties
<1>5. Moved(S, s, t, n, s \o a, b)
  BY <1>1, <1>2, <1>3, <1>4 DEF Moved
<1> QED BY <1>5 DEF a, b

\* conn_read takes what fits, and answers once the parser has a verdict.
LEMMA ReadHandles ==
  ASSUME NEW k, NEW x \in ConnType, NEW y \in ClientType,
         Held(x, y), x.state = "READING", x.left > 0, ConnRead(k, x, y)
  PROVE  \E x1, y1 : Handled(k, x.client, x1, y1)
<1> DEFINE room == ReqMax - Len(x.req)
           n    == Smaller(Len(y.rx), room)
           req  == x.req \o SubSeq(y.rx, 1, n)
           rest == SubSeq(y.rx, n + 1, Len(y.rx))
           z    == [y EXCEPT !.rx = rest]
           w    == [x EXCEPT !.req = req]
           b    == [x EXCEPT !.state = "WRITING", !.left = Deadline, !.phase = 0, !.req = <<>>,
                             !.out = OutUnits, !.status = Parse(req)]
<1>1. x.req \in Seq(Units) /\ y.rx \in Seq(Units) /\ y.sent \in Seq(Units)
      /\ x.age = x.phase /\ x.req \o y.rx = y.sent /\ Parse(x.req) = "incomplete"
      /\ y.rcvd = 0 /\ x.client \in Clients /\ y.st = "open" /\ x.left + x.phase = Deadline
      /\ x.age \in Nat /\ x.phase \in Nat /\ x.left \in Nat
  BY DEF Held, IsReading, IsWriting, ConnType, ClientType
<1>2. Len(x.req) < ReqMax
  BY <1>1, ParseIncomplete
<1>3. room \in Nat /\ room > 0
  BY <1>1, <1>2, Constants
<1>4. n \in Nat /\ n <= Len(y.rx) /\ n <= room /\ (n = Len(y.rx) \/ n = room)
  BY <1>1, <1>3 DEF Smaller
<1>5. req \in Seq(Units) /\ rest \in Seq(Units) /\ req \o rest = y.sent
      /\ Len(y.sent) = Len(x.req) + Len(y.rx) /\ Len(req) = Len(x.req) + n
  <2> HIDE DEF n
  <2>1. Moved(Units, x.req, y.rx, n, req, rest)
    BY <1>1, <1>4, SplitAt
  <2> HIDE DEF req, rest
  <2> QED BY <1>1, <2>1 DEF Moved
<1>6. req = SubSeq(y.sent, 1, Smaller(ReqMax, Len(y.sent)))
  <2>2. Smaller(ReqMax, Len(y.sent)) = Len(req)
    <3> DEFINE p == Len(x.req)
               q == Len(y.rx)
    <3>1. p \in Nat /\ q \in Nat /\ Len(y.sent) = p + q /\ Len(req) = p + n
          /\ n \in Nat /\ n <= q /\ p + n <= ReqMax /\ (n = q \/ p + n = ReqMax)
      <4> HIDE DEF n, req, rest
      <4>1. p \in Nat /\ q \in Nat
        BY <1>1
      <4>2. ReqMax \in Nat
        BY Constants
      <4> HIDE DEF p, q
      <4>3. n <= ReqMax - p /\ (n = q \/ n = ReqMax - p) /\ n \in Nat /\ n <= q
        BY <1>4 DEF p, q
      <4>4. Len(y.sent) = p + q /\ Len(req) = p + n
        BY <1>5 DEF p, q
      <4> QED BY <4>1, <4>2, <4>3, <4>4
    <3> HIDE DEF p, q, n, req
    <3> QED BY <3>1, Constants DEF Smaller
  <2>3. SubSeq(req \o rest, 1, Len(req)) = req
    <3> HIDE DEF req, rest
    <3> QED BY <1>5
  <2> QED BY <1>5, <2>2, <2>3
<1>7. z \in ClientType /\ z.rx = rest /\ z.sent = y.sent /\ z.st = "open" /\ z.rcvd = 0
  BY <1>1, <1>5 DEF ClientType
<1> HIDE DEF req, rest
<1>8. CASE conns' = [conns EXCEPT ![k] = x] /\ cl' = [cl EXCEPT ![x.client] = y] /\ served' = served
  <2>1. Handled(k, x.client, x, y)
    BY <1>8 DEF Handled
  <2> QED BY <2>1
<1>9. CASE y.gone /\ CloseConn(k, x, Lost(y)) /\ served' = served
  <2>1. Handled(k, x.client, FreeConn, Lost(y))
    BY <1>9, FreeType, LostType DEF Handled, CloseConn
  <2> QED BY <2>1
<1>10. CASE Parse(req) = "incomplete" /\ conns' = [conns EXCEPT ![k] = w]
            /\ cl' = [cl EXCEPT ![x.client] = z] /\ served' = served
  <2>1. w \in ConnType /\ w.client = x.client /\ w.left = x.left /\ w.phase = x.phase
        /\ w.age = x.age /\ w.req = req /\ w.state = "READING"
    BY <1>5 DEF ConnType
  <2> HIDE DEF w, z
  <2>2. Held(w, z)
    BY <1>1, <1>5, <1>7, <1>10, <2>1 DEF Held, IsReading
  <2>3. Handled(k, x.client, w, z)
    BY <1>7, <1>10, <2>1, <2>2 DEF Handled
  <2> QED BY <2>3
<1>11. CASE Parse(req) # "incomplete" /\ ConnWrite(k, b, z)
  <2>1. Parse(req) \in Statuses /\ Parse(req) = Answer(y.sent)
    BY <1>5, <1>6, <1>11, ParseType DEF Answer
  <2>2. b \in ConnType /\ b.client = x.client /\ b.left = Deadline /\ b.phase = 0
        /\ b.age = x.age /\ b.state = "WRITING" /\ b.out = OutUnits /\ b.status = Parse(req)
    <3>1. Deadline \in Nat /\ OutUnits \in Nat /\ <<>> \in Seq(Units)
      BY Constants
    <3> QED BY <2>1, <3>1 DEF ConnType
  <2> HIDE DEF b, z
  <2>3. Held(b, z)
    BY <1>1, <1>7, <1>11, <2>1, <2>2, Constants DEF Held, IsWriting
  <2>4. b.left > 0
    BY <2>2, Constants
  <2>5. \E x1, y1 : Handled(k, b.client, x1, y1)
    BY <1>7, <1>11, <2>2, <2>3, <2>4, WriteHandles
  <2> QED BY <2>2, <2>5
<1>12. room # 0 /\ ~(room = 0)
  BY <1>3
<1> HIDE DEF room
<1> QED BY <1>12, <1>8, <1>9, <1>10, <1>11 DEF ConnRead, BeginWrite, req, rest, room

---------------------------------------------------------------------------
(* The connections *)

\* A slot that is not free is busy with a client of its own.
LEMMA BusyIsHeld ==
  ASSUME ConnInv, NEW k \in Slots
  PROVE  /\ k \in Busy <=> conns[k] # FreeConn
         /\ conns[k] # FreeConn => /\ conns[k].client \in Clients
                                  /\ Held(conns[k], cl[conns[k].client])
         /\ conns[k] = FreeConn => conns[k].client \notin Clients
<1>1. conns[k] = FreeConn => conns[k].state = "FREE" /\ conns[k].client \notin Clients
  BY FreeType, ServerAssumption
<1>2. conns[k] # FreeConn => Held(conns[k], cl[conns[k].client])
  BY DEF ConnInv, SlotsHold
<1>3. conns[k] # FreeConn => conns[k].client \in Clients /\ conns[k].state # "FREE"
  BY <1>2 DEF Held, IsReading, IsWriting
<1> QED BY <1>1, <1>2, <1>3 DEF Busy

\* The slot of one connection is updated: its own, or a free one for the next in the queue.
LEMMA SlotStep ==
  ASSUME ConnInv, NEW k \in Slots, NEW c \in Clients, NEW x, NEW y, Handled(k, c, x, y),
         \/ conns[k] # FreeConn /\ conns[k].client = c /\ queue' = queue
         \/ conns[k] = FreeConn /\ queue # <<>> /\ c = Head(queue) /\ queue' = Tail(queue),
         UNCHANGED <<drops, timeouts>>
  PROVE  /\ ConnInv'
         /\ At("closed")' = At("closed")
         /\ \A j \in Busy' : j = k \/ (j \in Busy /\ conns'[j] = conns[j])
         /\ k \in Busy' => conns'[k].left > 0
<1> USE DEF ConnInv, ConnsType
<1>1. cl[c].st \in {"open", "queued"} /\ (conns[k] = FreeConn => cl[c].st = "queued")
      /\ (conns[k] # FreeConn => cl[c].st = "open")
  <2>1. CASE conns[k] # FreeConn
    BY <2>1, BusyIsHeld DEF Held
  <2>2. CASE conns[k] = FreeConn
    <3>1. 1 \in DOMAIN queue /\ queue[1] = c
      BY <2>2
    <3> QED BY <2>2, <3>1 DEF QueueWaits, IsWaiting
  <2> QED BY <2>1, <2>2
<1>2. ASSUME NEW j \in Slots, conns[j].client = c PROVE j = k
  <2>1. conns[j] # FreeConn /\ cl[c].st = "open"
    BY <1>2, BusyIsHeld DEF Held
  <2> QED BY <1>1, <1>2, <2>1 DEF SlotsDiffer
<1>3. /\ conns' \in [Slots -> ConnType] /\ conns'[k] = x
      /\ \A j \in Slots : j # k => conns'[j] = conns[j]
      /\ cl' \in [Clients -> ClientType] /\ cl'[c] = y
      /\ \A d \in Clients : d # c => cl'[d] = cl[d]
  BY DEF Handled
<1>4. /\ x = FreeConn \/ (x.client = c /\ Held(x, y) /\ x.left > 0)
      /\ y.st = "open" => x.client = c
      /\ y.st \in {"open", "lost", "served"}
      /\ y.st = "served" => y.rcvd = OutUnits /\ y.status = Answer(y.sent) /\ served' = served + 1
      /\ y.st # "served" => served' = served
      /\ y.st = "lost" => y.gone
  BY DEF Handled, Held
<1>5. conns[k].client = c \/ conns[k] = FreeConn
  OBVIOUS
<1>6. ConnsType'
  <2>1. served' \in Nat
    BY <1>4
  <2>2. queue' \in Seq(Clients)
    BY HeadTailProperties
  <2> QED BY <1>3, <2>1, <2>2
<1>7. SlotsHold'
  <2> SUFFICES ASSUME NEW j \in Slots, conns'[j] # FreeConn
               PROVE  Held(conns'[j], cl'[conns'[j].client])
    BY DEF SlotsHold
  <2>1. CASE j = k
    BY <1>3, <1>4, <2>1
  <2>2. CASE j # k
    BY <1>2, <1>3, <2>2, BusyIsHeld
  <2> QED BY <2>1, <2>2
<1>8. SlotsDiffer'
  <2> SUFFICES ASSUME NEW i \in Slots, NEW j \in Slots, i # j,
                      conns'[i].client = conns'[j].client, conns'[i] # FreeConn
               PROVE  FALSE
    BY DEF SlotsDiffer
  <2>1. CASE i = k
    BY <1>2, <1>3, <1>4, <2>1
  <2>2. CASE j = k
    <3>1. conns'[i] = conns[i] /\ conns[i].client # c /\ conns[i].client \in Clients
      BY <1>2, <1>3, <2>2, BusyIsHeld
    <3> QED BY <1>3, <1>4, <2>2, <3>1, FreeType, ServerAssumption
  <2>3. CASE i # k /\ j # k
    BY <1>3, <2>3 DEF SlotsDiffer
  <2> QED BY <2>1, <2>2, <2>3
<1>9. OpenIsHeld'
  <2> SUFFICES ASSUME NEW d \in Clients, cl'[d].st = "open"
               PROVE  \E j \in Slots : conns'[j].client = d
    BY DEF OpenIsHeld
  <2>1. CASE d = c
    BY <1>3, <1>4, <2>1
  <2>2. CASE d # c
    <3>1. PICK j \in Slots : conns[j].client = d
      BY <1>3, <2>2 DEF OpenIsHeld
    <3>2. j # k
      BY <1>5, <2>2, <3>1, FreeType, ServerAssumption
    <3> QED BY <1>3, <3>1, <3>2
  <2> QED BY <2>1, <2>2
<1>10. QueueWaits'
  <2>1. \A i \in DOMAIN queue' : queue'[i] # c /\ IsWaiting(cl[queue'[i]])
    <3>1. CASE conns[k] # FreeConn
      BY <1>1, <3>1 DEF QueueWaits, IsWaiting
    <3>2. CASE conns[k] = FreeConn
      BY <3>2 DEF QueueWaits
    <3> QED BY <3>1, <3>2
  <2>2. \A i, j \in DOMAIN queue' : queue'[i] = queue'[j] => i = j
    <3>1. CASE queue' = queue
      BY <3>1 DEF QueueWaits
    <3>2. CASE queue # <<>> /\ queue' = Tail(queue)
      BY <3>2 DEF QueueWaits
    <3> QED BY <3>1, <3>2
  <2>3. \A i \in DOMAIN queue' : queue'[i] \in Clients
    BY <1>6
  <2> QED BY <1>3, <1>4, <2>1, <2>2, <2>3 DEF QueueWaits, IsWaiting
<1>11. ServedInFull'
  <2> DEFINE S == {d \in Clients : cl[d].st = "served"}
  <2>1. IsFiniteSet(S) /\ c \notin S /\ served = Cardinality(S)
    BY <1>1, ServerAssumption, FS_Subset DEF ServedInFull
  <2>2. S' = IF y.st = "served" THEN S \cup {c} ELSE S
    BY <1>1, <1>3
  <2> HIDE DEF S
  <2>3. Cardinality(S \cup {c}) = Cardinality(S) + 1
    BY <2>1, FS_AddElement
  <2>4. served' = Cardinality(S')
    BY <1>4, <2>1, <2>2, <2>3
  <2>5. \A d \in Clients : cl'[d].st = "served" =>
          cl'[d].rcvd = OutUnits /\ cl'[d].status = Answer(cl'[d].sent)
    BY <1>3, <1>4 DEF ServedInFull
  <2> QED BY <2>4, <2>5 DEF ServedInFull, S
<1>12. \A j \in Busy' : j = k \/ (j \in Busy /\ conns'[j] = conns[j])
  BY <1>3 DEF Busy
<1>13. k \in Busy' => conns'[k].left > 0
  BY <1>3, <1>4, FreeType DEF Busy
<1>14. \A st \in {"dropped", "timeout", "closed"} : At(st)' = At(st)
  BY <1>1, <1>3, <1>4 DEF At
<1>15. Counted'
  <2>1. \A d \in At("lost")' : cl'[d].gone
    BY <1>3, <1>4 DEF Counted, At
  <2> QED BY <1>14, <2>1 DEF Counted
<1> QED BY <1>6, <1>7, <1>8, <1>9, <1>10, <1>11, <1>12, <1>13, <1>14, <1>15

\* Nothing that the connections consist of is touched.
LEMMA ConnsSame ==
  ASSUME ConnInv, UNCHANGED <<conns, cl, counters, queue>>
  PROVE  ConnInv' /\ Busy' = Busy
BY DEF counters, Counted, At, ConnInv, ConnsType, SlotsHold, SlotsDiffer, OpenIsHeld, QueueWaits, ServedInFull, Busy

\* The first in the queue ends without a slot.
LEMMA QueueLeaves ==
  ASSUME ConnInv, queue # <<>>, queue' = Tail(queue), UNCHANGED <<conns, served, timeouts>>,
         NEW y \in ClientType, cl' = [cl EXCEPT ![Head(queue)] = y],
         \/ y.st = "dropped" /\ drops' = drops + 1
         \/ y.st = "lost" /\ y.gone /\ drops' = drops
  PROVE  ConnInv' /\ At("closed")' = At("closed")
<1> USE DEF ConnInv, ConnsType
<1> DEFINE c == Head(queue)
<1>1. c \in Clients /\ cl[c].st = "queued"
      /\ \A i \in DOMAIN Tail(queue) : Tail(queue)[i] # c
  BY DEF QueueWaits, IsWaiting
<1>2. /\ cl' \in [Clients -> ClientType] /\ cl'[c] = y /\ y.st \in {"dropped", "lost"}
      /\ \A d \in Clients : d # c => cl'[d] = cl[d]
  BY <1>1
<1> HIDE DEF c
<1>3. \A k \in Slots : conns[k].client # c
  BY <1>1, BusyIsHeld DEF Held
<1>4. ConnsType' /\ SlotsDiffer'
  BY <1>2, HeadTailProperties DEF SlotsDiffer
<1>5. SlotsHold'
  BY <1>2, <1>3, BusyIsHeld DEF SlotsHold
<1>6. OpenIsHeld'
  BY <1>2 DEF OpenIsHeld
<1>7. QueueWaits'
  <2>1. \A i \in DOMAIN queue' : queue'[i] \in Clients /\ IsWaiting(cl[queue'[i]])
    BY DEF QueueWaits
  <2>2. \A i, j \in DOMAIN queue' : queue'[i] = queue'[j] => i = j
    BY DEF QueueWaits
  <2> QED BY <1>1, <1>2, <2>1, <2>2 DEF QueueWaits
<1>8. {d \in Clients : cl'[d].st = "served"} = {d \in Clients : cl[d].st = "served"}
  BY <1>1, <1>2
<1>9. ServedInFull'
  BY <1>2, <1>8 DEF ServedInFull
<1>10. At("timeout")' = At("timeout") /\ At("closed")' = At("closed")
  BY <1>1, <1>2 DEF At
<1>11. drops' = Cardinality(At("dropped")')
  <2> DEFINE S == At("dropped")
  <2>1. IsFiniteSet(S) /\ c \notin S /\ drops = Cardinality(S)
    BY <1>1, ServerAssumption, FS_Subset DEF Counted, At
  <2>2. S' = IF y.st = "dropped" THEN S \cup {c} ELSE S
    BY <1>1, <1>2 DEF At
  <2> HIDE DEF S
  <2>3. Cardinality(S \cup {c}) = Cardinality(S) + 1
    BY <2>1, FS_AddElement
  <2>4. drops' = Cardinality(S')
    BY <2>1, <2>2, <2>3
  <2> QED BY <2>4 DEF S
<1>12. \A d \in At("lost")' : cl'[d].gone
  BY <1>2 DEF Counted, At
<1> QED BY <1>4, <1>5, <1>6, <1>7, <1>9, <1>10, <1>11, <1>12 DEF Counted

\* A client does something with its socket that no slot and no queue place depends on.
LEMMA ClientMoves ==
  ASSUME ConnInv, UNCHANGED <<conns, counters, queue>>,
         NEW c \in Clients, NEW y \in ClientType, cl' = [cl EXCEPT ![c] = y],
         Connected(c), y.st = cl[c].st, IsWaiting(cl[c]) => IsWaiting(y),
         \A x \in ConnType : Held(x, cl[c]) => Held(x, y)
  PROVE  ConnInv' /\ At("closed")' = At("closed")
<1> USE DEF ConnInv, ConnsType, counters
<1>1. /\ cl' \in [Clients -> ClientType] /\ cl'[c] = y
      /\ \A d \in Clients : cl'[d].st = cl[d].st
      /\ \A d \in Clients : d # c => cl'[d] = cl[d]
  OBVIOUS
<1>2. cl[c].st \in {"queued", "open"}
  BY DEF Connected
<1>3. ConnsType' /\ SlotsDiffer' /\ OpenIsHeld'
  BY <1>1 DEF SlotsDiffer, OpenIsHeld
<1>4. SlotsHold'
  BY <1>1, BusyIsHeld DEF SlotsHold
<1>5. QueueWaits'
  <2>1. \A i \in DOMAIN queue : queue[i] \in Clients
    OBVIOUS
  <2> QED BY <1>1, <1>2, <2>1 DEF QueueWaits
<1>6. {d \in Clients : cl'[d].st = "served"} = {d \in Clients : cl[d].st = "served"}
  BY <1>1
<1>7. ServedInFull'
  BY <1>1, <1>2, <1>6 DEF ServedInFull
<1>8. \A st \in {"dropped", "timeout", "closed", "lost"} : At(st)' = At(st)
  BY <1>1 DEF At
<1>9. Counted'
  <2>1. \A d \in At("lost") : cl'[d] = cl[d]
    BY <1>1, <1>2 DEF At
  <2> QED BY <1>8, <2>1 DEF Counted
<1> QED BY <1>3, <1>4, <1>5, <1>7, <1>8, <1>9

LEMMA AppendToBoth ==
  ASSUME NEW S, NEW s \in Seq(S), NEW t \in Seq(S), NEW u \in S
  PROVE  s \o Append(t, u) = Append(s \o t, u)
<1>1. <<u>> \in Seq(S) /\ s \o t \in Seq(S)
  OBVIOUS
<1>2. Append(t, u) = t \o <<u>>
  BY AppendIsConcat
<1>3. Append(s \o t, u) = (s \o t) \o <<u>>
  BY <1>1, AppendIsConcat
<1>4. (s \o t) \o <<u>> = s \o (t \o <<u>>)
  BY <1>1, ConcatAssociative
<1> QED BY <1>2, <1>3, <1>4

LEMMA ClientStepConns ==
  ASSUME ConnInv, NEW c \in Clients, ClientStep(c)
  PROVE  ConnInv' /\ UNCHANGED conns /\ At("closed")' = At("closed")
<1> USE DEF ConnInv, ConnsType
<1> DEFINE y == cl[c]
<1>1. y \in ClientType
  OBVIOUS
<1> HIDE DEF y
<1>2. CASE Connect(c)
  <2>1. PICK room \in {1, OutUnits} :
          cl' = [cl EXCEPT ![c] = [NewClient EXCEPT !.st = "queued", !.room = room]]
    BY <1>2 DEF Connect, QueueWaits
  <2> DEFINE w == [NewClient EXCEPT !.st = "queued", !.room = room]
  <2>2. w \in ClientType /\ IsWaiting(w)
    <3>1. <<>> \in Seq(Units) /\ "none" \in Statuses /\ room \in Nat
      BY Constants DEF Statuses
    <3> QED BY <3>1 DEF NewClient, ClientType, IsWaiting
  <2> HIDE DEF w
  <2>3. /\ cl' \in [Clients -> ClientType] /\ cl'[c] = w /\ cl[c].st = "new"
        /\ \A d \in Clients : d # c => cl'[d] = cl[d]
    BY <1>2, <2>1, <2>2 DEF Connect, w, y
  <2>4. \A k \in Slots : conns[k].client # c
    BY <2>3, BusyIsHeld DEF Held
  <2>5. queue' = Append(queue, c) /\ UNCHANGED <<conns, served, drops, timeouts>>
    BY <1>2 DEF Connect, counters
  <2>6. ConnsType' /\ SlotsDiffer'
    BY <2>3, <2>5 DEF SlotsDiffer
  <2>7. SlotsHold'
    BY <2>3, <2>4, <2>5, BusyIsHeld DEF SlotsHold
  <2>8. OpenIsHeld'
    BY <2>2, <2>3, <2>5 DEF OpenIsHeld, IsWaiting
  <2>9. QueueWaits'
    <3>1. \A i \in DOMAIN queue : queue[i] \in Clients /\ queue[i] # c
      BY <2>3 DEF QueueWaits, IsWaiting
    <3>2. \A i \in DOMAIN queue' : IsWaiting(cl'[queue'[i]])
      BY <2>2, <2>3, <2>5, <3>1 DEF QueueWaits
    <3>3. \A i, j \in DOMAIN queue' : queue'[i] = queue'[j] => i = j
      BY <2>5, <3>1 DEF QueueWaits
    <3> QED BY <2>2, <2>3, <3>2, <3>3 DEF QueueWaits, IsWaiting
  <2>10. {d \in Clients : cl'[d].st = "served"} = {d \in Clients : cl[d].st = "served"}
    BY <2>2, <2>3 DEF IsWaiting
  <2>11. ServedInFull'
    BY <2>2, <2>3, <2>5, <2>10 DEF ServedInFull, IsWaiting
  <2>12. \A st \in {"dropped", "timeout", "closed", "lost"} : At(st)' = At(st)
    BY <2>2, <2>3 DEF At, IsWaiting
  <2>13. Counted'
    <3>1. \A d \in At("lost") : cl'[d] = cl[d]
      BY <2>3 DEF At
    <3> QED BY <2>5, <2>12, <3>1 DEF Counted
  <2> QED BY <2>5, <2>6, <2>7, <2>8, <2>9, <2>11, <2>12, <2>13
<1>3. CASE \E u \in Units : Send(c, u)
  <2>1. PICK u \in Units : Send(c, u)
    BY <1>3
  <2> DEFINE w == [y EXCEPT !.sent = Append(@, u), !.rx = Append(@, u)]
  <2>2. cl' = [cl EXCEPT ![c] = w] /\ Connected(c) /\ UNCHANGED <<conns, counters, queue>>
    BY <2>1 DEF Send, y
  <2>3. /\ w \in ClientType /\ w.st = y.st /\ w.rcvd = y.rcvd
        /\ w.sent = Append(y.sent, u) /\ w.rx = Append(y.rx, u)
        /\ y.sent \in Seq(Units) /\ y.rx \in Seq(Units)
    <3>1. y.sent \in Seq(Units) /\ y.rx \in Seq(Units)
      BY <1>1 DEF ClientType
    <3>2. Append(y.sent, u) \in Seq(Units) /\ Append(y.rx, u) \in Seq(Units)
      BY <3>1
    <3> QED BY <1>1, <3>1, <3>2 DEF ClientType
  <2> HIDE DEF w
  <2>4. IsWaiting(y) => IsWaiting(w)
    BY <2>3 DEF IsWaiting
  <2>5. ASSUME NEW x \in ConnType, Held(x, y) PROVE Held(x, w)
    <3>1. CASE IsReading(x, y)
      <4>1. x.req \in Seq(Units)
        BY DEF ConnType
      <4>2. x.req \o Append(y.rx, u) = Append(x.req \o y.rx, u)
        <5> DEFINE s == x.req
                   t == y.rx
        <5>1. s \in Seq(Units) /\ t \in Seq(Units) /\ u \in Units
          BY <2>1, <2>3, <4>1
        <5> HIDE DEF s, t
        <5>2. s \o Append(t, u) = Append(s \o t, u)
          BY <5>1, AppendToBoth
        <5> QED BY <5>2 DEF s, t
      <4> QED BY <2>3, <2>5, <3>1, <4>2 DEF Held, IsReading
    <3>2. CASE IsWriting(x, y)
      BY <2>3, <2>5, <3>2, AnswerStands DEF Held, IsWriting
    <3> QED BY <2>5, <3>1, <3>2 DEF Held
  <2> QED BY <2>2, <2>3, <2>4, <2>5, ClientMoves DEF y
<1>4. CASE Receive(c) \/ HangUp(c)
  <2>1. PICK w : cl' = [cl EXCEPT ![c] = w] /\ w \in {[y EXCEPT !.room = 1], [y EXCEPT !.gone = TRUE]}
    BY <1>4 DEF Receive, HangUp, y
  <2>2. Connected(c) /\ UNCHANGED <<conns, counters, queue>>
    BY <1>4 DEF Receive, HangUp
  <2>3. /\ w \in ClientType /\ w.st = y.st /\ w.rcvd = y.rcvd
        /\ w.sent = y.sent /\ w.rx = y.rx
    <3>1. CASE w = [y EXCEPT !.room = 1]
      BY <1>1, <3>1 DEF ClientType
    <3>2. CASE w = [y EXCEPT !.gone = TRUE]
      BY <1>1, <3>2 DEF ClientType
    <3> QED BY <2>1, <3>1, <3>2
  <2>4. IsWaiting(y) => IsWaiting(w)
    BY <2>3 DEF IsWaiting
  <2>5. \A x \in ConnType : Held(x, y) => Held(x, w)
    BY <2>3 DEF Held, IsReading, IsWriting
  <2> QED BY <2>1, <2>2, <2>3, <2>4, <2>5, ClientMoves DEF y
<1>5. Ends[c] \subseteq Verdicts
  BY ServerAssumption DEF Verdicts
<1> QED BY <1>2, <1>3, <1>4, <1>5 DEF ClientStep, Units

---------------------------------------------------------------------------
(* The thread *)

\* The handlers keep what they must; the slot of an entry may be free by now.
LEMMA HandleConnIInv == ASSUME IInv, HandleConn PROVE IInv'
<1> DEFINE k == Min(todo)
           x == conns[k]
           c == x.client
<1>1. k \in todo /\ k \in Slots
  <2>1. todo \in SUBSET Nat /\ todo # {} /\ 0 \notin todo /\ todo \subseteq 0 .. MaxConns
    BY Constants DEF HandleConn, IInv, LoopInv, LoopType
  <2>2. k \in todo
    BY <2>1, MinOfNats
  <2> HIDE DEF k
  <2> QED BY <2>1, <2>2, Constants DEF Slots
<1>2. /\ spc = "handle" /\ todo' = todo \ {k}
      /\ UNCHANGED <<drops, timeouts, pause, spc, wake, stop, waited, queue>>
      /\ \/ x.state = "FREE" /\ UNCHANGED <<conns, cl, served>>
         \/ x.state = "READING" /\ ConnRead(k, x, cl[c])
         \/ x.state = "WRITING" /\ ConnWrite(k, x, cl[c])
  BY DEF HandleConn
<1> HIDE DEF k
<1>3. ConnInv /\ LoopType /\ StopIsNear /\ CutOffLast /\ \A j \in Busy : conns[j].left > 0
  BY <1>2 DEF IInv, LoopInv, NoneOverdue
<1>4. LoopType' /\ StopIsNear'
  BY <1>2, <1>3 DEF LoopType, StopIsNear
<1>5. CASE x.state = "FREE" /\ UNCHANGED <<conns, cl, served>>
  BY <1>2, <1>3, <1>4, <1>5, ConnsSame DEF IInv, LoopInv, NoneOverdue, CutOffLast, At, counters
<1>6. CASE x.state # "FREE" /\ (ConnRead(k, x, cl[c]) \/ ConnWrite(k, x, cl[c]))
  <2>1. k \in Busy /\ x # FreeConn /\ c \in Clients /\ Held(x, cl[c]) /\ x.left > 0
    BY <1>1, <1>3, <1>6, BusyIsHeld DEF Busy
  <2>2. x \in ConnType /\ cl[c] \in ClientType
    BY <1>1, <1>3, <2>1 DEF ConnInv, ConnsType
  <2>3. PICK x1, y1 : Handled(k, c, x1, y1)
    <3> HIDE DEF x
    <3> QED BY <1>2, <1>6, <2>1, <2>2, ReadHandles, WriteHandles
  <2>4. /\ ConnInv' /\ At("closed")' = At("closed")
        /\ \A j \in Busy' : j = k \/ (j \in Busy /\ conns'[j] = conns[j])
        /\ k \in Busy' => conns'[k].left > 0
    BY <1>1, <1>2, <1>3, <2>1, <2>3, SlotStep
  <2>5. NoneOverdue' /\ CutOffLast'
    BY <1>2, <1>3, <2>4 DEF NoneOverdue, CutOffLast
  <2> QED BY <1>4, <2>4, <2>5 DEF IInv, LoopInv
<1> QED BY <1>2, <1>5, <1>6

\* A connection is accepted into a slot that is free.
LEMMA AcceptConnIInv == ASSUME IInv, AcceptConn PROVE IInv'
<1> DEFINE c == Head(queue)
           k == FreeSlot
           x == [FreeConn EXCEPT !.client = c, !.state = "READING", !.left = Deadline]
           y == [cl[c] EXCEPT !.st = "open"]
<1>1. /\ spc = "accept" /\ queue # <<>> /\ Busy # Slots /\ ConnRead(k, x, y)
      /\ queue' = Tail(queue)
      /\ UNCHANGED <<drops, timeouts, pause, spc, wake, todo, stop, waited>>
  BY DEF AcceptConn
<1>2. ConnInv /\ LoopType /\ StopIsNear /\ CutOffLast /\ \A j \in Busy : conns[j].left > 0
  BY <1>1 DEF IInv, LoopInv, NoneOverdue
<1>3. k \in Slots /\ k \notin Busy
  <2> DEFINE T == Slots \ Busy
  <2>1. T \in SUBSET Nat /\ T # {}
    BY <1>1, Constants DEF Slots, Busy
  <2> HIDE DEF T
  <2>2. Min(T) \in T
    BY <2>1, MinOfNats
  <2> QED BY <2>2 DEF T, FreeSlot
<1>4. conns[k] = FreeConn
  BY <1>2, <1>3, BusyIsHeld
<1> HIDE DEF k
<1>5. c \in Clients /\ cl[c] \in ClientType /\ IsWaiting(cl[c])
  <2>1. 1 \in DOMAIN queue /\ queue[1] = c /\ c \in Clients
    BY <1>1, <1>2 DEF ConnInv, ConnsType
  <2> QED BY <1>2, <2>1 DEF ConnInv, ConnsType, QueueWaits
<1> HIDE DEF c
<1>6. y \in ClientType /\ y.st = "open" /\ y.rx = y.sent /\ y.rcvd = 0 /\ y.sent \in Seq(Units)
  BY <1>5 DEF ClientType, IsWaiting
<1>7. /\ x \in ConnType /\ x.client = c /\ x.state = "READING" /\ x.left = Deadline
      /\ x.req = <<>> /\ x.age = 0 /\ x.phase = 0
  <2>1. Deadline \in Nat /\ <<>> \in Seq(Units) /\ "none" \in Statuses
    BY Constants DEF Statuses
  <2> QED BY <1>5, <2>1 DEF FreeConn, ConnType
<1> HIDE DEF x, y
<1>8. Parse(<<>>) = "incomplete"
  <2>1. <<>> \in Seq(Units) /\ Len(<<>>) = 0 /\ DOMAIN <<>> = {}
    OBVIOUS
  <2> DEFINE e == <<>>
  <2>2. e \in Seq(Units) /\ Len(e) < ReqMax /\ \A i \in DOMAIN e : e[i] = "part"
    BY <2>1, Constants
  <2> HIDE DEF e
  <2>3. Parse(e) = "incomplete"
    BY <2>2, ParseIncomplete
  <2> QED BY <2>3 DEF e
<1>9. Held(x, y)
  BY <1>5, <1>6, <1>7, <1>8, Constants, ConcatEmptySeq DEF Held, IsReading
<1>10. PICK x1, y1 : Handled(k, c, x1, y1)
  BY <1>1, <1>6, <1>7, <1>9, Constants, ReadHandles
<1>12. /\ ConnInv' /\ At("closed")' = At("closed")
       /\ \A j \in Busy' : j = k \/ (j \in Busy /\ conns'[j] = conns[j])
       /\ k \in Busy' => conns'[k].left > 0
  BY <1>1, <1>2, <1>3, <1>4, <1>5, <1>10, SlotStep DEF c
<1>13. LoopType' /\ StopIsNear' /\ NoneOverdue' /\ CutOffLast'
  BY <1>1, <1>2, <1>12 DEF LoopType, StopIsNear, NoneOverdue, CutOffLast
<1> QED BY <1>12, <1>13 DEF IInv, LoopInv

\* Two slots whose time is up hold two clients, so reap counts clients.
LEMMA ExpiredCounts ==
  ASSUME ConnInv
  PROVE  /\ Cardinality({conns[k].client : k \in Expired}) = Cardinality(Expired)
         /\ Cardinality(Expired) \in Nat
<1> DEFINE R == {conns[k].client : k \in Expired}
           f == [k \in Expired |-> conns[k].client]
<1>1. Expired \subseteq Slots /\ IsFiniteSet(Slots)
  BY FS_Interval, Constants DEF Expired, Busy, Slots
<1>2. IsFiniteSet(Expired)
  BY <1>1, FS_Subset
<1>3. \A j, k \in Expired : conns[j].client = conns[k].client => j = k
  BY <1>1, BusyIsHeld DEF ConnInv, SlotsDiffer, Expired
<1>4. f \in Bijection(Expired, R)
  BY <1>3 DEF Bijection, Injection, IsInjective, Surjection
<1>5. ExistsBijection(Expired, R)
  BY <1>4 DEF ExistsBijection
<1> QED BY <1>2, <1>5, FS_Bijection, FS_CardinalityType

\* poll returns: reap frees the slots whose time is up, and no other.
LEMMA PollReturnsIInv == ASSUME IInv, PollReturns PROVE IInv'
<1> USE DEF ConnInv, ConnsType
<1>1. ConnInv /\ LoopType /\ StopIsNear
  BY DEF IInv, LoopInv
<1>2. ASSUME NEW k \in Slots
      PROVE  conns'[k] = IF k \in Expired THEN FreeConn ELSE conns[k]
  BY DEF PollReturns
<1>3. ASSUME NEW c \in Clients
      PROVE  cl'[c] = IF \E k \in Expired : conns[k].client = c THEN Ended("timeout") ELSE cl[c]
  BY DEF PollReturns
<1>4. Expired \subseteq Slots /\ \A k \in Slots : k \in Expired <=> k \in Busy /\ conns[k].left = 0
  BY DEF Expired, Busy
<1>5. \A k \in Expired : conns[k] # FreeConn /\ conns[k].client \in Clients
                         /\ cl[conns[k].client].st = "open"
  BY <1>1, <1>4, BusyIsHeld DEF Held
<1>6. ConnsType'
  <2>1. conns' \in [Slots -> ConnType]
    BY <1>1, FreeType DEF PollReturns
  <2>2. cl' \in [Clients -> ClientType]
    BY <1>1, EndedType DEF PollReturns
  <2>3. timeouts' \in Nat
    BY <1>1, ExpiredCounts DEF PollReturns
  <2> QED BY <1>1, <2>1, <2>2, <2>3 DEF PollReturns
<1>7. ASSUME NEW c \in Clients, \E k \in Expired : conns[k].client = c
      PROVE  cl'[c].st = "timeout" /\ cl[c].st = "open"
  BY <1>3, <1>5, <1>7, EndedType
<1>8. \A c \in Clients : cl'[c] = cl[c] \/ (cl'[c].st = "timeout" /\ cl[c].st = "open")
  BY <1>3, <1>7
<1>9. SlotsHold'
  <2> SUFFICES ASSUME NEW k \in Slots, conns'[k] # FreeConn
               PROVE  Held(conns'[k], cl'[conns'[k].client])
    BY DEF SlotsHold
  <2>1. k \notin Expired /\ conns'[k] = conns[k]
    BY <1>2
  <2>2. conns[k].client \in Clients /\ Held(conns[k], cl[conns[k].client])
    BY <1>1, <2>1, BusyIsHeld
  <2>3. ~\E j \in Expired : conns[j].client = conns[k].client
    BY <1>1, <1>4, <1>5, <2>1 DEF SlotsDiffer
  <2> QED BY <1>3, <2>1, <2>2, <2>3
<1>10. SlotsDiffer'
  BY <1>1, <1>2, <1>5, FreeType, ServerAssumption, BusyIsHeld DEF SlotsDiffer
<1>11. OpenIsHeld'
  <2> SUFFICES ASSUME NEW c \in Clients, cl'[c].st = "open"
               PROVE  \E k \in Slots : conns'[k].client = c
    BY DEF OpenIsHeld
  <2>1. ~\E j \in Expired : conns[j].client = c
    BY <1>7
  <2>2. PICK k \in Slots : conns[k].client = c
    BY <1>1, <1>3, <2>1 DEF OpenIsHeld
  <2> QED BY <1>2, <2>1, <2>2
<1>12. QueueWaits'
  <2>1. \A i \in DOMAIN queue : queue[i] \in Clients /\ cl'[queue[i]] = cl[queue[i]]
    BY <1>1, <1>8 DEF QueueWaits, IsWaiting
  <2>2. queue' = queue
    BY DEF PollReturns
  <2> QED BY <1>1, <1>8, <2>1, <2>2 DEF QueueWaits
<1>13. ServedInFull'
  <2>1. {d \in Clients : cl'[d].st = "served"} = {d \in Clients : cl[d].st = "served"}
    BY <1>8
  <2>2. served' = served
    BY DEF PollReturns
  <2> QED BY <1>1, <1>8, <2>1, <2>2 DEF ServedInFull
<1>14. LoopType'
  <2>1. Events \in SUBSET (0 .. MaxConns)
    BY Constants DEF Events, Busy, Slots
  <2> QED BY <1>1, <2>1 DEF LoopType, PollReturns
<1>15. NoneOverdue'
  <2> SUFFICES ASSUME NEW k \in Busy' PROVE conns'[k].left > 0
    BY DEF NoneOverdue, PollReturns
  <2>1. k \in Slots /\ conns'[k].state # "FREE"
    BY DEF Busy
  <2>2. k \notin Expired /\ conns'[k] = conns[k] /\ k \in Busy
    BY <1>2, <2>1, FreeType DEF Busy
  <2>3. conns[k].left \in Nat /\ conns[k].left # 0
    BY <1>1, <1>4, <2>1, <2>2 DEF ConnType
  <2> QED BY <2>2, <2>3
<1>16. StopIsNear'
  BY <1>1 DEF StopIsNear, PollReturns
<1>17. Counted'
  <2> DEFINE R == {conns[k].client : k \in Expired}
             S == At("timeout")
  <2>1. At("dropped")' = At("dropped") /\ \A c \in At("lost")' : c \in At("lost") /\ cl'[c] = cl[c]
    BY <1>8 DEF At
  <2>2. At("timeout")' = S \cup R
    BY <1>3, <1>5, <1>7 DEF At
  <2>3. S \cap R = {} /\ IsFiniteSet(S) /\ IsFiniteSet(R)
    <3>1. S \in SUBSET Clients /\ R \in SUBSET Clients /\ S \cap R = {}
      BY <1>5 DEF At
    <3> QED BY <3>1, ServerAssumption, FS_Subset
  <2>4. timeouts = Cardinality(S) /\ timeouts' = timeouts + Cardinality(Expired)
    BY <1>1 DEF Counted, PollReturns
  <2>5. Cardinality(R) = Cardinality(Expired) /\ Cardinality(R) \in Nat
    BY <1>1, ExpiredCounts
  <2> HIDE DEF S, R
  <2>6. Cardinality(S \cup R) = Cardinality(S) + Cardinality(R)
    <3>1. Cardinality(S) \in Nat /\ Cardinality(S \cap R) = 0
      BY <2>3, FS_CardinalityType, FS_EmptySet
    <3>2. Cardinality(S \cup R) = Cardinality(S) + Cardinality(R) - Cardinality(S \cap R)
      BY <2>3, FS_Union
    <3>3. ASSUME NEW a \in Nat, NEW b \in Nat PROVE a + b - 0 = a + b
      OBVIOUS
    <3> QED BY <2>5, <3>1, <3>2, <3>3
  <2>7. drops' = drops
    BY DEF PollReturns
  <2> QED BY <1>1, <2>1, <2>2, <2>4, <2>5, <2>6, <2>7 DEF Counted
<1>18. CutOffLast'
  <2>1. At("closed")' = At("closed") /\ spc # "down"
    BY <1>8 DEF At, PollReturns
  <2> QED BY <2>1 DEF CutOffLast, IInv, LoopInv
<1> QED BY <1>6, <1>9, <1>10, <1>11, <1>12, <1>13, <1>14, <1>15, <1>16, <1>17, <1>18 DEF IInv, LoopInv

\* server_close leaves every slot free.
LEMMA ServerCloseIInv ==
  ASSUME IInv, ServerClose, UNCHANGED <<counters, stop, waited>>
  PROVE  IInv'
<1> USE DEF ConnInv, ConnsType
<1>0. UNCHANGED <<served, drops, timeouts>>
  BY DEF counters
<1>1. /\ conns' \in [Slots -> ConnType]
      /\ \A k \in Slots : conns'[k] = FreeConn
      /\ cl' \in [Clients -> ClientType]
      /\ \A c \in Clients : /\ cl'[c].st # "open"
                            /\ \/ cl'[c] = cl[c]
                               \/ cl'[c].st = "closed" /\ cl[c].st \in {"queued", "open"}
      /\ queue' = <<>> /\ queue' \in Seq(Clients)
  BY FreeType, EndedType DEF ServerClose, IInv
<1>2. ConnsType' /\ SlotsHold' /\ SlotsDiffer' /\ OpenIsHeld' /\ QueueWaits'
  <2>1. ConnsType'
    BY <1>0, <1>1 DEF IInv
  <2>2. SlotsHold' /\ SlotsDiffer'
    BY <1>1 DEF SlotsHold, SlotsDiffer
  <2>3. OpenIsHeld' /\ QueueWaits'
    BY <1>1 DEF OpenIsHeld, QueueWaits, IInv
  <2> QED BY <2>1, <2>2, <2>3
<1>3. {d \in Clients : cl'[d].st = "served"} = {d \in Clients : cl[d].st = "served"}
  BY <1>1
<1>4. ServedInFull'
  BY <1>0, <1>1, <1>3 DEF ServedInFull, IInv
<1>5. LoopType' /\ NoneOverdue' /\ StopIsNear' /\ CutOffLast'
  BY DEF ServerClose, IInv, LoopInv, LoopType, NoneOverdue, StopIsNear, CutOffLast
<1>6. Counted'
  <2>1. At("dropped")' = At("dropped") /\ At("timeout")' = At("timeout")
    BY <1>1 DEF At
  <2>2. \A c \in At("lost")' : c \in At("lost") /\ cl'[c] = cl[c]
    BY <1>1 DEF At
  <2> QED BY <1>0, <2>1, <2>2 DEF Counted, IInv
<1> QED BY <1>2, <1>4, <1>5, <1>6 DEF IInv, LoopInv

\* A tick: no deadline is passed over, since poll's timeout is no later than the nearest.
LEMMA TickIInv == ASSUME IInv, Tick PROVE IInv'
<1> USE DEF ConnInv, ConnsType
<1>1. ConnInv /\ LoopType /\ StopIsNear /\ CutOffLast /\ \A k \in Busy : wake <= conns[k].left
  BY DEF IInv, LoopInv, NoneOverdue, Tick
<1>2. /\ spc = "polling" /\ wake > 0 /\ wake' = wake - 1 /\ wake \in Nat
      /\ UNCHANGED <<served, drops, timeouts, spc, todo, stop, queue, cl>>
  BY <1>1 DEF Tick, counters, LoopType
<1>3. ASSUME NEW k \in Slots, k \notin Busy PROVE conns'[k] = conns[k] /\ conns[k] = FreeConn
  BY <1>1, <1>3, BusyIsHeld DEF Tick, Busy
<1>4. ASSUME NEW k \in Busy
      PROVE  /\ k \in Slots /\ conns'[k] \in ConnType /\ conns'[k].client = conns[k].client
             /\ conns'[k].state = conns[k].state
             /\ conns'[k].left = conns[k].left - 1 /\ wake' <= conns'[k].left
             /\ Held(conns'[k], cl[conns[k].client])
  <2> DEFINE x == conns[k]
             y == cl[x.client]
  <2>1. k \in Slots /\ x.state # "FREE" /\ x \in ConnType /\ Held(x, y) /\ wake <= x.left
    BY <1>1, BusyIsHeld DEF Busy
  <2>2. conns'[k] = [x EXCEPT !.left = Down(x.left), !.age = x.age + 1, !.phase = x.phase + 1]
    BY <2>1 DEF Tick
  <2> HIDE DEF x, y
  <2>3. x.left \in Nat /\ x.age \in Nat /\ x.phase \in Nat /\ Down(x.left) = x.left - 1
        /\ x.left - 1 \in Nat
    BY <1>2, <2>1 DEF ConnType, Down
  <2>4. /\ conns'[k] \in ConnType /\ conns'[k].client = x.client
        /\ conns'[k].state = x.state /\ conns'[k].req = x.req /\ conns'[k].out = x.out
        /\ conns'[k].status = x.status
        /\ conns'[k].left = x.left - 1 /\ conns'[k].age = x.age + 1 /\ conns'[k].phase = x.phase + 1
    <3> DEFINE l == x.left - 1
               a == x.age + 1
               p == x.phase + 1
    <3>1. l \in Nat /\ a \in Nat /\ p \in Nat /\ Down(x.left) = l
      BY <2>3
    <3> HIDE DEF l, a, p
    <3>2. conns'[k] = [x EXCEPT !.left = l, !.age = a, !.phase = p]
      BY <2>2, <3>1 DEF a, p
    <3>3. /\ conns'[k] \in ConnType /\ conns'[k].client = x.client
          /\ conns'[k].state = x.state /\ conns'[k].req = x.req /\ conns'[k].out = x.out
          /\ conns'[k].status = x.status
          /\ conns'[k].left = l /\ conns'[k].age = a /\ conns'[k].phase = p
      BY <2>1, <3>1, <3>2 DEF ConnType
    <3> QED BY <3>3 DEF l, a, p
  <2>5. Held(conns'[k], y)
    <3> DEFINE w == conns'[k]
    <3> HIDE DEF w
    <3>1. x.left + x.phase = Deadline => w.left + w.phase = Deadline
      BY <2>3, <2>4 DEF w
    <3>2. x.age = x.phase => w.age = w.phase
      BY <2>3, <2>4 DEF w
    <3>3. x.age < x.phase + Deadline => w.age < w.phase + Deadline
      BY <2>3, <2>4, Constants DEF w
    <3>4. Held(w, y)
      BY <2>1, <2>4, <3>1, <3>2, <3>3 DEF Held, IsReading, IsWriting, w
    <3> QED BY <3>4 DEF w
  <2> QED BY <1>2, <2>1, <2>3, <2>4, <2>5 DEF x, y
<1>5. \A k \in Slots : conns'[k].client = conns[k].client /\ (conns'[k] = FreeConn => conns[k] = FreeConn)
  BY <1>1, <1>3, <1>4, FreeType DEF Busy
<1>6. ConnsType'
  <2>1. conns' \in [Slots -> ConnType]
    <3>1. \A k \in Slots : conns'[k] \in ConnType
      BY <1>3, <1>4, FreeType
    <3> QED BY <3>1 DEF Tick
  <2> QED BY <1>1, <1>2, <2>1
<1>7. SlotsHold'
  BY <1>2, <1>3, <1>4 DEF SlotsHold
<1>8. SlotsDiffer' /\ OpenIsHeld'
  BY <1>1, <1>2, <1>3, <1>5, BusyIsHeld DEF SlotsDiffer, OpenIsHeld
<1>9. QueueWaits' /\ ServedInFull' /\ Counted' /\ CutOffLast'
  BY <1>1, <1>2 DEF QueueWaits, ServedInFull, Counted, CutOffLast, At
<1>10. Busy' \subseteq Busy
  BY <1>3 DEF Busy
<1>11. NoneOverdue'
  BY <1>2, <1>4, <1>10 DEF NoneOverdue
<1>12. pause' \in Nat /\ waited' \in Nat /\ waited' \in {0, waited + 1} /\ (~stop => waited' = 0)
  <2>1. pause \in Nat /\ waited \in Nat
    BY <1>1 DEF LoopType
  <2>2. pause' = Down(pause) /\ waited' = IF stop THEN waited + 1 ELSE 0
    BY DEF Tick
  <2> QED BY <2>1, <2>2 DEF Down
<1>13. LoopType'
  BY <1>1, <1>2, <1>12 DEF LoopType
<1>14. StopIsNear'
  <2>1. waited + wake <= MaxWait /\ waited \in Nat
    BY <1>1, <1>2 DEF StopIsNear, LoopType
  <2>2. waited' + wake' <= MaxWait /\ waited' <= MaxWait
    <3>1. wake \in Nat /\ wake > 0 /\ wake' = wake - 1
      BY <1>2
    <3>2. CASE waited' = 0
      BY <2>1, <3>1, <3>2, Constants
    <3>3. CASE waited' = waited + 1
      BY <2>1, <3>1, <3>3, Constants
    <3> QED BY <1>12, <3>2, <3>3
  <2> QED BY <1>2, <1>12, <2>2 DEF StopIsNear
<1> QED BY <1>6, <1>7, <1>8, <1>9, <1>11, <1>13, <1>14 DEF IInv, LoopInv

LEMMA InitIInv == Init => IInv
<1> SUFFICES ASSUME Init PROVE IInv
  OBVIOUS
<1>1. <<>> \in Seq(Units) /\ "none" \in Statuses
  BY DEF Statuses
<1>2. NewClient \in ClientType /\ NewClient.st = "new"
  BY <1>1 DEF NewClient, ClientType
<1>3. \A k \in Slots : conns[k] = FreeConn
  BY DEF Init
<1>4. \A c \in Clients : cl[c] = NewClient
  BY DEF Init
<1>5. ConnsType
  BY <1>2, FreeType DEF ConnsType, Init
<1>6. SlotsHold /\ SlotsDiffer /\ OpenIsHeld
  BY <1>2, <1>3, <1>4 DEF SlotsHold, SlotsDiffer, OpenIsHeld
<1>7. QueueWaits
  BY <1>4 DEF QueueWaits, Init
<1>8. ServedInFull
  <2>1. {c \in Clients : cl[c].st = "served"} = {}
    BY <1>2, <1>4
  <2> QED BY <2>1, FS_EmptySet DEF ServedInFull, Init
<1>9. \A st \in {"dropped", "timeout", "lost", "closed"} : At(st) = {}
  BY <1>2, <1>4 DEF At
<1>10. Counted
  BY <1>9, FS_EmptySet DEF Counted, Init
<1>11. LoopInv
  <2>1. LoopType
    BY DEF LoopType, Init
  <2>2. NoneOverdue /\ StopIsNear
    BY Constants DEF NoneOverdue, StopIsNear, Init
  <2> QED BY <1>9, <2>1, <2>2 DEF LoopInv, CutOffLast
<1> QED BY <1>5, <1>6, <1>7, <1>8, <1>10, <1>11 DEF IInv, ConnInv

\* The steps of the thread that touch no connection.
LEMMA LoopStepIInv ==
  ASSUME IInv,
         \/ CheckStop \/ BeginPoll \/ PollInterrupted \/ HandleListener \/ StepDone
         \/ AcceptStops \/ AcceptFails \/ Signal
  PROVE  IInv'
<1>1. ConnInv' /\ Busy' = Busy /\ conns' = conns
  BY ConnsSame DEF IInv, CheckStop, BeginPoll, PollInterrupted, HandleListener, StepDone, AcceptStops,
     AcceptFails, Signal
<1>2. CutOffLast'
  <2>1. cl' = cl /\ spc # "down"
    BY DEF CheckStop, BeginPoll, PollInterrupted, HandleListener, StepDone, AcceptStops, AcceptFails,
       Signal
  <2> QED BY <2>1 DEF CutOffLast, At, IInv, LoopInv
<1>3. LoopType /\ NoneOverdue /\ StopIsNear /\ ConnInv
  BY DEF IInv, LoopInv
<1>4. CASE BeginPoll
  <2> DEFINE T == {MaxWait} \cup {conns[k].left : k \in Busy} \cup (IF pause > 0 THEN {pause} ELSE {})
  <2>1. \A k \in Busy : conns[k].left \in Nat
    BY <1>3 DEF ConnInv, ConnsType, ConnType, Busy
  <2>2. T \in SUBSET Nat /\ MaxWait \in T /\ \A k \in Busy : conns[k].left \in T
    BY <1>3, <2>1, Constants DEF LoopType
  <2>3. WaitTime = Min(T)
    BY DEF WaitTime
  <2> HIDE DEF T
  <2>4. WaitTime \in Nat /\ WaitTime <= MaxWait /\ \A k \in Busy : WaitTime <= conns[k].left
    BY <2>2, <2>3, MinOfNats
  <2>5. LoopType'
    BY <1>3, <1>4, <2>4 DEF LoopType, BeginPoll, counters
  <2>6. NoneOverdue'
    BY <1>1, <1>4, <2>4 DEF NoneOverdue, BeginPoll
  <2>7. StopIsNear'
    BY <1>3, <1>4, <2>4, Constants DEF StopIsNear, LoopType, BeginPoll
  <2> QED BY <1>1, <1>2, <2>5, <2>6, <2>7 DEF IInv, LoopInv
<1>5. CASE CheckStop \/ PollInterrupted \/ HandleListener \/ StepDone \/ AcceptStops \/ AcceptFails
  <2>1. LoopType'
    <3>1. pause' \in Nat /\ wake' \in Nat /\ todo' \subseteq todo
      BY <1>3, <1>5, Constants DEF LoopType, CheckStop, PollInterrupted, HandleListener, StepDone,
         AcceptStops, AcceptFails
    <3>2. UNCHANGED <<stop, waited>>
      BY <1>5 DEF CheckStop, PollInterrupted, HandleListener, StepDone, AcceptStops, AcceptFails,
         counters
    <3>3. spc' \in {"loop", "step", "handle", "accept"}
      BY <1>5 DEF CheckStop, PollInterrupted, HandleListener, StepDone, AcceptStops, AcceptFails,
         AcceptDone
    <3> QED BY <1>3, <3>1, <3>2, <3>3 DEF LoopType
  <2>2. NoneOverdue'
    BY <1>1, <1>3, <1>5 DEF NoneOverdue, CheckStop, PollInterrupted, HandleListener, StepDone,
       AcceptStops, AcceptFails, AcceptDone
  <2>3. StopIsNear'
    BY <1>3, <1>5 DEF StopIsNear, CheckStop, PollInterrupted, HandleListener, StepDone, AcceptStops,
       AcceptFails, AcceptDone
  <2> QED BY <1>1, <1>2, <2>1, <2>2, <2>3 DEF IInv, LoopInv
<1>6. CASE Signal
  <2>1. LoopType' /\ NoneOverdue' /\ StopIsNear'
    BY <1>1, <1>3, <1>6 DEF LoopType, NoneOverdue, StopIsNear, Signal, counters, loop
  <2> QED BY <1>1, <1>2, <2>1 DEF IInv, LoopInv
<1> QED BY <1>4, <1>5, <1>6

LEMMA StepIInv == IInv /\ [Next]_vars => IInv'
<1> SUFFICES ASSUME IInv, [Next]_vars PROVE IInv'
  OBVIOUS
<1>1. CASE UNCHANGED vars
  <2>1. ConnInv' /\ Busy' = Busy
    BY <1>1, ConnsSame DEF IInv, vars
  <2>2. LoopInv'
    BY <1>1, <2>1 DEF IInv, LoopInv, LoopType, NoneOverdue, StopIsNear, CutOffLast, At, vars, loop
  <2> QED BY <2>1, <2>2 DEF IInv
<1>2. CASE AcceptDrop \/ AcceptAborted
  <2>1. /\ queue # <<>> /\ queue' = Tail(queue)
        /\ UNCHANGED <<conns, served, timeouts, pause, spc, wake, todo, stop, waited>>
    BY <1>2 DEF AcceptDrop, AcceptAborted, counters
  <2>2. ConnInv /\ LoopInv /\ cl[Head(queue)] \in ClientType
    BY <2>1 DEF IInv, ConnInv, ConnsType
  <2>3. PICK y \in ClientType : /\ cl' = [cl EXCEPT ![Head(queue)] = y]
                                /\ \/ y.st = "dropped" /\ drops' = drops + 1
                                   \/ y.st = "lost" /\ y.gone /\ drops' = drops
    <3>1. CASE AcceptDrop
      BY <3>1, EndedType DEF AcceptDrop
    <3>2. CASE AcceptAborted
      BY <2>2, <3>2, LostType DEF AcceptAborted, counters
    <3> QED BY <1>2, <3>1, <3>2
  <2>4. ConnInv' /\ At("closed")' = At("closed")
    BY <2>1, <2>2, <2>3, QueueLeaves
  <2>5. LoopInv'
    BY <2>1, <2>2, <2>4 DEF LoopInv, LoopType, NoneOverdue, StopIsNear, CutOffLast, Busy
  <2> QED BY <2>4, <2>5 DEF IInv
<1>3. CASE StopServing \/ ListenerFails
  BY <1>3, ServerCloseIInv DEF StopServing, ListenerFails
<1>4. CASE \E c \in Clients : ClientStep(c)
  <2>1. ConnInv' /\ conns' = conns /\ At("closed")' = At("closed")
    BY <1>4, ClientStepConns DEF IInv
  <2>2. UNCHANGED <<pause, spc, wake, todo, stop, waited>>
    BY <1>4 DEF ClientStep, Connect, Send, Receive, HangUp, loop
  <2>3. LoopInv'
    BY <2>1, <2>2 DEF IInv, LoopInv, LoopType, NoneOverdue, StopIsNear, CutOffLast, Busy
  <2> QED BY <2>1, <2>3 DEF IInv
<1> QED BY <1>1, <1>2, <1>3, <1>4, HandleConnIInv, AcceptConnIInv, PollReturnsIInv, TickIInv,
         LoopStepIInv DEF Next, ServerStep

---------------------------------------------------------------------------
(* The theorems *)

\* Every slot is free or holds one client whose bytes and answer it accounts for, and
\* no deadline is ever slept through, whatever the clients do.
THEOREM Invariance == Spec => []IInv
BY InitIInv, StepIInv, PTL DEF Spec

\* A connection holds a slot of server.c for less than two deadlines: one to be read,
\* and one to be written, which begins before the first has run out.
THEOREM SlotIsBoundedHolds == Spec => []SlotIsBounded
<1>1. ASSUME IInv PROVE SlotIsBounded
  <2> SUFFICES ASSUME NEW k \in Busy PROVE conns[k].age < 2 * Deadline
    BY DEF SlotIsBounded
  <2> DEFINE x == conns[k]
  <2>1. k \in Slots /\ x \in ConnType /\ Held(x, cl[x.client])
    BY <1>1, BusyIsHeld DEF IInv, ConnInv, ConnsType, Busy
  <2> HIDE DEF x
  <2>2. /\ x.left \in Nat /\ x.age \in Nat /\ x.phase \in Nat /\ x.left + x.phase = Deadline
        /\ x.age = x.phase \/ x.age < x.phase + Deadline
    BY <2>1 DEF Held, IsReading, IsWriting, ConnType
  <2>3. x.age < 2 * Deadline
    BY <2>2, Constants
  <2> QED BY <2>3 DEF x
<1> QED BY <1>1, Invariance, PTL

\* statusd sleeps at most one wait of poll after SIGTERM or SIGINT, wherever in the loop
\* the signal lands.
THEOREM StopIsPromptHolds == Spec => []StopIsPrompt
<1>1. IInv => StopIsPrompt
  BY DEF IInv, LoopInv, StopIsNear, StopIsPrompt
<1> QED BY <1>1, Invariance, PTL

\* The counter of full responses counts the clients that got one, and each of them got
\* all units of the answer to what it sent itself.
THEOREM ServedInFullHolds == Spec => []ServedInFull
<1>1. IInv => ServedInFull
  BY DEF IInv, ConnInv
<1> QED BY <1>1, Invariance, PTL

\* No connection is lost, shared between slots or miscounted through accept, reap and close.
THEOREM OneSlotEachHolds == Spec => []OneSlotEach
<1>1. ASSUME IInv PROVE OneSlotEach
  <2> USE <1>1 DEF IInv
  <2> SUFFICES ASSUME NEW c \in Clients
               PROVE  Cardinality({k \in Slots : conns[k].client = c})
                        = (IF cl[c].st = "open" THEN 1 ELSE 0)
    BY DEF OneSlotEach, ConnInv, Counted, LoopInv, CutOffLast
  <2> DEFINE T == {k \in Slots : conns[k].client = c}
  <2>1. \A k \in T : conns[k] # FreeConn /\ cl[c].st = "open"
    BY BusyIsHeld DEF Held
  <2>2. CASE cl[c].st = "open"
    <3>1. PICK k \in Slots : conns[k].client = c
      BY <2>2 DEF ConnInv, OpenIsHeld
    <3>2. T = {k}
      BY <2>1, <3>1 DEF ConnInv, SlotsDiffer
    <3> HIDE DEF T
    <3> QED BY <2>2, <3>2, FS_Singleton DEF T
  <2>3. CASE cl[c].st # "open"
    <3>1. T = {}
      BY <2>1, <2>3
    <3> HIDE DEF T
    <3> QED BY <2>3, <3>1, FS_EmptySet DEF T
  <2> QED BY <2>2, <2>3
<1> QED BY <1>1, Invariance, PTL

\* reap closes no connection before its deadline in that phase has passed.
THEOREM TimeoutIsEarnedHolds == Spec => TimeoutIsEarned
<1> DEFINE Earned == timeouts' > timeouts =>
             \A k \in Busy : conns'[k].state = "FREE" => conns[k].phase >= Deadline
<1>1. ASSUME IInv, [Next]_vars PROVE [Earned]_vars
  <2>1. timeouts \in Nat
    BY <1>1 DEF IInv, ConnInv, ConnsType
  <2>2. CASE PollReturns
    <3> SUFFICES ASSUME NEW k \in Busy, conns'[k].state = "FREE" PROVE conns[k].phase >= Deadline
      OBVIOUS
    <3>1. k \in Slots /\ conns[k].state # "FREE"
      BY DEF Busy
    <3>2. k \in Expired
      BY <2>2, <3>1 DEF PollReturns
    <3>3. conns[k].left = 0 /\ conns[k] \in ConnType /\ conns[k].left + conns[k].phase = Deadline
      BY <1>1, <3>1, <3>2, BusyIsHeld DEF Expired, IInv, ConnInv, ConnsType, Held
    <3> QED BY <3>3, Constants DEF ConnType
  <2>3. CASE timeouts' = timeouts
    BY <2>1, <2>3
  <2> QED BY <1>1, <2>2, <2>3 DEF Next, ServerStep, CheckStop, BeginPoll, PollInterrupted,
             HandleListener, HandleConn, StepDone, AcceptConn, AcceptDrop, AcceptAborted, AcceptStops,
             AcceptFails, StopServing, ListenerFails, Tick, Signal, ClientStep, Connect, Send, Receive,
             HangUp, counters, vars
<1>2. TimeoutIsEarned <=> [][Earned]_vars
  BY DEF TimeoutIsEarned
<1> QED BY <1>1, <1>2, Invariance, PTL DEF Spec
=============================================================================
