--------------------------- MODULE RingShmProofs ---------------------------
(***************************************************************************)
(* What shm.c keeps of a ring, for any number of children and accidents.   *)
(***************************************************************************)
EXTENDS RingShm, TLAPS

---------------------------------------------------------------------------
(* The inductive invariant *)

\* Where ring_create holds an object that is not a ring yet, and where it holds one.
Making  == {"truncate", "map", "header", "indices", "generation"}
Without == {"unlink", "open", "failed"}

ObjType == [sized : BOOLEAN, layout : BOOLEAN, ready : BOOLEAN, used : BOOLEAN]

TypeOK ==
  /\ name \in Objects \cup {NoObject}
  /\ objs \in [Objects -> ObjType]
  /\ made \in Nat /\ accidents \in 0 .. MaxAccidents
  /\ spc \in Making \cup Without \cup {"made"}
  /\ sup \in Objects \cup {NoObject}
  /\ cpc \in [Children -> {"down", "stat", "map", "attached"}]
  /\ fd \in [Children -> Objects \cup {NoObject}]

\* Every object but the supervisor's own cost an accident, so there are enough of them.
MadeIsBounded == made <= accidents + (IF spc \in Without THEN 0 ELSE 1)

\* The supervisor's object exists; it is not handed out before ring_create returns.
SupHoldsIt ==
  /\ spc \in Making \cup {"made"} => sup \in Objects /\ sup <= made
  /\ spc \in Making => ~objs[sup].ready
  /\ spc \in Making \ {"truncate"} => objs[sup].sized

\* What was not made yet is blank.
UnmadeIsBlank == \A o \in Objects : o > made => objs[o] = Blank

\* The object of a child exists, and each check it passed holds from then on.
ChildHoldsIt ==
  \A c \in Children :
    /\ cpc[c] # "down" => fd[c] \in Objects
    /\ cpc[c] \in {"map", "attached"} => objs[fd[c]].sized
    /\ cpc[c] = "attached" => objs[fd[c]].layout

IInv == TypeOK /\ MadeIsBounded /\ SupHoldsIt /\ UnmadeIsBlank /\ ChildHoldsIt

---------------------------------------------------------------------------

USE DEF NoObject

\* Nothing is made, and everyone is down.
LEMMA InitIInv == Init => IInv
BY ShmAssumption DEF Init, IInv, TypeOK, MadeIsBounded, SupHoldsIt, UnmadeIsBlank, ChildHoldsIt,
   Blank, ObjType, Objects, Making, Without

\* The steps of ring_create.
LEMMA CreateIInv == ASSUME IInv, Create PROVE IInv'
<1> USE ShmAssumption DEF AllWell, Befalls, supVars, childVars, Making, Without
<1>1. CASE Unlink
  BY <1>1 DEF Unlink, IInv, TypeOK, MadeIsBounded, SupHoldsIt, UnmadeIsBlank, ChildHoldsIt
<1>2. CASE UnlinkFails
  BY <1>2 DEF UnlinkFails, IInv, TypeOK, MadeIsBounded, SupHoldsIt, UnmadeIsBlank, ChildHoldsIt
<1>3. CASE Open
  <2>1. made + 1 \in Objects
    BY <1>3 DEF Open, IInv, TypeOK, MadeIsBounded, Objects
  <2>2. objs[made + 1] = Blank
    BY <2>1 DEF IInv, TypeOK, UnmadeIsBlank, Objects
  <2>3. TypeOK' /\ MadeIsBounded'
    BY <1>3, <2>1 DEF Open, IInv, TypeOK, MadeIsBounded
  <2>4. SupHoldsIt'
    BY <1>3, <2>1, <2>2 DEF Open, SupHoldsIt, Blank
  <2>5. UnmadeIsBlank' /\ ChildHoldsIt'
    BY <1>3 DEF Open, IInv, TypeOK, UnmadeIsBlank, ChildHoldsIt, Objects
  <2> QED BY <2>3, <2>4, <2>5 DEF IInv
<1>4. CASE OpenFails
  BY <1>4 DEF OpenFails, IInv, TypeOK, MadeIsBounded, SupHoldsIt, UnmadeIsBlank, ChildHoldsIt
<1>5. CASE SetSize \/ InitHeader \/ InitIndices \/ SetGeneration
  <2> USE <1>5 DEF SetSize, InitHeader, InitIndices, SetGeneration
  <2>1. sup \in Objects /\ sup <= made /\ ~objs[sup].ready
    BY DEF IInv, SupHoldsIt
  <2>2. /\ objs' \in [Objects -> ObjType]
        /\ \A o \in Objects \ {sup} : objs'[o] = objs[o]
        /\ objs[sup].sized => objs'[sup].sized
        /\ objs[sup].layout => objs'[sup].layout
        /\ spc' # "made" => ~objs'[sup].ready
        /\ objs'[sup].sized
    <3> USE <2>1 DEF IInv, TypeOK, SupHoldsIt, ObjType
    <3>1. CASE SetSize
      BY <3>1
    <3>2. CASE InitHeader
      BY <3>2
    <3>3. CASE InitIndices
      BY <3>3
    <3>4. CASE SetGeneration
      BY <3>4
    <3> QED BY <3>1, <3>2, <3>3, <3>4, <1>5
  <2>3. TypeOK' /\ MadeIsBounded'
    BY <2>2 DEF IInv, TypeOK, MadeIsBounded
  <2>4. SupHoldsIt'
    BY <2>1, <2>2 DEF SupHoldsIt
  <2>5. UnmadeIsBlank'
    BY <2>1, <2>2 DEF IInv, TypeOK, UnmadeIsBlank, Objects
  <2>6. ChildHoldsIt'
    BY <2>1, <2>2 DEF IInv, ChildHoldsIt
  <2> QED BY <2>3, <2>4, <2>5, <2>6 DEF IInv
<1>6. CASE Map
  BY <1>6 DEF Map, IInv, TypeOK, MadeIsBounded, SupHoldsIt, UnmadeIsBlank, ChildHoldsIt
<1>7. CASE MakeFails
  BY <1>7 DEF MakeFails, IInv, TypeOK, MadeIsBounded, SupHoldsIt, UnmadeIsBlank, ChildHoldsIt
<1>8. CASE Restart
  BY <1>8 DEF Restart, IInv, TypeOK, MadeIsBounded, SupHoldsIt, UnmadeIsBlank, ChildHoldsIt
<1> QED BY <1>1, <1>2, <1>3, <1>4, <1>5, <1>6, <1>7, <1>8 DEF Create

\* The supervisor ends, by ring_destroy or a kill, and starts again.
LEMMA EndIInv == ASSUME IInv, Destroy \/ KillSupervisor PROVE IInv'
BY ShmAssumption DEF Destroy, KillSupervisor, Befalls, childVars, Making, Without,
   IInv, TypeOK, MadeIsBounded, SupHoldsIt, UnmadeIsBlank, ChildHoldsIt

\* The steps of a child.
LEMMA ChildIInv ==
  ASSUME IInv, NEW c \in Children, Attaching(c) \/ AttachFails(c) \/ Use(c) \/ Detach(c)
  PROVE  IInv'
<1> USE ShmAssumption DEF AllWell, Befalls, supVars, childVars, Goes
<1>1. CASE Attaching(c) \/ AttachFails(c) \/ Detach(c)
  <2> USE <1>1 DEF Attaching, Attach, Stat, Check, AttachFails, Detach
  <2>1. TypeOK'
    BY DEF IInv, TypeOK, ChildHoldsIt
  <2>2. MadeIsBounded' /\ SupHoldsIt' /\ UnmadeIsBlank'
    BY DEF IInv, TypeOK, MadeIsBounded, SupHoldsIt, UnmadeIsBlank
  <2>3. ChildHoldsIt'
    BY DEF IInv, TypeOK, ChildHoldsIt
  <2> QED BY <2>1, <2>2, <2>3 DEF IInv
<1>2. CASE Use(c)
  <2> DEFINE o == fd[c]
  <2>1. o \in Objects /\ objs[o].sized /\ objs' = [objs EXCEPT ![o].used = TRUE]
    BY <1>2 DEF Use, IInv, ChildHoldsIt
  <2>2. objs[o] # Blank
    BY <2>1 DEF Blank
  <2> HIDE DEF o
  <2>3. /\ objs' \in [Objects -> ObjType]
        /\ \A p \in Objects \ {o} : objs'[p] = objs[p]
        /\ \A p \in Objects : /\ objs'[p].sized = objs[p].sized
                              /\ objs'[p].layout = objs[p].layout
                              /\ objs'[p].ready = objs[p].ready
    BY <2>1 DEF IInv, TypeOK, ObjType
  <2>4. TypeOK' /\ MadeIsBounded'
    BY <1>2, <2>3 DEF Use, IInv, TypeOK, MadeIsBounded
  <2>5. SupHoldsIt' /\ ChildHoldsIt'
    BY <1>2, <2>3 DEF Use, IInv, SupHoldsIt, ChildHoldsIt, Making
  <2>6. UnmadeIsBlank'
    BY <1>2, <2>2, <2>3 DEF Use, IInv, UnmadeIsBlank
  <2> QED BY <2>4, <2>5, <2>6 DEF IInv
<1> QED BY <1>1, <1>2

LEMMA StepIInv == IInv /\ [Next]_vars => IInv'
<1> SUFFICES ASSUME IInv, [Next]_vars PROVE IInv'
  OBVIOUS
<1>1. CASE UNCHANGED vars
  BY <1>1 DEF vars, supVars, childVars, IInv, TypeOK, MadeIsBounded, SupHoldsIt, UnmadeIsBlank,
     ChildHoldsIt
<1> QED BY <1>1, CreateIInv, EndIInv, ChildIInv DEF Next

\* The state of shm.c's callers is what these five facts say, whatever fails.
THEOREM Invariance == Spec => []IInv
BY InitIInv, StepIInv, PTL DEF Spec

\* A child that attached has the whole object mapped, with a header of this build,
\* whatever the supervisor did between its open, fstat, mmap and header check.
THEOREM AttachedIsWholeHolds == Spec => []AttachedIsWhole
<1>1. IInv => AttachedIsWhole
  BY DEF IInv, ChildHoldsIt, AttachedIsWhole
<1> QED BY <1>1, Invariance, PTL

\* No step sets back the indices of a ring that ring_create has returned.
THEOREM UsedIsNeverResetHolds == Spec => UsedIsNeverReset
<1>1. ASSUME IInv, [Next]_vars
      PROVE  [\A o \in Objects : objs[o].ready /\ objs[o].used => objs'[o].used]_vars
  <2> SUFFICES ASSUME Next, NEW o \in Objects, objs[o].ready, objs[o].used PROVE objs'[o].used
    BY <1>1
  <2> USE DEF IInv, TypeOK, ObjType
  <2>1. CASE objs' = objs
    BY <2>1
  <2>2. CASE SetSize \/ InitHeader \/ InitIndices \/ SetGeneration
    BY <2>2, <1>1 DEF SetSize, InitHeader, InitIndices, SetGeneration, SupHoldsIt, Making
  <2>3. CASE \E c \in Children : Use(c)
    BY <2>3, <1>1 DEF Use, ChildHoldsIt
  <2> QED BY <2>1, <2>2, <2>3 DEF Next, Create, Unlink, UnlinkFails, Open, OpenFails, Map, MakeFails,
             Restart, Destroy, KillSupervisor, Attaching, Attach, Stat, Check, AttachFails, Detach
<1>2. UsedIsNeverReset <=> [][\A o \in Objects : objs[o].ready /\ objs[o].used => objs'[o].used]_vars
  BY DEF UsedIsNeverReset
<1> QED BY <1>1, <1>2, Invariance, PTL DEF Spec
=============================================================================
