------------------------------ MODULE RingShm -------------------------------
(***************************************************************************)
(* The life of a ring in POSIX shared memory (src/ipc/shm.c): the          *)
(* supervisor makes it under a name, its children attach to that name, and *)
(* either may fail or be killed between any two system calls.  A child may *)
(* start at any time: storaged is retried until the ring is there.         *)
(*                                                                         *)
(* An object outlives its name for as long as somebody has it mapped.      *)
(***************************************************************************)
EXTENDS Integers

CONSTANTS
  Children,       \* the processes that attach: producers and storaged
  MaxAccidents    \* bound: failed system calls, killed and stopped processes

ASSUME ShmAssumption == MaxAccidents \in Nat

NoObject == 0
Objects  == 1 .. MaxAccidents + 1

VARIABLES
  name,      \* the object shm_open finds, or none
  objs,      \* per object: whether it has its size, what its header says, and its use
  made,      \* objects so far
  spc, sup,  \* where the supervisor is in ring_create, and its object
  cpc, fd,   \* per child: where it is in ring_attach, and the object it opened
  accidents

supVars   == <<spc, sup>>
childVars == <<cpc, fd>>
vars      == <<name, objs, made, supVars, childVars, accidents>>

\* layout: ring_layout_ok holds; ready: ring_create has returned it; used: indices a
\* child may have moved.
Blank == [sized |-> FALSE, layout |-> FALSE, ready |-> FALSE, used |-> FALSE]

Init ==
  /\ name = NoObject /\ objs = [o \in Objects |-> Blank] /\ made = 0
  /\ spc = "unlink" /\ sup = NoObject
  /\ cpc = [c \in Children |-> "down"] /\ fd = [c \in Children |-> NoObject]
  /\ accidents = 0

AllWell == UNCHANGED accidents
Befalls == accidents < MaxAccidents /\ accidents' = accidents + 1

---------------------------------------------------------------------------
(* ring_create *)

\* Mutant: the object of an earlier supervisor is left where it is.
UnlinkNothing ==
  /\ spc = "unlink"
  /\ spc' = "open"
  /\ AllWell
  /\ UNCHANGED <<name, objs, made, sup, childVars>>

\* Mutant: an object that is there is used again.
UnlinkReuses ==
  /\ spc = "unlink"
  /\ sup' = name
  /\ spc' = IF name = NoObject THEN "open" ELSE "header"
  /\ AllWell
  /\ UNCHANGED <<name, objs, made, childVars>>

\* shm_unlink of what a previous boot or a crashed supervisor left.
Unlink ==
  /\ spc = "unlink"
  /\ name' = NoObject
  /\ spc' = "open"
  /\ AllWell
  /\ UNCHANGED <<objs, made, sup, childVars>>

\* Logged, and the creation goes on.
UnlinkFails ==
  /\ spc = "unlink" /\ name # NoObject
  /\ Befalls
  /\ spc' = "open"
  /\ UNCHANGED <<name, objs, made, sup, childVars>>

\* shm_open(O_CREAT | O_EXCL) makes the object, empty.
Open ==
  /\ spc = "open" /\ name = NoObject
  /\ made' = made + 1
  /\ name' = made' /\ sup' = made'
  /\ spc' = "truncate"
  /\ AllWell
  /\ UNCHANGED <<objs, childVars>>

\* An object of that name is still there, or there is no room for one.
OpenFails ==
  /\ spc = "open"
  /\ (name # NoObject /\ AllWell) \/ Befalls
  /\ spc' = "failed"
  /\ UNCHANGED <<name, objs, made, sup, childVars>>

\* ftruncate gives it its size; mmap follows.
SetSize ==
  /\ spc = "truncate"
  /\ objs' = [objs EXCEPT ![sup].sized = TRUE]
  /\ spc' = "map"
  /\ AllWell
  /\ UNCHANGED <<name, made, sup, childVars>>

Map ==
  /\ spc = "map"
  /\ spc' = "header"
  /\ AllWell
  /\ UNCHANGED <<name, objs, made, sup, childVars>>

\* ftruncate or mmap fails: what was made is unlinked, unless that fails too.
MakeFails ==
  /\ spc \in {"truncate", "map"}
  /\ Befalls
  /\ name' \in {NoObject, name}
  /\ spc' = "failed"
  /\ UNCHANGED <<objs, made, sup, childVars>>

\* ring_init: the header first, then the slots and the indices.
InitHeader ==
  /\ spc = "header"
  /\ objs' = [objs EXCEPT ![sup].layout = TRUE]
  /\ spc' = "indices"
  /\ AllWell
  /\ UNCHANGED <<name, made, sup, childVars>>

InitIndices ==
  /\ spc = "indices"
  /\ objs' = [objs EXCEPT ![sup].used = FALSE]
  /\ spc' = "generation"
  /\ AllWell
  /\ UNCHANGED <<name, made, sup, childVars>>

\* The generation, and ring_create returns.
SetGeneration ==
  /\ spc = "generation"
  /\ objs' = [objs EXCEPT ![sup].ready = TRUE]
  /\ spc' = "made"
  /\ AllWell
  /\ UNCHANGED <<name, made, sup, childVars>>

\* ring_create returned NULL: the supervisor gives up, and is started again.
Restart ==
  /\ spc = "failed"
  /\ spc' = "unlink" /\ sup' = NoObject
  /\ AllWell
  /\ UNCHANGED <<name, objs, made, childVars>>

\* ring_destroy, and a new start.
Destroy ==
  /\ spc = "made" /\ Befalls
  /\ name' = NoObject
  /\ spc' = "unlink" /\ sup' = NoObject
  /\ UNCHANGED <<objs, made, childVars>>

\* kill -9 of the supervisor, which its keeper starts again.
KillSupervisor ==
  /\ spc # "unlink" /\ Befalls
  /\ spc' = "unlink" /\ sup' = NoObject
  /\ UNCHANGED <<name, objs, made, childVars>>

---------------------------------------------------------------------------
(* ring_attach *)

\* The child's next step, with the object it holds.
Goes(c, to, o) ==
  /\ cpc' = [cpc EXCEPT ![c] = to]
  /\ fd' = [fd EXCEPT ![c] = o]
  /\ UNCHANGED <<name, made, supVars>>

\* shm_open without O_CREAT; where there is none the child ends and is started again.
Attach(c) ==
  /\ cpc[c] = "down" /\ name # NoObject
  /\ Goes(c, "stat", name)
  /\ AllWell /\ UNCHANGED objs

\* fstat and the size check.
Stat(c) ==
  /\ cpc[c] = "stat"
  /\ IF objs[fd[c]].sized THEN Goes(c, "map", fd[c]) ELSE Goes(c, "down", NoObject)
  /\ AllWell /\ UNCHANGED objs

\* Mutant: whatever the header says.
CheckNothing(c) ==
  /\ cpc[c] = "map"
  /\ Goes(c, "attached", fd[c])
  /\ AllWell /\ UNCHANGED objs

\* mmap, and the layout check.
Check(c) ==
  /\ cpc[c] = "map"
  /\ IF objs[fd[c]].layout THEN Goes(c, "attached", fd[c]) ELSE Goes(c, "down", NoObject)
  /\ AllWell /\ UNCHANGED objs

\* fstat or mmap fails.
AttachFails(c) ==
  /\ cpc[c] \in {"stat", "map"}
  /\ Befalls
  /\ Goes(c, "down", NoObject)
  /\ UNCHANGED objs

\* A push or a release moves an index.
Use(c) ==
  /\ cpc[c] = "attached"
  /\ objs' = [objs EXCEPT ![fd[c]].used = TRUE]
  /\ AllWell
  /\ UNCHANGED <<name, made, supVars, childVars>>

\* ring_detach at a stop, or a kill.
Detach(c) ==
  /\ cpc[c] = "attached"
  /\ Befalls
  /\ Goes(c, "down", NoObject)
  /\ UNCHANGED objs

---------------------------------------------------------------------------

Create ==
  \/ Unlink \/ UnlinkFails \/ Open \/ OpenFails \/ SetSize \/ Map \/ MakeFails
  \/ InitHeader \/ InitIndices \/ SetGeneration \/ Restart

Attaching(c) == Attach(c) \/ Stat(c) \/ Check(c)

Next ==
  \/ Create \/ Destroy \/ KillSupervisor
  \/ \E c \in Children : Attaching(c) \/ AttachFails(c) \/ Use(c) \/ Detach(c)

Spec == Init /\ [][Next]_vars

\* The supervisor and its children run, and are started again when they end.
FairSpec == Spec /\ WF_vars(Create) /\ \A c \in Children : WF_vars(Attaching(c))

---------------------------------------------------------------------------
(* Properties *)

\* "returns NULL ... if it is missing, too small or of another layout": whatever was going
\* on when it opened the ring, a child that attached has all of it mapped, with a header
\* of this build; an access past the object's size would kill it.
AttachedIsWhole ==
  \A c \in Children : cpc[c] = "attached" => objs[fd[c]].sized /\ objs[fd[c]].layout

\* "a child restarted by the supervisor cannot reset the indices the other side is
\* using", and neither can a supervisor that is restarted: once ring_create has returned
\* a ring its indices are never set back.
UsedIsNeverReset ==
  [][\A o \in Objects : objs[o].ready /\ objs[o].used => objs'[o].used]_vars

\* A ring is there in the end, and every child is attached to some ring, whatever
\* remains the supervisors and children before left behind.
EveryoneAttaches ==
  <>[](spc = "made" /\ name = sup /\ \A c \in Children : cpc[c] = "attached")
=============================================================================
