------------------------------- MODULE Server -------------------------------
(***************************************************************************)
(* statusd's connection loop (src/interface/server.c) under the loop of    *)
(* src/interface/statusd_main.c: one thread, a few slots, a poll that must *)
(* wake for the nearest deadline, and clients that send, read, stall and   *)
(* hang up whenever they like.                                             *)
(*                                                                         *)
(* Time passes only inside poll, in ticks; a time in the code is here the  *)
(* number of ticks left until it.  A request is a sequence of units: parts *)
(* of a head, and the unit that completes it, which says what              *)
(* http_parse_request makes of it.                                         *)
(***************************************************************************)
EXTENDS Integers, Sequences, FiniteSets, FiniteSetsExt

CONSTANTS
  Clients, NoClient,  \* a client is the number of its connection
  MaxConns,         \* SERVER_MAX_CONNS
  Deadline,         \* SERVER_DEADLINE_MS
  MaxWait,          \* what main passes to server_step
  AcceptPause,      \* SERVER_ACCEPT_PAUSE_MS
  AcceptsPerStep,   \* ACCEPTS_PER_STEP
  ReqMax,           \* HTTP_MAX_REQUEST
  OutUnits,         \* units of a response
  Ends,             \* how each client may end a request: "ok", "bad", "method"
  MaxSends,         \* bound: units that all clients send together
  MaxAccidents      \* bound: clients that hang up, failures of accept and of the listener

ASSUME ServerAssumption ==
  /\ NoClient \notin Clients /\ IsFiniteSet(Clients) /\ Clients \subseteq Nat
  /\ {MaxConns, Deadline, MaxWait, AcceptPause, AcceptsPerStep, ReqMax, OutUnits}
       \subseteq Nat \ {0}
  /\ Ends \in [Clients -> SUBSET {"ok", "bad", "method"}]
  /\ {MaxSends, MaxAccidents} \subseteq Nat

VARIABLES
  conns,                    \* server_t: the slots
  served, drops, timeouts,  \* server_t: the counters
  pause,                    \* accept_resume_ms
  spc,                      \* where the thread is
  wake,                     \* when poll gives up waiting
  listening,                \* the listener is in the pollfd array
  todo,                     \* pollfd entries with revents still to handle, smallest first;
                            \* 0 is the listener
  accepts,                  \* turns of accept_new's loop
  stop, intr,               \* g_stop; a signal that poll has yet to report
  queue,                    \* connections the kernel holds for accept
  cl,                       \* the clients and their sockets
  sends, accidents,
  waited                    \* history: ticks since the signal

counters == <<served, drops, timeouts>>
loop     == <<spc, wake, listening, todo, accepts>>
bounds   == <<sends, accidents>>
vars     == <<conns, counters, pause, loop, stop, intr, queue, cl, bounds, waited>>

Slots == 1 .. MaxConns

\* A free slot: close_conn's values, and zero where the code leaves what it never
\* reads again.  age and phase count ticks since accept and since the phase began.
FreeConn ==
  [client |-> NoClient, state |-> "FREE", left |-> 0, req |-> <<>>, out |-> 0,
   status |-> "none", age |-> 0, phase |-> 0]

\* A client: sent is all it has sent, rx what the server has not read yet, room
\* the space in the send buffer, rcvd the units of a response sent to it.
NewClient ==
  [st |-> "new", sent |-> <<>>, rx |-> <<>>, room |-> 0, rcvd |-> 0,
   status |-> "none", gone |-> FALSE]

\* What is left of a client whose connection has ended; and of one that is taken to have
\* hung up, y being the client.
Ended(st) == [NewClient EXCEPT !.st = st]
Lost(y)   == [Ended("lost") EXCEPT !.gone = y.gone]

\* server_open has succeeded.
Init ==
  /\ conns = [k \in Slots |-> FreeConn]
  /\ served = 0 /\ drops = 0 /\ timeouts = 0 /\ pause = 0
  /\ spc = "loop" /\ wake = 0 /\ listening = FALSE /\ todo = {} /\ accepts = 0
  /\ stop = FALSE /\ intr = FALSE
  /\ queue = <<>>
  /\ cl = [c \in Clients |-> NewClient]
  /\ sends = 0 /\ accidents = 0 /\ waited = 0

Smaller(a, b) == IF a < b THEN a ELSE b

Busy == {k \in Slots : conns[k].state # "FREE"}

\* Mutant of FreeSlot: the first slot, whatever it holds.
FreeSlotFirst == 1

\* free_slot: the first slot that is free, when there is one.
FreeSlot == Min(Slots \ Busy)

---------------------------------------------------------------------------
(* Writing: slot k in state x, its client in state y *)

\* close_conn: the connection of x is closed and its slot free; y is how its client
\* ends.
CloseConn(k, x, y) ==
  /\ conns' = [conns EXCEPT ![k] = FreeConn]
  /\ cl' = [cl EXCEPT ![x.client] = y]

\* Mutant of ConnWrite: a short send counts as a whole one.
ConnWriteShort(k, x, y) ==
  LET n == Smaller(y.room, x.out)
  IN  /\ served' = served + 1
      /\ CloseConn(k, x, [Ended("served") EXCEPT !.sent = y.sent, !.rcvd = y.rcvd + n,
                                                 !.status = x.status])

\* conn_write
ConnWrite(k, x, y) ==
  LET n == Smaller(y.room, x.out)
      z == [y EXCEPT !.room = @ - n, !.rcvd = @ + n]
  IN  \/ /\ n < x.out /\ ~y.gone
         /\ conns' = [conns EXCEPT ![k] = [x EXCEPT !.out = @ - n]]
         /\ cl' = [cl EXCEPT ![x.client] = z]
         /\ UNCHANGED served
      \/ /\ n = x.out
         /\ served' = served + 1
         /\ CloseConn(k, x, [Ended("served") EXCEPT !.sent = y.sent, !.rcvd = z.rcvd,
                                                 !.status = x.status])
      \/ /\ y.gone
         /\ CloseConn(k, x, Lost(y))
         /\ UNCHANGED served

\* Mutant of BeginWrite: no fresh allowance to receive the response.
BeginWriteSameDeadline(k, x, y, status) ==
  ConnWrite(k, [x EXCEPT !.state = "WRITING", !.phase = 0, !.req = <<>>,
                         !.out = OutUnits, !.status = status], y)

\* begin_write, with the response that finish laid out; the request is not read again.
BeginWrite(k, x, y, status) ==
  ConnWrite(k, [x EXCEPT !.state = "WRITING", !.left = Deadline, !.phase = 0, !.req = <<>>,
                         !.out = OutUnits, !.status = status], y)

---------------------------------------------------------------------------
(* Reading *)

\* http_parse_request: the first end of headers decides.
Parse(req) ==
  LET ends == {i \in DOMAIN req : req[i] # "part"}
  IN  CASE ends # {} -> req[Min(ends)]
        [] ends = {} /\ Len(req) >= ReqMax -> "large"
        [] OTHER -> "incomplete"

\* conn_read.  dispatch and respond_error both end in a response to what the parser
\* found: the handler's, the fixed 500 in its place, or the refusal.
ConnRead(k, x, y) ==
  LET room == ReqMax - Len(x.req)
      n    == Smaller(Len(y.rx), room)
      req  == x.req \o SubSeq(y.rx, 1, n)
      z    == [y EXCEPT !.rx = SubSeq(@, n + 1, Len(@))]
      p    == IF room = 0 THEN "large" ELSE Parse(req)
  IN  \/ /\ room > 0 /\ n = 0 /\ ~y.gone
         /\ conns' = [conns EXCEPT ![k] = x]
         /\ cl' = [cl EXCEPT ![x.client] = y]
         /\ UNCHANGED served
      \/ /\ room > 0 /\ y.gone
         /\ CloseConn(k, x, Lost(y))
         /\ UNCHANGED served
      \/ /\ n > 0 /\ p = "incomplete"
         /\ conns' = [conns EXCEPT ![k] = [x EXCEPT !.req = req]]
         /\ cl' = [cl EXCEPT ![x.client] = z]
         /\ UNCHANGED served
      \/ /\ (room = 0 \/ n > 0) /\ p # "incomplete"
         /\ BeginWrite(k, x, z, p)

---------------------------------------------------------------------------
(* accept_new, one turn of its loop per step *)

AcceptDone == spc' = "handle" /\ accepts' = 0

\* A connection takes the first free slot, and its request may already be here.
AcceptConn ==
  /\ spc = "accept" /\ accepts < AcceptsPerStep
  /\ queue # <<>> /\ Busy # Slots
  /\ LET c == Head(queue)
         x == [FreeConn EXCEPT !.client = c, !.state = "READING", !.left = Deadline]
     IN  ConnRead(FreeSlot, x, [cl[c] EXCEPT !.st = "open"])
  /\ queue' = Tail(queue)
  /\ accepts' = accepts + 1
  /\ UNCHANGED <<drops, timeouts, pause, spc, wake, listening, todo, stop, intr, bounds, waited>>

\* All slots are busy: refused and counted.
AcceptDrop ==
  /\ spc = "accept" /\ accepts < AcceptsPerStep
  /\ queue # <<>> /\ Busy = Slots
  /\ drops' = drops + 1
  /\ cl' = [cl EXCEPT ![Head(queue)] = Ended("dropped")]
  /\ queue' = Tail(queue)
  /\ accepts' = accepts + 1
  /\ UNCHANGED <<conns, served, timeouts, pause, spc, wake, listening, todo, stop, intr,
                 bounds, waited>>

\* ECONNABORTED: the client left the queue before it was accepted.
AcceptAborted ==
  /\ spc = "accept" /\ accepts < AcceptsPerStep
  /\ queue # <<>> /\ cl[Head(queue)].gone
  /\ cl' = [cl EXCEPT ![Head(queue)] = Lost(cl[Head(queue)])]
  /\ queue' = Tail(queue)
  /\ accepts' = accepts + 1
  /\ UNCHANGED <<conns, counters, pause, spc, wake, listening, todo, stop, intr, bounds, waited>>

\* Nobody waits, or enough were taken for one step.
AcceptStops ==
  /\ spc = "accept"
  /\ queue = <<>> \/ accepts = AcceptsPerStep
  /\ AcceptDone
  /\ UNCHANGED <<conns, counters, pause, wake, listening, todo, stop, intr, queue, cl, bounds,
                 waited>>

\* No descriptor left: the connection stays queued and the listener rests.
AcceptFails ==
  /\ spc = "accept" /\ accepts < AcceptsPerStep
  /\ queue # <<>> /\ accidents < MaxAccidents
  /\ accidents' = accidents + 1
  /\ pause' = AcceptPause
  /\ AcceptDone
  /\ UNCHANGED <<conns, counters, wake, listening, todo, stop, intr, queue, cl, sends, waited>>

---------------------------------------------------------------------------
(* server_step *)

\* Mutant of WaitTime: the deadlines do not shorten the wait.
WaitTimeBlind ==
  Min({MaxWait} \cup (IF pause > 0 THEN {pause} ELSE {}))

\* The wait: at most MaxWait, less if a deadline or the end of the pause is nearer.
WaitTime ==
  Min({MaxWait} \cup {conns[k].left : k \in Busy} \cup (IF pause > 0 THEN {pause} ELSE {}))

\* Mutant of CheckStop: g_stop is not looked at.
CheckStopNot ==
  /\ spc = "loop"
  /\ spc' = "step"
  /\ UNCHANGED <<conns, counters, pause, wake, listening, todo, accepts, stop, intr, queue, cl,
                 bounds, waited>>

\* main's check of g_stop.
CheckStop ==
  /\ spc = "loop" /\ ~stop
  /\ spc' = "step"
  /\ UNCHANGED <<conns, counters, pause, wake, listening, todo, accepts, stop, intr, queue, cl,
                 bounds, waited>>

\* server_step up to poll.
BeginPoll ==
  /\ spc = "step"
  /\ wake' = WaitTime
  /\ listening' = (pause = 0)
  /\ spc' = "polling"
  /\ UNCHANGED <<conns, counters, pause, todo, accepts, stop, intr, queue, cl, bounds, waited>>

\* A slot whose descriptor poll reports.
Ready(k) ==
  LET y == cl[conns[k].client]
  IN  \/ y.gone
      \/ conns[k].state = "READING" /\ y.rx # <<>>
      \/ conns[k].state = "WRITING" /\ y.room > 0

\* The pollfd entries with revents.
Events == {k \in Busy : Ready(k)} \cup (IF listening /\ queue # <<>> THEN {0} ELSE {})

\* Mutant of Expired: only readers are reaped.
ExpiredReaders == {k \in Busy : conns[k].state = "READING" /\ conns[k].left = 0}

\* The slots reap closes: their deadline has come.
Expired == {k \in Busy : conns[k].left = 0}

\* poll returns; reap comes first.
PollReturns ==
  /\ spc = "polling"
  /\ Events # {} \/ wake = 0
  /\ todo' = Events
  /\ conns' = [k \in Slots |-> IF k \in Expired THEN FreeConn ELSE conns[k]]
  /\ timeouts' = timeouts + Cardinality(Expired)
  /\ cl' = [c \in Clients |-> IF \E k \in Expired : conns[k].client = c
                              THEN Ended("timeout") ELSE cl[c]]
  /\ spc' = "handle"
  /\ intr' = FALSE /\ wake' = 0 /\ listening' = FALSE
  /\ UNCHANGED <<served, drops, pause, accepts, stop, queue, bounds, waited>>

\* EINTR: back to main, nothing reaped and nothing handled.
PollInterrupted ==
  /\ spc = "polling" /\ intr
  /\ spc' = "loop"
  /\ intr' = FALSE /\ wake' = 0 /\ listening' = FALSE
  /\ UNCHANGED <<conns, counters, pause, todo, accepts, stop, queue, cl, bounds, waited>>

\* The listener's entry.
HandleListener ==
  /\ spc = "handle" /\ 0 \in todo
  /\ todo' = todo \ {0}
  /\ spc' = "accept"
  /\ UNCHANGED <<conns, counters, pause, wake, listening, accepts, stop, intr, queue, cl, bounds,
                 waited>>

\* A slot's entry.  The slot may have been reaped, and even taken again by
\* accept_new, since poll reported it.
HandleConn ==
  /\ spc = "handle" /\ todo # {} /\ 0 \notin todo
  /\ LET k == Min(todo)
         x == conns[k]
     IN  /\ todo' = todo \ {k}
         /\ \/ x.state = "FREE" /\ UNCHANGED <<conns, cl, served>>
            \/ x.state = "READING" /\ ConnRead(k, x, cl[x.client])
            \/ x.state = "WRITING" /\ ConnWrite(k, x, cl[x.client])
  /\ UNCHANGED <<drops, timeouts, pause, spc, wake, listening, accepts, stop, intr, queue, bounds,
                 waited>>

StepDone ==
  /\ spc = "handle" /\ todo = {}
  /\ spc' = "loop"
  /\ UNCHANGED <<conns, counters, pause, wake, listening, todo, accepts, stop, intr, queue, cl,
                 bounds, waited>>

\* server_close, and the process exits: every connection ends, queued ones too.
ServerClose ==
  /\ conns' = [k \in Slots |-> FreeConn]
  /\ cl' = [c \in Clients |-> IF cl[c].st \in {"queued", "open"}
                              THEN Ended("closed") ELSE cl[c]]
  /\ queue' = <<>> /\ todo' = {} /\ pause' = 0 /\ wake' = 0 /\ intr' = FALSE
  /\ spc' = "down"

\* A stop by signal.
StopServing ==
  /\ spc = "loop" /\ stop
  /\ ServerClose
  /\ UNCHANGED <<counters, listening, accepts, stop, bounds, waited>>

\* The listening socket failed: server_step returns -1, main exits 1.
ListenerFails ==
  /\ spc = "handle" /\ 0 \in todo
  /\ accidents < MaxAccidents
  /\ accidents' = accidents + 1
  /\ ServerClose
  /\ UNCHANGED <<counters, listening, accepts, stop, sends, waited>>

---------------------------------------------------------------------------
(* The world *)

Down(n) == IF n > 0 THEN n - 1 ELSE 0

\* A tick passes in poll, which never sleeps past its timeout.
Tick ==
  /\ spc = "polling" /\ wake > 0
  /\ wake' = wake - 1
  /\ pause' = Down(pause)
  /\ conns' = [k \in Slots |->
       IF conns[k].state = "FREE" THEN conns[k]
       ELSE [conns[k] EXCEPT !.left = Down(@), !.age = @ + 1, !.phase = @ + 1]]
  /\ waited' = IF stop THEN waited + 1 ELSE 0
  /\ UNCHANGED <<counters, spc, listening, todo, accepts, stop, intr, queue, cl, bounds>>

\* SIGTERM or SIGINT; poll is interrupted only if it has begun.  After poll nothing
\* reads g_stop and no call blocks, so a signal there is one at the loop.
Signal ==
  /\ spc \in {"loop", "step", "polling"} /\ ~stop
  /\ stop' = TRUE
  /\ intr' = (spc = "polling")
  /\ UNCHANGED <<conns, counters, pause, loop, queue, cl, bounds, waited>>

\* The next client connects; its window takes the whole response, or a part of it.
Connect(c) ==
  /\ spc # "down" /\ cl[c].st = "new"
  /\ \A d \in Clients : d < c => cl[d].st # "new"
  /\ \E room \in {1, OutUnits} :
       cl' = [cl EXCEPT ![c].st = "queued", ![c].room = room]
  /\ queue' = Append(queue, c)
  /\ UNCHANGED <<conns, counters, pause, loop, stop, intr, bounds, waited>>

Connected(c) == cl[c].st \in {"queued", "open"} /\ ~cl[c].gone

Send(c, u) ==
  /\ Connected(c) /\ sends < MaxSends
  /\ sends' = sends + 1
  /\ cl' = [cl EXCEPT ![c].sent = Append(@, u), ![c].rx = Append(@, u)]
  /\ UNCHANGED <<conns, counters, pause, loop, stop, intr, queue, accidents, waited>>

\* The client reads, and its window opens again.
Receive(c) ==
  /\ Connected(c) /\ cl[c].room = 0
  /\ cl' = [cl EXCEPT ![c].room = 1]
  /\ UNCHANGED <<conns, counters, pause, loop, stop, intr, queue, bounds, waited>>

HangUp(c) ==
  /\ Connected(c) /\ accidents < MaxAccidents
  /\ accidents' = accidents + 1
  /\ cl' = [cl EXCEPT ![c].gone = TRUE]
  /\ UNCHANGED <<conns, counters, pause, loop, stop, intr, queue, sends, waited>>

ServerStep ==
  \/ CheckStop \/ BeginPoll \/ PollReturns \/ PollInterrupted
  \/ HandleListener \/ HandleConn \/ StepDone
  \/ AcceptConn \/ AcceptDrop \/ AcceptAborted \/ AcceptStops \/ AcceptFails
  \/ StopServing \/ ListenerFails

ClientStep(c) ==
  \/ Connect(c)
  \/ \E u \in Ends[c] \cup {"part"} : Send(c, u)
  \/ Receive(c)
  \/ HangUp(c)

Next ==
  \/ ServerStep
  \/ Tick
  \/ Signal
  \/ \E c \in Clients : ClientStep(c)

Spec == Init /\ [][Next]_vars

\* The thread runs, and the time it sleeps in poll passes; nothing is assumed of the
\* clients.
FairSpec == Spec /\ WF_vars(ServerStep \/ Tick)

---------------------------------------------------------------------------
(* Properties *)

\* server_step's deadlines keep a slow client from holding a slot: from accept to close
\* a connection has less than two of them, whatever it sends and whenever poll wakes.
SlotIsBounded == \A k \in Busy : conns[k].age < 2 * Deadline

\* A connection that is closed as too slow had its whole deadline in that phase,
\* also when its slot was reaped and taken again within one step.
TimeoutIsEarned ==
  [][timeouts' > timeouts =>
       \A k \in Busy : conns'[k].state = "FREE" => conns[k].phase >= Deadline]_vars

\* The answer due to a client: what the parser makes of the part of its bytes that fits.
Answer(sent) == Parse(SubSeq(sent, 1, Smaller(ReqMax, Len(sent))))

\* "responses sent in full": a client counted as served got every unit of the
\* answer to its own request, and nobody else's.
ServedInFull ==
  /\ served = Cardinality({c \in Clients : cl[c].st = "served"})
  /\ \A c \in Clients : cl[c].st = "served" =>
       cl[c].rcvd = OutUnits /\ cl[c].status = Answer(cl[c].sent)

\* The clients whose connection is at st.
At(st) == {c \in Clients : cl[c].st = st}

\* No connection is lost, shared or miscounted by accept_new, reap and close_conn: one is
\* open exactly while one slot holds it; drops and timeouts count those that were refused
\* and reaped; and any other one that ended was served (ServedInFull counts these), had
\* hung up, or was cut off when statusd went down.
OneSlotEach ==
  /\ \A c \in Clients :
       Cardinality({k \in Slots : conns[k].client = c}) = (IF cl[c].st = "open" THEN 1 ELSE 0)
  /\ drops = Cardinality(At("dropped"))
  /\ timeouts = Cardinality(At("timeout"))
  /\ \A c \in At("lost") : cl[c].gone
  /\ At("closed") # {} => spc = "down"

\* A signal stops statusd within one wait, also when it arrives between the check
\* of g_stop and poll, which then is not interrupted.
StopIsPrompt == waited <= MaxWait

\* Every client that connects is served, refused, timed out or cut off in the end,
\* whatever it does, also after a pause of the listener: again and again nobody waits.
EveryConnectionEnds == []<>(At("queued") \cup At("open") = {})
=============================================================================
