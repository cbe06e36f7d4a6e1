---------------------------- MODULE ObdLogProofs ----------------------------
(***************************************************************************)
(* The logger's and the adapter session's promises, for any PIDs, any      *)
(* schedule and any limits.                                                *)
(***************************************************************************)
EXTENDS ObdLog, SequenceTheorems, TLAPS

---------------------------------------------------------------------------
(* The inductive invariant, in four parts that hold each by itself *)

\* How many opens and commands the logger can have waited for at each place.
ClockIsNear ==
  /\ toSend \in 0 .. Settings
  /\ blocked \in 0 .. Settings + 3
  /\ lpc \in {"connect", "backoff", "setup", "header", "starting", "loop", "closing"} => blocked = 0
  /\ lpc \in {"opening", "query", "waiting"} => blocked <= 1
  /\ lpc = "opened" => blocked + toSend <= Settings + 1
  /\ lpc = "init" /\ cmd = "AT" => blocked + toSend <= Settings + 2
  /\ lpc = "search" => blocked <= Settings + 2

\* Each event is the opposite of the one before it, and says what the logger goes by.
EventsPair ==
  /\ asleep \in BOOLEAN
  /\ absent \in [Pids -> {"no", "fresh", "due"}]
  /\ bus = (IF asleep THEN "asleep" ELSE "awake")
  /\ said = [p \in Pids |-> IF absent[p] = "no" THEN "present" ELSE "absent"]

\* The way to the footer: a reason is there before finally, and before the file is
\* there nothing but its setup leads past it.
FooterIsDue ==
  /\ halt \in {"none", "max_seconds", "signal"}
  /\ lpc = "finally" => halt # "none" \/ failure
  /\ lpc = "closing" => footer \in {"signal", "max_seconds"} \/ (footer = "error" /\ failure)
  /\ why = "first" => ~file
  /\ lpc \in {"setup", "header"} => ~file /\ why = "none"
  /\ EndsWithFooter

\* Nothing is on its way from the adapter; at most one reply is; and all of it is the
\* answer to the command command() waits for.
Nothing == job = NoJob /\ down = <<>> /\ input = <<>>

AtMostOne ==
  \/ down = <<>> /\ input = <<>>
  \/ job = NoJob /\ input = <<>> /\ Len(down) = 1 /\ down = <<down[1]>>
  \/ job = NoJob /\ down = <<>> /\ Len(input) = 1 /\ input = <<input[1]>>

AllMine ==
  /\ job # NoJob => job.mine
  /\ \A i \in DOMAIN down : down[i].mine
  /\ \A i \in DOMAIN input : input[i].mine

\* What the session with the port knows of the adapter, unless it went astray.
OneAnswer ==
  /\ own = TRUE
  /\ astray \in BOOLEAN
  /\ cpc # "idle" => lpc \in {"init", "header", "query"}
  /\ ~astray /\ InSession => /\ AtMostOne
                             /\ cpc = "idle" /\ ~stale => Nothing
                             /\ cpc = "reply" => AllMine

IInv == ClockIsNear /\ EventsPair /\ FooterIsDue /\ OneAnswer

---------------------------------------------------------------------------

LEMMA InitIInv == Init => IInv
<1> SUFFICES ASSUME Init PROVE IInv
  OBVIOUS
<1>1. ClockIsNear
  BY ObdLogAssumption DEF Init, ClockIsNear
<1>2. EventsPair
  BY DEF Init, EventsPair
<1>3. FooterIsDue
  BY DEF Init, FooterIsDue, EndsWithFooter, stop
<1>4. OneAnswer
  BY DEF Init, ElmInit, OneAnswer, InSession
<1> QED BY <1>1, <1>2, <1>3, <1>4 DEF IInv

\* The steps that only the adapter session takes.
ElmStep == Resynced \/ SendCR \/ Arrive(InSession) \/ Finish \/ LinkDrop \/ LinkBack

\* Each step of the logger, by its name; the others are the adapter's, the link's, and time.
LEMMA NextCases ==
  ASSUME Next
  PROVE  \/ TryConnect \/ Opens \/ OpenFails \/ OpenRaises
         \/ InitAT \/ Init0100 \/ InitAnswered \/ InitFails \/ Backoff
         \/ ConnectStops \/ Setup \/ OpenSession \/ SetupFails \/ EnterTry
         \/ Ask \/ IdleTurn \/ OnNoData \/ OnBusAsleep \/ WaitEnds \/ OnLinkLost \/ OnAdapterError
         \/ OnAnswer \/ LeaveLoop \/ WriteFooter \/ CloseFile
         \/ ElmStep /\ UNCHANGED logVars /\ ~Leaving
         \/ (Resynced \/ SendCR) /\ UNCHANGED logVars
         \/ Signal \/ Expire
         \/ \E p \in Pids : RetryDue(p)
BY DEF Next, LoggerStep, LinkStep, World, ElmStep

---------------------------------------------------------------------------
(* The writer's clock *)

\* A command counts at most once before the writer looks at its clock again.
LEMMA CallCommandCmd == ASSUME NEW c, CallCommand(c) PROVE cmd' = c
BY DEF CallCommand, SendCommand

LEMMA ClockStep == ASSUME ClockIsNear, Next PROVE ClockIsNear'
<1>a. Settings \in Nat
  BY ObdLogAssumption
<1> USE <1>a DEF ClockIsNear
<1>1. CASE OpenFails \/ InitFails \/ Backoff \/ IdleTurn \/ OnNoData \/ WaitEnds \/ OnLinkLost
           \/ OnAnswer \/ WriteFooter \/ CloseFile
  <2>1. blocked' = 0 /\ toSend' = toSend
    BY <1>1 DEF OpenFails, InitFails, Backoff, IdleTurn, OnNoData, WaitEnds, OnLinkLost, OnAnswer,
       WriteFooter, CloseFile, MaySync, trying
  <2> QED BY <2>1
<1>2. CASE OnAdapterError
  <2>1. blocked' = 0 /\ (toSend' = toSend \/ toSend' = Settings)
    BY <1>2 DEF OnAdapterError, MaySync
  <2>2. CASE toSend' = toSend
    BY <2>1, <2>2
  <2>3. CASE toSend' = Settings
    <3>1. blocked' + toSend' <= Settings + 1 /\ blocked' + toSend' <= Settings + 2
      BY <2>1, <2>3
    <3> QED BY <2>1, <2>3, <3>1
  <2> QED BY <2>1, <2>2, <2>3
<1>3. CASE TryConnect \/ Ask
  <2>1. /\ lpc \in {"connect", "loop"} /\ lpc' \in {"opening", "query"}
        /\ (blocked' = 0 \/ blocked' = blocked + 1) /\ toSend' = toSend
    BY <1>3 DEF TryConnect, Ask, Blocks, trying
  <2>2. blocked' = 0 \/ blocked' = 1
    BY <2>1
  <2> QED BY <2>1, <2>2
<1>4. CASE Opens
  <2>1. lpc = "opening" /\ lpc' = "opened" /\ toSend' = Settings /\ blocked' = blocked
    BY <1>4 DEF Opens
  <2>2. blocked \in Int /\ blocked <= 1
    BY <2>1
  <2>3. blocked' + toSend' <= Settings + 1
    BY <2>1, <2>2
  <2> QED BY <2>1, <2>2, <2>3
<1>5. CASE InitAT
  <2>1. /\ cmd' = "AT" /\ lpc = "opened" /\ lpc' = "init"
        /\ (blocked' = 0 \/ blocked' = blocked + 1) /\ toSend' = toSend
    BY <1>5, CallCommandCmd DEF InitAT, Blocks, trying
  <2>2. blocked \in Nat /\ toSend \in 0 .. Settings /\ blocked + toSend <= Settings + 1
    BY <2>1
  <2>3. blocked' \in 0 .. Settings + 3 /\ blocked' + toSend' <= Settings + 2
    BY <2>1, <2>2
  <2> QED BY <2>1, <2>2, <2>3
<1>6. CASE Init0100
  <2>1. /\ cmd' = "0100" /\ lpc = "search" /\ lpc' = "init"
        /\ (blocked' = 0 \/ blocked' = blocked + 1) /\ toSend' = toSend
    BY <1>6, CallCommandCmd DEF Init0100, Blocks, trying
  <2> QED BY <2>1
<1>7. CASE InitAnswered
  <2>1. CASE cmd = "AT"
    <3>1. /\ lpc = "init" /\ blocked' = blocked
          /\ \/ toSend > 0 /\ lpc' = "opened" /\ toSend' = toSend - 1
             \/ lpc' = "search" /\ toSend' = toSend
      BY <1>7, <2>1 DEF InitAnswered
    <3> QED BY <2>1, <3>1
  <2>2. CASE cmd # "AT"
    <3>1. blocked' = 0 /\ toSend' = toSend /\ lpc' \in {"setup", "loop"}
      BY <1>7, <2>2 DEF InitAnswered, MaySync
    <3> QED BY <3>1
  <2> QED BY <2>1, <2>2
<1>8. CASE OnBusAsleep
  <2>1. lpc = "query" /\ lpc' = "waiting" /\ blocked' \in {0, blocked} /\ toSend' = toSend
    BY <1>8 DEF OnBusAsleep, MaySync, trying
  <2> QED BY <2>1
<1>9. CASE ConnectStops \/ Setup \/ OpenSession \/ SetupFails \/ EnterTry \/ LeaveLoop
  <2>1. /\ blocked' = blocked /\ toSend' = toSend
        /\ lpc \in {"connect", "setup", "header", "starting", "loop"}
        /\ lpc' \in {"finally", "done", "header", "starting", "loop"}
    BY <1>9 DEF ConnectStops, Setup, OpenSession, SetupFails, EnterTry, LeaveLoop, trying
  <2> QED BY <2>1
<1>10. CASE OpenRaises
  <2>1. blocked' = blocked /\ toSend' = toSend /\ lpc' \in {"finally", "done"}
    BY <1>10 DEF OpenRaises, trying
  <2> QED BY <2>1
<1>11. CASE ElmStep /\ UNCHANGED logVars
  <2>1. cmd' = cmd /\ lpc' = lpc /\ blocked' = blocked /\ toSend' = toSend
    BY <1>11 DEF ElmStep, Resynced, SendCR, SendCommand, Arrive, Finish, LinkDrop, LinkBack, logVars
  <2> QED BY <2>1
<1>12. CASE Signal
  <2>1. /\ blocked' = blocked /\ toSend' = toSend
        /\ \/ lpc' \in {"finally", "done"}
           \/ lpc' = lpc /\ cmd' = cmd
    BY <1>12 DEF Signal, elmVars, trying
  <2> QED BY <2>1
<1>13. CASE Expire \/ \E p \in Pids : RetryDue(p)
  <2>1. cmd' = cmd /\ lpc' = lpc /\ blocked' = blocked /\ toSend' = toSend
    BY <1>13 DEF Expire, RetryDue, elmVars, trying
  <2> QED BY <2>1
<1> QED BY NextCases, <1>1, <1>2, <1>3, <1>4, <1>5, <1>6, <1>7, <1>8, <1>9, <1>10, <1>11,
         <1>12, <1>13 DEF ElmStep

---------------------------------------------------------------------------
(* The events *)

LEMMA EventsStep == ASSUME EventsPair, Next PROVE EventsPair'
<1>1. CASE asleep' = asleep /\ bus' = bus /\ said' = said /\ absent' = absent
  BY <1>1 DEF EventsPair
<1>2. CASE Ask
  <2> DEFINE p == NextPid(Skipped).pid
  <2>1. absent' = [absent EXCEPT ![p] = IF @ = "no" THEN "no" ELSE "fresh"]
        /\ asleep' = asleep /\ bus' = bus /\ said' = said
    BY <1>2 DEF Ask, events
  <2> HIDE DEF p
  <2> QED BY <2>1 DEF EventsPair
<1>3. CASE OnNoData
  <2> DEFINE gone == noData[cmd] + 1 = NoDataLimit /\ absent[cmd] = "no"
  <2>1. /\ absent' = [absent EXCEPT ![cmd] = IF gone THEN "fresh" ELSE @]
        /\ said' = [said EXCEPT ![cmd] = IF gone THEN Said(@, "absent") ELSE @]
        /\ asleep' = asleep /\ bus' = bus
    BY <1>3 DEF OnNoData
  <2>2. gone => absent[cmd] = "no"
    OBVIOUS
  <2> HIDE DEF gone
  <2>3. CASE gone
    BY <2>1, <2>2, <2>3 DEF EventsPair, Said
  <2>4. CASE ~gone
    BY <2>1, <2>4 DEF EventsPair
  <2> QED BY <2>3, <2>4
<1>4. CASE OnBusAsleep
  BY <1>4 DEF OnBusAsleep, EventsPair, Said, perPid
<1>5. CASE OnAnswer
  <2>1. /\ absent' = [absent EXCEPT ![cmd] = "no"]
        /\ said' = [said EXCEPT ![cmd] = IF absent[cmd] # "no" THEN Said(@, "present") ELSE @]
        /\ asleep' = FALSE
        /\ bus' = IF asleep THEN Said(bus, "awake") ELSE bus
    BY <1>5 DEF OnAnswer
  <2>2. bus' = "awake"
    BY <2>1 DEF EventsPair, Said
  <2>3. absent' \in [Pids -> {"no", "fresh", "due"}]
    BY <2>1 DEF EventsPair
  <2>4. said' = [p \in Pids |-> IF absent'[p] = "no" THEN "present" ELSE "absent"]
    BY <2>1 DEF EventsPair, Said
  <2> QED BY <2>1, <2>2, <2>3, <2>4 DEF EventsPair
<1>6. CASE \E p \in Pids : RetryDue(p)
  BY <1>6 DEF RetryDue, EventsPair, events
<1> QED BY NextCases, <1>1, <1>2, <1>3, <1>4, <1>5, <1>6 DEF TryConnect, Opens, OpenFails,
         OpenRaises, InitAT, Init0100, InitAnswered, InitFails, Backoff, ConnectStops, Setup,
         OpenSession, SetupFails, EnterTry, IdleTurn, WaitEnds, OnLinkLost, OnAdapterError,
         LeaveLoop, WriteFooter, CloseFile, Signal, Expire, events, perPid, logVars

---------------------------------------------------------------------------
(* The footer *)

LEMMA FooterStep == ASSUME FooterIsDue, Next PROVE FooterIsDue'
<1> USE DEF FooterIsDue, EndsWithFooter, stop
<1>1. CASE \/ TryConnect \/ Opens \/ OpenFails \/ InitAT \/ Init0100 \/ InitFails \/ Backoff
           \/ EnterTry \/ Ask \/ IdleTurn \/ OnNoData \/ OnBusAsleep \/ WaitEnds \/ OnLinkLost
           \/ OnAdapterError \/ OnAnswer
  <2>1. /\ lpc' \in {"opening", "opened", "backoff", "init", "connect", "loop", "query", "waiting"}
        /\ UNCHANGED <<halt, file>>
        /\ why' = why \/ why' \in {"reopen", "reinit"}
    BY <1>1 DEF TryConnect, Opens, OpenFails, InitAT, Init0100, InitFails, Backoff, EnterTry, Ask,
       IdleTurn, OnNoData, OnBusAsleep, WaitEnds, OnLinkLost, OnAdapterError, OnAnswer, ending,
       trying
  <2> QED BY <2>1
<1>2. CASE InitAnswered
  <2>1. /\ lpc' \in {"opened", "search", "setup", "loop"}
        /\ UNCHANGED <<halt, file>>
        /\ why' = why \/ why' = "none"
        /\ lpc' = "setup" => why = "first" /\ why' = "none"
    BY <1>2 DEF InitAnswered, ending
  <2> QED BY <2>1
<1>3. CASE ConnectStops \/ LeaveLoop
  <2>1. /\ lpc' \in {"finally", "done"} /\ (lpc' = "done" => ~file) /\ halt # "none"
        /\ UNCHANGED <<halt, file, why>>
    BY <1>3 DEF ConnectStops, LeaveLoop, ending, trying
  <2> QED BY <2>1
<1>4. CASE Setup \/ OpenSession \/ SetupFails
  <2>1. /\ lpc \in {"setup", "header"} /\ lpc' \in {"header", "starting", "done"}
        /\ UNCHANGED <<halt, why>>
        /\ lpc' # "starting" => UNCHANGED file
    BY <1>4 DEF Setup, OpenSession, SetupFails, ending, trying
  <2> QED BY <2>1
<1>5. CASE WriteFooter
  <2>1. lpc = "finally" /\ lpc' = "closing" /\ footer' = Reason
        /\ UNCHANGED <<halt, failure, file, why>>
    BY <1>5 DEF WriteFooter, ending, trying
  <2> QED BY <2>1 DEF Reason
<1>6. CASE CloseFile
  <2>1. lpc = "closing" /\ lpc' = "done" /\ UNCHANGED <<halt, failure, file, why, footer>>
    BY <1>6 DEF CloseFile, ending, trying
  <2> QED BY <2>1
<1>7. CASE Signal
  <2>1. CASE ~stop
    BY <1>7, <2>1 DEF Signal, trying
  <2>2. CASE stop
    <3>1. /\ lpc' = "finally" \/ (lpc' = "done" /\ (~file \/ cut'))
          /\ halt' = "signal" /\ UNCHANGED <<file, why>>
      BY <1>7, <2>2 DEF Signal, trying
    <3> QED BY <3>1
  <2> QED BY <2>1, <2>2
<1>8. CASE Expire
  BY <1>8 DEF Expire, trying
<1>9. CASE OpenRaises
  <2>1. /\ failure' = TRUE /\ lpc' \in {"finally", "done"} /\ (lpc' = "done" => ~file)
        /\ UNCHANGED <<halt, file, why>>
    BY <1>9 DEF OpenRaises, trying
  <2> QED BY <2>1
<1>10. CASE UNCHANGED <<lpc, why, halt, failure, file, footer, cut>>
  BY <1>10
<1> QED BY NextCases, <1>1, <1>2, <1>3, <1>4, <1>5, <1>6, <1>7, <1>8, <1>9, <1>10
       DEF RetryDue, logVars, ending, trying

---------------------------------------------------------------------------
(* The adapter session *)

\* What a session that did not go astray knows, apart from where the logger is.
Knows == ~astray => AtMostOne /\ (cpc = "idle" /\ ~stale => Nothing) /\ (cpc = "reply" => AllMine)

LEMMA NotMineOne == ASSUME NEW r PROVE NotMine(<<r>>) = <<[r EXCEPT !.mine = FALSE]>>
<1> DEFINE e == [r EXCEPT !.mine = FALSE]
           s == <<r>>
<1>1. DOMAIN s = 1 .. 1 /\ \A i \in 1 .. 1 : s[i] = r
  OBVIOUS
<1> HIDE DEF s
<1>2. NotMine(s) = [i \in 1 .. 1 |-> e]
  BY <1>1 DEF NotMine
<1> HIDE DEF e
<1>3. [i \in 1 .. 1 |-> e] = <<e>>
  <2> DEFINE f == [i \in 1 .. 1 |-> e]
             g == <<e>>
  <2>1. f \in Seq({e}) /\ g \in Seq({e}) /\ Len(f) = 1 /\ Len(g) = 1
        /\ \A i \in 1 .. 1 : f[i] = g[i]
    BY IsASeq
  <2> HIDE DEF f, g
  <2>2. f = g
    BY <2>1, SeqEqual
  <2> QED BY <2>2 DEF f, g
<1> QED BY <1>2, <1>3 DEF e, s

LEMMA NotMineNone == NotMine(<<>>) = <<>>
BY DEF NotMine

\* Written with nothing outstanding, the command is all there is to answer.
LEMMA SendKnows ==
  ASSUME NEW c, job = NoJob, down = <<>>, SendCommand(c)
  PROVE  AtMostOne' /\ cpc' = "reply" /\ AllMine'
<1>1. job' = Job(c) /\ down' = <<>> /\ input' = <<>> /\ cpc' = "reply"
  BY NotMineNone DEF SendCommand, Written
<1> QED BY <1>1 DEF AtMostOne, AllMine, Job

LEMMA CallKnows ==
  ASSUME NEW c, Knows, cpc = "idle", CallCommand(c)
  PROVE  Knows' /\ cpc' # "idle"
<1>1. CASE stale
  <2>1. /\ cpc' = "late" /\ astray' = astray
        /\ down' = NotMine(down) /\ input' = NotMine(input) /\ job' = [job EXCEPT !.mine = FALSE]
    BY <1>1 DEF CallCommand
  <2>2. job = NoJob => job' = NoJob
    <3> SUFFICES ASSUME job = NoJob PROVE job' = NoJob
      OBVIOUS
    <3> DEFINE J == [cmd : {NoCmd}, mine : BOOLEAN]
    <3>1. NoJob \in J /\ NoJob.mine = FALSE
      BY DEF NoJob
    <3>2. \A j \in J : j.mine = FALSE => [j EXCEPT !.mine = FALSE] = j
      OBVIOUS
    <3> HIDE DEF J
    <3>3. [NoJob EXCEPT !.mine = FALSE] = NoJob
      BY <3>1, <3>2
    <3> QED BY <2>1, <3>3
  <2>3. AtMostOne => AtMostOne'
    <3>1. CASE down = <<>> /\ input = <<>>
      BY <2>1, <3>1, NotMineNone DEF AtMostOne
    <3>2. CASE job = NoJob /\ input = <<>> /\ down = <<down[1]>>
      <4>1. down' = <<[down[1] EXCEPT !.mine = FALSE]>>
        BY <2>1, <3>2, NotMineOne
      <4> QED BY <2>1, <2>2, <3>2, <4>1, NotMineNone DEF AtMostOne
    <3>3. CASE job = NoJob /\ down = <<>> /\ input = <<input[1]>>
      <4>1. input' = <<[input[1] EXCEPT !.mine = FALSE]>>
        BY <2>1, <3>3, NotMineOne
      <4> QED BY <2>1, <2>2, <3>3, <4>1, NotMineNone DEF AtMostOne
    <3> QED BY <3>1, <3>2, <3>3 DEF AtMostOne
  <2> QED BY <2>1, <2>3 DEF Knows
<1>2. CASE ~stale
  <2>1. SendCommand(c) /\ astray' = astray
    BY <1>2 DEF CallCommand
  <2>2. cpc' # "idle"
    BY <2>1 DEF SendCommand
  <2>3. ASSUME ~astray PROVE AtMostOne' /\ cpc' = "reply" /\ AllMine'
    BY <1>2, <2>1, <2>3, SendKnows DEF Knows, Nothing
  <2> QED BY <2>1, <2>2, <2>3 DEF Knows
<1> QED BY <1>1, <1>2

\* A reply read is the command's own.
LEMMA EndOwn ==
  ASSUME NEW r, Knows, own = TRUE, astray \in BOOLEAN, CommandEnds(r)
  PROVE  own' = TRUE /\ cpc' = "idle"
<1>1. CASE cpc = "reply" /\ own' = (astray \/ \A i \in DOMAIN input : input[i].mine)
  <2>1. ~astray => \A i \in DOMAIN input : input[i].mine
    BY <1>1 DEF Knows, AllMine
  <2> QED BY <1>1, <2>1 DEF CommandEnds, Ended
<1>2. CASE own' = own
  BY <1>2 DEF CommandEnds, Ended
<1> QED BY <1>1, <1>2 DEF CommandEnds

\* Nothing is left of a reply that was read; a timeout leaves the session stale.
LEMMA ReturnsKnows ==
  ASSUME NEW r, Knows, Returns(r), r # "link_lost"
  PROVE  Knows'
<1>1. /\ CommandEnds(r) /\ cpc' = "idle" /\ input' = <<>>
      /\ stale' = (stale \/ r = "timeout") /\ UNCHANGED <<job, down, astray>>
  BY DEF Returns, CommandEnds, Ended
<1>2. ASSUME ~astray PROVE AtMostOne' /\ (~stale' => Nothing')
  <2>1. CASE cpc = "reply" /\ input # <<>>
    <3>1. job = NoJob /\ down = <<>>
      BY <1>2, <2>1 DEF Knows, AtMostOne
    <3> QED BY <1>1, <3>1 DEF Nothing, AtMostOne
  <2>2. CASE input = <<>> /\ r = "timeout"
    <3>1. AtMostOne
      BY <1>2 DEF Knows
    <3> QED BY <1>1, <2>2, <3>1 DEF AtMostOne
  <2> QED BY <1>1, <2>1, <2>2 DEF CommandEnds
<1> QED BY <1>1, <1>2 DEF Knows

\* The adapter works, its reply travels, and the resync takes it for what it is.
LEMMA ElmStepKnows ==
  ASSUME Knows, ElmStep, InSession
  PROVE  Knows' /\ own' = own /\ (astray \in BOOLEAN => astray' \in BOOLEAN)
         /\ (cpc = "idle" => cpc' = "idle")
<1>1. CASE Resynced
  <2>1. /\ input # <<>> /\ cpc # "idle" /\ SendCommand(cmd) /\ UNCHANGED <<astray, own>>
    BY <1>1 DEF Resynced
  <2>2. ASSUME ~astray PROVE AtMostOne' /\ cpc' = "reply" /\ AllMine'
    <3>1. job = NoJob /\ down = <<>>
      BY <2>1, <2>2 DEF Knows, AtMostOne
    <3> QED BY <2>1, <3>1, SendKnows
  <2> QED BY <2>1, <2>2 DEF Knows
<1>2. CASE SendCR
  <2>1. /\ cpc = "late" /\ cpc' = "stopped" /\ Written(last, down) /\ input = <<>>
        /\ astray' = (astray \/ job = NoJob) /\ UNCHANGED <<input, own>>
    BY <1>2 DEF SendCR
  <2>2. ASSUME ~astray' PROVE AtMostOne'
    <3>1. job # NoJob /\ AtMostOne
      BY <2>1, <2>2 DEF Knows
    <3>2. down = <<>>
      BY <3>1 DEF AtMostOne
    <3>3. job' = NoJob /\ down' = <<Stopped>> /\ input' = <<>>
      BY <2>1, <3>1, <3>2 DEF Written
    <3> QED BY <3>3 DEF AtMostOne
  <2> QED BY <2>1, <2>2 DEF Knows
<1>3. CASE Finish
  <2>1. /\ job # NoJob /\ job' = NoJob /\ down' = Append(down, Answer(job))
        /\ UNCHANGED <<input, cpc, stale, astray, own>>
    BY <1>3 DEF Finish
  <2>2. ASSUME ~astray
        PROVE  AtMostOne' /\ ~(cpc' = "idle" /\ ~stale') /\ (cpc' = "reply" => AllMine')
    <3>1. AtMostOne /\ down = <<>> /\ input = <<>>
      BY <2>1, <2>2 DEF Knows, AtMostOne
    <3>2. down' = <<Answer(job)>> /\ input' = <<>> /\ Answer(job).mine = job.mine
      BY <2>1, <3>1 DEF Answer
    <3>3. AtMostOne'
      <4>1. job' = NoJob /\ input' = <<>> /\ Len(down') = 1 /\ down' = <<down'[1]>>
        BY <2>1, <3>1, <3>2
      <4> QED BY <4>1 DEF AtMostOne
    <3>4. ~(cpc' = "idle" /\ ~stale')
      BY <2>1, <2>2 DEF Knows, Nothing
    <3>5. cpc' = "reply" => AllMine'
      BY <2>1, <2>2, <3>2 DEF Knows, AllMine
    <3> QED BY <3>3, <3>4, <3>5
  <2> QED BY <2>1, <2>2 DEF Knows
<1>4. CASE Arrive(InSession)
  <2>1. /\ down # <<>> /\ input' = Append(input, Head(down)) /\ down' = Tail(down)
        /\ UNCHANGED <<job, cpc, stale, astray, own>>
    BY <1>4 DEF Arrive
  <2>2. ASSUME ~astray
        PROVE  AtMostOne' /\ ~(cpc' = "idle" /\ ~stale') /\ (cpc' = "reply" => AllMine')
    <3>1. job = NoJob /\ input = <<>> /\ down = <<down[1]>>
      BY <2>1, <2>2 DEF Knows, AtMostOne
    <3>2. input' = <<down[1]>> /\ down' = <<>>
      BY <2>1, <3>1
    <3>3. AtMostOne'
      <4>1. job' = NoJob /\ down' = <<>> /\ Len(input') = 1 /\ input' = <<input'[1]>>
        BY <2>1, <3>1, <3>2
      <4> QED BY <4>1 DEF AtMostOne
    <3>4. ~(cpc' = "idle" /\ ~stale')
      BY <2>1, <2>2 DEF Knows, Nothing
    <3>5. cpc' = "reply" => AllMine'
      <4>1. 1 \in DOMAIN down
        BY <3>1
      <4> QED BY <2>1, <2>2, <3>1, <3>2, <4>1 DEF Knows, AllMine
    <3> QED BY <3>3, <3>4, <3>5
  <2> QED BY <2>1, <2>2 DEF Knows
<1>5. CASE LinkDrop
  BY <1>5 DEF LinkDrop, Knows, AtMostOne, Nothing, AllMine
<1>6. CASE LinkBack
  BY <1>6 DEF LinkBack, Knows, AtMostOne, Nothing, AllMine
<1> QED BY <1>1, <1>2, <1>3, <1>4, <1>5, <1>6 DEF ElmStep

LEMMA AnswerStep == ASSUME OneAnswer, Next PROVE OneAnswer'
<1>1. InSession => Knows
  BY DEF OneAnswer, Knows
<1>2. own = TRUE /\ astray \in BOOLEAN /\ (cpc # "idle" => lpc \in {"init", "header", "query"})
  BY DEF OneAnswer
<1>3. CASE Opens
  <2>1. /\ lpc = "opening" /\ lpc' = "opened" /\ input' = <<>> /\ stale' = FALSE
        /\ astray' = (job # NoJob \/ down # <<>>) /\ UNCHANGED <<job, down, cpc, own>>
    BY <1>3 DEF Opens, OpenPort
  <2> QED BY <1>2, <2>1 DEF OneAnswer, AtMostOne, Nothing, AllMine
<1>4. CASE InitAT \/ Init0100 \/ Setup \/ Ask
  <2>1. PICK c : CallCommand(c)
    BY <1>4 DEF InitAT, Init0100, Setup, Ask
  <2>2. lpc \in {"opened", "search", "setup", "loop"} /\ lpc' \in {"init", "header", "query"}
    BY <1>4 DEF InitAT, Init0100, Setup, Ask
  <2>3. Knows' /\ cpc' # "idle"
    BY <1>1, <1>2, <2>1, <2>2, CallKnows DEF InSession
  <2>4. UNCHANGED <<astray, own>>
    BY <2>1 DEF CallCommand
  <2> QED BY <1>2, <2>2, <2>3, <2>4 DEF OneAnswer, Knows
<1>5. CASE InitAnswered \/ OpenSession \/ OnNoData \/ OnBusAsleep \/ OnAdapterError \/ OnAnswer
  <2>1. PICK r : Returns(r) /\ r # "link_lost"
    BY <1>5 DEF InitAnswered, OpenSession, OnNoData, OnBusAsleep, OnAdapterError, OnAnswer
  <2>2. lpc \in {"init", "header", "query"}
    BY <1>5 DEF InitAnswered, OpenSession, OnNoData, OnBusAsleep, OnAdapterError, OnAnswer
  <2>3. CommandEnds(r) /\ astray' = astray
    BY <2>1 DEF Returns
  <2>4. Knows
    BY <1>1, <2>2 DEF InSession
  <2>5. own' = TRUE /\ cpc' = "idle"
    BY <1>2, <2>3, <2>4, EndOwn
  <2>6. Knows'
    BY <2>1, <2>4, ReturnsKnows
  <2> QED BY <1>2, <2>3, <2>5, <2>6 DEF OneAnswer, Knows
<1>9. CASE InitFails \/ SetupFails \/ OnLinkLost
  <2>1. PICK r : ReturnsAndCloses(r)
    BY <1>9 DEF InitFails, SetupFails, OnLinkLost
  <2>2. lpc \in {"init", "header", "query"} /\ lpc' \in {"connect", "backoff", "done"}
    BY <1>9 DEF InitFails, SetupFails, OnLinkLost
  <2>3. CommandEnds(r) /\ astray' = FALSE
    BY <2>1 DEF ReturnsAndCloses
  <2>4. own' = TRUE /\ cpc' = "idle"
    BY <1>1, <1>2, <2>2, <2>3, EndOwn DEF InSession
  <2> QED BY <2>2, <2>3, <2>4 DEF OneAnswer, InSession
<1>6. CASE ElmStep /\ UNCHANGED logVars
  <2>1. lpc' = lpc
    BY <1>6 DEF logVars
  <2>2. CASE InSession
    BY <1>1, <1>2, <1>6, <2>1, <2>2, ElmStepKnows DEF OneAnswer, Knows
  <2>3. CASE ~InSession
    <3>1. own' = own /\ astray' \in BOOLEAN /\ (cpc = "idle" => cpc' = "idle")
      BY <1>2, <1>6 DEF ElmStep, Resynced, SendCR, Finish, Arrive, LinkDrop, LinkBack
    <3> QED BY <1>2, <2>1, <2>3, <3>1 DEF OneAnswer, InSession
  <2> QED BY <2>2, <2>3
<1>7. CASE ConnectStops \/ LeaveLoop \/ OpenRaises \/ (Signal /\ stop)
  <2>1. ClosePort /\ lpc' \in {"finally", "done"}
    BY <1>7 DEF ConnectStops, LeaveLoop, OpenRaises, Signal
  <2> QED BY <1>2, <2>1 DEF ClosePort, Ended, OneAnswer, InSession
<1>8. CASE /\ UNCHANGED elmVars
           /\ lpc' \in {"connect", "opening", "backoff", "finally", "closing", "done"} \/ InSession
           /\ lpc' = lpc \/ lpc \notin {"init", "header", "query"}
  <2>1. UNCHANGED <<job, down, input, cpc, stale, astray, own>>
    BY <1>8 DEF elmVars
  <2> QED BY <1>2, <1>8, <2>1 DEF OneAnswer, InSession, AtMostOne, Nothing, AllMine
<1> QED BY NextCases, <1>3, <1>4, <1>5, <1>6, <1>7, <1>8, <1>9 DEF TryConnect, OpenFails, Backoff,
         EnterTry, IdleTurn, WaitEnds, WriteFooter, CloseFile, Signal, Expire, RetryDue, ElmStep,
         InSession, stop

---------------------------------------------------------------------------
(* The theorems *)

LEMMA StepIInv == IInv /\ [Next]_vars => IInv'
<1> SUFFICES ASSUME IInv, [Next]_vars PROVE IInv'
  OBVIOUS
<1>1. CASE Next
  BY <1>1, ClockStep, EventsStep, FooterStep, AnswerStep DEF IInv
<1>2. CASE UNCHANGED vars
  <2> USE <1>2 DEF vars, elmVars, logVars, IInv
  <2>1. ClockIsNear' /\ EventsPair' /\ FooterIsDue'
    BY DEF ClockIsNear, EventsPair, FooterIsDue, EndsWithFooter, stop
  <2>2. OneAnswer'
    BY DEF OneAnswer, InSession, AtMostOne, Nothing, AllMine
  <2> QED BY <2>1, <2>2
<1> QED BY <1>1, <1>2

\* The logger keeps its clock near, its events paired, its footer due and its answers
\* apart, whatever the adapter, the car, the link and the signals do.
THEOREM Invariance == Spec => []IInv
BY InitIInv, StepIInv, PTL DEF Spec

\* No more than one open of the port and one init of the adapter, with each of its commands
\* counted, pass between two looks at LogWriter's clock.
THEOREM SyncIsNeverFarHolds == Spec => []SyncIsNeverFar
<1>1. IInv => SyncIsNeverFar
  BY ObdLogAssumption DEF IInv, ClockIsNear, SyncIsNeverFar
<1> QED BY <1>1, Invariance, PTL

\* The events in the file alternate and agree with what the logger goes by.
THEOREM EventsAlternateHolds == Spec => []EventsAlternate
<1>1. IInv => EventsAlternate
  BY DEF IInv, EventsPair, EventsAlternate
<1> QED BY <1>1, Invariance, PTL

\* A session with a file ends with a footer that names a signal, --max-seconds or the
\* exception that ended it, unless it was cut.
THEOREM EndsWithFooterHolds == Spec => []EndsWithFooter
<1>1. IInv => EndsWithFooter
  BY DEF IInv, FooterIsDue
<1> QED BY <1>1, Invariance, PTL

\* _resync keeps a late reply from being read as the answer to the next command,
\* unless the session went astray.
THEOREM AnswerIsOwnHolds == Spec => []AnswerIsOwn
<1>1. IInv => AnswerIsOwn
  BY DEF IInv, OneAnswer, AnswerIsOwn
<1> QED BY <1>1, Invariance, PTL
=============================================================================
