------------------------------- MODULE ObdLog -------------------------------
(***************************************************************************)
(* The drive logger (tools/obdlog.py) on top of the adapter session of     *)
(* Elm: connect, poll in the order Schedule gives, set silent PIDs aside,  *)
(* wait while the bus sleeps, reset or reopen a deaf adapter, and end with *)
(* a footer.                                                               *)
(*                                                                         *)
(* Every wait may end at any time; a PID set aside becomes due some time   *)
(* later.  Of the file the model keeps the paired events, the footer and   *)
(* when the writer looks at its clock to sync; the samples, the location   *)
(* and the status line are left out.                                       *)
(***************************************************************************)
EXTENDS Elm

CONSTANTS
  Fast, Slow,     \* Schedule.fast and Schedule.slow
  FastEvery,      \* FAST_EVERY
  NoDataLimit,    \* NO_DATA_LIMIT
  ErrorLimit,     \* ERROR_LIMIT
  Settings        \* how many settings INIT holds

ASSUME ObdLogAssumption ==
  /\ Fast \in Seq(Pids) /\ Slow \in Seq(Pids)
  /\ {FastEvery, NoDataLimit, ErrorLimit} \subseteq Nat \ {0}
  /\ Settings \in Nat

NoPid == NoCmd

VARIABLES
  lpc, why,              \* where the logger is; what a connect or init is for
  toSend,                \* settings that init has still to send
  cursor, sinceFast,     \* Schedule
  noData, absent,        \* per PID: NO DATA in a row; set aside, and due again
  errors, asleep,        \* errors; asleep_delay is not None
  halt,                  \* Stop.reason is set, or --max-seconds have passed
  failure,               \* an exception that nobody catches has ended the session
  file, footer,          \* the session has its file; the reason in the footer
  cut,                   \* history: an interrupt hit the session outside its try
  bus, said,             \* history: the last bus event, and each PID's last event
  blocked                \* history: opens and commands since LogWriter last looked at its clock

logVars == <<lpc, why, toSend, cursor, sinceFast, noData, absent, errors, asleep, halt, failure,
             file, footer, cut, bus, said, blocked>>
vars    == <<elmVars, logVars>>

\* Stop.reason is set.  Once it is, the time no longer matters.
stop == halt = "signal"

Init ==
  /\ ElmInit
  /\ lpc = "connect" /\ why = "first" /\ toSend = 0
  /\ cursor = [fast |-> 0, slow |-> 0] /\ sinceFast = 0
  /\ noData = [p \in Pids |-> 0] /\ absent = [p \in Pids |-> "no"]
  /\ errors = 0 /\ asleep = FALSE
  /\ halt = "none" /\ failure = FALSE
  /\ file = FALSE /\ footer = "none" /\ cut = FALSE
  /\ bus = "awake" /\ said = [p \in Pids |-> "present"]
  /\ blocked = 0

trying   == <<why, toSend>>
schedule == <<cursor, sinceFast>>
perPid   == <<noData, absent>>
ending   == <<halt, failure, cut>>
events   == <<bus, said>>

\* An event that may only follow its opposite.
Said(before, event) == IF before = event THEN "twice" ELSE event

\* An open, or a command and its reply, keeps the logger waiting.
Blocks == blocked' = IF file THEN blocked + 1 ELSE 0

\* LogWriter.write or tick: what is in the buffer is synced if its time has come.
MaySync == blocked' = 0

---------------------------------------------------------------------------
(* connect, reopen *)

\* A try begins: the port is being opened.
TryConnect ==
  /\ lpc = "connect" /\ halt = "none"
  /\ lpc' = "opening"
  /\ Blocks
  /\ UNCHANGED <<elmVars, trying, schedule, perPid, errors, asleep, ending, file, footer, events>>

\* The port is open, and init begins.
Opens ==
  /\ lpc = "opening"
  /\ OpenPort
  /\ lpc' = "opened" /\ toSend' = Settings
  /\ UNCHANGED <<why, schedule, perPid, errors, asleep, ending, file, footer, events, blocked>>

\* elm.Adapter could not open the port.
OpenFails ==
  /\ lpc = "opening"
  /\ ~link
  /\ lpc' = "backoff"
  /\ MaySync
  /\ UNCHANGED <<elmVars, trying, schedule, perPid, errors, asleep, ending, file, footer, events>>

\* The other end vanishes while the port is opened: tcflush raises termios.error, which
\* elm.Adapter does not turn into LinkLost and connect does not catch.
OpenRaises ==
  /\ lpc = "opening"
  /\ ~link
  /\ failure' = TRUE
  /\ lpc' = IF file THEN "finally" ELSE "done"
  /\ ClosePort
  /\ UNCHANGED <<trying, schedule, perPid, errors, asleep, halt, cut, file, footer, events,
                 blocked>>

\* init() sends ATZ and the settings, each as a command of its own, then 0100.
InitAT ==
  /\ lpc = "opened"
  /\ CallCommand("AT")
  /\ lpc' = "init"
  /\ Blocks
  /\ UNCHANGED <<trying, schedule, perPid, errors, asleep, ending, file, footer, events>>

Init0100 ==
  /\ lpc = "search"
  /\ CallCommand("0100")
  /\ lpc' = "init"
  /\ Blocks
  /\ UNCHANGED <<trying, schedule, perPid, errors, asleep, ending, file, footer, events>>

\* A command of init is answered.
InitAnswered ==
  /\ lpc = "init"
  /\ Returns("data")
  /\ \/ /\ cmd = "AT"
        /\ IF toSend > 0 THEN lpc' = "opened" /\ toSend' = toSend - 1
                         ELSE lpc' = "search" /\ UNCHANGED toSend
        /\ UNCHANGED <<why, blocked>>
     \/ /\ cmd # "AT"
        /\ lpc' = IF why = "first" THEN "setup" ELSE "loop"
        /\ why' = "none"
        /\ MaySync
        /\ UNCHANGED toSend
  /\ UNCHANGED <<schedule, perPid, errors, asleep, ending, file, footer, events>>

\* init raises: connect tries again later; a reset that failed becomes a reopen.
InitFails ==
  /\ lpc = "init"
  /\ \E r \in Outcomes \ {"data"} : ReturnsAndCloses(r)
  /\ IF why = "reinit"
     THEN lpc' = "connect" /\ why' = "reopen"
     ELSE lpc' = "backoff" /\ UNCHANGED why
  /\ MaySync
  /\ UNCHANGED <<toSend, schedule, perPid, errors, asleep, ending, file, footer, events>>

\* Mutant of Backoff: the first failed try of a reopen is the last.
BackoffGivesUp ==
  /\ lpc = "backoff"
  /\ lpc' = IF why = "reopen" THEN "finally" ELSE "connect"
  /\ MaySync
  /\ UNCHANGED <<elmVars, trying, schedule, perPid, errors, asleep, ending, file, footer, events>>

\* The wait before the next try.
Backoff ==
  /\ lpc = "backoff"
  /\ lpc' = "connect"
  /\ MaySync
  /\ UNCHANGED <<elmVars, trying, schedule, perPid, errors, asleep, ending, file, footer, events>>

\* Mutant of ConnectStops: a signal does not end the tries.
ConnectStopsOnTime ==
  /\ lpc = "connect" /\ halt = "max_seconds"
  /\ lpc' = IF file THEN "finally" ELSE "done"
  /\ ClosePort
  /\ UNCHANGED <<trying, schedule, perPid, errors, asleep, ending, file, footer, events, blocked>>

\* connect returns None: exit 2 before the session has a file, else the end of it.
ConnectStops ==
  /\ lpc = "connect" /\ halt # "none"
  /\ lpc' = IF file THEN "finally" ELSE "done"
  /\ ClosePort
  /\ UNCHANGED <<trying, schedule, perPid, errors, asleep, ending, file, footer,
                 events, blocked>>

---------------------------------------------------------------------------
(* The session *)

\* What the header needs is asked.
Setup ==
  /\ lpc = "setup"
  /\ CallCommand("setup")
  /\ lpc' = "header"
  /\ UNCHANGED <<trying, schedule, perPid, errors, asleep, ending, file, footer, events, blocked>>

\* The file is opened and the header written.  A VIN nobody answers does no harm.
OpenSession ==
  /\ lpc = "header"
  /\ \E r \in Outcomes \ {"link_lost"} : Returns(r)
  /\ file' = TRUE
  /\ lpc' = "starting"
  /\ UNCHANGED <<trying, schedule, perPid, errors, asleep, ending, footer, events, blocked>>

SetupFails ==
  /\ lpc = "header"
  /\ \E r \in Outcomes \ {"data"} : ReturnsAndCloses(r)
  /\ lpc' = "done"
  /\ UNCHANGED <<trying, schedule, perPid, errors, asleep, ending, file, footer, events, blocked>>

EnterTry ==
  /\ lpc = "starting"
  /\ lpc' = "loop"
  /\ UNCHANGED <<elmVars, trying, schedule, perPid, errors, asleep, ending, file, footer,
                 events, blocked>>

---------------------------------------------------------------------------
(* Schedule *)

\* Mutant of Take: the cursor stays at the PID that was taken.
TakeStays(group, at, skip) ==
  LET n    == Len(group)
      Nth(i) == group[((at + i) % n) + 1]
      free == {i \in 0 .. n - 1 : Nth(i) \notin skip}
  IN  IF free = {} THEN [pid |-> NoPid, at |-> at]
      ELSE [pid |-> Nth(Min(free)), at |-> (at + Min(free)) % n]

\* _take: the first PID from the cursor on that is not skipped, and the new cursor.
Take(group, at, skip) ==
  LET n    == Len(group)
      Nth(i) == group[((at + i) % n) + 1]
      free == {i \in 0 .. n - 1 : Nth(i) \notin skip}
  IN  IF free = {} THEN [pid |-> NoPid, at |-> at]
      ELSE [pid |-> Nth(Min(free)), at |-> (at + Min(free) + 1) % n]

\* next: a fast PID when its turn has come, else a slow one, else a fast one.
NextPid(skip) ==
  LET f    == Take(Fast, cursor.fast, skip)
      s    == Take(Slow, cursor.slow, skip)
      turn == sinceFast >= FastEvery - 1
      fast == f.pid # NoPid /\ (turn \/ s.pid = NoPid)
  IN  [pid    |-> IF fast THEN f.pid ELSE s.pid,
       cursor |-> [fast |-> IF fast THEN f.at ELSE cursor.fast,
                   slow |-> IF fast THEN cursor.slow ELSE s.at],
       since  |-> CASE fast -> 0
                    [] ~fast /\ s.pid # NoPid -> Min({sinceFast + 1, FastEvery - 1})
                    [] OTHER -> sinceFast]

\* Set aside and not due for a retry.
Skipped == {p \in Pids : absent[p] = "fresh"}

---------------------------------------------------------------------------
(* The loop *)

\* The next PID is asked; one that was set aside is not due again for a while.
Ask ==
  /\ lpc = "loop" /\ halt = "none"
  /\ LET n == NextPid(Skipped)
     IN  /\ n.pid # NoPid
         /\ cursor' = n.cursor /\ sinceFast' = n.since
         /\ absent' = [absent EXCEPT ![n.pid] = IF @ = "no" THEN "no" ELSE "fresh"]
         /\ CallCommand(n.pid)
  /\ lpc' = "query"
  /\ Blocks
  /\ UNCHANGED <<trying, noData, errors, asleep, ending, file, footer, events>>

\* Every PID is set aside.
IdleTurn ==
  /\ lpc = "loop" /\ halt = "none"
  /\ NextPid(Skipped).pid = NoPid
  /\ MaySync
  /\ UNCHANGED <<elmVars, lpc, trying, schedule, perPid, errors, asleep, ending, file, footer,
                 events>>

\* Mutant of OnNoData: at and above the limit, whether set aside already or not.
OnNoDataAgain ==
  /\ lpc = "query" /\ Returns("no_data")
  /\ LET n    == noData[cmd] + 1
         gone == n >= NoDataLimit
     IN  /\ noData' = [noData EXCEPT ![cmd] = Min({n, NoDataLimit})]
         /\ absent' = [absent EXCEPT ![cmd] = IF gone THEN "fresh" ELSE @]
         /\ said' = [said EXCEPT ![cmd] = IF gone THEN Said(@, "absent") ELSE @]
  /\ lpc' = "loop"
  /\ MaySync
  /\ UNCHANGED <<trying, schedule, errors, asleep, ending, file, footer, bus>>

OnNoData ==
  /\ lpc = "query" /\ Returns("no_data")
  /\ LET n    == noData[cmd] + 1
         gone == n = NoDataLimit /\ absent[cmd] = "no"
     IN  /\ noData' = [noData EXCEPT ![cmd] = Min({n, NoDataLimit})]
         /\ absent' = [absent EXCEPT ![cmd] = IF gone THEN "fresh" ELSE @]
         /\ said' = [said EXCEPT ![cmd] = IF gone THEN Said(@, "absent") ELSE @]
  /\ lpc' = "loop"
  /\ MaySync
  /\ UNCHANGED <<trying, schedule, errors, asleep, ending, file, footer, bus>>

OnBusAsleep ==
  /\ lpc = "query" /\ Returns("asleep")
  /\ errors' = 0
  /\ asleep' = TRUE
  /\ bus' = IF asleep THEN bus ELSE Said(bus, "asleep")
  /\ lpc' = "waiting"
  /\ IF asleep THEN UNCHANGED blocked ELSE MaySync
  /\ UNCHANGED <<trying, schedule, perPid, ending, file, footer, said>>

\* Mutant of WaitEnds: a wait that does not look at the buffer.
WaitEndsUnsynced ==
  /\ lpc = "waiting"
  /\ lpc' = "loop"
  /\ UNCHANGED <<elmVars, trying, schedule, perPid, errors, asleep, ending, file, footer, events,
                 blocked>>

\* wait: the delay passes, or is cut short by a stop.
WaitEnds ==
  /\ lpc = "waiting"
  /\ lpc' = "loop"
  /\ MaySync
  /\ UNCHANGED <<elmVars, trying, schedule, perPid, errors, asleep, ending, file, footer, events>>

OnLinkLost ==
  /\ lpc = "query" /\ ReturnsAndCloses("link_lost")
  /\ lpc' = "connect" /\ why' = "reopen"
  /\ errors' = 0
  /\ MaySync
  /\ UNCHANGED <<toSend, schedule, perPid, asleep, ending, file, footer, events>>

\* A timeout or an error; enough of them and the adapter is reset.
OnAdapterError ==
  /\ lpc = "query"
  /\ Returns("timeout") \/ Returns("error")
  /\ IF errors + 1 < ErrorLimit
     THEN errors' = errors + 1 /\ lpc' = "loop" /\ UNCHANGED why
     ELSE errors' = 0 /\ lpc' = "opened" /\ why' = "reinit"
  /\ toSend' = IF lpc' = "opened" THEN Settings ELSE toSend
  /\ MaySync
  /\ UNCHANGED <<schedule, perPid, asleep, ending, file, footer, events>>

OnAnswer ==
  /\ lpc = "query" /\ Returns("data")
  /\ errors' = 0
  /\ asleep' = FALSE
  /\ bus' = IF asleep THEN Said(bus, "awake") ELSE bus
  /\ noData' = [noData EXCEPT ![cmd] = 0]
  /\ absent' = [absent EXCEPT ![cmd] = "no"]
  /\ said' = [said EXCEPT ![cmd] = IF absent[cmd] # "no" THEN Said(@, "present") ELSE @]
  /\ lpc' = "loop"
  /\ MaySync
  /\ UNCHANGED <<trying, schedule, ending, file, footer>>

LeaveLoop ==
  /\ lpc = "loop" /\ halt # "none"
  /\ lpc' = "finally"
  /\ ClosePort
  /\ UNCHANGED <<trying, schedule, perPid, errors, asleep, ending, file, footer,
                 events, blocked>>

---------------------------------------------------------------------------
(* The end *)

\* The reason in the footer: the first that there is.
Reason ==
  CASE stop -> "signal"
    [] ~stop /\ failure -> "error"
    [] ~stop /\ ~failure /\ halt = "max_seconds" -> "max_seconds"
    [] OTHER -> "link_gave_up"

WriteFooter ==
  /\ lpc = "finally"
  /\ footer' = Reason
  /\ lpc' = "closing"
  /\ MaySync
  /\ UNCHANGED <<elmVars, trying, schedule, perPid, errors, asleep, ending, file, events>>

CloseFile ==
  /\ lpc = "closing"
  /\ lpc' = "done"
  /\ MaySync
  /\ UNCHANGED <<elmVars, trying, schedule, perPid, errors, asleep, ending, file, footer, events>>

---------------------------------------------------------------------------
(* The world *)

\* Stop.__call__: the first signal sets the reason, another raises KeyboardInterrupt
\* wherever the logger is, a failure too if it is in its try.
Signal ==
  /\ lpc # "done"
  /\ halt' = "signal"
  /\ IF ~stop
     THEN UNCHANGED <<elmVars, lpc, cut, failure>>
     ELSE /\ ClosePort
          /\ cut' = (file /\ lpc \in {"starting", "finally", "closing"})
          /\ failure' = (failure \/ (file /\ ~cut'))
          /\ lpc' = IF file /\ ~cut' THEN "finally" ELSE "done"
  /\ UNCHANGED <<trying, schedule, perPid, errors, asleep, file, footer, events, blocked>>

\* --max-seconds have passed.  Only where the clock is looked at does it make a
\* difference, and after a signal none at all.
Expire ==
  /\ file /\ lpc \in {"connect", "loop", "finally"} /\ halt = "none"
  /\ halt' = "max_seconds"
  /\ UNCHANGED <<elmVars, lpc, trying, schedule, perPid, errors, asleep, failure, file,
                 footer, cut, events, blocked>>

\* The port is no longer used.
Leaving == lpc \in {"finally", "closing", "done"}

\* ABSENT_RETRY_SEC have passed since p was set aside or last tried.
RetryDue(p) ==
  /\ absent[p] = "fresh" /\ ~Leaving
  /\ absent' = [absent EXCEPT ![p] = "due"]
  /\ UNCHANGED <<elmVars, lpc, trying, schedule, noData, errors, asleep, ending, file,
                 footer, events, blocked>>

LoggerStep ==
  \/ TryConnect \/ Opens \/ OpenFails \/ OpenRaises
  \/ InitAT \/ Init0100 \/ InitAnswered \/ InitFails \/ Backoff
  \/ ConnectStops \/ Setup \/ OpenSession \/ SetupFails \/ EnterTry
  \/ Ask \/ IdleTurn \/ OnNoData \/ OnBusAsleep \/ WaitEnds \/ OnLinkLost \/ OnAdapterError
  \/ OnAnswer \/ LeaveLoop \/ WriteFooter \/ CloseFile
  \/ (Resynced \/ SendCR) /\ UNCHANGED logVars

\* Where the logger has the port open.
InSession == lpc \notin {"connect", "opening", "backoff", "finally", "closing", "done"}

LinkStep == ~Leaving /\ Arrive(InSession) /\ UNCHANGED logVars

World ==
  \/ ~Leaving /\ (Finish \/ LinkDrop \/ LinkBack) /\ UNCHANGED logVars
  \/ Signal
  \/ Expire

Next == LoggerStep \/ LinkStep \/ World \/ \E p \in Pids : RetryDue(p)

Spec == Init /\ [][Next]_vars

\* The logger runs, its waits end, bytes on their way arrive and time passes; the
\* adapter, the car and the link do as they like.
FairSpec ==
  /\ Spec
  /\ WF_vars(LoggerStep)
  /\ WF_vars(LinkStep)
  /\ \A p \in Pids : WF_vars(RetryDue(p))

---------------------------------------------------------------------------
(* Properties *)

\* "the logger only stops on Ctrl-C, SIGTERM or --max-seconds": a session that has a
\* file ends with a footer that gives one of these reasons or, against that line, the
\* exception of an open that connect does not catch; it never gives up on the link by
\* itself.  A second interrupt before its try or in its finally may cost it the footer.
EndsWithFooter ==
  lpc = "done" /\ file /\ ~cut =>
    \/ footer \in {"signal", "max_seconds"}
    \/ footer = "error" /\ failure

\* bus_asleep and bus_awake alternate in the file, and so do a PID's pid_absent and
\* pid_present: a reader pairs them to know when nothing was sampled.
EventsAlternate ==
  /\ bus # "twice" /\ (bus = "asleep") = asleep
  /\ \A p \in Pids : said[p] # "twice" /\ (said[p] = "absent") = (absent[p] # "no")

\* tick: "so the time bound holds while nothing is being written": whatever the adapter
\* and the bus do, no more than one open of the port and one init, which is ATZ, the
\* settings and 0100, pass between two looks at the writer's clock.
SyncIsNeverFar == blocked <= 1 + (1 + Settings + 1)

\* No PID is forgotten: while the session runs and the link holds every one is asked
\* again and again, those set aside and those behind the fast ones too.
EveryPidIsAsked == \A p \in Pids : []<>(cmd = p \/ lpc \in {"connect", "done"})

\* A signal ends the logger, whatever the adapter does.  (A stop is never taken back, so
\* this is stop ~> done, in the form that TLC checks on half as large a graph.)
SignalEnds == []<>(stop => lpc = "done")
=============================================================================
