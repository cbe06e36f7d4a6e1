-------------------------------- MODULE Elm --------------------------------
(***************************************************************************)
(* One serial session with the OBD adapter (tools/elm.py): a command is    *)
(* written, its reply read up to the prompt, and after a timeout the late  *)
(* reply must not be taken for the answer to the next command.             *)
(*                                                                         *)
(* Time is left out: a wait may run out whenever nothing has arrived.  A   *)
(* reply is one unit, with its prompt; what an answer says is left open    *)
(* until it is read, since nobody looks earlier.  The adapter behaves      *)
(* as elm.py's comments and the fake port of tests/tools/test_elm.py say: *)
(* whatever is written to it while it works makes it print STOPPED, and a  *)
(* bare CR repeats the last command when it is idle.                       *)
(***************************************************************************)
EXTENDS Integers, Sequences, FiniteSets, FiniteSetsExt

CONSTANTS
  Pids,        \* the requests of Mode 01
  MaxFlight    \* bound: replies on their way when the port is opened or written to

ASSUME ElmAssumption == MaxFlight \in Nat \ {0}

\* ATZ and each of the settings is an "AT"; "0100" ends init; "setup" is what the header
\* needs.
Commands == Pids \cup {"AT", "0100", "setup"}
NoCmd    == "none"

VARIABLES
  link,          \* the port exists
  job, last,     \* what the adapter works on, and its last command
  down, input,   \* replies on their way, and in the port's input buffer
  cpc, cmd,      \* where command() is, and its argument
  stale,         \* Adapter.stale
  astray,        \* history: since the port was opened, the adapter was made to repeat;
                 \* or it was at work, or a reply on its way, when the port was opened
  own            \* history: the last reply read was to the command it was read for,
                 \* or astray

elmVars == <<link, job, last, down, input, cpc, cmd, stale, astray, own>>

\* A reply: STOPPED, or the answer of job j.  mine: it is to the command that command()
\* now waits for.
Stopped   == [cmd |-> NoCmd, mine |-> TRUE]
Answer(j) == [cmd |-> j.cmd, mine |-> j.mine]
Job(c)    == [cmd |-> c, mine |-> TRUE]
NoJob     == [cmd |-> NoCmd, mine |-> FALSE]

ElmInit ==
  /\ link = TRUE
  /\ job = NoJob /\ last = "AT"
  /\ down = <<>> /\ input = <<>>
  /\ cpc = "idle" /\ cmd = NoCmd
  /\ stale = FALSE /\ astray = FALSE /\ own = TRUE

\* Nothing of before is mine any longer.
NotMine(s) == [i \in DOMAIN s |-> [s[i] EXCEPT !.mine = FALSE]]

---------------------------------------------------------------------------
(* The port *)

\* Adapter.__init__: opening flushes what has arrived; the adapter goes on with its work.
OpenPort ==
  /\ link /\ Len(down) <= MaxFlight
  /\ input' = <<>>
  /\ stale' = FALSE
  /\ astray' = (job # NoJob \/ down # <<>>)
  /\ UNCHANGED <<link, job, last, down, cpc, cmd, own>>

\* The adapter is interrupted by what is written, or takes it as a command.
Written(c, older) ==
  /\ Len(down) <= MaxFlight
  /\ IF job # NoJob
     THEN job' = NoJob /\ down' = Append(older, Stopped) /\ UNCHANGED last
     ELSE job' = Job(c) /\ down' = older /\ last' = c

\* command() after the resync, if one was needed: flush, write, wait.
SendCommand(c) ==
  /\ Written(c, NotMine(down))
  /\ input' = <<>>
  /\ cpc' = "reply" /\ cmd' = c

\* Mutant of CallCommand: a timed-out request is not waited out.
CallCommandNoResync(c) ==
  /\ SendCommand(c)
  /\ UNCHANGED <<link, stale, astray, own>>

\* command(c) is called.
CallCommand(c) ==
  \/ /\ stale
     /\ cpc' = "late" /\ cmd' = c
     /\ down' = NotMine(down) /\ input' = NotMine(input) /\ job' = [job EXCEPT !.mine = FALSE]
     /\ UNCHANGED <<link, last, stale, astray, own>>
  \/ /\ ~stale
     /\ SendCommand(c)
     /\ UNCHANGED <<link, stale, astray, own>>

---------------------------------------------------------------------------
(* _resync and the end of command *)

\* A prompt ends the resync, and the command is sent.
Resynced ==
  /\ link /\ cpc \in {"late", "stopped"} /\ input # <<>>
  /\ stale' = FALSE
  /\ SendCommand(cmd)
  /\ UNCHANGED <<link, astray, own>>

\* No late prompt within RESYNC_WAIT: a bare CR.
SendCR ==
  /\ link /\ cpc = "late" /\ input = <<>>
  /\ Written(last, down)
  /\ astray' = (astray \/ job = NoJob)
  /\ cpc' = "stopped"
  /\ UNCHANGED <<link, input, cmd, stale, own>>

Kinds == {"data", "no_data", "asleep", "error"}

\* What the replies in buf may turn out to say: STOPPED; to an AT command OK;
\* and to a request whatever the car and the bus let the adapter say.
Readings(buf) ==
  {kinds \in [DOMAIN buf -> Kinds] :
     \A i \in DOMAIN buf : /\ buf[i].cmd = NoCmd => kinds[i] = "error"
                           /\ buf[i].cmd = "AT" => kinds[i] = "data"}

\* parse_all: the first line that reports a failure, or the lines of this request.
ParseAll(buf, kinds, c) ==
  LET failed == {i \in DOMAIN buf : kinds[i] # "data"}
  IN  CASE failed # {} -> kinds[Min(failed)]
        [] failed = {} /\ \E i \in DOMAIN buf : buf[i].cmd = c -> "data"
        [] OTHER -> "error"

\* What becomes of the replies: init ignores those to AT commands, check_bus looks for
\* one failure only, everything else goes through parse_all.
Outcome(buf, kinds, c) ==
  CASE c = "AT" -> "data"
    [] c = "0100" -> IF \E i \in DOMAIN buf : kinds[i] = "asleep" THEN "asleep" ELSE "data"
    [] OTHER -> ParseAll(buf, kinds, c)

Ended == cpc' = "idle" /\ cmd' = NoCmd

\* command() ends, and its caller sees r.  The link is lost when the port is gone, and
\* when a stalled one does not take what is written in time.
CommandEnds(r) ==
  /\ \/ /\ link /\ cpc = "reply" /\ input # <<>>
        /\ \E kinds \in Readings(input) : r = Outcome(input, kinds, cmd)
        /\ own' = (astray \/ \A i \in DOMAIN input : input[i].mine)
     \/ /\ link /\ cpc \in {"reply", "stopped"} /\ input = <<>>
        /\ r = "timeout"
        /\ UNCHANGED own
     \/ /\ cpc # "idle"
        /\ r = "link_lost"
        /\ UNCHANGED own
  /\ Ended
  /\ UNCHANGED <<link, last>>

\* The session goes on: what was read is gone, and a timeout leaves it stale.
Returns(r) ==
  /\ CommandEnds(r)
  /\ input' = <<>>
  /\ stale' = (stale \/ r = "timeout")
  /\ UNCHANGED <<job, down, astray>>

\* The caller closes the port.
ReturnsAndCloses(r) ==
  /\ CommandEnds(r)
  /\ down' = NotMine(down) /\ job' = [job EXCEPT !.mine = FALSE]
  /\ input' = <<>> /\ stale' = FALSE /\ astray' = FALSE

Outcomes == Kinds \cup {"timeout", "link_lost"}

\* The session ends, from wherever command() is; Adapter.close is all that follows, and
\* what the port and the adapter hold is of no more interest.
ClosePort ==
  /\ Ended
  /\ job' = NoJob /\ last' = "AT" /\ down' = <<>> /\ input' = <<>> /\ stale' = FALSE
  /\ astray' = FALSE
  /\ UNCHANGED <<link, own>>

---------------------------------------------------------------------------
(* The adapter and the link *)

\* The adapter prints its reply and the prompt.
Finish ==
  /\ link /\ job # NoJob
  /\ down' = Append(down, Answer(job))
  /\ job' = NoJob
  /\ UNCHANGED <<link, last, input, cpc, cmd, stale, astray, own>>

\* The oldest reply reaches the port, and is lost if nobody has it open.
Arrive(open) ==
  /\ link /\ down # <<>>
  /\ input' = IF open THEN Append(input, Head(down)) ELSE <<>>
  /\ down' = Tail(down)
  /\ UNCHANGED <<link, job, last, cpc, cmd, stale, astray, own>>

\* Bluetooth drops; what was on its way is lost.
LinkDrop ==
  /\ link
  /\ link' = FALSE
  /\ down' = <<>> /\ input' = <<>>
  /\ UNCHANGED <<job, last, cpc, cmd, stale, astray, own>>

LinkBack ==
  /\ ~link
  /\ link' = TRUE
  /\ UNCHANGED <<job, last, down, input, cpc, cmd, stale, astray, own>>

---------------------------------------------------------------------------
\* _resync: "Wait out the reply to a request that timed out, so it is not read as
\* the answer to the next one."  It keeps that in every session with the port, unless the
\* bare CR found the adapter idle, which repeats a command, or the adapter was at work or
\* its reply on the way when the port was opened.
AnswerIsOwn == own
=============================================================================
