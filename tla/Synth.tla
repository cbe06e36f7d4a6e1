-------------------------------- MODULE Synth -------------------------------
(***************************************************************************)
(* The synthetic source (src/interface/synth_source.c): a request line in, *)
(* the lines of a reply out, as a function of the request and the clock.   *)
(* The readings themselves are left out: a number is one digit.            *)
(***************************************************************************)
EXTENDS Kv

CONSTANTS
  MaxWindow,    \* MAX_WINDOW_S
  MaxSamples,   \* MAX_SAMPLES
  UnixDigits,   \* the longest time in seconds, 12 digits in the code
  AgoDigits,    \* the longest relative time, 5 digits in the code
  ReplyMax      \* ROUTE_REPLY_MAX

ASSUME SynthAssumption ==
  {MaxWindow, MaxSamples, UnixDigits, AgoDigits} \subseteq Nat \ {0} /\ ReplyMax \in Nat

---------------------------------------------------------------------------
(* Lines *)

Str(key) == <<"sp", key, "eq", "quote", "letter", "quote">>
Num(key) == <<"sp", key, "eq", "digit">>
Null(key) == <<"sp", key, "eq", "null">>

\* Every record says src="synth".
Said(tag, fields) == <<tag>> \o FlattenSeq(fields) \o Str("src")

Err(code) == <<"err", "sp", code, "sp", "letter">>

ProcLine ==
  Said("proc", <<Str("name"), Str("state"), Num("pid"), Num("uptime_s"), Num("restarts"),
                 Num("rss_kb"), Num("cpu_pct"), Num("events"), Num("drops")>>)
RingLine == Said("ring", <<Str("name"), Num("depth"), Num("capacity"), Num("overruns")>>)
LinkLine == Said("link", <<Str("dongle"), Str("probe"), Str("light"), Num("time_trusted")>>)
MixLine  == Said("srcmix", <<Num("live"), Num("replay"), Num("synth")>>)
FaultLine ==
  Said("fault", <<Num("t_s"), Str("kind"), Str("source"), Str("code"), Str("detail")>>)

\* An active verdict has no end yet.
VerdictLine(active) ==
  Said("verdict", <<Num("id"), Str("area"), Str("sensors"), Num("residual"), Str("state"),
                    Num("start_s"), IF active THEN Null("end_s") ELSE Num("end_s")>>)

\* Mutant: a reading that is missing is left empty.
SampleLineEmpty(dropped) ==
  Said("sample", <<Str("pid"), Num("t_s"), IF dropped THEN <<"sp", "value", "eq">> ELSE Num("value")>>)

SampleLine(dropped) ==
  Said("sample", <<Str("pid"), Num("t_s"), IF dropped THEN Null("value") ELSE Num("value")>>)

StatusLines == [i \in 1 .. 6 |-> ProcLine] \o <<RingLine, RingLine, LinkLine, MixLine>>

---------------------------------------------------------------------------
(* series *)

\* The signals that have a name here; the probe drops out for a minute of each quarter hour.
Signals == {<<"zero", "upper">>, <<"probe">>}
DropsOut(pid, t) == pid = <<"probe">> /\ t % 900 < 60

\* The number that digits stand for; "digit" is a 5.
ValueOf(t) == FoldLeft(LAMBDA n, u : 10 * n + (IF u = "zero" THEN 0 ELSE 5), 0, t)

AllDigits(t) == Range(t) \subseteq {"zero", "digit"}

Find(req, key) == SelectInSeq(req.fields, LAMBDA f : f.key = key)

NoTime == -1
UnitSeconds == [s |-> 1, m |-> 60, h |-> 3600]

\* "-<1 to 5 digits><s|m|h>": the digits, and the seconds.
IsAgo(t) ==
  /\ Len(t) \in 3 .. AgoDigits + 2
  /\ t[1] = "minus" /\ Last(t) \in DOMAIN UnitSeconds /\ AllDigits(SubSeq(t, 2, Len(t) - 1))
Ago(t) == ValueOf(SubSeq(t, 2, Len(t) - 1)) * UnitSeconds[Last(t)]

ParseWhen(req, key, dflt, now) ==
  LET k == Find(req, key)
      f == IF k = 0 THEN Field(key, "str", dflt) ELSE req.fields[k]
  IN  CASE f.type = "num" /\ Len(f.val) <= UnixDigits /\ AllDigits(f.val) -> ValueOf(f.val)
        [] f.type = "str" /\ f.val = <<"now">>                            -> now
        [] f.type = "str" /\ IsAgo(f.val) /\ Ago(f.val) <= now            -> now - Ago(f.val)
        [] OTHER                                                          -> NoTime

\* Mutant: as many steps as samples are allowed, and one sample more.
StepRoundedUp(from, to) == (to - from + MaxSamples - 1) \div MaxSamples

Step(from, to) == (to - from) \div MaxSamples + 1

\* The multiples of the step in the window, in order.
SampleTimes(from, to) ==
  LET step  == Step(from, to)
      first == ((from + step - 1) \div step) * step
  IN  IF first > to THEN <<>> ELSE [i \in 1 .. (to - first) \div step + 1 |-> first + (i - 1) * step]

Series(req, now) ==
  LET p     == Find(req, <<"pid">>)
      from  == ParseWhen(req, <<"from">>, <<"minus", "digit", "m">>, now)
      to    == ParseWhen(req, <<"to">>, <<"now">>, now)
      times == SampleTimes(from, to)
      pid   == req.fields[p]
  IN  CASE p = 0 -> <<Err("usage")>>
        [] p # 0 /\ pid.type # "str" -> <<Err("usage")>>
        [] p # 0 /\ pid.type = "str" /\ pid.val \notin Signals -> <<Err("unknown_pid")>>
        [] p # 0 /\ pid.type = "str" /\ pid.val \in Signals ->
             IF NoTime \in {from, to} \/ from >= to \/ to - from > MaxWindow
             THEN <<Err("usage")>>
             ELSE Append([i \in DOMAIN times |-> SampleLine(DropsOut(pid.val, times[i]))], <<"ok">>)

---------------------------------------------------------------------------
(* synth_query *)

ReplyLines(req, now) ==
  CASE req.kind # "record"           -> <<Err("usage")>>
    [] req.tag = <<"status">>        -> Append(StatusLines, <<"ok">>)
    [] req.tag = <<"verdicts">>      -> <<VerdictLine(TRUE), VerdictLine(FALSE), <<"ok">>>>
    [] req.tag = <<"faults">>        -> [i \in 1 .. 5 |-> IF i = 5 THEN <<"ok">> ELSE FaultLine]
    [] req.tag = <<"series">>        -> Series(req, now)
    [] req.tag = <<"baseline">>      -> <<Err("unavailable")>>
    [] OTHER                         -> <<Err("unknown_verb")>>

\* outf: once a line does not fit, the reply as a whole does not.
Fits(lines) == FoldLeft(LAMBDA n, l : n + Len(l) + 1, 0, lines) < ReplyMax

Replied(lines) == Reply(lines, FALSE, Fits(lines))

SynthQuery(line, now) == Replied(ReplyLines(ParseLine(line), now))
=============================================================================
