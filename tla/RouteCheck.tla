----------------------------- MODULE RouteCheck -----------------------------
(***************************************************************************)
(* What statusd may ask its source and what it may send for the reply,     *)
(* defined from the URL and the reply alone; and statusd with the          *)
(* synthetic source behind it.                                             *)
(***************************************************************************)
EXTENDS KvCheck, HttpCheck, Route, Synth

CONSTANTS
  Targets,   \* paths and queries that route_handle is tried on
  Replies,   \* replies of a source
  Queries,   \* the pairs of queries of /api/series
  Windows,   \* windows of a series
  Nows,      \* times of day
  BodyMax    \* SERVER_BODY_MAX

---------------------------------------------------------------------------
(* The page for a reply *)

\* A good reply: records, then one ok, and nothing after it; the page has no room
\* for a field that is called tag.
IsWhole(reply, lines) ==
  /\ reply.fits /\ ~reply.rest
  /\ lines # <<>> /\ Last(lines).kind = "ok"
  /\ \A i \in 1 .. Len(lines) - 1 : lines[i].kind = "record" /\ ~HasTagField(lines[i])

Named == Append(Quoted(Word), Mark(":"))

FieldText(f) ==
  Named \o (IF f.type = "str" THEN Quoted(Plain(f.val))
            ELSE <<Unit("scalar", IF f.type = "null" THEN 4 ELSE Len(f.val))>>)

RecordText(rec) ==
  <<Mark("{")>> \o Named \o Quoted(Word)
  \o FlattenSeq([i \in DOMAIN rec.fields |-> <<Mark(",")>> \o FieldText(rec.fields[i])])
  \o <<Mark("}")>>

\* The document with every record of the lines, in order.
PageOf(lines) ==
  <<Mark("{")>> \o Named \o <<Unit("scalar", 4), Mark(",")>> \o Named \o <<Mark("[")>>
  \o FlattenSeq([i \in 1 .. Len(lines) - 1 |->
       (IF i > 1 THEN <<Mark(",")>> ELSE <<>>) \o RecordText(lines[i])])
  \o <<Mark("]"), Mark("}")>>

\* The source is asked for this request.
IsAsked(path, query) ==
  \E verb \in Verbs : path = Api \o verb /\ RequestLine(verb, query) # Refused

AllLines(reply) == [i \in DOMAIN reply.lines |-> ReplyNext(reply.lines[i])]

\* What the browser gets: the page if it is to be shown.
IsRight(r, shown, page) ==
  /\ r.ctype = "json" => IsJson([k \in DOMAIN r.body |-> r.body[k].text]) /\ Bytes(r.body) < j.cap
  /\ shown = (r.ctype = "json" /\ r.status = 200)
  /\ shown => r.body = page

\* The page for a whole reply, nothing for another.
Due(reply, lines) == IF IsWhole(reply, lines) THEN PageOf(lines) ELSE <<>>

\* A browser gets all records of a whole reply or an error, never a part of a reply, and
\* never a body that is not JSON or past the buffer: a reply that stops early, goes on
\* after its end, has a bad line or does not fit is an error.
WholeReplyOrError ==
  calls = <<>> => \A target \in Targets, reply \in Replies :
    LET page == Due(reply, AllLines(reply))
    IN  IsRight(RouteHandle(j.cap, target.path, target.query, reply),
                IsAsked(target.path, target.query) /\ page # <<>> /\ Bytes(page) < j.cap,
                page)

---------------------------------------------------------------------------
(* The line for a URL *)

\* A query as it stands in the URL.
QueryText(pairs) ==
  FlattenSeq([i \in DOMAIN pairs |->
    (IF i > 1 THEN <<"amp">> ELSE <<>>) \o pairs[i].key \o <<"eq">> \o pairs[i].val])

Wanted(pair) == Decode(pair.val, TRUE)

\* 1 to 24 bytes of [A-Za-z0-9:+.,_/-] after decoding.
GoodValue(pair) ==
  /\ Decodes(pair.val)
  /\ Len(pair.val) \in 1 .. ValueMax
  /\ Range(Wanted(pair)) \subseteq
       {"letter", "upper", "zero", "digit", "comma", "plus", "dot", "slash", "minus", "m", "now"}

GoodQuery(pairs) ==
  /\ \A i \in DOMAIN pairs : pairs[i].key \in Range(SeriesKeys) /\ GoodValue(pairs[i])
  /\ \A i, k \in DOMAIN pairs : pairs[i].key = pairs[k].key => i = k

\* The record the source should see: what the pairs say, in the order of series_keys.
FieldOf(pair) ==
  LET v == Wanted(pair)
  IN  Field(pair.key, IF pair.key # <<"pid">> /\ SomeDigits(v) THEN "num" ELSE "str", v)

AskedFor(pairs) ==
  LET given == SelectSeq(SeriesKeys, LAMBDA k : \E i \in DOMAIN pairs : pairs[i].key = k)
  IN  Record(<<"series">>,
        [n \in DOMAIN given |-> FieldOf(CHOOSE p \in Range(pairs) : p.key = given[n])])

\* Digits with a zero in front, which are no JSON number.
LeadingZero(f) == f.type = "num" /\ ~InGrammar(f.val)

\* "nothing that could end a string, start a field or a line, or surprise a parser": the
\* source reads from its line exactly the fields the URL gave, each with its value and
\* type, and never hears of a URL that route.h refuses; a time with a leading zero makes
\* the whole line unreadable, and no other thing does.
UrlIsAsked ==
  Once => \A pairs \in Queries :
    LET line == RequestLine(<<"series">>, QueryText(pairs))
        rec  == AskedFor(pairs)
    IN  IF ~GoodQuery(pairs) THEN line = Refused
        ELSE ParseLine(line) = IF \E i \in DOMAIN rec.fields : LeadingZero(rec.fields[i])
                               THEN Ended("bad") ELSE rec

---------------------------------------------------------------------------
(* The synthetic source *)

\* "Samples sit on multiples of step, so two polls of one window agree on their times":
\* where two windows of the same length overlap they have the same samples; and every
\* window has some, no more than a reply may hold, and none outside.
SeriesIsAligned ==
  Once => \A w \in Windows :
    LET times == Range(SampleTimes(w.from, w.to))
    IN  /\ Cardinality(times) \in 1 .. MaxSamples
        /\ times \subseteq w.from .. w.to
        /\ \A v \in {v \in Windows : v.to - v.from = w.to - w.from} :
             times \cap (v.from .. v.to) = Range(SampleTimes(v.from, v.to)) \cap (w.from .. w.to)

\* A 500 is for a source that breaks the format.  The synthetic one does not: whatever
\* the URL asks of it, and at whatever time, statusd shows its reply or says what is wrong
\* with the request, with a status that http_write_head has a head for.
NoInternalError ==
  Once => \A target \in Targets, now \in Nows :
    RouteHandle(BodyMax, target.path, target.query,
                SynthQuery(LineFor(target.path, target.query), now)).status \in Statuses \ {500}
=============================================================================
