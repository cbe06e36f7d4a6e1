------------------------------- MODULE Route --------------------------------
(***************************************************************************)
(* statusd's routes (src/interface/route.c): a path and a query of module  *)
(* Http become a line for the source, and the source's reply, read by      *)
(* module Kv, becomes a JSON body written by module Json.                  *)
(*                                                                         *)
(* In the body a name is one plain character.                              *)
(***************************************************************************)
EXTENDS Kv, Http

CONSTANT ValueMax   \* ROUTE_VALUE_MAX

ASSUME RouteAssumption == ValueMax \in Nat

Word == <<"plain">>

---------------------------------------------------------------------------
(* Responses *)

Response(status, ctype, body) == [status |-> status, ctype |-> ctype, body |-> body]

Empty500 == Response(500, "text", <<>>)

\* set_text, for a text of one byte.
SetText(cap, status) ==
  IF cap < 1 THEN Empty500 ELSE Response(status, "text", <<Unit("text", 1)>>)

\* A key and its value, written one after the other.
Pair(x, write(_, _), value) == write(Key(x, Word), value)

\* What json_finish leaves to send.
Finished(x, status, otherwise) ==
  IF Finish(x) < 0 THEN otherwise ELSE Response(status, "json", x.buf)

\* {"ok":false,"code":"...","reason":"..."}
SetError(cap, status) ==
  Finished(EndContainer(Pair(Pair(Pair(BeginContainer(Started(cap), TRUE),
                                       Scalar, 5), String, Word), String, Word), TRUE),
           status, Empty500)

StatusForCode(code) ==
  CASE code = <<"usage">>                                -> 400
    [] code \in {<<"unknown_pid">>, <<"unknown_verb">>}  -> 404
    [] code = <<"unavailable">>                          -> 503
    [] OTHER                                             -> 500

\* A string of a record as put_quoted sees it: nothing in it needs an escape.
Plain(val) == [i \in DOMAIN val |-> "plain"]

PutField(x, f) ==
  CASE f.type = "str"  -> Pair(x, String, Plain(f.val))
    [] f.type = "num"  -> Pair(x, Number, f.val)
    [] f.type = "null" -> Pair(x, Scalar, 4)

\* Nothing more is written once the writer has failed.
PutRecord(x, rec) ==
  IF x.failed THEN x
  ELSE EndContainer(FoldLeft(PutField, Pair(BeginContainer(x, TRUE), String, Word), rec.fields), TRUE)

HasTagField(rec) == \E i \in DOMAIN rec.fields : rec.fields[i].key = <<"tag">>

\* records_to_json: a response, or none if the reply cannot be shown.
Unshown == Response(0, "none", <<>>)

PageHead(cap) ==
  BeginContainer(Key(Pair(BeginContainer(Started(cap), TRUE), Scalar, 4), Word), FALSE)

RecordsToJson(cap, records) ==
  IF \E i \in DOMAIN records : HasTagField(records[i]) THEN Unshown
  ELSE Finished(EndContainer(EndContainer(FoldLeft(PutRecord, PageHead(cap), records), FALSE), TRUE),
                200, Unshown)

---------------------------------------------------------------------------
(* The request line *)

Api == <<"slash", "api", "slash">>

Verbs      == {<<"status">>, <<"verdicts">>, <<"faults">>, <<"series">>}
SeriesKeys == <<<<"pid">>, <<"from">>, <<"to">>>>

\* check_keys: every key known and given once, no pair empty.
CheckKeys(query) ==
  LET names == [i \in DOMAIN Split(query, "amp") |-> NameOf(Split(query, "amp")[i])]
  IN  query # <<>> => Range(names) \subseteq Range(SeriesKeys) /\ IsInjective(names)

\* Mutant: quotes and spaces pass.
SafeValueAny(v) == v # <<>> /\ Len(v) <= ValueMax

\* 1 to ROUTE_VALUE_MAX of [A-Za-z0-9:+.,_/-]; comma stands for : and _ too.
SafeValue(v) ==
  /\ v # <<>> /\ Len(v) <= ValueMax
  /\ Range(v) \cap (({"eq", "quote", "bslash", "sp", "qmark"} \cup Unprintable)) = {}

\* pid is always a string; the times are bare when they are all digits.
SeriesField(key, v) ==
  LET bare == key # <<"pid">> /\ Range(v) \subseteq {"zero", "digit"}
  IN  <<"sp">> \o key \o <<"eq">> \o (IF bare THEN v ELSE <<"quote">> \o v \o <<"quote">>)

Refused == <<>>

\* The given keys in the order of series_keys; three values always fit the line.
BuildSeries(query) ==
  LET pairs == Split(query, "amp")
      given == SelectSeq(SeriesKeys, LAMBDA k : \E i \in DOMAIN pairs : NameOf(pairs[i]) = k)
  IN  IF CheckKeys(query) /\ \A i \in DOMAIN given :
           QueryGet(query, given[i]) # Missing /\ SafeValue(QueryGet(query, given[i]))
      THEN FoldLeft(LAMBDA line, k : line \o SeriesField(k, QueryGet(query, k)), <<"series">>, given)
      ELSE Refused

\* Only /api/series takes a query.
RequestLine(verb, query) ==
  CASE verb = <<"series">>                      -> BuildSeries(query)
    [] verb # <<"series">> /\ query = <<>>      -> verb
    [] OTHER                                    -> Refused

---------------------------------------------------------------------------
(* route_handle *)

\* The records of a good reply as a response.
ShowRecords(cap, page) == IF page = Unshown THEN SetError(cap, 500) ELSE page

\* The source's reply as a response: what it says is seen, and it ended with end.
ShowEnded(cap, seen, end) ==
  IF end.kind = "ok" THEN ShowRecords(cap, RecordsToJson(cap, Records(seen)))
  ELSE SetError(cap, IF end.kind = "err" THEN StatusForCode(end.code) ELSE 500)

\* A reply past the buffer is not read.
ShowParsed(cap, reply, seen) ==
  ShowEnded(cap, seen, IF reply.fits THEN ReplyCheck(reply, seen) ELSE Ended("bad"))

IsApi(path)  == Len(path) >= 3 /\ SubSeq(path, 1, 3) = Api
VerbOf(path) == SubSeq(path, 4, Len(path))

\* The line the source is asked, if it is asked at all.
LineFor(path, query) ==
  IF IsApi(path) /\ VerbOf(path) \in Verbs THEN RequestLine(VerbOf(path), query) ELSE Refused

\* The response, reply being the source's to LineFor.
RouteHandle(cap, path, query, reply) ==
  CASE path = <<"slash">>                                -> SetText(cap, IF query = <<>> THEN 200 ELSE 400)
    [] path # <<"slash">> /\ ~IsApi(path)                -> SetText(cap, 404)
    [] IsApi(path) /\ VerbOf(path) \notin Verbs          -> SetError(cap, 404)
    [] OTHER -> IF LineFor(path, query) = Refused THEN SetError(cap, 400)
                ELSE ShowParsed(cap, reply, Parsed(reply))
=============================================================================
