------------------------------ MODULE KvCheck -------------------------------
(***************************************************************************)
(* The lines of the control socket against the format kv.h describes,      *)
(* stated as how a line is written.                                        *)
(***************************************************************************)
EXTENDS JsonCheck, Kv

CONSTANTS
  Texts,     \* lines that kv_parse_line is tried on
  Meant      \* records and refusals, good and bad, that are written and read back

\* What the format says of a name, a string and a field.
GoodName(t) == t # <<>> /\ Len(t) < MaxName /\ \A i \in DOMAIN t : t[i] \notin Symbols

GoodString(t) == Len(t) < MaxValue /\ Range(t) \cap ({"quote", "bslash"} \cup Unprintable) = {}

GoodField(f) ==
  /\ GoodName(f.key)
  /\ CASE f.type = "str"  -> GoodString(f.val)
       [] f.type = "num"  -> InGrammar(f.val) /\ Len(f.val) < MaxValue
       [] f.type = "null" -> f.val = <<"null">>

Written(l) ==
  CASE l.kind = "ok"     -> <<"ok">>
    [] l.kind = "err"    -> <<"err", "sp">> \o l.code
                            \o (IF l.reason = <<>> THEN <<>> ELSE <<"sp">> \o l.reason)
    [] l.kind = "record" ->
         l.tag \o FlattenSeq([i \in DOMAIN l.fields |->
           LET f == l.fields[i]
               q == IF f.type = "str" THEN <<"quote">> ELSE <<>>
           IN  <<"sp">> \o f.key \o <<"eq">> \o q \o f.val \o q])

\* A line that may be written.
IsGood(l) ==
  /\ Len(Written(l)) <= MaxLine
  /\ CASE l.kind = "ok"     -> TRUE
       [] l.kind = "err"    -> /\ GoodName(l.code)
                               /\ l.reason # <<>> =>
                                    /\ Len(l.reason) < MaxValue /\ Range(l.reason) \cap Unprintable = {}
                                    /\ "sp" \notin {l.reason[1], Last(l.reason)}
       [] l.kind = "record" -> /\ GoodName(l.tag) /\ l.tag \notin {<<"ok">>, <<"err">>}
                               /\ Len(l.fields) <= MaxFields
                               /\ \A i \in DOMAIN l.fields : GoodField(l.fields[i])
                               /\ \A i, k \in DOMAIN l.fields :
                                    l.fields[i].key = l.fields[k].key => i = k

\* "forgetting the quotes is an error, not a silent change of type": a line is read as
\* the one record or refusal that is written that way, with its types, or it is refused;
\* and everything the format lets a source write is read back as it was meant.
LineIsExact ==
  Once =>
    /\ \A t \in Texts : LET l == ParseLine(t) IN l.kind = "bad" \/ (IsGood(l) /\ Written(l) = t)
    /\ \A l \in Meant : (ParseLine(Written(l)) = l) = IsGood(l)
=============================================================================
