--------------------------------- MODULE Kv ---------------------------------
(***************************************************************************)
(* The lines of the control socket (src/interface/kv.c): a record, ok or   *)
(* err.  The values carry their types: quoted a string, bare a number of   *)
(* module Json or null.                                                    *)
(***************************************************************************)
EXTENDS Json, Text

CONSTANTS
  MaxLine,     \* KV_MAX_LINE
  MaxFields,   \* KV_MAX_FIELDS
  MaxName,     \* KV_MAX_TAG, KV_MAX_KEY and KV_MAX_CODE, which are the same
  MaxValue     \* KV_MAX_VALUE and KV_MAX_REASON, which are the same

ASSUME KvAssumption == {MaxLine, MaxFields, MaxName, MaxValue} \subseteq Nat

\* What is not of [a-z0-9_].
Symbols ==
  {"upper", "minus", "plus", "dot", "slash", "comma", "eq", "quote", "bslash", "sp",
   "qmark", "amp"}
  \cup Unprintable

IsName(t) == t # <<>> /\ Len(t) < MaxName /\ Range(t) \cap Symbols = {}

Field(key, type, val) == [key |-> key, type |-> type, val |-> val]

\* What kv_parse_line makes of a line.
Record(tag, fields) ==
  [kind |-> "record", tag |-> tag, fields |-> fields, code |-> <<>>, reason |-> <<>>]
Refusal(code, reason) ==
  [kind |-> "err", tag |-> <<>>, fields |-> <<>>, code |-> code, reason |-> reason]
Ended(kind) == [kind |-> kind, tag |-> <<>>, fields |-> <<>>, code |-> <<>>, reason |-> <<>>]

---------------------------------------------------------------------------

\* What follows "err ": a code, and a reason after a space.
ParseErr(t) ==
  LET sp     == First(t, "sp")
      code   == Before(t, sp)
      reason == After(t, sp)
      good   == /\ reason # <<>> /\ Len(reason) < MaxValue
                /\ reason[1] # "sp" /\ Last(reason) # "sp"
  IN  IF IsName(code) /\ (sp > Len(t) \/ good) THEN Refusal(code, reason) ELSE Ended("bad")

\* Mutant: a space ends a token inside quotes too.
TokensAtSpaces(t) == Split(t, "sp")

\* token_len, over and over: the pieces between the spaces outside double quotes.
Tokens(t) ==
  LET Step(acc, u) ==
        [pieces |-> IF u = "sp" /\ ~acc.quoted THEN Append(acc.pieces, <<>>)
                                               ELSE Longer(acc.pieces, u),
         quoted |-> IF u = "quote" THEN ~acc.quoted ELSE acc.quoted]
  IN  FoldLeft(Step, [pieces |-> <<<<>>>>, quoted |-> FALSE], t).pieces

\* One token added to the fields so far; ok stays false once it is.
AddField(acc, t) ==
  LET eq     == First(t, "eq")
      key    == Before(t, eq)
      raw    == After(t, eq)
      quoted == raw # <<>> /\ raw[1] = "quote"
      val    == IF quoted THEN SubSeq(raw, 2, Len(raw) - 1) ELSE raw
      type   == CASE quoted -> "str" [] raw = <<"null">> -> "null" [] OTHER -> "num"
  IN  [ok |-> /\ acc.ok
              /\ eq <= Len(t) /\ Len(acc.fields) < MaxFields
              /\ IsName(key) /\ \A i \in DOMAIN acc.fields : acc.fields[i].key # key
              /\ Len(val) < MaxValue
              /\ CASE type = "str"  -> /\ Len(raw) >= 2 /\ Last(raw) = "quote"
                                       /\ Range(val) \cap {"quote", "bslash"} = {}
                   [] type = "num"  -> IsNumber(raw)
                   [] type = "null" -> TRUE,
       fields |-> Append(acc.fields, Field(key, type, val))]

\* A record of the fields that its tokens give, if each is one.
RecordOf(tag, acc) == IF acc.ok THEN Record(tag, acc.fields) ELSE Ended("bad")

\* kv_parse_line
ParseLine(t) ==
  LET sp   == First(t, "sp")
      head == Before(t, sp)
      rest == After(t, sp)
      bad  == t = <<>> \/ Len(t) > MaxLine \/ Range(t) \cap Unprintable # {}
  IN  CASE bad                                    -> Ended("bad")
        [] ~bad /\ t = <<"ok">>                   -> Ended("ok")
        [] ~bad /\ head = <<"err">>               -> IF sp > Len(t) THEN Ended("bad") ELSE ParseErr(rest)
        [] ~bad /\ head \notin {<<"ok">>, <<"err">>} /\ IsName(head) ->
             RecordOf(head, FoldLeft(AddField, [ok |-> TRUE, fields |-> <<>>],
                                     IF sp > Len(t) THEN <<>> ELSE Tokens(rest)))
        [] OTHER                                  -> Ended("bad")

---------------------------------------------------------------------------
(* Replies *)

\* A reply: its lines without their newlines, whether anything follows the last newline,
\* and whether the source kept to the buffer.
Reply(lines, rest, fits) == [lines |-> lines, rest |-> rest, fits |-> fits]

\* kv_reply_next: a CR before the newline is not part of the line.
ReplyNext(t) == ParseLine(IF t # <<>> /\ Last(t) = "cr" THEN Front(t) ELSE t)

\* Lines up to the first that is no record, which decides.
UpToEnd(all) ==
  LET k == SelectInSeq(all, LAMBDA l : l.kind # "record") IN IF k = 0 THEN all ELSE SubSeq(all, 1, k)

\* What a reader of the lines sees before it stops.
Parsed(reply) == UpToEnd([i \in DOMAIN reply.lines |-> ReplyNext(reply.lines[i])])

Records(seen) == SelectSeq(seen, LAMBDA l : l.kind = "record")

\* Mutant: what follows the terminator is not looked at.
ReplyCheckToTerminator(reply, seen) ==
  IF seen = <<>> \/ Last(seen).kind = "record" THEN Ended("incomplete") ELSE Last(seen)

\* kv_reply_check: how a reply ended, seen being what it says.
ReplyCheck(reply, seen) ==
  CASE seen = <<>> \/ Last(seen).kind = "record"           -> Ended("incomplete")
    [] seen # <<>> /\ Last(seen).kind # "record"
       /\ Len(seen) = Len(reply.lines) /\ ~reply.rest      -> Last(seen)
    [] OTHER                                               -> Ended("bad")
=============================================================================
