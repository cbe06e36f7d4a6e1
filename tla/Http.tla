-------------------------------- MODULE Http --------------------------------
(***************************************************************************)
(* statusd's HTTP layer (src/interface/http.c): what has been read so far  *)
(* is a whole request, part of one or one to refuse; a query is searched   *)
(* for a key.                                                              *)
(***************************************************************************)
EXTENDS Text

CONSTANTS
  MaxRequest,   \* HTTP_MAX_REQUEST
  PathMax,      \* HTTP_PATH_MAX
  QueryMax      \* HTTP_QUERY_MAX

ASSUME HttpAssumption == {MaxRequest, PathMax, QueryMax} \subseteq Nat

---------------------------------------------------------------------------
(* decode *)

\* Escapes and what they stand for; esc_bad has no two hex digits.
Escapes ==
  [esc_dot |-> "dot", esc_slash |-> "slash", esc_bslash |-> "bslash", esc_quote |-> "quote",
   esc_sp |-> "sp", esc_plus |-> "plus", esc_ctl |-> "ctl", esc_digit |-> "digit"]

Decodes(t) == Range(t) \cap {"esc_bad", "esc_nul"} = {}

\* The decoded text always fits where it goes: an escape is longer than its character.
Decode(t, plus_is_space) ==
  [i \in DOMAIN t |-> CASE t[i] \in DOMAIN Escapes         -> Escapes[t[i]]
                        [] t[i] = "plus" /\ plus_is_space  -> "sp"
                        [] OTHER                           -> t[i]]

---------------------------------------------------------------------------
(* http_parse_request *)

\* A ".." between two slashes or ends.
HasDotDot(d) ==
  \E p \in 0 .. Len(d) - 2 :
    /\ p = 0 \/ d[p] = "slash"
    /\ d[p + 1] = "dot" /\ d[p + 2] = "dot"
    /\ p + 2 = Len(d) \/ d[p + 3] = "slash"

\* Mutant: looked at before it is decoded.
PathIsUnsafeRaw(path) ==
  ~Decodes(path) \/ Range(path) \cap {"ctl", "bslash"} # {} \/ HasDotDot(path)

PathIsUnsafe(path) ==
  LET d == Decode(path, FALSE)
  IN  ~Decodes(path) \/ Range(d) \cap {"ctl", "bslash"} # {} \/ HasDotDot(d)

Result(verdict, path, query) == [verdict |-> verdict, path |-> path, query |-> query]
Answer(verdict) == Result(verdict, <<>>, <<>>)

\* Where the text t first stands in buf, past the end if nowhere.
FirstText(buf, t) ==
  LET found == {p \in 1 .. Len(buf) - Len(t) + 1 : SubSeq(buf, p, p + Len(t) - 1) = t}
  IN  IF found = {} THEN Len(buf) + 1 ELSE CHOOSE p \in found : \A q \in found : p <= q

\* The request line, without its CR LF.
ParseRequestLine(line) ==
  LET sp1    == First(line, "sp")
      rest   == After(line, sp1)
      sp2    == First(rest, "sp")
      target == Before(rest, sp2)
      ask    == First(target, "qmark")
      path   == Before(target, ask)
      query  == After(target, ask)
      good   == /\ Range(line) \cap {"cr", "lf"} = {}
                /\ sp1 <= Len(line)
  IN  CASE ~good                                            -> Answer("BAD")
        [] good /\ Before(line, sp1) # <<"GET">>            -> Answer("BAD_METHOD")
        [] /\ good /\ Before(line, sp1) = <<"GET">>
           /\ sp2 <= Len(rest) /\ After(rest, sp2) = <<"HTTP">>
           /\ target # <<>> /\ target[1] = "slash"
           /\ Range(target) \cap ({"bslash"} \cup Unprintable) = {}
           /\ Len(path) < PathMax /\ Len(query) < QueryMax
           /\ ~PathIsUnsafe(path)                           -> Result("OK", path, query)
        [] OTHER                                            -> Answer("BAD")

EndOfHead == <<"cr", "lf", "cr", "lf">>

\* Mutant: a head that ends past the cap, in a buffer that holds more, is read.
ParseRequestAnyLength(buf) ==
  LET end  == FirstText(buf, EndOfHead)
      head == SubSeq(buf, 1, end + 3)
  IN  CASE end > Len(buf) -> Answer(IF Len(buf) >= MaxRequest THEN "TOO_LARGE" ELSE "INCOMPLETE")
        [] end <= Len(buf) /\ "ctl" \in Range(head)   -> Answer("BAD")
        [] OTHER -> ParseRequestLine(Before(head, FirstText(head, <<"cr", "lf">>)))

ParseRequest(buf) ==
  LET end  == FirstText(buf, EndOfHead)
      head == SubSeq(buf, 1, end + 3)
  IN  CASE end > Len(buf) -> Answer(IF Len(buf) >= MaxRequest THEN "TOO_LARGE" ELSE "INCOMPLETE")
        [] end <= Len(buf) /\ end + 3 > MaxRequest    -> Answer("TOO_LARGE")
        [] end + 3 <= MaxRequest /\ "ctl" \in Range(head)     -> Answer("BAD")
        [] OTHER -> ParseRequestLine(Before(head, FirstText(head, <<"cr", "lf">>)))

---------------------------------------------------------------------------
(* http_write_head *)

\* The statuses with a text; a head is refused for any other.
Statuses == {200, 400, 404, 405, 431, 500, 503}

---------------------------------------------------------------------------
(* http_query_get *)

\* A pair's name, and what follows its first =.
NameOf(pair) == Before(pair, First(pair, "eq"))

Missing == <<"missing">>

\* The value of the first pair of that name, decoded.
QueryGet(query, key) ==
  LET pairs == Split(query, "amp")
      k     == SelectInSeq(pairs, LAMBDA p : NameOf(p) = key)
      val   == After(pairs[k], First(pairs[k], "eq"))
  IN  IF k > 0 /\ Decodes(val) THEN Decode(val, TRUE) ELSE Missing
=============================================================================
