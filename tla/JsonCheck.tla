----------------------------- MODULE JsonCheck ------------------------------
(***************************************************************************)
(* The JSON writer against what its header promises: which calls are in    *)
(* order, what they should write, and the grammar of what is written, each *)
(* defined without the writer's state.                                     *)
(***************************************************************************)
EXTENDS Json, FiniteSets, FiniteSetsExt

---------------------------------------------------------------------------
(* The grammar of numbers: a sign, an integer, a fraction and an exponent *)

Digits == {"zero", "digit"}

SomeDigits(t) == t # <<>> /\ Range(t) \subseteq Digits

IsExponent(t) ==
  \/ SomeDigits(t)
  \/ Len(t) > 1 /\ t[1] \in {"plus", "minus"} /\ SomeDigits(Tail(t))

InGrammar(t) ==
  \E a, b, c \in 0 .. Len(t) :
    LET sign == SubSeq(t, 1, a)      int == SubSeq(t, a + 1, b)
        frac == SubSeq(t, b + 1, c)  exp == SubSeq(t, c + 1, Len(t))
    IN  /\ a <= b /\ b <= c
        /\ sign \in {<<>>, <<"minus">>}
        /\ int = <<"zero">> \/ (SomeDigits(int) /\ int[1] = "digit")
        /\ frac # <<>> => frac[1] = "dot" /\ SomeDigits(Tail(frac))
        /\ exp # <<>> => exp[1] = "e" /\ IsExponent(Tail(exp))

---------------------------------------------------------------------------
(* Which calls are in order *)

IsBegin(i) == calls[i].op = "begin"
IsEnd(i)   == calls[i].op = "end"
IsKey(i)   == calls[i].op = "key"
IsValue(i) == ~IsEnd(i) /\ ~IsKey(i)

\* Containers open before call i.
OpenBefore(i) == Cardinality({k \in 1 .. i - 1 : IsBegin(k)})
                 - Cardinality({k \in 1 .. i - 1 : IsEnd(k)})

\* The innermost container that is open at call i, 0 if there is none.
Around(i) == Max({0} \cup {k \in 1 .. i - 1 : IsBegin(k) /\ OpenBefore(k) = OpenBefore(i) - 1})

InObjectAt(i) == Around(i) # 0 /\ calls[Around(i)].arg
AfterKey(i)   == i > 1 /\ IsKey(i - 1)

GoodArgument(c) ==
  CASE c.op \in {"key", "string"} -> c.arg # NoString /\ "high" \notin Range(c.arg)
    [] c.op = "number"            -> InGrammar(c.arg)
    [] c.op = "infinite"          -> FALSE
    [] OTHER                      -> TRUE

InOrder(i) ==
  /\ AfterKey(i) => IsValue(i)
  /\ IsValue(i) => IF Around(i) = 0 THEN i = 1 ELSE InObjectAt(i) = AfterKey(i)
  /\ IsKey(i) => InObjectAt(i)
  /\ IsEnd(i) => Around(i) # 0 /\ calls[Around(i)].arg = calls[i].arg
  /\ IsBegin(i) => OpenBefore(i) < MaxDepth

---------------------------------------------------------------------------
(* What they should write *)

Quoted(s) == <<Mark("quote")>> \o [k \in DOMAIN s |-> Escaped(s[k])] \o <<Mark("quote")>>

\* An item that is not the first of its container, and not the value of a key.
WantsComma(i) == ~IsEnd(i) /\ Around(i) \notin {0, i - 1} /\ ~AfterKey(i)

TextOf(c) ==
  CASE c.op = "begin"  -> <<Mark(IF c.arg THEN "{" ELSE "[")>>
    [] c.op = "end"    -> <<Mark(IF c.arg THEN "}" ELSE "]")>>
    [] c.op = "key"    -> Append(Quoted(c.arg), Mark(":"))
    [] c.op = "string" -> Quoted(c.arg)
    [] c.op = "scalar" -> <<Unit("scalar", c.arg)>>
    [] c.op = "number" -> <<Unit("scalar", Len(c.arg))>>

Document == FlattenSeq([i \in DOMAIN calls |->
              (IF WantsComma(i) THEN <<Mark(",")>> ELSE <<>>) \o TextOf(calls[i])])

Bytes(text) == FoldLeft(LAMBDA n, unit : n + unit.bytes, 0, text)

\* The properties of functions are evaluated in one state.
Once == calls = <<>> /\ j.cap = Max(Caps)

\* Every call was in order and its text fits, with the NUL.
AllGood ==
  /\ \A i \in DOMAIN calls : GoodArgument(calls[i]) /\ InOrder(i)
  /\ Bytes(Document) < j.cap

---------------------------------------------------------------------------
(* The grammar of a document *)

RECURSIVE IsJson(_), AreItems(_, _)

IsQuoted(t) ==
  /\ Len(t) >= 2 /\ t[1] = "quote" /\ t[Len(t)] = "quote"
  /\ \A k \in 2 .. Len(t) - 1 : t[k] \in {"plain", "short", "control"}

\* A member of an object, or an element of an array.
IsItem(t, object) ==
  IF object
  THEN \E k \in DOMAIN t : t[k] = ":" /\ IsQuoted(SubSeq(t, 1, k - 1)) /\ IsJson(SubSeq(t, k + 1, Len(t)))
  ELSE IsJson(t)

AreItems(t, object) ==
  \/ IsItem(t, object)
  \/ \E k \in DOMAIN t : /\ t[k] = ","
                         /\ IsItem(SubSeq(t, 1, k - 1), object)
                         /\ AreItems(SubSeq(t, k + 1, Len(t)), object)

IsJson(t) ==
  \/ t = <<"scalar">>
  \/ IsQuoted(t)
  \/ /\ Len(t) >= 2
     /\ \E object \in BOOLEAN :
          /\ t[1] = (IF object THEN "{" ELSE "[") /\ t[Len(t)] = (IF object THEN "}" ELSE "]")
          /\ Len(t) = 2 \/ AreItems(SubSeq(t, 2, Len(t) - 1), object)

---------------------------------------------------------------------------
(* Properties *)

\* "a call that runs out of room or is out of order marks the writer failed, every later
\* call does nothing": the writer fails exactly when some call was out of order, had an
\* argument it must refuse or did not fit, and until then holds what was asked for.
WriterIsExact ==
  IF AllGood THEN ~j.failed /\ j.buf = Document /\ j.len = Bytes(Document) ELSE j.failed

\* json_finish "returns the document's length, or -1 if the writer failed or the document
\* is not exactly one complete value": no partial document is ever sent, and no complete
\* one is refused.
FinishedIsJson ==
  (Finish(j) # -1) = (~j.failed /\ IsJson([k \in DOMAIN j.buf |-> j.buf[k].text]))
=============================================================================
