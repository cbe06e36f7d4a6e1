-------------------------------- MODULE Json --------------------------------
(***************************************************************************)
(* statusd's JSON writer (src/interface/json.c): a bounded buffer, a stack *)
(* of open containers and an error that sticks.  A caller may make any     *)
(* calls in any order.                                                     *)
(*                                                                         *)
(* The buffer holds units, one for each put, of as many bytes as it writes *)
(* (the terminating NUL is not one of them).  A character is its class,    *)
(* which is all that put_quoted and json_is_number look at.                *)
(***************************************************************************)
EXTENDS Integers, Sequences, SequencesExt

CONSTANTS
  MaxDepth,    \* JSON_MAX_DEPTH
  Caps,        \* the buffer sizes
  Strings,     \* what json_key and json_string are given: class sequences, or NoString
  Scalars,     \* bytes of an integer, a boolean, null or a finite double
  Numbers,     \* what json_number is given: class sequences
  MaxCalls     \* bound: calls before the writer fails

ASSUME JsonAssumption ==
  /\ MaxDepth \in Nat \ {0} /\ Caps \subseteq Nat /\ MaxCalls \in Nat
  /\ Scalars \subseteq Nat \ {0}

\* A NULL pointer.
NoString == <<"NULL">>

VARIABLES
  j,       \* json_t; stack is is_object and has_item up to depth
  calls    \* history: the calls made, up to the one that failed

vars == <<j, calls>>

Unit(text, bytes) == [text |-> text, bytes |-> bytes]
Mark(text)        == Unit(text, 1)

---------------------------------------------------------------------------
(* Helpers *)

Fail(x) == [x EXCEPT !.failed = TRUE]

\* Mutant: no room is kept for the NUL.
PutToTheEnd(x, unit) ==
  CASE x.failed                      -> x
    [] ~x.failed /\ unit.bytes > x.cap - x.len -> Fail(x)
    [] OTHER -> [x EXCEPT !.buf = Append(@, unit), !.len = @ + unit.bytes]

Put(x, unit) ==
  CASE x.failed                      -> x
    [] ~x.failed /\ unit.bytes >= x.cap - x.len -> Fail(x)
    [] OTHER -> [x EXCEPT !.buf = Append(@, unit), !.len = @ + unit.bytes]

Depth(x)    == Len(x.stack)
InObject(x) == Depth(x) > 0 /\ x.stack[Depth(x)].object

\* The comma before an item of the innermost container, and has_item.
Item(x) ==
  [(IF x.stack[Depth(x)].item THEN Put(x, Mark(",")) ELSE x) EXCEPT !.stack[Depth(x)].item = TRUE]

\* begin_value; its result is that the writer has not failed.
BeginValue(x) ==
  CASE x.failed                           -> x
    [] ~x.failed /\ Depth(x) = 0          -> IF x.done THEN Fail(x) ELSE x
    [] ~x.failed /\ InObject(x)           -> IF x.after_key THEN [x EXCEPT !.after_key = FALSE]
                                                            ELSE Fail(x)
    [] OTHER                              -> Item(x)

EndValue(x) == [x EXCEPT !.done = @ \/ Depth(x) = 0]

PutScalar(x, unit) ==
  LET y == BeginValue(x) IN IF y.failed THEN y ELSE EndValue(Put(y, unit))

\* One character of a string as it is written: as it is, \n and its like, or \u00xx.
Escaped(c) ==
  CASE c = "plain"   -> Mark(c)
    [] c = "short"   -> Unit(c, 2)
    [] c = "control" -> Unit(c, 6)

PutChar(x, c) == IF c = "high" THEN Fail(x) ELSE Put(x, Escaped(c))

PutQuoted(x, s) ==
  IF s = NoString THEN Fail(x) ELSE Put(FoldLeft(PutChar, Put(x, Mark("quote")), s), Mark("quote"))

---------------------------------------------------------------------------
(* json_is_number *)

\* The class at p; past the end it is the NUL.
ClassAt(t, p) == IF p <= Len(t) THEN t[p] ELSE "end"

IsDigit(t, p) == ClassAt(t, p) \in {"zero", "digit"}

\* Where the digits from p on end.
PastDigits(t, p) == CHOOSE q \in p .. Len(t) + 1 :
                      ~IsDigit(t, q) /\ \A k \in p .. q - 1 : IsDigit(t, k)

Past(t, p, classes) == IF ClassAt(t, p) \in classes THEN p + 1 ELSE p

IntegerPart(t, p) ==
  CASE ClassAt(t, p) = "zero"  -> p + 1
    [] ClassAt(t, p) = "digit" -> PastDigits(t, p)
    [] OTHER                   -> 0

DigitsPart(t, p) == IF IsDigit(t, p) THEN PastDigits(t, p) ELSE 0

FractionPart(t, p) == IF ClassAt(t, p) = "dot" THEN DigitsPart(t, p + 1) ELSE p

ExponentPart(t, p) ==
  IF ClassAt(t, p) = "e" THEN DigitsPart(t, Past(t, p + 1, {"plus", "minus"})) ELSE p

IsNumber(t) ==
  LET i == IntegerPart(t, Past(t, 1, {"minus"}))
      f == FractionPart(t, i)
      e == ExponentPart(t, f)
  IN  i # 0 /\ f # 0 /\ e = Len(t) + 1

---------------------------------------------------------------------------
(* The calls *)

Call(op, arg) == [op |-> op, arg |-> arg]

BeginContainer(x, object) ==
  LET y == BeginValue(x)
  IN  CASE y.failed -> y
        [] ~y.failed /\ Depth(y) >= MaxDepth -> Fail(y)
        [] OTHER -> Put([y EXCEPT !.stack = Append(@, [object |-> object, item |-> FALSE])],
                        Mark(IF object THEN "{" ELSE "["))

\* Mutant: a container may end after a key without its value.
EndContainerAfterKey(x, object) ==
  CASE x.failed -> x
    [] ~x.failed /\ (Depth(x) = 0 \/ InObject(x) # object) -> Fail(x)
    [] OTHER -> EndValue(Put([x EXCEPT !.stack = Front(@), !.after_key = FALSE],
                             Mark(IF object THEN "}" ELSE "]")))

EndContainer(x, object) ==
  CASE x.failed -> x
    [] ~x.failed /\ (Depth(x) = 0 \/ InObject(x) # object \/ x.after_key) -> Fail(x)
    [] OTHER -> EndValue(Put([x EXCEPT !.stack = Front(@)], Mark(IF object THEN "}" ELSE "]")))

Key(x, s) ==
  CASE x.failed -> x
    [] ~x.failed /\ (s = NoString \/ ~InObject(x) \/ x.after_key) -> Fail(x)
    [] OTHER -> [Put(PutQuoted(Item(x), s), Mark(":")) EXCEPT !.after_key = TRUE]

String(x, s) ==
  LET y == BeginValue(x) IN IF y.failed THEN y ELSE EndValue(PutQuoted(y, s))

Scalar(x, n) == PutScalar(x, Unit("scalar", n))

\* json_double refuses an infinity or a NaN.
NotFinite(x) == Fail(x)

Number(x, t) == IF IsNumber(t) THEN PutScalar(x, Unit("scalar", Len(t))) ELSE Fail(x)

Finish(x) == IF x.failed \/ Depth(x) # 0 \/ ~x.done THEN -1 ELSE x.len

---------------------------------------------------------------------------

Started(cap) ==
  [cap |-> cap, len |-> 0, buf |-> <<>>, failed |-> cap = 0, done |-> FALSE,
   stack |-> <<>>, after_key |-> FALSE]

Init == (\E cap \in Caps : j = Started(cap)) /\ calls = <<>>

\* One call: what it makes of the writer, and that it was made.
Made(call, x) ==
  /\ Len(calls) < MaxCalls
  /\ j' = x
  /\ calls' = IF j.failed THEN calls ELSE Append(calls, call)

CallContainer ==
  \E object \in BOOLEAN :
    \/ Made(Call("begin", object), BeginContainer(j, object))
    \/ Made(Call("end", object), EndContainer(j, object))

CallString ==
  \E s \in Strings :
    \/ Made(Call("key", s), Key(j, s))
    \/ Made(Call("string", s), String(j, s))

CallScalar ==
  \/ \E n \in Scalars : Made(Call("scalar", n), Scalar(j, n))
  \/ \E t \in Numbers : Made(Call("number", t), Number(j, t))
  \/ Made(Call("infinite", 0), NotFinite(j))

Next == CallContainer \/ CallString \/ CallScalar

Spec == Init /\ [][Next]_vars
=============================================================================
