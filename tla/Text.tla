-------------------------------- MODULE Text --------------------------------
(***************************************************************************)
(* Texts of statusd as sequences of units, with the searches its parsers   *)
(* are written with.  A unit is a class of characters ("digit", "sp",      *)
(* "quote"), a word that some code compares with ("GET", "pid", "null") or *)
(* an escape of a URL ("esc_dot"); every limit counts units.               *)
(***************************************************************************)
EXTENDS Integers, Sequences, SequencesExt

\* Bytes outside printable ASCII: CR and LF have a meaning of their own.
Unprintable == {"ctl", "tab", "cr", "lf", "high"}

\* memchr: where the first u is, past the end if there is none.
First(t, u) ==
  LET k == SelectInSeq(t, LAMBDA x : x = u) IN IF k = 0 THEN Len(t) + 1 ELSE k

Before(t, k) == SubSeq(t, 1, k - 1)
After(t, k)  == SubSeq(t, k + 1, Len(t))

\* One more unit of the last piece.
Longer(pieces, u) == [pieces EXCEPT ![Len(pieces)] = Append(@, u)]

\* The pieces between one separator and the next.
Split(t, sep) ==
  FoldLeft(LAMBDA pieces, u : IF u = sep THEN Append(pieces, <<>>) ELSE Longer(pieces, u),
           <<<<>>>>, t)
=============================================================================
