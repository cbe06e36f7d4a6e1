----------------------------- MODULE HttpCheck ------------------------------
(***************************************************************************)
(* What http.h promises of a request, however its bytes arrive.            *)
(***************************************************************************)
EXTENDS Http, JsonCheck

CONSTANT Buffers   \* what a client may send, good and bad

\* The server parses what it has after every read, and stops at the first verdict: the
\* answer must not depend on how the bytes were split into reads, or on what was sent
\* after the request.
VerdictIsFinal ==
  Once => \A buf \in Buffers :
    LET whole == ParseRequest(buf)
    IN  \A n \in 0 .. Len(buf) :
          LET part == ParseRequest(SubSeq(buf, 1, n))
          IN  part.verdict # "INCOMPLETE" => part = whole

\* How far below the root a path leads, after its first n segments; empty and "." ones
\* lead nowhere.
DepthAfter(segments, n) ==
  LET Count(t) == Cardinality({i \in 1 .. n : segments[i] = t})
  IN  n - Count(<<>>) - Count(<<"dot">>) - 2 * Count(<<"dot", "dot">>)

\* "Checking the decoded form is what stops %2e%2e from walking past a plain .. test":
\* no path of an accepted request leads above the root at any point, once decoded.
PathStaysInside ==
  Once => \A buf \in Buffers :
    LET r        == ParseRequest(buf)
        segments == Split(Decode(r.path, FALSE), "slash")
    IN  r.verdict = "OK" => \A n \in DOMAIN segments : DepthAfter(segments, n) >= 0
=============================================================================
