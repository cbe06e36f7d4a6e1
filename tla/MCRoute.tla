------------------------------ MODULE MCRoute -------------------------------
(* The JSON writer, the texts and the routes of statusd for model checking. *)
EXTENDS RouteCheck

MCStrings == {NoString, <<>>, <<"plain">>, <<"control", "short">>, <<"high">>}
MCNumbers == {<<"minus", "digit", "zero">>, <<"zero", "zero">>}

\* Sequences of at most n of the units.
UpTo(n, units) == UNION {[1 .. k -> units] : k \in 0 .. n}

Prefixed(prefix, texts) == {prefix \o t : t \in texts}

NumberUnits == {"minus", "plus", "zero", "digit", "dot", "e", "letter"}

MCTexts ==
  UpTo(3, {"ok", "err", "null", "letter", "digit", "eq", "quote", "sp", "bslash", "upper", "ctl"})
  \cup Prefixed(<<"letter", "sp">>, UpTo(5, {"letter", "eq", "quote", "sp", "bslash", "null"}))
  \cup Prefixed(<<"letter", "sp", "letter", "eq">>, UpTo(5, NumberUnits))
  \cup Prefixed(<<"letter", "sp", "e", "eq", "digit", "sp">>, UpTo(4, {"letter", "e", "eq", "quote", "sp"}))
  \cup Prefixed(<<"err", "sp">>, UpTo(4, {"letter", "sp", "eq", "ctl"}))

MCKeys == {<<>>, <<"letter">>, <<"e">>, <<"upper">>}
MCVals == {<<>>, <<"null">>, <<"digit">>, <<"letter", "sp">>, <<"eq">>, <<"quote">>, <<"bslash">>, <<"high">>}

\* Keys of 1 to n letters, as many as fields.
ManyFields(n) == [i \in 1 .. n |-> Field([k \in 1 .. i |-> "letter"], "num", <<"digit">>)]

Times(n, u) == [i \in 1 .. n |-> u]

MCMeant ==
  {Ended("ok")}
  \cup {Refusal(c, r) : c \in MCKeys, r \in MCVals \cup {Times(n, "letter") : n \in 4 .. 6}}
  \cup {Record(t, <<>>) : t \in MCKeys \cup {<<"ok">>, <<"err">>, <<"ok", "letter">>}}
  \cup {Record(<<"letter">>, <<Field(k, t, v)>>) :
          k \in MCKeys, t \in {"str", "num", "null"}, v \in MCVals \cup {Times(n, "digit") : n \in 4 .. 6}}
  \cup {Record(<<"letter">>, <<Field(k, "str", v), Field(<<"e">>, "num", w)>>) :
          k \in MCKeys, v \in MCVals, w \in MCVals}
  \cup {Record(Times(n, "letter"), <<>>) : n \in 10 .. 13}
  \cup {Record(<<"letter">>, ManyFields(n)) : n \in 5 .. 11}

---------------------------------------------------------------------------

Request(method, target, version, rest) ==
  method \o <<"sp">> \o target \o <<"sp">> \o version \o <<"cr", "lf">> \o rest

End == <<"cr", "lf">>

MCBuffers ==
  {Request(<<"GET">>, <<"slash">> \o t, <<"HTTP">>, End) :
     t \in UpTo(5, {"slash", "dot", "esc_dot", "esc_slash", "letter"})
          \cup UpTo(2, {"qmark", "letter", "esc_bad", "esc_nul", "esc_bslash", "bslash", "tab", "high", "lf"})
          \cup {<<"qmark">> \o Times(n, "letter") : n \in 4 .. 7} \cup {Times(n, "letter") : n \in 6 .. 8}}
  \cup {Request(m, t, v, head \o End \o rest) :
          m \in {<<"GET">>, <<"letter">>, <<>>}, t \in {<<>>, <<"slash">>, <<"letter">>},
          v \in {<<"HTTP">>, <<>>, <<"HTTP", "cr">>},
          head \in {<<>>, <<"letter", "cr", "lf">>, <<"ctl", "cr", "lf">>}
                    \cup {Times(n, "high") \o <<"cr", "lf">> : n \in 3 .. 6},
          rest \in {<<>>, <<"ctl">>, <<"letter", "cr", "lf", "cr", "lf">>}}
  \cup UpTo(4, {"cr", "lf", "GET"}) \cup {Times(n, "letter") \o <<"cr", "lf", "cr", "lf">> : n \in 9 .. 14}

---------------------------------------------------------------------------

Target(path, query) == [path |-> path, query |-> query]

Query(key, val) == <<key, "eq">> \o val

MCTargets ==
  {Target(p, q) : p \in {<<"slash">>, <<"slash", "letter">>, Api \o <<"letter">>, Api \o <<"status">>,
                         Api \o <<"verdicts">>, Api \o <<"faults">>},
                  q \in {<<>>, <<"letter">>}}
  \cup {Target(Api \o <<"series">>, q) :
          q \in {<<>>, Query("pid", <<"probe">>), Query("pid", <<"letter">>), Query("letter", <<"letter">>),
                 Query("to", <<"digit", "zero", "zero">>) \o <<"amp">> \o Query("pid", <<"zero", "upper">>),
                 Query("to", <<"zero">>) \o <<"amp">> \o Query("pid", <<"zero", "upper">>),
                 Query("pid", <<"probe">>) \o <<"amp">> \o Query("from", <<"zero", "zero">>),
                 Query("from", <<"esc_quote">>), Query("pid", <<"probe">>) \o <<"amp">>}}

MCLines ==
  {<<"letter">>, <<"letter", "sp", "tag", "eq", "digit">>, <<"letter", "sp", "e", "eq", "null", "cr">>,
   <<"letter", "sp", "e", "eq", "quote", "letter", "sp", "quote", "sp", "letter", "eq", "zero">>,
   <<"ok">>, <<"ok", "cr">>, <<"err", "sp", "usage">>, <<"err", "sp", "unavailable", "sp", "letter">>, <<>>}

MCReplies ==
  {Reply(lines, rest, TRUE) : lines \in UpTo(2, MCLines), rest \in BOOLEAN}
  \cup {Reply(<<a, b, <<"ok">>>>, FALSE, TRUE) : a \in MCLines, b \in MCLines}
  \cup {Reply(<<<<"ok">>>>, FALSE, FALSE)}

KeyVal(key, val) == [key |-> key, val |-> val]

MCQueries ==
  UpTo(1, {KeyVal(k, v) : k \in {<<"pid">>, <<"from">>, <<"to">>, <<"letter">>, <<>>},
                         v \in UpTo(3, {"zero", "digit", "upper", "esc_quote", "esc_sp", "plus", "esc_plus", "esc_bad"})
                               \cup {Times(n, "digit") : n \in 4 .. 6}
                               \cup UpTo(2, {"sp", "eq", "minus", "m", "esc_nul", "comma"})})
  \cup UpTo(3, {KeyVal(k, v) : k \in {<<"pid">>, <<"from">>, <<"to">>},
                              v \in {<<"digit">>, <<"zero", "zero">>, <<"now">>, <<"esc_sp">>}})

MCWindows ==
  {w \in [from : 0 .. 14, to : 0 .. 44] : w.from < w.to}
  \cup {w \in [from : 0 .. 4, to : 355 .. 364] : w.to - w.from <= MaxWindow}
=============================================================================
