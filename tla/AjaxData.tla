------------------------------- MODULE AjaxData -------------------------------
(***************************************************************************)
(* What becomes of an answer (ajaxHandleResponses() and ajaxConvert() of   *)
(* nano/js/libraries/jquery.js): which of the types it has is used, and    *)
(* the converters it goes through to the type that was asked for; and the  *)
(* order in which the prefilters of types are asked.  A value is the     *)
(* types it counts as; a converter that got another is remembered.         *)
(***************************************************************************)
EXTENDS Sequences, FiniteSets, Naturals

CONSTANTS
    AskedTypes,          \* dataType options, as lists
    ExtraConverters,     \* converters the program or a prefilter may add
    Redirects            \* prefilters by type: the type each returns, or none

VARIABLE answer          \* an answer and its request
answerVars == <<answer>>

\* From, to, and whether it is an equivalence (true).
BasicConverters ==
    {[from |-> "*", to |-> "text", same |-> FALSE], [from |-> "text", to |-> "html", same |-> TRUE],
     [from |-> "text", to |-> "json", same |-> FALSE], [from |-> "text", to |-> "xml", same |-> FALSE],
     [from |-> "text", to |-> "script", same |-> FALSE]}
contents == {"xml", "html", "json", "script"}
NoType == "none"

\* What the header says of the content; it is looked at when the type asked for is open.
withContentType(types, ct) ==
    IF types # <<>> /\ Head(types) = "*"
    THEN IF ct \in contents THEN <<ct>> \o Tail(types) ELSE Tail(types)
    ELSE types

\* The types an answer, which is a text, goes through.
handled(types, ct, converters) ==
    LET asked == withContentType(types, ct)
    IN  IF asked # <<>> /\ Head(asked) = "text" THEN asked ELSE <<"text">> \o asked

direct(converters, from, to) == {c \in converters : c.to = to /\ c.from = from}
converterTo(converters, from, to) ==
    IF direct(converters, from, to) # {} THEN direct(converters, from, to) ELSE direct(converters, "*", to)

\* Converters whose result is wanted, with those that make what they take.
pairs(converters, from, to) ==
    {p \in converters \X converters :
       /\ p[2].to = to
       /\ p[1] \in converterTo(converters, from, p[2].from)}

Converted(v) == [state |-> "success", kinds |-> v.kinds, mis |-> v.mis]
Failed == [state |-> "parsererror", kinds |-> {}, mis |-> FALSE]

\* A value counts as some types; an equivalence makes it count as another.
apply(v, c) ==
    [kinds |-> IF c.same THEN v.kinds \cup {c.to} ELSE {c.to},
     mis |-> v.mis \/ c.from \notin v.kinds \cup {"*"}]
applied(v, cs) == IF Len(cs) = 1 THEN apply(v, cs[1]) ELSE apply(apply(v, cs[1]), cs[2])

\* Bug: the type between is left out.
stepsDirect(converters, prev, current) ==
    LET one == converterTo(converters, prev, current)
    IN  IF one # {} THEN {[through |-> <<c>>, types |-> <<current>>] : c \in one}
        ELSE {[through |-> <<p[1]>>, types |-> <<current>>] : p \in pairs(converters, prev, current)}

\* The converters that may be taken from prev to current, with the types they lead to: an
\* equivalence in a pair is passed at once, else the type between comes first.
steps(converters, prev, current) ==
    LET one == converterTo(converters, prev, current)
    IN  IF one # {} THEN {[through |-> <<c>>, types |-> <<current>>] : c \in one}
        ELSE {IF p[1].same \/ p[2].same THEN [through |-> p, types |-> <<current>>]
              ELSE [through |-> <<p[1]>>, types |-> <<p[2].from, current>>] :
              p \in pairs(converters, prev, current)}

\* The results that ajaxConvert() may come to.
RECURSIVE convert(_, _, _, _, _)
convert(converters, failing, prev, rest, v) ==
    IF rest = <<>> THEN {Converted(v)}
    ELSE LET current == Head(rest)
         IN  IF current \in {"*", prev} THEN convert(converters, failing, prev, Tail(rest), v)
             ELSE IF steps(converters, prev, current) = {} THEN {Failed}
             ELSE UNION {IF \E i \in DOMAIN s.through : s.through[i] \in failing THEN {Failed}
                         ELSE convert(converters, failing, Head(s.types), Tail(s.types) \o Tail(rest),
                                      applied(v, s.through)) :
                         s \in steps(converters, prev, current)}

Results(x) ==
    LET types == handled(x.types, x.ct, x.converters)
    IN  convert(x.converters, x.failing, Head(types), Tail(types), [kinds |-> {"text"}, mis |-> FALSE])
----------------------------------------------------------------------------
open(type, asked) == IF \E i \in DOMAIN asked : asked[i] = type THEN <<>> ELSE <<type>>

\* The types whose prefilters are asked: the one asked for, those its prefilters return,
\* and the ones for any type.
RECURSIVE inspect(_, _, _)
inspect(redirects, type, asked) ==
    LET now == Append(asked, type)
        to  == IF type \in DOMAIN redirects THEN redirects[type] ELSE NoType
    IN  IF to = NoType \/ open(to, now) = <<>> THEN now ELSE inspect(redirects, to, now)

inspectPrefilters(redirects, type) ==
    LET asked == inspect(redirects, type, <<>>)
    IN  IF open("*", asked) = <<>> THEN asked ELSE inspect(redirects, "*", asked)

AnswerInit ==
    \E types \in AskedTypes, ct \in contents \cup {NoType}, redirects \in Redirects,
       extra \in {x \in SUBSET ExtraConverters :
                  \A c, d \in x : c.from = d.from /\ c.to = d.to => c = d} :
    \E failing \in {{}} \cup {{c} : c \in {d \in BasicConverters \cup extra : ~d.same}} :
      answer = [types |-> types, ct |-> ct, converters |-> BasicConverters \cup extra,
                failing |-> failing, redirects |-> redirects]
----------------------------------------------------------------------------
(* Properties *)

\* No converter gets a value of another type than it takes, through pairs and equivalences;
\* what comes out is what was asked for, or told by the header (ajaxConvert()).
ConvertsInTurn ==
    \A r \in Results(answer) : r.state = "success" =>
      LET types == handled(answer.types, answer.ct, answer.converters)
      IN  /\ ~r.mis
          /\ LET asked == SelectSeq(types, LAMBDA t : t # "*") IN asked[Len(asked)] \in r.kinds

\* A conversion that one or two converters can make is made, when they do not fail.
FindsTheWay ==
    LET types == handled(answer.types, answer.ct, answer.converters)
        way(x, y) == \/ x = y \/ converterTo(answer.converters, x, y) # {}
                     \/ \E z \in contents \cup {"text"} \cup {c.to : c \in answer.converters} :
                          /\ converterTo(answer.converters, x, z) # {}
                          /\ direct(answer.converters, z, y) # {}
    IN  answer.failing = {} /\ (\A i \in 1..(Len(types) - 1) : way(types[i], types[i + 1]))
        => \A r \in Results(answer) : r.state = "success"

\* The prefilters for any type are always asked, and none twice: a round of prefilters that
\* name each other ends (inspectPrefiltersOrTransports()).
AskedOnce ==
    LET asked == inspectPrefilters(answer.redirects, Head(answer.types))
    IN  /\ \E i \in DOMAIN asked : asked[i] = "*"
        /\ \A i, j \in DOMAIN asked : asked[i] = asked[j] => i = j

\* An answer is converted when it can be, by fitting steps, after each prefilter was asked
\* once.
AnswersConvert == ConvertsInTurn /\ FindsTheWay /\ AskedOnce
=============================================================================
