-------------------------------- MODULE MCDom --------------------------------
EXTENDS Events, Effects, AjaxData, Draggable, Selectors, ChildIndex
CONSTANTS fn1, fn2, e1, e2

MCAsked == {<<"*">>, <<"text">>, <<"json">>, <<"xml">>, <<"script", "json">>,
            <<"text", "data">>, <<"json", "view">>, <<"*", "data">>, <<"view">>}
MCExtra == {[from |-> "json", to |-> "data", same |-> FALSE], [from |-> "json", to |-> "data", same |-> TRUE],
            [from |-> "data", to |-> "view", same |-> TRUE], [from |-> "script", to |-> "json", same |-> FALSE]}
MCRedirects == {[json |-> "script", script |-> "none"], [json |-> "script", script |-> "json"]}
Opt(n, d, r, c) == [near |-> n, delay |-> d, revert |-> r, clone |-> c]
MCDragOptions ==
    {<<Opt(FALSE, FALSE, TRUE, TRUE), Opt(FALSE, TRUE, FALSE, FALSE)>>,
     <<Opt(FALSE, FALSE, FALSE, FALSE), Opt(TRUE, FALSE, TRUE, FALSE)>>}
MCParents == {<<0, 1, 2, 2, 4>>, <<0, 1, 2, 3, 2>>, <<0, 1, 2, 3, 3>>, <<0, 1, 2, 3, 4>>, <<0, 1, 2, 0, 4>>}
MCGroups ==
    {<<Selector("", <<"a">>, <<>>)>>, <<Selector("", <<"a", "b">>, <<" ">>)>>,
     <<Selector("", <<"a", "b", "a">>, <<" ", " ">>)>>, <<Selector("", <<"b", "a", "*">>, <<"~", " ">>)>>,
     <<Selector(">", <<"a">>, <<>>)>>, <<Selector("~", <<"b", "a">>, <<">">>)>>,
     <<Selector("", <<"#", "b">>, <<" ">>)>>, <<Selector("", <<"b", ":not">>, <<" ">>)>>,
     <<Selector("", <<"a", ":not", "*">>, <<" ", " ">>)>>,
     <<Selector("", <<"a", "b">>, <<"+">>), Selector("", <<"a", "b">>, <<" ">>)>>}
MCNegated == Selector("", <<"a", "b">>, <<" ">>)
\* Children that are all there, in any order but for 1 and 3, which have one name, or few.
MCArrangements ==
    {s \in [1..4 -> 1..4] : \A i, j \in 1..4 : (s[i] = s[j] => i = j) /\ (s[i] = 1 /\ s[j] = 3 => i < j)} \cup {<<1>>, <<4, 1>>, <<3, 1, 2>>, <<2, 4, 3>>}
MCnodeName == [x \in 1..4 |-> CASE x \in {1, 3} -> "a" [] x = 2 -> "b" [] x = 4 -> "#text"]

NoPlace == CHOOSE p \in Places : TRUE
NoAnswer ==
    [types |-> <<"text">>, ct |-> NoType, converters |-> BasicConverters, failing |-> {},
     redirects |-> [json |-> "none"]]

VARIABLE part

\* One of them moves; they are parts of one library and share nothing.
Init ==
    /\ part \in {"events", "effects", "answer", "drag", "place", "selectors", "children"}
    /\ EventsInit /\ EffectsInit /\ DraggableInit
    /\ part = "drag" \/ options = CHOOSE o \in DragOptions : TRUE
    /\ IF part = "answer" THEN AnswerInit ELSE answer = NoAnswer
    /\ IF part = "selectors" THEN SelectorsInit
       ELSE parent = <<0>> /\ label = [x \in {} |-> ""] /\ SelectorsStart
    /\ IF part = "children" THEN ChildIndexInit ELSE childNodes = <<1>> /\ ChildIndexStart
    /\ IF part = "place" THEN PlaceInit ELSE place = NoPlace

Next ==
    \/ part = "events" /\ EventsNext /\ UNCHANGED <<part, fxVars, answerVars, dragVars, placeVars, selectorVars, childVars>>
    \/ part = "effects" /\ EffectsNext /\ UNCHANGED <<part, eventVars, answerVars, dragVars, placeVars, selectorVars, childVars>>
    \/ part = "drag" /\ DraggableNext /\ UNCHANGED <<part, eventVars, fxVars, answerVars, placeVars, selectorVars, childVars>>
    \/ part = "selectors" /\ SelectorsNext /\ UNCHANGED <<part, eventVars, fxVars, answerVars, dragVars, placeVars, childVars>>
    \/ part = "children" /\ ChildIndexNext /\ UNCHANGED <<part, eventVars, fxVars, answerVars, dragVars, placeVars, selectorVars>>

vars == <<part, eventVars, fxVars, answerVars, dragVars, placeVars, selectorVars, childVars>>

Spec == Init /\ [][Next]_vars /\ EffectsFairness
=============================================================================
