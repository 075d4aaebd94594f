------------------------------- MODULE MCNano -------------------------------
(***************************************************************************)
(* NanoUI: a behaviour is one of the server's, one of the page's, the text *)
(* of a template that is printed, or a call of a helper.                   *)
(***************************************************************************)
EXTENDS NanoUI, NanoPage, Template, Helpers

CONSTANTS u1, u2, tMain, tLayout, tExtra

VARIABLE part

\* CanUseTopic(): too far away, disabled, interactive.
MCAnswers == {-1, 0, 2}

Inner(k, e, cond) ==
    LET loop == For(k, "value", "item", "j", <<Show("item")>>, e)
    IN  IF cond THEN If("value", <<loop>>, <<Text("no")>>) ELSE loop
MCMarkups ==
    {<<For(k1, "data", "value", "index", <<Show("value"), Inner(k2, f2, cond), Show("value")>>, f1), Text("end")>> :
        k1, k2 \in {"for", "props"}, f1, f2 \in {<<>>, <<Text("none")>>}, cond \in BOOLEAN}
    \cup {<<For("for", "data", "value", "index", <<Show("value")>>, <<>>),
            For("for", "data", "value", "index", <<For("props", "value", "item", "key", <<Show("item")>>, <<>>)>>, <<>>)>>,
          <<For("for", "data", "value", "index", <<If("value", <<For("for", "value", "value", "index", <<Show("value")>>, <<>>)>>, <<Show("value")>>)>>, <<>>)>>}
    \cup {<<For("for", "data", "value", "index", <<If("value", <<Show("value")>>, <<ElseIf(x, <<Text("some")>>, rest)>>), Text("next")>>, <<>>)>> :
             x \in {"data", "item"}, rest \in {<<>>, <<Text("no")>>, <<ElseIf("data", <<Show("data")>>, <<Text("no")>>)>>}}
Leaf(n) == [name |-> n, items |-> <<>>]
Entries == {[name |-> n, items |-> l] : n \in {"a", "b"}, l \in {<<>>, <<Leaf("x")>>, <<Leaf("x"), Leaf("y")>>}}
MCDatas == {[name |-> "data", items |-> l] : l \in {<<>>} \cup {<<e>> : e \in Entries} \cup {<<e, f>> : e, f \in Entries}}
MCAmounts == -3..4

Init ==
    /\ part \in {"ui", "page", "template", "helper"}
    /\ UiInit /\ PageInit
    /\ IF part = "template" THEN TemplateInit
       ELSE markup = <<>> /\ page = Undefined /\ TemplateStart
    /\ IF part = "helper" THEN HelpersInit ELSE call = NoCall

vars == <<part, uiVars, pageVars, doTVars, helperVars>>

\* A template that is printed and a helper that was called are done.
Done == part \in {"template", "helper"} /\ UNCHANGED vars

Next == \/ part = "ui" /\ UiNext /\ UNCHANGED <<part, pageVars, doTVars, helperVars>>
        \/ part = "page" /\ PageNext /\ UNCHANGED <<part, uiVars, doTVars, helperVars>>
        \/ part = "template" /\ TemplateNext /\ UNCHANGED <<part, uiVars, pageVars, helperVars>>
        \/ Done
Spec == Init /\ [][Next]_vars /\ UiFairness /\ PageFairness

\* What the pages print: their templates, and what these call.
PagesPrint == PrintsAsWritten /\ HelpersFit
=============================================================================
