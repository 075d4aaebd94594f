------------------------------- MODULE MCChat -------------------------------
EXTENDS ChatOutput, ChatList, ChatMenu, ChatMedia, ChatSettings, TLC
CONSTANTS hello, helloRed, bye, i1, i2, i3, none, red, pic

VARIABLE part

MCtextOf == (hello :> "hello") @@ (helloRed :> "hello") @@ (bye :> "bye") @@ (Notice :> "gone")

\* One part of the page moves at a time: they share nothing but the thread.
Init ==
    /\ ChatInit /\ ListInit /\ MenuInit /\ MediaInit /\ SettingsInit
    /\ part \in {"output", "list", "menu", "media", "settings"}
    /\ part # "list" => messageCombining
    /\ part # "menu" => pingDisabled
    /\ part # "media" => \A i \in Images : loads[i] = 0
    /\ part # "settings" => cookie = [messagecombining |-> "", darkmode |-> "",
                                     musicVolume |-> Unset, highlightterms |-> Unset]
Next ==
    \/ part = "output" /\ ChatNext
       /\ UNCHANGED <<part, pageListVars, menuVars, mediaVars, settingsVars>>
    \/ part = "list" /\ ListNext
       /\ UNCHANGED <<part, chatVars, menuVars, mediaVars, settingsVars>>
    \/ part = "menu" /\ MenuNext
       /\ UNCHANGED <<part, chatVars, pageListVars, mediaVars, settingsVars>>
    \/ part = "media" /\ MediaNext
       /\ UNCHANGED <<part, chatVars, pageListVars, menuVars, settingsVars>>
    \/ part = "settings" /\ SettingsNext
       /\ UNCHANGED <<part, chatVars, pageListVars, menuVars, mediaVars>>

vars == <<part, chatVars, pageListVars, menuVars, mediaVars, settingsVars>>
\* In a part that does not move nothing that is fair is enabled.
Spec ==
    /\ Init /\ [][Next]_vars
    /\ ChatFairness /\ MenuFairness /\ MediaFairness /\ SettingsFairness

\* Menus, slides, songs and pictures come to rest: what was opened is closed, what was
\* started ends and no timer ticks for what is gone (ChatMenu, ChatMedia).
WidgetsRest == MenusClose /\ MediaEnds
=============================================================================
