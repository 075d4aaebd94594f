---------------------------- MODULE ChatSettings ----------------------------
(***************************************************************************)
(* The settings of the chat page and the cookies that keep them, the music *)
(* volume on its way to the server, and the popups in which words to       *)
(* highlight are typed (browserOutput.js).                                 *)
(***************************************************************************)
EXTENDS Naturals, Sequences

CONSTANTS
    Volumes,             \* what the slider can say
    Terms,               \* what a player may type; NoTerm is empty boxes
    NoTerm,
    Unset,               \* no cookie
    defaultMusicVolume,
    MaxPopups,           \* bound: popups at a time
    MaxSent              \* bound: volumes on their way to the server

ASSUME SettingsAssumption ==
    /\ Volumes \subseteq 0..100 /\ defaultMusicVolume \in 1..100
    /\ NoTerm \in Terms /\ Unset \notin Volumes \cup Terms
    /\ MaxPopups \in Nat /\ MaxSent \in Nat

VARIABLES
    cookie,              \* what the browser has of earlier pages; Unset is none
    settings, audio,     \* opts; the volume of the player
    volumeUpdating, volumeTimers,
    popups,              \* what is typed into each, in the order of the document
    connected, owed,     \* owed: the server has yet to send the client data
    volumeSent, adminMusicVolume

pageSettings == <<cookie, settings, audio, volumeUpdating, volumeTimers, popups>>
linkVars == <<connected, owed, volumeSent, adminMusicVolume>>
settingsVars == <<pageSettings, linkVars>>

Flags == {"", "true", "false"}
Cookies == [messagecombining: Flags, darkmode: Flags, musicVolume: Volumes \cup {Unset},
            highlightterms: Terms \cup {Unset}]

SettingsTypeOK ==
    /\ cookie \in Cookies
    /\ settings \in [messageCombining: BOOLEAN, darkmode: BOOLEAN, updatedVolume: Nat,
                     highlightTerms: Terms]
    /\ audio \in 0..100
    /\ volumeUpdating \in BOOLEAN /\ volumeTimers \in Nat
    /\ popups \in Seq(Terms)
    /\ connected \in BOOLEAN /\ owed \in BOOLEAN
    /\ volumeSent \in Seq(Nat \ {0}) /\ adminMusicVolume \in 1..100

\* LOAD SAVED CONFIG: cookies are strings, a volume of "0" is one.
savedConfig(c) ==
    [messageCombining |-> c.messagecombining # "false",
     darkmode |-> c.darkmode = "true",
     updatedVolume |-> IF c.musicVolume = Unset THEN 0 ELSE c.musicVolume,
     highlightTerms |-> IF c.highlightterms = Unset THEN NoTerm ELSE c.highlightterms]

savedAudio(c) == IF c.musicVolume = Unset THEN defaultMusicVolume ELSE c.musicVolume

\* swap() of the load writes the cookie again.
SettingsInit ==
    /\ cookie \in Cookies
    /\ settings = savedConfig(cookie) /\ audio = savedAudio(cookie)
    /\ volumeUpdating = FALSE /\ volumeTimers = 0
    /\ popups = <<>>
    /\ connected = FALSE /\ owed = FALSE
    /\ volumeSent = <<>> /\ adminMusicVolume = defaultMusicVolume
----------------------------------------------------------------------------
(* The volume *)

\* What a page sends while nobody is connected is lost; zero counts as no volume.
sent(volume, stream) ==
    IF connected /\ volume # 0 THEN Append(stream, volume) ELSE stream

sendVolumeUpdate ==
    /\ volumeUpdating' = FALSE
    /\ volumeSent' = sent(settings.updatedVolume, volumeSent)

changeVolume(v) ==
    /\ cookie' = [cookie EXCEPT !.musicVolume = v]
    /\ audio' = v
    /\ settings' = [settings EXCEPT !.updatedVolume = v]
    /\ volumeUpdating' = TRUE
    /\ volumeTimers' = IF volumeUpdating THEN volumeTimers ELSE volumeTimers + 1

MusicVolume ==
    /\ volumeTimers + Len(volumeSent) < MaxSent
    /\ \E v \in Volumes : changeVolume(v)
    /\ UNCHANGED <<popups, linkVars>>

VolumeTimer ==
    /\ volumeTimers > 0
    /\ volumeTimers' = volumeTimers - 1
    /\ sendVolumeUpdate
    /\ UNCHANGED <<cookie, settings, audio, popups, connected, owed, adminMusicVolume>>

\* setMusicVolume() of the server.
setMusicVolume ==
    /\ volumeSent # <<>>
    /\ adminMusicVolume' = Head(volumeSent)
    /\ volumeSent' = Tail(volumeSent)
    /\ UNCHANGED <<pageSettings, connected, owed>>

\* The client comes back to the page with a new datum on the server.
Reconnect ==
    /\ ~connected
    /\ connected' = TRUE /\ owed' = TRUE
    /\ adminMusicVolume' = defaultMusicVolume /\ volumeSent' = <<>>
    /\ UNCHANGED pageSettings

LosesConnection ==
    /\ connected
    /\ connected' = FALSE /\ owed' = FALSE /\ volumeSent' = <<>>
    /\ UNCHANGED <<pageSettings, adminMusicVolume>>

\* Bug: the volume is not sent again.
ClientDataOnly ==
    /\ connected /\ owed
    /\ owed' = FALSE
    /\ UNCHANGED <<pageSettings, connected, volumeSent, adminMusicVolume>>

ClientData ==
    /\ connected /\ owed
    /\ owed' = FALSE
    /\ sendVolumeUpdate
    /\ UNCHANGED <<cookie, settings, audio, volumeTimers, popups, connected, adminMusicVolume>>
----------------------------------------------------------------------------
(* The rest of the settings *)

combineSwitch ==
    /\ settings' = [settings EXCEPT !.messageCombining = ~@]
    /\ cookie' = [cookie EXCEPT !.messagecombining =
                    IF settings.messageCombining THEN "false" ELSE "true"]

swap ==
    /\ settings' = [settings EXCEPT !.darkmode = ~@]
    /\ cookie' = [cookie EXCEPT !.darkmode = IF settings.darkmode THEN "false" ELSE "true"]

Switch ==
    /\ combineSwitch \/ swap
    /\ UNCHANGED <<audio, volumeUpdating, volumeTimers, popups, linkVars>>

\* The guard against a second popup looks for a class nothing has.
highlightTerm ==
    /\ Len(popups) < MaxPopups
    /\ popups' = Append(popups, settings.highlightTerms)
    /\ UNCHANGED <<cookie, settings, audio, volumeUpdating, volumeTimers, linkVars>>

TypeTerm ==
    /\ \E i \in DOMAIN popups, t \in Terms : popups' = [popups EXCEPT ![i] = t]
    /\ UNCHANGED <<cookie, settings, audio, volumeUpdating, volumeTimers, linkVars>>

without(s, i) == SubSeq(s, 1, i - 1) \o SubSeq(s, i + 1, Len(s))

ClosePopup ==
    /\ \E i \in DOMAIN popups : popups' = without(popups, i)
    /\ UNCHANGED <<cookie, settings, audio, volumeUpdating, volumeTimers, linkVars>>

\* The boxes and the popup are found by their ids: those of the first popup.
highlightTermForm(i) ==
    /\ settings' = [settings EXCEPT !.highlightTerms = popups[1]]
    /\ cookie' = [cookie EXCEPT !.highlightterms = popups[1]]
    /\ popups' = Tail(popups)

Submit(i) ==
    /\ highlightTermForm(i)
    /\ UNCHANGED <<audio, volumeUpdating, volumeTimers, linkVars>>

\* The page is loaded again: timers and popups are gone.
SettingsReload ==
    /\ Len(volumeSent) < MaxSent
    /\ settings' = savedConfig(cookie) /\ audio' = savedAudio(cookie)
    /\ volumeUpdating' = FALSE /\ volumeTimers' = 0
    /\ popups' = <<>>
    /\ volumeSent' = sent(savedConfig(cookie).updatedVolume, volumeSent)
    /\ UNCHANGED <<cookie, connected, owed, adminMusicVolume>>

SettingsNext ==
    \/ MusicVolume \/ VolumeTimer \/ setMusicVolume
    \/ Reconnect \/ LosesConnection \/ ClientData
    \/ Switch \/ highlightTerm \/ TypeTerm \/ ClosePopup
    \/ \E i \in 1..MaxPopups : i \in DOMAIN popups /\ Submit(i)
    \/ SettingsReload
SettingsSpec == SettingsInit /\ [][SettingsNext]_settingsVars

\* Timers fire, streams are delivered, the client data comes (ChatOutput!CookieComes).
SettingsFairness ==
    WF_settingsVars(VolumeTimer) /\ WF_settingsVars(setMusicVolume) /\ WF_settingsVars(ClientData)
----------------------------------------------------------------------------
(* Properties *)

\* The settings are those a page loaded now would have: each handler has written the cookie
\* that the load reads, in the form it reads (setCookie(), LOAD SAVED CONFIG).
SettingsInCookies == settings = savedConfig(cookie) /\ audio = savedAudio(cookie)

\* The volume a player chose reaches the server of the connection, unless it is zero or
\* changed again, although one timer stands for many changes and a reconnection resets
\* the server's (sendVolumeUpdate(), musicVolume).
VolumeIsTold ==
    \A v \in Volumes \ {0} :
      (settings.updatedVolume = v /\ connected) ~>
        (adminMusicVolume = v \/ settings.updatedVolume # v \/ ~connected)

\* What a player has set is kept in the cookies, and the volume is told to the server.
SettingsKept == [](SettingsTypeOK /\ SettingsInCookies) /\ VolumeIsTold
=============================================================================
