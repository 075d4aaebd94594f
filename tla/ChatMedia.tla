----------------------------- MODULE ChatMedia -----------------------------
(***************************************************************************)
(* The music an admin plays to the chat page, with the listeners that cut  *)
(* it at its end, and the pictures of messages, which are loaded again     *)
(* when they fail (browserOutput.js).                                      *)
(***************************************************************************)
EXTENDS Naturals, FiniteSets

CONSTANTS
    Duration,            \* of a song
    Images,
    imageRetryLimit

ASSUME MediaAssumption == Duration \in Nat /\ imageRetryLimit \in Nat

VARIABLES
    playing,             \* no; loading; playing
    currentTime,
    musicStartAt, musicEndAt,   \* 0: not given
    onLoaded, onTime,    \* listeners: adminMusicLoadedData, adminMusicEndCheck
    halt,                \* history: the end that was asked for the song there is
    loads,               \* of each picture: errors its loading can still report
    errors,              \* its timers
    attempts             \* its reload_attempts, 0: none

musicVars == <<playing, currentTime, musicStartAt, musicEndAt, onLoaded, onTime, halt>>
iconVars == <<loads, errors, attempts>>
mediaVars == <<musicVars, iconVars>>

MediaTypeOK ==
    /\ playing \in {"no", "loading", "playing"} /\ currentTime \in 0..(Duration + 1)
    /\ musicStartAt \in Nat /\ musicEndAt \in Nat /\ halt \in Nat
    /\ onLoaded \in Nat /\ onTime \in Nat
    /\ loads \in [Images -> 0..2]
    /\ errors \in [Images -> Nat] /\ attempts \in [Images -> 0..(imageRetryLimit + 1)]

MediaInit ==
    /\ playing = "no" /\ currentTime = 0
    /\ musicStartAt = 0 /\ musicEndAt = 0 /\ onLoaded = 0 /\ onTime = 0 /\ halt = 0
    /\ loads \in [Images -> {0, 1}] /\ errors = [i \in Images |-> 0]
    /\ attempts = [i \in Images |-> 0]
----------------------------------------------------------------------------
\* Bug: the listener is set up for songs with a start only.
adminMusicStart(seek, stop) ==
    /\ musicStartAt' = seek
    /\ musicEndAt' = IF stop = 0 THEN musicEndAt ELSE stop
    /\ onLoaded' = IF seek # 0 THEN onLoaded + 1 ELSE onLoaded
    /\ playing' = "loading" /\ currentTime' = 0
    /\ halt' = stop

\* What the server says of a song; a stop of 0 is one that is not said, and the one of
\* the song before stays.
adminMusic(seek, stop) ==
    /\ musicStartAt' = seek
    /\ musicEndAt' = IF stop = 0 THEN musicEndAt ELSE stop
    /\ onLoaded' = IF seek # 0 \/ stop # 0 THEN onLoaded + 1 ELSE onLoaded
    /\ playing' = "loading" /\ currentTime' = 0
    /\ halt' = stop

Music ==
    /\ \E seek, stop \in 0..(Duration + 1) :
         /\ seek + stop = 0 \/ (onLoaded < 2 /\ onTime < 2)               \* bound
         /\ adminMusic(seek, stop)
    /\ UNCHANGED <<onTime, iconVars>>

\* loadeddata: each listener sets the start, and adds the check of the end.
adminMusicLoadedData ==
    /\ playing = "loading"
    /\ playing' = "playing"
    /\ currentTime' = IF onLoaded > 0 /\ musicStartAt <= Duration THEN musicStartAt
                      ELSE currentTime
    /\ onTime' = IF musicEndAt # 0 THEN onTime + onLoaded ELSE onTime
    /\ onLoaded' = 0
    /\ UNCHANGED <<musicStartAt, musicEndAt, halt, iconVars>>

\* off(event) takes away every listener that is this function.
adminMusicEndCheck ==
    IF onTime > 0 /\ musicEndAt # 0 /\ currentTime' >= musicEndAt
    THEN playing' = "no" /\ onTime' = 0
    ELSE /\ onTime' = IF musicEndAt = 0 THEN 0 ELSE onTime
         /\ UNCHANGED playing

TimeUpdate ==
    /\ playing = "playing" /\ currentTime < Duration
    /\ currentTime' = currentTime + 1
    /\ adminMusicEndCheck
    /\ UNCHANGED <<musicStartAt, musicEndAt, onLoaded, halt, iconVars>>

\* stopMusic; a song that cannot be loaded; the end of one.
MusicStops ==
    /\ playing # "no"
    /\ playing' = "no"
    /\ UNCHANGED <<currentTime, musicStartAt, musicEndAt, onLoaded, onTime, halt, iconVars>>
----------------------------------------------------------------------------
\* The loading of a picture fails, or does not.
IconError(i) ==
    /\ loads[i] > 0
    /\ \E failed \in BOOLEAN :
         IF failed
         THEN /\ errors' = [errors EXCEPT ![i] = @ + 1]
              /\ loads' = [loads EXCEPT ![i] = @ - 1]
         ELSE loads' = [loads EXCEPT ![i] = 0] /\ UNCHANGED errors
    /\ UNCHANGED <<musicVars, attempts>>

\* The source is set twice, to nothing and to itself with a mark: two loads or one.
reload(i) ==
    LET n == IF attempts[i] = 0 THEN 1 ELSE attempts[i]
    IN  IF n > imageRetryLimit THEN UNCHANGED <<loads, attempts>>
        ELSE /\ attempts' = [attempts EXCEPT ![i] = n + 1]
             /\ \E more \in 1..2 : loads' = [loads EXCEPT ![i] = more]

IconTimer(i) ==
    /\ errors[i] > 0
    /\ errors' = [errors EXCEPT ![i] = @ - 1]
    /\ reload(i)
    /\ UNCHANGED musicVars

MediaNext ==
    \/ Music \/ adminMusicLoadedData \/ TimeUpdate \/ MusicStops
    \/ \E i \in Images : IconError(i) \/ IconTimer(i)
MediaSpec == MediaInit /\ [][MediaNext]_mediaVars

\* Loads come to an end and timers fire.
MediaFairness == \A i \in Images : WF_mediaVars(IconError(i)) /\ WF_mediaVars(IconTimer(i))
----------------------------------------------------------------------------
(* Properties *)

\* A song plays no further than to the end that was asked for it, whatever listeners the
\* songs before it have left (adminMusicLoadedData(), adminMusicEndCheck()); one that
\* starts behind its end stops at the first update.
StopsAtItsEnd ==
    playing = "playing" /\ halt # 0 =>
      currentTime < halt \/ currentTime = musicStartAt

\* Retries of a picture end although every one may fail, and twice (iconError()).
IconsRest == <>[](\A i \in Images : loads[i] = 0 /\ errors[i] = 0)

\* Music and pictures end: no listener or timer is left that goes on.
MediaEnds == [](MediaTypeOK /\ StopsAtItsEnd) /\ IconsRest
=============================================================================
