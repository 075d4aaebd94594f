------------------------------ MODULE ChatList ------------------------------
(***************************************************************************)
(* What the chat page does with a message it is given: the list with its   *)
(* limit and its combining of equal messages, the notice that the          *)
(* connection is gone, and the player's buttons (browserOutput.js).        *)
(* ChatOutput has how messages get here.                                   *)
(***************************************************************************)
EXTENDS Naturals, Sequences, SequencesExt

CONSTANTS
    Messages,            \* what output() is given
    Notice,              \* "You are either AFK, experiencing lag or..."
    textOf,              \* the text of each: markup may be all that differs
    NoText,              \* the text of a message that is only a picture
    messageLimit,
    MaxTold              \* bound: messages shown since the list was empty

ASSUME ListAssumption ==
    /\ Notice \notin Messages
    /\ DOMAIN textOf = Messages \cup {Notice} /\ textOf[Notice] # NoText
    /\ messageLimit \in Nat \ {0, 1}
    /\ MaxTold \in Nat

VARIABLES
    entries, messageCount, last_message, messageCombining,
    silent,              \* lastPang is longer ago than pangLimit
    noResponse,
    scrolled,            \* the player reads above the end
    newMessages,         \* what the box of new messages counts, 0: there is none
    told                 \* history: what the page was to show since it is empty

scrollVars == <<scrolled, newMessages>>
listVars == <<entries, messageCount, last_message, told, scrollVars>>
watchVars == <<silent, noResponse>>
pageListVars == <<listVars, messageCombining, watchVars>>

\* notice: of a message that is a notice, whether it still says so.
Entry == [msg: Messages \cup {Notice}, badge: Nat \ {0}, notice: BOOLEAN]

ListTypeOK ==
    /\ entries \in Seq(Entry) /\ messageCount \in Nat
    /\ messageCombining \in BOOLEAN
    /\ scrolled \in BOOLEAN /\ newMessages \in Nat
    /\ silent \in BOOLEAN /\ noResponse \in BOOLEAN

ListInit ==
    /\ entries = <<>> /\ messageCount = 0 /\ last_message = NoText /\ told = <<>>
    /\ messageCombining \in BOOLEAN
    /\ scrolled = FALSE /\ newMessages = 0
    /\ silent = FALSE /\ noResponse = FALSE
----------------------------------------------------------------------------
combines(m, list) ==
    messageCombining /\ list # <<>> /\ last_message # NoText /\ last_message = textOf[m]

\* At the end of the page it stays there, else the box counts one more.
snap ==
    /\ newMessages' = IF scrolled THEN newMessages + 1 ELSE 0
    /\ UNCHANGED scrolled

\* Bug: a badge never says more than two.
outputBadge(m) ==
    LET full == messageCount + 1 >= messageLimit
        list == IF full /\ entries # <<>> THEN Tail(entries) ELSE entries
        n    == IF full THEN messageCount ELSE messageCount + 1
        i    == Len(list)
    IN  /\ IF combines(m, list)
           THEN /\ entries' = [list EXCEPT ![i] = [msg |-> m, badge |-> 2,
                                                   notice |-> m = Notice]]
                /\ messageCount' = n - 1
                /\ UNCHANGED last_message
           ELSE /\ entries' = Append(list, [msg |-> m, badge |-> 1, notice |-> m = Notice])
                /\ messageCount' = n
                /\ last_message' = textOf[m]
        /\ snap
        /\ told' = Append(told, textOf[m])

\* The oldest entry goes when the limit is reached, even if the message only adds to
\* the badge of the last one; that then has the new one's markup.
output(m) ==
    LET full == messageCount + 1 >= messageLimit
        list == IF full /\ entries # <<>> THEN Tail(entries) ELSE entries
        n    == IF full THEN messageCount ELSE messageCount + 1
        i    == Len(list)
    IN  /\ IF combines(m, list)
           THEN /\ entries' = [list EXCEPT ![i] = [msg |-> m, badge |-> @.badge + 1,
                                                   notice |-> m = Notice]]
                /\ messageCount' = n - 1
                /\ UNCHANGED last_message
           ELSE /\ entries' = Append(list, [msg |-> m, badge |-> 1, notice |-> m = Notice])
                /\ messageCount' = n
                /\ last_message' = textOf[m]
        /\ snap
        /\ told' = Append(told, textOf[m])

\* A message of the server; it is a sign of life too.
Receive ==
    /\ Len(told) < MaxTold
    /\ \E m \in Messages : output(m)
    /\ silent' = FALSE
    /\ UNCHANGED <<messageCombining, noResponse>>

clearMessages ==
    /\ entries' = <<>> /\ messageCount' = 0 /\ told' = <<>>
    /\ scrolled' = FALSE
    /\ UNCHANGED <<last_message, messageCombining, newMessages, watchVars>>

\* The player scrolls, or clicks on the box.
Scroll ==
    /\ entries # <<>>
    /\ scrolled' = ~scrolled
    /\ newMessages' \in IF scrolled THEN {0, newMessages} ELSE {newMessages}
    /\ UNCHANGED <<entries, messageCount, last_message, told, messageCombining, watchVars>>

toggleCombine ==
    /\ messageCombining' = ~messageCombining
    /\ UNCHANGED <<listVars, watchVars>>

\* A pang, a pong: whatever comes.
Pang ==
    /\ silent
    /\ silent' = FALSE
    /\ UNCHANGED <<listVars, messageCombining, noResponse>>

Silence ==
    /\ ~silent
    /\ silent' = TRUE
    /\ UNCHANGED <<listVars, messageCombining, noResponse>>

\* "Your connection has been restored" replaces the text of the notice.
restore == entries' = [i \in DOMAIN entries |-> [entries[i] EXCEPT !.notice = FALSE]]

\* The controller loop.
watch ==
    /\ silent # noResponse
    /\ noResponse' = silent
    /\ IF silent THEN Len(told) < MaxTold /\ output(Notice)
       ELSE restore /\ UNCHANGED <<messageCount, last_message, told, scrollVars>>
    /\ UNCHANGED <<messageCombining, silent>>

ListNext == Receive \/ clearMessages \/ Scroll \/ toggleCombine \/ Pang \/ Silence \/ watch
ListSpec == ListInit /\ [][ListNext]_pageListVars
----------------------------------------------------------------------------
(* Properties *)

Texts(list) ==
    FlattenSeq([i \in DOMAIN list |-> [j \in 1..list[i].badge |-> textOf[list[i].msg]]])

\* messageCount is the number of entries, which stays below the limit: clearing, combining
\* and the limit may follow each other in any order.
CountIsLength == messageCount = Len(entries) /\ Len(entries) < messageLimit

\* The page shows the end of what it was told, in order: entries with badges count for
\* what they stand for.
ShowsTail == IsSuffix(Texts(entries), told)

\* There is at most one notice that the connection is gone, and only while it is (or was
\* cleared away); it is the one that will be restored.
OneNotice ==
    LET open == {i \in DOMAIN entries : entries[i].notice}
    IN  /\ \A i, j \in open : i = j
        /\ open # {} => noResponse

\* The list is the end of what was said, no longer than its limit, with one notice at most.
ListShows == ListTypeOK /\ CountIsLength /\ ShowsTail /\ OneNotice
=============================================================================
