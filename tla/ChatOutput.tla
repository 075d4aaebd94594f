----------------------------- MODULE ChatOutput -----------------------------
(***************************************************************************)
(* The chat of one player: /datum/chatOutput on the server, which holds    *)
(* messages back until the page reports, the two streams between them, and *)
(* the cookie with the identities the player had (code/modules/goonchat).  *)
(* The player may disconnect and come back: the server's datum is a new    *)
(* one then, the page may still be there.  What the page does with a       *)
(* message is in ChatList.                                                 *)
(***************************************************************************)
EXTENDS Naturals, Sequences

CONSTANTS
    Chats,               \* what to_chat() is given
    Identities,          \* ckey, ip and computer id of a connection
    NoOne,
    clientDataLimit,
    MaxPending           \* bound: messages on their way to the page

ASSUME ChatAssumption ==
    /\ NoOne \notin Identities
    /\ clientDataLimit \in Nat \ {0}
    /\ MaxPending \in Nat
    /\ \A c \in Chats : c \notin {"browse", "pang", "softPang", "pong", "clientData"}

VARIABLES
    client,              \* who is connected
    loaded, messageQueue, cookieSent,   \* of the client's chatOutput
    visible,             \* the chat window: showChat() was called
    toPage, toServer,
    page,                \* none; loading; ready: its script has run
    clientData,          \* what the cookie says
    pending,             \* history: messages to this client the page has not had
    early                \* history: the server took a page for ready that is loading, or
                         \* about to be loaded again

datumVars == <<loaded, messageQueue, cookieSent>>
chatVars == <<client, datumVars, visible, toPage, toServer, page, clientData, pending,
              early>>

Signals == {"browse", "pang", "softPang", "pong", "clientData"}
Contents(s) == {s[i] : i \in DOMAIN s}

ChatTypeOK ==
    /\ client \in Identities \cup {NoOne}
    /\ loaded \in BOOLEAN /\ cookieSent \in BOOLEAN /\ visible \in BOOLEAN
    /\ messageQueue \in Seq(Chats)
    /\ toPage \in Seq(Signals \cup Chats)
    /\ toServer \in Seq({"doneLoading", "ping", "analyzeClientData"})
    /\ page \in {"none", "loading", "ready"}
    /\ clientData \in Seq(Identities) /\ Len(clientData) <= clientDataLimit
    /\ early \in BOOLEAN

ChatInit ==
    /\ client = NoOne
    /\ loaded = FALSE /\ messageQueue = <<>> /\ cookieSent = FALSE
    /\ visible = FALSE
    /\ toPage = <<>> /\ toServer = <<>>
    /\ page = "none"
    /\ clientData = <<>>
    /\ pending = <<>> /\ early = FALSE
----------------------------------------------------------------------------
(* The server *)

\* showChat(), the queue, sendClientData().
reportLoaded(queue, stream) ==
    /\ loaded' = TRUE /\ visible' = TRUE
    /\ messageQueue' = <<>>
    /\ toPage' = stream \o queue \o <<"clientData">>

\* Bug: the queue is thrown away.
doneLoadingEmpty ==
    IF loaded THEN UNCHANGED <<loaded, visible, messageQueue, toPage>>
    ELSE reportLoaded(<<>>, toPage)

doneLoading ==
    IF loaded THEN UNCHANGED <<loaded, visible, messageQueue, toPage>>
    ELSE reportLoaded(messageQueue, toPage)

\* A new client, the messages of its login, and start(): a window that is still there
\* from before is taken for set up, any other one is loaded.
Connect ==
    /\ client = NoOne
    /\ \E id \in Identities, queue \in {<<>>} \cup {<<m>> : m \in Chats} :
         /\ client' = id
         /\ pending' = queue
         /\ IF visible
            THEN reportLoaded(queue, <<>>)
            ELSE /\ loaded' = FALSE /\ messageQueue' = queue /\ toPage' = <<"browse">>
                 /\ UNCHANGED visible
    /\ cookieSent' = FALSE
    /\ early' = (visible /\ page # "ready")
    /\ UNCHANGED <<toServer, page, clientData>>

\* What was on its way is lost, and the datum goes with the client.
Disconnect ==
    /\ client # NoOne
    /\ client' = NoOne
    /\ loaded' = FALSE /\ messageQueue' = <<>> /\ cookieSent' = FALSE
    /\ toPage' = <<>> /\ toServer' = <<>>
    /\ pending' = <<>> /\ early' = FALSE
    /\ UNCHANGED <<visible, page, clientData>>

to_chat(m) ==
    /\ client # NoOne
    /\ Len(pending) < MaxPending
    /\ pending' = Append(pending, m)
    /\ IF loaded THEN toPage' = Append(toPage, m) /\ UNCHANGED messageQueue
       ELSE messageQueue' = Append(messageQueue, m) /\ UNCHANGED toPage
    /\ UNCHANGED <<client, loaded, cookieSent, visible, toServer, page, clientData, early>>

\* SSping: a pang, or a softPang for a client that is away.
ping ==
    /\ client # NoOne /\ loaded
    /\ \A s \in {"pang", "softPang", "pong"} : s \notin Contents(toPage)   \* bound
    /\ "ping" \notin Contents(toServer)                                 \* bound
    /\ \E s \in {"pang", "softPang"} : toPage' = Append(toPage, s)
    /\ UNCHANGED <<client, datumVars, visible, toServer, page, clientData, pending, early>>

\* Topic() of the chatOutput.
Topic ==
    /\ toServer # <<>>
    /\ toServer' = Tail(toServer)
    /\ LET call == Head(toServer)
       IN  /\ IF call = "doneLoading" THEN doneLoading
              ELSE /\ toPage' = IF call = "ping" THEN Append(toPage, "pong") ELSE toPage
                   /\ UNCHANGED <<loaded, visible, messageQueue>>
           /\ cookieSent' = (cookieSent \/ call = "analyzeClientData")
    /\ UNCHANGED <<client, page, clientData, pending, early>>
----------------------------------------------------------------------------
(* What reaches the page *)

handleClientData ==
    /\ toServer' = Append(toServer, "analyzeClientData")
    /\ clientData' = IF client \in Contents(clientData) THEN clientData
                     ELSE Append(IF Len(clientData) >= clientDataLimit THEN Tail(clientData)
                                 ELSE clientData, client)

\* A new page, whatever there was.
browse ==
    /\ page' = "loading"
    /\ UNCHANGED <<toServer, clientData, pending>>

ehjaxCallback(m) ==
    /\ IF m = "clientData" THEN handleClientData
       ELSE /\ toServer' = IF m = "pang" THEN Append(toServer, "ping") ELSE toServer
            /\ UNCHANGED clientData
    /\ UNCHANGED <<page, pending>>

\* A call that finds no script is lost.
Deliver ==
    /\ toPage # <<>>
    /\ toPage' = Tail(toPage)
    /\ LET m == Head(toPage)
       IN  IF m = "browse" THEN browse
           ELSE IF page # "ready"
           THEN UNCHANGED <<toServer, page, clientData, pending>>
           ELSE IF m \in Chats
           THEN /\ pending' = IF pending # <<>> /\ Head(pending) = m THEN Tail(pending)
                              ELSE pending
                /\ UNCHANGED <<toServer, page, clientData>>
           ELSE ehjaxCallback(m)
    /\ UNCHANGED <<client, datumVars, visible, early>>

\* The end of the page's own set-up; what it sends needs a connection.
DomReady ==
    /\ page = "loading"
    /\ page' = "ready"
    /\ toServer' = IF client = NoOne THEN toServer ELSE Append(toServer, "doneLoading")
    /\ early' = (early \/ "browse" \in Contents(toPage))
    /\ UNCHANGED <<client, datumVars, visible, toPage, clientData, pending>>
----------------------------------------------------------------------------
Server == Connect \/ Disconnect \/ (\E m \in Chats : to_chat(m)) \/ ping \/ Topic
ChatNext == Server \/ Deliver \/ DomReady
ChatSpec == ChatInit /\ [][ChatNext]_chatVars

\* Streams are delivered and the browser finishes loading.
ChatFairness == WF_chatVars(Deliver) /\ WF_chatVars(DomReady) /\ WF_chatVars(Topic)
----------------------------------------------------------------------------
(* Properties *)

\* What to_chat() was given to this client's chat is on its way in order or shown, however
\* the loading of the page, the queue and a reconnection fall together (doneLoading(),
\* start()), except when the report is an earlier page's (early).
NoneLost ==
    client # NoOne /\ ~early =>
      pending = SelectSeq(toPage, LAMBDA m : m \in Chats) \o messageQueue

\* The server gets the cookie's records of every client whose page is there (cookieSent),
\* and the cookie keeps this one's.
CookieComes == (client # NoOne) ~> (client = NoOne \/ cookieSent \/ early)
CookieKeeps ==
    /\ client # NoOne /\ cookieSent => client \in Contents(clientData)
    /\ \A i, j \in DOMAIN clientData : clientData[i] = clientData[j] => i = j

\* Server and page agree on what was said and on who says so, through reconnections.
ChatDelivers == [](ChatTypeOK /\ NoneLost /\ CookieKeeps) /\ CookieComes
=============================================================================
