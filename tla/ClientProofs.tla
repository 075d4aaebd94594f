----------------------------- MODULE ClientProofs -----------------------------
(***************************************************************************)
(* The windows of a client.  NanoUI, for any uis, templates, versions and  *)
(* errors: the page of a window shows the newest of what it was sent; the  *)
(* server and the window agree on whose the window is.  The chat: what its *)
(* page shows of what it was told.  Elements that are dragged, and where.  *)
(***************************************************************************)
EXTENDS NanoUI, NanoPage, ChatList, Draggable, SequenceTheorems, FiniteSetTheorems,
        WellFoundedInduction, TLAPS
-----------------------------------------------------------------------------
(* NanoUI *)

\* What the page was told of a version there is; an update that completes keeps to it.
Known(d) == d.ver \in Versions

\* Before its ready handler a page only has the data it came with, and nothing is loading,
\* loaded or shown; from there on its data is the newest.
Stages ==
    /\ dom \in {"head", "scripts"} => newest = initialData /\ Known(initialData)
    /\ dom = "ready" => data = newest /\ Known(data)
    /\ dom # "ready" => ~isInitialised /\ loading = NoTemplate

\* What is still to be loaded and what has come are all the templates; one that is loading
\* is among the former.
Loaded ==
    /\ dom = "ready" => templateData \cup templates = Templates
    /\ isInitialised => templates = Templates

\* Nothing is shown before the templates are there, and then the data is.
Screen ==
    /\ ~isInitialised => shown = Blank /\ ~layoutRendered
    /\ ~layoutRendered => shown = Blank
    /\ isInitialised =>
         /\ shown.status = data.status
         /\ data.ver \notin Broken /\ AutoUpdateContent => shown.content = data.ver

PageInv == PageTypeOK /\ Stages /\ Loaded /\ Screen
----------------------------------------------------------------------------
LEMMA PageConstants ==
    /\ NoTemplate \notin Templates
    /\ NoData \notin Versions /\ Nothing \notin Versions
    /\ Versions \subseteq Int /\ 0 \in Versions
    /\ \A v, w \in Versions : v..MaxVer \subseteq Versions
BY PageAssumption, VerAssumption DEF Versions, NoData, Nothing

\* Filling in what an update leaves out gives an update; of a version when there was one.
LEMMA WithDataIs ==
    ASSUME NEW m \in Update, data \in Update, Known(data)
    PROVE  /\ withData(m) \in Update /\ Known(withData(m))
           /\ withData(m).status = m.status
           /\ withData(m) = [m EXCEPT !.ver = IF @ = NoData THEN data.ver ELSE @]
BY DEF withData, Update, Known, NoData

LEMMA BlankIs == Blank \in [layout: Versions \cup {Nothing}, content: Versions \cup {Nothing}, status: Statuses]
BY DEF Blank, Statuses

\* Rendering data of a version shows it.
LEMMA OnUpdateShows ==
    ASSUME NEW d \in Update, Known(d), PageTypeOK, onUpdate(d)
    PROVE  /\ layoutRendered' = TRUE /\ contentRendered' \in BOOLEAN
           /\ shown' \in [layout: Versions \cup {Nothing}, content: Versions \cup {Nothing}, status: Statuses]
           /\ shown'.status = d.status
           /\ d.ver \notin Broken /\ AutoUpdateContent => shown'.content = d.ver
<1>1. d.ver \in Versions /\ d.status \in Statuses BY DEF Update, Known
<1>2. shown.layout \in Versions \cup {Nothing} /\ shown.content \in Versions \cup {Nothing}
  BY DEF PageTypeOK
<1>3. RendersContent(d) \in BOOLEAN BY PageAssumption DEF RendersContent, PageTypeOK
<1>4. layoutRendered' = TRUE /\ contentRendered' \in BOOLEAN BY <1>3 DEF onUpdate, PageTypeOK
<1>5. shown' \in [layout: Versions \cup {Nothing}, content: Versions \cup {Nothing}, status: Statuses]
  BY <1>1, <1>2 DEF onUpdate
<1>6. shown'.status = d.status BY DEF onUpdate
<1>7. d.ver \notin Broken /\ AutoUpdateContent => shown'.content = d.ver BY DEF onUpdate, RendersContent
<1> QED BY <1>4, <1>5, <1>6, <1>7

\* A page that has just come, or gone, keeps the invariant.
LEMMA PageIsFresh ==
    ASSUME NEW d \in {"closed", "head"}, NEW init \in Update, d = "head" => Known(init),
           PageIs(d, init), sentVer' \in Versions
    PROVE  PageInv'
<1>1. NoUpdate \in Update BY DEF NoUpdate, Update, Statuses
<1>2. PageTypeOK' BY <1>1, BlankIs DEF PageIs, PageTypeOK
<1>3. Stages' BY DEF PageIs, Stages, Known
<1>4. Loaded' BY DEF PageIs, Loaded
<1>5. Screen' BY DEF PageIs, Screen
<1> QED BY <1>2, <1>3, <1>4, <1>5 DEF PageInv
----------------------------------------------------------------------------
\* An update that arrives.
LEMMA ArriveKeeps == PageInv /\ Arrive => PageInv'
<1> SUFFICES ASSUME PageInv, NEW v \in sentVer..MaxVer, NEW s \in Statuses, NEW all \in BOOLEAN,
                    NEW m, m = [ver |-> IF all THEN v ELSE NoData, status |-> s],
                    sentVer' = IF all THEN v ELSE sentVer,
                    receiveUpdateData(m) \/ updateLost(m)
             PROVE  PageInv'
  BY DEF Arrive
<1>1. v \in Versions /\ sentVer' \in Versions BY PageConstants DEF PageInv, PageTypeOK
<1>2. m \in Update BY <1>1 DEF Update
<1>3. CASE updateLost(m)
  BY <1>1, <1>3 DEF updateLost, PageInv, PageTypeOK, Stages, Loaded, Screen, managerVars, templateVars, screenVars
<1>4. CASE receiveUpdateData(m)
  <2>0. dom \in {"scripts", "ready"} /\ dom' = dom /\ initialData' = initialData
        /\ isInitialised' = isInitialised /\ UNCHANGED templateVars /\ canClick' = canClick
    BY <1>4 DEF receiveUpdateData
  <2>1. CASE dom = "scripts"
    <3>1. ~isInitialised BY <2>1 DEF PageInv, Stages
    <3>2. data' = withData(m) /\ UNCHANGED screenVars /\ newest' = newest
      BY <1>4, <2>1, <3>1 DEF receiveUpdateData, stored
    <3>3. withData(m) \in Update BY <1>2 DEF withData, Update, PageInv, PageTypeOK
    <3>4. PageTypeOK' BY <1>1, <2>0, <3>2, <3>3 DEF PageInv, PageTypeOK, templateVars, screenVars
    <3>5. Stages' BY <2>0, <2>1, <3>2 DEF PageInv, Stages, Known, templateVars
    <3>6. Loaded' BY <2>0 DEF PageInv, Loaded, templateVars
    <3>7. Screen' BY <2>0, <3>1, <3>2 DEF PageInv, Screen, screenVars
    <3> QED BY <3>4, <3>5, <3>6, <3>7 DEF PageInv
  <2>2. CASE dom = "ready"
    <3>1. data \in Update /\ Known(data) /\ data = newest BY <2>2 DEF PageInv, PageTypeOK, Stages
    <3>2. withData(m) \in Update /\ Known(withData(m)) BY <1>2, <3>1, WithDataIs
    <3>3. data' = withData(m) BY <1>4 DEF receiveUpdateData, stored, doUpdate
    <3>4. newest' = withData(m) BY <1>4, <2>2, <3>1 DEF receiveUpdateData, withData
    <3>5. Stages' BY <2>0, <2>2, <3>2, <3>3, <3>4 DEF Stages
    <3>6. Loaded' BY <2>0 DEF PageInv, Loaded, templateVars
    <3>7. CASE ~isInitialised
      <4>1. UNCHANGED screenVars BY <1>4, <3>7 DEF receiveUpdateData
      <4>2. PageTypeOK' BY <1>1, <2>0, <3>2, <3>3, <3>4, <4>1 DEF PageInv, PageTypeOK, templateVars, screenVars
      <4>3. Screen' BY <2>0, <3>7, <4>1 DEF PageInv, Screen, screenVars
      <4> QED BY <3>5, <3>6, <4>2, <4>3 DEF PageInv
    <3>8. CASE isInitialised
      <4>1. onUpdate(withData(m)) BY <1>4, <3>8 DEF receiveUpdateData, doUpdate
      <4>2. /\ layoutRendered' = TRUE /\ contentRendered' \in BOOLEAN
            /\ shown' \in [layout: Versions \cup {Nothing}, content: Versions \cup {Nothing}, status: Statuses]
            /\ shown'.status = withData(m).status
            /\ withData(m).ver \notin Broken /\ AutoUpdateContent => shown'.content = withData(m).ver
        BY <3>2, <4>1, OnUpdateShows DEF PageInv
      <4>3. PageTypeOK' BY <1>1, <2>0, <3>2, <3>3, <3>4, <4>2 DEF PageInv, PageTypeOK, templateVars
      <4>4. Screen' BY <2>0, <3>3, <3>8, <4>2 DEF Screen
      <4> QED BY <3>5, <3>6, <4>3, <4>4 DEF PageInv
    <3> QED BY <3>7, <3>8
  <2> QED BY <2>0, <2>1, <2>2
<1> QED BY <1>3, <1>4

\* A template that has come; the last one shows the data.
LEMMA TemplateDoneKeeps_ == PageInv /\ TemplateDone => PageInv'
<1> SUFFICES ASSUME PageInv, TemplateDone PROVE PageInv'
  OBVIOUS
<1>1. loading \in Templates /\ dom = "ready" /\ dom' = dom /\ data \in Update /\ Known(data) /\ data = newest
  BY DEF PageInv, PageTypeOK, Stages, TemplateDone
<1>2. /\ templates' = templates \cup {loading} /\ templateData' = templateData \ {loading}
      /\ templates' \subseteq Templates /\ templateData' \subseteq Templates
      /\ templateData' \cup templates' = Templates
      /\ templates = Templates => templates' = Templates
  BY <1>1 DEF PageInv, PageTypeOK, Loaded, TemplateDone
<1>3. initialData' = initialData /\ canClick' = canClick /\ sentVer' = sentVer /\ newest' = newest
  BY DEF TemplateDone
<1>4. CASE templateData' # {}
  <2>1. loading' \in templateData' /\ UNCHANGED <<data, isInitialised, screenVars>>
    BY <1>4 DEF TemplateDone, loadNextTemplate
  <2>2. PageTypeOK' BY <1>1, <1>2, <1>3, <2>1 DEF PageInv, PageTypeOK, screenVars
  <2>3. Stages' BY <1>1, <1>3, <2>1 DEF PageInv, Stages, Known
  <2>4. Loaded' BY <1>1, <1>2, <2>1 DEF PageInv, Loaded
  <2>5. Screen' BY <2>1 DEF PageInv, Screen, screenVars
  <2> QED BY <2>2, <2>3, <2>4, <2>5 DEF PageInv
<1>5. CASE templateData' = {}
  <2>1. loading' = NoTemplate /\ data' = data /\ isInitialised' = TRUE /\ onUpdate(data)
    BY <1>5 DEF TemplateDone, loadNextTemplate, templatesLoaded, doUpdate
  <2>2. /\ layoutRendered' = TRUE /\ contentRendered' \in BOOLEAN
        /\ shown' \in [layout: Versions \cup {Nothing}, content: Versions \cup {Nothing}, status: Statuses]
        /\ shown'.status = data.status
        /\ data.ver \notin Broken /\ AutoUpdateContent => shown'.content = data.ver
    BY <1>1, <2>1, OnUpdateShows DEF PageInv
  <2>3. PageTypeOK' BY <1>1, <1>2, <1>3, <2>1, <2>2 DEF PageInv, PageTypeOK
  <2>4. Stages' BY <1>1, <1>3, <2>1 DEF PageInv, Stages, Known
  <2>5. Loaded' BY <1>1, <1>2, <1>5 DEF Loaded
  <2>6. Screen' BY <2>1, <2>2 DEF Screen
  <2> QED BY <2>3, <2>4, <2>5, <2>6 DEF PageInv
<1> QED BY <1>4, <1>5

LEMMA PageStep == PageInv /\ [PageNext]_pageVars => PageInv'
<1> SUFFICES ASSUME PageInv, [PageNext]_pageVars PROVE PageInv'
  OBVIOUS
<1> USE DEF PageInv
<1>1. CASE NewPage
  <2> PICK v \in sentVer..MaxVer, s \in Statuses : sentVer' = v /\ PageIs("head", [ver |-> v, status |-> s])
    BY <1>1 DEF NewPage
  <2>1. v \in Versions BY PageConstants DEF PageTypeOK
  <2>2. [ver |-> v, status |-> s] \in Update /\ Known([ver |-> v, status |-> s]) BY <2>1 DEF Update, Known
  <2> QED BY <2>1, <2>2, PageIsFresh
<1>2. CASE ClosePage
  <2>1. NoUpdate \in Update BY DEF NoUpdate, Update, Statuses
  <2> QED BY <1>2, <2>1, PageIsFresh DEF ClosePage, PageTypeOK
<1>3. CASE Arrive BY <1>3, ArriveKeeps
<1>4. CASE RunScripts
  BY <1>4 DEF RunScripts, PageTypeOK, Stages, Loaded, Screen, managerVars, templateVars, screenVars
<1>5. CASE DocumentReady
  <2>1. dom = "scripts" /\ dom' = "ready" /\ data' = initialData /\ templateData' = Templates
        /\ loading' \in Templates /\ UNCHANGED <<initialData, isInitialised, templates, screenVars, canClick, sentVer, newest>>
    BY <1>5 DEF DocumentReady, initTemplates
  <2>2. PageTypeOK' BY <2>1 DEF PageTypeOK, screenVars
  <2>3. Stages' BY <2>1 DEF Stages, Known
  <2>4. Loaded' BY <2>1 DEF Loaded, PageTypeOK, Stages
  <2>5. Screen' BY <2>1 DEF Screen, Stages, screenVars
  <2> QED BY <2>2, <2>3, <2>4, <2>5
<1>6. CASE TemplateDone BY <1>6, TemplateDoneKeeps_
<1>7. CASE TemplateFail
  BY <1>7 DEF TemplateFail, PageTypeOK, Stages, Loaded, Screen, Known, managerVars, screenVars
<1>8. CASE ClickLink
  BY <1>8 DEF ClickLink, PageTypeOK, Stages, Loaded, Screen, Known, managerVars, templateVars, screenVars
<1>9. CASE EnableClick
  BY <1>9 DEF EnableClick, PageTypeOK, Stages, Loaded, Screen, Known, managerVars, templateVars, screenVars
<1>10. CASE UNCHANGED pageVars
  BY <1>10 DEF pageVars, PageTypeOK, Stages, Loaded, Screen, Known, managerVars, templateVars, screenVars
<1> QED BY <1>1, <1>2, <1>3, <1>4, <1>5, <1>6, <1>7, <1>8, <1>9, <1>10 DEF PageNext, Browser

LEMMA PageStart == PageInit => PageInv
<1> SUFFICES ASSUME PageInit PROVE PageInv
  OBVIOUS
<1>1. NoUpdate \in Update BY DEF NoUpdate, Update, Statuses
<1>2. PageTypeOK BY <1>1, BlankIs, PageConstants DEF PageInit, PageTypeOK
<1> QED BY <1>2 DEF PageInit, PageInv, Stages, Loaded, Screen
----------------------------------------------------------------------------
\* The page's variables have their types, whatever arrives when.
THEOREM PageTypeCorrect == PageSpec => []PageTypeOK
<1>1. PageInv => PageTypeOK BY DEF PageInv
<1> QED BY <1>1, PageStart, PageStep, PTL DEF PageSpec

\* Once its templates are there, a page that draws its content anew shows the newest of what
\* came with it and since it was ready, and the status even when rendering throws
\* (receiveUpdateData(), onUpdate()).
THEOREM ShownIsNewestHolds == AutoUpdateContent => (PageSpec => []ShownIsNewest)
<1> SUFFICES ASSUME AutoUpdateContent PROVE PageSpec => []ShownIsNewest
  OBVIOUS
<1>1. PageInv => ShownIsNewest BY DEF PageInv, Stages, Screen, ShownIsNewest
<1> QED BY <1>1, PageStart, PageStep, PTL DEF PageSpec

\* Nothing is rendered before all the templates have been loaded (loadNextTemplate()).
THEOREM RenderedWithAllHolds == PageSpec => []RenderedWithAll
<1>1. PageInv => RenderedWithAll BY DEF PageInv, Loaded, Screen, RenderedWithAll
<1> QED BY <1>1, PageStart, PageStep, PTL DEF PageSpec

\* All of what a page shows, for any templates, versions and versions that cannot be parsed
\* or rendered: nothing too early, and then the newest (nano_state_manager.js).
THEOREM PageShowsHolds == AutoUpdateContent => (PageSpec => []PageShows)
<1> SUFFICES ASSUME AutoUpdateContent PROVE PageSpec => []PageShows
  OBVIOUS
<1>1. PageSpec => []PageTypeOK BY PageTypeCorrect
<1>2. PageSpec => []RenderedWithAll BY RenderedWithAllHolds
<1>3. PageSpec => []ShownIsNewest BY ShownIsNewestHolds
<1>4. PageTypeOK /\ RenderedWithAll /\ ShownIsNewest => PageShows BY DEF PageShows
<1> QED BY <1>1, <1>2, <1>3, <1>4, PTL

----------------------------------------------------------------------------
(* The window of the uis.  `owner' says whose the window will be once the  *)
(* first i messages of the stream have arrived: the invariant asks for     *)
(* such a function, which binds the two ends of the stream together.       *)

\* What changes whose the window is.
Windows(m) == m.kind \in {"browse", "close"}

Owners(out, wn, owner) ==
    /\ owner \in [0..Len(out) -> Uis \cup {NoUi}]
    /\ owner[0] = wn.src
    /\ \A i \in 1..Len(out) : /\ out[i].kind = "browse" => owner[i] = out[i].ui
                              /\ out[i].kind = "close" => owner[i] = NoUi
    /\ \A i, j \in 0..Len(out) :
         i <= j /\ (\A k \in (i + 1)..j : ~Windows(out[k])) => owner[i] = owner[j]

\* No message finds the window of another ui.
NoneBetween(out, owner) ==
    \A i \in 1..Len(out) :
      out[i].kind \in {"browse", "onclose"} => owner[i - 1] \in {out[i].ui, NoUi}

\* The window has u's on-close command, or will have.
HasCommand(u, out, oc) ==
    \/ oc = u /\ \A k \in 1..Len(out) : ~Windows(out[k])
    \/ \E j \in 1..Len(out) : /\ out[j].kind = "onclose" /\ out[j].ui = u
                              /\ \A k \in (j + 1)..Len(out) : ~Windows(out[k])

\* The server will hear that u's window was closed, or has no way to.
Gone(u, ts, ea) == u \in ea \/ \E i \in 1..Len(ts) : ts[i] = [kind |-> "nanoclose", ui |-> u]

IsOpen(s, u) == s.ui[u].state = "open"

Ends(s, sp, ts, oc, ea, last) ==
    /\ (\A u \in Uis : ~IsOpen(s, u)) => last = NoUi
    /\ \A u \in Uis : IsOpen(s, u) =>
         \/ last = u /\ (sp[u] = 0 => HasCommand(u, s.out, oc))
         \/ last = NoUi /\ Gone(u, ts, ea)
    /\ \A u, v \in Uis : IsOpen(s, u) /\ IsOpen(s, v) => u = v

UiRecords == [state: {"unused", "open", "closed"}, status: Statuses, told: BOOLEAN]
Servers == [ui: [Uis -> UiRecords], out: Seq(Message)]
WindowRecords == [src: Uis \cup {NoUi}, up: BOOLEAN, ver: Versions \cup {NoData}]

Agree(s, sp, ts, wn, oc, ea) ==
    /\ s \in Servers /\ sp \in [Uis -> 0..1]
    /\ wn \in WindowRecords /\ (wn.src = NoUi => wn = NoWindow)
    /\ oc \in {NoUi, wn.src}
    /\ \A u \in Uis : s.ui[u].state = "unused" => sp[u] = 0
    /\ \E owner : /\ Owners(s.out, wn, owner) /\ NoneBetween(s.out, owner)
                  /\ Ends(s, sp, ts, oc, ea, owner[Len(s.out)])
----------------------------------------------------------------------------
LEMMA OwnerAt ==
    ASSUME NEW out, NEW wn, NEW owner, Owners(out, wn, owner)
    PROVE  \A i \in 1..Len(out) : /\ out[i].kind = "browse" => owner[i] = out[i].ui
                                  /\ out[i].kind = "close" => owner[i] = NoUi
  BY DEF Owners

LEMMA OneMore ==
    ASSUME NEW out \in Seq(Message), NEW m \in Message, NEW wn, NEW owner,
           Owners(out, wn, owner), NoneBetween(out, owner),
           m.kind \in {"browse", "onclose"} => owner[Len(out)] \in {m.ui, NoUi}
    PROVE  \E more :
             /\ Owners(Append(out, m), wn, more) /\ NoneBetween(Append(out, m), more)
             /\ more[Len(out) + 1] = IF m.kind = "browse" THEN m.ui
                                     ELSE IF m.kind = "close" THEN NoUi ELSE owner[Len(out)]
<1> DEFINE n == Len(out)
           last == IF m.kind = "browse" THEN m.ui
                   ELSE IF m.kind = "close" THEN NoUi ELSE owner[n]
           more == [i \in 0..(n + 1) |-> IF i = n + 1 THEN last ELSE owner[i]]
<1>1. n \in Nat /\ owner \in [0..n -> Uis \cup {NoUi}]
  BY DEF Owners
<1>2. /\ Append(out, m) \in Seq(Message) /\ Len(Append(out, m)) = n + 1
      /\ \A i \in 1..(n + 1) : Append(out, m)[i] = IF i = n + 1 THEN m ELSE out[i]
  OBVIOUS
<1>3. last \in Uis \cup {NoUi}
  BY <1>1 DEF Message
<1> HIDE DEF last
<1>4. /\ more \in [0..(n + 1) -> Uis \cup {NoUi}] /\ more[n + 1] = last
      /\ \A i \in 0..n : more[i] = owner[i]
  BY <1>1, <1>3
<1> HIDE DEF more
<1>5. Owners(Append(out, m), wn, more)
  <2>1. more[0] = wn.src
    BY <1>1, <1>4 DEF Owners
  <2>2. ASSUME NEW i \in 1..(n + 1)
        PROVE  /\ Append(out, m)[i].kind = "browse" => more[i] = Append(out, m)[i].ui
               /\ Append(out, m)[i].kind = "close" => more[i] = NoUi
    <3>1. CASE i = n + 1
      BY <1>2, <1>4, <3>1 DEF last
    <3>2. CASE i # n + 1
      <4>1. i \in 1..n /\ i \in 0..n
        BY <1>1, <3>2
      <4>2. /\ out[i].kind = "browse" => owner[i] = out[i].ui
            /\ out[i].kind = "close" => owner[i] = NoUi
        BY <4>1, OwnerAt
      <4> QED
        BY <1>2, <1>4, <3>2, <4>1, <4>2
    <3> QED
      BY <3>1, <3>2
  <2>3. ASSUME NEW i \in 0..(n + 1), NEW j \in 0..(n + 1), i <= j,
               \A k \in (i + 1)..j : ~Windows(Append(out, m)[k])
        PROVE  more[i] = more[j]
    <3>1. CASE j = i
      BY <3>1
    <3>2. CASE i < j /\ j = n + 1
      <4>1. i \in 0..n /\ n \in 0..n /\ i <= n /\ ~Windows(m)
        BY <1>1, <1>2, <2>3, <3>2
      <4>2. \A k \in (i + 1)..n : ~Windows(out[k])
        BY <1>1, <1>2, <2>3, <3>2
      <4>3. owner[i] = owner[n]
        BY <4>1, <4>2 DEF Owners
      <4>4. last = owner[n]
        BY <4>1 DEF last, Windows
      <4> QED
        BY <1>4, <3>2, <4>1, <4>3, <4>4
    <3>3. CASE i < j /\ j # n + 1
      <4>1. i \in 0..n /\ j \in 0..n
        BY <1>1, <3>3
      <4>2. \A k \in (i + 1)..j : ~Windows(out[k])
        BY <1>1, <1>2, <2>3, <3>3
      <4> QED
        BY <1>4, <2>3, <4>1, <4>2 DEF Owners
    <3> QED
      BY <1>1, <2>3, <3>1, <3>2, <3>3
  <2> QED
    BY <1>2, <1>4, <2>1, <2>2, <2>3 DEF Owners
<1>6. NoneBetween(Append(out, m), more)
  <2> SUFFICES ASSUME NEW i \in 1..(n + 1),
                      Append(out, m)[i].kind \in {"browse", "onclose"}
               PROVE  more[i - 1] \in {Append(out, m)[i].ui, NoUi}
    BY <1>2 DEF NoneBetween
  <2>1. CASE i = n + 1
    BY <1>1, <1>2, <1>4, <2>1
  <2>2. CASE i # n + 1
    <3>1. i \in 1..n /\ i - 1 \in 0..n
      BY <1>1, <2>2
    <3> QED
      BY <1>2, <1>4, <2>2, <3>1 DEF NoneBetween
  <2> QED
    BY <2>1, <2>2
<1> QED
  BY <1>4, <1>5, <1>6 DEF last

LEMMA CommandStays ==
    ASSUME NEW u, NEW out \in Seq(Message), NEW m \in Message, ~Windows(m), NEW oc,
           HasCommand(u, out, oc)
    PROVE  HasCommand(u, Append(out, m), oc)
<1>1. /\ Len(out) \in Nat /\ Len(Append(out, m)) = Len(out) + 1
      /\ \A i \in 1..(Len(out) + 1) :
           Append(out, m)[i] = IF i = Len(out) + 1 THEN m ELSE out[i]
  OBVIOUS
<1>2. CASE oc = u /\ \A k \in 1..Len(out) : ~Windows(out[k])
  BY <1>1, <1>2 DEF HasCommand
<1>3. CASE \E j \in 1..Len(out) : /\ out[j].kind = "onclose" /\ out[j].ui = u
                                  /\ \A k \in (j + 1)..Len(out) : ~Windows(out[k])
  <2>1. PICK j \in 1..Len(out) : /\ out[j].kind = "onclose" /\ out[j].ui = u
                                 /\ \A k \in (j + 1)..Len(out) : ~Windows(out[k])
    BY <1>3
  <2>2. j \in 1..(Len(out) + 1) /\ Append(out, m)[j] = out[j]
    BY <1>1
  <2>3. \A k \in (j + 1)..(Len(out) + 1) : ~Windows(Append(out, m)[k])
    BY <1>1, <2>1
  <2> QED
    BY <1>1, <2>1, <2>2, <2>3 DEF HasCommand
<1> QED
  BY <1>2, <1>3 DEF HasCommand

\* What is sent leaves the states alone: an update, or nothing.
Quietly(s, t) ==
    /\ t \in Servers
    /\ \A u \in Uis : t.ui[u].state = s.ui[u].state
    /\ \/ t.out = s.out
       \/ \E m \in Message : m.kind = "update" /\ t.out = Append(s.out, m)

LEMMA QuietKeeps ==
    ASSUME NEW s, NEW t, NEW sp, NEW ts, NEW wn, NEW oc, NEW ea,
           Agree(s, sp, ts, wn, oc, ea), Quietly(s, t)
    PROVE  Agree(t, sp, ts, wn, oc, ea)
<1>1. PICK owner : /\ Owners(s.out, wn, owner) /\ NoneBetween(s.out, owner)
                   /\ Ends(s, sp, ts, oc, ea, owner[Len(s.out)])
  BY DEF Agree
<1>2. s.out \in Seq(Message) /\ \A u \in Uis : IsOpen(t, u) <=> IsOpen(s, u)
  BY DEF Agree, Servers, Quietly, IsOpen
<1>3. CASE t.out = s.out
  <2>1. Ends(t, sp, ts, oc, ea, owner[Len(t.out)])
    BY <1>1, <1>2, <1>3 DEF Ends
  <2> QED
    BY <1>1, <1>3, <2>1 DEF Agree, Quietly
<1>4. ASSUME NEW m \in Message, m.kind = "update", t.out = Append(s.out, m)
      PROVE  Agree(t, sp, ts, wn, oc, ea)
  <2>1. PICK more : /\ Owners(t.out, wn, more) /\ NoneBetween(t.out, more)
                    /\ more[Len(s.out) + 1] = owner[Len(s.out)]
    BY <1>1, <1>2, <1>4, OneMore
  <2>2. \A u \in Uis : HasCommand(u, s.out, oc) => HasCommand(u, t.out, oc)
    BY <1>2, <1>4, CommandStays DEF Windows
  <2>3. Ends(t, sp, ts, oc, ea, more[Len(t.out)])
    <3>1. Len(t.out) = Len(s.out) + 1
      BY <1>2, <1>4
    <3> QED
      BY <1>1, <1>2, <2>1, <2>2, <3>1 DEF Ends
  <2> QED
    BY <2>1, <2>3 DEF Agree, Quietly
<1> QED
  BY <1>3, <1>4 DEF Quietly

\* u, and with it the window, is closed: nothing is open any more.
LEMMA CloseKeeps ==
    ASSUME NEW s, NEW t \in Servers, NEW sp, NEW ts, NEW wn, NEW oc, NEW ea, NEW u \in Uis,
           Agree(s, sp, ts, wn, oc, ea),
           NEW m \in Message, m.kind = "close", t.out = Append(s.out, m),
           t.ui[u].state = "closed",
           \A v \in Uis : v # u => t.ui[v].state = s.ui[v].state /\ ~IsOpen(s, v)
    PROVE  /\ Agree(t, sp, ts, wn, oc, ea)
           /\ \A v \in Uis : ~IsOpen(t, v)
<1>1. PICK owner : /\ Owners(s.out, wn, owner) /\ NoneBetween(s.out, owner)
                   /\ Ends(s, sp, ts, oc, ea, owner[Len(s.out)])
  BY DEF Agree
<1>2. s.out \in Seq(Message) /\ \A v \in Uis : ~IsOpen(t, v)
  BY DEF Agree, Servers, IsOpen
<1>3. PICK more : /\ Owners(t.out, wn, more) /\ NoneBetween(t.out, more)
                  /\ more[Len(s.out) + 1] = NoUi
  BY <1>1, <1>2, OneMore
<1>4. Len(t.out) = Len(s.out) + 1
  BY <1>2
<1>5. Ends(t, sp, ts, oc, ea, more[Len(t.out)])
  BY <1>2, <1>3, <1>4 DEF Ends
<1>6. \A v \in Uis : t.ui[v].state = "unused" => sp[v] = 0
  BY DEF Agree
<1> QED
  BY <1>2, <1>3, <1>5, <1>6 DEF Agree

\* u is opened, again or where nothing is open.
LEMMA OpenKeeps ==
    ASSUME NEW s, NEW t \in Servers, NEW sp, NEW ts, NEW wn, NEW oc, NEW ea, NEW u \in Uis,
           Agree(s, sp, ts, wn, oc, ea), sp[u] = 0,
           NEW m \in Message, m.kind = "browse", m.ui = u, t.out = Append(s.out, m),
           t.ui[u].state = "open",
           \A v \in Uis : v # u => t.ui[v].state = s.ui[v].state /\ ~IsOpen(s, v)
    PROVE  Agree(t, [sp EXCEPT ![u] = @ + 1], ts, wn, oc, ea)
<1>1. PICK owner : /\ Owners(s.out, wn, owner) /\ NoneBetween(s.out, owner)
                   /\ Ends(s, sp, ts, oc, ea, owner[Len(s.out)])
  BY DEF Agree
<1>2. /\ s.out \in Seq(Message) /\ sp \in [Uis -> 0..1] /\ IsOpen(t, u)
      /\ \A v \in Uis : v # u => ~IsOpen(t, v)
  BY DEF Agree, Servers, IsOpen
<1>3. owner[Len(s.out)] \in {u, NoUi}
  BY <1>1 DEF Ends
<1>4. PICK more : /\ Owners(t.out, wn, more) /\ NoneBetween(t.out, more)
                  /\ more[Len(s.out) + 1] = u
  BY <1>1, <1>2, <1>3, OneMore
<1>5. Len(t.out) = Len(s.out) + 1
  BY <1>2
<1>6. /\ [sp EXCEPT ![u] = @ + 1] \in [Uis -> 0..1] /\ [sp EXCEPT ![u] = @ + 1][u] = 1
      /\ \A v \in Uis : v # u => [sp EXCEPT ![u] = @ + 1][v] = sp[v]
  BY <1>2
<1>7. Ends(t, [sp EXCEPT ![u] = @ + 1], ts, oc, ea, more[Len(t.out)])
  BY <1>2, <1>4, <1>5, <1>6 DEF Ends
<1>8. \A v \in Uis : t.ui[v].state = "unused" => [sp EXCEPT ![u] = @ + 1][v] = 0
  BY <1>6 DEF Agree
<1> QED
  BY <1>4, <1>6, <1>7, <1>8 DEF Agree

\* The on-close command of u is sent.
LEMMA WinsetKeeps ==
    ASSUME NEW s, NEW t \in Servers, NEW sp, NEW ts, NEW wn, NEW oc, NEW ea, NEW u \in Uis,
           Agree(s, sp, ts, wn, oc, ea), t.ui = s.ui,
           NEW m \in Message, m.kind = "onclose", m.ui = u, t.out = Append(s.out, m),
           IsOpen(s, u), NEW tp \in [Uis -> 0..1],
           \A v \in Uis : v # u => tp[v] = sp[v]
    PROVE  Agree(t, tp, ts, wn, oc, ea)
<1>1. PICK owner : /\ Owners(s.out, wn, owner) /\ NoneBetween(s.out, owner)
                   /\ Ends(s, sp, ts, oc, ea, owner[Len(s.out)])
  BY DEF Agree
<1>2. /\ s.out \in Seq(Message) /\ \A v \in Uis : IsOpen(t, v) <=> IsOpen(s, v)
  BY DEF Agree, Servers, IsOpen
<1>3. owner[Len(s.out)] \in {u, NoUi}
  BY <1>1 DEF Ends
<1>4. PICK more : /\ Owners(t.out, wn, more) /\ NoneBetween(t.out, more)
                  /\ more[Len(s.out) + 1] = owner[Len(s.out)]
  BY <1>1, <1>2, <1>3, OneMore
<1>5. /\ Len(t.out) = Len(s.out) + 1 /\ Len(s.out) \in Nat
      /\ t.out[Len(s.out) + 1] = m
  BY <1>2
<1>6. HasCommand(u, t.out, oc)
  BY <1>5 DEF HasCommand
<1>7. \A v \in Uis : IsOpen(s, v) => v = u
  BY <1>1 DEF Ends
<1>8. Ends(t, tp, ts, oc, ea, more[Len(t.out)])
  BY <1>1, <1>2, <1>4, <1>5, <1>6, <1>7 DEF Ends
<1>9. \A v \in Uis : t.ui[v].state = "unused" => tp[v] = 0
  BY DEF Agree, IsOpen
<1> QED
  BY <1>4, <1>8, <1>9 DEF Agree
----------------------------------------------------------------------------
\* A field of the record of a ui.
LEMMA TellingIs ==
    \A r \in UiRecords, y \in BOOLEAN :
      /\ [r EXCEPT !.told = y] \in UiRecords
      /\ [r EXCEPT !.told = y].state = r.state /\ [r EXCEPT !.told = y].status = r.status
  BY DEF UiRecords

(* The procs of a ui that is the only one that may be open *)

Alone(s, u) == \A v \in Uis : v # u => ~IsOpen(s, v)

LEMMA SendIs ==
    ASSUME NEW s \in Servers, NEW k \in {"browse", "update", "close", "onclose"}, NEW u \in Uis,
           NEW v \in Versions \cup {NoData}
    PROVE  /\ Send(s, k, u, v) \in Servers
           /\ [kind |-> k, ui |-> u, ver |-> v] \in Message
           /\ Send(s, k, u, v).out = Append(s.out, [kind |-> k, ui |-> u, ver |-> v])
           /\ \A x \in Uis : /\ Send(s, k, u, v).ui[x].state = s.ui[x].state
                             /\ Send(s, k, u, v).ui[x].status = s.ui[x].status
<1>1. [kind |-> k, ui |-> u, ver |-> v] \in Message
  BY DEF Message
<1> DEFINE marked == [s.ui[u] EXCEPT !.told = TRUE]
           news == [s.ui EXCEPT ![u] = marked]
<1>0. s.ui \in [Uis -> UiRecords] /\ s = [ui |-> s.ui, out |-> s.out]
  BY DEF Servers
<1>2. Send(s, k, u, v) = [ui |-> news, out |-> Append(s.out, [kind |-> k, ui |-> u, ver |-> v])]
  <2>1. Send(s, k, u, v)
          = [s EXCEPT !.out = Append(s.out, [kind |-> k, ui |-> u, ver |-> v]),
                      !.ui = [s.ui EXCEPT ![u] = [s.ui[u] EXCEPT !.told = TRUE]]]
    BY <1>0 DEF Send
  <2> HIDE DEF marked
  <2>2. Send(s, k, u, v)
          = [s EXCEPT !.out = Append(s.out, [kind |-> k, ui |-> u, ver |-> v]), !.ui = news]
    BY <2>1 DEF marked
  <2> HIDE DEF news
  <2> QED
    BY <1>0, <2>2
<1>3. /\ news \in [Uis -> UiRecords]
      /\ \A x \in Uis : news[x].state = s.ui[x].state /\ news[x].status = s.ui[x].status
  <2>1. TRUE \in BOOLEAN /\ s.ui[u] \in UiRecords
    BY <1>0
  <2>2. marked \in UiRecords /\ marked.state = s.ui[u].state /\ marked.status = s.ui[u].status
    BY <2>1, TellingIs, Zenon
  <2> HIDE DEF marked
  <2> QED
    BY <1>0, <2>2
<1> HIDE DEF news
<1>4. Append(s.out, [kind |-> k, ui |-> u, ver |-> v]) \in Seq(Message)
  BY <1>1 DEF Servers
<1> QED
  BY <1>1, <1>2, <1>3, <1>4 DEF Servers

LEMMA CloseIs ==
    ASSUME NEW s, NEW sp, NEW ts, NEW wn, NEW oc, NEW ea, NEW u \in Uis,
           Agree(s, sp, ts, wn, oc, ea), Alone(s, u)
    PROVE  /\ Agree(close(s, u), sp, ts, wn, oc, ea)
           /\ \A v \in Uis : ~IsOpen(close(s, u), v)
           /\ close(s, u).ui[u].state = "closed"
           /\ \A v \in Uis : v # u => close(s, u).ui[v].state = s.ui[v].state
<1>1. CASE s.ui[u].state = "closed"
  BY <1>1 DEF close, Alone, IsOpen
<1>2. CASE s.ui[u].state # "closed"
  <2> DEFINE m == [kind |-> "close", ui |-> u, ver |-> NoData]
             r == [state |-> "closed", status |-> 0, told |-> TRUE]
             t == [ui |-> [s.ui EXCEPT ![u] = r], out |-> Append(s.out, m)]
  <2>1. s \in Servers
    BY DEF Agree
  <2>2. close(s, u) = t
    BY <1>2, <2>1 DEF close, Servers
  <2>3. m \in Message /\ r \in UiRecords
    BY DEF Message, UiRecords, Statuses
  <2>4. /\ t \in Servers /\ t.ui[u].state = "closed" /\ t.out = Append(s.out, m)
        /\ \A v \in Uis : v # u => t.ui[v].state = s.ui[v].state
    BY <2>1, <2>3 DEF Servers
  <2>5. \A v \in Uis : v # u => ~IsOpen(s, v)
    BY DEF Alone
  <2>6. m.kind = "close"
    OBVIOUS
  <2> HIDE DEF m, r, t
  <2>7. Agree(t, sp, ts, wn, oc, ea) /\ \A v \in Uis : ~IsOpen(t, v)
    BY <2>3, <2>4, <2>5, <2>6, CloseKeeps
  <2> QED
    BY <2>2, <2>4, <2>7
<1> QED
  BY <1>1, <1>2

\* What became of s: u is closed or goes on, the others are as they were.
Follows(s, t, u) ==
    /\ t.ui[u].state \in {s.ui[u].state, "closed"}
    /\ \A v \in Uis : v # u => t.ui[v].state = s.ui[v].state

LEMMA SetStatusIs ==
    ASSUME NEW s \in Servers, NEW u \in Uis, NEW new \in Statuses, NEW push \in BOOLEAN,
           dataVer \in Versions
    PROVE  Quietly(s, set_status(s, u, new, push))
<1> DEFINE renewed == [s.ui[u] EXCEPT !.status = new]
           untold == [renewed EXCEPT !.told = FALSE]
           t == [ui |-> [s.ui EXCEPT ![u] = untold], out |-> s.out]
<1>0. s.ui \in [Uis -> UiRecords] /\ s = [ui |-> s.ui, out |-> s.out] /\ s.out \in Seq(Message)
  BY DEF Servers
<1>1. /\ t \in Servers /\ t.out = s.out /\ \A v \in Uis : t.ui[v].state = s.ui[v].state
  <2>1. renewed \in UiRecords /\ renewed.state = s.ui[u].state
    BY <1>0 DEF UiRecords
  <2> HIDE DEF renewed
  <2>2. FALSE \in BOOLEAN
    OBVIOUS
  <2>3. untold \in UiRecords /\ untold.state = renewed.state
    BY <2>1, <2>2, TellingIs, Zenon
  <2> HIDE DEF untold
  <2> QED
    BY <1>0, <2>1, <2>3 DEF Servers
<1>2. t = [s EXCEPT !.ui[u].status = new, !.ui[u].told = FALSE]
  <2>1. [s EXCEPT !.ui[u].status = new, !.ui[u].told = FALSE]
          = [s EXCEPT !.ui = [s.ui EXCEPT ![u] = [[s.ui[u] EXCEPT !.status = new] EXCEPT !.told = FALSE]]]
    BY <1>0
  <2> HIDE DEF renewed, untold
  <2>2. [s EXCEPT !.ui[u].status = new, !.ui[u].told = FALSE]
          = [s EXCEPT !.ui = [s.ui EXCEPT ![u] = untold]]
    BY <2>1 DEF renewed, untold
  <2> QED
    BY <1>0, <2>2
<1> HIDE DEF t
<1>3. Quietly(s, s) /\ Quietly(s, t)
  BY <1>1 DEF Quietly
<1>4. ASSUME NEW v \in Versions \cup {NoData} PROVE Quietly(s, Send(t, "update", u, v))
  <2> DEFINE m == [kind |-> "update", ui |-> u, ver |-> v]
  <2>1. m.kind = "update" /\ "update" \in {"browse", "update", "close", "onclose"}
    OBVIOUS
  <2>2. /\ Send(t, "update", u, v) \in Servers /\ m \in Message
        /\ Send(t, "update", u, v).out = Append(t.out, m)
        /\ \A x \in Uis : Send(t, "update", u, v).ui[x].state = t.ui[x].state
    BY <1>1, <2>1, SendIs
  <2> HIDE DEF m
  <2> QED
    BY <1>1, <2>1, <2>2 DEF Quietly
<1>5. \/ set_status(s, u, new, push) \in {s, t}
      \/ \E v \in Versions \cup {NoData} : set_status(s, u, new, push) = Send(t, "update", u, v)
  BY <1>2 DEF set_status
<1> QED
  BY <1>3, <1>4, <1>5

LEMMA UpdateStatusIs ==
    ASSUME NEW s, NEW sp, NEW ts, NEW wn, NEW oc, NEW ea, NEW u \in Uis, NEW push \in BOOLEAN,
           Agree(s, sp, ts, wn, oc, ea), Alone(s, u),
           dataVer \in Versions, usable \in Statuses \cup {STATUS_CLOSE}
    PROVE  /\ Agree(update_status(s, u, push), sp, ts, wn, oc, ea)
           /\ Follows(s, update_status(s, u, push), u)
           /\ Alone(update_status(s, u, push), u)
<1>1. s \in Servers
  BY DEF Agree
<1>2. CASE usable = STATUS_CLOSE
  <2>1. update_status(s, u, push) = close(s, u)
    BY <1>2 DEF update_status
  <2> QED
    BY <2>1, CloseIs DEF Follows, Alone
<1>3. CASE usable # STATUS_CLOSE
  <2>1. update_status(s, u, push) = set_status(s, u, usable, push)
    BY <1>3 DEF update_status
  <2>2. Quietly(s, update_status(s, u, push))
    BY <1>1, <1>3, <2>1, SetStatusIs
  <2>3. Agree(update_status(s, u, push), sp, ts, wn, oc, ea)
    BY <2>2, QuietKeeps
  <2> QED
    BY <2>2, <2>3 DEF Quietly, Follows, Alone, IsOpen
<1> QED
  BY <1>2, <1>3

LEMMA SendKeeps ==
    ASSUME NEW s, NEW sp, NEW ts, NEW wn, NEW oc, NEW ea, NEW u \in Uis,
           Agree(s, sp, ts, wn, oc, ea), NEW v \in Versions \cup {NoData}
    PROVE  /\ Agree(Send(s, "update", u, v), sp, ts, wn, oc, ea)
           /\ Follows(s, Send(s, "update", u, v), u)
<1>1. s \in Servers
  BY DEF Agree
<1>2. Quietly(s, Send(s, "update", u, v))
  <2> DEFINE m == [kind |-> "update", ui |-> u, ver |-> v]
  <2>1. m.kind = "update" /\ "update" \in {"browse", "update", "close", "onclose"}
    OBVIOUS
  <2>2. /\ Send(s, "update", u, v) \in Servers /\ m \in Message
        /\ Send(s, "update", u, v).out = Append(s.out, m)
        /\ \A x \in Uis : Send(s, "update", u, v).ui[x].state = s.ui[x].state
    BY <1>1, <2>1, SendIs
  <2> HIDE DEF m
  <2> QED
    BY <2>1, <2>2 DEF Quietly
<1>3. Agree(Send(s, "update", u, v), sp, ts, wn, oc, ea)
  BY <1>2, QuietKeeps
<1> QED
  BY <1>2, <1>3 DEF Quietly, Follows

LEMMA PushDataIs ==
    ASSUME NEW s, NEW sp, NEW ts, NEW wn, NEW oc, NEW ea, NEW u \in Uis,
           Agree(s, sp, ts, wn, oc, ea), Alone(s, u),
           dataVer \in Versions, usable \in Statuses \cup {STATUS_CLOSE}
    PROVE  Agree(push_data(s, u), sp, ts, wn, oc, ea)
<1> DEFINE t == update_status(s, u, FALSE)
<1>1. Agree(t, sp, ts, wn, oc, ea)
  BY UpdateStatusIs
<1>2. Agree(Send(t, "update", u, dataVer), sp, ts, wn, oc, ea)
  <2> HIDE DEF t
  <2> QED
    BY <1>1, SendKeeps
<1> QED
  BY <1>1, <1>2 DEF push_data

LEMMA TryUpdateIs ==
    ASSUME NEW s, NEW sp, NEW ts, NEW wn, NEW oc, NEW ea, NEW u \in Uis, NEW update \in BOOLEAN,
           Agree(s, sp, ts, wn, oc, ea), Alone(s, u),
           dataVer \in Versions, usable \in Statuses \cup {STATUS_CLOSE}
    PROVE  Agree(try_update(s, u, update), sp, ts, wn, oc, ea)
<1>1. Agree(push_data(s, u), sp, ts, wn, oc, ea)
  BY PushDataIs
<1>2. Agree(update_status(s, u, TRUE), sp, ts, wn, oc, ea)
  BY UpdateStatusIs
<1> QED
  BY <1>1, <1>2 DEF try_update

\* open(), and the spawn(2) it leaves when it has opened.
LEMMA OpenIs ==
    ASSUME NEW s, NEW sp, NEW ts, NEW wn, NEW oc, NEW ea, NEW u \in Uis,
           Agree(s, sp, ts, wn, oc, ea), Alone(s, u), sp[u] = 0,
           dataVer \in Versions, usable \in Statuses \cup {STATUS_CLOSE}
    PROVE  Agree(open(s, u),
                 [sp EXCEPT ![u] = IF open(s, u).ui[u].state = "open" THEN @ + 1 ELSE @],
                 ts, wn, oc, ea)
<1> DEFINE t == update_status(s, u, FALSE)
<1>1. /\ Agree(t, sp, ts, wn, oc, ea) /\ Alone(t, u) /\ t \in Servers
      /\ sp \in [Uis -> 0..1]
  <2>1. Agree(t, sp, ts, wn, oc, ea) /\ Alone(t, u)
    BY UpdateStatusIs
  <2> QED
    BY <2>1 DEF Agree
<1>2. open(s, u) = IF t.ui[u].state = "closed" THEN t
                   ELSE Send([t EXCEPT !.ui[u].state = "open"], "browse", u, dataVer)
  BY DEF open
<1> HIDE DEF t
<1>3. CASE t.ui[u].state = "closed"
  <2>1. [sp EXCEPT ![u] = IF t.ui[u].state = "open" THEN @ + 1 ELSE @] = sp
    BY <1>1, <1>3
  <2> QED
    BY <1>1, <1>2, <1>3, <2>1
<1>4. CASE t.ui[u].state # "closed"
  <2> DEFINE opened == [state |-> "open", status |-> t.ui[u].status, told |-> t.ui[u].told]
             o == [ui |-> [t.ui EXCEPT ![u] = opened], out |-> t.out]
             m == [kind |-> "browse", ui |-> u, ver |-> dataVer]
             r == Send(o, "browse", u, dataVer)
  <2>1. /\ o \in Servers /\ o.out = t.out /\ o.ui[u].state = "open"
        /\ \A v \in Uis : v # u => o.ui[v].state = t.ui[v].state
        /\ o = [t EXCEPT !.ui[u].state = "open"]
    <3>1. t.ui \in [Uis -> UiRecords] /\ t = [ui |-> t.ui, out |-> t.out] /\ t.out \in Seq(Message)
      BY <1>1 DEF Servers
    <3>2. /\ opened \in UiRecords /\ opened.state = "open"
          /\ [t.ui[u] EXCEPT !.state = "open"] = opened
      BY <3>1 DEF UiRecords
    <3>3. [t EXCEPT !.ui[u].state = "open"]
            = [t EXCEPT !.ui = [t.ui EXCEPT ![u] = [t.ui[u] EXCEPT !.state = "open"]]]
      BY <3>1
    <3> HIDE DEF opened
    <3> QED
      BY <3>1, <3>2, <3>3 DEF Servers
  <2> HIDE DEF opened
  <2>0. o.ui \in [Uis -> UiRecords]
    BY <2>1 DEF Servers
  <2> HIDE DEF o
  <2>2. /\ r \in Servers /\ r.out = Append(t.out, m) /\ m \in Message
        /\ \A v \in Uis : r.ui[v].state = o.ui[v].state
    <3>1. dataVer \in Versions \cup {NoData} /\ "browse" \in {"browse", "update", "close", "onclose"}
      OBVIOUS
    <3>2. o \in Servers /\ o.out = t.out
      BY <2>1
    <3>3. /\ r \in Servers /\ r.out = Append(o.out, m) /\ m \in Message
          /\ \A v \in Uis : r.ui[v].state = o.ui[v].state
      BY <3>1, <3>2, SendIs
    <3> QED
      BY <3>2, <3>3
  <2>3. m.kind = "browse" /\ m.ui = u
    OBVIOUS
  <2>4. open(s, u) = r
    BY <1>2, <1>4, <2>1
  <2> HIDE DEF m, r
  <2>5. /\ r.ui[u].state = "open"
        /\ \A v \in Uis : v # u => r.ui[v].state = t.ui[v].state /\ ~IsOpen(t, v)
    BY <1>1, <2>1, <2>2 DEF Alone
  <2>6. Agree(r, [sp EXCEPT ![u] = @ + 1], ts, wn, oc, ea)
    BY <1>1, <2>2, <2>3, <2>5, OpenKeeps
  <2> QED
    BY <2>4, <2>5, <2>6
<1> QED
  BY <1>3, <1>4
----------------------------------------------------------------------------
(* The server's steps *)

FromPage == [kind: {"nanoclose", "topic"}, ui: Uis]

\* The types that Agree leaves open.
RestTypes ==
    /\ dataVer \in Versions /\ usable \in Statuses \cup {STATUS_CLOSE}
    /\ toServer \in Seq(FromPage) /\ early \subseteq Uis

UiInv == RestTypes /\ Agree(Server, spawned, toServer, window, onClose, early)

LEMMA UiInvTypes == UiInv => UiTypeOK
<1> SUFFICES ASSUME UiInv PROVE UiTypeOK
  OBVIOUS
<1>1. Server.ui = ui /\ Server.out = toWindow
  BY DEF Server
<1>2. ui \in [Uis -> UiRecords] /\ toWindow \in Seq(Message)
  BY <1>1 DEF UiInv, Agree, Servers
<1>3. onClose \in Uis \cup {NoUi}
  BY DEF UiInv, Agree, WindowRecords
<1> QED
  BY <1>2, <1>3 DEF UiInv, RestTypes, Agree, UiTypeOK, UiRecords, WindowRecords, FromPage

\* A step of the server alone.
LEMMA ServerKeeps ==
    ASSUME UiInv, NEW s, Becomes(s), Agree(s, spawned', toServer', window, onClose, early),
           RestTypes', UNCHANGED windowVars
    PROVE  UiInv'
<1>1. s \in Servers
  BY DEF Agree
<1>2. s = [ui |-> ui', out |-> toWindow']
  BY <1>1 DEF Becomes, Servers
<1>3. Agree([ui |-> ui', out |-> toWindow'], spawned', toServer', window', onClose', early')
  BY <1>2 DEF windowVars
<1> QED
  BY <1>3 DEF UiInv, Server

LEMMA OneIsOpen ==
    ASSUME UiInv
    PROVE  /\ \A u, v \in Opened : u = v
           /\ \A u \in Opened : IsOpen(Server, u) /\ Alone(Server, u)
           /\ \A u \in Uis : u \in Opened <=> IsOpen(Server, u)
           /\ Server \in Servers
<1>1. \A u \in Uis : u \in Opened <=> IsOpen(Server, u)
  BY DEF Opened, IsOpen, Server
<1>2. \A u, v \in Uis : IsOpen(Server, u) /\ IsOpen(Server, v) => u = v
  BY DEF UiInv, Agree, Ends
<1>3. \A u \in Opened : u \in Uis
  BY DEF Opened
<1> QED
  BY <1>1, <1>2, <1>3 DEF Alone, UiInv, Agree

LEMMA OpensKeeps ==
    ASSUME UiInv, NEW s, NEW u \in Uis, Agree(s, spawned, toServer, window, onClose, early),
           Alone(s, u), spawned[u] = 0, Opens(open(s, u), u),
           UNCHANGED <<dataVer, usable, toServer, windowVars>>
    PROVE  UiInv'
<1>1. /\ dataVer \in Versions /\ usable \in Statuses \cup {STATUS_CLOSE}
      /\ toServer' = toServer /\ RestTypes'
  BY DEF UiInv, RestTypes, windowVars
<1> DEFINE sp == [spawned EXCEPT ![u] = IF open(s, u).ui[u].state = "open" THEN @ + 1 ELSE @]
<1>2. Agree(open(s, u), sp, toServer, window, onClose, early)
  BY <1>1, OpenIs
<1>3. spawned' = sp /\ Becomes(open(s, u))
  BY DEF Opens
<1> HIDE DEF sp
<1>4. Agree(open(s, u), spawned', toServer', window, onClose, early)
  BY <1>1, <1>2, <1>3
<1> QED
  BY <1>1, <1>3, <1>4, ServerKeeps

LEMMA InteractKeeps ==
    ASSUME UiInv, NEW u \in Uis,
           \/ InteractNew(u) \/ InteractReinitialize(u) \/ \E x \in Uis : InteractForceOpen(x, u)
    PROVE  UiInv'
<1>1. Agree(Server, spawned, toServer, window, onClose, early)
  BY DEF UiInv
<1>2. ui[u].state = "unused" => spawned[u] = 0
  BY <1>1 DEF Agree, Server
<1>3. CASE InteractNew(u)
  <2>1. Alone(Server, u)
    BY <1>3, OneIsOpen DEF InteractNew, Alone
  <2> QED
    BY <1>1, <1>2, <1>3, <2>1, OpensKeeps DEF InteractNew, New
<1>4. CASE InteractReinitialize(u)
  <2>1. Alone(Server, u)
    BY <1>4, OneIsOpen DEF InteractReinitialize
  <2> QED
    BY <1>1, <1>4, <2>1, OpensKeeps DEF InteractReinitialize
<1>5. ASSUME NEW x \in Uis, InteractForceOpen(x, u) PROVE UiInv'
  <2>1. Alone(Server, x)
    BY <1>5, OneIsOpen DEF InteractForceOpen
  <2>2. /\ Agree(close(Server, x), spawned, toServer, window, onClose, early)
        /\ \A v \in Uis : ~IsOpen(close(Server, x), v)
    BY <1>1, <2>1, CloseIs
  <2>3. Alone(close(Server, x), u)
    BY <2>2 DEF Alone
  <2>4. /\ ui[u].state = "unused" /\ Opens(open(close(Server, x), u), u)
        /\ UNCHANGED <<dataVer, usable, toServer, windowVars>>
    BY <1>5 DEF InteractForceOpen, New
  <2> QED
    BY <1>2, <2>2, <2>3, <2>4, OpensKeeps
<1> QED
  BY <1>3, <1>4, <1>5

LEMMA ProcessKeeps ==
    ASSUME UiInv, NEW u \in Uis,
           InteractFocus(u) \/ Process(u, FALSE) \/ Process(u, TRUE) \/ CloseUi(u)
    PROVE  UiInv'
<1>1. /\ Agree(Server, spawned, toServer, window, onClose, early)
      /\ dataVer \in Versions /\ usable \in Statuses \cup {STATUS_CLOSE}
  BY DEF UiInv, RestTypes
<1>2. /\ u \in Opened
      /\ UNCHANGED <<dataVer, usable, spawned, toServer, windowVars>>
  BY DEF InteractFocus, Process, CloseUi
<1>3. Alone(Server, u) /\ RestTypes'
  BY <1>2, OneIsOpen DEF UiInv, RestTypes, windowVars
<1>4. Becomes(push_data(Server, u)) \/ Becomes(try_update(Server, u, FALSE))
         \/ Becomes(try_update(Server, u, TRUE)) \/ Becomes(close(Server, u))
  BY DEF InteractFocus, Process, CloseUi
<1>5. /\ Agree(push_data(Server, u), spawned, toServer, window, onClose, early)
      /\ Agree(close(Server, u), spawned, toServer, window, onClose, early)
  BY <1>1, <1>3, PushDataIs, CloseIs
<1>6. ASSUME NEW update \in BOOLEAN
      PROVE  Agree(try_update(Server, u, update), spawned, toServer, window, onClose, early)
  BY <1>1, <1>3, TryUpdateIs
<1>7. /\ Agree(try_update(Server, u, FALSE), spawned, toServer, window, onClose, early)
      /\ Agree(try_update(Server, u, TRUE), spawned, toServer, window, onClose, early)
  <2>1. TRUE \in BOOLEAN /\ FALSE \in BOOLEAN
    OBVIOUS
  <2> QED
    BY <1>6, <2>1, Zenon
<1> QED
  BY <1>2, <1>3, <1>4, <1>5, <1>7, ServerKeeps

LEMMA OnCloseWinsetKeeps == ASSUME UiInv, NEW u \in Uis, OnCloseWinset(u) PROVE UiInv'
<1> DEFINE m == [kind |-> "onclose", ui |-> u, ver |-> NoData]
           t == [ui |-> ui, out |-> Append(toWindow, m)]
<1>1. /\ Agree(Server, spawned, toServer, window, onClose, early)
      /\ Server \in Servers /\ spawned \in [Uis -> 0..1]
      /\ spawned[u] > 0 /\ spawned' = [spawned EXCEPT ![u] = @ - 1]
      /\ toServer' = toServer /\ UNCHANGED windowVars /\ ui' = ui
      /\ Server.ui = ui /\ Server.out = toWindow
  BY DEF UiInv, Agree, OnCloseWinset, Server
<1>2. spawned[u] = 1 /\ spawned' \in [Uis -> 0..1] /\ \A v \in Uis : v # u => spawned'[v] = spawned[v]
  BY <1>1
<1>3. RestTypes' /\ ui[u].state # "unused"
  BY <1>1, <1>2 DEF UiInv, RestTypes, OnCloseWinset, windowVars, Agree
<1>4. CASE ui[u].state = "closed"
  <2>1. toWindow' = toWindow
    BY <1>4 DEF OnCloseWinset
  <2>2. PICK owner : /\ Owners(Server.out, window, owner) /\ NoneBetween(Server.out, owner)
                     /\ Ends(Server, spawned, toServer, onClose, early, owner[Len(Server.out)])
    BY <1>1 DEF Agree
  <2>3. Ends(Server, spawned', toServer, onClose, early, owner[Len(Server.out)])
    BY <1>1, <1>2, <1>4, <2>2 DEF Ends, IsOpen
  <2>4. \A v \in Uis : Server.ui[v].state = "unused" => spawned'[v] = 0
    BY <1>1, <1>2, <1>4 DEF Agree
  <2>5. Agree(Server, spawned', toServer', window, onClose, early)
    BY <1>1, <1>2, <2>2, <2>3, <2>4 DEF Agree
  <2>6. Becomes(Server)
    BY <1>1, <2>1 DEF Becomes
  <2> QED
    BY <1>1, <1>3, <2>5, <2>6, ServerKeeps
<1>5. CASE ui[u].state # "closed"
  <2>1. toWindow' = Append(toWindow, m)
    BY <1>5 DEF OnCloseWinset
  <2>2. IsOpen(Server, u)
    BY <1>1, <1>3, <1>5 DEF IsOpen, Servers, UiRecords
  <2>3. m \in Message /\ m.kind = "onclose" /\ m.ui = u
    BY DEF Message
  <2> HIDE DEF m
  <2>4. t \in Servers /\ t.ui = Server.ui /\ t.out = Append(Server.out, m)
    BY <1>1, <2>3 DEF Servers
  <2>5. Becomes(t)
    BY <1>1, <2>1 DEF Becomes
  <2> HIDE DEF t
  <2>6. Agree(t, spawned', toServer, window, onClose, early)
    <3>1. \A tp \in [Uis -> 0..1] :
            (\A v \in Uis : v # u => tp[v] = spawned[v])
              => Agree(t, tp, toServer, window, onClose, early)
      BY <1>1, <2>2, <2>3, <2>4, WinsetKeeps
    <3> QED
      BY <1>2, <3>1
  <2> QED
    BY <1>1, <1>3, <2>5, <2>6, ServerKeeps
<1> QED
  BY <1>4, <1>5

\* What the page has sent is taken from the stream: a close of the ui that is open closes it.
LEMMA HeardKeeps ==
    ASSUME NEW s, NEW sp, NEW ts \in Seq(FromPage), NEW wn, NEW oc, NEW ea, ts # <<>>,
           Agree(s, sp, ts, wn, oc, ea),
           ~IsOpen(s, Head(ts).ui) \/ Head(ts).kind = "topic"
    PROVE  Agree(s, sp, Tail(ts), wn, oc, ea)
<1>1. PICK owner : /\ Owners(s.out, wn, owner) /\ NoneBetween(s.out, owner)
                   /\ Ends(s, sp, ts, oc, ea, owner[Len(s.out)])
  BY DEF Agree
<1>2. /\ Len(ts) \in Nat /\ Len(ts) >= 1 /\ Head(ts) = ts[1] /\ Len(Tail(ts)) = Len(ts) - 1
      /\ \A i \in 1..(Len(ts) - 1) : Tail(ts)[i] = ts[i + 1]
  OBVIOUS
<1>3. ASSUME NEW u \in Uis, IsOpen(s, u), Gone(u, ts, ea) PROVE Gone(u, Tail(ts), ea)
  <2>1. CASE u \in ea
    BY <2>1 DEF Gone
  <2>2. ASSUME NEW i \in 1..Len(ts), ts[i] = [kind |-> "nanoclose", ui |-> u]
        PROVE  Gone(u, Tail(ts), ea)
    <3>1. i # 1
      BY <1>2, <1>3, <2>2
    <3>2. i - 1 \in 1..(Len(ts) - 1) /\ Tail(ts)[i - 1] = ts[i]
      BY <1>2, <3>1
    <3> QED
      BY <1>2, <2>2, <3>2 DEF Gone
  <2> QED
    BY <1>3, <2>1, <2>2 DEF Gone
<1>4. Ends(s, sp, Tail(ts), oc, ea, owner[Len(s.out)])
  BY <1>1, <1>3 DEF Ends
<1> QED
  BY <1>1, <1>4 DEF Agree

LEMMA FromWindowKeeps == ASSUME UiInv, FromWindow PROVE UiInv'
<1> DEFINE m == Head(toServer)
<1>1. /\ Agree(Server, spawned, toServer, window, onClose, early)
      /\ toServer \in Seq(FromPage) /\ toServer # <<>> /\ toServer' = Tail(toServer)
      /\ usable' = usable /\ spawned' = spawned /\ UNCHANGED windowVars
      /\ Server.ui = ui /\ Server.out = toWindow
      /\ dataVer \in Versions /\ usable \in Statuses \cup {STATUS_CLOSE} /\ early \subseteq Uis
  BY DEF UiInv, RestTypes, FromWindow, Server
<1>2. m \in FromPage /\ m.ui \in Uis /\ toServer' \in Seq(FromPage)
  <2>1. m \in FromPage /\ Tail(toServer) \in Seq(FromPage)
    BY <1>1
  <2> QED
    BY <1>1, <2>1 DEF FromPage
<1>3. ASSUME dataVer' \in Versions PROVE RestTypes'
  BY <1>1, <1>2, <1>3 DEF RestTypes, windowVars
<1>4. CASE ui[m.ui].state = "closed" /\ UNCHANGED <<serverVars, dataVer>>
  <2>1. Agree(Server, spawned, toServer', window, onClose, early)
    BY <1>1, <1>2, <1>4, HeardKeeps DEF IsOpen
  <2>2. Becomes(Server)
    BY <1>1, <1>4 DEF Becomes, serverVars
  <2> QED
    BY <1>1, <1>3, <1>4, <2>1, <2>2, ServerKeeps
<1>5. CASE m.kind = "nanoclose" /\ ui[m.ui].state = "open" /\ Becomes(close(Server, m.ui)) /\ UNCHANGED dataVer
  <2>1. Alone(Server, m.ui)
    BY <1>1, <1>2, <1>5, OneIsOpen DEF IsOpen, Opened
  <2>2. /\ Agree(close(Server, m.ui), spawned, toServer, window, onClose, early)
        /\ \A v \in Uis : ~IsOpen(close(Server, m.ui), v)
    BY <1>1, <1>2, <2>1, CloseIs
  <2>3. Agree(close(Server, m.ui), spawned, toServer', window, onClose, early)
    BY <1>1, <1>2, <2>2, HeardKeeps
  <2> QED
    BY <1>1, <1>3, <1>5, <2>3, ServerKeeps
<1>6. CASE m.kind = "topic" /\ ui[m.ui].state = "open" /\ Topic(m.ui)
  <2> DEFINE t == update_status(Server, m.ui, FALSE)
  <2>1. Alone(Server, m.ui)
    BY <1>1, <1>2, <1>6, OneIsOpen DEF IsOpen, Opened
  <2>2. Agree(Server, spawned, toServer', window, onClose, early)
    BY <1>1, <1>6, HeardKeeps
  <2>3. Agree(t, spawned, toServer', window, onClose, early)
    <3>1. FALSE \in BOOLEAN
      OBVIOUS
    <3> QED
      BY <1>1, <1>2, <2>1, <2>2, <3>1, UpdateStatusIs
  <2>4. \/ Becomes(t) /\ UNCHANGED dataVer
        \/ /\ dataVer' \in {dataVer, dataVer + 1} \cap 0..MaxChanges
           /\ Becomes(Send(t, "update", m.ui, dataVer'))
    BY <1>6 DEF Topic
  <2> HIDE DEF t
  <2>5. CASE Becomes(t) /\ UNCHANGED dataVer
    BY <1>1, <1>3, <2>3, <2>5, ServerKeeps
  <2>6. CASE /\ dataVer' \in {dataVer, dataVer + 1} \cap 0..MaxChanges
             /\ Becomes(Send(t, "update", m.ui, dataVer'))
    <3>1. dataVer' \in Versions
      BY <2>6, NanoAssumption, VerAssumption DEF Versions
    <3>2. Agree(Send(t, "update", m.ui, dataVer'), spawned, toServer', window, onClose, early)
      BY <1>2, <2>3, <3>1, SendKeeps
    <3> QED
      BY <1>1, <1>3, <2>6, <3>1, <3>2, ServerKeeps
  <2> QED
    BY <2>4, <2>5, <2>6
<1> QED
  BY <1>4, <1>5, <1>6 DEF FromWindow
----------------------------------------------------------------------------
(* The window's steps *)

LEMMA WindowIs ==
    \A u \in Uis \cup {NoUi}, y \in BOOLEAN, v \in Versions \cup {NoData} :
      [src |-> u, up |-> y, ver |-> v] \in WindowRecords
  BY DEF WindowRecords

\* The first message has arrived: the owner of the window is the one it leaves.
LEMMA OneLess ==
    ASSUME NEW out \in Seq(Message), out # <<>>, NEW wn, NEW wp, NEW owner,
           Owners(out, wn, owner), NoneBetween(out, owner), wp.src = owner[1]
    PROVE  \E less :
             /\ Owners(Tail(out), wp, less) /\ NoneBetween(Tail(out), less)
             /\ less[Len(Tail(out))] = owner[Len(out)]
<1> DEFINE n == Len(out) - 1
           less == [i \in 0..n |-> owner[i + 1]]
<1>1. /\ n \in Nat /\ Len(Tail(out)) = n /\ Len(out) = n + 1
      /\ \A i \in 1..n : Tail(out)[i] = out[i + 1]
  OBVIOUS
<1> HIDE DEF n
<1>2. owner \in [0..(n + 1) -> Uis \cup {NoUi}]
  BY <1>1 DEF Owners
<1>3. /\ less \in [0..n -> Uis \cup {NoUi}]
      /\ \A i \in 0..n : less[i] = owner[i + 1]
  BY <1>1, <1>2
<1> HIDE DEF less
<1>4. less[0] = wp.src
  BY <1>1, <1>3
<1>5. ASSUME NEW i \in 1..n
      PROVE  /\ Tail(out)[i].kind = "browse" => less[i] = Tail(out)[i].ui
             /\ Tail(out)[i].kind = "close" => less[i] = NoUi
  <2>1. i + 1 \in 1..(n + 1) /\ i \in 0..n
    BY <1>1
  <2>2. /\ out[i + 1].kind = "browse" => owner[i + 1] = out[i + 1].ui
        /\ out[i + 1].kind = "close" => owner[i + 1] = NoUi
    BY <1>1, <2>1, OwnerAt
  <2> QED
    BY <1>1, <1>3, <2>1, <2>2
<1>6. ASSUME NEW i \in 0..n, NEW j \in 0..n, i <= j,
             \A k \in (i + 1)..j : ~Windows(Tail(out)[k])
      PROVE  less[i] = less[j]
  <2>1. i + 1 \in 0..(n + 1) /\ j + 1 \in 0..(n + 1) /\ i + 1 <= j + 1
    BY <1>1, <1>6
  <2>2. ASSUME NEW k \in (i + 1 + 1)..(j + 1) PROVE ~Windows(out[k])
    <3>1. k - 1 \in (i + 1)..j /\ k - 1 \in 1..n /\ (k - 1) + 1 = k
      BY <1>1
    <3> QED
      BY <1>1, <1>6, <3>1
  <2> QED
    BY <1>1, <1>3, <2>1, <2>2 DEF Owners
<1>7. Owners(Tail(out), wp, less)
  BY <1>1, <1>3, <1>4, <1>5, <1>6 DEF Owners
<1>8. NoneBetween(Tail(out), less)
  <2> SUFFICES ASSUME NEW i \in 1..n, Tail(out)[i].kind \in {"browse", "onclose"}
               PROVE  less[i - 1] \in {Tail(out)[i].ui, NoUi}
    BY <1>1 DEF NoneBetween
  <2>1. i + 1 \in 1..(n + 1) /\ i - 1 \in 0..n /\ (i - 1) + 1 = i /\ (i + 1) - 1 = i
    BY <1>1
  <2> QED
    BY <1>1, <1>3, <2>1 DEF NoneBetween
<1> QED
  BY <1>1, <1>3, <1>7, <1>8

\* The command of u that is underway, or has arrived, still is or has.
LEMMA CommandArrives ==
    ASSUME NEW u \in Uis, NEW out \in Seq(Message), out # <<>>, NEW wn, NEW owner,
           Owners(out, wn, owner), NoneBetween(out, owner), owner[Len(out)] = u,
           NEW oc \in {NoUi, wn.src}, HasCommand(u, out, oc),
           NEW op, Head(out).kind = "update" => op = oc,
           Head(out).kind = "onclose" /\ wn.src # NoUi => op = Head(out).ui
    PROVE  HasCommand(u, Tail(out), op)
<1> DEFINE n == Len(out) - 1
<1>1. /\ n \in Nat /\ Len(Tail(out)) = n /\ Len(out) = n + 1 /\ Head(out) = out[1]
      /\ \A i \in 1..n : Tail(out)[i] = out[i + 1]
      /\ out[1] \in Message
  OBVIOUS
<1> HIDE DEF n
<1>2. out[1].kind \in {"browse", "update", "close", "onclose"} /\ u # NoUi /\ owner[0] = wn.src
  BY <1>1, NanoAssumption DEF Message, Owners
<1>3. CASE oc = u /\ \A k \in 1..Len(out) : ~Windows(out[k])
  <2>1. ~Windows(out[1]) /\ \A k \in 1..n : ~Windows(Tail(out)[k])
    BY <1>1, <1>3
  <2>2. out[1].kind \in {"update", "onclose"} /\ wn.src = u
    BY <1>2, <1>3, <2>1 DEF Windows
  <2>3. out[1].kind = "onclose" => out[1].ui = u
    BY <1>1, <1>2, <2>2 DEF NoneBetween
  <2>4. op = u
    BY <1>1, <1>2, <1>3, <2>2, <2>3
  <2> QED
    BY <1>1, <2>1, <2>4 DEF HasCommand
<1>4. ASSUME NEW j \in 1..Len(out), out[j].kind = "onclose", out[j].ui = u,
             \A k \in (j + 1)..Len(out) : ~Windows(out[k])
      PROVE  HasCommand(u, Tail(out), op)
  <2>1. CASE j = 1
    <3>1. ~Windows(out[1])
      BY <1>4, <2>1 DEF Windows
    <3>2. \A k \in (0 + 1)..Len(out) : ~Windows(out[k])
      BY <1>1, <1>4, <2>1, <3>1
    <3>3. owner[0] = owner[Len(out)]
      <4>1. 0 \in 0..Len(out) /\ Len(out) \in 0..Len(out) /\ 0 <= Len(out)
        BY <1>1
      <4> QED
        BY <3>2, <4>1 DEF Owners
    <3>4. op = u
      BY <1>1, <1>2, <1>4, <2>1, <3>3
    <3>5. \A k \in 1..n : ~Windows(Tail(out)[k])
      BY <1>1, <3>2
    <3> QED
      BY <1>1, <3>4, <3>5 DEF HasCommand
  <2>2. CASE j # 1
    <3>1. j - 1 \in 1..n /\ Tail(out)[j - 1] = out[j]
      BY <1>1, <2>2
    <3>2. ASSUME NEW k \in ((j - 1) + 1)..n PROVE ~Windows(Tail(out)[k])
      <4>1. k \in 1..n /\ k + 1 \in (j + 1)..Len(out)
        BY <1>1
      <4> QED
        BY <1>1, <1>4, <4>1
    <3> QED
      BY <1>1, <1>4, <3>1, <3>2 DEF HasCommand
  <2> QED
    BY <2>1, <2>2
<1> QED
  BY <1>3, <1>4 DEF HasCommand

\* What is to be heard of a closed window is not forgotten when more is sent or closed.
LEMMA GoneStays ==
    ASSUME NEW u, NEW ts \in Seq(FromPage), NEW m, NEW ea, NEW ep, ea \subseteq ep,
           Gone(u, ts, ea)
    PROVE  Gone(u, ts, ep) /\ (m \in FromPage => Gone(u, Append(ts, m), ep))
<1>1. ASSUME m \in FromPage
      PROVE  /\ Len(ts) \in Nat /\ Len(Append(ts, m)) = Len(ts) + 1
             /\ \A i \in 1..Len(ts) : i \in 1..(Len(ts) + 1) /\ Append(ts, m)[i] = ts[i]
  BY <1>1
<1> QED
  BY <1>1 DEF Gone

LEMMA ToWindowKeeps == ASSUME UiInv, ToWindow PROVE UiInv'
<1> DEFINE m == Head(toWindow)
           t == [ui |-> ui, out |-> Tail(toWindow)]
<1>1. /\ Agree(Server, spawned, toServer, window, onClose, early)
      /\ Server.ui = ui /\ Server.out = toWindow
      /\ toWindow # <<>> /\ toWindow' = Tail(toWindow)
      /\ dataVer' = dataVer /\ usable' = usable /\ ui' = ui /\ spawned' = spawned /\ early' = early
      /\ toServer \in Seq(FromPage) /\ early \subseteq Uis
      /\ dataVer \in Versions /\ usable \in Statuses \cup {STATUS_CLOSE}
  BY DEF UiInv, RestTypes, ToWindow, Server
<1>2. /\ ui \in [Uis -> UiRecords] /\ toWindow \in Seq(Message)
      /\ window \in WindowRecords /\ (window.src = NoUi => window = NoWindow)
      /\ onClose \in {NoUi, window.src}
      /\ spawned \in [Uis -> 0..1] /\ \A u \in Uis : ui[u].state = "unused" => spawned[u] = 0
  BY <1>1 DEF Agree, Servers
<1>3. /\ m \in Message /\ Tail(toWindow) \in Seq(Message) /\ m = toWindow[1]
      /\ Len(toWindow) \in Nat /\ 1 \in 1..Len(toWindow)
  BY <1>1, <1>2
<1>4. PICK owner : /\ Owners(toWindow, window, owner) /\ NoneBetween(toWindow, owner)
                   /\ Ends(Server, spawned, toServer, onClose, early, owner[Len(toWindow)])
  BY <1>1 DEF Agree
<1>5. /\ owner[0] = window.src
      /\ m.kind = "browse" => owner[1] = m.ui /\ owner[0] \in {m.ui, NoUi}
      /\ m.kind = "close" => owner[1] = NoUi
      /\ m.kind = "onclose" => owner[0] \in {m.ui, NoUi}
      /\ m.kind \in {"update", "onclose"} => owner[1] = owner[0]
  <2>1. /\ owner[0] = window.src
        /\ m.kind = "browse" => owner[1] = m.ui
        /\ m.kind = "close" => owner[1] = NoUi
    <3>1. owner[0] = window.src
      BY <1>4 DEF Owners
    <3> QED
      BY <1>3, <1>4, <3>1, OwnerAt
  <2>2. m.kind \in {"browse", "onclose"} => owner[0] \in {m.ui, NoUi}
    <3>1. toWindow[1].kind \in {"browse", "onclose"} => owner[1 - 1] \in {toWindow[1].ui, NoUi}
      BY <1>3, <1>4 DEF NoneBetween
    <3> QED
      BY <1>3, <3>1
  <2>3. ASSUME m.kind \in {"update", "onclose"} PROVE owner[0] = owner[1]
    <3>1. \A k \in (0 + 1)..1 : ~Windows(toWindow[k])
      BY <1>3, <2>3 DEF Windows
    <3>2. 0 \in 0..Len(toWindow) /\ 1 \in 0..Len(toWindow) /\ 0 <= 1
      BY <1>3
    <3> QED
      BY <1>4, <3>1, <3>2 DEF Owners
  <2> QED
    BY <2>1, <2>2, <2>3
<1>6. /\ window' \in WindowRecords /\ (window'.src = NoUi => window' = NoWindow)
      /\ window'.src = owner[1] /\ onClose' \in {NoUi, window'.src}
      /\ m.kind = "update" => onClose' = onClose
      /\ m.kind = "onclose" /\ window.src # NoUi => onClose' = m.ui
      /\ toServer' \in Seq(FromPage)
      /\ \A u \in Uis : Gone(u, toServer, early) => Gone(u, toServer', early)
  <2>1. m.ui \in Uis /\ m.ver \in Versions \cup {NoData}
    BY <1>3 DEF Message
  <2>2. CASE m.kind = "browse" /\ browse(m) /\ UNCHANGED <<onClose, toServer>>
    <3>1. FALSE \in BOOLEAN /\ m.ui \in Uis \cup {NoUi}
      BY <2>1
    <3>2. [src |-> m.ui, up |-> FALSE, ver |-> m.ver] \in WindowRecords
      BY <2>1, <3>1, WindowIs, Zenon
    <3>3. window' = [src |-> m.ui, up |-> FALSE, ver |-> m.ver]
      BY <2>2 DEF browse
    <3>4. window'.src = m.ui
      BY <3>3
    <3> QED
      BY <1>1, <1>2, <1>5, <2>1, <2>2, <3>2, <3>3, <3>4, NanoAssumption
  <2>3. CASE m.kind = "update" /\ ToBrowser(m) /\ UNCHANGED <<onClose, toServer>>
    <3>1. window' \in WindowRecords /\ window'.src = window.src
            /\ (window'.src = NoUi => window' = NoWindow)
      <4>1. CASE window' = window
        BY <1>2, <4>1
      <4>2. CASE window.up /\ window' = [window EXCEPT !.ver = m.ver]
        <5>1. window # NoWindow
          BY <4>2 DEF NoWindow
        <5>2. window' \in WindowRecords /\ window'.src = window.src
          BY <1>2, <2>1, <4>2 DEF WindowRecords
        <5> QED
          BY <1>2, <5>1, <5>2
      <4> QED
        BY <2>3, <4>1, <4>2 DEF ToBrowser
    <3> QED
      BY <1>1, <1>2, <1>5, <2>3, <3>1
  <2>4. CASE /\ m.kind = "onclose" /\ UNCHANGED <<window, toServer>>
             /\ onClose' = IF window = NoWindow THEN NoUi ELSE m.ui
    <3>1. NoWindow.src = NoUi
      BY DEF NoWindow
    <3> QED
      BY <1>1, <1>2, <1>5, <2>1, <2>4, <3>1, NanoAssumption
  <2>5. CASE /\ m.kind = "close" /\ window' = NoWindow /\ onClose' = NoUi
             /\ Nanoclose \/ UNCHANGED toServer
    <3>1. NoWindow \in WindowRecords /\ NoWindow.src = NoUi
      <4>1. FALSE \in BOOLEAN /\ NoUi \in Uis \cup {NoUi} /\ NoData \in Versions \cup {NoData}
        OBVIOUS
      <4>2. NoWindow \in WindowRecords
        BY <4>1, WindowIs, Zenon DEF NoWindow
      <4> QED
        BY <4>2 DEF NoWindow
    <3>2. onClose # NoUi => onClose \in Uis /\ [kind |-> "nanoclose", ui |-> onClose] \in FromPage
      BY <1>2 DEF WindowRecords, FromPage
    <3>3. toServer' = toServer
            \/ /\ [kind |-> "nanoclose", ui |-> onClose] \in FromPage
               /\ toServer' = Append(toServer, [kind |-> "nanoclose", ui |-> onClose])
      BY <2>5, <3>2 DEF Nanoclose
    <3>4. /\ toServer' \in Seq(FromPage)
          /\ \A u \in Uis : Gone(u, toServer, early) => Gone(u, toServer', early)
      <4> DEFINE c == [kind |-> "nanoclose", ui |-> onClose]
      <4>1. ASSUME c \in FromPage
            PROVE  /\ Append(toServer, c) \in Seq(FromPage)
                   /\ \A u \in Uis : Gone(u, toServer, early) => Gone(u, Append(toServer, c), early)
        <5> HIDE DEF c
        <5> QED
          BY <1>1, <4>1, GoneStays
      <4> HIDE DEF c
      <4> QED
        BY <1>1, <3>3, <4>1 DEF c
    <3> QED
      BY <1>5, <2>5, <3>1, <3>4
  <2> QED
    BY <2>2, <2>3, <2>4, <2>5 DEF ToWindow
<1>7. PICK less : /\ Owners(Tail(toWindow), window', less) /\ NoneBetween(Tail(toWindow), less)
                  /\ less[Len(Tail(toWindow))] = owner[Len(toWindow)]
  <2>1. \A wp : wp.src = owner[1] =>
          \E less : /\ Owners(Tail(toWindow), wp, less) /\ NoneBetween(Tail(toWindow), less)
                    /\ less[Len(Tail(toWindow))] = owner[Len(toWindow)]
    BY <1>1, <1>2, <1>4, OneLess
  <2> QED
    BY <1>6, <2>1
<1>8. t \in Servers /\ t.ui = Server.ui /\ t.out = Tail(toWindow)
  BY <1>1, <1>2, <1>3 DEF Servers
<1> HIDE DEF t
<1>9. Ends(t, spawned, toServer', onClose', early, owner[Len(toWindow)])
  <2>1. \A u \in Uis : IsOpen(t, u) <=> IsOpen(Server, u)
    BY <1>8 DEF IsOpen
  <2>2. ASSUME NEW u \in Uis, owner[Len(toWindow)] = u, HasCommand(u, toWindow, onClose)
        PROVE  HasCommand(u, t.out, onClose')
    <3>1. \A op : /\ Head(toWindow).kind = "update" => op = onClose
                  /\ Head(toWindow).kind = "onclose" /\ window.src # NoUi => op = Head(toWindow).ui
                  => HasCommand(u, Tail(toWindow), op)
      BY <1>1, <1>2, <1>4, <2>2, CommandArrives
    <3> QED
      BY <1>6, <1>8, <3>1
  <2> QED
    BY <1>1, <1>4, <1>6, <1>8, <2>1, <2>2 DEF Ends
<1>10. Agree(t, spawned, toServer', window', onClose', early)
  BY <1>1, <1>2, <1>6, <1>7, <1>8, <1>9 DEF Agree
<1>11. RestTypes'
  BY <1>1, <1>6 DEF RestTypes
<1>12. Server' = t
  BY <1>1 DEF Server, t
<1> QED
  BY <1>1, <1>10, <1>11, <1>12 DEF UiInv

\* The user closes a window: what is underway opens it or finds none.
LEMMA UserClosesKeeps == ASSUME UiInv, User, UserCloses PROVE UiInv'
<1> DEFINE n == Len(toWindow)
<1>1. /\ Agree(Server, spawned, toServer, window, onClose, early)
      /\ Server.ui = ui /\ Server.out = toWindow
      /\ toServer = <<>> /\ window # NoWindow /\ window' = NoWindow /\ onClose' = NoUi
      /\ dataVer' = dataVer /\ usable' = usable /\ ui' = ui /\ spawned' = spawned
      /\ toWindow' = toWindow
      /\ toServer \in Seq(FromPage) /\ early \subseteq Uis
      /\ dataVer \in Versions /\ usable \in Statuses \cup {STATUS_CLOSE}
  BY DEF UiInv, RestTypes, User, UserCloses, Server, serverVars
<1>2. /\ ui \in [Uis -> UiRecords] /\ toWindow \in Seq(Message) /\ Server \in Servers
      /\ window.src \in Uis /\ onClose \in {NoUi, window.src}
      /\ spawned \in [Uis -> 0..1] /\ \A u \in Uis : ui[u].state = "unused" => spawned[u] = 0
  BY <1>1 DEF Agree, Servers, WindowRecords
<1>3. n \in Nat
  BY <1>2
<1> HIDE DEF n
<1>4. PICK owner : /\ Owners(toWindow, window, owner) /\ NoneBetween(toWindow, owner)
                   /\ Ends(Server, spawned, toServer, onClose, early, owner[n])
  BY <1>1 DEF Agree, n
<1> DEFINE Untouched(i) == \A k \in 1..i : ~Windows(toWindow[k])
           left == [i \in 0..n |-> IF Untouched(i) THEN NoUi ELSE owner[i]]
<1>5. owner \in [0..n -> Uis \cup {NoUi}] /\ owner[0] = window.src
  BY <1>4 DEF Owners, n
<1>6. /\ left \in [0..n -> Uis \cup {NoUi}] /\ left[0] = NoUi
      /\ \A i \in 0..n : left[i] = IF Untouched(i) THEN NoUi ELSE owner[i]
  BY <1>3, <1>5
<1> HIDE DEF left
<1>7. ASSUME NEW i \in 1..n
      PROVE  /\ toWindow[i].kind = "browse" => left[i] = toWindow[i].ui
             /\ toWindow[i].kind = "close" => left[i] = NoUi
  <2>1. /\ toWindow[i].kind = "browse" => owner[i] = toWindow[i].ui
        /\ toWindow[i].kind = "close" => owner[i] = NoUi
    BY <1>4, OwnerAt DEF n
  <2>2. Untouched(i) => ~Windows(toWindow[i])
    BY <1>3
  <2> QED
    BY <1>3, <1>6, <2>1, <2>2 DEF Windows
<1>8. ASSUME NEW i \in 0..n, NEW j \in 0..n, i <= j,
             \A k \in (i + 1)..j : ~Windows(toWindow[k])
      PROVE  left[i] = left[j]
  <2>1. owner[i] = owner[j]
    BY <1>4, <1>8 DEF Owners, n
  <2>2. Untouched(i) <=> Untouched(j)
    BY <1>3, <1>8
  <2> QED
    BY <1>6, <2>1, <2>2
<1>9. NoWindow.src = NoUi /\ NoWindow \in WindowRecords
  <2>1. FALSE \in BOOLEAN /\ NoUi \in Uis \cup {NoUi} /\ NoData \in Versions \cup {NoData}
    OBVIOUS
  <2>2. NoWindow \in WindowRecords
    BY <2>1, WindowIs, Zenon DEF NoWindow
  <2> QED
    BY <2>2 DEF NoWindow
<1>10. Owners(toWindow, window', left)
  BY <1>1, <1>6, <1>7, <1>8, <1>9 DEF Owners, n
<1>11. NoneBetween(toWindow, left)
  <2> SUFFICES ASSUME NEW i \in 1..n, toWindow[i].kind \in {"browse", "onclose"}
               PROVE  left[i - 1] \in {toWindow[i].ui, NoUi}
    BY DEF NoneBetween, n
  <2>1. owner[i - 1] \in {toWindow[i].ui, NoUi} /\ i - 1 \in 0..n
    BY <1>3, <1>4 DEF NoneBetween, n
  <2> QED
    BY <1>6, <2>1
<1>12. /\ toServer' \in Seq(FromPage) /\ early' \subseteq Uis /\ early \subseteq early'
       /\ Gone(window.src, toServer', early')
       /\ \A u \in Uis : Gone(u, toServer, early) => Gone(u, toServer', early')
  <2>1. CASE onClose = NoUi
    BY <1>1, <1>2, <2>1 DEF UserCloses, Nanoclose, Gone
  <2>2. CASE onClose # NoUi
    <3>1. /\ onClose = window.src /\ early' = early
          /\ toServer' = <<[kind |-> "nanoclose", ui |-> window.src]>>
      BY <1>1, <1>2, <2>2 DEF UserCloses, Nanoclose
    <3>2. [kind |-> "nanoclose", ui |-> window.src] \in FromPage
      BY <1>2 DEF FromPage
    <3>3. /\ toServer' \in Seq(FromPage) /\ Len(toServer') = 1
          /\ toServer'[1] = [kind |-> "nanoclose", ui |-> window.src]
      BY <3>1, <3>2
    <3> QED
      BY <1>1, <3>1, <3>3 DEF Gone
  <2> QED
    BY <2>1, <2>2
<1>13. Ends(Server, spawned, toServer', onClose', early', left[n])
  <2>1. ASSUME NEW u \in Uis, IsOpen(Server, u), owner[n] = u
        PROVE  \/ left[n] = u /\ (spawned[u] = 0 => HasCommand(u, toWindow, onClose'))
               \/ left[n] = NoUi /\ Gone(u, toServer', early')
    <3>1. CASE Untouched(n)
      <4>1. owner[0] = owner[n]
        <5>1. \A k \in (0 + 1)..n : ~Windows(toWindow[k])
          BY <1>3, <3>1
        <5>2. 0 \in 0..n /\ n \in 0..n /\ 0 <= n
          BY <1>3
        <5> QED
          BY <1>4, <5>1, <5>2 DEF Owners, n
      <4> QED
        BY <1>3, <1>5, <1>6, <1>12, <2>1, <3>1, <4>1
    <3>2. CASE ~Untouched(n)
      <4>1. left[n] = u
        BY <1>3, <1>6, <2>1, <3>2
      <4>2. spawned[u] = 0 => HasCommand(u, toWindow, onClose)
        BY <1>1, <1>4, <2>1, NanoAssumption DEF Ends
      <4>3. HasCommand(u, toWindow, onClose) => HasCommand(u, toWindow, onClose')
        BY <3>2 DEF HasCommand, n
      <4> QED
        BY <4>1, <4>2, <4>3
    <3> QED
      BY <3>1, <3>2
  <2>2. ASSUME NEW u \in Uis, IsOpen(Server, u), owner[n] # u
        PROVE  left[n] = NoUi /\ Gone(u, toServer', early')
    BY <1>3, <1>4, <1>6, <1>12, <2>2 DEF Ends
  <2>3. (\A u \in Uis : ~IsOpen(Server, u)) => left[n] = NoUi
    BY <1>3, <1>4, <1>6 DEF Ends
  <2>4. \A u, v \in Uis : IsOpen(Server, u) /\ IsOpen(Server, v) => u = v
    BY <1>4 DEF Ends
  <2> QED
    BY <1>1, <2>1, <2>2, <2>3, <2>4 DEF Ends
<1>14. Agree(Server, spawned, toServer', window', onClose', early')
  BY <1>1, <1>2, <1>9, <1>10, <1>11, <1>13 DEF Agree, n
<1>15. RestTypes' /\ Server' = Server
  BY <1>1, <1>12 DEF RestTypes, Server
<1> QED
  BY <1>1, <1>14, <1>15 DEF UiInv

\* The page comes up, or its user clicks.
LEMMA PageKeeps == ASSUME UiInv, PageUp \/ (User /\ Click) PROVE UiInv'
<1>1. /\ Agree(Server, spawned, toServer, window, onClose, early)
      /\ dataVer' = dataVer /\ usable' = usable /\ ui' = ui /\ spawned' = spawned
      /\ toWindow' = toWindow /\ onClose' = onClose /\ early' = early /\ Server' = Server
      /\ toServer \in Seq(FromPage) /\ early \subseteq Uis
      /\ window \in WindowRecords /\ (window.src = NoUi => window = NoWindow)
  BY DEF UiInv, RestTypes, Agree, PageUp, Click, Server, serverVars, windowVars
<1>2. PICK owner : /\ Owners(Server.out, window, owner) /\ NoneBetween(Server.out, owner)
                   /\ Ends(Server, spawned, toServer, onClose, early, owner[Len(Server.out)])
  BY <1>1 DEF Agree
<1>3. /\ toServer' \in Seq(FromPage)
      /\ \A u \in Uis : Gone(u, toServer, early) => Gone(u, toServer', early')
  <2>1. CASE PageUp
    BY <1>1, <2>1 DEF PageUp
  <2>2. CASE Click
    <3> DEFINE c == [kind |-> "topic", ui |-> window.src]
    <3>1. window # NoWindow
      BY <2>2 DEF Click, NoWindow
    <3>2. c \in FromPage /\ toServer' = Append(toServer, c)
      BY <1>1, <2>2, <3>1 DEF Click, FromPage, WindowRecords
    <3> HIDE DEF c
    <3>3. toServer' \in Seq(FromPage)
      BY <1>1, <3>2
    <3> QED
      BY <1>1, <3>2, <3>3, GoneStays
  <2> QED
    BY <2>1, <2>2
<1>4. /\ window' \in WindowRecords /\ window'.src = window.src
      /\ (window'.src = NoUi => window' = NoWindow)
  <2>1. CASE PageUp
    <3>1. window' = [src |-> window.src, up |-> TRUE, ver |-> window.ver]
      BY <1>1, <2>1 DEF PageUp, WindowRecords
    <3>2. window.src \in Uis \cup {NoUi} /\ TRUE \in BOOLEAN /\ window.ver \in Versions \cup {NoData}
      BY <1>1 DEF WindowRecords
    <3>3. window' \in WindowRecords
      BY <3>1, <3>2, WindowIs, Zenon
    <3> QED
      BY <1>1, <2>1, <3>1, <3>3 DEF PageUp
  <2>2. CASE Click
    BY <1>1, <2>2 DEF Click, windowVars
  <2> QED
    BY <2>1, <2>2
<1>5. Ends(Server, spawned, toServer', onClose, early, owner[Len(Server.out)])
  BY <1>1, <1>2, <1>3 DEF Ends
<1>6. Owners(Server.out, window', owner)
  BY <1>2, <1>4 DEF Owners
<1>7. Agree(Server, spawned, toServer', window', onClose', early')
  BY <1>1, <1>2, <1>4, <1>5, <1>6 DEF Agree
<1> QED
  BY <1>1, <1>3, <1>7 DEF UiInv, RestTypes
----------------------------------------------------------------------------
(* The server and the window agree *)

LEMMA InitKeeps == UiInit => UiInv
<1> SUFFICES ASSUME UiInit PROVE UiInv
  OBVIOUS
<1> DEFINE r == [state |-> "unused", status |-> 2, told |-> TRUE]
           owner == [i \in 0..0 |-> NoUi]
<1>1. ui = [u \in Uis |-> r] /\ toWindow = <<>> /\ Server = [ui |-> ui, out |-> toWindow]
  BY DEF UiInit, Server
<1>2. r \in UiRecords /\ r.state = "unused"
  BY DEF UiRecords, Statuses
<1> HIDE DEF r
<1>3. /\ Server \in Servers /\ \A u \in Uis : Server.ui[u].state = "unused"
      /\ Server.out = <<>> /\ Len(Server.out) = 0
  BY <1>1, <1>2 DEF Servers
<1>4. spawned = [u \in Uis |-> 0] /\ toServer = <<>> /\ early = {} /\ onClose = NoUi
      /\ dataVer = 0 /\ usable = 2 /\ window = NoWindow
  BY DEF UiInit
<1>5. NoWindow.src = NoUi /\ NoWindow \in WindowRecords
  <2>1. FALSE \in BOOLEAN /\ NoUi \in Uis \cup {NoUi} /\ NoData \in Versions \cup {NoData}
    OBVIOUS
  <2>2. NoWindow \in WindowRecords
    BY <2>1, WindowIs, Zenon DEF NoWindow
  <2> QED
    BY <2>2 DEF NoWindow
<1>6. owner \in [0..0 -> Uis \cup {NoUi}] /\ owner[0] = NoUi
  OBVIOUS
<1> HIDE DEF owner
<1>7. Owners(Server.out, window, owner) /\ NoneBetween(Server.out, owner)
  BY <1>3, <1>4, <1>5, <1>6 DEF Owners, NoneBetween
<1>8. Ends(Server, spawned, toServer, onClose, early, owner[Len(Server.out)])
  BY <1>3, <1>6 DEF Ends, IsOpen
<1>9. Agree(Server, spawned, toServer, window, onClose, early)
  BY <1>3, <1>4, <1>5, <1>7, <1>8 DEF Agree
<1>10. RestTypes
  BY <1>4, VerAssumption DEF RestTypes, Versions, Statuses
<1> QED
  BY <1>9, <1>10 DEF UiInv

LEMMA NextKeeps == UiInv /\ [UiNext]_uiVars => UiInv'
<1> SUFFICES ASSUME UiInv, [UiNext]_uiVars PROVE UiInv'
  OBVIOUS
<1>1. CASE User
  <2>1. UserCloses \/ Click
    BY <1>1 DEF User
  <2> QED
    BY <1>1, <2>1, UserClosesKeeps, PageKeeps
<1>2. CASE Change \/ Move \/ UNCHANGED uiVars
  <2>1. /\ Server' = Server
        /\ UNCHANGED <<spawned, toServer, window, onClose, early>>
    BY <1>2 DEF Change, Move, uiVars, Server, serverVars, windowVars
  <2>2. RestTypes'
    <3>1. CASE Change
      BY <2>1, <3>1, NanoAssumption, VerAssumption DEF Change, UiInv, RestTypes, Versions
    <3>2. CASE Move
      BY <2>1, <3>2, NanoAssumption DEF Move, UiInv, RestTypes
    <3>3. CASE UNCHANGED uiVars
      BY <2>1, <3>3 DEF uiVars, UiInv, RestTypes
    <3> QED
      BY <1>2, <3>1, <3>2, <3>3
  <2> QED
    BY <2>1, <2>2 DEF UiInv
<1>3. ASSUME NEW u \in Uis,
             \/ InteractNew(u) \/ \E x \in Uis : InteractForceOpen(x, u)
             \/ InteractFocus(u) \/ InteractReinitialize(u)
             \/ Process(u, FALSE) \/ Process(u, TRUE) \/ CloseUi(u)
             \/ OnCloseWinset(u)
      PROVE  UiInv'
  BY <1>3, InteractKeeps, ProcessKeeps, OnCloseWinsetKeeps
<1>4. CASE FromWindow \/ ToWindow \/ PageUp
  BY <1>4, FromWindowKeeps, ToWindowKeeps, PageKeeps
<1> QED
  BY <1>1, <1>2, <1>3, <1>4 DEF UiNext, Game

LEMMA InvAgrees == UiInv => WindowAgrees
<1> SUFFICES ASSUME UiInv PROVE WindowAgrees
  OBVIOUS
<1>1. UiTypeOK
  BY UiInvTypes
<1>2. OneOpen
  BY OneIsOpen DEF OneOpen
<1>3. /\ Server.out = toWindow /\ Server \in Servers
      /\ \A u \in Uis : u \in Opened <=> IsOpen(Server, u)
  BY OneIsOpen DEF Server
<1>4. PICK owner : /\ Owners(toWindow, window, owner)
                   /\ Ends(Server, spawned, toServer, onClose, early, owner[Len(toWindow)])
  BY <1>3 DEF UiInv, Agree
<1>5. /\ onClose \in {NoUi, window.src} /\ (window.src = NoUi => window = NoWindow)
      /\ window.src \in Uis \cup {NoUi} /\ NoUi \notin Uis
  BY NanoAssumption DEF UiInv, Agree, WindowRecords
<1>6. ASSUME AtRest
      PROVE  /\ owner[Len(toWindow)] = window.src
             /\ \A u \in Uis : /\ Gone(u, toServer, early) => u \in early
                               /\ HasCommand(u, toWindow, onClose) => onClose = u
                               /\ spawned[u] = 0
  <2>1. Len(toWindow) = 0 /\ Len(toServer) = 0
    BY <1>6 DEF AtRest
  <2> QED
    BY <1>4, <1>6, <2>1 DEF Owners, Gone, HasCommand, AtRest
<1>7. OpenHasWindow
  <2> SUFFICES ASSUME AtRest, NEW u \in Opened PROVE window.src = u \/ u \in early
    BY DEF OpenHasWindow
  <2>1. u \in Uis /\ IsOpen(Server, u)
    BY <1>3 DEF Opened
  <2> QED
    BY <1>3, <1>4, <1>6, <2>1 DEF Ends
<1>8. WindowHasOpen
  <2> SUFFICES ASSUME AtRest, window # NoWindow
               PROVE  window.src \in Opened /\ onClose = window.src
    BY DEF WindowHasOpen
  <2>1. window.src \in Uis
    BY <1>5
  <2>2. PICK u \in Uis : IsOpen(Server, u)
    BY <1>4, <1>5, <1>6, <2>1 DEF Ends
  <2>3. window.src = u /\ HasCommand(u, toWindow, onClose)
    BY <1>3, <1>4, <1>5, <1>6, <2>1, <2>2 DEF Ends
  <2> QED
    BY <1>3, <1>6, <2>2, <2>3
<1> QED
  BY <1>1, <1>2, <1>7, <1>8 DEF WindowAgrees

\* Whatever the user and the server do while messages are on their way: at most one ui is
\* open, at rest it has the window and the window has it (open, close, on_close_winset).
THEOREM WindowAgreesHolds == UiSpec => []WindowAgrees
<1>1. UiSpec => []UiInv
  BY InitKeeps, NextKeeps, PTL DEF UiSpec
<1> QED
  BY <1>1, InvAgrees, PTL
-----------------------------------------------------------------------------
(* The chat *)

LEMMA LeastNat ==
    ASSUME NEW S \in SUBSET Nat, S # {}
    PROVE  \E x \in S : \A y \in S : x <= y
<1> DEFINE R == OpToRel(<, Nat)
<1>1. IsWellFoundedOn(R, Nat)
  BY NatLessThanWellFounded
<1>2. R = {ss \in Nat \X Nat : ss[1] < ss[2]}
  BY DEF OpToRel
<1> HIDE DEF R
<1>3. PICK x \in S : \A y \in S : <<y, x>> \notin R
  BY <1>1, WFMin
<1>4. \A y \in S : x <= y
  <2> SUFFICES ASSUME NEW y \in S PROVE x <= y
    OBVIOUS
  <2>1. <<y, x>> \in R <=> y < x
    BY <1>2
  <2> QED
    BY <1>3, <2>1
<1> QED
  BY <1>3, <1>4

\* f flattens the first k of s, one after the other.
Flattens(f, s, k) == f = [i \in 1..k |-> IF i = 1 THEN s[i] ELSE f[i - 1] \o s[i]]

LEMMA FlattenExists ==
    ASSUME NEW s, NEW k \in Nat
    PROVE  \E f : Flattens(f, s, k)
<1> DEFINE bad == {n \in Nat : ~\E f : Flattens(f, s, n)}
<1> SUFFICES ASSUME bad # {} PROVE FALSE
  OBVIOUS
<1>1. PICK n \in bad : \A y \in bad : n <= y
  BY LeastNat
<1>2. n # 0
  <2>1. Flattens([i \in 1..0 |-> s[i]], s, 0)
    BY DEF Flattens
  <2> QED
    BY <2>1
<1>3. n - 1 \in Nat /\ n - 1 \notin bad
  BY <1>1, <1>2
<1>4. PICK f : Flattens(f, s, n - 1)
  BY <1>3
<1> DEFINE g == [i \in 1..n |-> IF i = n THEN IF n = 1 THEN s[n] ELSE f[n - 1] \o s[n] ELSE f[i]]
<1>5. ASSUME NEW i \in 1..n
      PROVE  g[i] = IF i = 1 THEN s[i] ELSE g[i - 1] \o s[i]
  <2>1. CASE i = n
    BY <1>2, <2>1
  <2>2. CASE i # n
    <3>1. i \in 1..(n - 1)
      BY <1>2, <2>2
    <3>2. f[i] = IF i = 1 THEN s[i] ELSE f[i - 1] \o s[i]
      BY <1>4, <3>1 DEF Flattens
    <3>3. g[i] = f[i] /\ (i # 1 => g[i - 1] = f[i - 1])
      BY <2>2, <3>1
    <3> QED
      BY <3>2, <3>3
  <2> QED
    BY <2>1, <2>2
<1>6. g = [i \in 1..n |-> g[i]]
  OBVIOUS
<1> HIDE DEF g
<1>7. Flattens(g, s, n)
  BY <1>5, <1>6 DEF Flattens
<1> QED
  BY <1>1, <1>7

\* What flattens the beginning of the same sequences agrees there.
LEMMA FlattensOneWay ==
    ASSUME NEW T, NEW f, NEW s, NEW k \in Nat, NEW g, NEW t, NEW n \in k..(k + 1),
           Flattens(f, s, k), Flattens(g, t, n),
           \A i \in 1..k : s[i] = t[i] /\ s[i] \in Seq(T)
    PROVE  \A i \in 1..k : f[i] = g[i] /\ f[i] \in Seq(T)
<1> DEFINE bad == {i \in 1..k : ~(f[i] = g[i] /\ f[i] \in Seq(T))}
<1> SUFFICES ASSUME bad # {} PROVE FALSE
  OBVIOUS
<1>1. PICK i \in bad : \A y \in bad : i <= y
  <2>1. bad \in SUBSET Nat
    OBVIOUS
  <2> QED
    BY <2>1, LeastNat
<1>2. i \in 1..k /\ i \in 1..n
  OBVIOUS
<1>3. /\ f[i] = IF i = 1 THEN s[i] ELSE f[i - 1] \o s[i]
      /\ g[i] = IF i = 1 THEN t[i] ELSE g[i - 1] \o t[i]
  BY <1>2 DEF Flattens
<1>4. i # 1 => i - 1 \in 1..k /\ i - 1 \notin bad
  BY <1>1, <1>2
<1>5. s[i] = t[i] /\ s[i] \in Seq(T)
  BY <1>2
<1>6. CASE i = 1
  BY <1>3, <1>5, <1>6
<1>7. CASE i # 1
  <2>1. f[i - 1] = g[i - 1] /\ f[i - 1] \in Seq(T)
    BY <1>4, <1>7
  <2>2. f[i - 1] \o s[i] \in Seq(T)
    BY <1>5, <2>1
  <2> QED
    BY <1>3, <1>5, <1>7, <2>1, <2>2
<1> QED
  BY <1>6, <1>7

LEMMA FlattenIs ==
    ASSUME NEW s, Len(s) \in Nat
    PROVE  \E f : /\ Flattens(f, s, Len(s))
                  /\ Len(s) # 0 => FlattenSeq(s) = f[Len(s)]
<1> DEFINE f == CHOOSE g : g = [i \in 1..Len(s) |-> IF i = 1 THEN s[i] ELSE g[i - 1] \o s[i]]
<1>1. \E g : g = [i \in 1..Len(s) |-> IF i = 1 THEN s[i] ELSE g[i - 1] \o s[i]]
  BY FlattenExists DEF Flattens
<1>2. f = [i \in 1..Len(s) |-> IF i = 1 THEN s[i] ELSE f[i - 1] \o s[i]]
  BY <1>1
<1>3. Len(s) # 0 => FlattenSeq(s) = f[Len(s)]
  BY DEF FlattenSeq
<1> HIDE DEF f
<1> QED
  BY <1>2, <1>3 DEF Flattens

\* The sequences of a sequence of them, one after the other.
LEMMA FlatOfNone == FlattenSeq(<<>>) = <<>>
  BY DEF FlattenSeq

LEMMA FlatAppend ==
    ASSUME NEW T, NEW s \in Seq(Seq(T)), NEW x \in Seq(T)
    PROVE  FlattenSeq(s) \in Seq(T) /\ FlattenSeq(Append(s, x)) = FlattenSeq(s) \o x
<1> DEFINE n == Len(s)
           t == Append(s, x)
<1>1. /\ n \in Nat /\ Len(t) = n + 1 /\ t[n + 1] = x
      /\ \A i \in 1..n : t[i] = s[i] /\ s[i] \in Seq(T)
  OBVIOUS
<1>2. n = 0 => s = <<>>
  OBVIOUS
<1> HIDE DEF n, t
<1>3. PICK f : Flattens(f, s, n) /\ (n # 0 => FlattenSeq(s) = f[n])
  BY <1>1, FlattenIs DEF n
<1>4. PICK g : Flattens(g, t, n + 1) /\ FlattenSeq(t) = g[n + 1]
  <2>1. Len(t) \in Nat /\ Len(t) # 0
    BY <1>1
  <2> QED
    BY <1>1, <2>1, FlattenIs
<1>5. g[n + 1] = IF n = 0 THEN x ELSE g[n] \o x
  <2>1. n + 1 \in 1..(n + 1) /\ (n + 1 = 1 <=> n = 0) /\ (n + 1) - 1 = n
    BY <1>1
  <2> QED
    BY <1>1, <1>4, <2>1 DEF Flattens
<1>6. CASE n = 0
  <2>1. FlattenSeq(s) = <<>>
    BY <1>2, <1>6, FlatOfNone
  <2> QED
    BY <1>4, <1>5, <1>6, <2>1 DEF t
<1>7. CASE n # 0
  <2>1. n + 1 \in n..(n + 1) /\ n \in 1..n
    BY <1>1, <1>7
  <2>2. \A i \in 1..n : f[i] = g[i] /\ f[i] \in Seq(T)
    BY <1>1, <1>3, <1>4, <2>1, FlattensOneWay
  <2> QED
    BY <1>3, <1>4, <1>5, <1>7, <2>1, <2>2 DEF t
<1> QED
  BY <1>6, <1>7

\* A sequence that is not empty has a first and a last.
LEMMA FrontIs ==
    ASSUME NEW T, NEW s \in Seq(T), s # <<>>
    PROVE  /\ Len(s) \in Nat \ {0} /\ SubSeq(s, 1, Len(s) - 1) \in Seq(T)
           /\ s[1] \in T /\ s[Len(s)] \in T
           /\ Len(SubSeq(s, 1, Len(s) - 1)) = Len(s) - 1
           /\ s = Append(SubSeq(s, 1, Len(s) - 1), s[Len(s)])
<1> DEFINE n == Len(s)
           p == SubSeq(s, 1, n - 1)
<1>1. n \in Nat \ {0} /\ \A i \in 1..n : s[i] \in T
  OBVIOUS
<1>2. /\ p \in Seq(T) /\ Len(p) = n - 1
      /\ \A i \in 1..(n - 1) : p[i] = s[i]
  <2>1. 1 \in 1..(n - 1) + 1 /\ n - 1 \in 1-1..Len(s) /\ n - 1 - 1 + 1 = n - 1
    BY <1>1
  <2> QED
    BY <1>1, <2>1, SubSeqProperties
<1> HIDE DEF p
<1>3. /\ Append(p, s[n]) \in Seq(T) /\ Len(Append(p, s[n])) = n
      /\ \A i \in 1..n : Append(p, s[n])[i] = s[i]
  <2>1. s[n] \in T
    BY <1>1
  <2>2. /\ Append(p, s[n]) \in Seq(T) /\ Len(Append(p, s[n])) = n
        /\ \A i \in 1..n : Append(p, s[n])[i] = IF i = n THEN s[n] ELSE p[i]
    BY <1>1, <1>2, <2>1
  <2> QED
    BY <1>1, <1>2, <2>2
<1>4. s = Append(p, s[n])
  BY <1>3, SeqEqual
<1> QED
  BY <1>1, <1>2, <1>4 DEF p

LEMMA TailOfAppend ==
    ASSUME NEW T, NEW s \in Seq(T), s # <<>>, NEW x \in T
    PROVE  /\ Tail(s) \in Seq(T) /\ Append(s, x)[1] = s[1] /\ s[1] \in T
           /\ Tail(Append(s, x)) = Append(Tail(s), x)
  OBVIOUS

LEMMA Regroup ==
    ASSUME NEW S, NEW a \in Seq(S), NEW b \in Seq(S), NEW c \in Seq(S), NEW ab, NEW bc, NEW abc,
           ab = a \o b, bc = b \o c, abc = ab \o c
    PROVE  abc = a \o bc
  BY ConcatAssociative

\* The first of them comes first.
FirstComesFirst(s) == FlattenSeq(s) = s[1] \o FlattenSeq(Tail(s))

SequenceOfThem(p, T) == p \in Seq(Seq(T)) /\ p # <<>>

LEMMA FlatTailAppend ==
    ASSUME NEW T, NEW p, SequenceOfThem(p, T), NEW x \in Seq(T), FirstComesFirst(p)
    PROVE  FirstComesFirst(Append(p, x))
<1>1. /\ Tail(p) \in Seq(Seq(T)) /\ Append(p, x)[1] = p[1] /\ p[1] \in Seq(T)
      /\ Tail(Append(p, x)) = Append(Tail(p), x)
  BY TailOfAppend DEF SequenceOfThem
<1>2. FlattenSeq(Append(p, x)) = FlattenSeq(p) \o x
  BY FlatAppend DEF SequenceOfThem
<1>3. /\ FlattenSeq(Tail(p)) \in Seq(T)
      /\ FlattenSeq(Append(Tail(p), x)) = FlattenSeq(Tail(p)) \o x
  BY <1>1, FlatAppend
<1>4. FlattenSeq(p) = p[1] \o FlattenSeq(Tail(p))
  BY DEF FirstComesFirst
<1>5. FlattenSeq(Append(p, x)) = p[1] \o FlattenSeq(Append(Tail(p), x))
  <2> DEFINE first == p[1]
             rest == FlattenSeq(Tail(p))
             front == FlattenSeq(p)
             longer == FlattenSeq(Append(Tail(p), x))
             whole == FlattenSeq(Append(p, x))
  <2>1. /\ first \in Seq(T) /\ rest \in Seq(T)
        /\ front = first \o rest /\ longer = rest \o x /\ whole = front \o x
    BY <1>1, <1>2, <1>3, <1>4
  <2> HIDE DEF first, rest, front, longer, whole
  <2>2. whole = first \o longer
    BY <2>1, Regroup
  <2> QED
    BY <2>2 DEF first, longer, whole
<1> QED
  BY <1>1, <1>5 DEF FirstComesFirst

LEMMA FlatTail ==
    ASSUME NEW T, NEW s \in Seq(Seq(T)), s # <<>>
    PROVE  FlattenSeq(s) = s[1] \o FlattenSeq(Tail(s))
<1> DEFINE bad == {n \in Nat : \E t \in Seq(Seq(T)) : Len(t) = n /\ t # <<>> /\ ~FirstComesFirst(t)}
<1> SUFFICES ASSUME ~FirstComesFirst(s) PROVE FALSE
  BY DEF FirstComesFirst
<1>1. bad # {} /\ bad \in SUBSET Nat
  <2>1. Len(s) \in Nat
    OBVIOUS
  <2> QED
    BY <2>1
<1>2. PICK n \in bad : \A y \in bad : n <= y
  BY <1>1, LeastNat
<1>3. PICK t \in Seq(Seq(T)) : Len(t) = n /\ t # <<>> /\ ~FirstComesFirst(t)
  OBVIOUS
<1> DEFINE p == SubSeq(t, 1, n - 1)
           x == t[n]
<1>4. n \in Nat \ {0} /\ p \in Seq(Seq(T)) /\ x \in Seq(T) /\ Len(p) = n - 1 /\ t = Append(p, x)
      /\ t[1] \in Seq(T)
  BY <1>3, FrontIs
<1> HIDE DEF p, x
<1>5. FlattenSeq(p) \in Seq(T) /\ FlattenSeq(t) = FlattenSeq(p) \o x
  BY <1>4, FlatAppend
<1>6. CASE p = <<>>
  <2>1. t[1] = x /\ Tail(t) = <<>>
    BY <1>4, <1>6
  <2>2. FlattenSeq(t) = <<>> \o x /\ FlattenSeq(Tail(t)) = <<>>
    BY <1>5, <1>6, <2>1, FlatOfNone
  <2>3. <<>> \o x = x /\ x \o <<>> = x
    BY <1>4
  <2> QED
    BY <1>3, <2>1, <2>2, <2>3 DEF FirstComesFirst
<1>7. CASE p # <<>>
  <2>1. FirstComesFirst(p)
    <3>1. n - 1 \notin bad
      <4> HIDE DEF bad
      <4>1. n - 1 \in bad => n <= n - 1
        BY <1>2
      <4> QED
        BY <1>4, <4>1
    <3>2. n - 1 \in Nat
      BY <1>4
    <3> QED
      BY <1>4, <1>7, <3>1, <3>2
  <2> HIDE DEF bad
  <2> QED
    BY <1>3, <1>4, <1>7, <2>1, FlatTailAppend DEF SequenceOfThem
<1> QED
  BY <1>6, <1>7

\* A suffix is what is left when something is taken from the front.
LEMMA SuffixIs ==
    ASSUME NEW T, NEW p \in Seq(T), NEW s \in Seq(T)
    PROVE  IsSuffix(s, p \o s)
<1> DEFINE t == p \o s
<1>1. /\ t \in Seq(T) /\ Len(t) = Len(p) + Len(s) /\ Len(p) \in Nat /\ Len(s) \in Nat
      /\ \A i \in 1..Len(s) : t[Len(p) + i] = s[i]
  OBVIOUS
<1> HIDE DEF t
<1>2. /\ Reverse(s) \in Seq(T) /\ Len(Reverse(s)) = Len(s)
      /\ \A i \in 1..Len(s) : Reverse(s)[i] = s[Len(s) - i + 1]
  <2>1. Reverse(s) \in [1..Len(s) -> T]
    BY <1>1 DEF Reverse
  <2> QED
    BY <1>1, <2>1 DEF Reverse
<1>3. /\ Reverse(t) \in Seq(T) /\ Len(Reverse(t)) = Len(t)
      /\ \A i \in 1..Len(t) : Reverse(t)[i] = t[Len(t) - i + 1]
  <2>1. Reverse(t) \in [1..Len(t) -> T]
    BY <1>1 DEF Reverse
  <2> QED
    BY <1>1, <2>1 DEF Reverse
<1>4. ASSUME NEW i \in 1..Len(s) PROVE Reverse(s)[i] = Reverse(t)[i]
  <2>1. /\ Len(s) - i + 1 \in 1..Len(s) /\ i \in 1..Len(t)
        /\ Len(t) - i + 1 = Len(p) + (Len(s) - i + 1)
    BY <1>1
  <2> QED
    BY <1>1, <1>2, <1>3, <2>1
<1>5. SubSeq(Reverse(s), 1, Len(s)) = SubSeq(Reverse(t), 1, Len(s))
  BY <1>1, <1>2, <1>3, <1>4
<1> QED
  BY <1>1, <1>2, <1>3, <1>5 DEF IsSuffix, IsPrefix, t

(* The chat's list *)

Words == {textOf[m] : m \in Messages \cup {Notice}}
Said(e) == [j \in 1..e.badge |-> textOf[e.msg]]

LEMMA EntryIs ==
    \A m \in Messages \cup {Notice}, b \in Nat \ {0}, y \in BOOLEAN :
      /\ [msg |-> m, badge |-> b, notice |-> y] \in Entry
      /\ [msg |-> m, badge |-> b, notice |-> y].msg = m
      /\ [msg |-> m, badge |-> b, notice |-> y].badge = b
      /\ [msg |-> m, badge |-> b, notice |-> y].notice = y
  BY DEF Entry

LEMMA SaidIs ==
    ASSUME NEW e \in Entry
    PROVE  /\ Said(e) \in Seq(Words) /\ Len(Said(e)) = e.badge
           /\ textOf[e.msg] \in Words /\ e.badge \in Nat \ {0}
           /\ \A j \in 1..e.badge : Said(e)[j] = textOf[e.msg]
<1>1. e.badge \in Nat \ {0} /\ e.msg \in Messages \cup {Notice}
  BY DEF Entry
<1>2. textOf[e.msg] \in Words
  BY <1>1 DEF Words
<1>3. Said(e) \in [1..e.badge -> Words]
  BY <1>2 DEF Said
<1> QED
  BY <1>1, <1>2, <1>3 DEF Said

SaidBy(l) == [i \in DOMAIN l |-> Said(l[i])]

LEMMA TextsAre == \A l : Texts(l) = FlattenSeq(SaidBy(l))
  BY DEF Texts, SaidBy, Said

LEMMA SaidByIs ==
    ASSUME NEW l \in Seq(Entry), NEW e \in Entry
    PROVE  /\ SaidBy(l) \in Seq(Seq(Words)) /\ Len(SaidBy(l)) = Len(l)
           /\ SaidBy(Append(l, e)) = Append(SaidBy(l), Said(e))
           /\ l # <<>> => /\ SaidBy(l) # <<>> /\ SaidBy(l)[1] = Said(l[1])
                          /\ SaidBy(Tail(l)) = Tail(SaidBy(l))
<1> DEFINE T == Seq(Words)
<1>1. \A x \in Entry : Said(x) \in T
  BY SaidIs
<1> HIDE DEF T
<1>2. /\ Len(l) \in Nat /\ DOMAIN l = 1..Len(l) /\ \A i \in 1..Len(l) : l[i] \in Entry
  OBVIOUS
<1>3. /\ SaidBy(l) \in Seq(T) /\ Len(SaidBy(l)) = Len(l)
      /\ \A i \in 1..Len(l) : SaidBy(l)[i] = Said(l[i])
  BY <1>1, <1>2 DEF SaidBy
<1>4. SaidBy(Append(l, e)) = Append(SaidBy(l), Said(e))
  <2>1. /\ Append(l, e) \in Seq(Entry) /\ Len(Append(l, e)) = Len(l) + 1
        /\ DOMAIN Append(l, e) = 1..(Len(l) + 1)
        /\ \A i \in 1..(Len(l) + 1) : Append(l, e)[i] = IF i = Len(l) + 1 THEN e ELSE l[i]
    BY <1>2
  <2>2. /\ SaidBy(Append(l, e)) \in Seq(T) /\ Len(SaidBy(Append(l, e))) = Len(l) + 1
        /\ \A i \in 1..(Len(l) + 1) :
             SaidBy(Append(l, e))[i] = Said(IF i = Len(l) + 1 THEN e ELSE l[i])
    <3>1. \A i \in 1..(Len(l) + 1) : Append(l, e)[i] \in Entry
      BY <1>2, <2>1
    <3> QED
      BY <1>1, <1>2, <2>1, <3>1 DEF SaidBy
  <2>3. /\ Append(SaidBy(l), Said(e)) \in Seq(T) /\ Len(Append(SaidBy(l), Said(e))) = Len(l) + 1
        /\ \A i \in 1..(Len(l) + 1) :
             Append(SaidBy(l), Said(e))[i] = IF i = Len(l) + 1 THEN Said(e) ELSE SaidBy(l)[i]
    <3>1. Said(e) \in T
      BY <1>1
    <3> QED
      BY <1>2, <1>3, <3>1
  <2>4. \A i \in 1..(Len(l) + 1) : SaidBy(Append(l, e))[i] = Append(SaidBy(l), Said(e))[i]
    BY <1>2, <1>3, <2>2, <2>3
  <2> QED
    BY <2>2, <2>3, <2>4, SeqEqual
<1>5. ASSUME l # <<>>
      PROVE  /\ SaidBy(l) # <<>> /\ SaidBy(l)[1] = Said(l[1])
             /\ SaidBy(Tail(l)) = Tail(SaidBy(l))
  <2>1. /\ Len(l) > 0 /\ Tail(l) \in Seq(Entry) /\ Len(Tail(l)) = Len(l) - 1
        /\ DOMAIN Tail(l) = 1..(Len(l) - 1)
        /\ \A i \in 1..(Len(l) - 1) : Tail(l)[i] = l[i + 1]
    BY <1>2, <1>5
  <2>2. /\ SaidBy(l) # <<>> /\ SaidBy(l)[1] = Said(l[1])
    BY <1>2, <1>3, <2>1
  <2>3. /\ SaidBy(Tail(l)) \in Seq(T) /\ Len(SaidBy(Tail(l))) = Len(l) - 1
        /\ \A i \in 1..(Len(l) - 1) : SaidBy(Tail(l))[i] = Said(l[i + 1])
    <3>1. \A i \in 1..(Len(l) - 1) : Tail(l)[i] \in Entry
      BY <1>2, <2>1
    <3> QED
      BY <1>1, <1>2, <2>1, <3>1 DEF SaidBy
  <2>4. /\ Tail(SaidBy(l)) \in Seq(T) /\ Len(Tail(SaidBy(l))) = Len(l) - 1
        /\ \A i \in 1..(Len(l) - 1) : Tail(SaidBy(l))[i] = SaidBy(l)[i + 1]
    BY <1>2, <1>3, <2>1, <2>2
  <2>5. \A i \in 1..(Len(l) - 1) : SaidBy(Tail(l))[i] = Tail(SaidBy(l))[i]
    <3>1. \A i \in 1..(Len(l) - 1) : i + 1 \in 1..Len(l)
      BY <1>2
    <3> QED
      BY <1>3, <2>3, <2>4, <3>1
  <2> QED
    BY <2>2, <2>3, <2>4, <2>5, SeqEqual
<1> QED
  BY <1>3, <1>4, <1>5 DEF T

LEMMA TextsOf ==
    ASSUME NEW l \in Seq(Entry), NEW e \in Entry
    PROVE  /\ Texts(l) \in Seq(Words)
           /\ Texts(Append(l, e)) = Texts(l) \o Said(e)
           /\ l # <<>> => Texts(l) = Said(l[1]) \o Texts(Tail(l))
<1>1. Said(e) \in Seq(Words)
  BY SaidIs
<1>2. /\ FlattenSeq(SaidBy(l)) \in Seq(Words)
      /\ FlattenSeq(Append(SaidBy(l), Said(e))) = FlattenSeq(SaidBy(l)) \o Said(e)
  BY <1>1, SaidByIs, FlatAppend
<1>3. l # <<>> => FlattenSeq(SaidBy(l)) = Said(l[1]) \o FlattenSeq(SaidBy(Tail(l)))
  BY SaidByIs, FlatTail
<1> QED
  BY <1>2, <1>3, SaidByIs, TextsAre

LEMMA TextsIn == ASSUME NEW l \in Seq(Entry) PROVE Texts(l) \in Seq(Words)
<1>1. [msg |-> Notice, badge |-> 1, notice |-> TRUE] \in Entry
  BY DEF Entry
<1> QED
  BY <1>1, TextsOf

\* The list ends what was said, and the last text is its last entry's.
Kept(list, said, last) ==
    /\ list \in Seq(Entry) /\ said \in Seq(Words)
    /\ \E before \in Seq(Words) : said = before \o Texts(list)
    /\ list # <<>> => last = textOf[list[Len(list)].msg]

One(w) == <<w>>

LEMMA AppendIsCat ==
    ASSUME NEW T, NEW s \in Seq(T), NEW w \in T
    PROVE  Append(s, w) = s \o One(w) /\ One(w) \in Seq(T) /\ Append(s, w) \in Seq(T)
  BY DEF One

\* One more text at the end of both.
OneFlatMore(T, said, before, held, new, w) ==
    /\ said \in Seq(T) /\ held \in Seq(T) /\ before \in Seq(T) /\ w \in T
    /\ new = held \o One(w) /\ said = before \o held

LEMMA SaidMore ==
    ASSUME NEW T, NEW ss, NEW bb, NEW oo, NEW nn, NEW ww,
           OneFlatMore(T, ss, bb, oo, nn, ww)
    PROVE  Append(ss, ww) = bb \o nn
<1>1. /\ ss \in Seq(T) /\ oo \in Seq(T) /\ bb \in Seq(T) /\ ww \in T
      /\ nn = oo \o One(ww) /\ ss = bb \o oo
  BY DEF OneFlatMore
<1>2. Append(ss, ww) = ss \o One(ww) /\ One(ww) \in Seq(T)
  BY <1>1, AppendIsCat
<1>3. (bb \o oo) \o One(ww) = bb \o (oo \o One(ww))
  BY <1>1, <1>2, Regroup
<1> QED
  BY <1>1, <1>2, <1>3

LEMMA OneIs == ASSUME NEW T, NEW s \in Seq(T), Len(s) = 1, NEW w \in T, s[1] = w PROVE s = One(w)
  BY DEF One

\* The same word, said once more.
Again(T, s, t, w) ==
    /\ s \in Seq(T) /\ t \in Seq(T) /\ w \in T /\ Len(t) = Len(s) + 1
    /\ \A j \in 1..Len(s) : s[j] = w
    /\ \A j \in 1..Len(t) : t[j] = w

LEMMA OneMoreIs ==
    ASSUME NEW T, NEW s, NEW t, NEW w, Again(T, s, t, w)
    PROVE  t = s \o One(w)
<1>1. /\ s \o One(w) \in Seq(T) /\ Len(s \o One(w)) = Len(s) + 1
      /\ \A j \in 1..(Len(s) + 1) : (s \o One(w))[j] = w
  BY DEF One, Again
<1>2. /\ t \in Seq(T) /\ Len(t) = Len(s) + 1
      /\ \A j \in 1..(Len(s) + 1) : t[j] = w
  BY DEF Again
<1> QED
  BY <1>1, <1>2, SeqEqual

\* Grouped to the left or to the right.
Grouped(S, a, b, c, ab, bc, left, right) ==
    /\ a \in Seq(S) /\ b \in Seq(S) /\ c \in Seq(S)
    /\ ab = a \o b /\ bc = b \o c /\ left = ab \o c /\ right = a \o bc

LEMMA GroupedSame ==
    ASSUME NEW S, NEW a, NEW b, NEW c, NEW ab, NEW bc, NEW left, NEW right,
           Grouped(S, a, b, c, ab, bc, left, right)
    PROVE  left = right
<1>1. /\ a \in Seq(S) /\ b \in Seq(S) /\ c \in Seq(S)
      /\ ab = a \o b /\ bc = b \o c /\ left = ab \o c /\ right = a \o bc
  BY DEF Grouped
<1>2. (a \o b) \o c = a \o (b \o c)
  BY <1>1, ConcatAssociative
<1> QED
  BY <1>1, <1>2

LEMMA PutIs ==
    ASSUME NEW T, NEW s \in Seq(T), NEW i \in 1..Len(s), NEW y \in T
    PROVE  /\ [s EXCEPT ![i] = y] \in Seq(T) /\ Len([s EXCEPT ![i] = y]) = Len(s)
           /\ \A j \in 1..Len(s) : [s EXCEPT ![i] = y][j] = IF j = i THEN y ELSE s[j]
  BY ExceptSeq

\* To change the last is to append another to those before.
Changed(T, ll, nn, pp, xx, ee) ==
    /\ ll \in Seq(T) /\ nn \in Nat \ {0} /\ nn = Len(ll) /\ pp \in Seq(T)
    /\ Len(pp) = nn - 1 /\ xx \in T /\ ll = Append(pp, xx) /\ ee \in T

LEMMA LastReplaced ==
    ASSUME NEW T, NEW ll, NEW nn, NEW pp, NEW xx, NEW ee, Changed(T, ll, nn, pp, xx, ee)
    PROVE  [ll EXCEPT ![nn] = ee] = Append(pp, ee)
<1> DEFINE a == [ll EXCEPT ![nn] = ee]
           b == Append(pp, ee)
<1>1. /\ a \in Seq(T) /\ Len(a) = nn
      /\ \A i \in 1..nn : a[i] = IF i = nn THEN ee ELSE ll[i]
  <2>1. ll \in Seq(T) /\ nn \in 1..Len(ll) /\ ee \in T /\ nn = Len(ll)
    BY DEF Changed
  <2> QED
    BY <2>1, PutIs
<1>2. /\ b \in Seq(T) /\ Len(b) = nn
      /\ \A i \in 1..nn : b[i] = IF i = nn THEN ee ELSE pp[i]
  BY DEF Changed
<1>3. \A i \in 1..nn : i # nn => ll[i] = pp[i]
  BY DEF Changed
<1>4. /\ a \in Seq(T) /\ b \in Seq(T) /\ Len(a) = Len(b) /\ Len(a) = nn
      /\ \A i \in 1..nn : a[i] = b[i]
  BY <1>1, <1>2, <1>3
<1> HIDE DEF a, b
<1>5. a = b
  BY <1>4, SeqEqual
<1> QED
  BY <1>5 DEF a, b

LEMMA TailKept ==
    ASSUME NEW list, NEW said, NEW last, Kept(list, said, last), list # <<>>
    PROVE  Kept(Tail(list), said, last)
<1>1. /\ list \in Seq(Entry) /\ said \in Seq(Words) /\ last = textOf[list[Len(list)].msg]
  BY DEF Kept
<1>2. PICK before \in Seq(Words) : said = before \o Texts(list)
  BY DEF Kept
<1>3. /\ Tail(list) \in Seq(Entry) /\ list[1] \in Entry
      /\ Tail(list) # <<>> => Tail(list)[Len(Tail(list))] = list[Len(list)]
  BY <1>1
<1>4. /\ Texts(list) = Said(list[1]) \o Texts(Tail(list)) /\ Texts(Tail(list)) \in Seq(Words)
      /\ Said(list[1]) \in Seq(Words)
  BY <1>1, <1>3, TextsOf, SaidIs
<1>5. before \o Said(list[1]) \in Seq(Words)
  BY <1>4
<1>6. said = (before \o Said(list[1])) \o Texts(Tail(list))
  <2> DEFINE first == Said(list[1])
             rest == Texts(Tail(list))
             all == Texts(list)
  <2>1. first \in Seq(Words) /\ rest \in Seq(Words) /\ all = first \o rest /\ said = before \o all
    BY <1>2, <1>4
  <2> HIDE DEF first, rest, all
  <2>2. (before \o first) \o rest = before \o all
    BY <2>1, Regroup
  <2> QED
    BY <2>1, <2>2 DEF first, rest
<1> QED
  BY <1>1, <1>3, <1>5, <1>6 DEF Kept

LEMMA AppendKept ==
    ASSUME NEW list, NEW said, NEW last, Kept(list, said, last), NEW e \in Entry, e.badge = 1,
           NEW word, word = textOf[e.msg]
    PROVE  Kept(Append(list, e), Append(said, word), word)
<1>1. list \in Seq(Entry) /\ said \in Seq(Words)
  BY DEF Kept
<1>2. PICK before \in Seq(Words) : said = before \o Texts(list)
  BY DEF Kept
<1>3. word \in Words /\ Said(e) = One(word)
  <2>1. Said(e) \in Seq(Words) /\ Len(Said(e)) = 1 /\ Said(e)[1] = word
    <3>1. 1 \in 1..e.badge
      OBVIOUS
    <3> QED
      BY <3>1, SaidIs
  <2>2. word \in Words
    BY SaidIs
  <2> QED
    BY <2>1, <2>2, OneIs
<1>4. Texts(Append(list, e)) = Texts(list) \o One(word) /\ Texts(list) \in Seq(Words)
  BY <1>1, <1>3, TextsOf
<1>5. Append(said, word) = before \o Texts(Append(list, e))
  <2> DEFINE held == Texts(list)
             new == Texts(Append(list, e))
  <2>1. OneFlatMore(Words, said, before, held, new, word)
    BY <1>1, <1>2, <1>3, <1>4 DEF OneFlatMore
  <2> HIDE DEF held, new
  <2>2. Append(said, word) = before \o new
    BY <2>1, SaidMore
  <2> QED
    BY <2>2 DEF new
<1>6. /\ Append(list, e) \in Seq(Entry) /\ Append(list, e)[Len(Append(list, e))] = e
      /\ Append(said, word) \in Seq(Words)
  BY <1>1, <1>3
<1> QED
  BY <1>5, <1>6 DEF Kept

LEMMA CombineKept ==
    ASSUME NEW list, NEW said, NEW last, Kept(list, said, last), list # <<>>,
           NEW e \in Entry, e.badge = list[Len(list)].badge + 1, last = textOf[e.msg]
    PROVE  /\ Kept([list EXCEPT ![Len(list)] = e], Append(said, last), last)
           /\ Len([list EXCEPT ![Len(list)] = e]) = Len(list)
<1> DEFINE n == Len(list)
           p == SubSeq(list, 1, n - 1)
           x == list[n]
<1>1. list \in Seq(Entry) /\ said \in Seq(Words) /\ last = textOf[x.msg]
  BY DEF Kept
<1>2. PICK before \in Seq(Words) : said = before \o Texts(list)
  BY DEF Kept
<1>3. /\ n \in Nat \ {0} /\ p \in Seq(Entry) /\ x \in Entry /\ Len(p) = n - 1
      /\ list = Append(p, x)
  BY <1>1, FrontIs
<1> HIDE DEF p
<1>4. [list EXCEPT ![n] = e] = Append(p, e)
  <2>1. n = Len(list)
    OBVIOUS
  <2> HIDE DEF n, x
  <2>2. Changed(Entry, list, n, p, x, e)
    BY <1>1, <1>3, <2>1 DEF Changed
  <2> QED
    BY <2>2, LastReplaced
<1>5. Said(e) = Said(x) \o One(last) /\ Said(x) \in Seq(Words) /\ last \in Words /\ Said(e) \in Seq(Words)
  <2>1. /\ Said(e) \in Seq(Words) /\ Len(Said(e)) = x.badge + 1
        /\ \A j \in 1..(x.badge + 1) : Said(e)[j] = last
    BY SaidIs
  <2>2. /\ Said(x) \in Seq(Words) /\ Len(Said(x)) = x.badge /\ x.badge \in Nat /\ last \in Words
        /\ \A j \in 1..x.badge : Said(x)[j] = last
    BY <1>1, <1>3, SaidIs
  <2> HIDE DEF x
  <2>3. Again(Words, Said(x), Said(e), last)
    BY <2>1, <2>2 DEF Again
  <2>4. Said(e) = Said(x) \o One(last)
    BY <2>3, OneMoreIs
  <2> QED
    BY <2>1, <2>2, <2>4
<1>6. Texts(Append(p, e)) = Texts(list) \o One(last) /\ Texts(list) \in Seq(Words)
  <2> DEFINE front == Texts(p)
             all == Texts(list)
             more == Texts(Append(p, e))
             one == Said(x)
             two == Said(e)
             w == One(last)
  <2>1. front \in Seq(Words) /\ all = front \o one /\ more = front \o two /\ all \in Seq(Words)
    BY <1>1, <1>3, TextsOf
  <2>2. two = one \o w /\ one \in Seq(Words) /\ w \in Seq(Words)
    BY <1>5, AppendIsCat, EmptySeq
  <2> HIDE DEF front, all, more, one, two, w
  <2>3. Grouped(Words, front, one, w, all, two, all \o w, front \o two)
    BY <2>1, <2>2 DEF Grouped
  <2>4. all \o w = front \o two
    BY <2>3, GroupedSame
  <2> QED
    BY <2>1, <2>4 DEF all, more, w
<1>7. Append(said, last) = before \o Texts(Append(p, e))
  <2> DEFINE held == Texts(list)
             new == Texts(Append(p, e))
  <2>1. said \in Seq(Words) /\ held \in Seq(Words) /\ last \in Words /\ new = held \o One(last) /\ said = before \o held
    BY <1>1, <1>2, <1>5, <1>6
  <2> HIDE DEF held, new
  <2>2. OneFlatMore(Words, said, before, held, new, last)
    BY <1>2, <2>1 DEF OneFlatMore
  <2>3. Append(said, last) = before \o new
    BY <2>2, SaidMore
  <2> QED
    BY <2>3 DEF new
<1>8. /\ Append(p, e) \in Seq(Entry) /\ Append(p, e)[Len(Append(p, e))] = e
      /\ Append(said, last) \in Seq(Words) /\ Len(Append(p, e)) = n
  BY <1>1, <1>3, <1>5
<1> QED
  BY <1>4, <1>7, <1>8 DEF Kept

(* The notice *)

OneLineOpen(l) == \A i, j \in DOMAIN l : l[i].notice /\ l[j].notice => i = j
NoneOpen(l) == \A i \in DOMAIN l : ~l[i].notice

\* The notices left when m comes at the end or in the place of the last.
Notices(l, k, m) ==
    /\ OneLineOpen(l) /\ (m = Notice => NoneOpen(l)) => OneLineOpen(k)
    /\ NoneOpen(l) /\ m # Notice => NoneOpen(k)

LEMMA TailNotices ==
    ASSUME NEW l \in Seq(Entry), l # <<>>
    PROVE  (OneLineOpen(l) => OneLineOpen(Tail(l))) /\ (NoneOpen(l) => NoneOpen(Tail(l)))
<1>1. /\ Len(l) \in Nat \ {0} /\ DOMAIN l = 1..Len(l)
      /\ DOMAIN Tail(l) = 1..(Len(l) - 1)
      /\ \A i \in 1..(Len(l) - 1) : i + 1 \in 1..Len(l) /\ Tail(l)[i] = l[i + 1]
  OBVIOUS
<1>2. ASSUME NoneOpen(l) PROVE NoneOpen(Tail(l))
  BY <1>1, <1>2 DEF NoneOpen
<1>3. ASSUME OneLineOpen(l) PROVE OneLineOpen(Tail(l))
  <2> SUFFICES ASSUME NEW i \in 1..(Len(l) - 1), NEW j \in 1..(Len(l) - 1),
                      Tail(l)[i].notice, Tail(l)[j].notice
               PROVE  i = j
    BY <1>1 DEF OneLineOpen
  <2>1. l[i + 1].notice /\ l[j + 1].notice /\ i + 1 \in DOMAIN l /\ j + 1 \in DOMAIN l
    BY <1>1
  <2>2. i + 1 = j + 1
    BY <1>3, <2>1 DEF OneLineOpen
  <2> QED
    BY <1>1, <2>2
<1> QED
  BY <1>2, <1>3

LEMMA EndNotices ==
    ASSUME NEW l \in Seq(Entry), NEW k \in Seq(Entry), NEW m, NEW y \in BOOLEAN,
           y <=> m = Notice, k # <<>>, k[Len(k)].notice = y,
           \A i \in 1..(Len(k) - 1) : i \in DOMAIN l /\ k[i] = l[i]
    PROVE  Notices(l, k, m)
<1>1. Len(k) \in Nat \ {0} /\ DOMAIN k = 1..Len(k)
  OBVIOUS
<1>2. \A i \in DOMAIN k : i = Len(k) \/ i \in 1..(Len(k) - 1)
  BY <1>1
<1>3. ASSUME NoneOpen(l), m # Notice PROVE NoneOpen(k)
  BY <1>2, <1>3 DEF NoneOpen
<1>4. ASSUME OneLineOpen(l), m = Notice => NoneOpen(l), NEW i \in DOMAIN k, NEW j \in DOMAIN k,
             k[i].notice, k[j].notice
      PROVE  i = j
  <2>1. CASE m = Notice
    BY <1>2, <1>4, <2>1 DEF NoneOpen
  <2>2. CASE m # Notice
    BY <1>2, <1>4, <2>2 DEF OneLineOpen
  <2> QED
    BY <2>1, <2>2
<1> QED
  BY <1>3, <1>4 DEF Notices, OneLineOpen

(* The invariant *)

Open == ~noResponse => NoneOpen(entries)

ListInv ==
    /\ ListTypeOK /\ CountIsLength
    /\ OneLineOpen(entries) /\ Open
    /\ Kept(entries, told, last_message)

LEMMA NoText0 == Texts(<<>>) = <<>>
<1>1. SaidBy(<<>>) = <<>>
  BY DEF SaidBy
<1> QED
  BY <1>1, TextsAre, FlatOfNone

LEMMA NoneKept == ASSUME NEW last PROVE Kept(<<>>, <<>>, last)
<1>1. <<>> = <<>> \o <<>>
  OBVIOUS
<1>2. <<>> \in Seq(Entry) /\ <<>> \in Seq(Words)
  BY EmptySeq
<1> QED
  BY <1>1, <1>2, NoText0 DEF Kept

LEMMA ListStart == ListInit => ListInv
<1> SUFFICES ASSUME ListInit PROVE ListInv
  OBVIOUS
<1>1. entries = <<>> /\ told = <<>> /\ Len(entries) = 0 /\ DOMAIN entries = {}
  BY DEF ListInit
<1>2. ListTypeOK /\ CountIsLength
  <2>1. entries \in Seq(Entry)
    BY <1>1, EmptySeq
  <2>2. messageCount = 0 /\ messageLimit > 0
    BY ListAssumption DEF ListInit
  <2>3. /\ messageCount \in Nat /\ newMessages \in Nat
        /\ scrolled \in BOOLEAN /\ silent \in BOOLEAN /\ noResponse \in BOOLEAN
        /\ messageCombining \in BOOLEAN
    <3>1. 0 \in Nat /\ FALSE \in BOOLEAN
      OBVIOUS
    <3> QED
      BY <3>1 DEF ListInit
  <2> QED
    BY <1>1, <2>1, <2>2, <2>3 DEF CountIsLength, ListTypeOK
<1>3. OneLineOpen(entries) /\ Open
  BY <1>1 DEF OneLineOpen, Open, NoneOpen
<1> QED
  BY <1>1, <1>2, <1>3, NoneKept DEF ListInv

\* What a message does to the list: it makes room, then it adds to the last entry or is one.
LEMMA Outputs ==
    ASSUME ListInv, NEW m \in Messages \cup {Notice}, output(m)
    PROVE  /\ entries' \in Seq(Entry) /\ messageCount' = Len(entries')
           /\ Len(entries') < messageLimit /\ messageCount' \in Nat
           /\ scrolled' \in BOOLEAN /\ newMessages' \in Nat
           /\ Kept(entries', told', last_message')
           /\ Notices(entries, entries', m)
<1> DEFINE full == messageCount + 1 >= messageLimit
           list == IF full /\ entries # <<>> THEN Tail(entries) ELSE entries
           n == IF full THEN messageCount ELSE messageCount + 1
           i == Len(list)
           y == m = Notice
           w == textOf[m]
<1>1. /\ entries \in Seq(Entry) /\ messageCount = Len(entries) /\ messageCount \in Nat
      /\ Len(entries) < messageLimit /\ messageLimit \in Nat \ {0, 1}
      /\ scrolled \in BOOLEAN /\ newMessages \in Nat
      /\ Kept(entries, told, last_message)
  BY ListAssumption DEF ListInv, ListTypeOK, CountIsLength
<1>2. full => entries # <<>>
  BY <1>1
<1>3. /\ list \in Seq(Entry) /\ Kept(list, told, last_message)
      /\ n = Len(list) + 1 /\ n < messageLimit /\ Len(list) \in Nat /\ n \in Nat
      /\ (OneLineOpen(entries) => OneLineOpen(list)) /\ (NoneOpen(entries) => NoneOpen(list))
  <2>1. CASE full
    <3>1. list = Tail(entries) /\ Len(list) = Len(entries) - 1 /\ list \in Seq(Entry) /\ n = messageCount
      BY <1>1, <1>2, <2>1
    <3>2. Kept(Tail(entries), told, last_message)
      BY <1>1, <1>2, <2>1, TailKept
    <3> HIDE DEF list, n
    <3> QED
      BY <1>1, <1>2, <2>1, <3>1, <3>2, TailNotices
  <2>2. CASE ~full
    <3>1. list = entries /\ n = messageCount + 1
      BY <2>2
    <3> HIDE DEF list, n
    <3> QED
      BY <1>1, <2>2, <3>1
  <2> QED
    BY <2>1, <2>2
<1>4. /\ IF combines(m, list)
         THEN /\ entries' = [list EXCEPT ![i] = [msg |-> m, badge |-> @.badge + 1, notice |-> y]]
              /\ messageCount' = n - 1
              /\ last_message' = last_message
         ELSE /\ entries' = Append(list, [msg |-> m, badge |-> 1, notice |-> y])
              /\ messageCount' = n
              /\ last_message' = w
      /\ snap
      /\ told' = Append(told, w)
  BY DEF output
<1>5. scrolled' \in BOOLEAN /\ newMessages' \in Nat
  BY <1>1, <1>4 DEF snap
<1> HIDE DEF full, list, n
<1>6. y \in BOOLEAN /\ (y <=> m = Notice)
  OBVIOUS
<1> HIDE DEF y
<1>7. CASE combines(m, list)
  <2> DEFINE e == [msg |-> m, badge |-> list[i].badge + 1, notice |-> y]
             k == [list EXCEPT ![i] = e]
  <2>1. list # <<>> /\ last_message = w /\ i \in Nat \ {0} /\ i \in 1..Len(list) /\ list[i] \in Entry
    BY <1>3, <1>7 DEF combines
  <2>2. list[i].badge + 1 \in Nat \ {0}
    <3>1. list[i].badge \in Nat \ {0}
      BY <2>1, SaidIs
    <3> QED
      BY <3>1
  <2>3. e \in Entry /\ e.msg = m /\ e.badge = list[i].badge + 1 /\ e.notice = y
    BY <1>6, <2>2, EntryIs
  <2>4. entries' = k /\ messageCount' = n - 1 /\ last_message' = last_message /\ told' = Append(told, w)
    BY <1>4, <1>7
  <2> HIDE DEF e
  <2>5. Kept(k, Append(told, last_message), last_message) /\ Len(k) = Len(list)
    BY <1>3, <2>1, <2>3, CombineKept
  <2>6. k \in Seq(Entry) /\ \A j \in 1..Len(list) : k[j] = IF j = i THEN e ELSE list[j]
    BY <1>3, <2>1, <2>3, PutIs
  <2>7. k # <<>> /\ k[Len(k)].notice = y /\ \A j \in 1..(Len(k) - 1) : j \in DOMAIN list /\ k[j] = list[j]
    BY <1>3, <2>1, <2>3, <2>5, <2>6
  <2> HIDE DEF k
  <2>8. Notices(list, k, m)
    BY <1>3, <1>6, <2>6, <2>7, EndNotices
  <2>9. Notices(entries, k, m)
    BY <1>3, <2>8 DEF Notices
  <2> QED
    BY <1>1, <1>3, <1>5, <2>1, <2>4, <2>5, <2>6, <2>9
<1>8. CASE ~combines(m, list)
  <2> DEFINE e == [msg |-> m, badge |-> 1, notice |-> y]
             k == Append(list, e)
  <2>1. e \in Entry /\ e.msg = m /\ e.badge = 1 /\ e.notice = y
    BY <1>6, EntryIs
  <2>2. entries' = k /\ messageCount' = n /\ last_message' = w /\ told' = Append(told, w)
    BY <1>4, <1>8
  <2> HIDE DEF e
  <2>3. Kept(k, Append(told, w), w)
    BY <1>3, <2>1, AppendKept
  <2>4. k \in Seq(Entry) /\ Len(k) = Len(list) + 1
    BY <1>3, <2>1
  <2>5. k # <<>> /\ k[Len(k)].notice = y /\ \A j \in 1..(Len(k) - 1) : j \in DOMAIN list /\ k[j] = list[j]
    BY <1>3, <2>1, <2>4
  <2> HIDE DEF k
  <2>6. Notices(list, k, m)
    BY <1>3, <1>6, <2>4, <2>5, EndNotices
  <2>7. Notices(entries, k, m)
    BY <1>3, <2>6 DEF Notices
  <2> QED
    BY <1>1, <1>3, <1>5, <2>2, <2>3, <2>4, <2>7
<1> QED
  BY <1>7, <1>8

LEMMA NoticesLeft ==
    ASSUME ListInv, NEW m, Notices(entries, entries', m), m = Notice => ~noResponse,
           m = Notice => noResponse', m # Notice => noResponse' = noResponse
    PROVE  OneLineOpen(entries') /\ Open'
<1>1. OneLineOpen(entries) /\ (~noResponse => NoneOpen(entries))
  BY DEF ListInv, Open
<1>2. OneLineOpen(entries')
  BY <1>1 DEF Notices
<1>3. CASE m = Notice
  BY <1>2, <1>3 DEF Open
<1>4. CASE m # Notice
  <2>1. ~noResponse' => NoneOpen(entries')
    BY <1>1, <1>4 DEF Notices
  <2> QED
    BY <1>2, <2>1 DEF Open, NoneOpen
<1> QED
  BY <1>3, <1>4

LEMMA Restored ==
    ASSUME NEW l \in Seq(Entry), NEW k, k = [i \in DOMAIN l |-> [l[i] EXCEPT !.notice = FALSE]]
    PROVE  /\ k \in Seq(Entry) /\ Len(k) = Len(l) /\ NoneOpen(k) /\ Texts(k) = Texts(l)
           /\ l # <<>> => k # <<>> /\ k[Len(k)].msg = l[Len(l)].msg
<1>1. Len(l) \in Nat /\ DOMAIN l = 1..Len(l) /\ \A i \in 1..Len(l) : l[i] \in Entry
  OBVIOUS
<1>2. ASSUME NEW e \in Entry
      PROVE  /\ [e EXCEPT !.notice = FALSE] \in Entry
             /\ [e EXCEPT !.notice = FALSE].msg = e.msg
             /\ [e EXCEPT !.notice = FALSE].badge = e.badge
             /\ ~[e EXCEPT !.notice = FALSE].notice
  BY DEF Entry
<1>3. /\ k \in [1..Len(l) -> Entry] /\ DOMAIN k = 1..Len(l)
      /\ \A i \in 1..Len(l) : k[i].msg = l[i].msg /\ k[i].badge = l[i].badge /\ ~k[i].notice
  BY <1>1, <1>2
<1>4. k \in Seq(Entry) /\ Len(k) = Len(l)
  BY <1>1, <1>3
<1>5. NoneOpen(k)
  BY <1>3 DEF NoneOpen
<1>6. SaidBy(k) = SaidBy(l)
  BY <1>1, <1>3 DEF SaidBy, Said
<1>7. Texts(k) = Texts(l)
  BY <1>6, TextsAre
<1>8. l # <<>> => k # <<>> /\ k[Len(k)].msg = l[Len(l)].msg
  <2>1. l # <<>> => Len(l) \in 1..Len(l)
    BY <1>1
  <2>2. l # <<>> => k # <<>>
    BY <1>1, <1>4, <2>1
  <2> QED
    BY <1>3, <1>4, <2>1, <2>2
<1> QED
  BY <1>4, <1>5, <1>7, <1>8

LEMMA ListStep == ListInv /\ [ListNext]_pageListVars => ListInv'
<1> SUFFICES ASSUME ListInv, [ListNext]_pageListVars PROVE ListInv'
  OBVIOUS
<1> USE DEF ListInv
<1>1. CASE Receive
  <2>1. PICK m \in Messages : output(m)
    BY <1>1 DEF Receive
  <2>2. messageCombining' = messageCombining /\ noResponse' = noResponse /\ silent' = FALSE
    BY <1>1 DEF Receive
  <2>3. m \in Messages \cup {Notice} /\ m # Notice
    BY ListAssumption
  <2>4. /\ entries' \in Seq(Entry) /\ messageCount' = Len(entries')
        /\ Len(entries') < messageLimit /\ messageCount' \in Nat
        /\ scrolled' \in BOOLEAN /\ newMessages' \in Nat
        /\ Kept(entries', told', last_message')
        /\ Notices(entries, entries', m)
    BY <2>1, <2>3, Outputs
  <2>5. OneLineOpen(entries') /\ Open'
    BY <2>2, <2>3, <2>4, NoticesLeft
  <2>6. ListTypeOK' /\ CountIsLength'
    BY <2>2, <2>4 DEF ListTypeOK, CountIsLength
  <2> QED
    BY <2>4, <2>5, <2>6
<1>2. CASE clearMessages
  <2>1. /\ entries' = <<>> /\ told' = <<>> /\ messageCount' = 0 /\ scrolled' = FALSE
        /\ UNCHANGED <<last_message, messageCombining, newMessages, silent, noResponse>>
    BY <1>2 DEF clearMessages, watchVars
  <2>2. /\ <<>> \in Seq(Entry) /\ Len(<<>>) = 0 /\ 0 < messageLimit /\ OneLineOpen(<<>>) /\ NoneOpen(<<>>)
    BY ListAssumption, EmptySeq DEF OneLineOpen, NoneOpen
  <2>3. Kept(entries', told', last_message')
    BY <2>1, NoneKept
  <2>4. ListTypeOK'
    BY <2>1, <2>2 DEF ListTypeOK
  <2>5. CountIsLength' /\ OneLineOpen(entries)' /\ Open'
    BY <2>1, <2>2 DEF CountIsLength, Open
  <2> QED
    BY <2>3, <2>4, <2>5
<1>3. CASE Scroll
  <2>1. /\ UNCHANGED <<entries, messageCount, last_message, told, messageCombining, silent, noResponse>>
        /\ scrolled' = ~scrolled
        /\ newMessages' \in {0, newMessages}
    BY <1>3 DEF Scroll, watchVars
  <2>2. scrolled' \in BOOLEAN /\ newMessages' \in Nat
    BY <2>1 DEF ListTypeOK
  <2>3. ListTypeOK' /\ CountIsLength'
    BY <2>1, <2>2 DEF ListTypeOK, CountIsLength
  <2> QED
    BY <2>1, <2>3 DEF OneLineOpen, Open, NoneOpen, Kept
<1>4. CASE toggleCombine \/ Pang \/ Silence \/ UNCHANGED pageListVars
  <2>1. /\ UNCHANGED <<entries, messageCount, last_message, told, scrolled, newMessages, noResponse>>
        /\ messageCombining' \in BOOLEAN /\ silent' \in BOOLEAN
    BY <1>4 DEF toggleCombine, Pang, Silence, listVars, scrollVars, watchVars, pageListVars, ListTypeOK
  <2> QED
    BY <2>1 DEF ListTypeOK, CountIsLength, OneLineOpen, Open, NoneOpen, Kept
<1>5. CASE watch
  <2>1. silent # noResponse /\ noResponse' = silent /\ UNCHANGED <<messageCombining, silent>>
    BY <1>5 DEF watch
  <2>2. silent \in BOOLEAN /\ noResponse \in BOOLEAN /\ messageCombining \in BOOLEAN
    BY DEF ListTypeOK
  <2>3. CASE silent
    <3>1. output(Notice)
      BY <1>5, <2>3 DEF watch
    <3>2. ~noResponse /\ noResponse'
      BY <2>1, <2>2, <2>3
    <3>3. /\ entries' \in Seq(Entry) /\ messageCount' = Len(entries')
          /\ Len(entries') < messageLimit /\ messageCount' \in Nat
          /\ scrolled' \in BOOLEAN /\ newMessages' \in Nat
          /\ Kept(entries', told', last_message')
          /\ Notices(entries, entries', Notice)
      BY <3>1, Outputs
    <3>4. OneLineOpen(entries') /\ Open'
      BY <3>2, <3>3, NoticesLeft
    <3>5. ListTypeOK' /\ CountIsLength'
      BY <2>1, <2>2, <3>3 DEF ListTypeOK, CountIsLength
    <3> QED
      BY <3>3, <3>4, <3>5
  <2>4. CASE ~silent
    <3>1. /\ entries' = [i \in DOMAIN entries |-> [entries[i] EXCEPT !.notice = FALSE]]
          /\ UNCHANGED <<messageCount, last_message, told, scrolled, newMessages>>
      BY <1>5, <2>4 DEF watch, restore, scrollVars
    <3>2. entries \in Seq(Entry) /\ Kept(entries, told, last_message)
      BY DEF ListTypeOK
    <3>3. /\ entries' \in Seq(Entry) /\ Len(entries') = Len(entries) /\ NoneOpen(entries')
          /\ Texts(entries') = Texts(entries)
          /\ entries # <<>> => entries' # <<>> /\ entries'[Len(entries')].msg = entries[Len(entries)].msg
      BY <3>1, <3>2, Restored
    <3>4. ListTypeOK' /\ CountIsLength'
      BY <2>1, <2>2, <3>1, <3>3 DEF ListTypeOK, CountIsLength
    <3>5. entries = <<>> => entries' = <<>>
      BY <3>2, <3>3, EmptySeq
    <3>6. Kept(entries', told', last_message')
      BY <3>1, <3>2, <3>3, <3>5 DEF Kept
    <3>7. OneLineOpen(entries') /\ Open'
      BY <3>3 DEF OneLineOpen, NoneOpen, Open
    <3> QED
      BY <3>4, <3>6, <3>7
  <2> QED
    BY <2>3, <2>4
<1> QED
  BY <1>1, <1>2, <1>3, <1>4, <1>5 DEF ListNext

LEMMA ListInvShows == ListInv => ListShows
<1> SUFFICES ASSUME ListInv PROVE ListShows
  OBVIOUS
<1>1. ShowsTail
  <2>1. entries \in Seq(Entry) /\ Kept(entries, told, last_message)
    BY DEF ListInv, ListTypeOK
  <2>2. PICK before \in Seq(Words) : told = before \o Texts(entries)
    BY <2>1 DEF Kept
  <2>3. Texts(entries) \in Seq(Words)
    BY <2>1, EntryIs, TextsIn
  <2>4. IsSuffix(Texts(entries), before \o Texts(entries))
    BY <2>3, SuffixIs
  <2> QED
    BY <2>2, <2>4 DEF ShowsTail
<1>2. OneNotice
  BY DEF ListInv, OneLineOpen, Open, NoneOpen, OneNotice
<1> QED
  BY <1>1, <1>2 DEF ListInv, ListShows

\* The chat shows the end of what it was told, in order, with as many of each message as
\* its badges say, never more than the limit and never two notices, whatever the order of
\* messages, clearing, combining and silence (output, clearMessages, the controller loop).
THEOREM ListShowsHolds == ListSpec => []ListShows
<1>1. ListInit => ListInv
  BY ListStart
<1>2. ListInv /\ [ListNext]_pageListVars => ListInv'
  BY ListStep
<1>3. ListInv => ListShows
  BY ListInvShows
<1> QED
  BY <1>1, <1>2, <1>3, PTL DEF ListSpec
----------------------------------------------------------------------------
(* Dragging: what is kept of one widget *)

\* One that was destroyed is on its way out, or is out.
Doomed(x) == ~x.exists => IF x.helper = "none" THEN ~x.listens ELSE x.destroyOnClear

\* The press that it is bound for, a drag, and what is dragged about agree.
InOrder(x) ==
    /\ x.bound \subseteq {x.press}
    /\ x.started => x.bound # {}
    /\ x.bound # {} /\ ~x.started => x.helper = "none"
    /\ x.helper = "none" => ~x.started /\ x.state = "rest"
    /\ x.helper # "none" => x.listens /\ (x.started <=> x.state = "drag")
    /\ ~x.listens => x.bound = {}
    /\ Doomed(x)

\* It has let go of the mouse, and may be put away.
Off(x) == x.bound = {} /\ ~x.started /\ x.helper # "none" /\ x.listens /\ Doomed(x)

\* What destroy() makes of a widget.
LEMMA DestroyIs ==
    ASSUME NEW x \in WidgetRecords, NEW y, y = destroy(x)
    PROVE  /\ y \in WidgetRecords
           /\ y.started = x.started /\ y.helper = x.helper /\ y.state = x.state /\ y.press = x.press
           /\ y.from = x.from /\ y.moved = x.moved /\ y.disabled = x.disabled /\ ~y.exists
           /\ y.listens => x.listens
           /\ x.helper # "none" => y.destroyOnClear /\ y.listens = x.listens /\ y.bound = x.bound
           /\ x.helper = "none" => ~y.listens /\ y.bound = x.bound \ {x.press}
<1> DEFINE gone == [x EXCEPT !.exists = FALSE]
<1>1. gone \in WidgetRecords
  BY DEF WidgetRecords
<1>2. CASE x.helper # "none"
  <2>1. y = [gone EXCEPT !.destroyOnClear = TRUE]
    BY <1>2 DEF destroy
  <2> QED
    BY <1>2, <2>1 DEF WidgetRecords
<1>3. CASE x.helper = "none"
  <2>1. y = [gone EXCEPT !.listens = FALSE, !.bound = gone.bound \ {gone.press}]
    BY <1>3 DEF destroy, mouseDestroy
  <2> QED
    BY <1>3, <2>1 DEF WidgetRecords
<1> QED BY <1>2, <1>3

\* The same of one that may be gone already.
LEMMA DestroyedIs ==
    ASSUME NEW x \in WidgetRecords, NEW y, y = destroyed(x)
    PROVE  /\ y \in WidgetRecords
           /\ y.started = x.started /\ y.helper = x.helper /\ y.state = x.state /\ y.press = x.press
           /\ y.from = x.from /\ y.moved = x.moved
           /\ y.listens => x.listens
           /\ y.bound \in SUBSET x.bound
           /\ x.helper # "none" => y.listens = x.listens /\ y.bound = x.bound
           /\ Doomed(x) => Doomed(y)
           /\ InOrder(x) => InOrder(y)
<1>1. CASE ~x.exists
  BY <1>1 DEF destroyed
<1>2. CASE x.exists
  BY <1>2, DestroyIs DEF destroyed, InOrder, Doomed
<1> QED BY <1>1, <1>2

\* What _clear() puts away is at rest.
LEMMA ClearIs ==
    ASSUME NEW x \in WidgetRecords, NEW y, y = _clear(x)
    PROVE  /\ y \in WidgetRecords
           /\ y.started = x.started /\ y.press = x.press /\ y.from = x.from
           /\ y.helper = "none" /\ y.state = "rest"
           /\ y.listens => x.listens
           /\ y.bound \in SUBSET x.bound
           /\ /\ x.bound \subseteq {x.press} /\ ~x.started /\ (~x.listens => x.bound = {}) /\ Doomed(x) /\ x.helper # "none"
              => InOrder(y)
<1> DEFINE rested == [x EXCEPT !.helper = "none", !.state = "rest"]
<1>1. rested \in WidgetRecords
  BY DEF WidgetRecords
<1>2. /\ rested.started = x.started /\ rested.press = x.press /\ rested.from = x.from
      /\ rested.helper = "none" /\ rested.state = "rest" /\ rested.listens = x.listens /\ rested.bound = x.bound
      /\ rested.exists = x.exists /\ rested.destroyOnClear = x.destroyOnClear
  BY DEF WidgetRecords
<1>3. y = IF x.destroyOnClear THEN destroy(rested) ELSE rested
  BY DEF _clear
<1> HIDE DEF rested
<1>4. CASE x.destroyOnClear
  <2>1. y = destroy(rested)
    BY <1>3, <1>4
  <2> QED BY <1>1, <1>2, <2>1, DestroyIs DEF InOrder, Doomed
<1>5. CASE ~x.destroyOnClear
  BY <1>1, <1>2, <1>3, <1>5 DEF InOrder, Doomed
<1> QED BY <1>4, <1>5

\* What is put away or kept after a drag is in order.
LEMMA StoppedIs ==
    ASSUME NEW x \in WidgetRecords, NEW reply \in Replies, NEW y, y = stopped(x, reply)
    PROVE  /\ y \in WidgetRecords
           /\ y.started = x.started /\ y.press = x.press /\ y.from = x.from
           /\ y.listens => x.listens
           /\ y.bound \in SUBSET x.bound
           /\ Off(x) => InOrder(y)
<1>1. CASE reply = "false"
  <2>1. y = [x EXCEPT !.state = "kept"]
    BY <1>1 DEF stopped
  <2> QED
    BY <2>1 DEF WidgetRecords, Off, InOrder, Doomed
<1>2. CASE reply = "destroy"
  <2> DEFINE z == destroyed(x)
  <2>1. y = _clear(z)
    BY <1>2 DEF stopped
  <2>2. /\ z \in WidgetRecords
        /\ z.started = x.started /\ z.helper = x.helper /\ z.press = x.press /\ z.from = x.from
        /\ z.listens => x.listens
        /\ z.bound \in SUBSET x.bound
        /\ x.helper # "none" => z.listens = x.listens /\ z.bound = x.bound
        /\ Doomed(x) => Doomed(z)
    BY DestroyedIs
  <2> HIDE DEF z
  <2> QED
    BY <2>1, <2>2, ClearIs DEF Off
<1>3. CASE reply \in {"true", "cancel"}
  <2>1. y = _clear(x)
    BY <1>3 DEF stopped
  <2> QED
    BY <2>1, ClearIs DEF Off
<1> QED BY <1>1, <1>2, <1>3 DEF Replies

\* So is what goes back first.
LEMMA MouseStopIs ==
    ASSUME NEW x \in WidgetRecords, NEW w, NEW reply \in Replies, NEW y, y = _mouseStop(x, w, reply)
    PROVE  /\ y \in WidgetRecords
           /\ y.started = x.started /\ y.press = x.press /\ y.from = x.from
           /\ y.listens => x.listens
           /\ y.bound \in SUBSET x.bound
           /\ Off(x) => InOrder(y)
<1>1. CASE options[w].revert
  <2>1. y = [x EXCEPT !.state = "revert"]
    BY <1>1 DEF _mouseStop
  <2> QED
    BY <2>1 DEF WidgetRecords, Off, InOrder, Doomed
<1>2. CASE ~options[w].revert
  BY <1>2, StoppedIs DEF _mouseStop
<1> QED BY <1>1, <1>2
----------------------------------------------------------------------------
(* What the library keeps *)

DragState ==
    [w: [Widgets -> WidgetRecords], mouseHandled: BOOLEAN, prevent: SUBSET Widgets, spare: BOOLEAN,
     dragged: BOOLEAN, swallowed: BOOLEAN, canceled: BOOLEAN, stale: BOOLEAN]

\* E comes from D by what was done to widget w, after a release at at.
Goes(D, E, w, at) ==
    /\ E \in DragState
    /\ \A v \in Widgets \ {w} : E.w[v] = D.w[v]
    /\ E.w[w].listens => D.w[w].listens
    /\ D.canceled => E.canceled
    /\ D.stale => E.stale
    /\ D.dragged => E.dragged
    /\ E.swallowed = D.swallowed
    /\ \A t \in E.prevent : t \in D.prevent \/ (t = at /\ E.dragged)

\* One after the other is one.
LEMMA GoesOn ==
    ASSUME NEW D, NEW E, NEW F, NEW w \in Widgets, NEW at, Goes(D, E, w, at), Goes(E, F, w, at)
    PROVE  Goes(D, F, w, at)
BY DEF Goes, DragState

\* What the functions put where.
put(D, w, x) == [D EXCEPT !.w[w] = x]
released(D, w, x) == [D EXCEPT !.w[w] = x, !.mouseHandled = FALSE]
afterDrag(D, w, x, p) == [D EXCEPT !.w[w] = x, !.mouseHandled = FALSE, !.dragged = TRUE, !.prevent = p]
helped(D, w, x, b) == [D EXCEPT !.w[w] = x, !.spare = b]
taken(D, w, x, p) == [D EXCEPT !.w[w] = x, !.prevent = p, !.mouseHandled = TRUE]

\* What putting changes, and what it leaves.
LEMMA DragPutIs ==
    ASSUME NEW D \in DragState, NEW w \in Widgets, NEW x \in WidgetRecords, NEW E, E = put(D, w, x)
    PROVE  /\ E \in DragState /\ E.w[w] = x /\ \A v \in Widgets \ {w} : E.w[v] = D.w[v]
           /\ E.swallowed = D.swallowed /\ E.canceled = D.canceled /\ E.stale = D.stale
           /\ E.mouseHandled = D.mouseHandled /\ E.prevent = D.prevent
           /\ E.spare = D.spare /\ E.dragged = D.dragged
<1> DEFINE ws == [D.w EXCEPT ![w] = x]
<1>1. ws \in [Widgets -> WidgetRecords] /\ ws[w] = x /\ \A v \in Widgets \ {w} : ws[v] = D.w[v]
  BY DEF DragState
<1>2. E = [D EXCEPT !.w = ws]
  BY DEF put
<1> HIDE DEF ws
<1> QED
  BY <1>1, <1>2 DEF DragState

LEMMA ReleasedIs ==
    ASSUME NEW D \in DragState, NEW w \in Widgets, NEW x \in WidgetRecords, NEW E, E = released(D, w, x)
    PROVE  /\ E \in DragState /\ E.w[w] = x /\ \A v \in Widgets \ {w} : E.w[v] = D.w[v]
           /\ E.swallowed = D.swallowed /\ E.canceled = D.canceled /\ E.stale = D.stale
           /\ ~E.mouseHandled /\ E.prevent = D.prevent
           /\ E.spare = D.spare /\ E.dragged = D.dragged
<1> DEFINE ws == [D.w EXCEPT ![w] = x]
<1>1. ws \in [Widgets -> WidgetRecords] /\ ws[w] = x /\ \A v \in Widgets \ {w} : ws[v] = D.w[v]
  BY DEF DragState
<1>2. E = [D EXCEPT !.w = ws, !.mouseHandled = FALSE]
  BY DEF released
<1> HIDE DEF ws
<1> QED
  BY <1>1, <1>2 DEF DragState

LEMMA AfterDragIs ==
    ASSUME NEW D \in DragState, NEW w \in Widgets, NEW x \in WidgetRecords, NEW p \in SUBSET Widgets,
           NEW E, E = afterDrag(D, w, x, p)
    PROVE  /\ E \in DragState /\ E.w[w] = x /\ \A v \in Widgets \ {w} : E.w[v] = D.w[v]
           /\ E.swallowed = D.swallowed /\ E.canceled = D.canceled /\ E.stale = D.stale
           /\ ~E.mouseHandled /\ E.prevent = p
           /\ E.spare = D.spare /\ E.dragged
<1> DEFINE ws == [D.w EXCEPT ![w] = x]
<1>1. ws \in [Widgets -> WidgetRecords] /\ ws[w] = x /\ \A v \in Widgets \ {w} : ws[v] = D.w[v]
  BY DEF DragState
<1>2. E = [D EXCEPT !.w = ws, !.mouseHandled = FALSE, !.dragged = TRUE, !.prevent = p]
  BY DEF afterDrag
<1> HIDE DEF ws
<1> QED
  BY <1>1, <1>2 DEF DragState

LEMMA HelpedIs ==
    ASSUME NEW D \in DragState, NEW w \in Widgets, NEW x \in WidgetRecords, NEW b \in BOOLEAN,
           NEW E, E = helped(D, w, x, b)
    PROVE  /\ E \in DragState /\ E.w[w] = x /\ \A v \in Widgets \ {w} : E.w[v] = D.w[v]
           /\ E.swallowed = D.swallowed /\ E.canceled = D.canceled /\ E.stale = D.stale
           /\ E.mouseHandled = D.mouseHandled /\ E.prevent = D.prevent
           /\ E.spare = b /\ E.dragged = D.dragged
<1> DEFINE ws == [D.w EXCEPT ![w] = x]
<1>1. ws \in [Widgets -> WidgetRecords] /\ ws[w] = x /\ \A v \in Widgets \ {w} : ws[v] = D.w[v]
  BY DEF DragState
<1>2. E = [D EXCEPT !.w = ws, !.spare = b]
  BY DEF helped
<1> HIDE DEF ws
<1> QED
  BY <1>1, <1>2 DEF DragState

LEMMA TakenIs ==
    ASSUME NEW D \in DragState, NEW w \in Widgets, NEW x \in WidgetRecords, NEW p \in SUBSET Widgets,
           NEW E, E = taken(D, w, x, p)
    PROVE  /\ E \in DragState /\ E.w[w] = x /\ \A v \in Widgets \ {w} : E.w[v] = D.w[v]
           /\ E.swallowed = D.swallowed /\ E.canceled = D.canceled /\ E.stale = D.stale
           /\ E.mouseHandled /\ E.prevent = p
           /\ E.spare = D.spare /\ E.dragged = D.dragged
<1> DEFINE ws == [D.w EXCEPT ![w] = x]
<1>1. ws \in [Widgets -> WidgetRecords] /\ ws[w] = x /\ \A v \in Widgets \ {w} : ws[v] = D.w[v]
  BY DEF DragState
<1>2. E = [D EXCEPT !.w = ws, !.prevent = p, !.mouseHandled = TRUE]
  BY DEF taken
<1> HIDE DEF ws
<1> QED
  BY <1>1, <1>2 DEF DragState

\* What _mouseUp() makes of D: E comes from D.
UpDoes(D, E, w, at) ==
    /\ Goes(D, E, w, at) /\ ~E.mouseHandled /\ E.spare = D.spare /\ E.canceled = D.canceled
    /\ E.stale = D.stale /\ ~E.w[w].started
    /\ at = Nowhere \/ at # D.w[w].from => E.prevent = D.prevent
    /\ E.w[w].from = D.w[w].from
    /\ E.w[w].bound \in SUBSET (D.w[w].bound \ {D.w[w].press})
    /\ InOrder(D.w[w]) => InOrder(E.w[w]) /\ E.w[w].bound = {}

\* A release takes back what the last press bound, and ends a drag.
LEMMA MouseUpIs ==
    ASSUME NEW D \in DragState, NEW w \in Widgets, NEW at \in Widgets \cup {Nowhere},
           NEW reply \in Replies, NEW E, E = _mouseUp(D, w, at, reply)
    PROVE  UpDoes(D, E, w, at)
<1> USE DEF UpDoes
<1> DEFINE x == D.w[w]
           freed == [x EXCEPT !.bound = @ \ {x.press}]
           quiet == [freed EXCEPT !.started = FALSE]
           ended == _mouseStop(quiet, w, reply)
           kept == IF at = x.from THEN D.prevent \cup ({at} \ {Nowhere}) ELSE D.prevent
<1>1. x \in WidgetRecords
  BY DEF DragState
<1>2. /\ freed \in WidgetRecords /\ freed.bound = x.bound \ {x.press} /\ freed.started = x.started
      /\ freed.press = x.press /\ freed.from = x.from /\ freed.listens = x.listens
      /\ freed.helper = x.helper /\ freed.state = x.state /\ freed.exists = x.exists
      /\ freed.destroyOnClear = x.destroyOnClear
  BY <1>1 DEF WidgetRecords
<1>3. /\ quiet \in WidgetRecords /\ quiet.bound = x.bound \ {x.press} /\ quiet.started = FALSE
      /\ quiet.press = x.press /\ quiet.from = x.from /\ quiet.listens = x.listens
      /\ quiet.helper = x.helper /\ quiet.state = x.state /\ quiet.exists = x.exists
      /\ quiet.destroyOnClear = x.destroyOnClear
  BY <1>1 DEF WidgetRecords
<1>4. /\ ended \in WidgetRecords
      /\ ended.started = quiet.started /\ ended.press = quiet.press /\ ended.from = quiet.from
      /\ ended.listens => quiet.listens
      /\ ended.bound \in SUBSET quiet.bound
      /\ Off(quiet) => InOrder(ended)
  <2> HIDE DEF quiet
  <2> QED BY <1>3, MouseStopIs
<1>5. kept \in SUBSET Widgets /\ \A t \in kept : t \in D.prevent \/ t = at
  BY DEF DragState
<1>6. E = IF ~x.started THEN released(D, w, freed) ELSE afterDrag(D, w, ended, kept)
  BY DEF _mouseUp, released, afterDrag
<1>7. at = Nowhere \/ at # x.from => kept = D.prevent
  OBVIOUS
<1> HIDE DEF freed, quiet, ended, kept
<1>8. CASE ~x.started
  <2>1. E = released(D, w, freed)
    BY <1>6, <1>8
  <2>2. /\ E \in DragState /\ E.w[w] = freed /\ \A v \in Widgets \ {w} : E.w[v] = D.w[v]
        /\ ~E.mouseHandled /\ E.prevent = D.prevent /\ E.spare = D.spare
        /\ E.dragged = D.dragged /\ E.swallowed = D.swallowed /\ E.canceled = D.canceled
        /\ E.stale = D.stale
    BY <1>2, <2>1, ReleasedIs
  <2>3. InOrder(x) => InOrder(freed) /\ freed.bound = {}
    BY <1>1, <1>2, <1>8 DEF InOrder, Doomed
  <2>4. Goes(D, E, w, at)
    BY <1>2, <2>2 DEF Goes
  <2> QED
    BY <1>2, <1>8, <2>2, <2>3, <2>4
<1>9. CASE x.started
  <2>1. E = afterDrag(D, w, ended, kept)
    BY <1>6, <1>9
  <2>2. /\ E \in DragState /\ E.w[w] = ended /\ \A v \in Widgets \ {w} : E.w[v] = D.w[v]
        /\ ~E.mouseHandled /\ E.prevent = kept /\ E.spare = D.spare
        /\ E.dragged /\ E.swallowed = D.swallowed /\ E.canceled = D.canceled
        /\ E.stale = D.stale
    BY <1>4, <1>5, <2>1, AfterDragIs
  <2>3. InOrder(x) => Off(quiet) /\ quiet.bound = {}
    BY <1>1, <1>3, <1>9 DEF InOrder, Doomed, Off
  <2>4. InOrder(x) => InOrder(ended) /\ ended.bound = {}
    BY <1>4, <2>3
  <2>5. ended.started = FALSE /\ ended.from = x.from /\ ended.bound \in SUBSET (x.bound \ {x.press}) /\ (ended.listens => x.listens)
    BY <1>3, <1>4
  <2>6. Goes(D, E, w, at)
    BY <1>5, <2>2, <2>5 DEF Goes
  <2> QED
    BY <1>7, <2>2, <2>4, <2>5, <2>6
<1> QED BY <1>8, <1>9

\* A release that was missed: E comes from D.
MissedDoes(D, E, w, at) ==
    /\ Goes(D, E, w, at) /\ ~E.mouseHandled /\ E.spare = D.spare /\ E.canceled = D.canceled
    /\ \A t \in E.prevent : t \in D.prevent \/ E.stale
    /\ ~E.w[w].started
    /\ E.w[w].bound \in SUBSET (D.w[w].bound \ {D.w[w].press})
    /\ InOrder(D.w[w]) => InOrder(E.w[w]) /\ E.w[w].bound = {}

\* A missed one too; what it keeps for a click waits for a later one.
LEMMA MissedUpIs ==
    ASSUME NEW D \in DragState, NEW w \in Widgets, NEW at \in Widgets \cup {Nowhere},
           NEW reply \in Replies, NEW E, E = missedUp(D, w, at, reply)
    PROVE  MissedDoes(D, E, w, at)
<1> USE DEF MissedDoes
<1> DEFINE F == _mouseUp(D, w, at, reply)
           b == F.stale \/ at = D.w[w].from
<1>1. /\ Goes(D, F, w, at) /\ ~F.mouseHandled /\ F.spare = D.spare /\ F.canceled = D.canceled
      /\ F.stale = D.stale /\ ~F.w[w].started
      /\ at # D.w[w].from => F.prevent = D.prevent
      /\ F.w[w].bound \in SUBSET (D.w[w].bound \ {D.w[w].press})
      /\ InOrder(D.w[w]) => InOrder(F.w[w]) /\ F.w[w].bound = {}
  BY MouseUpIs DEF UpDoes
<1>2. E = [F EXCEPT !.stale = b]
  BY DEF missedUp
<1>3. b \in BOOLEAN /\ (F.stale => b) /\ (at = D.w[w].from => b)
  OBVIOUS
<1> HIDE DEF F, b
<1>4. F \in DragState
  BY <1>1 DEF Goes
<1>5. /\ E \in DragState /\ E.w = F.w /\ E.mouseHandled = F.mouseHandled /\ E.prevent = F.prevent
      /\ E.spare = F.spare /\ E.dragged = F.dragged /\ E.swallowed = F.swallowed
      /\ E.canceled = F.canceled /\ E.stale = b
  BY <1>2, <1>3, <1>4 DEF DragState
<1>6. Goes(D, E, w, at)
  BY <1>1, <1>3, <1>5 DEF Goes
<1>7. \A t \in E.prevent : t \in D.prevent \/ E.stale
  BY <1>1, <1>3, <1>5
<1> QED BY <1>1, <1>5, <1>6, <1>7

\* cancel(): E comes from D.
CancelDoes(D, E, w) ==
    /\ Goes(D, E, w, Nowhere) /\ E.spare = D.spare /\ E.canceled = D.canceled
    /\ E.stale = D.stale /\ E.prevent = D.prevent
    /\ E.w[w].bound \in SUBSET D.w[w].bound
    /\ InOrder(D.w[w]) => InOrder(E.w[w])
    /\ E.mouseHandled # D.mouseHandled => D.w[w].helper # "none"
    /\ InOrder(D.w[w]) /\ E.mouseHandled # D.mouseHandled => E.w[w].bound = {}

\* cancel() ends what is dragged, and keeps nothing for a click.
LEMMA CancelIs ==
    ASSUME NEW D \in DragState, NEW w \in Widgets, NEW reply \in Replies, NEW E, E = cancel(D, w, reply)
    PROVE  CancelDoes(D, E, w)
<1> USE DEF CancelDoes
<1>1. CASE D.w[w].helper # "none"
  <2>1. E = _mouseUp(D, w, Nowhere, reply)
    BY <1>1 DEF cancel
  <2> QED BY <1>1, <2>1, MouseUpIs DEF UpDoes
<1>2. CASE D.w[w].helper = "none"
  <2>1. E = D
    BY <1>2 DEF cancel
  <2> QED BY <2>1 DEF Goes
<1> QED BY <1>1, <1>2

\* A drag begins: E comes from D.
BeganDoes(D, E, w) ==
    /\ Goes(D, E, w, Nowhere) /\ E.mouseHandled = D.mouseHandled /\ E.spare = D.spare
    /\ E.canceled = D.canceled /\ E.stale = D.stale /\ E.prevent = D.prevent
    /\ E.w[w].started
    /\ E.w[w].bound = D.w[w].bound /\ E.w[w].press = D.w[w].press
    /\ E.w[w].helper = D.w[w].helper /\ E.w[w].state = D.w[w].state
    /\ E.w[w].listens = D.w[w].listens
    /\ Doomed(D.w[w]) => Doomed(E.w[w])

\* It only begins.
LEMMA BeganIs ==
    ASSUME NEW D \in DragState, NEW w \in Widgets, NEW E, E = began(D, w)
    PROVE  BeganDoes(D, E, w)
<1> USE DEF BeganDoes
<1> DEFINE x == D.w[w]
           y == [x EXCEPT !.started = TRUE]
<1>1. x \in WidgetRecords
  BY DEF DragState
<1>2. /\ y \in WidgetRecords /\ y.started /\ y.bound = x.bound /\ y.press = x.press
      /\ y.helper = x.helper /\ y.state = x.state /\ y.listens = x.listens
      /\ y.exists = x.exists /\ y.destroyOnClear = x.destroyOnClear
  BY <1>1 DEF WidgetRecords
<1>3. E = put(D, w, y)
  BY DEF began, put
<1> HIDE DEF y
<1>4. /\ E \in DragState /\ E.w[w] = y /\ \A v \in Widgets \ {w} : E.w[v] = D.w[v]
      /\ E.swallowed = D.swallowed /\ E.canceled = D.canceled /\ E.stale = D.stale
      /\ E.mouseHandled = D.mouseHandled /\ E.prevent = D.prevent
      /\ E.spare = D.spare /\ E.dragged = D.dragged
  BY <1>2, <1>3, DragPutIs
<1>5. Goes(D, E, w, Nowhere)
  BY <1>2, <1>4 DEF Goes
<1>6. Doomed(x) => Doomed(y)
  BY <1>2 DEF Doomed
<1> QED BY <1>2, <1>4, <1>5, <1>6

\* A widget that drags, with or without a press that it is bound for.
Dragging(x) ==
    x.started /\ x.helper # "none" /\ x.state = "drag" /\ x.listens /\ Doomed(x) /\ x.bound \subseteq {x.press}

\* The handlers of start: E comes from D.
AfterStartDoes(D, E, w) ==
    /\ Goes(D, E, w, Nowhere) /\ E.spare = D.spare
    /\ E.stale = D.stale /\ E.prevent = D.prevent
    /\ E.w[w].bound \in SUBSET D.w[w].bound
    /\ D.w[w].bound \subseteq {D.w[w].press} /\ D.w[w].helper # "none" /\ D.w[w].state = "drag"
       /\ ~D.w[w].started /\ D.w[w].listens /\ Doomed(D.w[w]) /\ ~E.canceled
       => /\ E.mouseHandled = D.mouseHandled
          /\ E.w[w].press = D.w[w].press
          /\ IF E.w[w].started THEN Dragging(E.w[w]) /\ E.w[w].bound = D.w[w].bound
             ELSE InOrder(E.w[w]) /\ E.w[w].helper = "none"

\* A drag that begins has something to drag, whatever the handlers of start did but cancel.
LEMMA AfterStartIs ==
    ASSUME NEW D \in DragState, NEW w \in Widgets, NEW reply \in Replies, NEW E, E = afterStart(D, w, reply)
    PROVE  AfterStartDoes(D, E, w)
<1> USE DEF AfterStartDoes
<1> DEFINE x == D.w[w]
           fits1 == x.bound \subseteq {x.press} /\ x.helper # "none" /\ x.state = "drag"
                    /\ ~x.started /\ x.listens /\ Doomed(x)
<1>1. x \in WidgetRecords
  BY DEF DragState
<1>2. CASE reply = "false"
  <2> DEFINE y == _clear(x)
  <2>1. E = put(D, w, y)
    BY <1>2 DEF afterStart, put
  <2>2. /\ y \in WidgetRecords
        /\ y.started = x.started /\ y.press = x.press /\ y.from = x.from
        /\ y.helper = "none" /\ y.state = "rest"
        /\ y.listens => x.listens
        /\ y.bound \in SUBSET x.bound
        /\ fits1 => InOrder(y)
    BY <1>1, ClearIs
  <2> HIDE DEF y
  <2>3. /\ E \in DragState /\ E.w[w] = y /\ \A v \in Widgets \ {w} : E.w[v] = D.w[v]
        /\ E.swallowed = D.swallowed /\ E.canceled = D.canceled /\ E.stale = D.stale
        /\ E.mouseHandled = D.mouseHandled /\ E.prevent = D.prevent
        /\ E.spare = D.spare /\ E.dragged = D.dragged
    BY <2>1, <2>2, DragPutIs
  <2>4. Goes(D, E, w, Nowhere)
    BY <2>2, <2>3 DEF Goes
  <2> QED BY <2>2, <2>3, <2>4
<1>3. CASE reply = "cancel"
  <2> DEFINE F == cancel(D, w, "true")
             H == began(F, w)
  <2>1. E = [H EXCEPT !.canceled = TRUE]
    BY <1>3 DEF afterStart
  <2>2. /\ Goes(D, F, w, Nowhere) /\ F.spare = D.spare /\ F.stale = D.stale /\ F.prevent = D.prevent
        /\ F.w[w].bound \in SUBSET D.w[w].bound
    <3> HIDE DEF AfterStartDoes
    <3>1. "true" \in Replies
      BY DEF Replies
    <3>2. CancelDoes(D, F, w)
      BY <3>1, CancelIs
    <3> QED BY <3>2 DEF CancelDoes
  <2>3. F \in DragState
    BY <2>2 DEF Goes
  <2> HIDE DEF F
  <2>4. /\ Goes(F, H, w, Nowhere) /\ H.spare = F.spare
        /\ H.stale = F.stale /\ H.prevent = F.prevent /\ H.w[w].bound = F.w[w].bound
    BY <2>3, BeganIs DEF BeganDoes
  <2> HIDE DEF H
  <2>5. Goes(D, H, w, Nowhere)
    BY <2>2, <2>4, GoesOn
  <2>6. H \in DragState
    BY <2>5 DEF Goes
  <2>7. /\ E \in DragState /\ E.w = H.w /\ E.mouseHandled = H.mouseHandled /\ E.prevent = H.prevent
        /\ E.spare = H.spare /\ E.dragged = H.dragged /\ E.swallowed = H.swallowed
        /\ E.canceled /\ E.stale = H.stale
    BY <2>1, <2>6 DEF DragState
  <2>8. Goes(D, E, w, Nowhere)
    BY <2>5, <2>7 DEF Goes
  <2> QED BY <2>2, <2>4, <2>7, <2>8
<1>4. CASE reply = "destroy"
  <2> DEFINE y == destroyed(x)
             F == put(D, w, y)
  <2>1. E = began(F, w)
    BY <1>4 DEF afterStart, put
  <2>2. /\ y \in WidgetRecords
        /\ y.started = x.started /\ y.helper = x.helper /\ y.state = x.state /\ y.press = x.press
        /\ y.listens => x.listens
        /\ y.bound \in SUBSET x.bound
        /\ x.helper # "none" => y.listens = x.listens /\ y.bound = x.bound
        /\ Doomed(x) => Doomed(y)
    BY <1>1, DestroyedIs
  <2> HIDE DEF y
  <2>3. /\ F \in DragState /\ F.w[w] = y /\ \A v \in Widgets \ {w} : F.w[v] = D.w[v]
        /\ F.swallowed = D.swallowed /\ F.canceled = D.canceled /\ F.stale = D.stale
        /\ F.mouseHandled = D.mouseHandled /\ F.prevent = D.prevent
        /\ F.spare = D.spare /\ F.dragged = D.dragged
    BY <2>2, DragPutIs
  <2> HIDE DEF F
  <2>4. Goes(D, F, w, Nowhere)
    BY <2>2, <2>3 DEF Goes
  <2>5. /\ Goes(F, E, w, Nowhere) /\ E.mouseHandled = F.mouseHandled /\ E.spare = F.spare
        /\ E.canceled = F.canceled /\ E.stale = F.stale /\ E.prevent = F.prevent
        /\ E.w[w].started
        /\ E.w[w].bound = F.w[w].bound /\ E.w[w].press = F.w[w].press
        /\ E.w[w].helper = F.w[w].helper /\ E.w[w].state = F.w[w].state
        /\ E.w[w].listens = F.w[w].listens
        /\ Doomed(F.w[w]) => Doomed(E.w[w])
    BY <2>1, <2>3, BeganIs DEF BeganDoes
  <2>6. Goes(D, E, w, Nowhere)
    BY <2>4, <2>5, GoesOn
  <2>7. fits1 => Dragging(E.w[w]) /\ E.w[w].bound = x.bound
    BY <2>2, <2>3, <2>5 DEF Dragging
  <2> QED BY <2>2, <2>3, <2>5, <2>6, <2>7
<1>5. CASE reply = "true"
  <2>1. E = began(D, w)
    BY <1>5 DEF afterStart
  <2>2. /\ Goes(D, E, w, Nowhere) /\ E.mouseHandled = D.mouseHandled /\ E.spare = D.spare
        /\ E.canceled = D.canceled /\ E.stale = D.stale /\ E.prevent = D.prevent
        /\ E.w[w].started
        /\ E.w[w].bound = D.w[w].bound /\ E.w[w].press = D.w[w].press
        /\ E.w[w].helper = D.w[w].helper /\ E.w[w].state = D.w[w].state
        /\ E.w[w].listens = D.w[w].listens
        /\ Doomed(D.w[w]) => Doomed(E.w[w])
    BY <2>1, BeganIs DEF BeganDoes
  <2>3. fits1 => Dragging(E.w[w])
    BY <2>2 DEF Dragging
  <2> QED BY <2>2, <2>3
<1> QED BY <1>2, <1>3, <1>4, <1>5 DEF Replies

\* _mouseStart(): E comes from D.
StartDoes(D, E, w) ==
    /\ Goes(D, E, w, Nowhere) /\ E.stale = D.stale /\ E.prevent = D.prevent
    /\ E.w[w].bound \in SUBSET D.w[w].bound
    /\ InOrder(D.w[w]) /\ D.w[w].helper = "none" /\ D.w[w].listens /\ ~D.spare /\ ~E.canceled
       => /\ E.mouseHandled = D.mouseHandled /\ ~E.spare
          /\ E.w[w].press = D.w[w].press
          /\ IF E.w[w].started THEN Dragging(E.w[w]) /\ E.w[w].bound = D.w[w].bound
             ELSE InOrder(E.w[w]) /\ E.w[w].helper = "none"

\* So it is from a press, or a move, to the drag.
LEMMA MouseStartIs ==
    ASSUME NEW D \in DragState, NEW w \in Widgets, NEW reply \in Replies, NEW E, E = _mouseStart(D, w, reply)
    PROVE  StartDoes(D, E, w)
<1> USE DEF StartDoes
<1> DEFINE h == IF options[w].clone THEN "clone" ELSE "original"
           x == D.w[w]
           y == [x EXCEPT !.helper = h, !.state = "drag"]
           b == D.spare \/ D.w[w].helper = "clone"
           F == helped(D, w, y, b)
<1>1. x \in WidgetRecords /\ h \in {"original", "clone"} /\ b \in BOOLEAN
  BY DEF DragState
<1>2. E = afterStart(F, w, reply)
  BY DEF _mouseStart, helped
<1> HIDE DEF h
<1>3. /\ y \in WidgetRecords /\ y.helper = h /\ y.state = "drag" /\ y.started = x.started
      /\ y.press = x.press /\ y.bound = x.bound /\ y.listens = x.listens /\ y.exists = x.exists
      /\ y.destroyOnClear = x.destroyOnClear
  BY <1>1 DEF WidgetRecords
<1> HIDE DEF y
<1>4. ~D.spare /\ x.helper = "none" => ~b
  OBVIOUS
<1> HIDE DEF b
<1>5. /\ F \in DragState /\ F.w[w] = y /\ \A v \in Widgets \ {w} : F.w[v] = D.w[v]
      /\ F.swallowed = D.swallowed /\ F.canceled = D.canceled /\ F.stale = D.stale
      /\ F.mouseHandled = D.mouseHandled /\ F.prevent = D.prevent
      /\ F.spare = b /\ F.dragged = D.dragged
  BY <1>1, <1>3, HelpedIs
<1> HIDE DEF F
<1>6. Goes(D, F, w, Nowhere)
  BY <1>3, <1>5 DEF Goes
<1>7. /\ Goes(F, E, w, Nowhere) /\ E.spare = F.spare
      /\ E.stale = F.stale /\ E.prevent = F.prevent
      /\ E.w[w].bound \in SUBSET F.w[w].bound
      /\ F.w[w].bound \subseteq {F.w[w].press} /\ F.w[w].helper # "none" /\ F.w[w].state = "drag"
         /\ ~F.w[w].started /\ F.w[w].listens /\ Doomed(F.w[w]) /\ ~E.canceled
         => /\ E.mouseHandled = F.mouseHandled
            /\ E.w[w].press = F.w[w].press
            /\ IF E.w[w].started THEN Dragging(E.w[w]) /\ E.w[w].bound = F.w[w].bound
               ELSE InOrder(E.w[w]) /\ E.w[w].helper = "none"
  <2> HIDE DEF StartDoes
  <2>1. AfterStartDoes(F, E, w)
    BY <1>2, <1>5, AfterStartIs
  <2> QED BY <2>1 DEF AfterStartDoes
<1>8. Goes(D, E, w, Nowhere)
  BY <1>6, <1>7, GoesOn
<1>9. ASSUME InOrder(x), x.helper = "none", x.listens
      PROVE  /\ y.bound \subseteq {y.press} /\ y.helper # "none" /\ y.state = "drag"
             /\ ~y.started /\ y.listens /\ Doomed(y)
  BY <1>1, <1>3, <1>9 DEF InOrder, Doomed
<1> QED BY <1>3, <1>4, <1>5, <1>7, <1>8, <1>9

\* _mouseDrag(): E comes from D.
DragDoes(D, E, w) ==
    /\ Goes(D, E, w, Nowhere) /\ E.stale = D.stale /\ E.prevent = D.prevent
    /\ E.spare = D.spare /\ E.canceled = D.canceled
    /\ E.w[w].bound \in SUBSET D.w[w].bound
    /\ InOrder(D.w[w]) => InOrder(E.w[w])
    /\ InOrder(D.w[w]) /\ E.mouseHandled # D.mouseHandled => E.w[w].bound = {}

\* Handlers of drag leave the widget in order.
LEMMA MouseDragIs ==
    ASSUME NEW D \in DragState, NEW w \in Widgets, NEW reply \in Replies, NEW E, E = _mouseDrag(D, w, reply)
    PROVE  DragDoes(D, E, w)
<1> USE DEF DragDoes
<1>0. "true" \in Replies
  BY DEF Replies
<1>1. CASE reply = "false"
  <2>1. E = _mouseUp(D, w, Nowhere, "true")
    BY <1>1 DEF _mouseDrag
  <2> QED BY <1>0, <2>1, MouseUpIs DEF UpDoes
<1>2. CASE reply = "cancel"
  <2>1. E = cancel(D, w, "true")
    BY <1>2 DEF _mouseDrag
  <2>2. CancelDoes(D, E, w)
    <3> HIDE DEF DragDoes
    <3> QED BY <1>0, <2>1, CancelIs
  <2> QED BY <2>2 DEF CancelDoes
<1>3. CASE reply = "destroy"
  <2> DEFINE x == D.w[w]
             y == destroyed(x)
  <2>1. E = put(D, w, y)
    BY <1>3 DEF _mouseDrag, put
  <2>2. x \in WidgetRecords
    BY DEF DragState
  <2>3. /\ y \in WidgetRecords
        /\ y.listens => x.listens
        /\ y.bound \in SUBSET x.bound
        /\ InOrder(x) => InOrder(y)
    BY <2>2, DestroyedIs
  <2> HIDE DEF y
  <2>4. /\ E \in DragState /\ E.w[w] = y /\ \A v \in Widgets \ {w} : E.w[v] = D.w[v]
        /\ E.swallowed = D.swallowed /\ E.canceled = D.canceled /\ E.stale = D.stale
        /\ E.mouseHandled = D.mouseHandled /\ E.prevent = D.prevent
        /\ E.spare = D.spare /\ E.dragged = D.dragged
    BY <2>1, <2>3, DragPutIs
  <2>5. Goes(D, E, w, Nowhere)
    BY <2>3, <2>4 DEF Goes
  <2> QED BY <2>3, <2>4, <2>5
<1>4. CASE reply = "true"
  <2>1. E = D
    BY <1>4 DEF _mouseDrag
  <2> QED BY <2>1 DEF Goes
<1> QED BY <1>1, <1>2, <1>3, <1>4 DEF Replies

\* Nobody is released on nowhere.
LEMMA GoesMore ==
    ASSUME NEW D, NEW E, NEW w \in Widgets, NEW at, Goes(D, E, w, Nowhere), D \in DragState
    PROVE  Goes(D, E, w, at)
<1>1. \A t \in E.prevent : t # Nowhere
  <2>1. E.prevent \in SUBSET Widgets
    BY DEF Goes, DragState
  <2> QED BY <2>1 DEF Widgets, Nowhere
<1> QED BY <1>1 DEF Goes

\* _mouseMove(): E comes from D.
MoveDoes(D, E, w, at) ==
    /\ Goes(D, E, w, at)
    /\ \A t \in E.prevent : t \in D.prevent \/ E.stale
    /\ E.w[w].bound \in SUBSET D.w[w].bound
    /\ InOrder(D.w[w]) /\ D.w[w].bound # {} /\ ~D.spare /\ ~E.canceled
       => /\ InOrder(E.w[w]) /\ ~E.spare
          /\ E.mouseHandled # D.mouseHandled => E.w[w].bound = {}

\* A move leaves the widget that hears it in order.
LEMMA MouseMoveIs ==
    ASSUME NEW D \in DragState, NEW w \in Widgets, NEW pressed \in BOOLEAN, NEW at \in Widgets \cup {Nowhere},
           NEW far \in BOOLEAN, NEW reply \in Replies, NEW then \in Replies,
           NEW E, E = _mouseMove(D, w, pressed, at, far, reply, then)
    PROVE  MoveDoes(D, E, w, at)
<1> USE DEF MoveDoes
<1> DEFINE x == D.w[w]
           y == [x EXCEPT !.moved = x.moved \/ pressed]
           moved == put(D, w, y)
           begun == _mouseStart(moved, w, reply)
<1>1. x \in WidgetRecords
  BY DEF DragState
<1>2. E = IF x.moved /\ ~pressed THEN missedUp(D, w, at, reply)
          ELSE IF x.started THEN _mouseDrag(moved, w, reply)
          ELSE IF ~((far \/ options[w].near) /\ x.delayMet) THEN moved
          ELSE IF begun.w[w].started THEN _mouseDrag(begun, w, then) ELSE _mouseUp(begun, w, Nowhere, reply)
  BY DEF _mouseMove, put
<1>3. /\ y \in WidgetRecords /\ y.helper = x.helper /\ y.state = x.state /\ y.started = x.started
      /\ y.press = x.press /\ y.bound = x.bound /\ y.listens = x.listens /\ y.exists = x.exists
      /\ y.destroyOnClear = x.destroyOnClear
  BY <1>1 DEF WidgetRecords
<1>4. InOrder(x) => InOrder(y)
  BY <1>3 DEF InOrder, Doomed
<1> HIDE DEF y
<1>5. /\ moved \in DragState /\ moved.w[w] = y /\ \A v \in Widgets \ {w} : moved.w[v] = D.w[v]
      /\ moved.swallowed = D.swallowed /\ moved.canceled = D.canceled /\ moved.stale = D.stale
      /\ moved.mouseHandled = D.mouseHandled /\ moved.prevent = D.prevent
      /\ moved.spare = D.spare /\ moved.dragged = D.dragged
  BY <1>3, DragPutIs
<1> HIDE DEF moved
<1>6. Goes(D, moved, w, Nowhere)
  BY <1>3, <1>5 DEF Goes
<1>7. CASE x.moved /\ ~pressed
  <2>1. E = missedUp(D, w, at, reply)
    BY <1>2, <1>7
  <2> QED BY <2>1, MissedUpIs DEF MissedDoes
<1>8. CASE ~(x.moved /\ ~pressed) /\ x.started
  <2>1. E = _mouseDrag(moved, w, reply)
    BY <1>2, <1>8
  <2>2. /\ Goes(moved, E, w, Nowhere) /\ E.stale = moved.stale /\ E.prevent = moved.prevent
        /\ E.spare = moved.spare /\ E.canceled = moved.canceled
        /\ E.w[w].bound \in SUBSET moved.w[w].bound
        /\ InOrder(moved.w[w]) => InOrder(E.w[w])
        /\ InOrder(moved.w[w]) /\ E.mouseHandled # moved.mouseHandled => E.w[w].bound = {}
    <3> HIDE DEF MoveDoes
    <3>1. DragDoes(moved, E, w)
      BY <1>5, <2>1, MouseDragIs
    <3> QED BY <3>1 DEF DragDoes
  <2>3. Goes(D, E, w, at)
    BY <1>6, <2>2, GoesOn, GoesMore
  <2> QED BY <1>3, <1>4, <1>5, <2>2, <2>3
<1>9. CASE ~(x.moved /\ ~pressed) /\ ~x.started /\ ~((far \/ options[w].near) /\ x.delayMet)
  <2>1. E = moved
    BY <1>2, <1>9
  <2>2. Goes(D, E, w, at)
    BY <1>6, <2>1, GoesMore
  <2> QED BY <1>3, <1>4, <1>5, <2>1, <2>2
<1>10. CASE ~(x.moved /\ ~pressed) /\ ~x.started /\ (far \/ options[w].near) /\ x.delayMet
  <2>1. E = IF begun.w[w].started THEN _mouseDrag(begun, w, then) ELSE _mouseUp(begun, w, Nowhere, reply)
    BY <1>2, <1>10
  <2>2. /\ Goes(moved, begun, w, Nowhere) /\ begun.stale = moved.stale /\ begun.prevent = moved.prevent
        /\ begun.w[w].bound \in SUBSET moved.w[w].bound
        /\ InOrder(moved.w[w]) /\ moved.w[w].helper = "none" /\ moved.w[w].listens /\ ~moved.spare /\ ~begun.canceled
           => /\ begun.mouseHandled = moved.mouseHandled /\ ~begun.spare
              /\ begun.w[w].press = moved.w[w].press
              /\ IF begun.w[w].started THEN Dragging(begun.w[w]) /\ begun.w[w].bound = moved.w[w].bound
                 ELSE InOrder(begun.w[w]) /\ begun.w[w].helper = "none"
    BY <1>5, MouseStartIs DEF StartDoes
  <2> HIDE DEF begun
  <2>3. begun \in DragState /\ Goes(D, begun, w, Nowhere)
    BY <1>6, <2>2, GoesOn DEF Goes
  <2>4. ASSUME InOrder(x), x.bound # {}, ~D.spare, ~begun.canceled
        PROVE  InOrder(begun.w[w]) /\ begun.mouseHandled = D.mouseHandled /\ ~begun.spare
    <3>1. InOrder(y) /\ y.helper = "none" /\ y.listens
      BY <1>3, <1>4, <1>10, <2>4 DEF InOrder
    <3>2. /\ begun.mouseHandled = D.mouseHandled /\ ~begun.spare
          /\ IF begun.w[w].started THEN Dragging(begun.w[w]) /\ begun.w[w].bound = y.bound
             ELSE InOrder(begun.w[w])
      BY <1>5, <2>2, <2>4, <3>1
    <3>3. CASE begun.w[w].started
      <4>1. Dragging(begun.w[w]) /\ begun.w[w].bound # {}
        BY <1>3, <2>4, <3>2, <3>3
      <4>2. InOrder(begun.w[w])
        BY <4>1 DEF Dragging, InOrder
      <4> QED BY <3>2, <4>2
    <3> QED BY <3>2, <3>3
  <2>5. CASE begun.w[w].started
    <3>1. E = _mouseDrag(begun, w, then)
      BY <2>1, <2>5
    <3>2. /\ Goes(begun, E, w, Nowhere) /\ E.stale = begun.stale /\ E.prevent = begun.prevent
          /\ E.spare = begun.spare /\ E.canceled = begun.canceled
          /\ E.w[w].bound \in SUBSET begun.w[w].bound
          /\ InOrder(begun.w[w]) => InOrder(E.w[w])
          /\ InOrder(begun.w[w]) /\ E.mouseHandled # begun.mouseHandled => E.w[w].bound = {}
      <4> HIDE DEF MoveDoes
      <4>1. DragDoes(begun, E, w)
        BY <2>3, <3>1, MouseDragIs
      <4> QED BY <4>1 DEF DragDoes
    <3>3. Goes(D, E, w, at)
      BY <2>3, <3>2, GoesOn, GoesMore
    <3> QED BY <1>3, <1>5, <2>2, <2>4, <3>2, <3>3
  <2>6. CASE ~begun.w[w].started
    <3>1. E = _mouseUp(begun, w, Nowhere, reply)
      BY <2>1, <2>6
    <3>2. /\ Goes(begun, E, w, Nowhere) /\ E.stale = begun.stale /\ E.prevent = begun.prevent
          /\ E.spare = begun.spare /\ E.canceled = begun.canceled
          /\ E.w[w].bound \in SUBSET begun.w[w].bound
          /\ InOrder(begun.w[w]) => InOrder(E.w[w]) /\ E.w[w].bound = {}
      <4> HIDE DEF MoveDoes
      <4>1. UpDoes(begun, E, w, Nowhere)
        BY <2>3, <3>1, MouseUpIs
      <4> QED BY <4>1 DEF UpDoes
    <3>3. Goes(D, E, w, at)
      BY <2>3, <3>2, GoesOn, GoesMore
    <3> QED BY <1>3, <1>5, <2>2, <2>4, <3>2, <3>3
  <2> QED BY <2>5, <2>6
<1> QED BY <1>7, <1>8, <1>9, <1>10
----------------------------------------------------------------------------
(* Presses and the events of the mouse *)

\* One widget at most is bound for a press, whose mouse nobody else takes.
Orderly(D) ==
    /\ \A w \in Widgets : InOrder(D.w[w]) /\ (D.w[w].bound # {} => D.mouseHandled)
    /\ \A v, w \in Widgets : D.w[v].bound # {} /\ D.w[w].bound # {} => v = w
    /\ ~D.spare

\* Who changes one widget, and does not let it take the mouse from another, keeps the order.
LEMMA OrderlyOn ==
    ASSUME NEW D, Orderly(D), NEW E, NEW w \in Widgets, \A v \in Widgets \ {w} : E.w[v] = D.w[v],
           InOrder(E.w[w]), E.w[w].bound \in SUBSET D.w[w].bound, ~E.spare,
           E.mouseHandled \/ E.mouseHandled = D.mouseHandled \/ \A v \in Widgets : E.w[v].bound = {}
    PROVE  Orderly(E)
BY DEF Orderly

DownDoes(D, E, w, at) ==
    /\ Goes(D, E, w, at)
    /\ \A t \in E.prevent : t \in D.prevent \/ E.stale
    /\ Orderly(D) /\ ~E.canceled => Orderly(E)

\* A press is for the first widget that takes it: the others find mouseHandled.
LEMMA MouseDownIs ==
    ASSUME NEW D \in DragState, NEW w \in Widgets, NEW n \in Presses, NEW at \in Widgets,
           NEW left \in BOOLEAN, NEW over \in Replies, NEW reply \in Replies,
           NEW E, E = _mouseDown(D, w, n, at, left, over, reply)
    PROVE  DownDoes(D, E, w, at)
<1> DEFINE x0 == D.w[w]
           y0 == [x0 EXCEPT !.moved = FALSE]
           fresh == put(D, w, y0)
           ended == IF x0.started THEN missedUp(fresh, w, at, over) ELSE fresh
           x == [ended.w[w] EXCEPT !.from = at]
           y == [x EXCEPT !.delayMet = ~options[w].delay]
           pressed == put(ended, w, y)
           sooner == options[w].near /\ ~options[w].delay
           begun == IF sooner THEN _mouseStart(pressed, w, reply) ELSE pressed
           z == [begun.w[w] EXCEPT !.press = n, !.bound = @ \cup {n}]
           order == Orderly(D) /\ ~E.canceled
<1>1. E = IF ~x0.listens \/ D.mouseHandled THEN D
          ELSE IF ~_mouseCapture(x, left) THEN put(ended, w, x)
          ELSE IF sooner /\ ~begun.w[w].started THEN begun
          ELSE taken(begun, w, z, begun.prevent \ {at})
  BY DEF _mouseDown, already, put, taken
<1>2. CASE ~x0.listens \/ D.mouseHandled
  <2>1. E = D
    BY <1>1, <1>2
  <2> QED BY <2>1 DEF DownDoes, Goes
<1>3. CASE ~(~x0.listens \/ D.mouseHandled)
  <2>1. x0 \in WidgetRecords
    BY DEF DragState
  <2>2. /\ y0 \in WidgetRecords /\ y0.helper = x0.helper /\ y0.state = x0.state /\ y0.started = x0.started
        /\ y0.press = x0.press /\ y0.bound = x0.bound /\ y0.listens = x0.listens /\ y0.exists = x0.exists
        /\ y0.destroyOnClear = x0.destroyOnClear
    BY <2>1 DEF WidgetRecords
  <2>3. InOrder(x0) => InOrder(y0)
    BY <2>2 DEF InOrder, Doomed
  <2> HIDE DEF y0
  <2>4. /\ fresh \in DragState /\ fresh.w[w] = y0 /\ \A v \in Widgets \ {w} : fresh.w[v] = D.w[v]
        /\ fresh.swallowed = D.swallowed /\ fresh.canceled = D.canceled /\ fresh.stale = D.stale
        /\ fresh.mouseHandled = D.mouseHandled /\ fresh.prevent = D.prevent
        /\ fresh.spare = D.spare /\ fresh.dragged = D.dragged
    BY <2>2, DragPutIs
  <2>5. Goes(D, fresh, w, at)
    BY <2>2, <2>4 DEF Goes
  <2> HIDE DEF fresh
  <2>6. /\ Goes(D, ended, w, at)
        /\ \A t \in ended.prevent : t \in D.prevent \/ ended.stale
        /\ Orderly(D) => ended = fresh
    <3>1. CASE x0.started
      <4>1. MissedDoes(fresh, ended, w, at)
        BY <2>4, <3>1, MissedUpIs
      <4>2. Goes(D, ended, w, at)
        <5>1. Goes(fresh, ended, w, at)
          BY <4>1 DEF MissedDoes
        <5> QED BY <2>5, <5>1, GoesOn
      <4>3. \A t \in ended.prevent : t \in D.prevent \/ ended.stale
        BY <2>4, <4>1 DEF MissedDoes
      <4>4. ~Orderly(D)
        BY <1>3, <3>1 DEF Orderly, InOrder
      <4> QED BY <4>2, <4>3, <4>4
    <3>2. CASE ~x0.started
      BY <2>4, <2>5, <3>2
    <3> QED BY <3>1, <3>2
  <2>7. ended \in DragState /\ ended.w[w] \in WidgetRecords
    BY <2>6 DEF Goes, DragState
  <2>8. ASSUME Orderly(D)
        PROVE  /\ InOrder(ended.w[w]) /\ ended.w[w].bound = {} /\ ~ended.w[w].started /\ ended.w[w].listens
               /\ ~ended.spare /\ ~ended.mouseHandled
               /\ \A v \in Widgets \ {w} : ended.w[v] = D.w[v]
               /\ \A v \in Widgets : D.w[v].bound = {}
    BY <1>3, <2>2, <2>3, <2>4, <2>6, <2>8 DEF Orderly, InOrder
  <2> HIDE DEF ended
  <2>9. /\ x \in WidgetRecords /\ x.helper = ended.w[w].helper /\ x.state = ended.w[w].state
        /\ x.started = ended.w[w].started /\ x.press = ended.w[w].press /\ x.bound = ended.w[w].bound
        /\ x.listens = ended.w[w].listens /\ x.exists = ended.w[w].exists
        /\ x.destroyOnClear = ended.w[w].destroyOnClear
    BY <2>7 DEF WidgetRecords
  <2> HIDE DEF x
  <2>10. /\ y \in WidgetRecords /\ y.helper = ended.w[w].helper /\ y.state = ended.w[w].state
         /\ y.started = ended.w[w].started /\ y.press = ended.w[w].press /\ y.bound = ended.w[w].bound
         /\ y.listens = ended.w[w].listens /\ y.exists = ended.w[w].exists
         /\ y.destroyOnClear = ended.w[w].destroyOnClear
    BY <2>9 DEF WidgetRecords
  <2> HIDE DEF y
  <2>11. InOrder(ended.w[w]) => InOrder(x) /\ InOrder(y)
    BY <2>9, <2>10 DEF InOrder, Doomed
  <2>12. CASE ~_mouseCapture(x, left)
    <3>1. E = put(ended, w, x)
      BY <1>1, <1>3, <2>12
    <3> DEFINE F == put(ended, w, x)
    <3>9. /\ F \in DragState /\ F.w[w] = x /\ \A v \in Widgets \ {w} : F.w[v] = ended.w[v]
          /\ F.swallowed = ended.swallowed /\ F.canceled = ended.canceled /\ F.stale = ended.stale
          /\ F.mouseHandled = ended.mouseHandled /\ F.prevent = ended.prevent
          /\ F.spare = ended.spare /\ F.dragged = ended.dragged
      BY <2>7, <2>9, DragPutIs
    <3>2. /\ E \in DragState /\ E.w[w] = x /\ \A v \in Widgets \ {w} : E.w[v] = ended.w[v]
          /\ E.swallowed = ended.swallowed /\ E.canceled = ended.canceled /\ E.stale = ended.stale
          /\ E.mouseHandled = ended.mouseHandled /\ E.prevent = ended.prevent
          /\ E.spare = ended.spare /\ E.dragged = ended.dragged
      BY <3>1, <3>9
    <3>3. Goes(ended, E, w, at)
      BY <2>9, <3>2 DEF Goes
    <3>4. Goes(D, E, w, at)
      BY <2>6, <3>3, GoesOn
    <3>5. ASSUME Orderly(D) PROVE Orderly(E)
      <4>1. InOrder(x) /\ x.bound = {}
        BY <2>8, <2>9, <2>11, <3>5
      <4>2. \A v \in Widgets \ {w} : E.w[v] = D.w[v]
        BY <2>8, <3>2, <3>5
      <4>3. \A v \in Widgets : E.w[v].bound = {}
        BY <2>8, <3>2, <3>5, <4>1, <4>2
      <4>4. InOrder(E.w[w]) /\ E.w[w].bound \in SUBSET D.w[w].bound /\ ~E.spare
        BY <2>8, <3>2, <3>5, <4>1
      <4> QED BY ONLY <3>5, <4>2, <4>3, <4>4, w \in Widgets, OrderlyOn
    <3> QED BY <2>6, <3>2, <3>4, <3>5 DEF DownDoes
  <2>13. CASE _mouseCapture(x, left)
    <3>1. /\ pressed \in DragState /\ pressed.w[w] = y /\ \A v \in Widgets \ {w} : pressed.w[v] = ended.w[v]
          /\ pressed.swallowed = ended.swallowed /\ pressed.canceled = ended.canceled /\ pressed.stale = ended.stale
          /\ pressed.mouseHandled = ended.mouseHandled /\ pressed.prevent = ended.prevent
          /\ pressed.spare = ended.spare /\ pressed.dragged = ended.dragged
      BY <2>7, <2>10, DragPutIs
    <3> HIDE DEF pressed
    <3>2. Goes(ended, pressed, w, Nowhere)
      BY <2>10, <3>1 DEF Goes
    <3>3. Goes(pressed, begun, w, Nowhere) /\ begun.stale = pressed.stale /\ begun.prevent = pressed.prevent
          /\ begun.w[w].bound \in SUBSET pressed.w[w].bound
      <4>1. CASE sooner
        <5>1. StartDoes(pressed, begun, w)
          BY <3>1, <4>1, MouseStartIs
        <5> QED BY <5>1 DEF StartDoes
      <4>2. CASE ~sooner
        BY <3>1, <4>2 DEF Goes
      <4> QED BY <4>1, <4>2
    <3>4. ASSUME Orderly(D), ~begun.canceled
          PROVE  /\ ~begun.mouseHandled /\ ~begun.spare
                 /\ begun.w[w].bound = {}
                 /\ sooner /\ ~begun.w[w].started => InOrder(begun.w[w])
                 /\ ~(sooner /\ ~begun.w[w].started)
                    => begun.w[w].listens /\ InOrder([begun.w[w] EXCEPT !.press = n, !.bound = @ \cup {n}])
      <4>1. y.helper = "none" /\ InOrder(y) /\ y.listens /\ ~pressed.spare /\ ~pressed.mouseHandled
            /\ y.bound = {} /\ ~y.started
        BY <2>8, <2>9, <2>10, <2>11, <2>13, <3>1, <3>4 DEF _mouseCapture
      <4>2. CASE sooner
        <5>1. StartDoes(pressed, begun, w)
          BY <3>1, <4>2, MouseStartIs
        <5>2. /\ ~begun.mouseHandled /\ ~begun.spare
              /\ IF begun.w[w].started THEN Dragging(begun.w[w]) /\ begun.w[w].bound = {}
                 ELSE InOrder(begun.w[w])
          BY <3>1, <3>4, <4>1, <5>1 DEF StartDoes
        <5>3. begun.w[w].bound = {} /\ begun.w[w] \in WidgetRecords
          BY <3>1, <3>3, <4>1 DEF Goes, DragState
        <5>4. ASSUME Dragging(begun.w[w])
              PROVE  begun.w[w].listens /\ InOrder([begun.w[w] EXCEPT !.press = n, !.bound = @ \cup {n}])
          <6> DEFINE u == begun.w[w]
                     u1 == [u EXCEPT !.press = n, !.bound = @ \cup {n}]
          <6>1. /\ u1.press = n /\ u1.bound = {n} /\ u1.started = u.started /\ u1.helper = u.helper
                /\ u1.state = u.state /\ u1.listens = u.listens /\ u1.exists = u.exists
                /\ u1.destroyOnClear = u.destroyOnClear
            BY <5>3 DEF WidgetRecords
          <6> HIDE DEF u1
          <6>2. InOrder(u1) /\ u.listens
            BY <5>4, <6>1 DEF Dragging, InOrder, Doomed
          <6> QED BY <6>2 DEF u1
        <5> HIDE DEF begun
        <5> QED BY <4>2, <5>2, <5>3, <5>4
      <4>3. CASE ~sooner
        <5>1. begun = pressed
          BY <4>3
        <5> DEFINE u1 == [y EXCEPT !.press = n, !.bound = @ \cup {n}]
        <5>2. /\ u1.press = n /\ u1.bound = {n} /\ u1.started = y.started /\ u1.helper = y.helper
              /\ u1.state = y.state /\ u1.listens = y.listens /\ u1.exists = y.exists
              /\ u1.destroyOnClear = y.destroyOnClear
          BY <2>10, <4>1 DEF WidgetRecords
        <5> HIDE DEF u1
        <5>3. InOrder(u1) /\ y.listens
          BY <4>1, <5>2 DEF InOrder, Doomed
        <5>4. begun.w[w] = y
          BY <3>1, <5>1
        <5>5. InOrder([begun.w[w] EXCEPT !.press = n, !.bound = @ \cup {n}])
          BY <5>3, <5>4 DEF u1
        <5> HIDE DEF begun
        <5> QED BY <3>1, <4>1, <4>3, <5>1, <5>3, <5>4, <5>5
      <4> QED BY <4>2, <4>3
    <3> HIDE DEF begun
    <3>5. begun \in DragState /\ Goes(D, begun, w, at) /\ Goes(ended, begun, w, Nowhere)
      <4>1. Goes(ended, begun, w, Nowhere)
        BY <3>2, <3>3, GoesOn
      <4>2. Goes(ended, begun, w, at)
        BY <2>7, <4>1, GoesMore
      <4> QED BY <2>6, <4>1, <4>2, GoesOn DEF Goes
    <3>6. \A v \in Widgets \ {w} : begun.w[v] = ended.w[v]
      BY <3>5 DEF Goes
    <3>7. \A t \in begun.prevent : t \in D.prevent \/ begun.stale
      BY <2>6, <3>1, <3>3
    <3>8. CASE sooner /\ ~begun.w[w].started
      <4>1. E = begun
        BY <1>1, <1>3, <2>13, <3>8
      <4>2. ASSUME Orderly(D), ~E.canceled PROVE Orderly(E)
        <5>1. \A v \in Widgets \ {w} : E.w[v] = D.w[v]
          BY <2>8, <3>6, <4>1, <4>2
        <5>2. E.w[w].bound = {} /\ InOrder(E.w[w]) /\ ~E.spare
          BY <3>4, <3>8, <4>1, <4>2
        <5>3. \A v \in Widgets : E.w[v].bound = {}
          BY <2>8, <4>2, <5>1, <5>2
        <5> QED BY <4>2, <5>1, <5>2, <5>3, OrderlyOn
      <4> QED BY <3>5, <3>7, <4>1, <4>2 DEF DownDoes
    <3>9. CASE ~(sooner /\ ~begun.w[w].started)
      <4>1. E = taken(begun, w, z, begun.prevent \ {at})
        BY <1>1, <1>3, <2>13, <3>9
      <4>2. begun.w[w] \in WidgetRecords /\ begun.prevent \ {at} \in SUBSET Widgets
        BY <3>5 DEF DragState
      <4>3. z \in WidgetRecords /\ z.listens = begun.w[w].listens /\ z.bound = begun.w[w].bound \cup {n}
        BY <4>2 DEF WidgetRecords
      <4>4. Orderly(D) /\ ~begun.canceled => InOrder(z)
        BY <3>4, <3>9
      <4> HIDE DEF z
      <4>5. /\ E \in DragState /\ E.w[w] = z /\ \A v \in Widgets \ {w} : E.w[v] = begun.w[v]
            /\ E.swallowed = begun.swallowed /\ E.canceled = begun.canceled /\ E.stale = begun.stale
            /\ E.mouseHandled /\ E.prevent = begun.prevent \ {at}
            /\ E.spare = begun.spare /\ E.dragged = begun.dragged
        BY <3>5, <4>1, <4>2, <4>3, TakenIs
      <4>6. Goes(begun, E, w, at)
        BY <4>3, <4>5 DEF Goes
      <4>7. Goes(D, E, w, at)
        BY <3>5, <4>6, GoesOn
      <4>8. ASSUME Orderly(D), ~E.canceled PROVE Orderly(E)
        <5>1. \A v \in Widgets \ {w} : E.w[v] = D.w[v] /\ E.w[v].bound = {}
          BY <2>8, <3>6, <4>5, <4>8
        <5>2. InOrder(E.w[w]) /\ ~E.spare
          BY <3>4, <4>4, <4>5, <4>8
        <5> QED BY <4>5, <4>8, <5>1, <5>2 DEF Orderly
      <4> QED BY <3>7, <4>5, <4>7, <4>8 DEF DownDoes
    <3> QED BY <3>8, <3>9
  <2> QED BY <2>12, <2>13
<1> QED BY <1>2, <1>3

\* What becomes of all widgets.
Went(D, E, at) ==
    /\ E \in DragState
    /\ \A w \in Widgets : E.w[w].listens => D.w[w].listens
    /\ D.canceled => E.canceled
    /\ D.stale => E.stale
    /\ D.dragged => E.dragged
    /\ E.swallowed = D.swallowed
    /\ \A t \in E.prevent : t \in D.prevent \/ (t = at /\ E.dragged)

\* What was done to one widget is done to all of them; one after the other is one.
LEMMA WentOn ==
    /\ \A D, E, w, at : w \in Widgets /\ Goes(D, E, w, at) => Went(D, E, at)
    /\ \A D, E, F, at : Went(D, E, at) /\ Went(E, F, at) => Went(D, F, at)
    /\ \A D, at : D \in DragState => Went(D, D, at)
BY DEF Went, Goes

\* The events of the mouse.
MouseEvents ==
    {mousedown(at, left, over, reply) : at \in Widgets, left \in BOOLEAN, over \in Replies, reply \in Replies}
    \cup {mousemove(at, far, reply, then) :
            at \in Widgets \cup {Nowhere}, far \in BOOLEAN, reply \in Replies, then \in Replies}
    \cup {mouseup(at, reply) : at \in Widgets \cup {Nowhere}, reply \in Replies}

\* One widget hears it.
HeardDoes(D, E, w, event) ==
    /\ Went(D, E, event.at)
    /\ event.type # "mouseup" => \A t \in E.prevent : t \in D.prevent \/ E.stale
    /\ event.type = "mousedown" /\ Orderly(D) /\ ~E.canceled => Orderly(E)
    /\ event.type = "mousemove" /\ Orderly(D) /\ D.w[w].bound # {} /\ ~E.canceled => Orderly(E)
    /\ event.type = "mouseup" =>
         /\ E.spare = D.spare /\ \A v \in Widgets \ {w} : E.w[v] = D.w[v]
         /\ InOrder(D.w[w]) => InOrder(E.w[w]) /\ E.w[w].bound = {}

\* Whatever event it hears, a widget does what is asked of it, and only that.
LEMMA HeardIs ==
    ASSUME NEW D \in DragState, NEW w \in Widgets, NEW event \in MouseEvents,
           event.type = "mousedown" => presses + 1 \in Presses,
           NEW E, E = heard(D, w, event)
    PROVE  HeardDoes(D, E, w, event)
<1>1. CASE \E at \in Widgets, left \in BOOLEAN, over \in Replies, reply \in Replies :
             event = mousedown(at, left, over, reply)
  <2>1. PICK at \in Widgets, left \in BOOLEAN, over \in Replies, reply \in Replies :
          event = mousedown(at, left, over, reply)
    BY <1>1
  <2>2. event.type = "mousedown" /\ event.at = at /\ E = _mouseDown(D, w, presses + 1, at, left, over, reply)
    BY <2>1 DEF mousedown, heard
  <2>3. DownDoes(D, E, w, at)
    BY <2>2, MouseDownIs
  <2>4. Went(D, E, at)
    BY <2>3, WentOn DEF DownDoes
  <2> QED BY <2>2, <2>3, <2>4 DEF DownDoes, HeardDoes
<1>2. CASE \E at \in Widgets \cup {Nowhere}, far \in BOOLEAN, reply \in Replies, then \in Replies :
             event = mousemove(at, far, reply, then)
  <2>1. PICK at \in Widgets \cup {Nowhere}, far \in BOOLEAN, reply \in Replies, then \in Replies :
          event = mousemove(at, far, reply, then)
    BY <1>2
  <2> DEFINE pressed == button # "none"
  <2>2. event.type = "mousemove" /\ event.at = at /\ E = _mouseMove(D, w, pressed, at, far, reply, then)
    BY <2>1 DEF mousemove, heard
  <2>3. pressed \in BOOLEAN
    OBVIOUS
  <2> HIDE DEF pressed
  <2>4. MoveDoes(D, E, w, at)
    BY <2>2, <2>3, MouseMoveIs
  <2>5. Went(D, E, at)
    BY <2>4, WentOn DEF MoveDoes
  <2>6. ASSUME Orderly(D), D.w[w].bound # {}, ~E.canceled PROVE Orderly(E)
    <3>1. InOrder(D.w[w]) /\ ~D.spare /\ \A v \in Widgets \ {w} : D.w[v].bound = {}
      BY <2>6 DEF Orderly
    <3>2. /\ InOrder(E.w[w]) /\ ~E.spare /\ E.w[w].bound \in SUBSET D.w[w].bound
          /\ E.mouseHandled # D.mouseHandled => E.w[w].bound = {}
      BY <2>4, <2>6, <3>1 DEF MoveDoes
    <3>3. \A v \in Widgets \ {w} : E.w[v] = D.w[v]
      BY <2>4 DEF MoveDoes, Goes
    <3>4. E.mouseHandled = D.mouseHandled \/ \A v \in Widgets : E.w[v].bound = {}
      BY <3>1, <3>2, <3>3
    <3> QED BY ONLY <2>6, <3>2, <3>3, <3>4, w \in Widgets, OrderlyOn
  <2> QED BY <2>2, <2>4, <2>5, <2>6 DEF MoveDoes, HeardDoes
<1>3. CASE \E at \in Widgets \cup {Nowhere}, reply \in Replies : event = mouseup(at, reply)
  <2>1. PICK at \in Widgets \cup {Nowhere}, reply \in Replies : event = mouseup(at, reply)
    BY <1>3
  <2>2. event.type = "mouseup" /\ event.at = at /\ E = _mouseUp(D, w, at, reply)
    BY <2>1 DEF mouseup, heard
  <2>3. UpDoes(D, E, w, at)
    BY <2>2, MouseUpIs
  <2>4. Went(D, E, at)
    BY <2>3, WentOn DEF UpDoes
  <2> QED BY <2>2, <2>3, <2>4 DEF UpDoes, HeardDoes, Goes
<1> QED BY <1>1, <1>2, <1>3 DEF MouseEvents

\* From one widget to the next.
onward(event, D, n) ==
    IF n \notin hearing(event) THEN D
    ELSE IF again(event, n) THEN heard(heard(D, n, event), n, event)
    ELSE heard(D, n, event)

\* The turns of all.
halfway(event, D, i) == IF hears(event, i) THEN heard(D, turn(i), event) ELSE D
Heards(f, D, event, k) == f = [n \in 0..k |-> IF n = 0 THEN D ELSE halfway(event, f[n - 1], n)]

\* There is such a function, for any number of widgets.
LEMMA HeardsExist ==
    ASSUME NEW D, NEW event, NEW k \in Nat
    PROVE  \E f : Heards(f, D, event, k)
<1> DEFINE bad == {n \in Nat : ~\E f : Heards(f, D, event, n)}
<1> SUFFICES ASSUME bad # {} PROVE FALSE
  OBVIOUS
<1>1. PICK n \in bad : \A y \in bad : n <= y
  BY LeastNat
<1>2. n # 0
  <2> DEFINE g == [i \in 0..0 |-> D]
  <2>1. g = [i \in 0..0 |-> IF i = 0 THEN D ELSE halfway(event, g[i - 1], i)]
    OBVIOUS
  <2> HIDE DEF g
  <2> QED
    BY <1>1, <2>1 DEF Heards
<1>3. n \in Nat /\ n - 1 \in Nat /\ n - 1 \notin bad
  BY <1>1, <1>2
<1>4. PICK f : Heards(f, D, event, n - 1)
  BY <1>3
<1> DEFINE g == [i \in 0..n |-> IF i = n THEN halfway(event, f[n - 1], n) ELSE f[i]]
<1>5. ASSUME NEW i \in 0..n
      PROVE  g[i] = IF i = 0 THEN D ELSE halfway(event, g[i - 1], i)
  <2>1. CASE i = n
    BY <1>2, <1>3, <2>1
  <2>2. CASE i # n
    <3>1. i \in 0..(n - 1) /\ g[i] = f[i]
      BY <1>3, <2>2
    <3>2. f[i] = IF i = 0 THEN D ELSE halfway(event, f[i - 1], i)
      BY <1>4, <3>1 DEF Heards
    <3>3. CASE i = 0
      BY <3>1, <3>2, <3>3
    <3>4. CASE i # 0
      <4>1. i - 1 \in 0..n /\ i - 1 # n /\ g[i - 1] = f[i - 1]
        BY <1>3, <3>1, <3>4
      <4> QED
        BY <3>1, <3>2, <3>4, <4>1
    <3> QED
      BY <3>3, <3>4
  <2> QED
    BY <2>1, <2>2
<1>6. g = [i \in 0..n |-> IF i = 0 THEN D ELSE halfway(event, g[i - 1], i)]
  <2> DEFINE m == [i \in 0..n |-> IF i = 0 THEN D ELSE halfway(event, g[i - 1], i)]
  <2>1. \A i \in 0..n : g[i] = m[i]
    BY <1>5
  <2>2. DOMAIN g = 0..n /\ DOMAIN m = 0..n
    OBVIOUS
  <2>3. g = [i \in 0..n |-> g[i]] /\ m = [i \in 0..n |-> m[i]]
    OBVIOUS
  <2> HIDE DEF g, m
  <2>4. g = m
    BY <2>1, <2>3
  <2> QED
    BY <2>4 DEF m
<1> HIDE DEF g
<1>7. Heards(g, D, event, n)
  BY <1>6 DEF Heards
<1> QED
  BY <1>1, <1>7

\* The two turns of a widget.
LEMMA TurnIs ==
    ASSUME NEW n \in Nat \ {0}
    PROVE  turn(2 * n - 1) = n /\ turn(2 * n) = n /\ 2 * n - 1 # 2 * n
<1>1. (2 * n) \div 2 = n /\ (2 * n + 1) \div 2 = n
  BY SMT
<1>2. 2 * n - 1 + 1 = 2 * n
  OBVIOUS
<1> QED BY <1>1, <1>2 DEF turn

\* What all hear, one after the other.
LEMMA EachIs ==
    ASSUME NEW D, NEW event
    PROVE  \E f : /\ f[0] = D /\ each(D, event) = f[WidgetCount]
                  /\ \A n \in 1..WidgetCount : f[n] = onward(event, f[n - 1], n)
<1> DEFINE W == WidgetCount
           W2 == 2 * WidgetCount
<1>1. W \in Nat /\ W > 0 /\ W2 \in Nat
  BY DraggableAssumption
<1> HIDE DEF W2
<1>2. PICK f : Heards(f, D, event, W2)
  BY <1>1, HeardsExist
<1> DEFINE g == CHOOSE g : g = [n \in 0..W2 |-> IF n = 0 THEN D
                                   ELSE IF hears(event, n) THEN heard(g[n - 1], turn(n), event)
                                   ELSE g[n - 1]]
<1>3. each(D, event) = g[W2]
  BY DEF each, W2
<1>4. f = [n \in 0..W2 |-> IF n = 0 THEN D
                          ELSE IF hears(event, n) THEN heard(f[n - 1], turn(n), event)
                          ELSE f[n - 1]]
  BY <1>2 DEF Heards, halfway
<1>5. g = [n \in 0..W2 |-> IF n = 0 THEN D
                          ELSE IF hears(event, n) THEN heard(g[n - 1], turn(n), event)
                          ELSE g[n - 1]]
  BY <1>4
<1> HIDE DEF g
<1>6. \A n \in 0..W2 : g[n] = IF n = 0 THEN D ELSE halfway(event, g[n - 1], n)
  BY <1>5 DEF halfway
<1> DEFINE h == [n \in 0..W |-> g[2 * n]]
<1>7. h[0] = D /\ each(D, event) = h[WidgetCount]
  <2>1. 0 \in 0..W /\ W \in 0..W /\ 2 * W = W2 /\ 2 * 0 = 0 /\ 0 \in 0..W2
    BY <1>1 DEF W2
  <2>2. h[0] = g[2 * 0] /\ h[W] = g[2 * W] /\ g[0] = D
    BY <1>6, <2>1
  <2> QED BY <1>3, <2>1, <2>2
<1>8. ASSUME NEW n \in 1..W PROVE h[n] = onward(event, h[n - 1], n)
  <2>1. /\ n \in Nat \ {0} /\ n \in 0..W /\ n - 1 \in 0..W
        /\ 2 * n \in 0..W2 /\ 2 * n # 0 /\ 2 * n - 1 \in 0..W2 /\ 2 * n - 1 # 0
        /\ (2 * n - 1) - 1 = 2 * (n - 1)
    BY <1>1 DEF W2
  <2>2. h[n] = g[2 * n] /\ h[n - 1] = g[2 * (n - 1)]
    BY <2>1
  <2>3. g[2 * n] = halfway(event, g[2 * n - 1], 2 * n)
    BY <1>6, <2>1
  <2>4. g[2 * n - 1] = halfway(event, g[(2 * n - 1) - 1], 2 * n - 1)
    BY <1>6, <2>1
  <2>5. g[2 * n - 1] = halfway(event, h[n - 1], 2 * n - 1)
    BY <2>1, <2>2, <2>4
  <2>6. /\ turn(2 * n - 1) = n /\ turn(2 * n) = n
        /\ hears(event, 2 * n - 1) <=> n \in hearing(event)
        /\ hears(event, 2 * n) <=> n \in hearing(event) /\ again(event, n)
    BY <2>1, TurnIs DEF hears
  <2> DEFINE E == h[n - 1]
             i == 2 * n - 1
             j == 2 * n
  <2>7. g[i] = halfway(event, E, i) /\ h[n] = halfway(event, g[i], j)
    BY <2>2, <2>3, <2>5
  <2>8. /\ turn(i) = n /\ turn(j) = n
        /\ hears(event, i) <=> n \in hearing(event)
        /\ hears(event, j) <=> n \in hearing(event) /\ again(event, n)
    BY <2>6
  <2> HIDE DEF E, i, j, h
  <2>9. h[n] = onward(event, E, n)
    BY <2>7, <2>8 DEF halfway, onward
  <2> QED BY <2>9 DEF E
<1> QED BY <1>7, <1>8

\* One more widget, which hears it or does not.
OnwardDoes(D, E, n, event) ==
    /\ Went(D, E, event.at)
    /\ n \notin hearing(event) => E = D
    /\ event.type # "mouseup" => \A t \in E.prevent : t \in D.prevent \/ E.stale
    /\ event.type = "mousedown" /\ Orderly(D) /\ ~E.canceled => Orderly(E)
    /\ event.type = "mousemove" /\ Orderly(D) /\ D.w[n].bound # {} /\ ~again(event, n) /\ ~E.canceled
       => Orderly(E)
    /\ event.type = "mouseup" =>
         /\ E.spare = D.spare /\ \A v \in Widgets \ {n} : E.w[v] = D.w[v]
         /\ n \in hearing(event) /\ InOrder(D.w[n]) => InOrder(E.w[n]) /\ E.w[n].bound = {}

\* A widget that hears it or does not.
LEMMA OnwardIs ==
    ASSUME NEW D \in DragState, NEW n \in Widgets, NEW event \in MouseEvents,
           event.type = "mousedown" => presses + 1 \in Presses,
           NEW E, E = onward(event, D, n)
    PROVE  OnwardDoes(D, E, n, event)
<1>1. CASE n \notin hearing(event)
  <2>1. E = D
    BY <1>1 DEF onward
  <2>2. Went(D, D, event.at)
    BY WentOn
  <2> QED BY <1>1, <2>1, <2>2 DEF OnwardDoes
<1> DEFINE F == heard(D, n, event)
<1>2. HeardDoes(D, F, n, event)
  BY HeardIs
<1> HIDE DEF F
<1>3. CASE n \in hearing(event) /\ ~again(event, n)
  <2>1. E = F
    BY <1>3 DEF onward, F
  <2> QED BY <1>2, <1>3, <2>1 DEF HeardDoes, OnwardDoes
<1>4. CASE n \in hearing(event) /\ again(event, n)
  <2>1. E = heard(F, n, event)
    BY <1>4 DEF onward, F
  <2>2. F \in DragState
    BY <1>2 DEF HeardDoes, Went
  <2>3. HeardDoes(F, E, n, event)
    BY <2>1, <2>2, HeardIs
  <2>4. Went(D, F, event.at) /\ Went(F, E, event.at)
    BY <1>2, <2>3 DEF HeardDoes
  <2>5. Went(D, E, event.at)
    BY <2>4, WentOn
  <2>6. F.stale => E.stale
    BY <2>4 DEF Went
  <2>7. event.type # "mousedown"
    BY <1>4 DEF again
  <2> QED BY <1>2, <1>4, <2>3, <2>5, <2>6, <2>7 DEF HeardDoes, OnwardDoes
<1> QED BY <1>1, <1>3, <1>4

\* All that hear it, from the inside to the outside.
EachDoes(D, E, event) ==
    /\ Went(D, E, event.at)
    /\ event.type # "mouseup" => \A t \in E.prevent : t \in D.prevent \/ E.stale
    /\ event.type = "mousedown" /\ Orderly(D) /\ ~E.canceled => Orderly(E)
    /\ event.type = "mousemove" /\ D = G /\ Orderly(D) /\ ~E.canceled => Orderly(E)
    /\ event.type = "mouseup" /\ D.w = G.w /\ Orderly(G) =>
         E.spare = D.spare /\ \A v \in Widgets : InOrder(E.w[v]) /\ E.w[v].bound = {}

\* What the first n of them have made of it.
SoFar(D, E, event, n) ==
    /\ Went(D, E, event.at)
    /\ event.type # "mouseup" => \A t \in E.prevent : t \in D.prevent \/ E.stale
    /\ event.type = "mousedown" /\ Orderly(D) /\ ~E.canceled => Orderly(E)
    /\ (\A v \in 1..n : v \notin hearing(event)) => E = D
    /\ event.type = "mousemove" /\ D = G /\ Orderly(D) /\ ~E.canceled => Orderly(E)
    /\ event.type = "mouseup" /\ D.w = G.w /\ Orderly(G) =>
         /\ E.spare = D.spare
         /\ \A v \in Widgets : IF v <= n THEN InOrder(E.w[v]) /\ E.w[v].bound = {} ELSE E.w[v] = D.w[v]

\* A press that nobody else has is heard once.
LEMMA OnceHeard ==
    ASSUME G \in DragState, Orderly(G), NEW event, event.type # "mousedown", NEW n \in Widgets
    PROVE  /\ ~again(event, n)
           /\ n \in hearing(event) => \A v \in Widgets \ {n} : v \notin hearing(event)
<1> DEFINE b == G.w[n].bound
<1>1. b = {} \/ b = {G.w[n].press}
  BY DEF Orderly, InOrder
<1> HIDE DEF b
<1>2. Cardinality(b) <= 1
  <2>1. Cardinality({}) = 0 /\ Cardinality({G.w[n].press}) = 1
    BY FS_EmptySet, FS_Singleton
  <2> QED BY <1>1, <2>1
<1>3. Cardinality(b) \in Nat
  <2>1. Cardinality({}) = 0 /\ Cardinality({G.w[n].press}) = 1
    BY FS_EmptySet, FS_Singleton
  <2> QED BY <1>1, <2>1
<1>4. ~again(event, n)
  BY <1>2, <1>3 DEF again, b
<1>5. n \in hearing(event) => \A v \in Widgets \ {n} : v \notin hearing(event)
  BY DEF hearing, delegating, Orderly
<1> QED BY <1>4, <1>5

\* With one more, it is still so.
LEMMA SoFarOn ==
    ASSUME G \in DragState, NEW event \in MouseEvents,
           event.type = "mousedown" => presses + 1 \in Presses, NEW D, NEW E, NEW F,
           NEW n \in Widgets, SoFar(D, E, event, n - 1), F = onward(event, E, n)
    PROVE  SoFar(D, F, event, n)
<1>1. n \in Nat /\ n > 0 /\ WidgetCount \in Nat
  BY DraggableAssumption DEF Widgets
<1>2. Went(D, E, event.at)
  BY DEF SoFar
<1>3. OnwardDoes(E, F, n, event)
  <2>1. E \in DragState
    BY <1>2 DEF Went
  <2> QED BY <2>1, OnwardIs
<1>4. Went(E, F, event.at) /\ (n \notin hearing(event) => F = E)
  BY <1>3 DEF OnwardDoes
<1>5. Went(D, F, event.at)
  BY <1>2, <1>4, WentOn
<1>6. (E.canceled => F.canceled) /\ (E.stale => F.stale)
  BY <1>4 DEF Went
<1>7. event.type # "mouseup" => \A t \in F.prevent : t \in D.prevent \/ F.stale
  BY <1>3, <1>6 DEF OnwardDoes, SoFar
<1>8. event.type = "mousedown" /\ Orderly(D) /\ ~F.canceled => Orderly(F)
  BY <1>3, <1>6 DEF OnwardDoes, SoFar
<1>9. (\A v \in 1..n : v \notin hearing(event)) => F = D
  <2>1. n \in 1..n /\ \A v \in 1..(n - 1) : v \in 1..n
    BY <1>1
  <2> QED BY <1>4, <2>1 DEF SoFar
<1>10. ASSUME event.type = "mousemove", D = G, Orderly(D), ~F.canceled PROVE Orderly(F)
  <2>1. Orderly(E)
    BY <1>6, <1>10 DEF SoFar
  <2>2. CASE n \notin hearing(event)
    BY <1>4, <2>1, <2>2
  <2>3. CASE n \in hearing(event)
    <3>1. ~again(event, n) /\ \A v \in Widgets \ {n} : v \notin hearing(event)
      BY <1>10, <2>3, OnceHeard
    <3>2. \A v \in 1..(n - 1) : v \notin hearing(event)
      <4>1. \A v \in 1..(n - 1) : v \in Widgets \ {n}
        BY <1>1 DEF Widgets
      <4> QED BY <3>1, <4>1
    <3>3. E = G
      BY <1>10, <3>2 DEF SoFar
    <3>4. E.w[n].bound # {}
      BY <1>10, <2>3, <3>3 DEF hearing, delegating
    <3> QED BY <1>3, <1>10, <2>1, <3>1, <3>4 DEF OnwardDoes
  <2> QED BY <2>2, <2>3
<1>11. ASSUME event.type = "mouseup", D.w = G.w, Orderly(G)
       PROVE  /\ F.spare = D.spare
              /\ \A v \in Widgets : IF v <= n THEN InOrder(F.w[v]) /\ F.w[v].bound = {} ELSE F.w[v] = D.w[v]
  <2>1. /\ E.spare = D.spare
        /\ \A v \in Widgets : IF v <= n - 1 THEN InOrder(E.w[v]) /\ E.w[v].bound = {} ELSE E.w[v] = D.w[v]
    BY <1>11 DEF SoFar
  <2>2. F.spare = E.spare /\ \A v \in Widgets \ {n} : F.w[v] = E.w[v]
    BY <1>3, <1>11 DEF OnwardDoes
  <2>3. E.w[n] = G.w[n] /\ InOrder(G.w[n])
    BY <1>1, <1>11, <2>1 DEF Orderly
  <2>4. InOrder(F.w[n]) /\ F.w[n].bound = {}
    <3>1. CASE n \in hearing(event)
      BY <1>3, <1>11, <2>3, <3>1 DEF OnwardDoes
    <3>2. CASE n \notin hearing(event)
      BY <1>4, <1>11, <2>3, <3>2 DEF hearing, delegating
    <3> QED BY <3>1, <3>2
  <2>5. ASSUME NEW v \in Widgets
        PROVE  IF v <= n THEN InOrder(F.w[v]) /\ F.w[v].bound = {} ELSE F.w[v] = D.w[v]
    <3>1. CASE v = n
      BY <1>1, <2>4, <3>1
    <3>2. CASE v # n
      <4>1. v <= n <=> v <= n - 1
        BY <1>1, <3>2 DEF Widgets
      <4>2. F.w[v] = E.w[v]
        BY <2>2, <3>2
      <4> QED BY <2>1, <4>1, <4>2
    <3> QED BY <3>1, <3>2
  <2> QED BY <2>1, <2>2, <2>5
<1> QED BY <1>5, <1>7, <1>8, <1>9, <1>10, <1>11 DEF SoFar

\* All have heard it.
LEMMA EachDone ==
    ASSUME G \in DragState, NEW event \in MouseEvents,
           event.type = "mousedown" => presses + 1 \in Presses, NEW D \in DragState,
           NEW E, E = each(D, event)
    PROVE  EachDoes(D, E, event)
<1>1. WidgetCount \in Nat /\ WidgetCount > 0
  BY DraggableAssumption
<1>2. PICK f : /\ f[0] = D /\ each(D, event) = f[WidgetCount]
               /\ \A n \in 1..WidgetCount : f[n] = onward(event, f[n - 1], n)
  BY EachIs
<1> DEFINE bad == {n \in Nat : n <= WidgetCount /\ ~SoFar(D, f[n], event, n)}
<1>3. bad = {}
  <2> SUFFICES ASSUME bad # {} PROVE FALSE
    OBVIOUS
  <2>1. PICK n \in bad : \A y \in bad : n <= y
    BY LeastNat
  <2>2. SoFar(D, D, event, 0)
    <3>1. Went(D, D, event.at)
      BY WentOn
    <3>2. \A v \in Widgets : ~(v <= 0)
      BY DEF Widgets
    <3> QED BY <3>1, <3>2 DEF SoFar
  <2>3. n # 0
    BY <1>2, <2>1, <2>2
  <2>4. n \in Widgets /\ n - 1 \in Nat /\ n - 1 <= WidgetCount /\ n - 1 \notin bad
    BY <1>1, <2>1, <2>3 DEF Widgets
  <2>5. SoFar(D, f[n - 1], event, n - 1)
    BY <2>4
  <2>6. f[n] = onward(event, f[n - 1], n)
    BY <1>2, <2>4 DEF Widgets
  <2>7. SoFar(D, f[n], event, n)
    BY <2>4, <2>5, <2>6, SoFarOn
  <2> QED BY <2>1, <2>7
<1>4. SoFar(D, E, event, WidgetCount)
  BY <1>1, <1>2, <1>3
<1>5. \A v \in Widgets : v <= WidgetCount
  BY <1>1 DEF Widgets
<1> QED BY <1>4, <1>5 DEF SoFar, EachDoes
----------------------------------------------------------------------------
(* Steps *)

dead(D, t) == \A w \in t..WidgetCount : ~D.w[w].listens

\* What is kept for a click is for the one to come, where the drag was, or for a widget
\* that no longer hears any.
ClickKept == ~G.stale /\ ~G.canceled => \A t \in G.prevent : dead(G, t) \/ (t = target /\ clickDue /\ G.dragged)

DragInv ==
    /\ DraggableTypeOK /\ G \in DragState
    /\ expected => Orderly(G)
    /\ LetGo /\ ClickIsHeard /\ ClickKept
    /\ clickDue => button = "none" /\ target # Nowhere
    /\ button # "none" => target # Nowhere

\* What each widget is, for the types.
LEMMA DragTyped ==
    ASSUME NEW D \in DragState
    PROVE  /\ D.w \in [Widgets -> WidgetRecords] /\ D.mouseHandled \in BOOLEAN /\ D.prevent \subseteq Widgets
           /\ D.spare \in BOOLEAN /\ D.dragged \in BOOLEAN
BY DEF DragState

\* At first nobody is pressed.
LEMMA DragStart == DraggableInit => DragInv
<1> SUFFICES ASSUME DraggableInit PROVE DragInv
  OBVIOUS
<1> DEFINE x0 == [exists |-> TRUE, listens |-> TRUE, disabled |-> FALSE, started |-> FALSE, moved |-> FALSE,
                  delayMet |-> FALSE, press |-> NoPress, from |-> Nowhere, bound |-> {},
                  helper |-> "none", state |-> "rest", destroyOnClear |-> FALSE]
<1>1. /\ G = [w |-> [w \in Widgets |-> x0], mouseHandled |-> FALSE, prevent |-> {}, spare |-> FALSE,
              dragged |-> FALSE, swallowed |-> FALSE, canceled |-> FALSE, stale |-> FALSE]
      /\ button = "none" /\ target = Nowhere /\ clickDue = FALSE
      /\ presses = 0 /\ dragOps = 0
  BY DEF DraggableInit
<1>2. x0 \in WidgetRecords
  BY DEF WidgetRecords
<1>3. InOrder(x0) /\ x0.bound = {} /\ ~x0.started
  BY DEF InOrder, Doomed
<1> HIDE DEF x0
<1>4. G \in DragState /\ G.prevent = {} /\ ~G.swallowed /\ ~G.spare /\ \A w \in Widgets : G.w[w] = x0
  BY <1>1, <1>2 DEF DragState
<1>5. Orderly(G)
  BY <1>3, <1>4 DEF Orderly
<1>6. options \in [Widgets -> OptionRecords]
  BY DraggableAssumption DEF DraggableInit
<1>7. DraggableTypeOK
  <2>1. presses \in 0..MaxPresses /\ dragOps \in 0..MaxDragOps
    BY <1>1, DraggableAssumption
  <2>2. target \in Widgets \cup {Nowhere}
    BY <1>1
  <2> QED BY <1>1, <1>4, <1>6, <2>1, <2>2, DragTyped DEF DraggableTypeOK
<1>8. LetGo
  BY <1>3, <1>4 DEF LetGo, busy
<1>9. ClickIsHeard /\ ClickKept
  BY <1>4 DEF ClickIsHeard, ClickKept
<1> QED BY <1>1, <1>4, <1>5, <1>7, <1>8, <1>9 DEF DragInv

\* A press: what was kept for a click is for nobody's any more.
LEMMA DownKeeps == ASSUME DragInv, MouseDown PROVE DragInv'
<1>1. PICK at \in Widgets, left \in BOOLEAN, over \in Replies, reply \in Replies :
        /\ G' = each([G EXCEPT !.dragged = FALSE, !.swallowed = FALSE], mousedown(at, left, over, reply))
        /\ target' = at
        /\ button' = IF left THEN "left" ELSE "right"
  BY DEF MouseDown
<1> DEFINE D == [G EXCEPT !.dragged = FALSE, !.swallowed = FALSE]
           event == mousedown(at, left, over, reply)
           E == each(D, event)
<1>2. presses + 1 \in Presses /\ presses \in Nat
  BY DraggableAssumption DEF DragInv, DraggableTypeOK, MouseDown, Presses
<1>3. event \in MouseEvents /\ event.type = "mousedown" /\ event.at = at
  BY DEF MouseEvents, mousedown
<1>4. /\ D \in DragState /\ D.w = G.w /\ D.mouseHandled = G.mouseHandled /\ D.prevent = G.prevent /\ D.spare = G.spare
      /\ D.canceled = G.canceled /\ D.stale = G.stale /\ ~D.swallowed
  BY DEF DragInv, DragState
<1>5. G' = E
  BY <1>1
<1> HIDE DEF D, event
<1>6. EachDoes(D, E, event)
  BY <1>2, <1>3, <1>4, EachDone DEF DragInv
<1> HIDE DEF E
<1>7. Went(D, E, at) /\ (\A t \in E.prevent : t \in D.prevent \/ E.stale)
  BY <1>3, <1>6 DEF EachDoes
<1>8. /\ E \in DragState /\ ~E.swallowed
      /\ \A w \in Widgets : E.w[w].listens => G.w[w].listens
      /\ G.canceled => E.canceled
      /\ G.stale => E.stale
  BY <1>4, <1>7 DEF Went
<1>9. /\ button = "none" /\ ~clickDue /\ presses' = presses + 1 /\ presses < MaxPresses
      /\ UNCHANGED <<options, clickDue, dragOps, astray>>
  BY DEF MouseDown
<1>10. DraggableTypeOK'
  <2>1. presses' \in 0..MaxPresses
    BY <1>2, <1>9, DraggableAssumption
  <2>2. button' \in {"none", "left", "right"} /\ target' \in Widgets \cup {Nowhere}
    BY <1>1
  <2>3. options \in [Widgets -> OptionRecords] /\ dragOps \in 0..MaxDragOps /\ clickDue \in BOOLEAN
    BY DEF DragInv, DraggableTypeOK
  <2> QED BY <1>5, <1>8, <1>9, <2>1, <2>2, <2>3, DragTyped DEF DraggableTypeOK
<1>11. expected' => Orderly(G)'
  <2> SUFFICES ASSUME expected' PROVE Orderly(E)
    BY <1>5 DEF Orderly, InOrder, Doomed
  <2>1. ~E.canceled /\ expected
    BY <1>5, <1>8, <1>9 DEF expected
  <2>2. Orderly(D)
    BY <1>4, <2>1 DEF DragInv, Orderly
  <2> QED BY <1>3, <1>6, <2>1, <2>2 DEF EachDoes
<1>12. button' # "none" /\ target' # Nowhere
  BY <1>1 DEF Widgets, Nowhere
<1>13. LetGo'
  BY <1>12 DEF LetGo
<1>14. ClickIsHeard'
  BY <1>5, <1>8 DEF ClickIsHeard
<1>15. ClickKept'
  <2> SUFFICES ASSUME ~E.stale, ~E.canceled, NEW t \in E.prevent PROVE dead(E, t)
    BY <1>5 DEF ClickKept, dead
  <2>1. t \in G.prevent /\ ~G.stale /\ ~G.canceled /\ t \in Widgets
    BY <1>4, <1>7, <1>8 DEF DragState
  <2>2. dead(G, t)
    BY <1>9, <2>1 DEF DragInv, ClickKept
  <2>3. \A w \in t..WidgetCount : w \in Widgets
    BY <2>1, DraggableAssumption DEF Widgets
  <2> QED BY <1>8, <2>2, <2>3 DEF dead
<1> QED BY <1>5, <1>8, <1>9, <1>10, <1>11, <1>12, <1>13, <1>14, <1>15 DEF DragInv

\* A move: somebody is bound, so the press goes on or its release was missed.
LEMMA MoveKeeps == ASSUME DragInv, MouseMove PROVE DragInv'
<1>1. PICK at \in {target, Nowhere}, far \in BOOLEAN, reply \in Replies, then \in Replies :
        G' = each(G, mousemove(at, far, reply, then))
  BY DEF MouseMove
<1> DEFINE event == mousemove(at, far, reply, then)
           E == each(G, event)
<1>2. at \in Widgets \cup {Nowhere}
  BY DEF DragInv, DraggableTypeOK
<1>3. event \in MouseEvents /\ event.type = "mousemove" /\ event.at = at
  BY <1>2 DEF MouseEvents, mousemove
<1>4. G' = E /\ G \in DragState
  BY <1>1 DEF DragInv
<1> HIDE DEF event
<1>5. EachDoes(G, E, event)
  BY <1>3, <1>4, EachDone
<1> HIDE DEF E
<1>6. Went(G, E, at) /\ (\A t \in E.prevent : t \in G.prevent \/ E.stale)
  BY <1>3, <1>5 DEF EachDoes
<1>7. /\ E \in DragState /\ E.swallowed = G.swallowed /\ (G.dragged => E.dragged)
      /\ \A w \in Widgets : E.w[w].listens => G.w[w].listens
      /\ G.canceled => E.canceled
      /\ G.stale => E.stale
  BY <1>6 DEF Went
<1>8. /\ delegating # {} /\ ~clickDue
      /\ UNCHANGED <<options, button, target, clickDue, presses, dragOps, unheard, astray>>
  BY DEF MouseMove
<1>9. DraggableTypeOK'
  BY <1>4, <1>7, <1>8, DragTyped DEF DragInv, DraggableTypeOK
<1>10. expected' => expected /\ Orderly(G)'
  <2> SUFFICES ASSUME expected' PROVE expected /\ Orderly(E)
    BY <1>4 DEF Orderly, InOrder, Doomed
  <2>1. ~E.canceled /\ expected
    BY <1>4, <1>7, <1>8 DEF expected
  <2> QED BY <1>3, <1>5, <2>1 DEF EachDoes, DragInv
<1>11. LetGo'
  <2> SUFFICES ASSUME button' = "none", ~unheard', expected' PROVE FALSE
    BY DEF LetGo
  <2> QED BY <1>8, <1>10 DEF DragInv, LetGo, busy, delegating
<1>12. ClickIsHeard'
  BY <1>4, <1>7 DEF ClickIsHeard, DragInv
<1>13. ClickKept'
  <2> SUFFICES ASSUME ~E.stale, ~E.canceled, NEW t \in E.prevent PROVE dead(E, t)
    BY <1>4 DEF ClickKept, dead
  <2>1. t \in G.prevent /\ ~G.stale /\ ~G.canceled /\ t \in Widgets
    BY <1>6, <1>7 DEF DragState
  <2>2. dead(G, t)
    BY <1>8, <2>1 DEF DragInv, ClickKept
  <2>3. \A w \in t..WidgetCount : w \in Widgets
    BY <2>1, DraggableAssumption DEF Widgets
  <2> QED BY <1>7, <2>2, <2>3 DEF dead
<1> QED BY <1>4, <1>7, <1>8, <1>9, <1>10, <1>11, <1>12, <1>13 DEF DragInv

\* A release: nobody is bound after it, and a click is next if it is where the press was.
LEMMA UpKeeps == ASSUME DragInv, MouseUp PROVE DragInv'
<1> DEFINE D == [G EXCEPT !.mouseHandled = FALSE]
<1>1. PICK same \in BOOLEAN, reply \in Replies :
        /\ clickDue' = (same /\ button = "left")
        /\ G' = [each(D, mouseup(IF same THEN target ELSE Nowhere, reply)) EXCEPT
                   !.stale = @ \/ (each(D, mouseup(IF same THEN target ELSE Nowhere, reply)).prevent # {} /\ ~clickDue')]
  BY DEF MouseUp
<1> DEFINE at == IF same THEN target ELSE Nowhere
           event == mouseup(at, reply)
           E == each(D, event)
           b == E.stale \/ (E.prevent # {} /\ ~clickDue')
<1>2. at \in Widgets \cup {Nowhere}
  BY DEF DragInv, DraggableTypeOK
<1>3. G' = [E EXCEPT !.stale = b] /\ b \in BOOLEAN /\ (E.stale => b) /\ (E.prevent # {} /\ ~clickDue' => b)
  BY <1>1
<1>4. at = target \/ ~clickDue'
  BY <1>1
<1> HIDE DEF at, b
<1>5. event \in MouseEvents /\ event.type = "mouseup" /\ event.at = at
  BY <1>2 DEF MouseEvents, mouseup
<1>6. /\ D \in DragState /\ D.w = G.w /\ D.prevent = G.prevent /\ D.spare = G.spare /\ D.dragged = G.dragged
      /\ D.swallowed = G.swallowed /\ D.canceled = G.canceled /\ D.stale = G.stale /\ G \in DragState
  BY DEF DragInv, DragState
<1> HIDE DEF D, event
<1>7. EachDoes(D, E, event)
  BY <1>5, <1>6, EachDone
<1> HIDE DEF E
<1>8. Went(D, E, at)
  BY <1>5, <1>7 DEF EachDoes
<1>9. /\ E \in DragState /\ E.swallowed = G.swallowed /\ (G.dragged => E.dragged)
      /\ \A w \in Widgets : E.w[w].listens => G.w[w].listens
      /\ G.canceled => E.canceled
      /\ G.stale => E.stale
      /\ \A t \in E.prevent : t \in G.prevent \/ (t = at /\ E.dragged)
  BY <1>6, <1>8 DEF Went
<1>10. /\ G' \in DragState /\ G'.w = E.w /\ G'.prevent = E.prevent /\ G'.spare = E.spare /\ G'.dragged = E.dragged
       /\ G'.swallowed = E.swallowed /\ G'.canceled = E.canceled /\ G'.stale = b
  BY <1>3, <1>9 DEF DragState
<1>11. /\ button # "none" /\ ~clickDue /\ target # Nowhere /\ button' = "none"
       /\ UNCHANGED <<options, target, presses, dragOps, astray>>
  BY DEF MouseUp, DragInv
<1>12. DraggableTypeOK'
  <2>1. DraggableTypeOK /\ clickDue' \in BOOLEAN
    BY <1>1 DEF DragInv
  <2>2. DragState = DragState' /\ G' \in DragState
    BY <1>10 DEF DragState, WidgetRecords
  <2>3. /\ G'.w \in [Widgets -> WidgetRecords] /\ G'.mouseHandled \in BOOLEAN /\ G'.prevent \subseteq Widgets
        /\ G'.spare \in BOOLEAN /\ G'.dragged \in BOOLEAN
    BY <2>2, DragTyped
  <2> QED BY <1>11, <2>1, <2>3 DEF DraggableTypeOK
<1>13. ASSUME expected'
       PROVE  Orderly(G)' /\ \A w \in Widgets : ~busy(w)'
  <2>1. ~E.canceled /\ expected
    BY <1>9, <1>10, <1>11, <1>13 DEF expected
  <2>2. Orderly(G)
    BY <2>1 DEF DragInv
  <2>3. E.spare = D.spare /\ \A v \in Widgets : InOrder(E.w[v]) /\ E.w[v].bound = {}
    BY <1>5, <1>6, <1>7, <2>2 DEF EachDoes
  <2>4. ~E.spare
    BY <1>6, <2>2, <2>3 DEF Orderly
  <2>5. \A v \in Widgets : InOrder(G'.w[v]) /\ G'.w[v].bound = {} /\ ~G'.w[v].started
    BY <1>10, <2>3 DEF InOrder
  <2> QED BY <1>10, <2>4, <2>5 DEF Orderly, InOrder, Doomed, busy
<1>14. LetGo'
  BY <1>13 DEF LetGo
<1>15. ClickIsHeard'
  BY <1>3, <1>9, <1>10 DEF ClickIsHeard, DragInv
<1>16. ClickKept'
  <2> SUFFICES ASSUME ~b, ~E.canceled, NEW t \in E.prevent PROVE dead(G', t) \/ (t = target' /\ clickDue' /\ E.dragged)
    BY <1>10 DEF ClickKept, dead
  <2>1. ~G.stale /\ ~G.canceled /\ clickDue' /\ t \in Widgets
    BY <1>3, <1>9 DEF DragState
  <2>2. CASE t \in G.prevent
    <3>1. dead(G, t)
      BY <1>11, <2>1, <2>2 DEF DragInv, ClickKept
    <3>2. \A w \in t..WidgetCount : w \in Widgets
      BY <2>1, DraggableAssumption DEF Widgets
    <3> QED BY <1>9, <1>10, <3>1, <3>2 DEF dead
  <2>3. CASE t = at /\ E.dragged
    BY <1>4, <1>11, <2>1, <2>3
  <2> QED BY <1>9, <2>2, <2>3
<1> QED BY <1>10, <1>11, <1>12, <1>13, <1>14, <1>15, <1>16 DEF DragInv, DragState, WidgetRecords

\* A release that is not heard leaves everything.
LEMMA UpOutsideKeeps == ASSUME DragInv, MouseUpOutside PROVE DragInv'
<1>1. /\ button # "none" /\ button' = "none" /\ unheard' = TRUE /\ ~clickDue
      /\ UNCHANGED <<options, G, target, clickDue, presses, dragOps, astray>>
  BY DEF MouseUpOutside, DragInv
<1>2. DraggableTypeOK'
  BY <1>1 DEF DragInv, DraggableTypeOK
<1>3. (expected => Orderly(G))'
  BY <1>1 DEF DragInv, Orderly, InOrder, Doomed, expected
<1>4. LetGo' /\ ClickIsHeard' /\ ClickKept'
  BY <1>1 DEF DragInv, LetGo, ClickIsHeard, ClickKept, dead
<1> QED BY <1>1, <1>2, <1>3, <1>4 DEF DragInv, DragState, WidgetRecords

\* A click: it is swallowed for its own drag.
LEMMA ClickKeeps == ASSUME DragInv, MouseClick PROVE DragInv'
<1>1. /\ clickDue /\ clickDue' = FALSE /\ button = "none" /\ target # Nowhere /\ G \in DragState
      /\ UNCHANGED <<options, button, target, presses, dragOps, unheard, astray>>
  BY DEF MouseClick, DragInv
<1> DEFINE swallows == target \in G.prevent /\ ~dead(G, target)
<1>2. G' = IF swallows THEN [G EXCEPT !.prevent = G.prevent \ {target}, !.swallowed = TRUE] ELSE G
  BY DEF MouseClick, swallow, dead
<1>3. /\ G' \in DragState /\ G'.w = G.w /\ G'.spare = G.spare /\ G'.dragged = G.dragged /\ G'.mouseHandled = G.mouseHandled
      /\ G'.canceled = G.canceled /\ G'.stale = G.stale
      /\ G'.prevent = IF swallows THEN G.prevent \ {target} ELSE G.prevent
      /\ G'.swallowed => G.swallowed \/ swallows
  BY <1>1, <1>2 DEF DragState
<1>4. DraggableTypeOK'
  <2>1. /\ G'.w \in [Widgets -> WidgetRecords] /\ G'.mouseHandled \in BOOLEAN /\ G'.prevent \subseteq Widgets
        /\ G'.spare \in BOOLEAN /\ G'.dragged \in BOOLEAN
    BY <1>3, DragTyped
  <2> QED BY <1>1, <2>1 DEF DragInv, DraggableTypeOK
<1>5. (expected => Orderly(G))'
  BY <1>1, <1>3 DEF DragInv, Orderly, InOrder, Doomed, expected
<1>6. LetGo'
  BY <1>1, <1>3 DEF DragInv, LetGo, expected, busy
<1>7. ClickIsHeard'
  BY <1>1, <1>3 DEF DragInv, ClickIsHeard, ClickKept
<1>8. ClickKept'
  <2> SUFFICES ASSUME ~G.stale, ~G.canceled, NEW t \in G'.prevent PROVE dead(G, t)
    BY <1>3 DEF ClickKept, dead
  <2> QED BY <1>1, <1>3 DEF DragInv, ClickKept
<1> QED BY <1>1, <1>3, <1>4, <1>5, <1>6, <1>7, <1>8 DEF DragInv, DragState, WidgetRecords

\* A step of the clock or of the program, for one widget.
LEMMA OneKeeps ==
    ASSUME DragInv, NEW w \in Widgets, Goes(G, G', w, Nowhere), expected' => Orderly(G'),
           G'.w[w].bound \in SUBSET G.w[w].bound,
           UNCHANGED <<options, button, target, clickDue, presses, unheard>>,
           dragOps' \in 0..MaxDragOps, astray => astray'
    PROVE  DragInv'
<1>1. /\ G' \in DragState /\ G'.swallowed = G.swallowed /\ (G.dragged => G'.dragged)
      /\ \A v \in Widgets : G'.w[v].listens => G.w[v].listens
      /\ G.canceled => G'.canceled
      /\ G.stale => G'.stale
      /\ \A v \in Widgets : G'.w[v].bound \in SUBSET G.w[v].bound
      /\ \A t \in G'.prevent : t \in G.prevent
  <2>1. G' \in DragState /\ \A t \in G'.prevent : t # Nowhere
    BY DEF Goes, DragState, Widgets, Nowhere
  <2> QED BY <2>1 DEF Goes
<1>2. DraggableTypeOK'
  <2>1. /\ G'.w \in [Widgets -> WidgetRecords] /\ G'.mouseHandled \in BOOLEAN /\ G'.prevent \subseteq Widgets
        /\ G'.spare \in BOOLEAN /\ G'.dragged \in BOOLEAN
    BY <1>1, DragTyped
  <2> QED BY <2>1 DEF DragInv, DraggableTypeOK
<1>3. expected' => expected
  BY <1>1 DEF expected
<1>4. LetGo'
  <2> SUFFICES ASSUME button = "none", ~unheard, expected', NEW v \in Widgets PROVE ~busy(v)'
    BY DEF LetGo
  <2>1. G.w[v].bound = {}
    BY <1>3 DEF DragInv, LetGo, busy
  <2>2. G'.w[v].bound = {} /\ Orderly(G')
    BY <1>1, <2>1
  <2> QED BY <2>2 DEF Orderly, InOrder, busy
<1>5. ClickIsHeard'
  BY <1>1 DEF DragInv, ClickIsHeard
<1>6. ClickKept'
  <2> SUFFICES ASSUME ~G'.stale, ~G'.canceled, NEW t \in G'.prevent
               PROVE  dead(G', t) \/ (t = target /\ clickDue /\ G'.dragged)
    BY DEF ClickKept, dead
  <2>1. t \in G.prevent /\ ~G.stale /\ ~G.canceled /\ t \in Widgets
    BY <1>1 DEF DragState
  <2>2. dead(G, t) \/ (t = target /\ clickDue /\ G.dragged)
    BY <2>1 DEF DragInv, ClickKept
  <2>3. \A v \in t..WidgetCount : v \in Widgets
    BY <2>1, DraggableAssumption DEF Widgets
  <2> QED BY <1>1, <2>2, <2>3 DEF dead
<1>7. (expected => Orderly(G))'
  BY DEF Orderly, InOrder, Doomed
<1> QED BY <1>1, <1>2, <1>4, <1>5, <1>6, <1>7 DEF DragInv, DragState, WidgetRecords

\* What is put for one widget: the others and the mouse stay as they are.
LEMMA OneChanged ==
    ASSUME DragInv, NEW w \in Widgets, NEW y \in WidgetRecords, G' = put(G, w, y),
           y.listens => G.w[w].listens, y.bound \in SUBSET G.w[w].bound,
           InOrder(G.w[w]) => InOrder(y),
           UNCHANGED <<options, button, target, clickDue, presses, unheard, astray>>,
           dragOps' \in 0..MaxDragOps
    PROVE  DragInv'
<1>1. G \in DragState
  BY DEF DragInv
<1> DEFINE E == put(G, w, y)
<1>2. /\ E \in DragState /\ E.w[w] = y /\ \A v \in Widgets \ {w} : E.w[v] = G.w[v]
      /\ E.swallowed = G.swallowed /\ E.canceled = G.canceled /\ E.stale = G.stale
      /\ E.mouseHandled = G.mouseHandled /\ E.prevent = G.prevent
      /\ E.spare = G.spare /\ E.dragged = G.dragged
  BY <1>1, DragPutIs
<1> HIDE DEF E
<1>3. G' = E
  BY DEF E
<1>4. Goes(G, E, w, Nowhere)
  BY <1>2 DEF Goes
<1>5. expected' => Orderly(E)
  <2> SUFFICES ASSUME expected' PROVE Orderly(E)
    OBVIOUS
  <2>1. Orderly(G)
    BY <1>2, <1>3 DEF DragInv, expected
  <2>2. InOrder(E.w[w]) /\ E.w[w].bound \in SUBSET G.w[w].bound /\ ~E.spare
    BY <1>2, <2>1 DEF Orderly
  <2> QED BY ONLY <1>2, <2>1, <2>2, w \in Widgets, OrderlyOn
<1>6. E.w[w].bound \in SUBSET G.w[w].bound
  BY <1>2
<1>7. Goes(G, G', w, Nowhere) /\ (expected' => Orderly(G')) /\ G'.w[w].bound \in SUBSET G.w[w].bound
  BY <1>3, <1>4, <1>5, <1>6
<1> QED BY <1>7, OneKeeps

\* The delay is over.
LEMMA DelayMetKeeps == ASSUME DragInv, DelayMet PROVE DragInv'
<1>1. PICK w \in Widgets : G' = [G EXCEPT !.w[w] = [G.w[w] EXCEPT !.delayMet = TRUE]]
  BY DEF DelayMet
<1> DEFINE x == G.w[w]
           y == [x EXCEPT !.delayMet = TRUE]
<1>2. x \in WidgetRecords
  BY DEF DragInv, DragState
<1>3. /\ y \in WidgetRecords /\ y.helper = x.helper /\ y.state = x.state /\ y.started = x.started
      /\ y.press = x.press /\ y.bound = x.bound /\ y.listens = x.listens /\ y.exists = x.exists
      /\ y.destroyOnClear = x.destroyOnClear
  BY <1>2 DEF WidgetRecords
<1>4. G' = put(G, w, y)
  BY <1>1 DEF put
<1> HIDE DEF y
<1>5. InOrder(x) => InOrder(y)
  BY <1>3 DEF InOrder, Doomed
<1>6. /\ UNCHANGED <<options, button, target, clickDue, presses, unheard, astray>>
      /\ dragOps' \in 0..MaxDragOps
  BY DEF DelayMet, DragInv, DraggableTypeOK
<1> QED BY <1>3, <1>4, <1>5, <1>6, OneChanged

\* It is back: nobody is bound.
LEMMA RevertedKeeps == ASSUME DragInv, Reverted PROVE DragInv'
<1>1. PICK w \in Widgets, reply \in Replies :
        G.w[w].state = "revert" /\ G' = [G EXCEPT !.w[w] = stopped(G.w[w], reply)]
  BY DEF Reverted
<1> DEFINE x == G.w[w]
           y == stopped(x, reply)
<1>2. x \in WidgetRecords
  BY DEF DragInv, DragState
<1>3. y \in WidgetRecords /\ (y.listens => x.listens) /\ y.bound \in SUBSET x.bound /\ (Off(x) => InOrder(y))
  <2> HIDE DEF x, y
  <2>1. y = stopped(x, reply)
    BY DEF y
  <2> QED BY ONLY <1>2, <2>1, reply \in Replies, StoppedIs
<1>4. G' = put(G, w, y)
  BY <1>1 DEF put
<1> HIDE DEF y
<1>5. InOrder(x) => Off(x)
  BY <1>1 DEF InOrder, Off
<1>6. /\ UNCHANGED <<options, button, target, clickDue, presses, unheard, astray>>
      /\ dragOps' \in 0..MaxDragOps
  BY DEF Reverted, DragInv, DraggableTypeOK
<1> QED BY <1>3, <1>4, <1>5, <1>6, OneChanged

\* The program destroys, disables or cancels.
LEMMA DragProgramKeeps == ASSUME DragInv, DragProgram PROVE DragInv'
<1>1. PICK w \in Widgets, reply \in Replies :
        /\ G.w[w].exists
        /\ \/ G' = [G EXCEPT !.w[w] = destroy(G.w[w])] /\ UNCHANGED astray
           \/ G' = [G EXCEPT !.w[w] = [G.w[w] EXCEPT !.disabled = ~G.w[w].disabled]] /\ UNCHANGED astray
           \/ G' = cancel(G, w, reply) /\ astray' = (astray \/ button # "none" \/ unheard)
  BY DEF DragProgram
<1> DEFINE x == G.w[w]
<1>2. G \in DragState /\ x \in WidgetRecords
  BY DEF DragInv, DragState
<1>3. UNCHANGED <<options, button, target, clickDue, presses, unheard>>
  BY DEF DragProgram
<1>4. dragOps' \in 0..MaxDragOps
  BY DraggableAssumption DEF DragProgram, DragInv, DraggableTypeOK
<1>5. CASE G' = [G EXCEPT !.w[w] = destroy(x)] /\ UNCHANGED astray
  <2> DEFINE y == destroyed(x)
  <2>1. G' = put(G, w, y)
    BY <1>1, <1>5 DEF put, destroyed
  <2>2. y \in WidgetRecords /\ (y.listens => x.listens) /\ y.bound \in SUBSET x.bound /\ (InOrder(x) => InOrder(y))
    BY <1>2, DestroyedIs
  <2> HIDE DEF y
  <2> QED BY <1>3, <1>4, <1>5, <2>1, <2>2, OneChanged
<1>6. CASE G' = [G EXCEPT !.w[w] = [x EXCEPT !.disabled = ~x.disabled]] /\ UNCHANGED astray
  <2> DEFINE y == [x EXCEPT !.disabled = ~x.disabled]
  <2>1. G' = put(G, w, y)
    BY <1>6 DEF put
  <2>2. /\ y \in WidgetRecords /\ y.helper = x.helper /\ y.state = x.state /\ y.started = x.started
        /\ y.press = x.press /\ y.bound = x.bound /\ y.listens = x.listens /\ y.exists = x.exists
        /\ y.destroyOnClear = x.destroyOnClear
    BY <1>2 DEF WidgetRecords
  <2> HIDE DEF y
  <2>3. InOrder(x) => InOrder(y)
    BY <2>2 DEF InOrder, Doomed
  <2> QED BY <1>3, <1>4, <1>6, <2>1, <2>2, <2>3, OneChanged
<1>7. CASE G' = cancel(G, w, reply) /\ astray' = (astray \/ button # "none" \/ unheard)
  <2> DEFINE E == cancel(G, w, reply)
  <2>1. CancelDoes(G, E, w)
    BY <1>2, CancelIs
  <2> HIDE DEF E
  <2>2. G' = E
    BY <1>7 DEF E
  <2>3. /\ Goes(G, E, w, Nowhere) /\ E.canceled = G.canceled /\ E.spare = G.spare
        /\ E.w[w].bound \in SUBSET G.w[w].bound /\ (InOrder(G.w[w]) => InOrder(E.w[w]))
    BY <2>1 DEF CancelDoes
  <2>4. ASSUME expected' PROVE Orderly(E)
    <3>1. expected /\ button = "none" /\ ~unheard
      BY <1>7, <2>2, <2>3, <2>4 DEF expected
    <3>2. Orderly(G) /\ \A v \in Widgets : G.w[v].bound = {}
      BY <3>1 DEF DragInv, LetGo, busy
    <3>3. \A v \in Widgets \ {w} : E.w[v] = G.w[v]
      BY <2>3 DEF Goes
    <3>4. \A v \in Widgets : E.w[v].bound = {}
      BY <2>3, <3>2, <3>3
    <3>5. InOrder(E.w[w]) /\ ~E.spare
      BY <2>3, <3>2 DEF Orderly
    <3> QED BY ONLY <2>3, <3>2, <3>3, <3>4, <3>5, w \in Widgets, OrderlyOn
  <2>5. Goes(G, G', w, Nowhere) /\ (expected' => Orderly(G')) /\ G'.w[w].bound \in SUBSET G.w[w].bound
    BY <2>2, <2>3, <2>4
  <2> QED BY <1>3, <1>4, <1>7, <2>5, OneKeeps
<1> QED BY <1>1, <1>5, <1>6, <1>7

\* Every step keeps the invariant.
LEMMA DragStep == DragInv /\ [DraggableNext]_dragVars => DragInv'
<1> SUFFICES ASSUME DragInv, [DraggableNext]_dragVars PROVE DragInv'
  OBVIOUS
<1>1. CASE UNCHANGED dragVars
  <2>1. UNCHANGED <<options, G, button, target, clickDue, presses, dragOps, unheard, astray>>
    BY <1>1 DEF dragVars
  <2> QED BY <2>1 DEF DragInv, DraggableTypeOK, Orderly, InOrder, Doomed, LetGo, ClickIsHeard, ClickKept, dead,
                      expected, busy, DragState, WidgetRecords
<1> QED BY <1>1, DownKeeps, MoveKeeps, UpKeeps, UpOutsideKeeps, ClickKeeps, DelayMetKeeps, RevertedKeeps,
           DragProgramKeeps DEF DraggableNext

\* And it says what was promised.
LEMMA DragEnded == DragInv => DragsEnd
<1> SUFFICES ASSUME DragInv PROVE DragsEnd
  OBVIOUS
<1>1. expected => Orderly(G)
  BY DEF DragInv
<1>2. OneAtWork
  BY <1>1 DEF OneAtWork, busy, Orderly, InOrder
<1>3. BoundOnce
  <2> SUFFICES ASSUME expected, NEW w \in Widgets PROVE Cardinality(G.w[w].bound) <= 1
    BY DEF BoundOnce
  <2> DEFINE b == G.w[w].bound
             p == G.w[w].press
  <2>1. b = {} \/ b = {p}
    BY <1>1 DEF Orderly, InOrder
  <2>2. Cardinality({}) = 0 /\ Cardinality({p}) = 1
    BY FS_EmptySet, FS_Singleton
  <2> HIDE DEF b, p
  <2>3. Cardinality(b) <= 1
    BY <2>1, <2>2
  <2> QED BY <2>3 DEF b
<1>4. HelperGoes
  <2> SUFFICES ASSUME expected, NEW w \in Widgets
               PROVE  /\ G.w[w].helper = "none" => ~G.w[w].started /\ G.w[w].state = "rest"
                      /\ G.w[w].helper # "none" => (G.w[w].started <=> G.w[w].state = "drag")
                      /\ ~G.spare
    BY <1>1, DraggableAssumption DEF HelperGoes, Orderly
  <2> QED BY <1>1 DEF Orderly, InOrder
<1>5. DestroyedGoes
  BY <1>1 DEF DestroyedGoes, busy, Orderly, InOrder, Doomed
<1> QED BY <1>2, <1>3, <1>4, <1>5 DEF DragInv, DragsEnd

\* Whatever the widgets inside each other, their options, the presses, the releases that are
\* not heard, and what handlers and the program do: at most one widget is at the mouse, bound
\* to it once, and everything of a drag goes with it.
THEOREM DragsEndHolds == DraggableSpec => []DragsEnd
BY DragStart, DragStep, DragEnded, PTL DEF DraggableSpec
----------------------------------------------------------------------------
(* Where an element is put *)

\* Math.round() is off by half a step at most.
LEMMA RoundIs ==
    ASSUME NEW x \in Int, NEW g \in Nat \ {0}, NEW m, m = round(x, g) * g
    PROVE  m \in Int /\ 2 * m <= 2 * x + g /\ 2 * x + g < 2 * m + 2 * g
<1> DEFINE n == 2 * x + g
           b == 2 * g
           q == n \div b
<1>1. n \in Int /\ b \in Nat /\ b > 0
  OBVIOUS
<1> HIDE DEF n, b
<1>2. q \in Int /\ b * q <= n /\ n < b * q + b
  BY <1>1, SMT
<1>3. m = q * g
  BY DEF round, n, b
<1> HIDE DEF q
<1>4. m \in Int
  BY <1>2, <1>3
<1>5. b * q = 2 * m
  BY <1>2, <1>3, SMT DEF b
<1> QED BY <1>2, <1>4, <1>5 DEF n, b

\* What a place is made of.
PlaceKinds(p) ==
    /\ p.page \in Int /\ p.origin \in Int /\ p.container \in Int /\ p.margin \in Nat /\ p.border \in Nat
    /\ p.width \in Int /\ p.click = 1 /\ p.relative = 1 /\ p.parent \in Int /\ p.scroll \in Int
    /\ p.grid # NoGrid => p.grid \in Nat
    /\ p.containment \in {"none", "document", "parent"}

\* A place has these.
LEMMA PlaceIs == ASSUME NEW p \in Places PROVE PlaceKinds(p)
<1>1. /\ p.page \in Pages /\ p.origin \in Pages /\ p.container \in Offsets /\ p.margin \in Margins /\ p.border \in Margins
      /\ p.parent \in Offsets /\ p.scroll \in Offsets
  BY DEF Places
<1>2. p.width \in {4, 7} /\ p.click \in {1} /\ p.relative \in {1}
  BY DEF Places
<1>3. p.grid \in Grids \cup {NoGrid} /\ p.containment \in {"none", "document", "parent"}
  BY DEF Places
<1>4. /\ p.page \in Int /\ p.origin \in Int /\ p.container \in Int /\ p.margin \in Nat /\ p.border \in Nat
      /\ p.parent \in Int /\ p.scroll \in Int
  BY <1>1, PlacesAssumption
<1>5. p.width \in Int /\ p.click = 1 /\ p.relative = 1
  BY <1>2
<1>6. p.grid # NoGrid => p.grid \in Nat
  BY <1>3, PlacesAssumption
<1> QED BY <1>3, <1>4, <1>5, <1>6 DEF PlaceKinds

\* The mouse is held inside.
LEMMA HeldIs ==
    ASSUME NEW p \in Places, fits(p), p.containment # "none", NEW h, h = heldInside(p, p.page)
    PROVE  h \in Int /\ setContainment(p)[1] <= h - 1 /\ h - 1 <= setContainment(p)[2]
<1> DEFINE c == setContainment(p)
<1>1. p.page \in Int /\ p.container \in Int /\ p.margin \in Nat /\ p.border \in Nat /\ p.width \in Int /\ p.click = 1
  BY PlaceIs DEF PlaceKinds
<1>2. c[1] \in Int /\ c[2] \in Int
  BY <1>1 DEF setContainment, containerLeft, helperWidth, marginRight
<1>3. c[1] <= c[2]
  BY DEF fits
<1>4. h = IF p.page - p.click > c[2] THEN c[2] + p.click
          ELSE IF p.page - p.click < c[1] THEN c[1] + p.click ELSE p.page
  BY DEF heldInside
<1> HIDE DEF c
<1>5. h \in Int /\ c[1] <= h - 1 /\ h - 1 <= c[2]
  BY <1>1, <1>2, <1>3, <1>4
<1> QED BY <1>5 DEF c

\* On a grid it goes on by less than a step.
LEMMA OnGridIs ==
    ASSUME NEW p \in Places, p.containment # "none", p.grid # 0, NEW h \in Int,
           NEW low \in Int, NEW high \in Int, low = setContainment(p)[1], low <= h - 1, h - 1 <= high,
           NEW x, x = onGrid(p, h)
    PROVE  /\ x \in Int /\ low <= x - 1
           /\ p.grid = NoGrid => x - 1 <= high
           /\ p.grid # NoGrid => p.grid \in Nat /\ p.grid > 0 /\ x - 1 <= high + p.grid - 1
<1>1. p.origin \in Int /\ p.click = 1 /\ (p.grid # NoGrid => p.grid \in Nat \ {0})
  BY PlaceIs DEF PlaceKinds
<1>2. CASE p.grid = NoGrid
  BY <1>2 DEF onGrid
<1>3. CASE p.grid # NoGrid
  <2> DEFINE g == p.grid
             o == p.origin
             m == round(h - o, g) * g
  <2>1. h - o \in Int /\ g \in Nat \ {0} /\ o \in Int
    BY <1>1, <1>3
  <2>2. m \in Int /\ 2 * m <= 2 * (h - o) + g /\ 2 * (h - o) + g < 2 * m + 2 * g
    BY <2>1, RoundIs
  <2> DEFINE top == o + m
             c == setContainment(p)[1]
             y == IF p.grid = 0 THEN o ELSE top
  <2>3. /\ x = IF p.grid = NoGrid THEN h
              ELSE IF p.containment = "none" \/ y - p.click >= c THEN y ELSE y + g
        /\ p.grid # 0 => y = top
    BY DEF onGrid
  <2> HIDE DEF y
  <2>4. x = IF top - p.click >= c THEN top ELSE top + g
    <3> HIDE DEF top, c, g
    <3> QED BY <1>3, <2>3
  <2>5. top = o + m /\ c = low
    OBVIOUS
  <2> HIDE DEF g, o, m, top, c
  <2>6. x \in Int /\ low <= x - 1 /\ x - 1 <= high + g - 1
    <3>1. CASE o + m - 1 >= low
      BY <1>1, <2>1, <2>2, <2>4, <2>5, <3>1
    <3>2. CASE ~(o + m - 1 >= low)
      BY <1>1, <2>1, <2>2, <2>4, <2>5, <3>2
    <3> QED BY <3>1, <3>2
  <2> QED BY <1>3, <2>1, <2>6 DEF g
<1> QED BY <1>2, <1>3

\* Wherever the element is put, it is told so, and inside.
LEMMA PlacesInside == PlaceInit => PlacedInside
<1> SUFFICES ASSUME PlaceInit PROVE PlacedInside
  OBVIOUS
<1> DEFINE p == place
<1>1. p \in Places
  BY DEF PlaceInit
<1> HIDE DEF p
<1>2. /\ p.page \in Int /\ p.origin \in Int /\ p.container \in Int /\ p.margin \in Nat /\ p.border \in Nat
      /\ p.width \in Int /\ p.click = 1 /\ p.relative = 1 /\ p.parent \in Int /\ p.scroll \in Int
      /\ (p.grid # NoGrid => p.grid \in Nat) /\ p.containment \in {"none", "document", "parent"}
  BY <1>1, PlaceIs DEF PlaceKinds
<1>3. scrollOf(p) \in Int
  BY <1>2 DEF scrollOf
<1>4. setContainment(p)[1] \in Int /\ setContainment(p)[2] \in Int
  BY <1>2 DEF setContainment, containerLeft, helperWidth, marginRight
<1>5. constrained(p) \in Int
  <2>1. heldInside(p, p.page) \in Int
    BY <1>2, <1>4 DEF heldInside
  <2> DEFINE h == heldInside(p, p.page)
             r == round(h - p.origin, p.grid)
  <2>2. onGrid(p, h) = IF p.grid = NoGrid THEN h
                       ELSE IF p.containment = "none" \/
                               (IF p.grid = 0 THEN p.origin ELSE p.origin + r * p.grid) - p.click >= setContainment(p)[1]
                       THEN (IF p.grid = 0 THEN p.origin ELSE p.origin + r * p.grid)
                       ELSE (IF p.grid = 0 THEN p.origin ELSE p.origin + r * p.grid) + p.grid
    BY DEF onGrid
  <2>3. p.grid # NoGrid /\ p.grid # 0 => r * p.grid \in Int
    <3>1. h - p.origin \in Int
      BY <1>2, <2>1
    <3> QED BY <1>2, <3>1, RoundIs
  <2> HIDE DEF h, r
  <2>4. h \in Int
    BY <2>1 DEF h
  <2>5. onGrid(p, h) \in Int
    BY <1>2, <2>2, <2>3, <2>4
  <2> QED BY <1>2, <2>5 DEF constrained, h
<1>6. HeldByTheMouse
  <2>1. _convertPositionTo(p, _generatePosition(p)) = constrained(p) - p.click
    BY <1>2, <1>3, <1>5 DEF _convertPositionTo, _generatePosition
  <2> QED BY <2>1 DEF HeldByTheMouse, p
<1>7. StaysInside
  <2> DEFINE left == constrained(p) - p.click
             step == IF p.grid = NoGrid THEN 0 ELSE p.grid
             over == IF step = 0 THEN 0 ELSE step - 1
  <2>1. ASSUME p.containment # "none", fits(p), ~p.axis, p.grid # 0
        PROVE  IF p.containment = "document"
               THEN left >= 0 /\ left + p.margin + helperWidth <= p.width + over
               ELSE /\ left >= containerLeft(p) + p.border
                    /\ left + p.margin + helperWidth + marginRight(p) <= containerLeft(p) + p.width - p.border + over
    <3> DEFINE h == heldInside(p, p.page)
               low == setContainment(p)[1]
               high == setContainment(p)[2]
               x == onGrid(p, h)
    <3>1. h \in Int /\ low <= h - 1 /\ h - 1 <= high
      BY <1>1, <2>1, HeldIs
    <3> HIDE DEF h
    <3>2. /\ x \in Int /\ low <= x - 1
          /\ p.grid = NoGrid => x - 1 <= high
          /\ p.grid # NoGrid => p.grid \in Nat /\ p.grid > 0 /\ x - 1 <= high + p.grid - 1
      <4> HIDE DEF low, high, x
      <4>1. low \in Int /\ high \in Int /\ low = setContainment(p)[1] /\ x = onGrid(p, h)
        BY <1>4 DEF low, high, x
      <4> QED BY <1>1, <2>1, <3>1, <4>1, OnGridIs
    <3>3. constrained(p) = x
      BY <2>1 DEF constrained, h
    <3>4. over \in Int /\ x - 1 <= high + over
      BY <1>4, <3>2
    <3>5. left = x - 1
      BY <1>2, <3>3
    <3> HIDE DEF x, left, over
    <3>6. CASE p.containment = "document"
      <4>1. low = 0 /\ high = p.width - 2 - p.margin
        BY <3>6 DEF setContainment, helperWidth
      <4> HIDE DEF low, high
      <4> QED BY <1>2, <3>2, <3>4, <3>5, <3>6, <4>1 DEF helperWidth
    <3>7. CASE p.containment # "document"
      <4>1. low = p.container + p.border /\ high = p.container + p.width - p.border - 2 - p.margin - (p.margin + 1)
        BY <3>7 DEF setContainment, helperWidth, containerLeft, marginRight
      <4> HIDE DEF low, high
      <4> QED BY <1>2, <3>2, <3>4, <3>5, <3>7, <4>1 DEF helperWidth, containerLeft, marginRight
    <3> QED BY <3>6, <3>7
  <2> QED BY <2>1 DEF StaysInside, p
<1> QED BY <1>6, <1>7 DEF PlacedInside

\* With it, wherever the mouse is, whatever is scrolled between, and held where: the element
\* is put where the mouse holds it, inside its containment but for less than a step of a grid.
THEOREM DragsAsAskedHolds ==
    DraggableSpec /\ PlaceInit /\ [][UNCHANGED placeVars]_placeVars => []DragsAsAsked
<1>1. PlacedInside /\ [UNCHANGED placeVars]_placeVars => PlacedInside'
  <2> SUFFICES ASSUME PlacedInside, place' = place PROVE PlacedInside'
    BY DEF placeVars
  <2> QED BY DEF PlacedInside, HeldByTheMouse, StaysInside
<1> QED BY <1>1, DragStart, DragStep, DragEnded, PlacesInside, PTL DEF DraggableSpec, DragsAsAsked
==============================================================================
