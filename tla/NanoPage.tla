------------------------------ MODULE NanoPage ------------------------------
(***************************************************************************)
(* The page of a NanoUI window (nano/js/nano_*.js) as the browser runs it: *)
(* the scripts in the head, the initialisation when the document is ready, *)
(* the templates loaded one after the other, the updates that come at any  *)
(* moment of this, and the clicks.  Data is the version number the server  *)
(* gave it, a status is the config's.                                      *)
(***************************************************************************)
EXTENDS NanoData, FiniteSets

CONSTANTS
    Templates,           \* keys of the templates of the ui
    NoTemplate,
    Unparsable,          \* versions whose update does not parse
    Broken,              \* versions the template of the content throws on
    AutoUpdateLayout, AutoUpdateContent

Nothing == -2            \* nothing on the screen

ASSUME PageAssumption ==
    /\ IsFiniteSet(Templates) /\ Templates # {} /\ NoTemplate \notin Templates
    /\ Unparsable \subseteq Versions /\ Broken \subseteq Versions
    /\ AutoUpdateLayout \in BOOLEAN /\ AutoUpdateContent \in BOOLEAN

VARIABLES
    dom,            \* closed; head: no script has run; scripts: they have;
                    \* ready: so has the ready handler
    initialData,    \* in the body tag
    data,           \* NanoStateManager's _data
    isInitialised,
    templateData,   \* templates still to be loaded
    loading,        \* the one that is being loaded
    templates,      \* loaded
    layoutRendered, contentRendered,
    shown,          \* on the screen: versions of layout and content, the status
    canClick,
    sentVer,        \* what the server sent last
    newest          \* history: what came with the page and since it is ready

managerVars == <<initialData, data, isInitialised>>
templateVars == <<templateData, loading, templates>>
screenVars == <<layoutRendered, contentRendered, shown>>
pageVars == <<dom, managerVars, templateVars, screenVars, canClick, sentVer, newest>>

Update == [ver: Versions \cup {NoData}, status: Statuses]
NoUpdate == [ver |-> NoData, status |-> 2]
Blank == [layout |-> Nothing, content |-> Nothing, status |-> 2]

PageTypeOK ==
    /\ dom \in {"closed", "head", "scripts", "ready"}
    /\ initialData \in Update /\ data \in Update /\ newest \in Update
    /\ isInitialised \in BOOLEAN
    /\ templateData \subseteq Templates /\ templates \subseteq Templates
    /\ loading \in Templates \cup {NoTemplate}
    /\ layoutRendered \in BOOLEAN /\ contentRendered \in BOOLEAN
    /\ shown \in [layout: Versions \cup {Nothing}, content: Versions \cup {Nothing},
                  status: Statuses]
    /\ canClick \in BOOLEAN
    /\ sentVer \in Versions

PageInit ==
    /\ dom = "closed"
    /\ initialData = NoUpdate /\ data = NoUpdate /\ newest = NoUpdate
    /\ isInitialised = FALSE
    /\ templateData = {} /\ loading = NoTemplate /\ templates = {}
    /\ layoutRendered = FALSE /\ contentRendered = FALSE
    /\ shown = Blank
    /\ canClick = TRUE
    /\ sentVer = 0
----------------------------------------------------------------------------
(* NanoStateClass: onUpdate and, through onAfterUpdate, the status callback *)

RendersLayout == AutoUpdateLayout \/ ~layoutRendered
RendersContent(d) == (AutoUpdateContent \/ ~contentRendered) /\ d.ver \notin Broken

\* The content sits in the layout: rendering that again empties it.  The status is
\* shown even if the template of the content throws.
onUpdate(d) ==
    /\ layoutRendered' = TRUE
    /\ contentRendered' = (contentRendered \/ RendersContent(d))
    /\ shown' = [layout |-> IF RendersLayout THEN d.ver ELSE shown.layout,
                 content |-> IF RendersContent(d) THEN d.ver
                             ELSE IF RendersLayout THEN Nothing ELSE shown.content,
                 status |-> d.status]

doUpdate(d) == data' = d /\ onUpdate(d)
----------------------------------------------------------------------------
(* NanoStateManager.receiveUpdateData *)

\* An update without data keeps the data there is.
withData(m) == [m EXCEPT !.ver = IF @ = NoData THEN data.ver ELSE @]

\* Bug: what comes while the templates are loading is thrown away.
storedNot(d) == UNCHANGED data

\* What comes while the templates are loading waits for them.
stored(d) == data' = d

\* An update is lost if it does not parse or finds no NanoStateManager; one that
\* comes before the ready handler is stored, and init() throws it away.
receiveUpdateData(m) ==
    /\ dom \in {"scripts", "ready"} /\ m.ver \notin Unparsable
    /\ IF isInitialised THEN doUpdate(withData(m))
       ELSE stored(withData(m)) /\ UNCHANGED screenVars
    /\ newest' = IF dom = "ready"
                 THEN [m EXCEPT !.ver = IF @ = NoData THEN newest.ver ELSE @]
                 ELSE newest
    /\ UNCHANGED <<dom, initialData, isInitialised, templateVars, canClick>>

updateLost(m) ==
    /\ dom \in {"closed", "head"} \/ m.ver \in Unparsable
    /\ UNCHANGED <<dom, managerVars, templateVars, screenVars, canClick, newest>>

\* The server pushes data, never older than what it sent before, or a status.
Arrive ==
    \E v \in sentVer..MaxVer, s \in Statuses, all \in BOOLEAN :
      LET m == [ver |-> IF all THEN v ELSE NoData, status |-> s]
      IN  /\ sentVer' = IF all THEN v ELSE sentVer
          /\ receiveUpdateData(m) \/ updateLost(m)
----------------------------------------------------------------------------
(* A page comes and goes *)

PageIs(d, init) ==
    /\ dom' = d
    /\ initialData' = init /\ data' = NoUpdate /\ newest' = init
    /\ isInitialised' = FALSE
    /\ templateData' = {} /\ loading' = NoTemplate /\ templates' = {}
    /\ layoutRendered' = FALSE /\ contentRendered' = FALSE
    /\ shown' = Blank
    /\ canClick' = TRUE

\* browse(): whatever the window held is gone.
NewPage ==
    \E v \in sentVer..MaxVer, s \in Statuses :
      sentVer' = v /\ PageIs("head", [ver |-> v, status |-> s])

ClosePage == dom # "closed" /\ PageIs("closed", NoUpdate) /\ UNCHANGED sentVer

RunScripts ==
    /\ dom = "head"
    /\ dom' = "scripts"
    /\ UNCHANGED <<managerVars, templateVars, screenVars, canClick, sentVer, newest>>
----------------------------------------------------------------------------
(* NanoTemplate *)

\* The listener that NanoStateManager's init() leaves behind.
templatesLoaded == doUpdate(data) /\ isInitialised' = TRUE

\* One request at a time, for whichever comes first.
loadNextTemplate(left) ==
    IF left # {} THEN loading' \in left /\ UNCHANGED <<data, isInitialised, screenVars>>
    ELSE loading' = NoTemplate /\ templatesLoaded

initTemplates == templateData' = Templates /\ loading' \in Templates

\* NanoStateManager.init(), then NanoTemplate's.
DocumentReady ==
    /\ dom = "scripts"
    /\ dom' = "ready"
    /\ data' = initialData
    /\ initTemplates
    /\ UNCHANGED <<initialData, isInitialised, templates, screenVars, canClick,
                   sentVer, newest>>

\* Bug: what has come is not taken off the list.
TemplateDoneKeeps ==
    /\ loading # NoTemplate
    /\ templates' = templates \cup {loading}
    /\ UNCHANGED templateData
    /\ loadNextTemplate(templateData)
    /\ UNCHANGED <<dom, initialData, canClick, sentVer, newest>>

\* A template has come: done().
TemplateDone ==
    /\ loading # NoTemplate
    /\ templates' = templates \cup {loading}
    /\ templateData' = templateData \ {loading}
    /\ loadNextTemplate(templateData')
    /\ UNCHANGED <<dom, initialData, canClick, sentVer, newest>>

\* It could not be loaded: an alert, and nothing tries again.
TemplateFail ==
    /\ loading # NoTemplate
    /\ loading' = NoTemplate
    /\ UNCHANGED <<dom, managerVars, templateData, templates, screenVars, canClick,
                   sentVer, newest>>
----------------------------------------------------------------------------
(* NanoBaseCallbacks: a click on a link, and the timer that allows the next *)

ClickLink ==
    /\ shown # Blank /\ canClick
    /\ canClick' = FALSE
    /\ UNCHANGED <<dom, managerVars, templateVars, screenVars, sentVer, newest>>

EnableClick ==
    /\ ~canClick
    /\ canClick' = TRUE
    /\ UNCHANGED <<dom, managerVars, templateVars, screenVars, sentVer, newest>>

Browser == RunScripts \/ DocumentReady \/ TemplateDone \/ TemplateFail
PageNext == NewPage \/ ClosePage \/ Arrive \/ Browser \/ ClickLink \/ EnableClick
PageSpec == PageInit /\ [][PageNext]_pageVars

\* The browser goes on loading a page, a request ends one way or the other, and
\* timers fire.
PageFairness == WF_pageVars(Browser) /\ WF_pageVars(EnableClick)
----------------------------------------------------------------------------
(* Properties *)

\* Once the templates are there the window shows the newest of what came with the
\* page and since it was ready: what came in between is not lost, and an update
\* without data does not bring old data back.  Where rendering throws the status
\* is shown all the same (onUpdate's try, onAfterUpdate).
ShownIsNewest ==
    isInitialised =>
      /\ shown.status = newest.status
      /\ newest.ver \notin Broken => shown.content = newest.ver

\* Nothing is rendered before all the templates are there (templatesLoaded).
RenderedWithAll == shown # Blank => templates = Templates

\* A page never goes back to older content (updates without data, initial data).
NeverOlder ==
    [][dom' = "ready" => shown'.content >= shown.content \/ NewPage]_pageVars

\* A page that is not replaced time and again gets to show its data, unless it is
\* closed or one of its templates cannot be loaded (loadNextTemplate, templatesLoaded).
ComesUp ==
    \/ []<><<NewPage>>_pageVars
    \/ (dom = "head") ~> (isInitialised \/ dom = "closed"
                            \/ (dom = "ready" /\ loading = NoTemplate))

\* No click is the last one: links come back to life (enableClick).
ClicksComeBack == ~canClick ~> canClick

\* What is on the screen, at any moment of the loading of templates: nothing before all of
\* them are there, the newest data then.
PageShows == PageTypeOK /\ RenderedWithAll /\ ShownIsNewest

\* A page goes on: to its content, to newer content only, and to further clicks.
PageGoesOn == NeverOlder /\ ComesUp /\ ClicksComeBack
=============================================================================
