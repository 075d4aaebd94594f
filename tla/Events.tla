------------------------------- MODULE Events -------------------------------
(***************************************************************************)
(* The events of jQuery (nano/js/libraries/jquery.js): handlers bound to   *)
(* elements or, with a selector, for elements inside them; an event goes   *)
(* up from its target, and the handlers it calls bind and unbind others,   *)
(* trigger further events and take elements out of the page.  focusin      *)
(* stands for the types with a setup of their own: a listener on the       *)
(* document, counted (Firefox).                                            *)
(***************************************************************************)
EXTENDS Naturals, Sequences, FiniteSets

CONSTANTS
    Depth,                  \* elements are 1..Depth, each one the parent of the one before
    EventTypes,             \* the last element is the document
    Functions, Namespaced,  \* those that are bound under a namespace
    MaxBinds, MaxNested,    \* bounds: handlers bound, events at a time,
    MaxEventOps             \* events and other operations

ASSUME EventsAssumption ==
    /\ Depth \in Nat \ {0}
    /\ "focusin" \in EventTypes
    /\ Namespaced \subseteq Functions
    /\ MaxBinds \in Nat /\ MaxNested \in Nat /\ MaxEventOps \in Nat

(* What is kept for an element: it has an id, the cache has an entry under *)
(* that id with the events, the handle, what the program keeps and what    *)
(* jQuery counts itself.  Ids that were given back are used again.         *)

Nodes == 1..Depth
document == Depth

\* An element that has no id.
NoId == 0

NoEvents == [t \in EventTypes |-> <<>>]
NewEntry == [events |-> NoEvents, handle |-> FALSE, user |-> FALSE, attaches |-> 0]
NewData == [id |-> [n \in Nodes |-> NoId], cache |-> <<>>, deleted |-> <<>>, guid |-> 1]

hasEntry(D, n) == D.id[n] \in DOMAIN D.cache
entry(D, n) == IF hasEntry(D, n) THEN D.cache[D.id[n]] ELSE NewEntry
isEmptyDataObject(e) == e = NewEntry

\* An element's first data gives it an id and an entry.
internalData(D, n) ==
    LET k    == Len(D.deleted)
        id   == IF D.id[n] # NoId THEN D.id[n] ELSE IF k > 0 THEN D.deleted[k] ELSE D.guid
    IN  [D EXCEPT !.id[n] = id,
                  !.guid = IF id = D.guid THEN @ + 1 ELSE @,
                  !.cache = [i \in DOMAIN @ \cup {id} |-> IF i \in DOMAIN @ THEN @[i] ELSE NewEntry],
                  !.deleted = IF D.id[n] = NoId /\ k > 0 THEN SubSeq(@, 1, k - 1) ELSE @]

\* The entry of an element that has data is changed.
put(D, n, e) == LET new == internalData(D, n) IN [new EXCEPT !.cache[new.id[n]] = e]

\* The end of cleanData(): the entry goes and the id is free.
discard(D, n) ==
    IF ~hasEntry(D, n) THEN D
    ELSE [D EXCEPT !.id[n] = NoId,
                   !.cache = [i \in DOMAIN @ \ {D.id[n]} |-> @[i]],
                   !.deleted = Append(@, D.id[n])]

\* Once e, what is left, is empty, the entry goes as well.
internalRemoveData(D, n, e) ==
    IF ~hasEntry(D, n) THEN D
    ELSE IF isEmptyDataObject(e) THEN discard(D, n) ELSE put(D, n, e)

data(D, n) == put(D, n, [entry(D, n) EXCEPT !.user = TRUE])
removeData(D, n) == internalRemoveData(D, n, [entry(D, n) EXCEPT !.user = FALSE])
-----------------------------------------------------------------------------
VARIABLES
    D,                   \* the data of the elements
    cuts,                \* elements that were taken out, with what is in them
    listeners,           \* the browser: elements and types with a listener
    capturing,           \* the browser: the listener of the document for focusin
    frames,              \* the events under way, the innermost last
    binds, eventOps,
    removed              \* history: handlers unbound

eventVars == <<D, cuts, listeners, capturing, frames, binds, eventOps, removed>>

\* The elements in the page.
attached == {n \in Nodes : \A c \in cuts : c < n}

NoSelector == 0
NoNode == 0

\* A handler's number tells it from others of the same function; a selector is the
\* element it finds.
HandleObjs ==
    [number: 1..MaxBinds, fn: Functions, selector: Nodes \cup {NoSelector}, one: BOOLEAN]

\* A place in the queue of an event at one element: whose handler, of which element.
Matched == [elem: Nodes, h: HandleObjs]

bound(n, t) == entry(D, n).events[t]
numbers(n) == {x \in 1..binds : \E t \in EventTypes : \E i \in DOMAIN bound(n, t) : bound(n, t)[i].number = x}
delegateCount(s) == Cardinality({i \in DOMAIN s : s[i].selector # NoSelector})

EventsTypeOK ==
    /\ D.id \in [Nodes -> 0..Depth]
    /\ \A i \in DOMAIN D.cache :
         /\ i \in 1..Depth
         /\ \A t \in EventTypes : D.cache[i].events[t] \in Seq(HandleObjs)
    /\ D.deleted \in Seq(1..Depth) /\ D.guid \in 1..(Depth + 1)
    /\ cuts \subseteq Nodes \ {document}
    /\ listeners \subseteq Nodes \X EventTypes
    /\ \A f \in DOMAIN frames :
         /\ frames[f].path \in Seq(Nodes) /\ frames[f].queue \in Seq(Matched)
         /\ frames[f].at \in Nodes \cup {NoNode}
         /\ frames[f].running => frames[f].queue # <<>>
    /\ binds \in 0..MaxBinds /\ eventOps \in 0..MaxEventOps

EventsInit ==
    /\ D = NewData
    /\ cuts = {}
    /\ listeners = {} /\ capturing = FALSE
    /\ frames = <<>>
    /\ binds = 0 /\ eventOps = 0 /\ removed = {}
----------------------------------------------------------------------------
top == frames[Len(frames)]
handler(f) == Head(f.queue).h
setTop(f) == [frames EXCEPT ![Len(frames)] = f]

\* The program runs, or a handler.
EventTurn ==
    /\ frames # <<>> => top.running
    /\ eventOps < MaxEventOps
    /\ eventOps' = eventOps + 1

\* The first handler of a type: focusin counts in the data of the document.
attach(d, n, t) ==
    IF t = "focusin"
    THEN /\ D' = put(d, document, [entry(d, document) EXCEPT !.attaches = @ + 1])
         /\ capturing' = TRUE
         /\ UNCHANGED listeners
    ELSE /\ D' = d
         /\ listeners' = listeners \cup {<<n, t>>}
         /\ UNCHANGED capturing

\* Delegated handlers come first.
insert(s, h) ==
    LET k == delegateCount(s)
    IN  IF h.selector = NoSelector THEN Append(s, h)
        ELSE SubSeq(s, 1, k) \o <<h>> \o SubSeq(s, k + 1, Len(s))

\* on() and one().
addEvent(n, t, fn, selector, one) ==
    LET h   == [number |-> binds + 1, fn |-> fn, selector |-> selector, one |-> one]
        old == bound(n, t)
        d   == put(D, n, [entry(D, n) EXCEPT !.handle = TRUE, !.events[t] = insert(@, h)])
    IN  /\ binds < MaxBinds
        /\ binds' = binds + 1
        /\ IF old = <<>> THEN attach(d, n, t) ELSE D' = d /\ UNCHANGED <<listeners, capturing>>

On ==
    /\ EventTurn
    /\ \E n \in attached, t \in EventTypes, fn \in Functions, one \in BOOLEAN :
       \E selector \in {NoSelector} \cup 1..(n - 1) : addEvent(n, t, fn, selector, one)
    /\ UNCHANGED <<cuts, frames, removed>>

\* What a sequence has at the positions I, in its order.
chosen(s, I) ==
    LET upTo[i \in 0..Len(s)] ==
          IF i = 0 THEN <<>> ELSE IF i \in I THEN Append(upTo[i - 1], s[i]) ELSE upTo[i - 1]
    IN  upTo[Len(s)]

\* The handlers of an element are taken from a list of one type.
without(s, gone) == chosen(s, {i \in DOMAIN s : s[i].number \notin gone})

\* What jQuery counts for focusin is taken back, once for each element that had some.
detach(d, last) ==
    LET left == [entry(d, document) EXCEPT !.attaches = @ - Cardinality(last)]
    IN  IF last = {} THEN d ELSE internalRemoveData(d, document, left)

silence(n, types) == listeners' = listeners \ ({n} \X types)

\* remove() of some handlers of an element: types without handlers go, then the handle and
\* the entry when nothing is left.
removeEvent(n, gone) ==
    LET e      == entry(D, n)
        events == [t \in EventTypes |-> without(e.events[t], gone)]
        ended  == {t \in EventTypes : e.events[t] # <<>> /\ events[t] = <<>>}
        counts == detach(D, ended \cap {"focusin"})
        left   == [entry(counts, n) EXCEPT !.events = events, !.handle = events # NoEvents]
    IN  /\ D' = IF e.events = NoEvents THEN D ELSE internalRemoveData(counts, n, left)
        /\ silence(n, ended)
        /\ capturing' = (entry(D', document).attaches > 0)
        /\ removed' = removed \cup gone

\* The handlers of an element for types, functions and selectors.
matching(n, types, fns, selectors) ==
    UNION {{h.number : h \in {g \in {bound(n, t)[i] : i \in DOMAIN bound(n, t)} :
                               g.fn \in fns /\ g.selector \in selectors}} : t \in types}

\* off( type ), off( type, fn ) and off( type, selector, fn ); off( ".namespace" ).
Off ==
    /\ EventTurn
    /\ \E n \in attached :
         \/ \E t \in EventTypes, fns \in {{f} : f \in Functions} \cup {Functions} :
            \E selectors \in {{s} : s \in 1..(n - 1)} \cup {{NoSelector} \cup Nodes} :
              removeEvent(n, matching(n, {t}, fns, selectors))
         \/ removeEvent(n, matching(n, EventTypes, Namespaced, {NoSelector} \cup Nodes))
    /\ UNCHANGED <<cuts, frames, binds>>

Data ==
    /\ EventTurn
    /\ \E n \in attached : D' \in {data(D, n), removeData(D, n)}
    /\ UNCHANGED <<cuts, listeners, capturing, frames, binds, removed>>

inside(n) == attached \cap 1..n

\* The data after an element and what is inside it is cleaned.
cleanAll(n, focus) ==
    LET upTo[m \in 0..n] ==
          IF m = 0 THEN detach(D, focus)
          ELSE IF m \in inside(n) THEN discard(upTo[m - 1], m) ELSE upTo[m - 1]
    IN  upTo[n]

\* remove(), empty() and html(): an element and all inside it are cleaned.
cleanData ==
    /\ EventTurn
    /\ \E n \in attached \ {document} :
         LET focus == {m \in inside(n) : bound(m, "focusin") # <<>>}
         IN  /\ cuts' = cuts \cup {n}
             /\ D' = cleanAll(n, focus)
             /\ listeners' = {l \in listeners : l[1] \notin inside(n)}
             /\ capturing' = (entry(D', document).attaches > 0)
             /\ removed' = removed \cup UNION {numbers(m) : m \in 1..n}
    /\ UNCHANGED <<frames, binds>>
----------------------------------------------------------------------------
(* An event *)

start(n, t) ==
    frames' = Append(frames, [type |-> t, target |-> n, path |-> [i \in 1..(Depth + 1 - n) |-> n + i - 1],
                              at |-> NoNode, queue |-> <<>>, running |-> FALSE, stop |-> NoNode,
                              late |-> {}])

Trigger ==
    /\ EventTurn
    /\ Len(frames) < MaxNested
    /\ \E n \in attached, t \in EventTypes : start(n, t)
    /\ UNCHANGED <<D, cuts, listeners, capturing, binds, removed>>

\* The user: the browser calls the handle of the elements that listen.
FromUser ==
    /\ frames = <<>>
    /\ EventTurn
    /\ \E n \in attached, t \in EventTypes :
         /\ IF t = "focusin" THEN capturing ELSE \E m \in n..Depth : <<m, t>> \in listeners
         /\ start(n, t)
    /\ UNCHANGED <<D, cuts, listeners, capturing, binds, removed>>

\* From the target up to n, as far as the elements are still in each other.
above(target, n) == {m \in target..(n - 1) : ~\E c \in cuts : target <= c /\ c < m}

\* Those for elements inside, from the innermost, then its own.
handlers(f, n) ==
    LET s        == bound(n, f.type)
        k        == delegateCount(s)
        queue(m, hs) == [i \in DOMAIN hs |-> [elem |-> m, h |-> hs[i]]]
        for(m)   == chosen(s, {i \in 1..k : s[i].selector = m})
        delegates[m \in 0..n] ==
          IF m = 0 THEN <<>>
          ELSE IF m \in above(f.target, n) THEN delegates[m - 1] \o queue(m, for(m))
          ELSE delegates[m - 1]
    IN  delegates[n] \o queue(n, SubSeq(s, k + 1, Len(s)))

\* dispatch() at the next element of the path.
Dispatch ==
    /\ frames # <<>> /\ ~top.running /\ top.queue = <<>>
    /\ top.path # <<>> /\ top.stop = NoNode
    /\ LET n == Head(top.path)
       IN  frames' = setTop([top EXCEPT !.path = Tail(@), !.at = n, !.queue = handlers(top, n),
                                        !.late = removed])
    /\ UNCHANGED <<D, cuts, listeners, capturing, binds, eventOps, removed>>

\* Bug: it is unbound when it has run.
unbindLate(h, n, t) == UNCHANGED <<D, listeners, capturing, removed>>

\* one(): off( event ) comes first.
unbind(h, n, t) ==
    IF h.one
    THEN removeEvent(n, matching(n, {t}, {h.fn}, IF h.selector = NoSelector THEN {NoSelector} \cup Nodes
                                                 ELSE {h.selector}))
    ELSE UNCHANGED <<D, listeners, capturing, removed>>

Call ==
    /\ frames # <<>> /\ ~top.running /\ top.queue # <<>>
    /\ unbind(handler(top), top.at, top.type)
    /\ frames' = setTop([top EXCEPT !.running = TRUE])
    /\ UNCHANGED <<cuts, binds, eventOps>>

\* The other handlers of the same element are called after false.
rest(f, s) == chosen(s, {i \in DOMAIN s : s[i].elem = Head(f.queue).elem})

Returns ==
    /\ frames # <<>> /\ top.running
    /\ \E result \in {"on", "false", "immediate"} :
         frames' = setTop([top EXCEPT
           !.running = FALSE,
           !.stop = IF result # "on" /\ @ = NoNode THEN Head(top.queue).elem ELSE @,
           !.queue = IF result = "immediate" THEN <<>>
                     ELSE IF result = "false" \/ top.stop # NoNode THEN rest(top, Tail(@)) ELSE Tail(@)])
    /\ UNCHANGED <<D, cuts, listeners, capturing, binds, eventOps, removed>>

EventEnds ==
    /\ frames # <<>> /\ ~top.running /\ top.queue = <<>>
    /\ top.path = <<>> \/ top.stop # NoNode
    /\ frames' = SubSeq(frames, 1, Len(frames) - 1)
    /\ UNCHANGED <<D, cuts, listeners, capturing, binds, eventOps, removed>>

EventsNext ==
    \/ On \/ Off \/ Data \/ cleanData
    \/ Trigger \/ FromUser \/ Dispatch \/ Call \/ Returns \/ EventEnds
EventsSpec == EventsInit /\ [][EventsNext]_eventVars
----------------------------------------------------------------------------
(* Properties *)

\* The browser listens for an element exactly as long as there are handlers, through off(),
\* handlers that unbind themselves and elements that are taken out (add(), remove(),
\* cleanData()); for focusin the document listens as long as any element has some.
ListensAsHandled ==
    /\ listeners = {l \in Nodes \X (EventTypes \ {"focusin"}) : bound(l[1], l[2]) # <<>>}
    /\ entry(D, document).attaches = Cardinality({n \in Nodes : bound(n, "focusin") # <<>>})
    /\ capturing <=> entry(D, document).attaches > 0

\* No two elements share data: an id that is used is the id of one element and is not among
\* those to be used again, of which each is there once (deletedIds).
IdsAreOwn ==
    /\ \A m, n \in Nodes : D.id[m] = D.id[n] /\ D.id[m] # NoId => m = n
    /\ \A i, j \in DOMAIN D.deleted : D.deleted[i] = D.deleted[j] => i = j
    /\ \A i \in DOMAIN D.deleted : \A n \in Nodes : D.id[n] # D.deleted[i]
    /\ DOMAIN D.cache = {D.id[n] : n \in Nodes} \ {NoId}

\* Data that says nothing is not kept, and an element that was taken out keeps none, with
\* all that was in it: whatever is kept is never found again.
NothingIsLeft ==
    /\ \A i \in DOMAIN D.cache : ~isEmptyDataObject(D.cache[i])
    /\ \A n \in Nodes \ attached : ~hasEntry(D, n)

\* dispatch() takes the first delegateCount handlers for the delegated ones.
DelegatesFirst ==
    \A n \in Nodes, t \in EventTypes : \A i, j \in DOMAIN bound(n, t) :
      i < j /\ bound(n, t)[j].selector # NoSelector => bound(n, t)[i].selector # NoSelector

\* A handler that was unbound does not hear an event that comes to its element later, also
\* one that is under way already; it may hear the one that is there.
UnboundIsSilent ==
    \A f \in DOMAIN frames :
      frames[f].running => handler(frames[f]).number \notin frames[f].late

\* A handler bound with one() is not called by the events it triggers itself.
NeverInItself ==
    \A f, g \in DOMAIN frames :
      f < g /\ frames[f].running /\ frames[g].running /\ handler(frames[f]) = handler(frames[g])
      => ~handler(frames[f]).one

\* Once an event is stopped, only handlers for the element where it was hear it.
StopsThere ==
    \A f \in DOMAIN frames : frames[f].stop # NoNode =>
      \A i \in DOMAIN frames[f].queue : frames[f].queue[i].elem = frames[f].stop

\* What the browser, the cache and the lists of handlers say of an element agree, and an
\* event on its way calls whom it should although its handlers change who that is.
EventsAgree ==
    /\ EventsTypeOK /\ ListensAsHandled /\ IdsAreOwn /\ NothingIsLeft /\ DelegatesFirst
    /\ UnboundIsSilent /\ NeverInItself /\ StopsThere
=============================================================================
