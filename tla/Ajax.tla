--------------------------------- MODULE Ajax ---------------------------------
(***************************************************************************)
(* Requests of jQuery.ajax() (nano/js/libraries/jquery.js): a request goes *)
(* through functions of the program before it is sent, is ended by its     *)
(* answer, a timeout or abort(), and tells others; jqActive counts those   *)
(* that make the global events.  An xhr may be synchronous; a jsonp        *)
(* request is a script that calls a function of the window by a name that  *)
(* is used again.  What is called in what order is the list ajaxTodo.      *)
(***************************************************************************)
EXTENDS Naturals, Integers, Sequences, FiniteSets

CONSTANTS
    AjaxKinds,           \* of "xhr", "sync" and "jsonp"
    MaxRequests, MaxAjaxOps  \* bounds: requests, and what the program does

ASSUME AjaxAssumption ==
    /\ AjaxKinds \subseteq {"xhr", "sync", "jsonp"}
    /\ MaxRequests \in Nat /\ MaxAjaxOps \in Nat

VARIABLES
    reqs,                \* the requests so far
    jqActive,            \* jQuery.active
    oldCallbacks,        \* names that are free
    nameCount,           \* names so far
    windowFns,           \* of each name: the request whose function the window has
    ajaxTodo, ajaxOps,
    spinner,             \* history: ajaxStart was the last of ajaxStart and ajaxStop
    mishaps              \* history: what happened that the properties except

ajaxVars == <<reqs, jqActive, oldCallbacks, nameCount, windowFns, ajaxTodo, ajaxOps, spinner, mishaps>>

NoRequest == 0
NoName == 0
Names == 1..MaxRequests

\* state is that of the jqXHR: 0 until it is sent, 1, and 2 when it is over.
RequestRecords ==
    [kind: AjaxKinds, global: BOOLEAN, timed: BOOLEAN, state: 0..2,
     transport: BOOLEAN, listens: BOOLEAN, loading: BOOLEAN, timer: BOOLEAN, counted: BOOLEAN,
     name: Names \cup {NoName}, got: 0..MaxRequests,
     outcome: {"none", "success", "error"}, dones: 0..2]

AjaxTypeOK ==
    /\ reqs \in Seq(RequestRecords) /\ Len(reqs) <= MaxRequests
    /\ jqActive \in (-MaxRequests)..MaxRequests
    /\ oldCallbacks \in Seq(Names) /\ nameCount \in 0..MaxRequests
    /\ windowFns \in [Names -> 0..Len(reqs)]
    /\ spinner \in BOOLEAN /\ ajaxOps \in 0..MaxAjaxOps

AjaxInit ==
    /\ reqs = <<>> /\ jqActive = 0
    /\ oldCallbacks = <<>> /\ nameCount = 0
    /\ windowFns = [n \in Names |-> NoRequest]
    /\ ajaxTodo = <<>> /\ ajaxOps = 0
    /\ spinner = FALSE /\ mishaps = {}
----------------------------------------------------------------------------
nextOp == Head(ajaxTodo)
at(op) == ajaxTodo # <<>> /\ nextOp.op = op
thenDo(s) == ajaxTodo' = s \o Tail(ajaxTodo)
Op(op, r) == [op |-> op, r |-> r]

\* The program, or a function it gave: a prefilter, beforeSend and the handlers of ajaxStart
\* before it, those of ajaxSend, those that are told of the end, those of ajaxStop.
Before(r) == [op |-> "user", r |-> r]
AjaxTurn ==
    /\ ajaxTodo = <<>> \/ at("user")
    /\ ajaxOps < MaxAjaxOps
    /\ ajaxOps' = ajaxOps + 1

\* oldCallbacks.pop()
taken(free) == IF free = <<>> THEN free ELSE SubSeq(free, 1, Len(free) - 1)

\* The name of the next jsonp request: one that is free again, or a new one.
jsonpCallback == IF oldCallbacks = <<>> THEN nameCount + 1 ELSE oldCallbacks[Len(oldCallbacks)]

\* The prefilter for jsonp: the window has the function of request r by its name.
jsonpPrefilter(r) ==
    /\ oldCallbacks' = taken(oldCallbacks)
    /\ nameCount' = IF oldCallbacks = <<>> THEN nameCount + 1 ELSE nameCount
    /\ windowFns' = [windowFns EXCEPT ![jsonpCallback] = r]

\* ajax() up to the prefilters of the program; those for jsonp and script come before them.
CallAjax ==
    /\ AjaxTurn
    /\ Len(reqs) < MaxRequests
    /\ \E kind \in AjaxKinds, global, timed \in BOOLEAN :
         LET r == Len(reqs) + 1
         IN  /\ kind = "jsonp" => ~global
             /\ kind = "sync" => ~timed
             /\ reqs' = Append(reqs, [kind |-> kind, global |-> global, timed |-> timed, state |-> 0,
                          transport |-> FALSE, listens |-> FALSE, loading |-> FALSE, timer |-> FALSE,
                          counted |-> FALSE, name |-> IF kind = "jsonp" THEN jsonpCallback ELSE NoName,
                          got |-> NoRequest, outcome |-> "none", dones |-> 0])
             /\ IF kind = "jsonp" THEN jsonpPrefilter(r)
                ELSE UNCHANGED <<oldCallbacks, nameCount, windowFns>>
             /\ ajaxTodo' = <<Before(r), Op("begin", r)>> \o ajaxTodo
    /\ UNCHANGED <<jqActive, spinner, mishaps>>

AjaxUserReturns ==
    /\ at("user")
    /\ thenDo(<<>>)
    /\ UNCHANGED <<reqs, jqActive, oldCallbacks, nameCount, windowFns, ajaxOps, spinner, mishaps>>

\* An exception of the program: nothing catches it.
AjaxUserThrows ==
    /\ at("user")
    /\ AjaxTurn
    /\ ajaxTodo' = <<>>
    /\ mishaps' = mishaps \cup {"threw"}
    /\ UNCHANGED <<reqs, jqActive, oldCallbacks, nameCount, windowFns, spinner>>
----------------------------------------------------------------------------
\* A jsonp request that was not called has nothing to convert.
converted(q) == q.kind = "jsonp" => q.got # NoRequest

over(q) == q.state = 2

\* Bug: the timeout is left.
doneTimed(q, result) ==
    [q EXCEPT !.state = 2, !.transport = FALSE, !.dones = @ + 1,
              !.outcome = IF @ = "none" THEN result ELSE @]

doneWith(q, result) ==
    [q EXCEPT !.state = 2, !.transport = FALSE, !.timer = FALSE, !.dones = @ + 1,
              !.outcome = IF @ = "none" THEN result ELSE @]

\* The first to be told of the end of a jsonp request: its name is free.
nameFreed(q) ==
    IF q.name # NoName /\ q.outcome = "none"
    THEN /\ windowFns' = [windowFns EXCEPT ![q.name] = NoRequest]
         /\ oldCallbacks' = Append(oldCallbacks, q.name)
    ELSE UNCHANGED <<oldCallbacks, windowFns>>

\* done() of request r of all, which is q by now; s comes after it.  The deferreds tell the program once, the events again.
doneOf(all, r, q, success, s) ==
    IF over(q)
    THEN /\ reqs' = [all EXCEPT ![r] = q]
         /\ ajaxTodo' = s
         /\ UNCHANGED <<oldCallbacks, windowFns>>
    ELSE /\ reqs' = [all EXCEPT ![r] =
                       doneWith(q, IF success /\ converted(q) THEN "success" ELSE "error")]
         /\ nameFreed(q)
         /\ ajaxTodo' = (IF q.outcome = "none" \/ q.counted THEN <<Before(r)>> ELSE <<>>)
                        \o (IF q.counted THEN <<Op("ended", r)>> ELSE <<>>) \o s

ajaxDone(r, q, success, s) == doneOf(reqs, r, q, success, s)

\* After a prefilter: the request is counted, the first makes ajaxStart.
Begin ==
    /\ at("begin")
    /\ LET r == nextOp.r
       IN  IF over(reqs[r])
           THEN thenDo(<<>>) /\ UNCHANGED <<reqs, jqActive, spinner>>
           ELSE /\ reqs' = [reqs EXCEPT ![r].counted = reqs[r].global]
                /\ jqActive' = IF reqs[r].global THEN jqActive + 1 ELSE jqActive
                /\ spinner' = (spinner \/ (reqs[r].global /\ jqActive = 0))
                /\ thenDo(<<Before(r), Op("choose", r)>>)
    /\ UNCHANGED <<oldCallbacks, nameCount, windowFns, ajaxOps, mishaps>>

\* After beforeSend, whose false is an abort(): the transport is looked for.
Choose ==
    /\ at("choose")
    /\ LET r == nextOp.r
           q == reqs[r]
       IN  \/ /\ over(q)
              /\ thenDo(<<>>)
              /\ UNCHANGED <<reqs, oldCallbacks, windowFns>>
           \/ /\ ~over(q) /\ q.kind # "jsonp"
              /\ ajaxDone(r, q, FALSE, Tail(ajaxTodo))
           \/ /\ ~over(q)
              /\ reqs' = [reqs EXCEPT ![r].transport = TRUE]
              /\ thenDo((IF q.counted THEN <<Before(r)>> ELSE <<>>) \o <<Op("send", r)>>)
              /\ UNCHANGED <<oldCallbacks, windowFns>>
    /\ UNCHANGED <<jqActive, nameCount, ajaxOps, spinner, mishaps>>

\* After ajaxSend: a request that was aborted by a handler of it has no transport any more,
\* is open again, and fails for that.
Send ==
    /\ at("send")
    /\ LET r == nextOp.r
           q == [reqs[r] EXCEPT !.state = 1, !.timer = reqs[r].timed]
       IN  /\ mishaps' = mishaps \cup IF q.transport THEN {} ELSE {"aborted"}
           /\ \/ /\ q.transport => q.kind # "jsonp"
                 /\ ajaxDone(r, q, FALSE, Tail(ajaxTodo))
              \/ /\ q.transport /\ q.kind = "sync"
                 /\ ajaxDone(r, q, TRUE, Tail(ajaxTodo))
              \/ /\ q.transport /\ q.kind # "sync"
                 /\ reqs' = [reqs EXCEPT ![r] = [q EXCEPT !.listens = TRUE, !.loading = TRUE]]
                 /\ thenDo(<<>>)
                 /\ UNCHANGED <<oldCallbacks, windowFns>>
    /\ UNCHANGED <<jqActive, nameCount, ajaxOps, spinner>>

last(n) == n = 0

\* The end of done(): after ajaxComplete.
Ended ==
    /\ at("ended")
    /\ jqActive' = jqActive - 1
    /\ spinner' = (spinner /\ ~last(jqActive'))
    /\ thenDo(IF last(jqActive') THEN <<Before(nextOp.r)>> ELSE <<>>)
    /\ UNCHANGED <<reqs, oldCallbacks, nameCount, windowFns, ajaxOps, mishaps>>
----------------------------------------------------------------------------
\* The answer of a script may still come, that of an xhr does not.
abort(r, s) ==
    LET q == reqs[r]
    IN  ajaxDone(r, IF q.transport THEN [q EXCEPT !.listens = FALSE, !.loading = @ /\ q.kind = "jsonp"] ELSE q,
             FALSE, s)

Abort ==
    /\ AjaxTurn
    /\ \E r \in DOMAIN reqs : abort(r, ajaxTodo)
    /\ UNCHANGED <<jqActive, nameCount, spinner, mishaps>>

AjaxTimeout ==
    /\ ajaxTodo = <<>>
    /\ \E r \in DOMAIN reqs : reqs[r].timer /\ abort(r, <<>>)
    /\ UNCHANGED <<jqActive, nameCount, ajaxOps, spinner, mishaps>>

\* onreadystatechange of an xhr.
Respond ==
    /\ ajaxTodo = <<>>
    /\ \E r \in DOMAIN reqs, success \in BOOLEAN :
         LET q == reqs[r]
         IN  /\ q.kind = "xhr" /\ q.listens
             /\ ajaxDone(r, [q EXCEPT !.listens = FALSE, !.loading = FALSE], success, <<>>)
    /\ UNCHANGED <<jqActive, nameCount, ajaxOps, spinner, mishaps>>

\* A script calls the function of its name, or does not, and its onload; one that was
\* taken out may run as well.  One that does not load says nothing.
ScriptRuns ==
    /\ ajaxTodo = <<>>
    /\ \E r \in DOMAIN reqs, calls \in BOOLEAN :
         LET q     == reqs[r]
             owner == windowFns[q.name]
             given == IF calls /\ owner # NoRequest THEN [reqs EXCEPT ![owner].got = r] ELSE reqs
         IN  /\ q.kind = "jsonp" /\ q.loading
             /\ mishaps' = mishaps \cup
                  IF calls /\ ~q.listens /\ owner \notin {r, NoRequest} THEN {"late"} ELSE {}
             /\ IF q.listens
                THEN doneOf(given, r, [given[r] EXCEPT !.listens = FALSE, !.loading = FALSE], TRUE, <<>>)
                ELSE /\ reqs' = [given EXCEPT ![r].loading = FALSE]
                     /\ UNCHANGED <<ajaxTodo, oldCallbacks, windowFns>>
    /\ UNCHANGED <<jqActive, nameCount, ajaxOps, spinner>>

AjaxSteps == AjaxUserReturns \/ Begin \/ Choose \/ Send \/ Ended
AjaxNext == CallAjax \/ Abort \/ AjaxUserThrows \/ AjaxSteps \/ AjaxTimeout \/ Respond \/ ScriptRuns
AjaxSpec == AjaxInit /\ [][AjaxNext]_ajaxVars

\* What is called returns, and timeouts come; an answer need not.
AjaxFairness == WF_ajaxVars(AjaxSteps) /\ WF_ajaxVars(AjaxTimeout)
----------------------------------------------------------------------------
(* Properties *)

\* Nothing the program gave is running, raised an exception or aborted in ajaxSend.
calm == ajaxTodo = <<>> /\ mishaps \cap {"threw", "aborted"} = {}

\* The counter is the number of global requests that are not over (active, done()), whatever
\* ended them and whatever was begun or aborted by those that were told.
ActiveIsCount ==
    calm => jqActive = Cardinality({r \in DOMAIN reqs : reqs[r].counted /\ ~over(reqs[r])})

\* What is shown from ajaxStart to ajaxStop is shown as long as a request is under way.
SpinnerTells ==
    calm => (spinner <=> \E r \in DOMAIN reqs : reqs[r].counted /\ ~over(reqs[r]))

\* done() is gone through once ("Called once"); aborted by a handler of ajaxSend a request is
\* opened again, and its events come twice.
CalledOnce == "aborted" \notin mishaps => \A r \in DOMAIN reqs : reqs[r].dones <= 1

\* Once a request is over nothing of it comes any more: no timeout, no answer.
QuietAtTheEnd ==
    \A r \in DOMAIN reqs : over(reqs[r]) => ~reqs[r].timer /\ ~reqs[r].listens

\* A name is free or used by one request that is not over, which has the window's function
\* (the prefilter for jsonp, oldCallbacks).
NamesAreOwn ==
    /\ \A i, j \in DOMAIN oldCallbacks : oldCallbacks[i] = oldCallbacks[j] => i = j
    /\ \A r \in DOMAIN reqs : reqs[r].name # NoName /\ reqs[r].outcome = "none" =>
         /\ windowFns[reqs[r].name] = r
         /\ \A i \in DOMAIN oldCallbacks : oldCallbacks[i] # reqs[r].name

\* The answer of a jsonp request is its own, unless the script of one that was aborted came
\* after its name was used again.
OwnAnswer ==
    "late" \notin mishaps => \A r \in DOMAIN reqs : reqs[r].got \in {r, NoRequest}

\* A request with a timeout ends, also when its script is never loaded, for the program too.
TimedIsAnswered ==
    \A r \in 1..MaxRequests :
      (r \in DOMAIN reqs /\ reqs[r].state = 1 /\ reqs[r].timed)
        ~> (r \in DOMAIN reqs /\ reqs[r].outcome # "none")

\* Requests that end by answers, timeouts and aborts inside each other's events: all are
\* counted and told once, get their own answer and come to an end.
RequestsEnd ==
    /\ [](AjaxTypeOK /\ ActiveIsCount /\ SpinnerTells /\ CalledOnce /\ QuietAtTheEnd)
    /\ [](NamesAreOwn /\ OwnAnswer)
    /\ TimedIsAnswered
=============================================================================
