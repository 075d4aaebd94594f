------------------------------- MODULE Template -------------------------------
(***************************************************************************)
(* The templates of the pages (nano/js/libraries/doT.js): the text of one  *)
(* becomes the text of a function, tag by tag, and the function prints the *)
(* data.  The names a template gives to what it loops over are variables   *)
(* of that function, whatever block they are in.                           *)
(***************************************************************************)
EXTENDS Integers, Sequences, FiniteSets

CONSTANTS
    Markups,             \* templates, as trees of Nodes
    Datas,               \* values of data
    MaxPrinted           \* bound: what is printed

VARIABLES
    markup, page,        \* the template and the data
    code, pc,            \* its function, the statement that is next
    env, index,          \* the variables of the function: values, indexes of loops
    loops,               \* of the number of a loop: its list, the next key of one of props
    out

doTVars == <<markup, page, code, pc, env, index, loops, out>>

\* A node prints a text or the name of a variable, chooses by whether a variable has items,
\* or goes through the items of one.  An else with a condition stands alone in its else.
Text(x) == [k |-> "text", x |-> x]
Show(v) == [k |-> "show", x |-> v]
If(x, then, else) == [k |-> "if", x |-> x, body |-> then, else |-> else]
ElseIf(x, then, else) == [If(x, then, else) EXCEPT !.k = "elseif"]
For(kind, x, v, i, body, empty) == [k |-> kind, x |-> x, v |-> v, i |-> i, body |-> body, else |-> empty]

Choices == {"if", "elseif"}
Undefined == [name |-> "undefined", items |-> <<>>]
----------------------------------------------------------------------------
(* The tags of a template, from the left *)

Tag(t, x) == [t |-> t, x |-> x, v |-> "", i |-> ""]

RECURSIVE tags(_)
tags(nodes) ==
    IF nodes = <<>> THEN <<>>
    ELSE LET n == Head(nodes)
         IN  (CASE n.k \in {"text", "show"} -> <<Tag(n.k, n.x)>>
                [] n.k \in Choices ->
                     <<Tag(n.k, n.x)>> \o tags(n.body)
                     \o (IF n.else = <<>> \/ n.else[1].k = "elseif" THEN tags(n.else)
                         ELSE <<Tag("else", "")>> \o tags(n.else))
                     \o (IF n.k = "if" THEN <<Tag("/if", "")>> ELSE <<>>)
                [] n.k \in {"for", "props"} ->
                     <<[t |-> n.k, x |-> n.x, v |-> n.v, i |-> n.i]>> \o tags(n.body)
                     \o (IF n.else = <<>> THEN <<>> ELSE <<Tag("empty", "")>> \o tags(n.else))
                     \o <<Tag("/for", "")>>) \o tags(Tail(nodes))
----------------------------------------------------------------------------
(* template(): statements for each of the tags *)

\* Bug: the number of a loop does not go into the names.
sidSame(ts, j) == 1

\* The loops of for are numbered before those of props.
sid(ts, j) ==
    IF ts[j].t = "for" THEN Cardinality({k \in 1..j : ts[k].t = "for"})
    ELSE Cardinality({k \in DOMAIN ts : ts[k].t = "for"}) + Cardinality({k \in 1..j : ts[k].t = "props"})

Stmt(s, x, n, v, i) == [s |-> s, x |-> x, n |-> n, v |-> v, i |-> i]
Close == Stmt("}", "", 0, "", "")
Else == Stmt("else{", "", 0, "", "")

\* "The "if(true)" condition is required to account for the for tag closing with two brackets"
empty == <<Close, Close, Else, Stmt("true{", "", 0, "", "")>>

\* The list, a test, the index that begins at -1, the loop.
iterate(tag, n) ==
    <<Stmt("arr", tag.x, n, "", ""), Stmt("filled{", "", n, "", ""),
      Stmt("start", "", n, tag.v, tag.i), Stmt("while{", "", n, tag.v, tag.i)>>

props(tag, n) ==
    <<Stmt("arr", tag.x, n, "", ""), Stmt("filled{", "", n, "", ""),
      Stmt("startIn", "", n, "", ""), Stmt("in{", "", n, tag.v, tag.i)>>

compiled(ts, j) ==
    LET tag == ts[j]
    IN  CASE tag.t \in {"text", "show"} -> <<Stmt(tag.t, tag.x, 0, "", "")>>
          [] tag.t = "if"    -> <<Stmt("if{", tag.x, 0, "", "")>>
          [] tag.t = "elseif" -> <<Close, Stmt("else if{", tag.x, 0, "", "")>>
          [] tag.t = "else"  -> <<Close, Else>>
          [] tag.t = "/if"   -> <<Close>>
          [] tag.t = "for"   -> iterate(tag, sid(ts, j))
          [] tag.t = "props" -> props(tag, sid(ts, j))
          [] tag.t = "empty" -> empty
          [] tag.t = "/for"  -> <<Close, Close>>

template(nodes) ==
    LET ts == tags(nodes)
        all[j \in 0..Len(ts)] == IF j = 0 THEN <<>> ELSE all[j - 1] \o compiled(ts, j)
    IN  all[Len(ts)]
----------------------------------------------------------------------------
(* The function *)

Opening == {"if{", "else if{", "else{", "filled{", "true{", "while{", "in{"}
opens(p) == code[p].s \in Opening
depth(p, q) == Cardinality({k \in p..q : opens(k)}) - Cardinality({k \in p..q : code[k] = Close})
ends(p, q) == opens(p) /\ code[q] = Close /\ depth(p, q) = 0 /\ \A k \in p..(q - 1) : depth(p, k) > 0
endOf(p) == CHOOSE q \in (p + 1)..Len(code) : ends(p, q)
beginOf(q) == CHOOSE p \in 1..(q - 1) : ends(p, q)

\* Behind a block that was gone through: what is an else of it is not.
isElse(p) == p \in DOMAIN code /\ code[p].s \in {"else{", "else if{"}
RECURSIVE past(_)
past(q) == IF isElse(q + 1) THEN past(endOf(q + 1)) ELSE q + 1

TemplateStart ==
    /\ code = template(markup) /\ pc = 1
    /\ env = [n \in {"data"} |-> page] /\ index = [n \in {} |-> 0]
    /\ loops = [n \in {} |-> [list |-> <<>>, key |-> 0]]
    /\ out = <<>>

TemplateInit == markup \in Markups /\ page \in Datas /\ TemplateStart

valueOf(n) == IF n \in DOMAIN env THEN env[n] ELSE Undefined
with(f, x, y) == [z \in DOMAIN f \cup {x} |-> IF z = x THEN y ELSE f[z]]
stmt == code[pc]
is(s) == pc <= Len(code) /\ stmt.s = s

PrintText ==
    /\ is("text") \/ is("show")
    /\ Len(out) < MaxPrinted
    /\ out' = Append(out, IF stmt.s = "text" THEN stmt.x ELSE valueOf(stmt.x).name)
    /\ pc' = pc + 1
    /\ UNCHANGED <<markup, page, code, env, index, loops>>

\* var arr = ...
List ==
    /\ is("arr")
    /\ loops' = with(loops, stmt.n, [list |-> valueOf(stmt.x).items, key |-> 0])
    /\ pc' = pc + 1
    /\ UNCHANGED <<markup, page, code, env, index, out>>

Start ==
    /\ is("start") \/ is("startIn")
    /\ index' = IF stmt.s = "start" THEN with(index, stmt.i, -1) ELSE index
    /\ pc' = pc + 1
    /\ UNCHANGED <<markup, page, code, env, loops, out>>

\* if, else if, if(true), if(arr && arr.length > 0)
Choose ==
    /\ is("if{") \/ is("else if{") \/ is("filled{") \/ is("else{") \/ is("true{")
    /\ LET taken == CASE stmt.s \in {"if{", "else if{"} -> valueOf(stmt.x).items # <<>>
                      [] stmt.s = "filled{" -> loops[stmt.n].list # <<>>
                      [] stmt.s \in {"else{", "true{"} -> TRUE
       IN  pc' = IF taken THEN pc + 1
                 ELSE endOf(pc) + 1
    /\ UNCHANGED <<markup, page, code, env, index, loops, out>>

lastIndex(list) == Len(list) - 1

item(list, j) == IF j + 1 \in DOMAIN list THEN list[j + 1] ELSE Undefined

\* while(index < l){value = arr[index += 1]
While ==
    /\ is("while{")
    /\ LET list == loops[stmt.n].list
           j    == IF stmt.i \in DOMAIN index THEN index[stmt.i] ELSE 0
       IN  IF j < lastIndex(list)
           THEN /\ index' = with(index, stmt.i, j + 1)
                /\ env' = with(env, stmt.v, item(list, j + 1))
                /\ pc' = pc + 1
           ELSE pc' = endOf(pc) + 1 /\ UNCHANGED <<env, index>>
    /\ UNCHANGED <<markup, page, code, loops, out>>

\* for(var key in arr): where it is the name does not tell.
ForIn ==
    /\ is("in{")
    /\ LET loop == loops[stmt.n]
       IN  IF loop.key < Len(loop.list)
           THEN /\ loops' = [loops EXCEPT ![stmt.n].key = @ + 1]
                /\ index' = with(index, stmt.i, loop.key)
                /\ env' = with(env, stmt.v, loop.list[loop.key + 1])
                /\ pc' = pc + 1
           ELSE pc' = endOf(pc) + 1 /\ UNCHANGED <<env, index, loops>>
    /\ UNCHANGED <<markup, page, code, out>>

BlockEnds ==
    /\ is("}")
    /\ LET p == beginOf(pc)
       IN  pc' = IF code[p].s \in {"while{", "in{"} THEN p ELSE past(pc)
    /\ UNCHANGED <<markup, page, code, env, index, loops, out>>

TemplateNext == PrintText \/ List \/ Start \/ Choose \/ While \/ ForIn \/ BlockEnds
TemplateSpec == TemplateInit /\ [][TemplateNext]_doTVars
----------------------------------------------------------------------------
(* What a template says *)

RECURSIVE rendered(_, _), eachOf(_, _, _, _)
eachOf(list, v, body, e) ==
    IF list = <<>> THEN <<>> ELSE rendered(body, with(e, v, Head(list))) \o eachOf(Tail(list), v, body, e)
rendered(nodes, e) ==
    IF nodes = <<>> THEN <<>>
    ELSE LET n     == Head(nodes)
             value == IF n.k = "text" \/ n.x \notin DOMAIN e THEN Undefined ELSE e[n.x]
         IN  (CASE n.k = "text" -> <<n.x>>
                [] n.k = "show" -> <<value.name>>
                [] n.k \in Choices \cup {"for", "props"} ->
                     IF value.items = <<>> THEN rendered(n.else, e)
                     ELSE IF n.k \in Choices THEN rendered(n.body, e) ELSE eachOf(value.items, n.v, n.body, e))
             \o rendered(Tail(nodes), e)

\* The loops of nodes, and whether those inside another have names of their own, as those of
\* all the templates of the program but one (ritual_book.tmpl:37) have.
RECURSIVE inner(_), apart(_)
inner(nodes) ==
    UNION {LET n == nodes[j]
           IN  IF n.k \in {"text", "show"} THEN {}
               ELSE inner(n.body) \cup inner(n.else) \cup IF n.k \in Choices THEN {} ELSE {n} : j \in DOMAIN nodes}
apart(nodes) ==
    \A j \in DOMAIN nodes :
      LET n == nodes[j]
      IN  n.k \notin {"text", "show"} =>
            /\ apart(n.body) /\ apart(n.else)
            /\ n.k \notin Choices => \A m \in inner(n.body) : {m.v, m.i} \cap {n.v, n.i} = {}

finished == pc = Len(code) + 1
----------------------------------------------------------------------------
(* Properties *)

\* No loop is beyond the end of what it goes through.
TemplateTypeOK ==
    /\ pc \in 1..(Len(code) + 1)
    /\ \A n \in DOMAIN index : index[n] \in Int
    /\ \A n \in DOMAIN env \ {"data"} : \E m \in inner(markup) : m.v = n /\ env[n] # Undefined

\* Each bracket that is opened is closed, and an else follows the block of an if: the text is
\* a function (new Function()).
Parses ==
    pc = 1 =>
    /\ \A p \in DOMAIN code : opens(p) => \E q \in DOMAIN code : ends(p, q)
    /\ \A q \in DOMAIN code : code[q] = Close => \E p \in DOMAIN code : ends(p, q)
    /\ \A p \in DOMAIN code : isElse(p) =>
         p > 1 /\ code[p - 1] = Close /\ code[beginOf(p - 1)].s \in {"if{", "else if{", "filled{"}

\* What is printed is what the template says, item by item, and never more (a loop that goes
\* on for ever prints on), when loops that are inside others have names of their own.
AsWritten ==
    apart(markup) =>
      LET all == rendered(markup, [n \in {"data"} |-> page])
      IN  /\ Len(out) <= Len(all) /\ out = SubSeq(all, 1, Len(out))
          /\ finished => out = all

\* A template becomes a function and the function prints it.
PrintsAsWritten == TemplateTypeOK /\ Parses /\ AsWritten
=============================================================================
