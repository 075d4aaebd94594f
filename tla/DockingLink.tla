---------------------------- MODULE DockingLink ----------------------------
(***************************************************************************)
(* What a pair of docking programs promises: ports are connected one to    *)
(* one, and the two ends of a connection go through its phases together.   *)
(***************************************************************************)
CONSTANTS
    Ports    \* what can be connected

VARIABLES
    links    \* the connections, each with a client, a server and a phase

Phases == {"docking", "docked", "undocking"}
LinkType == [client : Ports, server : Ports, phase : Phases]

TypeOK == links \subseteq LinkType

Ends(l) == {l.client, l.server}
Free(p) == \A l \in links : p \notin Ends(l)

Init == links = {}

Connect(c, s) ==
    /\ c # s /\ Free(c) /\ Free(s)
    /\ links' = links \cup {[client |-> c, server |-> s, phase |-> "docking"]}

Advance(l, from, to) ==
    /\ l \in links /\ l.phase = from
    /\ links' = (links \ {l}) \cup {[l EXCEPT !.phase = to]}

\* The undocking is complete, either end gave up, or its machine is lost.
Break(l) == l \in links /\ links' = links \ {l}

Next ==
    \/ \E c, s \in Ports : Connect(c, s)
    \/ \E l \in links :
          \/ Advance(l, "docking", "docked")
          \/ Advance(l, "docked", "undocking")
          \/ Break(l)

Spec == Init /\ [][Next]_links
============================================================================
