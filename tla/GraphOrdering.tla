---------------------------- MODULE GraphOrdering ----------------------------
(***************************************************************************)
(* generateGraphOrdering, the depth-first visit with which Pipeline::start  *)
(* refuses a graph with a cycle, one call and one return of visit() at a    *)
(* time, on each graph that editing and loading make.                       *)
(***************************************************************************)
EXTENDS PipelineGraph, Sequences

VARIABLES
    phase,      \* where start() is: "edit" when it is not running
    endNodes,   \* the end nodes it has still to visit
    stack,      \* the calls of visit() under way: the element and its connections
                \* that visitAllIncomingConnections has still to follow
    visited,    \* the set visited
    ordering,   \* m_ordering
    ok          \* what generateGraphOrdering returned

walkVars == <<phase, endNodes, stack, visited, ordering, ok>>

IsProducer(e) == DOMAIN inType[TypeOf(e)] = {}
Incoming(e) == {c \in Connections : connections[c].dst = e}
SourcesOf(e) == {connections[c].src : c \in Incoming(e)}
Ordered == {ordering[i] : i \in DOMAIN ordering}

(* isEndNode.  A producer is an end node when none of its output pins is      *)
(* connected.  A DataConsumer is a DataProducer and overrides isEndNode with  *)
(* one that always returns true.                                              *)
Unconnected(e) == \A c \in Connections : connections[c].src # e
IsEndNodeProducer(e) == Unconnected(e)             \* mutant: not overridden
IsEndNode(e) == IsProducer(e) => Unconnected(e)

OrderingInit ==
    /\ Init
    /\ phase = "edit"
    /\ endNodes = {}
    /\ stack = <<>>
    /\ visited = {}
    /\ ordering = <<>>
    /\ ok = FALSE

(* start() clears m_ordering and collects the end nodes; without any it takes *)
(* the graph for a cycle.                                                     *)
EndNodes == {e \in Elements : IsEndNode(e)}
GenerateGraphOrdering ==
    /\ phase = "edit"
    /\ Editing
    /\ Elements # {}
    /\ phase' = IF EndNodes = {} THEN "done" ELSE "visit"
    /\ endNodes' = EndNodes
    /\ ordering' = <<>>
    /\ ok' = FALSE
    /\ UNCHANGED <<stack, visited>>

(* A call of visit() that has followed no connection yet. *)
NewCall(e) == [node |-> e, left |-> Incoming(e)]

(* visit() of e, called from the calls s.  On a cycle it returns false, and   *)
(* so do all its callers.                                                     *)
Visit(e, s) ==
    \/ /\ e \in Ordered
       /\ stack' = s
       /\ UNCHANGED <<phase, visited, ordering, ok>>
    \/ /\ e \notin Ordered
       /\ e \in visited
       /\ ordering' = Append(ordering, e)
       /\ phase' = "done"
       /\ ok' = FALSE
       /\ stack' = s
       /\ UNCHANGED visited
    \/ /\ e \notin Ordered
       /\ e \notin visited
       /\ IsProducer(e)
       /\ ordering' = Append(ordering, e)
       /\ stack' = s
       /\ UNCHANGED <<phase, visited, ok>>
    \/ /\ e \notin Ordered
       /\ e \notin visited
       /\ ~IsProducer(e)
       /\ visited' = visited \cup {e}
       /\ stack' = Append(s, NewCall(e))
       /\ UNCHANGED <<phase, ordering, ok>>

(* The end nodes are kept in a QSet: they are visited in any order.           *)
VisitEndNode(e) ==
    /\ phase = "visit"
    /\ stack = <<>>
    /\ e \in endNodes
    /\ endNodes' = endNodes \ {e}
    /\ Visit(e, <<>>)

Depth == Len(stack)
Calls == SubSeq(stack, 1, Depth - 1)     \* the calls below the last one

(* visitAllIncomingConnections follows the connection of the next input pin. *)
Followed(s, c) == [s EXCEPT ![Len(s)].left = @ \ {c}]
NextPin(c, S) == c \in S /\ \A d \in S : connections[c].in <= connections[d].in
VisitIncoming(c) ==
    /\ phase = "visit"
    /\ stack # <<>>
    /\ NextPin(c, stack[Depth].left)
    /\ Visit(connections[c].src, Followed(stack, c))
    /\ UNCHANGED endNodes

(* The last call has followed all of them. *)
Return ==
    /\ phase = "visit"
    /\ stack # <<>>
    /\ stack[Depth].left = {}
    /\ visited' = visited \ {stack[Depth].node}
    /\ ordering' = Append(ordering, stack[Depth].node)
    /\ stack' = Calls
    /\ UNCHANGED <<phase, endNodes, ok>>

AllVisited ==
    /\ phase = "visit"
    /\ stack = <<>>
    /\ endNodes = {}
    /\ phase' = "done"
    /\ ok' = TRUE
    /\ UNCHANGED <<endNodes, stack, visited, ordering>>

(* start() goes on or gives up; later the graph is edited again.  Nothing     *)
(* reads m_ordering until the next start() has cleared it.                    *)
Leave ==
    /\ phase = "done"
    /\ phase' = "edit"
    /\ endNodes' = {}
    /\ stack' = <<>>
    /\ visited' = {}
    /\ ordering' = <<>>
    /\ ok' = FALSE

Walk ==
    /\ \/ GenerateGraphOrdering
       \/ \E e \in Elements : VisitEndNode(e)
       \/ \E c \in Connections : VisitIncoming(c)
       \/ Return
       \/ AllVisited
       \/ Leave
    /\ UNCHANGED pipelineVars

(* The graph is edited only when start() is not running: both are slots of    *)
(* the main thread.                                                           *)
OrderingNext == Walk \/ (phase = "edit" /\ Next /\ UNCHANGED walkVars)

orderingVars == <<pipelineVars, walkVars>>
OrderingSpec == OrderingInit /\ [][OrderingNext]_orderingVars

-----------------------------------------------------------------------------
(* Reference: a cycle is a set of elements of which each takes data from      *)
(* another one in the set.                                                    *)
HasCycle == \E S \in SUBSET Elements : S # {} /\ \A e \in S : SourcesOf(e) \cap S # {}

(* start() refuses a pipeline exactly when its graph has a cycle, whatever    *)
(* the order of the end nodes, and otherwise the ordering has every element   *)
(* once, after all elements it takes data from.                               *)
OrderingSound ==
    phase = "done" =>
        /\ ok <=> ~HasCycle
        /\ ok => /\ Ordered = Elements
                 /\ \A i, j \in DOMAIN ordering : ordering[i] = ordering[j] => i = j
                 /\ \A i \in DOMAIN ordering :
                      SourcesOf(ordering[i]) \subseteq {ordering[j] : j \in 1 .. i - 1}
=============================================================================
