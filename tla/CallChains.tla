----------------------------- MODULE CallChains -----------------------------
(***************************************************************************)
(* The call-chain service: from one symbol, the callers and the callees     *)
(* that the code graph records, joined across service boundaries through    *)
(* the dependencies of the structural index, under limits on depth, nodes   *)
(* and fan-out.  Both databases may be replaced while a trace reads them.   *)
(*                                                                          *)
(* The order of a page of call edges is that of their lines; edges of one   *)
(* line come in any order.                                                  *)
(***************************************************************************)
EXTENDS Integers, Sequences, FiniteSets

CONSTANTS
    Nodes,          \* the symbols of the code graph
    Indexes,        \* what a full rebuild may publish
    Lines,          \* the source lines that calls stand at
    MaxDepth,       \* Request.MaxDepth, MaxNodes and MaxFanout after
    MaxNodes,       \*   withDefaults
    MaxFanout,
    MaxSwaps        \* bound: how often the databases are replaced

CallEdge == [source : Nodes, target : Nodes, line : Lines]

Index ==
    [calls : SUBSET CallEdge,
     down  : [Nodes -> SUBSET Nodes],
     up    : [Nodes -> SUBSET Nodes]]

ASSUME ChainAssumption ==
    /\ Indexes \subseteq Index
    /\ Lines \subseteq Nat
    /\ IsFiniteSet(Nodes)
    /\ \A i \in Indexes : IsFiniteSet(i.calls)
    /\ MaxDepth \in 1..8
    /\ MaxNodes \in 1..200
    /\ MaxFanout \in 1..100
    /\ MaxSwaps \in Nat

Directions == {"callers", "callees"}

VARIABLES
    index,          \* the content of both databases
    swaps,          \* how often it was replaced
    stable,         \* it was not replaced since the direction was begun
    step,           \* where the trace stands
    root,           \* the start point
    direction,      \* the side being traversed
    both,           \* the other side is still to come
    queue,          \* nodes to expand, with their depths
    current,        \* the node being expanded
    page,           \* its call edges not yet looked at
    bridging,       \* the node whose service links are followed
    links,          \* its links not yet looked at
    visited,
    bridged,        \* nodes whose links were looked up
    hops,           \* DirectionResult.Hops
    frontier,       \* DirectionResult.NextFrontier
    truncated,      \* DirectionResult.Truncated
    unresolved,     \* nodes named by DirectionResult.Unresolved
    unowned         \* nodes whose owner could not be read

searchVars == <<queue, current, page, bridging, links, visited, bridged, hops,
                frontier, truncated, unresolved, unowned>>
chainVars == <<index, swaps, stable, step, root, direction, both, searchVars>>

Position == [node : Nodes, depth : 0..MaxDepth]

Hop == [near : Nodes, far : Nodes, depth : 1..MaxDepth, bridge : BOOLEAN]

Steps == {"idle", "next", "page", "lookup", "links", "done", "failed"}

ChainTypeOK ==
    /\ index \in Index
    /\ swaps \in 0..MaxSwaps
    /\ stable \in BOOLEAN
    /\ step \in Steps
    /\ root \in Nodes
    /\ direction \in Directions
    /\ both \in BOOLEAN
    /\ queue \in Seq(Position)
    /\ current \in Position
    /\ page \subseteq CallEdge
    /\ bridging \in Position
    /\ links \subseteq Nodes
    /\ visited \subseteq Nodes /\ bridged \subseteq Nodes
    /\ hops \subseteq Hop
    /\ frontier \subseteq Nodes /\ unresolved \subseteq Nodes /\ unowned \subseteq Nodes
    /\ truncated \in BOOLEAN

---------------------------------------------------------------------------
(* What the databases answer *)

\* The edge's end that is not the node being expanded.
Adjacent(e) == IF direction = "callers" THEN e.source ELSE e.target

CallsOf(n) ==
    {e \in index.calls : n = IF direction = "callers" THEN e.target ELSE e.source}

\* The first edges by line, at most limit of them.
CallEdges(n, limit) ==
    IF Cardinality(CallsOf(n)) <= limit
    THEN {CallsOf(n)}
    ELSE {p \in SUBSET CallsOf(n) :
            /\ Cardinality(p) = limit
            /\ \A e \in p, f \in CallsOf(n) \ p : e.line <= f.line}

\* More edges than one page holds.
More(n, limit) == Cardinality(CallsOf(n)) > limit

LinksOf(n) == IF direction = "callers" THEN index.up[n] ELSE index.down[n]

\* The rows of evidence that one lookup returns.
LinkPages(n) ==
    IF Cardinality(LinksOf(n)) <= MaxFanout
    THEN {LinksOf(n)}
    ELSE {p \in SUBSET LinksOf(n) : Cardinality(p) = MaxFanout}

---------------------------------------------------------------------------
ChainInit ==
    /\ index = [calls |-> {}, down |-> [n \in Nodes |-> {}], up |-> [n \in Nodes |-> {}]]
    /\ swaps = 0 /\ stable = TRUE
    /\ step = "idle"
    /\ root \in Nodes
    /\ direction = "callers" /\ both = FALSE
    /\ queue = << >>
    /\ current = [node |-> root, depth |-> 0]
    /\ bridging = current
    /\ page = {} /\ links = {}
    /\ visited = {} /\ bridged = {} /\ hops = {}
    /\ frontier = {} /\ truncated = FALSE
    /\ unresolved = {} /\ unowned = {}

\* The databases are built.
Publish ==
    /\ step = "idle"
    /\ index' \in Indexes
    /\ UNCHANGED <<swaps, stable, step, root, direction, both, searchVars>>

\* The search starts over at the root.
StartAt(d) ==
    /\ direction' = d
    /\ stable' = TRUE
    /\ step' = "next"
    /\ queue' = <<[node |-> root, depth |-> 0]>>
    /\ current' = [node |-> root, depth |-> 0]
    /\ bridging' = [node |-> root, depth |-> 0]
    /\ page' = {} /\ links' = {}
    /\ visited' = {root} /\ bridged' = {} /\ hops' = {}
    /\ frontier' = {} /\ truncated' = FALSE
    /\ unresolved' = {} /\ unowned' = {}
    /\ UNCHANGED <<index, swaps, root>>

\* Trace found its start point; for "both" the callers come first.
Trace ==
    /\ step = "idle"
    /\ \E d \in Directions : StartAt(d)
    /\ both' \in BOOLEAN
    /\ both' => direction' = "callers"

OtherSide ==
    /\ step = "done" /\ both
    /\ StartAt("callees")
    /\ both' = FALSE

\* The trace has no start point: nothing matches, or several symbols do.
NoTarget ==
    /\ step = "idle"
    /\ step' = "failed"
    /\ UNCHANGED <<index, swaps, stable, root, direction, both, searchVars>>

\* A query of the code graph fails: the whole trace does.
GraphFails ==
    /\ step = "next" /\ queue # << >>
    /\ step' = "failed"
    /\ UNCHANGED <<index, swaps, stable, root, direction, both, searchVars>>

\* Some of the graph behind node n is left out.
Cut(n) == frontier' = frontier \cup {n} /\ truncated' = TRUE

NoCut == UNCHANGED <<frontier, truncated>>

\* A node at the depth limit is not expanded; one edge says that it could be.
AtTheLimit ==
    /\ step = "next" /\ queue # << >>
    /\ Head(queue).depth >= MaxDepth
    /\ queue' = Tail(queue)
    /\ IF CallsOf(Head(queue).node) # {} THEN Cut(Head(queue).node) ELSE NoCut
    /\ UNCHANGED <<index, swaps, stable, step, root, direction, both, current, page,
                   bridging, links, visited, bridged, hops, unresolved, unowned>>

ExpandNode ==
    /\ step = "next" /\ queue # << >>
    /\ Head(queue).depth < MaxDepth
    /\ queue' = Tail(queue)
    /\ current' = Head(queue)
    /\ page' \in CallEdges(Head(queue).node, MaxFanout)
    /\ IF More(Head(queue).node, MaxFanout) THEN Cut(Head(queue).node) ELSE NoCut
    /\ step' = "page"
    /\ UNCHANGED <<index, swaps, stable, root, direction, both, bridging, links,
                   visited, bridged, hops, unresolved, unowned>>

\* The next edge of the page, in the order of lines.
First(e) == e \in page /\ \A f \in page : e.line <= f.line

\* An edge to a new node when no more nodes may be taken.
EdgeDropped ==
    /\ step = "page"
    /\ \E e \in page :
        /\ First(e)
        /\ Adjacent(e) \notin visited /\ Cardinality(visited) >= MaxNodes
        /\ page' = page \ {e}
        /\ Cut(current.node)
    /\ UNCHANGED <<index, swaps, stable, step, root, direction, both, queue, current,
                   bridging, links, visited, bridged, hops, unresolved, unowned>>

\* Downstream, the adjacent node's file may declare dependencies.
BridgesDown(n) == direction = "callees" /\ n \notin bridged /\ current.depth + 1 < MaxDepth

EdgeTaken ==
    /\ step = "page"
    /\ \E e \in page :
        /\ First(e)
        /\ Adjacent(e) \in visited \/ Cardinality(visited) < MaxNodes
        /\ page' = page \ {e}
        /\ hops' = hops \cup {[near |-> current.node, far |-> Adjacent(e),
                               depth |-> current.depth + 1, bridge |-> FALSE]}
        /\ visited' = visited \cup {Adjacent(e)}
        /\ queue' = IF Adjacent(e) \in visited THEN queue
                    ELSE Append(queue, [node |-> Adjacent(e), depth |-> current.depth + 1])
        /\ IF BridgesDown(Adjacent(e))
           THEN /\ bridging' = [node |-> Adjacent(e), depth |-> current.depth + 1]
                /\ bridged' = bridged \cup {Adjacent(e)}
                /\ step' = "lookup"
           ELSE UNCHANGED <<bridging, bridged, step>>
    /\ UNCHANGED <<index, swaps, stable, root, direction, both, current, links,
                   frontier, truncated, unresolved, unowned>>

\* Every edge was looked at: upstream, the callers in other services follow.
PageDone ==
    /\ step = "page" /\ page = {}
    /\ IF direction = "callers" /\ current.node \notin bridged
       THEN /\ bridging' = current
            /\ bridged' = bridged \cup {current.node}
            /\ step' = "lookup"
       ELSE step' = "next" /\ UNCHANGED <<bridging, bridged>>
    /\ UNCHANGED <<index, swaps, stable, root, direction, both, queue, current, page,
                   links, visited, hops, frontier, truncated, unresolved, unowned>>

Lookup ==
    /\ step = "lookup"
    /\ links' \in LinkPages(bridging.node)
    /\ IF Cardinality(LinksOf(bridging.node)) > MaxFanout THEN Cut(bridging.node) ELSE NoCut
    /\ step' = "links"
    /\ UNCHANGED <<index, swaps, stable, root, direction, both, queue, current, page,
                   bridging, visited, bridged, hops, unresolved, unowned>>

\* The endpoint or the dependencies cannot be read: the result says so.
LookupFails ==
    /\ step = "lookup"
    /\ unresolved' = unresolved \cup {bridging.node}
    /\ step' = "page"
    /\ UNCHANGED <<index, swaps, stable, root, direction, both, queue, current, page,
                   bridging, links, visited, bridged, hops, frontier, truncated, unowned>>

\* Upstream, an owner that cannot be read is taken for a file without one.
OwnerFails ==
    /\ step = "lookup" /\ direction = "callers"
    /\ unowned' = unowned \cup {bridging.node}
    /\ step' = "page"
    /\ UNCHANGED <<index, swaps, stable, root, direction, both, queue, current, page,
                   bridging, links, visited, bridged, hops, frontier, truncated, unresolved>>

\* The route of a link, its service or its other end is not found, or a query
\* for it fails.
LinkUnresolved ==
    /\ step = "links"
    /\ \E t \in links : links' = links \ {t}
    /\ unresolved' = unresolved \cup {bridging.node}
    /\ UNCHANGED <<index, swaps, stable, step, root, direction, both, queue, current, page,
                   bridging, visited, bridged, hops, frontier, truncated, unowned>>

\* reserveNode refuses the other end: it is known, or there is no room.
LinkRefused ==
    /\ step = "links"
    /\ \E t \in links \cap LinksOf(bridging.node) :
        /\ t \in visited \/ Cardinality(visited) >= MaxNodes
        /\ links' = links \ {t}
        /\ IF t \in visited THEN NoCut ELSE Cut(bridging.node)
    /\ UNCHANGED <<index, swaps, stable, step, root, direction, both, queue, current, page,
                   bridging, visited, bridged, hops, unresolved, unowned>>

\* Broken variant: the bridge is queued at the depth of the node it leaves.
LinkTakenAtSameDepth ==
    /\ step = "links"
    /\ \E t \in links \cap LinksOf(bridging.node) :
        /\ t \notin visited /\ Cardinality(visited) < MaxNodes
        /\ links' = links \ {t}
        /\ visited' = visited \cup {t}
        /\ hops' = hops \cup {[near |-> bridging.node, far |-> t,
                               depth |-> bridging.depth + 1, bridge |-> TRUE]}
        /\ queue' = Append(queue, [node |-> t, depth |-> bridging.depth])
    /\ UNCHANGED <<index, swaps, stable, step, root, direction, both, current, page,
                   bridging, bridged, frontier, truncated, unresolved, unowned>>

\* A bridge to the other service; the node behind it is expanded later.
LinkTaken ==
    /\ step = "links"
    /\ \E t \in links \cap LinksOf(bridging.node) :
        /\ t \notin visited /\ Cardinality(visited) < MaxNodes
        /\ links' = links \ {t}
        /\ visited' = visited \cup {t}
        /\ hops' = hops \cup {[near |-> bridging.node, far |-> t,
                               depth |-> bridging.depth + 1, bridge |-> TRUE]}
        /\ queue' = Append(queue, [node |-> t, depth |-> bridging.depth + 1])
    /\ UNCHANGED <<index, swaps, stable, step, root, direction, both, current, page,
                   bridging, bridged, frontier, truncated, unresolved, unowned>>

LinksDone ==
    /\ step = "links" /\ links = {}
    /\ step' = "page"
    /\ UNCHANGED <<index, swaps, stable, root, direction, both, searchVars>>

SideDone ==
    /\ step = "next" /\ queue = << >>
    /\ step' = "done"
    /\ UNCHANGED <<index, swaps, stable, root, direction, both, searchVars>>

\* A rebuild replaces the code graph, or the structural index, under a trace.
Swap ==
    /\ step \notin {"idle", "done", "failed"}
    /\ swaps < MaxSwaps
    /\ \E i \in Indexes :
        \/ index' = [index EXCEPT !.calls = i.calls]
        \/ index' = [index EXCEPT !.down = i.down, !.up = i.up]
    /\ index' # index
    /\ swaps' = swaps + 1
    /\ stable' = FALSE
    /\ UNCHANGED <<step, root, direction, both, searchVars>>

ChainNext ==
    \/ Publish \/ Trace \/ OtherSide \/ NoTarget \/ GraphFails
    \/ AtTheLimit \/ ExpandNode \/ EdgeDropped \/ EdgeTaken \/ PageDone
    \/ Lookup \/ LookupFails \/ OwnerFails
    \/ LinkUnresolved \/ LinkRefused \/ LinkTaken \/ LinksDone
    \/ SideDone \/ Swap

\* One trace by itself.
ChainSpec == ChainInit /\ [][ChainNext]_chainVars

---------------------------------------------------------------------------
(* What a finished side says of the graph, when nothing was replaced under  *)
(* it.  Every call that leaves a visited node leads to a visited node or    *)
(* the node is in the frontier; every service link of a node that was       *)
(* looked up leads to a visited node, or the result names the node as       *)
(* unresolved or in the frontier (an owner that could not be read is the    *)
(* one loss nobody is told of).  Limits are kept.                           *)
TraceIsHonest ==
    step = "done" /\ stable =>
        /\ \A n \in visited : n \in frontier \/ \A e \in CallsOf(n) : Adjacent(e) \in visited
        /\ \A n \in bridged : \/ n \in frontier \cup unresolved \cup unowned
                              \/ LinksOf(n) \subseteq visited
        /\ frontier # {} => truncated
        /\ Cardinality(visited) <= MaxNodes

\* Every visited node is reached from the root by hops of growing depth, and
\* no hop names a node that was not visited: the hops a client is shown are
\* one connected picture, though bridges are queued out of order.
TraceIsConnected ==
    /\ \A n \in visited \ {root} : \E h \in hops : h.far = n
    /\ \A h \in hops :
        /\ {h.near, h.far} \subseteq visited
        /\ h.near = root \/ \E g \in hops : g.far = h.near /\ g.depth < h.depth

\* What a client is shown of the graph is sound: it is one connected picture,
\* and where it leaves something out it says so.
TraceIsSound == TraceIsHonest /\ TraceIsConnected
=============================================================================
