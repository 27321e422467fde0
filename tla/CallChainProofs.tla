-------------------------- MODULE CallChainProofs ---------------------------
(* A trace of call chains, for any finite set of symbols, any databases that  *)
(* may be published under it, and any limits.                                 *)
EXTENDS CallChains, TLAPS, FiniteSetTheorems

\* The positions that wait to be expanded.
In(q) == {q[k] : k \in DOMAIN q}
Waiting == In(queue)

Expanding == step \in {"page", "lookup", "links"}
Bridging == step \in {"lookup", "links"}

\* Beside the types: there is room below a node that is being expanded, and
\* what is published is finite.
TypeInv ==
  /\ ChainTypeOK
  /\ IsFiniteSet(index.calls)
  /\ Expanding => current.depth < MaxDepth
  /\ Bridging => bridging.depth < MaxDepth

\* Nothing is known before the start and nothing waits at the end; the limit
\* on nodes is kept and what is cut is said to be cut.
LimitInv ==
  /\ step = "idle" => visited = {} /\ bridged = {} /\ hops = {}
  /\ step = "done" => queue = << >>
  /\ Cardinality(visited) <= MaxNodes
  /\ frontier # {} => truncated

\* The node of position p is the root, or a hop no deeper than p leads to it.
Reached(p) ==
  /\ p.node \in visited
  /\ p.node = root \/ \E h \in hops : h.far = p.node /\ h.depth <= p.depth

\* Every position that is waiting or in work is reached.
PathInv ==
  /\ TraceIsConnected
  /\ \A p \in Waiting : Reached(p)
  /\ Expanding => Reached(current)
  /\ Bridging => Reached(bridging)

\* The calls of a visited node are all known, or the node is cut, waits, or
\* is being expanded and what is not on the page any more is known.
CallsKnown(n) == \A e \in CallsOf(n) : Adjacent(e) \in visited

CallInv ==
  stable =>
    \A n \in visited :
      \/ n \in frontier
      \/ \E p \in Waiting : p.node = n
      \/ CallsKnown(n)
      \/ /\ Expanding /\ n = current.node
         /\ \A e \in CallsOf(n) \ page : Adjacent(e) \in visited

\* The same for the service links of a node that was looked up.
LinkInv ==
  stable =>
    \A n \in bridged :
      \/ n \in frontier \cup unresolved \cup unowned
      \/ LinksOf(n) \subseteq visited
      \/ n = bridging.node /\ step = "lookup"
      \/ n = bridging.node /\ step = "links" /\ LinksOf(n) \ links \subseteq visited

ChainInv == TypeInv /\ LimitInv /\ PathInv /\ CallInv /\ LinkInv
-----------------------------------------------------------------------------
(* Queues and pages.                                                       *)

LEMMA Dequeued ==
  ASSUME NEW S, NEW q \in Seq(S), q # << >>
  PROVE  /\ Head(q) \in S /\ Tail(q) \in Seq(S)
         /\ In(q) = {Head(q)} \cup In(Tail(q))
<1>1. Len(q) \in Nat \ {0} /\ DOMAIN q = 1..Len(q) /\ Head(q) = q[1]
  OBVIOUS
<1>2. Tail(q) \in Seq(S) /\ DOMAIN Tail(q) = 1..(Len(q) - 1)
  BY <1>1
<1>3. \A k \in 1..(Len(q) - 1) : Tail(q)[k] = q[k + 1]
  BY <1>1
<1>4. In(q) \subseteq {Head(q)} \cup In(Tail(q))
  <2>1. SUFFICES ASSUME NEW k \in 1..Len(q), k # 1
                 PROVE  q[k] \in In(Tail(q))
    BY <1>1 DEF In
  <2>2. k - 1 \in 1..(Len(q) - 1) /\ Tail(q)[k - 1] = q[k]
    BY <1>1, <1>3, <2>1
  <2> QED
    BY <1>2, <2>2 DEF In
<1>5. {Head(q)} \cup In(Tail(q)) \subseteq In(q)
  BY <1>1, <1>2, <1>3 DEF In
<1> QED
  BY <1>1, <1>2, <1>4, <1>5

LEMMA Enqueued ==
  ASSUME NEW S, NEW q \in Seq(S), NEW x \in S
  PROVE  Append(q, x) \in Seq(S) /\ In(Append(q, x)) = In(q) \cup {x}
<1>1. /\ Len(q) \in Nat /\ DOMAIN q = 1..Len(q)
      /\ Append(q, x) \in Seq(S) /\ DOMAIN Append(q, x) = 1..(Len(q) + 1)
      /\ \A k \in 1..Len(q) : Append(q, x)[k] = q[k]
      /\ Append(q, x)[Len(q) + 1] = x
  OBVIOUS
<1> QED
  BY <1>1 DEF In

\* A page lists calls of the node; it lists all unless there are more.
LEMMA PageOfCalls ==
  ASSUME TypeInv, NEW n \in Nodes, NEW p \in CallEdges(n, MaxFanout)
  PROVE  /\ p \subseteq CallsOf(n) /\ p \subseteq CallEdge
         /\ ~ More(n, MaxFanout) => p = CallsOf(n)
<1>1. CallsOf(n) \subseteq index.calls /\ index.calls \subseteq CallEdge
  BY DEF CallsOf, TypeInv, ChainTypeOK, Index
<1>2. Cardinality(CallsOf(n)) \in Nat /\ MaxFanout \in Nat
  BY <1>1, FS_Subset, FS_CardinalityType, ChainAssumption DEF TypeInv
<1> QED
  BY <1>1, <1>2 DEF CallEdges, More

LEMMA LinkPagesAreLinks ==
  ASSUME TypeInv, NEW n \in Nodes, NEW p \in LinkPages(n)
  PROVE  /\ p \subseteq Nodes
         /\ Cardinality(LinksOf(n)) <= MaxFanout => p = LinksOf(n)
         /\ Cardinality(LinksOf(n)) > MaxFanout \/ Cardinality(LinksOf(n)) <= MaxFanout
<1>1. LinksOf(n) \subseteq Nodes
  BY DEF LinksOf, TypeInv, ChainTypeOK, Index
<1>2. Cardinality(LinksOf(n)) \in Nat /\ MaxFanout \in Nat
  BY <1>1, FS_Subset, FS_CardinalityType, ChainAssumption
<1> QED
  BY <1>1, <1>2 DEF LinkPages

-----------------------------------------------------------------------------
(* Types.                                                                  *)

LEMMA TypeStart == ASSUME ChainInit PROVE TypeInv
<1>1. index \in Index
  BY DEF ChainInit, Index
<1>2. [node |-> root, depth |-> 0] \in Position /\ << >> \in Seq(Position)
  BY ChainAssumption DEF ChainInit, Position
<1>3. swaps \in 0..MaxSwaps
  BY ChainAssumption DEF ChainInit
<1>4. IsFiniteSet(index.calls)
  BY FS_EmptySet DEF ChainInit
<1>5. queue \in Seq(Position) /\ current \in Position /\ bridging \in Position
  BY <1>2 DEF ChainInit
<1> QED
  BY <1>1, <1>3, <1>4, <1>5
     DEF ChainInit, TypeInv, ChainTypeOK, Expanding, Bridging, Steps, Directions

\* Both databases stay finite and well formed.
LEMMA TypeOfIndex ==
  ASSUME TypeInv, Publish \/ Swap
  PROVE  index' \in Index /\ IsFiniteSet(index'.calls)
<1>1. \A i \in Indexes : i \in Index /\ IsFiniteSet(i.calls)
  BY ChainAssumption
<1> QED
  BY <1>1 DEF TypeInv, ChainTypeOK, Publish, Swap, Index

LEMMA TypeStep == ASSUME TypeInv, [ChainNext]_chainVars PROVE TypeInv'
<1> USE DEF TypeInv, ChainTypeOK, Expanding, Bridging, Steps, Directions
<1>0. MaxDepth \in Nat /\ MaxDepth > 0
  BY ChainAssumption
<1>1. CASE Publish
  BY <1>1, TypeOfIndex DEF Publish, searchVars
<1>2. ASSUME NEW d \in Directions, StartAt(d), both' \in BOOLEAN PROVE TypeInv'
  <2>1. [node |-> root, depth |-> 0] \in Position
    BY <1>0 DEF Position
  <2>2. queue' \in Seq(Position)
    BY <1>2, <2>1 DEF StartAt
  <2> QED
    BY <1>2, <2>1, <2>2 DEF StartAt
<1>3. CASE Trace
  BY <1>2, <1>3 DEF Trace
<1>4. CASE OtherSide
  BY <1>2, <1>4 DEF OtherSide
<1>5. CASE NoTarget \/ GraphFails \/ LinksDone \/ SideDone
  BY <1>5 DEF NoTarget, GraphFails, LinksDone, SideDone, searchVars
<1>6. CASE AtTheLimit
  <2>1. Head(queue) \in Position /\ Tail(queue) \in Seq(Position)
    BY <1>6, Dequeued DEF AtTheLimit
  <2> QED
    BY <1>6, <2>1 DEF AtTheLimit, Cut, NoCut, Position
<1>7. CASE ExpandNode
  <2>1. Head(queue) \in Position /\ Tail(queue) \in Seq(Position)
    BY <1>7, Dequeued DEF ExpandNode
  <2>2. page' \subseteq CallEdge
    BY <1>7, <2>1, PageOfCalls DEF ExpandNode, Position
  <2> QED
    BY <1>7, <2>1, <2>2 DEF ExpandNode, Cut, NoCut, Position
<1>8. CASE EdgeDropped
  BY <1>8 DEF EdgeDropped, Cut, Position
<1>9. CASE EdgeTaken
  <2>1. PICK e \in page :
           /\ page' = page \ {e}
           /\ hops' = hops \cup {[near |-> current.node, far |-> Adjacent(e),
                                  depth |-> current.depth + 1, bridge |-> FALSE]}
           /\ visited' = visited \cup {Adjacent(e)}
           /\ queue' = IF Adjacent(e) \in visited THEN queue
                       ELSE Append(queue, [node |-> Adjacent(e), depth |-> current.depth + 1])
           /\ IF BridgesDown(Adjacent(e))
              THEN /\ bridging' = [node |-> Adjacent(e), depth |-> current.depth + 1]
                   /\ bridged' = bridged \cup {Adjacent(e)}
                   /\ step' = "lookup"
              ELSE UNCHANGED <<bridging, bridged, step>>
    BY <1>9 DEF EdgeTaken
  <2>2. Adjacent(e) \in Nodes /\ current.node \in Nodes
    BY DEF Adjacent, CallEdge, Position
  <2>3. current.depth + 1 \in 1..MaxDepth
    BY <1>0, <1>9 DEF EdgeTaken, Position
  <2>4. [node |-> Adjacent(e), depth |-> current.depth + 1] \in Position
    BY <2>2, <2>3 DEF Position
  <2>5. [near |-> current.node, far |-> Adjacent(e),
         depth |-> current.depth + 1, bridge |-> FALSE] \in Hop
    BY <2>2, <2>3 DEF Hop
  <2>6. queue' \in Seq(Position)
    BY <2>1, <2>4, Enqueued
  <2>7. hops' \subseteq Hop /\ visited' \subseteq Nodes /\ page' \subseteq CallEdge
    BY <2>1, <2>2, <2>5
  <2>8. CASE BridgesDown(Adjacent(e))
    BY <1>9, <2>1, <2>2, <2>4, <2>6, <2>7, <2>8 DEF EdgeTaken, BridgesDown
  <2>9. CASE ~ BridgesDown(Adjacent(e))
    BY <1>9, <2>1, <2>6, <2>7, <2>9 DEF EdgeTaken
  <2> QED
    BY <2>8, <2>9
<1>10. CASE PageDone
  BY <1>10 DEF PageDone, Position
<1>11. CASE Lookup
  <2>1. bridging.node \in Nodes
    BY DEF Position
  <2>2. links' \subseteq Nodes
    BY <1>11, <2>1, LinkPagesAreLinks DEF Lookup
  <2> QED
    BY <1>11, <2>1, <2>2 DEF Lookup, Cut, NoCut
<1>12. CASE LookupFails \/ OwnerFails \/ LinkUnresolved
  BY <1>12 DEF LookupFails, OwnerFails, LinkUnresolved, Position
<1>13. CASE LinkRefused
  BY <1>13 DEF LinkRefused, Cut, NoCut, Position
<1>14. CASE LinkTaken
  <2>1. PICK t \in links :
           /\ links' = links \ {t}
           /\ visited' = visited \cup {t}
           /\ hops' = hops \cup {[near |-> bridging.node, far |-> t,
                                  depth |-> bridging.depth + 1, bridge |-> TRUE]}
           /\ queue' = Append(queue, [node |-> t, depth |-> bridging.depth + 1])
    BY <1>14 DEF LinkTaken
  <2>2. bridging.depth + 1 \in 1..MaxDepth
    BY <1>0, <1>14 DEF LinkTaken, Position
  <2>3. [node |-> t, depth |-> bridging.depth + 1] \in Position
    BY <2>2 DEF Position
  <2>4. [near |-> bridging.node, far |-> t,
         depth |-> bridging.depth + 1, bridge |-> TRUE] \in Hop
    BY <2>2 DEF Hop, Position
  <2>5. queue' \in Seq(Position)
    BY <2>1, <2>3, Enqueued
  <2> QED
    BY <1>14, <2>1, <2>4, <2>5 DEF LinkTaken
<1>15. CASE Swap
  <2>1. swaps' \in 0..MaxSwaps
    BY <1>15, ChainAssumption DEF Swap
  <2> QED
    BY <1>15, <2>1, TypeOfIndex DEF Swap, searchVars
<1>16. CASE UNCHANGED chainVars
  BY <1>16 DEF chainVars, searchVars
<1> QED
  BY <1>1, <1>3, <1>4, <1>5, <1>6, <1>7, <1>8, <1>9, <1>10, <1>11, <1>12, <1>13,
     <1>14, <1>15, <1>16 DEF ChainNext
-----------------------------------------------------------------------------
(* Limits.                                                                 *)

LEMMA LimitStart == ASSUME ChainInit PROVE LimitInv
  BY FS_EmptySet, ChainAssumption DEF ChainInit, LimitInv

LEMMA LimitStep ==
  ASSUME TypeInv, LimitInv, [ChainNext]_chainVars
  PROVE  LimitInv'
<1>1. MaxNodes \in Nat /\ MaxNodes > 0
  BY ChainAssumption
<1>2. IsFiniteSet(visited) /\ Cardinality(visited) \in Nat
  BY FS_Subset, FS_CardinalityType, ChainAssumption DEF TypeInv, ChainTypeOK
<1>3. ASSUME NEW n, Cardinality(visited) < MaxNodes
      PROVE  Cardinality(visited \cup {n}) <= MaxNodes
  BY <1>1, <1>2, <1>3, FS_AddElement
<1>4. ASSUME NEW d \in Directions, StartAt(d) PROVE LimitInv'
  <2>1. visited' = {root} /\ frontier' = {} /\ step' = "next"
    BY <1>4 DEF StartAt
  <2>2. Cardinality(visited') = 1
    BY <2>1, FS_Singleton
  <2> QED
    BY <1>1, <2>1, <2>2 DEF LimitInv
<1>5. CASE Trace \/ OtherSide
  BY <1>4, <1>5 DEF Trace, OtherSide, Directions
<1>6. CASE Publish \/ NoTarget \/ GraphFails \/ LinksDone \/ SideDone \/ Swap
  BY <1>6 DEF Publish, NoTarget, GraphFails, LinksDone, SideDone, Swap, searchVars, LimitInv
<1>7. CASE AtTheLimit \/ ExpandNode \/ EdgeDropped \/ Lookup \/ LinkRefused
  BY <1>7 DEF AtTheLimit, ExpandNode, EdgeDropped, Lookup, LinkRefused, Cut, NoCut, LimitInv
<1>8. CASE PageDone \/ LookupFails \/ OwnerFails \/ LinkUnresolved
  BY <1>8 DEF PageDone, LookupFails, OwnerFails, LinkUnresolved, LimitInv
<1>9. CASE EdgeTaken
  <2>1. PICK e \in page :
           /\ Adjacent(e) \in visited \/ Cardinality(visited) < MaxNodes
           /\ visited' = visited \cup {Adjacent(e)}
           /\ step' \in {step, "lookup"}
    BY <1>9 DEF EdgeTaken
  <2>2. CASE Adjacent(e) \in visited
    <3>1. visited' = visited
      BY <2>1, <2>2
    <3> QED
      BY <1>9, <2>1, <3>1 DEF EdgeTaken, LimitInv
  <2>3. CASE Cardinality(visited) < MaxNodes
    BY <1>3, <1>9, <2>1, <2>3 DEF EdgeTaken, LimitInv
  <2> QED
    BY <2>1, <2>2, <2>3
<1>10. CASE LinkTaken
  BY <1>3, <1>10 DEF LinkTaken, LimitInv
<1>11. CASE UNCHANGED chainVars
  BY <1>11 DEF chainVars, searchVars, LimitInv
<1> QED
  BY <1>5, <1>6, <1>7, <1>8, <1>9, <1>10, <1>11 DEF ChainNext

-----------------------------------------------------------------------------
(* Paths.                                                                  *)

LEMMA PathStart == ASSUME ChainInit PROVE PathInv
  BY DEF ChainInit, PathInv, TraceIsConnected, Waiting, In, Expanding, Bridging

\* Steps that find nothing new keep every path; what waits or is in work
\* waited or was in work before.
LEMMA PathFrame ==
  ASSUME PathInv, UNCHANGED <<root, visited, hops>>,
         Waiting' \subseteq Waiting,
         Expanding' => current' \in Waiting \/ (Expanding /\ current' = current),
         Bridging' => \/ Bridging /\ bridging' = bridging
                      \/ Expanding /\ bridging' = current
  PROVE  PathInv'
<1>1. TraceIsConnected'
  BY DEF PathInv, TraceIsConnected
<1>2. \A p : Reached(p) => Reached(p)'
  BY DEF Reached
<1>3. \A p \in Waiting' : Reached(p)'
  BY <1>2 DEF PathInv
<1>4. Expanding' => Reached(current)'
  BY DEF PathInv, Reached
<1>5. Bridging' => Reached(bridging)'
  BY DEF PathInv, Reached
<1> QED
  BY <1>1, <1>3, <1>4, <1>5 DEF PathInv

\* A hop from a reached position makes the node at its other end reached.
LEMMA PathGrows ==
  ASSUME PathInv, NEW p, Reached(p), NEW hop,
         p.depth \in Int, \A h \in hops : h.depth \in Int,
         hop.near = p.node, hop.depth = p.depth + 1,
         UNCHANGED root, visited' = visited \cup {hop.far}, hops' = hops \cup {hop}
  PROVE  /\ TraceIsConnected'
         /\ hop.far \in visited' /\ \E h \in hops' : h.far = hop.far /\ h.depth <= hop.depth
         /\ \A q : Reached(q) => Reached(q)'
<1>1. hop \in hops' /\ hops \subseteq hops' /\ visited \subseteq visited' /\ hop.far \in visited'
  OBVIOUS
<1>2. \A q : Reached(q) => Reached(q)'
  BY <1>1 DEF Reached
<1>3. \E h \in hops' : h.far = hop.far /\ h.depth <= hop.depth
  <2>1. hop.depth <= hop.depth
    OBVIOUS
  <2> QED
    BY <1>1, <2>1
<1>4. \A m \in visited' \ {root'} : \E h \in hops' : h.far = m
  BY <1>1 DEF PathInv, TraceIsConnected
<1>5. ASSUME NEW h \in hops'
      PROVE  /\ {h.near, h.far} \subseteq visited'
             /\ h.near = root' \/ \E g \in hops' : g.far = h.near /\ g.depth < h.depth
  <2>1. CASE h \in hops
    BY <1>1, <2>1 DEF PathInv, TraceIsConnected
  <2>2. CASE h = hop
    <3>1. p.node \in visited
      BY DEF Reached
    <3>2. p.node = root \/ \E g \in hops : g.far = p.node /\ g.depth < hop.depth
      BY DEF Reached
    <3> QED
      BY <1>1, <2>2, <3>1, <3>2
  <2> QED
    BY <2>1, <2>2
<1>6. TraceIsConnected'
  BY <1>4, <1>5 DEF TraceIsConnected
<1> QED
  BY <1>1, <1>2, <1>3, <1>6
LEMMA PathStep ==
  ASSUME TypeInv, LimitInv, PathInv, [ChainNext]_chainVars
  PROVE  PathInv'
<1>1. /\ queue \in Seq(Position) /\ current \in Position /\ bridging \in Position
      /\ \A h \in hops : h.depth \in Int
  BY DEF TypeInv, ChainTypeOK, Hop
<1>2. ASSUME NEW d \in Directions, StartAt(d) PROVE PathInv'
  <2>1. /\ visited' = {root} /\ root' = root /\ hops' = {} /\ step' = "next"
        /\ Waiting' = {[node |-> root, depth |-> 0]}
    BY <1>2 DEF StartAt, Waiting, In
  <2> QED
    BY <2>1 DEF PathInv, TraceIsConnected, Expanding, Bridging, Reached
<1>3. CASE Trace \/ OtherSide
  BY <1>2, <1>3 DEF Trace, OtherSide, Directions
<1>4. CASE Publish \/ NoTarget \/ GraphFails \/ LinksDone \/ SideDone \/ Swap
  <2>1. /\ UNCHANGED <<root, visited, hops, queue, current, bridging>>
        /\ Expanding' => Expanding
        /\ Bridging' => Bridging
    BY <1>4 DEF Publish, NoTarget, GraphFails, LinksDone, SideDone, Swap, searchVars,
                Expanding, Bridging
  <2>2. Waiting' = Waiting
    BY <2>1 DEF Waiting
  <2> QED
    BY <2>1, <2>2, PathFrame
<1>5. CASE AtTheLimit \/ ExpandNode
  <2>1. /\ queue # << >> /\ queue' = Tail(queue)
        /\ UNCHANGED <<root, visited, hops, bridging>>
        /\ ~ Bridging'
        /\ Expanding' => current' = Head(queue)
    BY <1>5 DEF AtTheLimit, ExpandNode, Expanding, Bridging
  <2>2. Waiting' \subseteq Waiting /\ Head(queue) \in Waiting
    BY <1>1, <2>1, Dequeued DEF Waiting
  <2> QED
    BY <2>1, <2>2, PathFrame
<1>6. CASE EdgeDropped \/ PageDone \/ Lookup \/ LookupFails \/ OwnerFails \/ LinkUnresolved
           \/ LinkRefused
  <2>1. /\ UNCHANGED <<root, visited, hops, queue, current>>
        /\ Expanding
        /\ Bridging' => (Bridging /\ bridging' = bridging) \/ bridging' = current
    BY <1>6 DEF EdgeDropped, PageDone, Lookup, LookupFails, OwnerFails, LinkUnresolved,
                LinkRefused, Expanding, Bridging
  <2>2. Waiting' = Waiting
    BY <2>1 DEF Waiting
  <2> QED
    BY <2>1, <2>2, PathFrame
<1>7. CASE EdgeTaken
  <2>1. PICK e \in page :
           /\ hops' = hops \cup {[near |-> current.node, far |-> Adjacent(e),
                                  depth |-> current.depth + 1, bridge |-> FALSE]}
           /\ visited' = visited \cup {Adjacent(e)}
           /\ queue' = IF Adjacent(e) \in visited THEN queue
                       ELSE Append(queue, [node |-> Adjacent(e), depth |-> current.depth + 1])
           /\ IF BridgesDown(Adjacent(e))
              THEN bridging' = [node |-> Adjacent(e), depth |-> current.depth + 1]
              ELSE UNCHANGED <<bridging, step>>
    BY <1>7 DEF EdgeTaken
  <2>2. PICK p : p = current
    OBVIOUS
  <2>3. PICK hop : hop = [near |-> current.node, far |-> Adjacent(e),
                          depth |-> current.depth + 1, bridge |-> FALSE]
    OBVIOUS
  <2>4. /\ hop.near = p.node /\ hop.far = Adjacent(e) /\ hop.depth = p.depth + 1
        /\ visited' = visited \cup {hop.far} /\ hops' = hops \cup {hop}
    BY <2>1, <2>2, <2>3
  <2>5. /\ step = "page" /\ UNCHANGED <<root, current>>
        /\ e \in CallEdge /\ direction \in Directions
    BY <1>7 DEF EdgeTaken, TypeInv, ChainTypeOK
  <2>6. p.depth \in Int /\ [node |-> hop.far, depth |-> hop.depth] \in Position
    BY <1>1, <2>2, <2>4, <2>5, ChainAssumption
       DEF Position, Adjacent, CallEdge, TypeInv, Expanding
  <2>7. Reached(p)
    BY <2>2, <2>5 DEF PathInv, Expanding
  <2>8. /\ TraceIsConnected'
        /\ hop.far \in visited' /\ \E h \in hops' : h.far = hop.far /\ h.depth <= hop.depth
        /\ \A q : Reached(q) => Reached(q)'
    BY <1>1, <2>4, <2>5, <2>6, <2>7, PathGrows
  <2>9. Waiting' \subseteq Waiting \cup {[node |-> hop.far, depth |-> hop.depth]}
    BY <1>1, <2>1, <2>2, <2>4, <2>6, Enqueued DEF Waiting
  <2>10. Reached(current)'
    BY <2>2, <2>5, <2>7, <2>8 DEF Reached
  <2>11. \A q \in Waiting' : Reached(q)'
    BY <2>8, <2>9 DEF PathInv, Reached
  <2>12. Bridging' => Reached(bridging)'
    BY <2>1, <2>2, <2>4, <2>5, <2>8 DEF Reached, Bridging
  <2> QED
    BY <2>8, <2>10, <2>11, <2>12 DEF PathInv
<1>8. CASE LinkTaken
  <2>1. PICK t \in links :
           /\ visited' = visited \cup {t}
           /\ hops' = hops \cup {[near |-> bridging.node, far |-> t,
                                  depth |-> bridging.depth + 1, bridge |-> TRUE]}
           /\ queue' = Append(queue, [node |-> t, depth |-> bridging.depth + 1])
    BY <1>8 DEF LinkTaken
  <2>2. PICK p : p = bridging
    OBVIOUS
  <2>3. PICK hop : hop = [near |-> bridging.node, far |-> t,
                          depth |-> bridging.depth + 1, bridge |-> TRUE]
    OBVIOUS
  <2>4. /\ hop.near = p.node /\ hop.far = t /\ hop.depth = p.depth + 1
        /\ visited' = visited \cup {hop.far} /\ hops' = hops \cup {hop}
    BY <2>1, <2>2, <2>3
  <2>5. step = "links" /\ UNCHANGED <<root, current, bridging, step>>
    BY <1>8 DEF LinkTaken
  <2>6. p.depth \in Int /\ [node |-> hop.far, depth |-> hop.depth] \in Position
    BY <1>1, <2>2, <2>4, <2>5, ChainAssumption DEF Position, TypeInv, ChainTypeOK, Bridging
  <2>7. Reached(p)
    BY <2>2, <2>5 DEF PathInv, Bridging
  <2>8. /\ TraceIsConnected'
        /\ hop.far \in visited' /\ \E h \in hops' : h.far = hop.far /\ h.depth <= hop.depth
        /\ \A q : Reached(q) => Reached(q)'
    BY <1>1, <2>4, <2>5, <2>6, <2>7, PathGrows
  <2>9. Waiting' \subseteq Waiting \cup {[node |-> hop.far, depth |-> hop.depth]}
    BY <1>1, <2>1, <2>2, <2>4, <2>6, Enqueued DEF Waiting
  <2>10. \A q \in Waiting' : Reached(q)'
    BY <2>8, <2>9 DEF PathInv, Reached
  <2>11. Reached(bridging)'
    BY <2>2, <2>5, <2>7, <2>8 DEF Reached
  <2>12. Reached(current)'
    BY <2>5, <2>8 DEF PathInv, Expanding, Reached
  <2> QED
    BY <2>8, <2>10, <2>11, <2>12 DEF PathInv
<1>9. CASE UNCHANGED chainVars
  BY <1>9 DEF chainVars, searchVars, PathInv, TraceIsConnected, Waiting, In, Expanding,
              Bridging, Reached
<1> QED
  BY <1>3, <1>4, <1>5, <1>6, <1>7, <1>8, <1>9 DEF ChainNext

-----------------------------------------------------------------------------
(* Calls.                                                                  *)

LEMMA CallStart == ASSUME ChainInit PROVE CallInv
  BY DEF ChainInit, CallInv

LEMMA CallStep ==
  ASSUME TypeInv, LimitInv, CallInv, [ChainNext]_chainVars
  PROVE  CallInv'
<1>1. queue \in Seq(Position)
  BY DEF TypeInv, ChainTypeOK
<1>2. ASSUME NEW d \in Directions, StartAt(d) PROVE CallInv'
  <2>1. visited' = {root} /\ Waiting' = {[node |-> root, depth |-> 0]}
    BY <1>2 DEF StartAt, Waiting, In
  <2> QED
    BY <2>1 DEF CallInv
<1>3. CASE Trace \/ OtherSide
  BY <1>2, <1>3 DEF Trace, OtherSide, Directions
<1>4. CASE Publish
  BY <1>4 DEF Publish, searchVars, LimitInv, CallInv
<1>5. CASE Swap
  BY <1>5 DEF Swap, CallInv
<1>6. ASSUME UNCHANGED <<index, direction, stable, visited, queue, current, page>>,
             frontier \subseteq frontier', Expanding => Expanding'
      PROVE  CallInv'
  <2>1. Waiting' = Waiting /\ \A n : CallsOf(n)' = CallsOf(n)
    BY <1>6 DEF Waiting, CallsOf
  <2> QED
    BY <1>6, <2>1 DEF CallInv, CallsKnown, Adjacent
<1>7. CASE NoTarget \/ GraphFails \/ LinksDone \/ SideDone \/ Lookup \/ LookupFails
           \/ OwnerFails \/ LinkUnresolved \/ LinkRefused \/ UNCHANGED chainVars
  BY <1>6, <1>7 DEF NoTarget, GraphFails, LinksDone, SideDone, Lookup, LookupFails, OwnerFails,
                    LinkUnresolved, LinkRefused, Cut, NoCut, searchVars, chainVars, Expanding
<1>8. CASE PageDone
  <2>1. /\ UNCHANGED <<index, direction, stable, visited, queue, current, page, frontier>>
        /\ page = {}
    BY <1>8 DEF PageDone
  <2>2. Waiting' = Waiting /\ \A n : CallsOf(n)' = CallsOf(n)
    BY <2>1 DEF Waiting, CallsOf
  <2> QED
    BY <2>1, <2>2 DEF CallInv, CallsKnown, Adjacent
<1>9. CASE AtTheLimit
  <2>1. /\ UNCHANGED <<index, direction, stable, visited>> /\ step = "next"
        /\ queue # << >> /\ queue' = Tail(queue)
        /\ frontier \subseteq frontier'
        /\ CallsOf(Head(queue).node) # {} => Head(queue).node \in frontier'
    BY <1>9 DEF AtTheLimit, Cut, NoCut
  <2>2. Waiting = {Head(queue)} \cup Waiting' /\ \A n : CallsOf(n)' = CallsOf(n)
    BY <1>1, <2>1, Dequeued DEF Waiting, CallsOf
  <2> QED
    BY <2>1, <2>2 DEF CallInv, CallsKnown, Adjacent, Expanding
<1>10. CASE ExpandNode
  <2>1. /\ UNCHANGED <<index, direction, stable, visited>> /\ step = "next" /\ step' = "page"
        /\ queue # << >> /\ queue' = Tail(queue)
        /\ current' = Head(queue) /\ page' \in CallEdges(Head(queue).node, MaxFanout)
        /\ frontier \subseteq frontier'
        /\ More(Head(queue).node, MaxFanout) => Head(queue).node \in frontier'
    BY <1>10 DEF ExpandNode, Cut, NoCut
  <2>2. Head(queue).node \in Nodes
    <3>1. Head(queue) \in Position
      BY <1>1, <2>1, Dequeued
    <3> QED
      BY <3>1 DEF Position
  <2>3. Head(queue).node \in frontier' \/ page' = CallsOf(Head(queue).node)
    BY <2>1, <2>2, PageOfCalls
  <2>4. Waiting = {Head(queue)} \cup Waiting' /\ \A n : CallsOf(n)' = CallsOf(n)
    BY <1>1, <2>1, Dequeued DEF Waiting, CallsOf
  <2> QED
    BY <2>1, <2>3, <2>4 DEF CallInv, CallsKnown, Adjacent, Expanding
<1>11. CASE EdgeDropped
  <2>1. /\ UNCHANGED <<index, direction, stable, visited, queue, current, step>>
        /\ frontier' = frontier \cup {current.node}
    BY <1>11 DEF EdgeDropped, Cut
  <2>2. Waiting' = Waiting /\ \A n : CallsOf(n)' = CallsOf(n)
    BY <2>1 DEF Waiting, CallsOf
  <2> QED
    BY <2>1, <2>2 DEF CallInv, CallsKnown, Adjacent
<1>12. CASE EdgeTaken
  <2>1. PICK e \in page :
           /\ page' = page \ {e}
           /\ visited' = visited \cup {Adjacent(e)}
           /\ queue' = IF Adjacent(e) \in visited THEN queue
                       ELSE Append(queue, [node |-> Adjacent(e), depth |-> current.depth + 1])
           /\ step' \in {step, "lookup"}
    BY <1>12 DEF EdgeTaken
  <2>2. /\ UNCHANGED <<index, direction, stable, current, frontier>>
        /\ step = "page" /\ Expanding /\ Expanding'
    BY <1>12, <2>1 DEF EdgeTaken, Expanding
  <2>3. current \in Position /\ current.depth < MaxDepth /\ Adjacent(e) \in Nodes
    BY <2>2 DEF TypeInv, ChainTypeOK, Adjacent, CallEdge
  <2>4. [node |-> Adjacent(e), depth |-> current.depth + 1] \in Position
    BY <2>3, ChainAssumption DEF Position
  <2>5. /\ Waiting \subseteq Waiting'
        /\ Adjacent(e) \notin visited => \E p \in Waiting' : p.node = Adjacent(e)
    BY <1>1, <2>1, <2>4, Enqueued DEF Waiting
  <2>6. \A n : CallsOf(n)' = CallsOf(n)
    BY <2>2 DEF CallsOf
  <2>7. \A f : Adjacent(f)' = Adjacent(f)
    BY <2>2 DEF Adjacent
  <2>8. ASSUME stable, NEW n \in visited
        PROVE  \/ n \in frontier
               \/ \E p \in Waiting' : p.node = n
               \/ \A f \in CallsOf(n) : Adjacent(f) \in visited'
               \/ n = current.node /\ \A f \in CallsOf(n) \ page' : Adjacent(f) \in visited'
    BY <2>1, <2>5, <2>8 DEF CallInv, CallsKnown
  <2> QED
    BY <2>1, <2>2, <2>5, <2>6, <2>7, <2>8 DEF CallInv, CallsKnown
<1>13. CASE LinkTaken
  <2>1. PICK t \in links :
           /\ t \notin visited
           /\ visited' = visited \cup {t}
           /\ queue' = Append(queue, [node |-> t, depth |-> bridging.depth + 1])
    BY <1>13 DEF LinkTaken
  <2>2. /\ UNCHANGED <<index, direction, stable, step, current, page, frontier>>
        /\ step = "links"
    BY <1>13 DEF LinkTaken
  <2>3. bridging \in Position /\ bridging.depth < MaxDepth /\ t \in Nodes
    BY <2>2 DEF TypeInv, ChainTypeOK, Bridging
  <2>4. [node |-> t, depth |-> bridging.depth + 1] \in Position
    BY <2>3, ChainAssumption DEF Position
  <2>5. Waiting \subseteq Waiting' /\ \E p \in Waiting' : p.node = t
    BY <1>1, <2>1, <2>4, Enqueued DEF Waiting
  <2>6. \A n : CallsOf(n)' = CallsOf(n)
    BY <2>2 DEF CallsOf
  <2> QED
    BY <2>1, <2>2, <2>5, <2>6 DEF CallInv, CallsKnown, Adjacent, Expanding
<1> QED
  BY <1>3, <1>4, <1>5, <1>7, <1>8, <1>9, <1>10, <1>11, <1>12, <1>13 DEF ChainNext

-----------------------------------------------------------------------------
(* Links.                                                                  *)

LEMMA LinkStart == ASSUME ChainInit PROVE LinkInv
  BY DEF ChainInit, LinkInv

\* A step that looks no node up, follows no link and forgets nothing.
LEMMA LinkFrame ==
  ASSUME LinkInv, ~ Bridging, UNCHANGED <<index, direction, stable, bridged>>,
         visited \subseteq visited', frontier \subseteq frontier',
         unresolved \subseteq unresolved', unowned \subseteq unowned'
  PROVE  LinkInv'
<1>1. \A n : LinksOf(n)' = LinksOf(n)
  BY DEF LinksOf
<1> QED
  BY <1>1 DEF LinkInv, Bridging

\* A step that looks up one more node.
LEMMA LinkBegun ==
  ASSUME LinkInv, ~ Bridging, UNCHANGED <<index, direction, stable>>,
         bridged' = bridged \cup {bridging'.node}, step' = "lookup",
         visited \subseteq visited', frontier \subseteq frontier',
         unresolved \subseteq unresolved', unowned \subseteq unowned'
  PROVE  LinkInv'
<1>1. \A n : LinksOf(n)' = LinksOf(n)
  BY DEF LinksOf
<1> QED
  BY <1>1 DEF LinkInv, Bridging

LEMMA LinkStep ==
  ASSUME TypeInv, LimitInv, LinkInv, [ChainNext]_chainVars
  PROVE  LinkInv'
<1>1. ASSUME NEW d \in Directions, StartAt(d) PROVE LinkInv'
  BY <1>1 DEF StartAt, LinkInv
<1>2. CASE Trace \/ OtherSide
  BY <1>1, <1>2 DEF Trace, OtherSide, Directions
<1>3. CASE Publish
  BY <1>3 DEF Publish, searchVars, LimitInv, LinkInv
<1>4. CASE Swap
  BY <1>4 DEF Swap, LinkInv
<1>5. CASE NoTarget \/ GraphFails \/ SideDone \/ AtTheLimit \/ ExpandNode \/ EdgeDropped
  BY <1>5, LinkFrame DEF NoTarget, GraphFails, SideDone, AtTheLimit, ExpandNode, EdgeDropped,
                         Cut, NoCut, searchVars, Bridging
<1>6. CASE EdgeTaken
  <2>1. PICK e \in page :
           /\ visited' = visited \cup {Adjacent(e)}
           /\ IF BridgesDown(Adjacent(e))
              THEN /\ bridging' = [node |-> Adjacent(e), depth |-> current.depth + 1]
                   /\ bridged' = bridged \cup {Adjacent(e)}
                   /\ step' = "lookup"
              ELSE UNCHANGED <<bridging, bridged, step>>
    BY <1>6 DEF EdgeTaken
  <2>2. ~ Bridging /\ UNCHANGED <<index, direction, stable, frontier, unresolved, unowned>>
    BY <1>6 DEF EdgeTaken, Bridging
  <2> QED
    BY <2>1, <2>2, LinkFrame, LinkBegun
<1>7. CASE PageDone
  <2>1. /\ ~ Bridging /\ UNCHANGED <<index, direction, stable, visited, frontier, unresolved, unowned>>
        /\ \/ bridged' = bridged
           \/ bridged' = bridged \cup {bridging'.node} /\ step' = "lookup"
    BY <1>7 DEF PageDone, Bridging
  <2> QED
    BY <2>1, LinkFrame, LinkBegun
<1>8. CASE Lookup
  <2>1. /\ UNCHANGED <<index, direction, stable, visited, bridged, bridging, unresolved, unowned>>
        /\ step = "lookup" /\ step' = "links"
        /\ links' \in LinkPages(bridging.node)
        /\ frontier \subseteq frontier'
        /\ Cardinality(LinksOf(bridging.node)) > MaxFanout => bridging.node \in frontier'
    BY <1>8 DEF Lookup, Cut, NoCut
  <2>2. bridging.node \in Nodes
    BY DEF TypeInv, ChainTypeOK, Position
  <2>3. bridging.node \in frontier' \/ links' = LinksOf(bridging.node)
    BY <2>1, <2>2, LinkPagesAreLinks
  <2>4. \A n : LinksOf(n)' = LinksOf(n)
    BY <2>1 DEF LinksOf
  <2> QED
    BY <2>1, <2>3, <2>4 DEF LinkInv
<1>9. CASE LookupFails \/ OwnerFails \/ LinkUnresolved
  <2>1. /\ UNCHANGED <<index, direction, stable, visited, bridged, bridging, frontier>>
        /\ unresolved \subseteq unresolved' /\ unowned \subseteq unowned'
        /\ bridging.node \in unresolved' \cup unowned'
    BY <1>9 DEF LookupFails, OwnerFails, LinkUnresolved
  <2>2. \A n : LinksOf(n)' = LinksOf(n)
    BY <2>1 DEF LinksOf
  <2> QED
    BY <2>1, <2>2 DEF LinkInv
<1>10. CASE LinkRefused
  <2>1. PICK t \in links :
           /\ links' = links \ {t}
           /\ t \in visited \/ frontier' = frontier \cup {bridging.node}
           /\ frontier \subseteq frontier'
    BY <1>10 DEF LinkRefused, Cut, NoCut
  <2>2. /\ UNCHANGED <<index, direction, stable, step, visited, bridged, bridging, unresolved, unowned>>
        /\ step = "links"
    BY <1>10 DEF LinkRefused
  <2>3. \A n : LinksOf(n)' = LinksOf(n)
    BY <2>2 DEF LinksOf
  <2> QED
    BY <2>1, <2>2, <2>3 DEF LinkInv
<1>11. CASE LinkTaken
  <2>1. PICK t \in links : links' = links \ {t} /\ visited' = visited \cup {t}
    BY <1>11 DEF LinkTaken
  <2>2. /\ UNCHANGED <<index, direction, stable, step, bridged, bridging, frontier,
                       unresolved, unowned>>
        /\ step = "links"
    BY <1>11 DEF LinkTaken
  <2>3. \A n : LinksOf(n)' = LinksOf(n)
    BY <2>2 DEF LinksOf
  <2> QED
    BY <2>1, <2>2, <2>3 DEF LinkInv
<1>12. CASE LinksDone
  <2>1. /\ UNCHANGED <<index, direction, stable, visited, bridged, bridging, frontier,
                       unresolved, unowned>>
        /\ step = "links" /\ links = {}
    BY <1>12 DEF LinksDone, searchVars
  <2>2. \A n : LinksOf(n)' = LinksOf(n)
    BY <2>1 DEF LinksOf
  <2> QED
    BY <2>1, <2>2 DEF LinkInv
<1>13. CASE UNCHANGED chainVars
  BY <1>13 DEF chainVars, searchVars, LinkInv, LinksOf
<1> QED
  BY <1>2, <1>3, <1>4, <1>5, <1>6, <1>7, <1>8, <1>9, <1>10, <1>11, <1>12, <1>13 DEF ChainNext

-----------------------------------------------------------------------------
LEMMA ChainInvariant == ChainSpec => []ChainInv
<1>1. ChainInit => ChainInv
  BY TypeStart, LimitStart, PathStart, CallStart, LinkStart DEF ChainInv
<1>2. ChainInv /\ [ChainNext]_chainVars => ChainInv'
  BY TypeStep, LimitStep, PathStep, CallStep, LinkStep DEF ChainInv
<1> QED
  BY <1>1, <1>2, PTL DEF ChainSpec

\* Every variable of a trace keeps its type: Service.Trace.
THEOREM TypeCorrect == ChainSpec => []ChainTypeOK
<1>1. ChainInv => ChainTypeOK
  BY DEF ChainInv, TypeInv
<1> QED
  BY <1>1, ChainInvariant, PTL

\* A finished side of a trace that nothing was replaced under shows all calls
\* and service links of what it visited, or names the node it cut; at all times
\* its hops are one connected picture: traceDirection and its service bridges.
THEOREM TraceSound == ChainSpec => []TraceIsSound
<1>1. ASSUME ChainInv PROVE TraceIsSound
  <2>1. TraceIsConnected
    BY <1>1 DEF ChainInv, PathInv
  <2>2. ASSUME step = "done", stable PROVE TraceIsHonest
    <3>1. Waiting = {} /\ ~ Expanding
      BY <1>1, <2>2 DEF ChainInv, LimitInv, Waiting, In, Expanding
    <3>2. \A n \in visited : n \in frontier \/ CallsKnown(n)
      BY <1>1, <2>2, <3>1 DEF ChainInv, CallInv
    <3>3. \A n \in bridged : n \in frontier \cup unresolved \cup unowned \/ LinksOf(n) \subseteq visited
      BY <1>1, <2>2 DEF ChainInv, LinkInv
    <3> QED
      BY <1>1, <3>2, <3>3 DEF ChainInv, LimitInv, CallsKnown, TraceIsHonest
  <2> QED
    BY <2>1, <2>2 DEF TraceIsSound, TraceIsHonest
<1> QED
  BY <1>1, ChainInvariant, PTL
=============================================================================
