--------------------------- MODULE ComponentSearch ---------------------------
(***************************************************************************)
(* components() of submod/resolved_ir/src/ptx_call_graph.hpp: strongly     *)
(* connected components by two depth-first passes without recursion.  Its  *)
(* three loops run one step at a time: linking the edges, the forward pass *)
(* with its stack of vertices and cursors, and the reverse pass.           *)
(***************************************************************************)
EXTENDS Integers, Sequences, Reachability

CONSTANT Inputs  \* the arguments of a call

EdgesOver(count) ==
  [from : 0 .. count - 1, to : 0 .. count - 1, candidate : BOOLEAN]

ASSUME InputsAssumption ==
  \A input \in Inputs : /\ DOMAIN input = {"count", "edges", "direct_only"}
                        /\ input.count \in Nat
                        /\ input.edges \in Seq(EdgesOver(input.count))
                        /\ input.direct_only \in BOOLEAN

VARIABLES
  count, edges, direct_only,  \* the arguments
  pc,                         \* the loop that runs
  linked,                     \* how many edges it has linked
  forward, reverse,           \* successors and predecessors, one per edge
  seen, order, root, stack,   \* of the forward pass
  result, identity,           \* the component of each vertex, and the current one
  position,                   \* how much of order the reverse pass has left
  work, node, next            \* its stack, the vertex it took from it, and a cursor

arguments == <<count, edges, direct_only>>
links == <<linked, forward, reverse>>
forwardPass == <<seen, order, root, stack>>
reversePass == <<result, identity, position, work, node, next>>
vars == <<count, edges, direct_only, pc, linked, forward, reverse, seen, order, root,
          stack, result, identity, position, work, node, next>>

Vertices == 0 .. count - 1

missing == -1

Init ==
  /\ \E input \in Inputs : /\ count = input.count
                           /\ edges = input.edges
                           /\ direct_only = input.direct_only
  /\ pc = "Link" /\ linked = 0
  /\ forward = [v \in Vertices |-> <<>>]
  /\ reverse = [v \in Vertices |-> <<>>]
  /\ seen = {} /\ order = <<>> /\ root = 0 /\ stack = <<>>
  /\ result = [v \in Vertices |-> missing]
  /\ identity = 0 /\ position = 0 /\ work = <<>> /\ node = missing /\ next = 0

-----------------------------------------------------------------------------
Used(edge) == ~direct_only \/ ~edge.candidate

Link ==
  /\ pc = "Link" /\ linked < Len(edges)
  /\ linked' = linked + 1
  /\ LET edge == edges[linked + 1]
     IN IF Used(edge)
        THEN /\ forward' = [forward EXCEPT ![edge.from] = Append(@, edge.to)]
             /\ reverse' = [reverse EXCEPT ![edge.to] = Append(@, edge.from)]
        ELSE UNCHANGED <<forward, reverse>>
  /\ UNCHANGED <<arguments, pc, forwardPass, reversePass>>

Linked ==
  /\ pc = "Link" /\ linked = Len(edges)
  /\ pc' = "Root"
  /\ UNCHANGED <<arguments, links, forwardPass, reversePass>>

-----------------------------------------------------------------------------
(* The forward pass *)

RootSeen ==
  /\ pc = "Root" /\ root < count /\ root \in seen
  /\ root' = root + 1
  /\ UNCHANGED <<arguments, pc, links, seen, order, stack, reversePass>>

RootNew ==
  /\ pc = "Root" /\ root < count /\ root \notin seen
  /\ stack' = <<[node |-> root, next |-> 0]>>
  /\ seen' = seen \cup {root}
  /\ pc' = "Visit"
  /\ UNCHANGED <<arguments, links, order, root, reversePass>>

LastPositionPast == Len(order) + 1
LastPosition == Len(order)

RootsDone ==
  /\ pc = "Root" /\ root = count
  /\ pc' = "Assign"
  /\ position' = LastPosition
  /\ UNCHANGED <<arguments, links, forwardPass, result, identity, work, node, next>>

Top == stack[Len(stack)]
Successors == forward[Top.node]

AdvancedNot(frames) == frames
Advanced(frames) == [frames EXCEPT ![Len(frames)].next = @ + 1]

(* The top frame's next edge: its vertex is pushed when it is new. *)
Visit ==
  /\ pc = "Visit" /\ stack # <<>> /\ Top.next < Len(Successors)
  /\ LET child == Successors[Top.next + 1]
         moved == Advanced(stack)
     IN IF child \in seen
        THEN stack' = moved /\ UNCHANGED seen
        ELSE /\ stack' = Append(moved, [node |-> child, next |-> 0])
             /\ seen' = seen \cup {child}
  /\ UNCHANGED <<arguments, pc, links, order, root, reversePass>>

OrderedAtFront(vertex) == <<vertex>> \o order
Ordered(vertex) == Append(order, vertex)

Finish ==
  /\ pc = "Visit" /\ stack # <<>> /\ Top.next = Len(Successors)
  /\ order' = Ordered(Top.node)
  /\ stack' = SubSeq(stack, 1, Len(stack) - 1)
  /\ UNCHANGED <<arguments, pc, links, seen, root, reversePass>>

VisitDone ==
  /\ pc = "Visit" /\ stack = <<>>
  /\ pc' = "Root"
  /\ root' = root + 1
  /\ UNCHANGED <<arguments, links, seen, order, stack, reversePass>>

-----------------------------------------------------------------------------
(* The reverse pass, over order from its end *)

PredecessorsForward(vertex) == forward[vertex]
Predecessors(vertex) == reverse[vertex]

AssignKnown ==
  /\ pc = "Assign" /\ position > 0 /\ result[order[position]] # missing
  /\ position' = position - 1
  /\ UNCHANGED <<arguments, pc, links, forwardPass, result, identity, work, node, next>>

AssignNew ==
  /\ pc = "Assign" /\ position > 0 /\ result[order[position]] = missing
  /\ work' = <<order[position]>>
  /\ result' = [result EXCEPT ![order[position]] = identity]
  /\ pc' = "Pop"
  /\ UNCHANGED <<arguments, links, forwardPass, identity, position, node, next>>

AssignDone ==
  /\ pc = "Assign" /\ position = 0
  /\ pc' = "Done"
  /\ UNCHANGED <<arguments, links, forwardPass, reversePass>>

Pop ==
  /\ pc = "Pop" /\ work # <<>>
  /\ node' = work[Len(work)]
  /\ next' = 0
  /\ work' = SubSeq(work, 1, Len(work) - 1)
  /\ pc' = "Spread"
  /\ UNCHANGED <<arguments, links, forwardPass, result, identity, position>>

PopDone ==
  /\ pc = "Pop" /\ work = <<>>
  /\ identity' = identity + 1
  /\ position' = position - 1
  /\ pc' = "Assign"
  /\ UNCHANGED <<arguments, links, forwardPass, result, work, node, next>>

Spread ==
  /\ pc = "Spread" /\ next < Len(Predecessors(node))
  /\ next' = next + 1
  /\ LET child == Predecessors(node)[next + 1]
     IN IF result[child] = missing
        THEN /\ result' = [result EXCEPT ![child] = identity]
             /\ work' = Append(work, child)
        ELSE UNCHANGED <<result, work>>
  /\ UNCHANGED <<arguments, pc, links, forwardPass, identity, position, node>>

SpreadDone ==
  /\ pc = "Spread" /\ next = Len(Predecessors(node))
  /\ pc' = "Pop"
  /\ UNCHANGED <<arguments, links, forwardPass, reversePass>>

(* The call has returned. *)
Returned == pc = "Done" /\ UNCHANGED vars

Next ==
  \/ Link \/ Linked
  \/ RootSeen \/ RootNew \/ RootsDone \/ Visit \/ Finish \/ VisitDone
  \/ AssignKnown \/ AssignNew \/ AssignDone \/ Pop \/ PopDone \/ Spread \/ SpreadDone
  \/ Returned

Spec == Init /\ [][Next]_vars

(* The function runs to its end: one thread, and no step waits for another. *)
FairSpec == Spec /\ WF_vars(Next)

-----------------------------------------------------------------------------
ArgumentTypes ==
  count \in Nat /\ edges \in Seq(EdgesOver(count)) /\ direct_only \in BOOLEAN

LinkTypes ==
  /\ linked \in 0 .. Len(edges)
  /\ forward \in [Vertices -> Seq(Vertices)]
  /\ reverse \in [Vertices -> Seq(Vertices)]

ForwardTypes ==
  /\ seen \subseteq Vertices /\ order \in Seq(Vertices)
  /\ root \in 0 .. count
  /\ stack \in Seq([node : Vertices, next : Nat])

ReverseTypes ==
  /\ result \in [Vertices -> Nat \cup {missing}] /\ identity \in Nat
  /\ position \in Nat /\ work \in Seq(Vertices)
  /\ node \in Vertices \cup {missing} /\ next \in Nat

TypeOK ==
  /\ ArgumentTypes /\ LinkTypes /\ ForwardTypes /\ ReverseTypes
  /\ pc \in {"Link", "Root", "Visit", "Assign", "Pop", "Spread", "Done"}
  /\ position <= Len(order)

(* The edges that the search is asked to follow, from its arguments alone *)
Edges == {<<edges[k].from, edges[k].to>> : k \in {i \in DOMAIN edges : Used(edges[i])}}

Prior(i) == {order[j] : j \in 1 .. i}

(* What the reverse pass relies on: a vertex that finished before another   *)
(* and reaches it without passing through a later one is reached by it in   *)
(* turn.  Holds at each point of the forward pass.                          *)
FinishOrder ==
  \A i \in 1 .. Len(order) : \A x \in Prior(i) :
    Reaches(Prior(i), Edges, x, order[i]) => Reaches(Vertices, Edges, order[i], x)

(* components() gives two functions the same identity exactly when each     *)
(* calls the other, directly or not: lines 310 to 312 decide from that what *)
(* is recursive.                                                            *)
ComponentsAreMutual ==
  pc = "Done" =>
    \A u, v \in Vertices : result[u] = result[v] <=> Mutual(Vertices, Edges, u, v)

(* The search ends on every graph, self calls and parallel calls included. *)
Terminates == <>(pc = "Done")
=============================================================================
