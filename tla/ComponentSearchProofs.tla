------------------------ MODULE ComponentSearchProofs ------------------------
(* components() computes the strongly connected components of every graph.  *)
EXTENDS ComponentSearch, SequenceTheorems, TLAPS

(***************************************************************************)
(* Reachability                                                            *)
(***************************************************************************)
LEMMA ReachesItself ==
  ASSUME NEW V, NEW E, NEW u
  PROVE  Reaches(V, E, u, u)
  BY DEF Reaches

LEMMA ReachesBehind ==
  ASSUME NEW V, NEW E, NEW u \in V, NEW w \in V, NEW v,
         <<u, w>> \in E, Reaches(V, E, w, v)
  PROVE  Reaches(V, E, u, v)
  <1>1. <<u, w>> \in Within(V, E)
    BY DEF Within
  <1> SUFFICES ASSUME NEW S \in SUBSET V, u \in S, Closed(S, Within(V, E)) PROVE v \in S
    BY DEF Reaches
  <1>2. w \in S
    BY <1>1 DEF Closed
  <1> QED BY <1>2 DEF Reaches

LEMMA ReachesTransitive ==
  ASSUME NEW V, NEW E, NEW u, NEW w, NEW v, Reaches(V, E, u, w), Reaches(V, E, w, v)
  PROVE  Reaches(V, E, u, v)
  BY DEF Reaches

LEMMA ReachesAhead ==
  ASSUME NEW V, NEW E, NEW u, NEW w \in V, NEW v \in V,
         Reaches(V, E, u, w), <<w, v>> \in E
  PROVE  Reaches(V, E, u, v)
  BY ReachesItself, ReachesBehind, ReachesTransitive

LEMMA ReachesInMore ==
  ASSUME NEW V, NEW W, W \subseteq V, NEW E, NEW u \in W, NEW v, Reaches(W, E, u, v)
  PROVE  Reaches(V, E, u, v)
  <1> SUFFICES ASSUME NEW S \in SUBSET V, u \in S, Closed(S, Within(V, E)) PROVE v \in S
    BY DEF Reaches
  <1>1. Closed(S \cap W, Within(W, E))
    <2> SUFFICES ASSUME NEW e \in Within(W, E), e[1] \in S \cap W PROVE e[2] \in S \cap W
      BY DEF Closed
    <2>1. e \in Within(V, E) /\ e[2] \in W
      BY DEF Within
    <2> QED BY <2>1 DEF Closed
  <1>2. S \cap W \in SUBSET W /\ u \in S \cap W
    OBVIOUS
  <1> QED BY <1>1, <1>2 DEF Reaches

(* Induction from the end of a path to its beginning *)
LEMMA ReachesFrom ==
  ASSUME NEW V, NEW E, NEW S, NEW u \in V, NEW v \in S, Reaches(V, E, u, v),
         \A x, y \in V : <<x, y>> \in E /\ y \in S => x \in S
  PROVE  u \in S
  <1> SUFFICES ASSUME u \notin S PROVE FALSE
    OBVIOUS
  <1>1. Closed(V \ S, Within(V, E))
    <2> SUFFICES ASSUME NEW e \in Within(V, E), e[1] \in V \ S PROVE e[2] \in V \ S
      BY DEF Closed
    <2>1. e \in E /\ e[2] \in V /\ e = <<e[1], e[2]>>
      BY DEF Within
    <2> QED BY <2>1
  <1>2. V \ S \in SUBSET V /\ u \in V \ S
    OBVIOUS
  <1> QED BY <1>1, <1>2 DEF Reaches

(* What holds of the stack when t has finished: a path into s that avoids the *)
(* vertices that are not finished either avoids t or goes through t, and s    *)
(* reaches t, as every vertex of the stack reaches the ones above it.         *)
LEMMA FinishedOneMore ==
  ASSUME NEW V, NEW E, NEW F \in SUBSET V, NEW s \in V, NEW t \in V,
         \A x \in F : Reaches(F \cup {s}, E, x, s) => Reaches(V, E, s, x),
         \A x \in F : Reaches(F \cup {t}, E, x, t) => Reaches(V, E, t, x),
         Reaches(V, E, s, t)
  PROVE  \A x \in F \cup {t} :
           Reaches((F \cup {t}) \cup {s}, E, x, s) => Reaches(V, E, s, x)
  <1> DEFINE W == (F \cup {t}) \cup {s}
             S == {y \in F \cup {s} : Reaches(F \cup {s}, E, y, s)}
             T == {y \in F \cup {t} : Reaches(F \cup {t}, E, y, t)}
  <1>1. s \in S /\ t \in T
    BY ReachesItself
  <1>2. \A x, y \in W : <<x, y>> \in E /\ y \in S \cup T => x \in S \cup T
    <2> SUFFICES ASSUME NEW x \in W, NEW y \in W, <<x, y>> \in E, y \in S \cup T
                 PROVE  x \in S \cup T
      OBVIOUS
    <2>1. CASE x \in F /\ y \in S
      BY <2>1, ReachesBehind
    <2>2. CASE x \in F /\ y \in T
      BY <2>2, ReachesBehind
    <2> QED BY <1>1, <2>1, <2>2
  <1> SUFFICES ASSUME NEW x \in F \cup {t}, Reaches(W, E, x, s) PROVE Reaches(V, E, s, x)
    OBVIOUS
  <1>3. x \in S \cup T
    <2> DEFINE U == S \cup T
    <2>1. \A a, b \in W : <<a, b>> \in E /\ b \in U => a \in U
      BY <1>2
    <2>2. x \in W /\ s \in U
      BY <1>1
    <2>3. x \in U
      <3> HIDE DEF U, W
      <3> QED BY <2>1, <2>2, ReachesFrom
    <2> QED BY <2>3
  <1>4. CASE x \in S
    BY <1>4, ReachesItself
  <1>5. CASE x \in T
    <2>1. Reaches(V, E, t, x)
      BY <1>5, ReachesItself
    <2> QED BY <2>1, ReachesTransitive
  <1> QED BY <1>3, <1>4, <1>5

(* What holds of a vertex when it is pushed *)
LEMMA PushedNew ==
  ASSUME NEW V, NEW E, NEW F \in SUBSET V, NEW s \in V, s \notin F,
         \A x \in F : <<x, s>> \notin E
  PROVE  \A x \in F : Reaches(F \cup {s}, E, x, s) => Reaches(V, E, s, x)
  <1> SUFFICES ASSUME NEW x \in F, Reaches(F \cup {s}, E, x, s) PROVE FALSE
    OBVIOUS
  <1> DEFINE W == F \cup {s}
             S == {s}
  <1>1. \A a, b \in W : <<a, b>> \in E /\ b \in S => a \in S
    OBVIOUS
  <1>2. x \in W /\ s \in S /\ Reaches(W, E, x, s)
    OBVIOUS
  <1>3. x \in S
    <2> HIDE DEF W, S
    <2> QED BY <1>1, <1>2, ReachesFrom
  <1> QED BY <1>3

(***************************************************************************)
(* The inductive invariant                                                 *)
(***************************************************************************)
Finished == Prior(Len(order))

Placed(i) == stack[i].node

Current == {v \in Vertices : result[v] = identity}
Earlier == {v \in Vertices : result[v] # missing /\ result[v] # identity}

Forwards == pc \in {"Link", "Root", "Visit"}

(* forward and reverse hold the edges linked so far, and no other. *)
LinksInv ==
  /\ pc # "Link" => linked = Len(edges)
  /\ \A v \in Vertices : /\ \A k \in 1 .. Len(forward[v]) : <<v, forward[v][k]>> \in Edges
                        /\ \A k \in 1 .. Len(reverse[v]) : <<reverse[v][k], v>> \in Edges
  /\ \A i \in 1 .. linked : Used(edges[i]) =>
       /\ \E k \in 1 .. Len(forward[edges[i].from]) : forward[edges[i].from][k] = edges[i].to
       /\ \E k \in 1 .. Len(reverse[edges[i].to]) : reverse[edges[i].to][k] = edges[i].from

(* What has been seen is finished or on the stack, whose vertices reach the *)
(* ones above them; every vertex that a finished one calls has been seen.   *)
StackInv ==
  /\ \A v \in Vertices : v \in seen <=> v \in Finished \/ \E i \in 1 .. Len(stack) : v = Placed(i)
  /\ \A i, j \in 1 .. Len(stack) : i <= j => Reaches(Vertices, Edges, Placed(i), Placed(j))
  /\ \A i \in 1 .. Len(stack) :
       /\ stack[i].next <= Len(forward[Placed(i)])
       /\ \A k \in 1 .. stack[i].next : forward[Placed(i)][k] \in seen
  /\ \A u \in Finished, v \in Vertices : <<u, v>> \in Edges => v \in seen

(* FinishOrder for the vertices that are still on the stack *)
StackOrder ==
  \A i \in 1 .. Len(stack) : \A x \in Finished :
    Reaches(Finished \cup {Placed(i)}, Edges, x, Placed(i)) =>
      Reaches(Vertices, Edges, Placed(i), x)

PhaseInv ==
  /\ pc = "Link" => seen = {} /\ order = <<>> /\ stack = <<>> /\ root = 0
  /\ pc # "Visit" => stack = <<>>
  /\ pc = "Root" => \A v \in Vertices : v < root => v \in seen
  /\ pc = "Visit" => root < count /\ \A v \in Vertices : v <= root => v \in seen
  /\ ~Forwards => Vertices \subseteq Finished
  /\ Forwards => identity = 0 /\ \A v \in Vertices : result[v] = missing

(* The components that are complete are closed under predecessors, and the  *)
(* current one grows from order[position] through unassigned vertices.      *)
ComponentInv ==
  /\ \A v \in Vertices : result[v] # missing => result[v] <= identity
  /\ pc \in {"Assign", "Done"} => Current = {}
  /\ pc = "Done" => position = 0
  /\ ~Forwards => \A j \in 1 .. Len(order) : position < j => result[order[j]] # missing
  /\ \A u, v \in Vertices : <<u, v>> \in Edges /\ v \in Earlier => u \in Earlier
  /\ \A u, v \in Earlier : result[u] = result[v] <=> Mutual(Vertices, Edges, u, v)

GrowthInv ==
  pc \in {"Pop", "Spread"} =>
    /\ position > 0 /\ order[position] \in Current
    /\ \A v \in Current : /\ v \in Prior(position)
                         /\ Reaches(Prior(position), Edges, v, order[position])
    /\ \A i \in 1 .. Len(work) : work[i] \in Current
    /\ pc = "Spread" => node \in Current /\ next <= Len(reverse[node])
    /\ \A u, v \in Vertices : <<u, v>> \in Edges /\ v \in Current =>
         \/ result[u] # missing
         \/ \E i \in 1 .. Len(work) : work[i] = v
         \/ pc = "Spread" /\ v = node /\ \E k \in next + 1 .. Len(reverse[v]) : reverse[v][k] = u

IInv == /\ TypeOK /\ LinksInv /\ StackInv /\ StackOrder /\ FinishOrder
        /\ PhaseInv /\ ComponentInv /\ GrowthInv

-----------------------------------------------------------------------------
LEMMA LastOf ==
  ASSUME NEW S, NEW s \in Seq(S), s # <<>>
  PROVE  Len(s) \in Nat /\ Len(s) \in 1 .. Len(s) /\ Len(s) > 0 /\ s[Len(s)] \in S
  OBVIOUS

LEMMA FrontOf ==
  ASSUME NEW S, NEW s \in Seq(S), s # <<>>
  PROVE  /\ SubSeq(s, 1, Len(s) - 1) \in Seq(S)
         /\ Len(SubSeq(s, 1, Len(s) - 1)) = Len(s) - 1
         /\ \A i \in 1 .. Len(s) - 1 : SubSeq(s, 1, Len(s) - 1)[i] = s[i]
  <1> DEFINE n == Len(s) - 1
  <1>1. n \in Nat /\ \A i \in 1 .. n : s[i] \in S
    OBVIOUS
  <1>2. n - 1 + 1 = n /\ \A i \in 1 .. n : 1 + i - 1 = i
    BY <1>1
  <1>3. /\ SubSeq(s, 1, n) \in Seq(S)
        /\ Len(SubSeq(s, 1, n)) = IF 1 <= n THEN n - 1 + 1 ELSE 0
        /\ \A i \in 1 .. n - 1 + 1 : SubSeq(s, 1, n)[i] = s[1 + i - 1]
    <2> HIDE DEF n
    <2> QED BY <1>1, SubSeqProperties
  <1>4. Len(SubSeq(s, 1, n)) = n /\ \A i \in 1 .. n : SubSeq(s, 1, n)[i] = s[i]
    <2> HIDE DEF n
    <2> QED BY <1>1, <1>2, <1>3
  <1> QED BY <1>3, <1>4

LEMMA Appended ==
  ASSUME NEW S, NEW s \in Seq(S), NEW x \in S
  PROVE  /\ Append(s, x) \in Seq(S)
         /\ Len(Append(s, x)) = Len(s) + 1
         /\ Append(s, x)[Len(s) + 1] = x
         /\ \A i \in 1 .. Len(s) : Append(s, x)[i] = s[i]
  OBVIOUS

LEMMA EdgesAreOver ==
  ASSUME ArgumentTypes, NEW i \in 1 .. Len(edges)
  PROVE  /\ edges[i].from \in Vertices /\ edges[i].to \in Vertices
         /\ Used(edges[i]) => <<edges[i].from, edges[i].to>> \in Edges
  <1>1. edges[i] \in EdgesOver(count) /\ i \in DOMAIN edges
    BY DEF ArgumentTypes
  <1>2. edges[i].from \in Vertices /\ edges[i].to \in Vertices
    BY <1>1 DEF EdgesOver, Vertices
  <1> QED BY <1>1, <1>2 DEF Edges

LEMMA ArgumentsRigid ==
  ASSUME ArgumentTypes, UNCHANGED arguments
  PROVE  /\ Vertices' = Vertices /\ Edges' = Edges
         /\ count' = count /\ edges' = edges /\ direct_only' = direct_only
         /\ \A e : Used(e)' <=> Used(e)
         /\ ArgumentTypes'
  BY DEF arguments, Vertices, Edges, Used, ArgumentTypes

LEMMA LinksRigid ==
  ASSUME ArgumentTypes, LinkTypes, UNCHANGED arguments, UNCHANGED links
  PROVE  LinkTypes' /\ linked' = linked /\ forward' = forward /\ reverse' = reverse
  BY ArgumentsRigid DEF LinkTypes, links

LEMMA ForwardRigid ==
  ASSUME ArgumentTypes, ForwardTypes, UNCHANGED arguments, UNCHANGED forwardPass
  PROVE  /\ ForwardTypes'
         /\ seen' = seen /\ order' = order /\ root' = root /\ stack' = stack
  BY ArgumentsRigid DEF ForwardTypes, forwardPass

LEMMA ReverseRigid ==
  ASSUME ArgumentTypes, ReverseTypes, UNCHANGED arguments, UNCHANGED reversePass
  PROVE  /\ ReverseTypes'
         /\ result' = result /\ identity' = identity /\ position' = position
         /\ work' = work /\ node' = node /\ next' = next
  BY ArgumentsRigid DEF ReverseTypes, reversePass, missing

(* The vertex on top of the stack, and the edge at its cursor *)
LEMMA TopFrame ==
  ASSUME LinkTypes, ForwardTypes, stack # <<>>
  PROVE  /\ Len(stack) \in Nat /\ Len(stack) \in 1 .. Len(stack) /\ Top = stack[Len(stack)]
         /\ Top.node \in Vertices /\ Top.next \in Nat
         /\ Successors \in Seq(Vertices)
         /\ \A k \in 1 .. Len(Successors) : Successors[k] \in Vertices
  <1> DEFINE F == [node : Vertices, next : Nat]
  <1>1. Len(stack) \in Nat /\ Len(stack) \in 1 .. Len(stack) /\ stack[Len(stack)] \in F
    <2>1. stack \in Seq(F)
      BY DEF ForwardTypes
    <2> HIDE DEF F
    <2> QED BY <2>1, LastOf
  <1>2. Top.node \in Vertices /\ Top.next \in Nat
    BY <1>1 DEF Top
  <1>3. Successors \in Seq(Vertices)
    BY <1>2 DEF Successors, LinkTypes
  <1> QED BY <1>1, <1>2, <1>3 DEF Top

(* What Visit leaves of the stack before it may push *)
LEMMA AdvancedStack ==
  ASSUME LinkTypes, ForwardTypes, stack # <<>>
  PROVE  /\ Advanced(stack) \in Seq([node : Vertices, next : Nat])
         /\ Len(Advanced(stack)) = Len(stack)
         /\ \A i \in 1 .. Len(stack) : Advanced(stack)[i].node = stack[i].node
         /\ \A i \in 1 .. Len(stack) : i # Len(stack) => Advanced(stack)[i] = stack[i]
         /\ Advanced(stack)[Len(stack)].next = Top.next + 1
  <1>1. stack \in Seq([node : Vertices, next : Nat]) /\ Len(stack) \in 1 .. Len(stack)
    BY TopFrame DEF ForwardTypes
  <1>2. stack[Len(stack)] \in [node : Vertices, next : Nat]
    <2> DEFINE F == [node : Vertices, next : Nat]
    <2> HIDE DEF F
    <2>1. stack \in Seq(F) => stack[Len(stack)] \in F
      BY <1>1
    <2> QED BY <1>1, <2>1 DEF F
  <1>3. [stack[Len(stack)] EXCEPT !.next = @ + 1] \in [node : Vertices, next : Nat]
        /\ [stack[Len(stack)] EXCEPT !.next = @ + 1].node = stack[Len(stack)].node
        /\ [stack[Len(stack)] EXCEPT !.next = @ + 1].next = stack[Len(stack)].next + 1
    <2> DEFINE top == stack[Len(stack)]
    <2>1. top \in [node : Vertices, next : Nat]
      BY <1>2
    <2> HIDE DEF top
    <2>2. top.next + 1 \in Nat /\ DOMAIN top = {"node", "next"}
      BY <2>1
    <2>3. [top EXCEPT !.next = @ + 1] = [node |-> top.node, next |-> top.next + 1]
      BY <2>1
    <2>4. [top EXCEPT !.next = @ + 1] \in [node : Vertices, next : Nat]
          /\ [top EXCEPT !.next = @ + 1].node = top.node
          /\ [top EXCEPT !.next = @ + 1].next = top.next + 1
      BY <2>1, <2>2, <2>3
    <2> QED BY <2>4 DEF top
  <1>4. Advanced(stack) = [stack EXCEPT ![Len(stack)] = [stack[Len(stack)] EXCEPT !.next = @ + 1]]
    BY <1>1, <1>2 DEF Advanced
  <1> QED BY <1>1, <1>2, <1>3, <1>4 DEF Top

LEMMA TypeStep ==
  ASSUME TypeOK, PhaseInv, GrowthInv, Next
  PROVE  TypeOK'
  <1> DEFINE Frames == [node : Vertices, next : Nat]
  <1>a. ArgumentTypes /\ LinkTypes /\ ForwardTypes /\ ReverseTypes
        /\ Len(order) \in Nat /\ position \in Nat /\ position <= Len(order)
    BY DEF TypeOK, ForwardTypes, ReverseTypes
  <1>2. CASE Link
    <2>1. /\ edges[linked + 1].from \in Vertices /\ edges[linked + 1].to \in Vertices
          /\ linked + 1 \in 0 .. Len(edges)
      <3>1. linked + 1 \in 1 .. Len(edges)
        BY <1>2, <1>a DEF Link, LinkTypes, ArgumentTypes
      <3>2. edges[linked + 1].from \in Vertices /\ edges[linked + 1].to \in Vertices
        BY <1>a, <3>1, EdgesAreOver
      <3> QED BY <3>1, <3>2
    <2>2. CASE Used(edges[linked + 1])
      <3> DEFINE f == edges[linked + 1].from
                 t == edges[linked + 1].to
      <3>a. /\ forward' = [forward EXCEPT ![f] = Append(@, t)]
            /\ reverse' = [reverse EXCEPT ![t] = Append(@, f)]
        BY <1>2, <2>2 DEF Link
      <3>b. f \in Vertices /\ t \in Vertices
        BY <2>1
      <3> HIDE DEF f, t
      <3>c. Append(forward[f], t) \in Seq(Vertices) /\ Append(reverse[t], f) \in Seq(Vertices)
        BY <1>a, <3>b, Appended DEF LinkTypes
      <3>1. forward' \in [Vertices -> Seq(Vertices)]
        BY <1>a, <3>a, <3>b, <3>c DEF LinkTypes
      <3>2. reverse' \in [Vertices -> Seq(Vertices)]
        BY <1>a, <3>a, <3>b, <3>c DEF LinkTypes
      <3> QED
        BY <1>2, <1>a, <2>1, <3>1, <3>2, ArgumentsRigid, ForwardRigid, ReverseRigid
           DEF Link, TypeOK, LinkTypes
    <2>3. CASE ~Used(edges[linked + 1])
      BY <1>2, <1>a, <2>1, <2>3, ArgumentsRigid, ForwardRigid, ReverseRigid
         DEF Link, TypeOK, LinkTypes
    <2> QED BY <2>2, <2>3
  <1>3. CASE Linked
    BY <1>3, <1>a, ArgumentsRigid, LinksRigid, ForwardRigid, ReverseRigid DEF Linked, TypeOK
  <1>4. CASE RootSeen
    <2>1. ForwardTypes'
      BY <1>4, <1>a, ArgumentsRigid DEF RootSeen, ForwardTypes, ArgumentTypes
    <2> QED
      BY <1>4, <1>a, <2>1, ArgumentsRigid, LinksRigid, ReverseRigid DEF RootSeen, TypeOK
  <1>5. CASE RootNew
    <2>1. root \in Vertices
      BY <1>5, <1>a DEF RootNew, Vertices, ForwardTypes, ArgumentTypes
    <2>2. stack' \in Seq(Frames)
      BY <1>5, <2>1 DEF RootNew
    <2>3. ForwardTypes'
      BY <1>5, <1>a, <2>1, <2>2, ArgumentsRigid DEF RootNew, ForwardTypes
    <2> QED
      BY <1>5, <1>a, <2>3, ArgumentsRigid, LinksRigid, ReverseRigid DEF RootNew, TypeOK
  <1>6. CASE RootsDone
    <2>1. ReverseTypes' /\ position' <= Len(order)
      BY <1>6, <1>a, ArgumentsRigid DEF RootsDone, LastPosition, ReverseTypes, missing
    <2> QED
      BY <1>6, <1>a, <2>1, ArgumentsRigid, LinksRigid, ForwardRigid DEF RootsDone, TypeOK
  <1>7. CASE Visit
    <2>1. Successors[Top.next + 1] \in Vertices
      BY <1>7, <1>a, TopFrame DEF Visit
    <2>2. Advanced(stack) \in Seq(Frames)
      BY <1>7, <1>a, AdvancedStack DEF Visit
    <2>b. [node |-> Successors[Top.next + 1], next |-> 0] \in Frames
      BY <2>1
    <2>c. Append(Advanced(stack), [node |-> Successors[Top.next + 1], next |-> 0]) \in Seq(Frames)
      <3> HIDE DEF Frames
      <3> QED BY <2>2, <2>b, Appended
    <2>3. stack' \in Seq(Frames) /\ seen' \subseteq Vertices
      <3> HIDE DEF Frames
      <3> QED BY <1>7, <1>a, <2>1, <2>2, <2>c DEF Visit, ForwardTypes
    <2>4. ForwardTypes'
      BY <1>7, <1>a, <2>3, ArgumentsRigid DEF Visit, ForwardTypes
    <2> QED
      BY <1>7, <1>a, <2>4, ArgumentsRigid, LinksRigid, ReverseRigid DEF Visit, TypeOK
  <1>8. CASE Finish
    <2>1. Top.node \in Vertices /\ order \in Seq(Vertices) /\ stack \in Seq(Frames)
      BY <1>8, <1>a, TopFrame DEF Finish, ForwardTypes
    <2>2. order' \in Seq(Vertices) /\ Len(order') = Len(order) + 1
      BY <1>8, <2>1, Appended DEF Finish, Ordered
    <2>3. stack' \in Seq(Frames)
      <3> HIDE DEF Frames
      <3> QED BY <1>8, <2>1, FrontOf DEF Finish
    <2>4. ForwardTypes'
      BY <1>8, <1>a, <2>2, <2>3, ArgumentsRigid DEF Finish, ForwardTypes
    <2>5. ReverseTypes' /\ position' = position
      BY <1>8, <1>a, ReverseRigid DEF Finish
    <2> QED
      BY <1>8, <1>a, <2>2, <2>4, <2>5, ArgumentsRigid, LinksRigid DEF Finish, TypeOK
  <1>9. CASE VisitDone
    <2>1. ForwardTypes'
      BY <1>9, <1>a, ArgumentsRigid DEF VisitDone, PhaseInv, ForwardTypes, ArgumentTypes
    <2> QED
      BY <1>9, <1>a, <2>1, ArgumentsRigid, LinksRigid, ReverseRigid DEF VisitDone, TypeOK
  <1>10. CASE AssignKnown
    <2>1. ReverseTypes' /\ position' <= Len(order)
      BY <1>10, <1>a, ArgumentsRigid DEF AssignKnown, ReverseTypes, missing
    <2> QED
      BY <1>10, <1>a, <2>1, ArgumentsRigid, LinksRigid, ForwardRigid DEF AssignKnown, TypeOK
  <1>11. CASE AssignNew
    <2>1. order[position] \in Vertices
      BY <1>11, <1>a DEF AssignNew, ForwardTypes
    <2>2. ReverseTypes'
      BY <1>11, <1>a, <2>1, ArgumentsRigid DEF AssignNew, ReverseTypes, missing
    <2> QED
      BY <1>11, <1>a, <2>2, ArgumentsRigid, LinksRigid, ForwardRigid DEF AssignNew, TypeOK
  <1>12. CASE AssignDone
    BY <1>12, <1>a, ArgumentsRigid, LinksRigid, ForwardRigid, ReverseRigid DEF AssignDone, TypeOK
  <1>13. CASE Pop
    <2>1. work' \in Seq(Vertices) /\ work[Len(work)] \in Vertices
      BY <1>13, <1>a, FrontOf, LastOf DEF Pop, ReverseTypes
    <2>2. ReverseTypes'
      BY <1>13, <1>a, <2>1, ArgumentsRigid DEF Pop, ReverseTypes, missing
    <2> QED
      BY <1>13, <1>a, <2>2, ArgumentsRigid, LinksRigid, ForwardRigid DEF Pop, TypeOK
  <1>14. CASE PopDone
    <2>1. position > 0
      BY <1>14 DEF PopDone, GrowthInv
    <2>2. ReverseTypes' /\ position' <= Len(order)
      BY <1>14, <1>a, <2>1, ArgumentsRigid DEF PopDone, ReverseTypes, missing
    <2> QED
      BY <1>14, <1>a, <2>2, ArgumentsRigid, LinksRigid, ForwardRigid DEF PopDone, TypeOK
  <1>15. CASE Spread
    <2>1. node \in Vertices
      BY <1>15 DEF Spread, GrowthInv, Current
    <2>2. reverse[node] \in Seq(Vertices) /\ next \in Nat
      BY <1>a, <2>1 DEF LinkTypes, ReverseTypes
    <2>3. reverse[node][next + 1] \in Vertices
      BY <1>15, <2>2 DEF Spread, Predecessors
    <2>b. Append(work, reverse[node][next + 1]) \in Seq(Vertices)
      BY <1>a, <2>3, Appended DEF ReverseTypes
    <2>c. work' \in Seq(Vertices) /\ result' \in [Vertices -> Nat \cup {missing}]
      BY <1>15, <1>a, <2>3, <2>b DEF Spread, Predecessors, ReverseTypes
    <2>4. ReverseTypes'
      BY <1>15, <1>a, <2>1, <2>c, ArgumentsRigid DEF Spread, ReverseTypes, missing
    <2> QED
      BY <1>15, <1>a, <2>4, ArgumentsRigid, LinksRigid, ForwardRigid DEF Spread, TypeOK
  <1>16. CASE SpreadDone
    BY <1>16, <1>a, ArgumentsRigid, LinksRigid, ForwardRigid, ReverseRigid DEF SpreadDone, TypeOK
  <1>17. CASE Returned
    <2>1. UNCHANGED arguments /\ UNCHANGED links /\ UNCHANGED forwardPass /\ UNCHANGED reversePass
          /\ pc' = pc
      BY <1>17 DEF Returned, vars, arguments, links, forwardPass, reversePass
    <2> QED
      BY <1>a, <2>1, ArgumentsRigid, LinksRigid, ForwardRigid, ReverseRigid DEF TypeOK
  <1> QED
    BY <1>2, <1>3, <1>4, <1>5, <1>6, <1>7, <1>8, <1>9, <1>10, <1>11, <1>12, <1>13, <1>14,
       <1>15, <1>16, <1>17 DEF Next

-----------------------------------------------------------------------------
LEMMA LinkOrNot ==
  ASSUME Next
  PROVE  \/ Link
         \/ /\ UNCHANGED arguments /\ UNCHANGED links
            /\ pc' # "Link" /\ (pc = "Link" => linked = Len(edges))
         \/ UNCHANGED vars
  BY DEF Next, Linked, RootSeen, RootNew, RootsDone, Visit, Finish, VisitDone, AssignKnown,
         AssignNew, AssignDone, Pop, PopDone, Spread, SpreadDone, Returned

LEMMA LinksStep ==
  ASSUME TypeOK, LinksInv, Next
  PROVE  LinksInv'
  <1>a. ArgumentTypes /\ LinkTypes
    BY DEF TypeOK
  <1>1. CASE Link
    <2> DEFINE e == edges[linked + 1]
               f == edges[linked + 1].from
               t == edges[linked + 1].to
    <2>1. /\ pc' = "Link" /\ linked' = linked + 1
          /\ Vertices' = Vertices /\ Edges' = Edges /\ edges' = edges
          /\ \A x : Used(x)' <=> Used(x)
      BY <1>1, <1>a, ArgumentsRigid DEF Link
    <2>2. linked \in Nat /\ linked + 1 \in 1 .. Len(edges)
      BY <1>1, <1>a DEF Link, LinkTypes, ArgumentTypes
    <2>3. f \in Vertices /\ t \in Vertices /\ (Used(e) => <<f, t>> \in Edges)
      BY <1>a, <2>2, EdgesAreOver
    <2>4. \A i \in 1 .. linked + 1 : i \in 1 .. linked \/ i = linked + 1
      BY <2>2
    <2>5. \A i \in 1 .. linked : edges[i].from \in Vertices /\ edges[i].to \in Vertices
      <3>1. \A i \in 1 .. linked : i \in 1 .. Len(edges)
        BY <1>a, <2>2 DEF ArgumentTypes
      <3> QED BY <1>a, <3>1, EdgesAreOver
    <2>6. CASE Used(e)
      <3>1. forward' = [forward EXCEPT ![f] = Append(@, t)]
            /\ reverse' = [reverse EXCEPT ![t] = Append(@, f)]
        BY <1>1, <2>6 DEF Link
      <3>2. forward \in [Vertices -> Seq(Vertices)] /\ reverse \in [Vertices -> Seq(Vertices)]
        BY <1>a DEF LinkTypes
      <3> DEFINE ff == forward'
                 rr == reverse'
      <3>3. /\ \A v \in Vertices : \A k \in 1 .. Len(forward[v]) :
                 k \in 1 .. Len(ff[v]) /\ ff[v][k] = forward[v][k]
            /\ \E k \in 1 .. Len(ff[f]) : ff[f][k] = t
            /\ \A v \in Vertices : \A k \in 1 .. Len(ff[v]) :
                 k \in 1 .. Len(forward[v]) \/ (v = f /\ ff[v][k] = t)
        <4>1. ff[f] = Append(forward[f], t) /\ \A v \in Vertices : v # f => ff[v] = forward[v]
          BY <2>3, <3>1, <3>2
        <4>2. forward \in [Vertices -> Seq(Vertices)] /\ f \in Vertices /\ t \in Vertices
          BY <2>3, <3>2
        <4> HIDE DEF ff, f, t
        <4>3. forward[f] \in Seq(Vertices) /\ Len(forward[f]) \in Nat
          BY <4>2
        <4>4. /\ Len(ff[f]) = Len(forward[f]) + 1 /\ ff[f][Len(forward[f]) + 1] = t
              /\ \A k \in 1 .. Len(forward[f]) : ff[f][k] = forward[f][k]
          BY <4>1, <4>2, <4>3, Appended
        <4>5. /\ Len(forward[f]) + 1 \in 1 .. Len(ff[f])
              /\ \A k \in 1 .. Len(forward[f]) : k \in 1 .. Len(ff[f])
              /\ \A k \in 1 .. Len(ff[f]) :
                   k \in 1 .. Len(forward[f]) \/ k = Len(forward[f]) + 1
          BY <4>3, <4>4
        <4> QED BY <4>1, <4>4, <4>5
      <3>4. /\ \A v \in Vertices : \A k \in 1 .. Len(reverse[v]) :
                 k \in 1 .. Len(rr[v]) /\ rr[v][k] = reverse[v][k]
            /\ \E k \in 1 .. Len(rr[t]) : rr[t][k] = f
            /\ \A v \in Vertices : \A k \in 1 .. Len(rr[v]) :
                 k \in 1 .. Len(reverse[v]) \/ (v = t /\ rr[v][k] = f)
        <4>1. rr[t] = Append(reverse[t], f) /\ \A v \in Vertices : v # t => rr[v] = reverse[v]
          BY <2>3, <3>1, <3>2
        <4>2. reverse \in [Vertices -> Seq(Vertices)] /\ t \in Vertices /\ f \in Vertices
          BY <2>3, <3>2
        <4> HIDE DEF rr, f, t
        <4>3. reverse[t] \in Seq(Vertices) /\ Len(reverse[t]) \in Nat
          BY <4>2
        <4>4. /\ Len(rr[t]) = Len(reverse[t]) + 1 /\ rr[t][Len(reverse[t]) + 1] = f
              /\ \A k \in 1 .. Len(reverse[t]) : rr[t][k] = reverse[t][k]
          BY <4>1, <4>2, <4>3, Appended
        <4>5. /\ Len(reverse[t]) + 1 \in 1 .. Len(rr[t])
              /\ \A k \in 1 .. Len(reverse[t]) : k \in 1 .. Len(rr[t])
              /\ \A k \in 1 .. Len(rr[t]) :
                   k \in 1 .. Len(reverse[t]) \/ k = Len(reverse[t]) + 1
          BY <4>3, <4>4
        <4> QED BY <4>1, <4>4, <4>5
      <3>5. \A v \in Vertices : /\ \A k \in 1 .. Len(ff[v]) : <<v, ff[v][k]>> \in Edges
                              /\ \A k \in 1 .. Len(rr[v]) : <<rr[v][k], v>> \in Edges
        <4> SUFFICES ASSUME NEW v \in Vertices
                     PROVE  /\ \A k \in 1 .. Len(ff[v]) : <<v, ff[v][k]>> \in Edges
                            /\ \A k \in 1 .. Len(rr[v]) : <<rr[v][k], v>> \in Edges
          OBVIOUS
        <4> HIDE DEF e, ff, rr, f, t
        <4>1. ASSUME NEW k \in 1 .. Len(ff[v]) PROVE <<v, ff[v][k]>> \in Edges
          <5>1. CASE k \in 1 .. Len(forward[v])
            BY <3>3, <4>1, <5>1 DEF LinksInv
          <5>2. CASE v = f /\ ff[v][k] = t
            BY <2>3, <2>6, <5>2
          <5> QED BY <3>3, <5>1, <5>2
        <4>2. ASSUME NEW k \in 1 .. Len(rr[v]) PROVE <<rr[v][k], v>> \in Edges
          <5>1. CASE k \in 1 .. Len(reverse[v])
            BY <3>4, <4>2, <5>1 DEF LinksInv
          <5>2. CASE v = t /\ rr[v][k] = f
            BY <2>3, <2>6, <5>2
          <5> QED BY <3>4, <5>1, <5>2
        <4> QED BY <4>1, <4>2
      <3>6. \A i \in 1 .. linked + 1 : Used(edges[i]) =>
              /\ \E k \in 1 .. Len(ff[edges[i].from]) : ff[edges[i].from][k] = edges[i].to
              /\ \E k \in 1 .. Len(rr[edges[i].to]) : rr[edges[i].to][k] = edges[i].from
        <4> SUFFICES ASSUME NEW i \in 1 .. linked + 1, Used(edges[i])
                     PROVE  /\ \E k \in 1 .. Len(ff[edges[i].from]) :
                                 ff[edges[i].from][k] = edges[i].to
                            /\ \E k \in 1 .. Len(rr[edges[i].to]) :
                                 rr[edges[i].to][k] = edges[i].from
          OBVIOUS
        <4>1. CASE i = linked + 1
          BY <3>3, <3>4, <4>1
        <4>2. CASE i \in 1 .. linked
          <5> HIDE DEF ff, rr
          <5>1. edges[i].from \in Vertices /\ edges[i].to \in Vertices
            BY <2>5, <4>2
          <5>2. PICK k \in 1 .. Len(forward[edges[i].from]) :
                  forward[edges[i].from][k] = edges[i].to
            BY <4>2 DEF LinksInv
          <5>3. PICK m \in 1 .. Len(reverse[edges[i].to]) :
                  reverse[edges[i].to][m] = edges[i].from
            BY <4>2 DEF LinksInv
          <5>4. \E l \in 1 .. Len(ff[edges[i].from]) : ff[edges[i].from][l] = edges[i].to
            BY <3>3, <5>1, <5>2
          <5>5. \E l \in 1 .. Len(rr[edges[i].to]) : rr[edges[i].to][l] = edges[i].from
            BY <3>4, <5>1, <5>3
          <5> QED BY <5>4, <5>5
        <4> QED BY <2>4, <4>1, <4>2
      <3> QED BY <2>1, <3>5, <3>6 DEF LinksInv
    <2>7. CASE ~Used(e)
      <3>1. forward' = forward /\ reverse' = reverse
        BY <1>1, <2>7 DEF Link
      <3> QED BY <2>1, <2>4, <2>7, <3>1 DEF LinksInv
    <2> QED BY <2>6, <2>7
  <1>2. CASE UNCHANGED arguments /\ UNCHANGED links /\ pc' # "Link"
             /\ (pc = "Link" => linked = Len(edges))
    BY <1>2, <1>a, ArgumentsRigid, LinksRigid DEF LinksInv
  <1>3. CASE UNCHANGED vars
    <2>1. UNCHANGED arguments /\ UNCHANGED links /\ pc' = pc
      BY <1>3 DEF vars, arguments, links
    <2> QED BY <1>a, <2>1, ArgumentsRigid, LinksRigid DEF LinksInv
  <1> QED BY <1>1, <1>2, <1>3, LinkOrNot

(* After linking, successors and predecessors are the edges. *)
LEMMA LinkedEdges ==
  ASSUME ArgumentTypes, LinkTypes, LinksInv, pc # "Link",
         NEW u \in Vertices, NEW v \in Vertices, <<u, v>> \in Edges
  PROVE  /\ \E k \in 1 .. Len(forward[u]) : forward[u][k] = v
         /\ \E k \in 1 .. Len(reverse[v]) : reverse[v][k] = u
  <1>1. PICK i \in DOMAIN edges : Used(edges[i]) /\ <<u, v>> = <<edges[i].from, edges[i].to>>
    BY DEF Edges
  <1>2. i \in 1 .. linked
    BY DEF ArgumentTypes, LinksInv
  <1> QED BY <1>1, <1>2 DEF LinksInv

-----------------------------------------------------------------------------
(* The forward pass *)

LEMMA FinishedAreVertices ==
  ASSUME ForwardTypes
  PROVE  /\ Len(order) \in Nat
         /\ \A i \in 1 .. Len(order) : order[i] \in Vertices
         /\ \A i \in 0 .. Len(order) : Prior(i) \in SUBSET Vertices
         /\ Finished \in SUBSET Vertices
  <1>1. Len(order) \in Nat /\ \A i \in 1 .. Len(order) : order[i] \in Vertices
    BY DEF ForwardTypes
  <1>2. \A i \in 0 .. Len(order) : \A j \in 1 .. i : j \in 1 .. Len(order)
    BY <1>1
  <1> QED BY <1>1, <1>2 DEF Prior, Finished

LEMMA RootNewStep ==
  ASSUME TypeOK, LinksInv, StackInv, StackOrder, FinishOrder, PhaseInv, RootNew
  PROVE  StackInv' /\ StackOrder' /\ FinishOrder'
  <1>1. ArgumentTypes /\ ForwardTypes
    BY DEF TypeOK
  <1>2. /\ Vertices' = Vertices /\ Edges' = Edges /\ forward' = forward /\ order' = order
        /\ seen' = seen \cup {root} /\ stack' = <<[node |-> root, next |-> 0]>>
        /\ root \notin seen /\ stack = <<>>
    BY <1>1, ArgumentsRigid DEF RootNew, links, PhaseInv
  <1>3. root \in Vertices
    BY <1>1 DEF RootNew, Vertices, ForwardTypes, ArgumentTypes
  <1>4. Finished' = Finished /\ (\A i : Prior(i)' = Prior(i)) /\ FinishOrder'
    BY <1>2 DEF Finished, Prior, FinishOrder
  <1>5. /\ Len(stack') = 1 /\ Len(stack) = 0 /\ \A i \in 1 .. Len(stack') : i = 1
        /\ stack'[1].node = root /\ stack'[1].next = 0
    BY <1>2
  <1>6. \A i \in 1 .. Len(stack') : Placed(i)' = root /\ stack'[i].next = 0
    BY <1>5 DEF Placed
  <1>7. \A v \in Vertices : v \in seen <=> v \in Finished
    BY <1>5 DEF StackInv
  <1>8. StackInv'
    <2>1. \A v \in Vertices :
            v \in seen' <=> v \in Finished \/ \E i \in 1 .. Len(stack') : v = Placed(i)'
      BY <1>2, <1>5, <1>6, <1>7
    <2>2. \A i, j \in 1 .. Len(stack') : Reaches(Vertices, Edges, Placed(i)', Placed(j)')
      BY <1>6, ReachesItself
    <2>3. Len(forward[root]) \in Nat
      BY <1>3 DEF TypeOK, LinkTypes
    <2>4. \A i \in 1 .. Len(stack') :
            /\ stack'[i].next <= Len(forward[Placed(i)'])
            /\ \A k \in 1 .. stack'[i].next : forward[Placed(i)'][k] \in seen'
      BY <1>6, <2>3
    <2>5. \A u \in Finished, v \in Vertices : <<u, v>> \in Edges => v \in seen'
      BY <1>2 DEF StackInv
    <2> QED BY <1>2, <1>4, <2>1, <2>2, <2>4, <2>5 DEF StackInv
  <1>9. StackOrder'
    <2>1. root \notin Finished /\ Finished \in SUBSET Vertices
      BY <1>1, <1>2, <1>3, <1>7, FinishedAreVertices
    <2>2. \A x \in Finished : <<x, root>> \notin Edges
      BY <1>2, <1>3 DEF StackInv
    <2>3. \A x \in Finished :
            Reaches(Finished \cup {root}, Edges, x, root) => Reaches(Vertices, Edges, root, x)
      BY <1>3, <2>1, <2>2, PushedNew
    <2> QED BY <1>2, <1>4, <1>6, <2>3 DEF StackOrder
  <1> QED BY <1>4, <1>8, <1>9

LEMMA VisitStep ==
  ASSUME TypeOK, LinksInv, StackInv, StackOrder, FinishOrder, PhaseInv, Visit
  PROVE  StackInv' /\ StackOrder' /\ FinishOrder'
  <1> DEFINE child == Successors[Top.next + 1]
             n == Len(stack)
             moved == Advanced(stack)
  <1>1. ArgumentTypes /\ LinkTypes /\ ForwardTypes
    BY DEF TypeOK
  <1>2. /\ Vertices' = Vertices /\ Edges' = Edges /\ forward' = forward /\ order' = order
        /\ stack # <<>> /\ Top.next < Len(Successors)
    BY <1>1, ArgumentsRigid DEF Visit, links
  <1>3. Finished' = Finished /\ (\A i : Prior(i)' = Prior(i)) /\ FinishOrder'
    BY <1>2 DEF Finished, Prior, FinishOrder
  <1>4. /\ n \in Nat /\ n \in 1 .. n /\ Top = stack[n] /\ Placed(n) = Top.node
        /\ Top.node \in Vertices /\ Top.next \in Nat
        /\ Successors = forward[Top.node] /\ Len(Successors) \in Nat
    BY <1>1, <1>2, TopFrame DEF Placed, Successors
  <1>5. child \in Vertices /\ <<Top.node, child>> \in Edges
    BY <1>1, <1>2, <1>4, TopFrame DEF LinksInv
  <1>6. /\ moved \in Seq([node : Vertices, next : Nat]) /\ Len(moved) = n
        /\ \A i \in 1 .. n : moved[i].node = Placed(i) /\ Placed(i) \in Vertices
        /\ \A i \in 1 .. n : i # n => moved[i] = stack[i]
        /\ moved[n].next = Top.next + 1
    <2>1. \A i \in 1 .. n : moved[i].node = Placed(i)
      BY <1>1, <1>2, AdvancedStack DEF Placed
    <2>2. \A i \in 1 .. n : stack[i].node \in Vertices
      <3> DEFINE F == [node : Vertices, next : Nat]
      <3>1. \A i \in 1 .. n : stack[i] \in F
        <4> HIDE DEF F
        <4>1. stack \in Seq(F)
          BY <1>1 DEF ForwardTypes, F
        <4> QED BY <4>1
      <3> QED BY <3>1
    <2> QED BY <1>1, <1>2, <2>1, <2>2, AdvancedStack DEF Placed
  <1>7. \A i \in 1 .. n :
          /\ moved[i].next <= Len(forward[Placed(i)])
          /\ \A k \in 1 .. moved[i].next : forward[Placed(i)][k] \in seen \cup {child}
    <2> SUFFICES ASSUME NEW i \in 1 .. n
                 PROVE  /\ moved[i].next <= Len(forward[Placed(i)])
                        /\ \A k \in 1 .. moved[i].next : forward[Placed(i)][k] \in seen \cup {child}
      OBVIOUS
    <2>1. CASE i # n
      BY <1>6, <2>1 DEF StackInv
    <2>2. CASE i = n
      <3>1. \A k \in 1 .. Top.next + 1 : k \in 1 .. Top.next \/ k = Top.next + 1
        BY <1>4
      <3>2. \A k \in 1 .. Top.next : forward[Top.node][k] \in seen
        BY <1>4 DEF StackInv
      <3> QED BY SMTT(30), <1>2, <1>4, <1>6, <2>2, <3>1, <3>2
    <2> QED BY <2>1, <2>2
  <1>8. CASE child \in seen
    <2>1. stack' = moved /\ seen' = seen
      BY <1>8 DEF Visit
    <2>2. Len(stack') = n /\ \A i \in 1 .. n : Placed(i)' = Placed(i)
      BY <1>6, <2>1 DEF Placed
    <2>3. StackOrder'
      BY <1>2, <1>3, <2>2 DEF StackOrder
    <2>4. \A i \in 1 .. n : /\ stack'[i].next <= Len(forward[Placed(i)])
                           /\ \A k \in 1 .. stack'[i].next : forward[Placed(i)][k] \in seen
      BY <1>7, <1>8, <2>1
    <2>5. StackInv'
      BY <1>2, <1>3, <2>1, <2>2, <2>4 DEF StackInv
    <2> QED BY <1>3, <2>3, <2>5
  <1>9. CASE child \notin seen
    <2> DEFINE frame == [node |-> child, next |-> 0]
    <2>1. stack' = Append(moved, frame) /\ seen' = seen \cup {child}
      BY <1>9 DEF Visit
    <2>2. /\ Len(stack') = n + 1 /\ stack'[n + 1] = frame
          /\ \A i \in 1 .. n : stack'[i] = moved[i]
      <3>1. frame \in [node : Vertices, next : Nat]
        BY <1>5
      <3> HIDE DEF frame, moved, child
      <3> QED BY <1>6, <2>1, <3>1, Appended
    <2>3. /\ \A i \in 1 .. Len(stack') : i \in 1 .. n \/ i = n + 1
          /\ \A i \in 1 .. n : i \in 1 .. Len(stack')
          /\ n + 1 \in 1 .. Len(stack')
      BY <1>4, <2>2
    <2>4. /\ \A i \in 1 .. n : Placed(i)' = Placed(i)
          /\ stack'[n + 1].node = child
      <3>1. stack'[n + 1].node = child
        BY <2>2
      <3> HIDE DEF moved, child, frame
      <3> QED BY <1>6, <2>2, <3>1 DEF Placed
    <2>5. \A i \in 1 .. n : Reaches(Vertices, Edges, Placed(i), child)
      <3> SUFFICES ASSUME NEW i \in 1 .. n PROVE Reaches(Vertices, Edges, Placed(i), child)
        OBVIOUS
      <3>1. Reaches(Vertices, Edges, Placed(i), Top.node)
        BY <1>4 DEF StackInv
      <3> QED BY <1>4, <1>5, <3>1, ReachesAhead
    <2>6. \A i, j \in 1 .. Len(stack') : i <= j =>
            Reaches(Vertices, Edges, Placed(i)', Placed(j)')
      <3> SUFFICES ASSUME NEW i \in 1 .. Len(stack'), NEW j \in 1 .. Len(stack'), i <= j
                   PROVE  Reaches(Vertices, Edges, Placed(i)', Placed(j)')
        OBVIOUS
      <3>1. CASE j = n + 1 /\ i = n + 1
        BY <3>1, ReachesItself
      <3>2. CASE j = n + 1 /\ i \in 1 .. n
        BY <2>4, <2>5, <3>2 DEF Placed
      <3>3. CASE j \in 1 .. n
        <4>1. i \in 1 .. n
          BY <1>4, <3>3
        <4> QED BY <2>4, <3>3, <4>1 DEF StackInv
      <3> QED BY <2>3, <3>1, <3>2, <3>3
    <2>7. \A v \in Vertices :
            v \in seen' <=> v \in Finished \/ \E i \in 1 .. Len(stack') : v = Placed(i)'
      <3> HIDE DEF child
      <3>1. \A v \in Vertices :
              v \in seen <=> v \in Finished \/ \E i \in 1 .. n : v = stack[i].node
        BY DEF StackInv, Placed
      <3>2. \A i \in 1 .. n : stack'[i].node = stack[i].node
        BY <2>4 DEF Placed
      <3>3. \A v : (\E i \in 1 .. Len(stack') : v = stack'[i].node)
                    <=> (\E i \in 1 .. n : v = stack[i].node) \/ v = child
        BY <2>3, <2>4, <3>2
      <3> QED BY <2>1, <3>1, <3>3 DEF Placed
    <2>8. \A i \in 1 .. Len(stack') :
            /\ stack'[i].next <= Len(forward[Placed(i)'])
            /\ \A k \in 1 .. stack'[i].next : forward[Placed(i)'][k] \in seen'
      <3> SUFFICES ASSUME NEW i \in 1 .. Len(stack')
                   PROVE  /\ stack'[i].next <= Len(forward[Placed(i)'])
                          /\ \A k \in 1 .. stack'[i].next : forward[Placed(i)'][k] \in seen'
        OBVIOUS
      <3>1. CASE i \in 1 .. n
        BY <1>7, <2>1, <2>2, <2>4, <3>1
      <3>2. CASE i = n + 1
        <4>1. stack'[i].next = 0 /\ Placed(i)' = child
          BY <2>2, <2>4, <3>2 DEF Placed
        <4>2. Len(forward[child]) \in Nat
          BY <1>1, <1>5 DEF LinkTypes
        <4> QED BY <4>1, <4>2
      <3> QED BY <2>3, <3>1, <3>2
    <2>9. \A u \in Finished, v \in Vertices : <<u, v>> \in Edges => v \in seen'
      BY <2>1 DEF StackInv
    <2>10. StackInv'
      BY <1>2, <1>3, <2>6, <2>7, <2>8, <2>9 DEF StackInv
    <2>11. child \notin Finished /\ Finished \in SUBSET Vertices
      BY <1>1, <1>5, <1>9, FinishedAreVertices DEF StackInv
    <2>12. \A x \in Finished : <<x, child>> \notin Edges
      BY <1>5, <1>9 DEF StackInv
    <2>13. \A x \in Finished :
             Reaches(Finished \cup {child}, Edges, x, child) => Reaches(Vertices, Edges, child, x)
      BY <1>5, <2>11, <2>12, PushedNew
    <2>14. StackOrder'
      <3> SUFFICES ASSUME NEW i \in 1 .. Len(stack'), NEW x \in Finished,
                          Reaches(Finished \cup {Placed(i)'}, Edges, x, Placed(i)')
                   PROVE  Reaches(Vertices, Edges, Placed(i)', x)
        BY <1>2, <1>3 DEF StackOrder
      <3>1. CASE i \in 1 .. n
        BY <2>4, <3>1 DEF StackOrder
      <3>2. CASE i = n + 1
        BY <2>4, <2>13, <3>2 DEF Placed
      <3> QED BY <2>3, <3>1, <3>2
    <2> QED BY <1>3, <2>10, <2>14
  <1> QED BY <1>8, <1>9

LEMMA FinishStep ==
  ASSUME TypeOK, LinksInv, StackInv, StackOrder, FinishOrder, PhaseInv, Finish
  PROVE  StackInv' /\ StackOrder' /\ FinishOrder'
  <1> DEFINE t == Top.node
             n == Len(stack)
             m == Len(order)
             F == Finished \cup {t}
  <1>1. ArgumentTypes /\ LinkTypes /\ ForwardTypes
    BY DEF TypeOK
  <1>2. /\ Vertices' = Vertices /\ Edges' = Edges /\ forward' = forward /\ seen' = seen
        /\ stack # <<>> /\ Top.next = Len(Successors) /\ pc = "Visit"
        /\ order' = Append(order, t) /\ stack' = SubSeq(stack, 1, n - 1)
    BY <1>1, ArgumentsRigid DEF Finish, Ordered, links
  <1>3. /\ n \in Nat /\ n \in 1 .. n /\ Top = stack[n] /\ Placed(n) = t
        /\ t \in Vertices /\ Successors = forward[t] /\ Len(Successors) \in Nat
    BY <1>1, <1>2, TopFrame DEF Placed, Successors
  <1>4. /\ m \in Nat /\ Len(order') = m + 1 /\ order'[m + 1] = t
        /\ \A i \in 1 .. m : order'[i] = order[i]
    <2>1. order \in Seq(Vertices)
      BY <1>1 DEF ForwardTypes
    <2> HIDE DEF t
    <2> QED BY <1>2, <1>3, <2>1, Appended
  <1>5. /\ \A i \in 1 .. m + 1 : i \in 1 .. m \/ i = m + 1
        /\ m + 1 \in 1 .. m + 1 /\ \A i \in 1 .. m : i \in 1 .. m + 1 /\ 1 .. i \subseteq 1 .. m
    BY <1>4
  <1>6. Finished' = F
    BY <1>4, <1>5 DEF Finished, Prior
  <1>7. /\ Len(stack') = n - 1 /\ \A i \in 1 .. n - 1 : Placed(i)' = Placed(i)
        /\ \A i \in 1 .. n - 1 : stack'[i] = stack[i]
    <2> DEFINE Frames == [node : Vertices, next : Nat]
    <2>1. stack \in Seq(Frames)
      BY <1>1 DEF ForwardTypes
    <2> HIDE DEF Frames
    <2>2. Len(stack') = n - 1 /\ \A i \in 1 .. n - 1 : stack'[i] = stack[i]
      BY <1>2, <2>1, FrontOf
    <2> QED BY <2>2 DEF Placed
  <1>8. /\ \A i \in 1 .. n : i \in 1 .. n - 1 \/ i = n
        /\ \A i \in 1 .. n - 1 : i \in 1 .. n /\ i <= n
    BY <1>3
  <1>9. StackInv'
    <2>1. \A v \in Vertices :
            v \in seen <=> v \in F \/ \E i \in 1 .. n - 1 : v = Placed(i)
      <3>1. \A v \in Vertices : v \in seen <=> v \in Finished \/ \E i \in 1 .. n : v = Placed(i)
        BY DEF StackInv
      <3>2. \A v : (\E i \in 1 .. n : v = Placed(i))
                    <=> (\E i \in 1 .. n - 1 : v = Placed(i)) \/ v = t
        BY <1>3, <1>8 DEF Placed
      <3> QED BY <3>1, <3>2
    <2>2. \A v \in Vertices : <<t, v>> \in Edges => v \in seen
      <3> SUFFICES ASSUME NEW v \in Vertices, <<t, v>> \in Edges PROVE v \in seen
        OBVIOUS
      <3>1. PICK k \in 1 .. Len(forward[t]) : forward[t][k] = v
        BY <1>1, <1>2, <1>3, LinkedEdges
      <3>2. \A j \in 1 .. stack[n].next : forward[Placed(n)][j] \in seen
        BY <1>3 DEF StackInv
      <3> QED BY <1>2, <1>3, <3>1, <3>2
    <2>3. \A u \in F, v \in Vertices : <<u, v>> \in Edges => v \in seen
      BY <2>2 DEF StackInv
    <2>4. \A i, j \in 1 .. n - 1 : i <= j => Reaches(Vertices, Edges, Placed(i), Placed(j))
      BY <1>8 DEF StackInv
    <2>5. \A i \in 1 .. n - 1 : /\ stack[i].next <= Len(forward[Placed(i)])
                              /\ \A k \in 1 .. stack[i].next : forward[Placed(i)][k] \in seen
      BY <1>8 DEF StackInv
    <2> HIDE DEF F, t
    <2> QED BY <1>2, <1>6, <1>7, <2>1, <2>3, <2>4, <2>5 DEF StackInv
  <1>10. Finished \in SUBSET Vertices
    BY <1>1, FinishedAreVertices
  <1>11. \A x \in Finished :
           Reaches(Finished \cup {t}, Edges, x, t) => Reaches(Vertices, Edges, t, x)
    BY <1>3 DEF StackOrder
  <1>12. StackOrder'
    <2> SUFFICES ASSUME NEW i \in 1 .. n - 1
                 PROVE  \A x \in F : Reaches(F \cup {Placed(i)}, Edges, x, Placed(i)) =>
                          Reaches(Vertices, Edges, Placed(i), x)
      BY <1>2, <1>6, <1>7 DEF StackOrder
    <2> DEFINE s == Placed(i)
    <2>1. s \in Vertices
      <3> DEFINE Frames == [node : Vertices, next : Nat]
      <3>1. stack \in Seq(Frames) /\ i \in 1 .. n
        BY <1>1, <1>8 DEF ForwardTypes
      <3>2. stack[i] \in Frames
        <4> HIDE DEF Frames
        <4> QED BY <3>1
      <3> QED BY <3>2 DEF Placed
    <2>2. Reaches(Vertices, Edges, s, t)
      BY <1>3, <1>8 DEF StackInv
    <2>3. \A x \in Finished :
            Reaches(Finished \cup {s}, Edges, x, s) => Reaches(Vertices, Edges, s, x)
      BY <1>8 DEF StackOrder
    <2> HIDE DEF s, t
    <2>4. \A x \in Finished \cup {t} : Reaches((Finished \cup {t}) \cup {s}, Edges, x, s) =>
                                      Reaches(Vertices, Edges, s, x)
      BY <1>3, <1>10, <1>11, <2>1, <2>2, <2>3, FinishedOneMore
    <2> QED BY <2>4 DEF s
  <1>13. FinishOrder'
    <2>1. \A i \in 1 .. m : Prior(i)' = Prior(i)
      BY <1>4, <1>5 DEF Prior
    <2>2. \A i \in 1 .. m : \A x \in Prior(i) : Reaches(Prior(i), Edges, x, order[i]) =>
                                             Reaches(Vertices, Edges, order[i], x)
      BY DEF FinishOrder
    <2>3. \A x \in F : Reaches(F, Edges, x, t) => Reaches(Vertices, Edges, t, x)
      BY <1>11, ReachesItself
    <2> SUFFICES ASSUME NEW i \in 1 .. m + 1
                 PROVE  \A x \in Prior(i)' : Reaches(Prior(i)', Edges, x, order'[i]) =>
                                            Reaches(Vertices, Edges, order'[i], x)
      BY <1>2, <1>4 DEF FinishOrder
    <2>4. CASE i \in 1 .. m
      BY <1>4, <2>1, <2>2, <2>4
    <2>5. CASE i = m + 1
      <3>1. Prior(i)' = F
        BY <1>4, <1>6, <2>5 DEF Finished, Prior
      <3> QED BY <1>4, <2>3, <2>5, <3>1
    <2> QED BY <1>5, <2>4, <2>5
  <1> QED BY <1>9, <1>12, <1>13

LEMMA ForwardStep ==
  ASSUME TypeOK, LinksInv, StackInv, StackOrder, FinishOrder, PhaseInv, Next
  PROVE  StackInv' /\ StackOrder' /\ FinishOrder'
  <1>1. ArgumentTypes /\ LinkTypes
    BY DEF TypeOK
  <1>2. CASE RootNew
    BY <1>2, RootNewStep
  <1>3. CASE Visit
    BY <1>3, VisitStep
  <1>4. CASE Finish
    BY <1>4, FinishStep
  <1>5. CASE Link
    <2>1. /\ seen' = {} /\ order' = <<>> /\ stack' = <<>>
      BY <1>5 DEF Link, PhaseInv, forwardPass
    <2>2. Len(order') = 0 /\ Len(stack') = 0
      BY <2>1
    <2> QED BY <2>1, <2>2 DEF StackInv, StackOrder, FinishOrder, Finished, Prior
  <1>6. CASE /\ UNCHANGED arguments
             /\ seen' = seen /\ order' = order /\ stack' = stack /\ forward' = forward
    <2>1. Vertices' = Vertices /\ Edges' = Edges /\ seen' = seen /\ stack' = stack
          /\ forward' = forward /\ order' = order
      BY <1>1, <1>6, ArgumentsRigid
    <2>2. Finished' = Finished /\ (\A i : Prior(i)' = Prior(i)) /\ (\A i : Placed(i)' = Placed(i))
      BY <2>1 DEF Finished, Prior, Placed
    <2>3. StackInv'
      BY <2>1, <2>2 DEF StackInv
    <2>4. StackOrder'
      BY <2>1, <2>2 DEF StackOrder
    <2>5. FinishOrder'
      BY <2>1, <2>2 DEF FinishOrder
    <2> QED BY <2>3, <2>4, <2>5
  <1>7. \/ RootNew \/ Visit \/ Finish \/ Link
        \/ /\ UNCHANGED arguments
           /\ seen' = seen /\ order' = order /\ stack' = stack /\ forward' = forward
    BY DEF Next, Linked, RootSeen, RootsDone, VisitDone, AssignKnown, AssignNew, AssignDone,
           Pop, PopDone, Spread, SpreadDone, Returned, links, forwardPass, vars, arguments
  <1> QED BY <1>2, <1>3, <1>4, <1>5, <1>6, <1>7

LEMMA PhaseStep ==
  ASSUME TypeOK, StackInv, PhaseInv, ComponentInv, Next
  PROVE  PhaseInv'
  <1>1. ArgumentTypes /\ root \in Nat /\ count \in Nat /\ root <= count
    BY DEF TypeOK, ArgumentTypes, ForwardTypes
  <1>2. \A v \in Vertices : v \in Nat
    BY DEF Vertices
  <1> USE DEF PhaseInv, Forwards
  <1>3. CASE Link
    BY <1>1, <1>3, ArgumentsRigid DEF Link, forwardPass, reversePass
  <1>4. CASE Linked
    BY <1>1, <1>2, <1>4, ArgumentsRigid DEF Linked, forwardPass, reversePass
  <1>5. CASE RootSeen
    BY <1>1, <1>2, <1>5, ArgumentsRigid DEF RootSeen, reversePass
  <1>6. CASE RootNew
    BY <1>1, <1>2, <1>6, ArgumentsRigid DEF RootNew, reversePass
  <1>7. CASE RootsDone
    <2>1. \A v \in Vertices : v \in seen
      BY <1>1, <1>7 DEF RootsDone, Vertices
    <2>2. stack = <<>> /\ Len(stack) = 0
      BY <1>7 DEF RootsDone
    <2>3. \A v \in Vertices : v \in Finished
      BY <2>1, <2>2 DEF StackInv
    <2>4. Finished' = Finished
      BY <1>7 DEF RootsDone, forwardPass, Finished, Prior
    <2> QED BY <1>1, <1>7, <2>3, <2>4, ArgumentsRigid DEF RootsDone, forwardPass
  <1>8. CASE Visit
    BY <1>1, <1>8, ArgumentsRigid DEF Visit, reversePass
  <1>9. CASE Finish
    BY <1>1, <1>9, ArgumentsRigid DEF Finish, reversePass
  <1>10. CASE VisitDone
    BY <1>1, <1>2, <1>10, ArgumentsRigid DEF VisitDone, reversePass
  <1>11. CASE ~Forwards /\ ~Forwards' /\ UNCHANGED arguments /\ UNCHANGED forwardPass
    <2>1. Finished' = Finished /\ Vertices' = Vertices /\ stack' = stack
      BY <1>1, <1>11, ArgumentsRigid DEF forwardPass, Finished, Prior
    <2> QED BY <1>11, <2>1
  <1>12. ASSUME AssignKnown \/ AssignNew \/ AssignDone \/ Pop \/ PopDone \/ Spread \/ SpreadDone
         PROVE  ~Forwards /\ ~Forwards' /\ UNCHANGED arguments /\ UNCHANGED forwardPass
    BY <1>12 DEF AssignKnown, AssignNew, AssignDone, Pop, PopDone, Spread, SpreadDone
  <1>13. CASE Returned
    <2>1. Finished' = Finished /\ Vertices' = Vertices
      BY <1>13 DEF Returned, vars, Finished, Prior, Vertices
    <2> QED BY <1>13, <2>1 DEF Returned, vars
  <1> QED
    BY <1>3, <1>4, <1>5, <1>6, <1>7, <1>8, <1>9, <1>10, <1>11, <1>12, <1>13 DEF Next

-----------------------------------------------------------------------------
(* The reverse pass *)

(* A component that is complete: its vertices reach one another, and none   *)
(* of the vertices assigned before.                                         *)
LEMMA ComponentComplete ==
  ASSUME ForwardTypes, ReverseTypes, position <= Len(order), FinishOrder, ComponentInv,
         GrowthInv, pc = "Pop", work = <<>>
  PROVE  /\ \A u, v \in Vertices : <<u, v>> \in Edges /\ result[v] # missing => result[u] # missing
         /\ \A u, v \in Vertices : result[u] # missing /\ result[v] # missing =>
              (result[u] = result[v] <=> Mutual(Vertices, Edges, u, v))
  <1> DEFINE P == Prior(position)
             r == order[position]
             Assigned == {v \in Vertices : result[v] # missing}
  <1>1. Len(work) = 0 /\ position \in 1 .. Len(order) /\ position \in 0 .. Len(order)
        /\ identity # missing
    <2>1. position \in Nat /\ Len(order) \in Nat /\ position > 0 /\ identity \in Nat
      BY FinishedAreVertices DEF ReverseTypes, GrowthInv
    <2> QED BY <2>1 DEF missing
  <1>2. r \in Vertices /\ P \in SUBSET Vertices
    BY <1>1, FinishedAreVertices
  <1>3. \A v \in Assigned : v \in Earlier \/ v \in Current
    BY DEF Earlier, Current
  <1>4. /\ Earlier \subseteq Assigned /\ Current \subseteq Assigned
        /\ \A v \in Assigned : result[v] = identity <=> v \in Current
        /\ \A v \in Earlier : v \in Vertices /\ result[v] # identity
        /\ \A v \in Current : v \in Vertices /\ result[v] = identity
    BY <1>1 DEF Earlier, Current
  <1>5. \A u, v \in Vertices : <<u, v>> \in Edges /\ v \in Assigned => u \in Assigned
    <2> SUFFICES ASSUME NEW u \in Vertices, NEW v \in Vertices, <<u, v>> \in Edges, v \in Assigned
                 PROVE  u \in Assigned
      OBVIOUS
    <2>1. CASE v \in Earlier
      BY <1>4, <2>1 DEF ComponentInv
    <2>2. CASE v \in Current
      BY <1>1, <2>2 DEF GrowthInv
    <2> QED BY <1>3, <2>1, <2>2
  <1>6. \A v \in Current : /\ Reaches(Vertices, Edges, v, r)
                         /\ Reaches(Vertices, Edges, r, v)
    <2> SUFFICES ASSUME NEW v \in Current
                 PROVE  Reaches(Vertices, Edges, v, r) /\ Reaches(Vertices, Edges, r, v)
      OBVIOUS
    <2>1. v \in P /\ Reaches(P, Edges, v, r)
      BY DEF GrowthInv
    <2>2. Reaches(Vertices, Edges, r, v)
      BY <1>1, <2>1 DEF FinishOrder
    <2>3. Reaches(Vertices, Edges, v, r)
      <3> HIDE DEF P, r
      <3> QED BY <1>2, <2>1, ReachesInMore
    <2> QED BY <2>2, <2>3
  <1>7. \A u, v \in Current : Mutual(Vertices, Edges, u, v)
    BY <1>6, ReachesTransitive DEF Mutual
  <1>8. \A u \in Earlier, v \in Current : ~Reaches(Vertices, Edges, v, u)
    <2> SUFFICES ASSUME NEW u \in Earlier, NEW v \in Current, Reaches(Vertices, Edges, v, u)
                 PROVE  FALSE
      OBVIOUS
    <2>1. \A x, y \in Vertices : <<x, y>> \in Edges /\ y \in Earlier => x \in Earlier
      BY DEF ComponentInv
    <2>2. v \in Vertices
      BY <1>4
    <2>3. v \in Earlier
      BY <2>1, <2>2, ReachesFrom
    <2> QED BY <1>4, <2>3
  <1>9. ASSUME NEW u \in Assigned, NEW v \in Assigned
        PROVE  result[u] = result[v] <=> Mutual(Vertices, Edges, u, v)
    <2>1. CASE u \in Earlier /\ v \in Earlier
      BY <2>1 DEF ComponentInv
    <2>2. CASE u \in Current /\ v \in Current
      BY <1>4, <1>7, <2>2
    <2>3. CASE u \in Earlier /\ v \in Current
      BY <1>4, <1>8, <2>3 DEF Mutual
    <2>4. CASE u \in Current /\ v \in Earlier
      BY <1>4, <1>8, <2>4 DEF Mutual
    <2> QED BY <1>3, <2>1, <2>2, <2>3, <2>4
  <1> QED BY <1>5, <1>9

(* Assigning the current component to one more vertex leaves the others be. *)
LEMMA OneAssigned ==
  ASSUME ReverseTypes, UNCHANGED arguments, ArgumentTypes, identity' = identity,
         NEW c \in Vertices, result[c] = missing, result' = [result EXCEPT ![c] = identity]
  PROVE  /\ Earlier' = Earlier /\ Current' = Current \cup {c}
         /\ identity # missing
         /\ result'[c] = identity
         /\ \A v \in Vertices : v # c => result'[v] = result[v]
         /\ \A v \in Vertices : result[v] # missing => result'[v] = result[v]
         /\ \A v \in Earlier : result'[v] = result[v]
  <1>1. Vertices' = Vertices /\ identity \in Nat /\ identity # missing
    <2>1. identity \in Nat
      BY DEF ReverseTypes
    <2> QED BY <2>1, ArgumentsRigid DEF missing
  <1>2. /\ result'[c] = identity
        /\ \A v \in Vertices : v # c => result'[v] = result[v]
    BY DEF ReverseTypes
  <1>3. Earlier' = Earlier
    BY <1>1, <1>2 DEF Earlier
  <1>4. Current' = Current \cup {c}
    BY <1>1, <1>2 DEF Current
  <1> QED BY <1>1, <1>2, <1>3, <1>4 DEF Earlier

LEMMA ComponentStep ==
  ASSUME TypeOK, LinksInv, FinishOrder, PhaseInv, ComponentInv, GrowthInv, Next
  PROVE  ComponentInv'
  <1>1. ArgumentTypes /\ LinkTypes /\ ForwardTypes /\ ReverseTypes /\ position <= Len(order)
        /\ position \in Nat /\ identity \in Nat /\ Len(order) \in Nat
    BY FinishedAreVertices DEF TypeOK, ReverseTypes
  <1>2. \A v \in Vertices : result[v] # missing => result[v] \in Nat
    BY <1>1 DEF ReverseTypes
  <1>3. CASE /\ UNCHANGED arguments /\ Forwards /\ Forwards'
             /\ result' = result /\ identity' = identity
    <2>1. Vertices' = Vertices /\ \A v \in Vertices : result'[v] = missing
      BY <1>1, <1>3, ArgumentsRigid DEF PhaseInv
    <2>2. Earlier' = {}
      BY <2>1 DEF Earlier
    <2> QED BY <1>3, <2>1, <2>2 DEF ComponentInv, Forwards
  <1>4. CASE RootsDone
    <2>1. /\ Vertices' = Vertices /\ \A v \in Vertices : result'[v] = missing
          /\ identity' = 0 /\ order' = order /\ position' = Len(order) /\ pc' = "Assign"
      BY <1>1, <1>4, ArgumentsRigid
         DEF RootsDone, LastPosition, PhaseInv, Forwards, forwardPass
    <2>2. Earlier' = {} /\ Current' = {}
      BY <2>1 DEF Earlier, Current, missing
    <2> QED BY <1>1, <2>1, <2>2 DEF ComponentInv
  <1>5. CASE AssignKnown
    <2>1. /\ Vertices' = Vertices /\ Edges' = Edges /\ result' = result /\ identity' = identity
          /\ order' = order /\ position' = position - 1 /\ pc' = "Assign" /\ pc = "Assign"
          /\ result[order[position]] # missing
      BY <1>1, <1>5, ArgumentsRigid DEF AssignKnown, forwardPass
    <2>2. Earlier' = Earlier /\ Current' = Current
      BY <2>1 DEF Earlier, Current
    <2>3. \A j \in 1 .. Len(order) : position - 1 < j => result[order[j]] # missing
      <3>1. \A j \in 1 .. Len(order) : position - 1 < j => position < j \/ j = position
        BY <1>1
      <3> QED BY <2>1, <3>1 DEF ComponentInv, Forwards
    <2> QED BY <2>1, <2>2, <2>3 DEF ComponentInv
  <1>6. CASE AssignNew
    <2> DEFINE r == order[position]
    <2>1. /\ Vertices' = Vertices /\ Edges' = Edges /\ identity' = identity
          /\ order' = order /\ position' = position /\ pc' = "Pop" /\ pc = "Assign"
          /\ result[r] = missing /\ result' = [result EXCEPT ![r] = identity]
      BY <1>1, <1>6, ArgumentsRigid DEF AssignNew, forwardPass
    <2>2. r \in Vertices
      BY <1>1, <1>6, FinishedAreVertices DEF AssignNew
    <2>3. /\ Earlier' = Earlier
          /\ identity # missing /\ result'[r] = identity
          /\ \A v \in Vertices : v # r => result'[v] = result[v]
          /\ \A v \in Earlier : result'[v] = result[v]
      <3> HIDE DEF r
      <3> QED BY <1>1, <1>6, <2>1, <2>2, OneAssigned DEF AssignNew
    <2>4. \A j \in 1 .. Len(order) : position < j => result'[order[j]] # missing
      <3>1. \A j \in 1 .. Len(order) : order[j] \in Vertices
        BY <1>1, FinishedAreVertices
      <3> QED BY <2>1, <2>3, <3>1 DEF ComponentInv, Forwards
    <2>5. \A v \in Vertices : result'[v] # missing => result'[v] <= identity
      BY <1>1, <2>3 DEF ComponentInv
    <2> QED BY <2>1, <2>3, <2>4, <2>5 DEF ComponentInv
  <1>7. CASE AssignDone
    <2>1. /\ Vertices' = Vertices /\ Edges' = Edges /\ result' = result /\ identity' = identity
          /\ order' = order /\ position' = position /\ pc = "Assign" /\ position = 0
      BY <1>1, <1>7, ArgumentsRigid, ForwardRigid, ReverseRigid DEF AssignDone
    <2>2. Earlier' = Earlier /\ Current' = Current
      BY <2>1 DEF Earlier, Current
    <2> QED BY <2>1, <2>2 DEF ComponentInv, Forwards
  <1>8. CASE Pop \/ SpreadDone
    <2>1. /\ Vertices' = Vertices /\ Edges' = Edges /\ result' = result /\ identity' = identity
          /\ order' = order /\ position' = position
          /\ pc \in {"Pop", "Spread"} /\ pc' \in {"Pop", "Spread"}
      BY <1>1, <1>8, ArgumentsRigid DEF Pop, SpreadDone, forwardPass, reversePass
    <2>2. Earlier' = Earlier /\ Current' = Current
      BY <2>1 DEF Earlier, Current
    <2> QED BY <2>1, <2>2 DEF ComponentInv, Forwards
  <1>9. CASE PopDone
    <2>1. /\ Vertices' = Vertices /\ Edges' = Edges /\ result' = result
          /\ identity' = identity + 1 /\ order' = order /\ position' = position - 1
          /\ pc = "Pop" /\ work = <<>> /\ pc' = "Assign"
      BY <1>1, <1>9, ArgumentsRigid DEF PopDone, forwardPass
    <2>2. \A v \in Vertices : result[v] # missing =>
            result[v] <= identity + 1 /\ result[v] # identity + 1
      BY <1>1, <1>2 DEF ComponentInv
    <2>3. /\ Current' = {} /\ Earlier' = {v \in Vertices : result[v] # missing}
      BY <1>1, <2>1, <2>2 DEF Earlier, Current, missing
    <2>4. /\ \A u, v \in Vertices : <<u, v>> \in Edges /\ result[v] # missing => result[u] # missing
          /\ \A u, v \in Vertices : result[u] # missing /\ result[v] # missing =>
               (result[u] = result[v] <=> Mutual(Vertices, Edges, u, v))
      BY <1>1, <2>1, ComponentComplete
    <2>5. \A j \in 1 .. Len(order) : position - 1 < j => result[order[j]] # missing
      <3>1. \A j \in 1 .. Len(order) : position - 1 < j => position < j \/ j = position
        BY <1>1
      <3>2. result[order[position]] # missing
        BY <1>1, <2>1 DEF GrowthInv, Current, missing
      <3> QED BY <2>1, <3>1, <3>2 DEF ComponentInv, Forwards
    <2> QED BY <2>1, <2>2, <2>3, <2>4, <2>5 DEF ComponentInv
  <1>10. CASE Spread
    <2> DEFINE c == reverse[node][next + 1]
    <2>1. /\ Vertices' = Vertices /\ Edges' = Edges /\ identity' = identity
          /\ order' = order /\ position' = position /\ pc = "Spread" /\ pc' = "Spread"
      BY <1>1, <1>10, ArgumentsRigid DEF Spread, forwardPass
    <2>2. CASE result[c] # missing
      <3>1. result' = result
        BY <1>10, <2>2 DEF Spread, Predecessors
      <3>2. Earlier' = Earlier /\ Current' = Current
        BY <2>1, <3>1 DEF Earlier, Current
      <3> QED BY <2>1, <3>1, <3>2 DEF ComponentInv, Forwards
    <2>3. CASE result[c] = missing
      <3>1. result' = [result EXCEPT ![c] = identity]
        BY <1>10, <2>3 DEF Spread, Predecessors
      <3>2. c \in Vertices
        <4>1. node \in Vertices
          BY <1>10 DEF Spread, GrowthInv, Current
        <4> QED BY SMTT(30), <1>1, <1>10, <4>1 DEF Spread, Predecessors, LinkTypes, ReverseTypes
      <3>3. /\ Earlier' = Earlier
            /\ identity # missing /\ result'[c] = identity
            /\ \A v \in Vertices : v # c => result'[v] = result[v]
            /\ \A v \in Earlier : result'[v] = result[v]
        <4> HIDE DEF c
        <4> QED BY <1>1, <1>10, <2>1, <2>3, <3>1, <3>2, OneAssigned DEF Spread
      <3>4. \A j \in 1 .. Len(order) : position < j => result'[order[j]] # missing
        <4>1. \A j \in 1 .. Len(order) : order[j] \in Vertices
          BY <1>1, FinishedAreVertices
        <4> QED BY <2>1, <3>3, <4>1 DEF ComponentInv, Forwards
      <3>5. \A v \in Vertices : result'[v] # missing => result'[v] <= identity
        BY <1>1, <3>3 DEF ComponentInv
      <3> QED BY <2>1, <3>3, <3>4, <3>5 DEF ComponentInv
    <2> QED BY <2>2, <2>3
  <1>11. CASE Returned
    <2>1. /\ Vertices' = Vertices /\ Edges' = Edges /\ result' = result /\ identity' = identity
          /\ order' = order /\ position' = position /\ pc' = pc
      BY <1>11 DEF Returned, vars, Vertices, Edges, Used
    <2>2. Earlier' = Earlier /\ Current' = Current
      BY <2>1 DEF Earlier, Current
    <2> QED BY <2>1, <2>2 DEF ComponentInv, Forwards
  <1>12. ASSUME Link \/ Linked \/ RootSeen \/ RootNew \/ Visit \/ Finish \/ VisitDone
         PROVE  /\ UNCHANGED arguments /\ Forwards /\ Forwards'
                /\ result' = result /\ identity' = identity
    BY <1>12 DEF Link, Linked, RootSeen, RootNew, Visit, Finish, VisitDone, Forwards, reversePass
  <1> QED
    BY <1>3, <1>4, <1>5, <1>6, <1>7, <1>8, <1>9, <1>10, <1>11, <1>12 DEF Next

LEMMA GrowthStep ==
  ASSUME TypeOK, LinksInv, PhaseInv, ComponentInv, GrowthInv, Next
  PROVE  GrowthInv'
  <1>1. ArgumentTypes /\ LinkTypes /\ ForwardTypes /\ ReverseTypes /\ position <= Len(order)
        /\ position \in Nat /\ identity \in Nat /\ Len(order) \in Nat /\ identity # missing
    <2>1. ForwardTypes /\ ReverseTypes /\ identity \in Nat
      BY DEF TypeOK, ReverseTypes
    <2> QED BY <2>1, FinishedAreVertices DEF TypeOK, ReverseTypes, missing
  <1>2. CASE AssignNew
    <2> DEFINE r == order[position]
    <2>1. /\ Vertices' = Vertices /\ Edges' = Edges /\ identity' = identity /\ pc = "Assign"
          /\ order' = order /\ position' = position /\ position > 0 /\ pc' = "Pop"
          /\ result[r] = missing /\ result' = [result EXCEPT ![r] = identity] /\ work' = <<r>>
      BY <1>1, <1>2, ArgumentsRigid DEF AssignNew, forwardPass
    <2>2. r \in Vertices /\ position \in 1 .. position
      BY <1>1, <1>2, FinishedAreVertices DEF AssignNew
    <2>3. Current' = {r}
      <3>1. Current' = Current \cup {r}
        <4> HIDE DEF r
        <4> QED BY <1>1, <1>2, <2>1, <2>2, OneAssigned DEF AssignNew
      <3> QED BY <2>1, <3>1 DEF ComponentInv
    <2>4. r \in Prior(position) /\ Prior(position)' = Prior(position)
      BY <2>1, <2>2 DEF Prior
    <2>5. Reaches(Prior(position), Edges, r, r)
      BY ReachesItself
    <2>6. Len(work') = 1 /\ work'[1] = r /\ 1 \in 1 .. Len(work')
          /\ \A i \in 1 .. Len(work') : work'[i] = r
      BY <2>1
    <2> HIDE DEF r
    <2>7. order'[position'] = r
      BY <2>1 DEF r
    <2>8. \A v \in Current' : v = r
      BY <2>3
    <2> QED BY <2>1, <2>3, <2>4, <2>5, <2>6, <2>7, <2>8 DEF GrowthInv
  <1>3. CASE Pop
    <2> DEFINE n == Len(work)
    <2>1. /\ Vertices' = Vertices /\ Edges' = Edges /\ result' = result /\ identity' = identity
          /\ order' = order /\ position' = position /\ reverse' = reverse
          /\ pc = "Pop" /\ pc' = "Spread" /\ work # <<>>
          /\ node' = work[n] /\ next' = 0 /\ work' = SubSeq(work, 1, n - 1)
      BY <1>1, <1>3, ArgumentsRigid DEF Pop, forwardPass, links
    <2>2. /\ n \in Nat /\ n \in 1 .. n /\ work[n] \in Vertices
          /\ Len(work') = n - 1 /\ \A i \in 1 .. n - 1 : work'[i] = work[i]
      BY <1>1, <2>1, LastOf, FrontOf DEF ReverseTypes
    <2>3. /\ Current' = Current /\ Prior(position)' = Prior(position)
      BY <2>1 DEF Current, Prior
    <2>4. /\ \A i \in 1 .. n : i \in 1 .. n - 1 \/ i = n
          /\ \A i \in 1 .. n - 1 : i \in 1 .. n
      BY <2>2
    <2>5. /\ \A i \in 1 .. Len(work') : work'[i] \in Current
          /\ work[n] \in Current
      BY <2>1, <2>2, <2>4 DEF GrowthInv
    <2>6. Len(reverse[work[n]]) \in Nat
      BY <1>1, <2>2 DEF LinkTypes
    <2>7. ASSUME NEW u \in Vertices, NEW v \in Vertices, <<u, v>> \in Edges, v \in Current
          PROVE  \/ result[u] # missing
                 \/ \E i \in 1 .. Len(work') : work'[i] = v
                 \/ v = node' /\ \E k \in next' + 1 .. Len(reverse[v]) : reverse[v][k] = u
      <3>1. result[u] # missing \/ \E i \in 1 .. n : work[i] = v
        BY <2>1, <2>7 DEF GrowthInv
      <3>2. CASE work[n] = v
        <4>1. PICK k \in 1 .. Len(reverse[v]) : reverse[v][k] = u
          BY <1>1, <2>1, <2>7, LinkedEdges
        <4> QED BY <2>1, <3>2, <4>1
      <3> QED BY <2>2, <2>4, <3>1, <3>2
    <2> QED BY <2>1, <2>3, <2>5, <2>6, <2>7 DEF GrowthInv
  <1>4. CASE Spread
    <2> DEFINE c == reverse[node][next + 1]
               P == Prior(position)
               r == order[position]
    <2>1. /\ Vertices' = Vertices /\ Edges' = Edges /\ identity' = identity
          /\ order' = order /\ position' = position /\ reverse' = reverse
          /\ pc = "Spread" /\ pc' = "Spread" /\ node' = node /\ next' = next + 1
          /\ next < Len(reverse[node])
      BY <1>1, <1>4, ArgumentsRigid DEF Spread, Predecessors, forwardPass, links
    <2>2. /\ node \in Current /\ node \in Vertices /\ next \in Nat
          /\ reverse[node] \in Seq(Vertices) /\ Len(reverse[node]) \in Nat
      <3>1. node \in Current /\ node \in Vertices
        BY <2>1 DEF GrowthInv, Current
      <3> QED BY <1>1, <3>1 DEF LinkTypes, ReverseTypes
    <2>3. next + 1 \in 1 .. Len(reverse[node]) /\ c \in Vertices /\ <<c, node>> \in Edges
      <3>1. next + 1 \in 1 .. Len(reverse[node])
        BY <2>1, <2>2
      <3> QED BY <2>2, <3>1 DEF LinksInv
    <2>4. Prior(position)' = P
      BY <2>1 DEF Prior
    <2>5. next + 1 <= Len(reverse[node])
      BY <2>1, <2>2
    <2>6. \A k \in next + 1 .. Len(reverse[node]) : k = next + 1 \/ k \in next + 1 + 1 .. Len(reverse[node])
      BY <2>2
    <2>7. CASE result[c] # missing
      <3>1. result' = result /\ work' = work
        BY <1>4, <2>7 DEF Spread, Predecessors
      <3>2. Current' = Current
        BY <2>1, <3>1 DEF Current
      <3>3. ASSUME NEW u \in Vertices, NEW v \in Vertices, <<u, v>> \in Edges, v \in Current
            PROVE  \/ result[u] # missing
                   \/ \E i \in 1 .. Len(work) : work[i] = v
                   \/ v = node /\ \E k \in next + 1 + 1 .. Len(reverse[v]) : reverse[v][k] = u
        BY <2>1, <2>6, <2>7, <3>3 DEF GrowthInv
      <3> QED BY <2>1, <2>4, <2>5, <3>1, <3>2, <3>3 DEF GrowthInv
    <2>8. CASE result[c] = missing
      <3>1. result' = [result EXCEPT ![c] = identity] /\ work' = Append(work, c)
        BY <1>4, <2>8 DEF Spread, Predecessors
      <3>2. /\ Current' = Current \cup {c} /\ result'[c] = identity
            /\ \A v \in Vertices : result[v] # missing => result'[v] = result[v]
        <4> HIDE DEF c
        <4> QED BY <1>1, <1>4, <2>1, <2>3, <2>8, <3>1, OneAssigned DEF Spread
      <3>3. /\ Len(work) \in Nat /\ Len(work') = Len(work) + 1 /\ work'[Len(work) + 1] = c
            /\ \A i \in 1 .. Len(work) : work'[i] = work[i]
        <4>1. work \in Seq(Vertices)
          BY <1>1 DEF ReverseTypes
        <4> HIDE DEF c
        <4> QED BY <2>3, <3>1, <4>1, Appended
      <3>4. /\ \A i \in 1 .. Len(work') : i \in 1 .. Len(work) \/ i = Len(work) + 1
            /\ \A i \in 1 .. Len(work) : i \in 1 .. Len(work')
            /\ Len(work) + 1 \in 1 .. Len(work')
        BY <3>3
      <3>5. c \in P /\ Reaches(P, Edges, c, r)
        <4>1. c \in Finished
          BY <2>1, <2>3 DEF PhaseInv, Forwards
        <4>2. PICK j \in 1 .. Len(order) : c = order[j]
          BY <4>1 DEF Finished, Prior
        <4>3. j <= position
          BY <1>1, <2>1, <2>8, <4>2 DEF ComponentInv, Forwards
        <4>4. c \in P
          BY <1>1, <4>2, <4>3 DEF Prior
        <4>5. node \in P /\ Reaches(P, Edges, node, r)
          BY <2>1, <2>2 DEF GrowthInv
        <4>6. Reaches(P, Edges, c, r)
          <5> HIDE DEF P, c, r
          <5> QED BY <2>3, <4>4, <4>5, ReachesBehind
        <4> QED BY <4>4, <4>6
      <3>6. \A v \in Current \cup {c} : v \in P /\ Reaches(P, Edges, v, r)
        BY <2>1, <3>5 DEF GrowthInv
      <3>7. \A i \in 1 .. Len(work') : work'[i] \in Current \cup {c}
        BY <2>1, <3>3, <3>4 DEF GrowthInv
      <3>8. ASSUME NEW u \in Vertices, NEW v \in Vertices, <<u, v>> \in Edges, v \in Current \cup {c}
            PROVE  \/ result'[u] # missing
                   \/ \E i \in 1 .. Len(work') : work'[i] = v
                   \/ v = node /\ \E k \in next + 1 + 1 .. Len(reverse[v]) : reverse[v][k] = u
        <4>1. CASE v = c
          BY <3>3, <3>4, <4>1
        <4>2. CASE v \in Current
          <5>1. \/ result[u] # missing
                \/ \E i \in 1 .. Len(work) : work[i] = v
                \/ v = node /\ \E k \in next + 1 .. Len(reverse[v]) : reverse[v][k] = u
            BY <2>1, <3>8, <4>2 DEF GrowthInv
          <5>2. CASE result[u] # missing
            BY <3>2, <5>2
          <5>3. CASE \E i \in 1 .. Len(work) : work[i] = v
            BY <3>3, <3>4, <5>3
          <5>4. CASE v = node /\ \E k \in next + 1 .. Len(reverse[v]) : reverse[v][k] = u
            <6>1. u = c => result'[u] # missing
              BY <1>1, <3>2
            <6> QED BY <2>6, <5>4, <6>1
          <5> QED BY <5>1, <5>2, <5>3, <5>4
        <4> QED BY <3>8, <4>1, <4>2
      <3>9. r \in Current \cup {c} /\ node \in Current \cup {c} /\ position > 0
        BY <2>1, <2>2 DEF GrowthInv
      <3> HIDE DEF c, P
      <3> QED BY <2>1, <2>4, <2>5, <3>2, <3>6, <3>7, <3>8, <3>9 DEF GrowthInv
    <2> QED BY <2>7, <2>8
  <1>5. CASE SpreadDone
    <2>1. /\ Vertices' = Vertices /\ Edges' = Edges /\ result' = result /\ identity' = identity
          /\ order' = order /\ position' = position /\ reverse' = reverse /\ work' = work
          /\ pc = "Spread" /\ pc' = "Pop" /\ next = Len(reverse[node])
      BY <1>1, <1>5, ArgumentsRigid
         DEF SpreadDone, Predecessors, forwardPass, reversePass, links
    <2>2. Current' = Current /\ Prior(position)' = Prior(position)
      BY <2>1 DEF Current, Prior
    <2>3. ASSUME NEW u \in Vertices, NEW v \in Vertices, <<u, v>> \in Edges, v \in Current
          PROVE  result[u] # missing \/ \E i \in 1 .. Len(work) : work[i] = v
      <3>1. next \in Nat
        BY <1>1 DEF ReverseTypes
      <3>2. \A k : k \notin next + 1 .. next
        BY <3>1
      <3> QED BY <2>1, <2>3, <3>2 DEF GrowthInv
    <2> QED BY <2>1, <2>2, <2>3 DEF GrowthInv
  <1>6. CASE pc' \notin {"Pop", "Spread"}
    BY <1>6 DEF GrowthInv
  <1>7. CASE Returned
    <2>1. pc' = pc /\ pc = "Done"
      BY <1>7 DEF Returned, vars
    <2> QED BY <2>1 DEF GrowthInv
  <1> QED
    BY <1>2, <1>3, <1>4, <1>5, <1>6, <1>7
       DEF Next, Link, Linked, RootSeen, RootNew, RootsDone, Visit, Finish, VisitDone,
           AssignKnown, AssignDone, PopDone

-----------------------------------------------------------------------------
LEMMA Initially ==
  ASSUME Init
  PROVE  IInv
  <1>1. /\ ArgumentTypes /\ pc = "Link" /\ linked = 0
        /\ forward = [v \in Vertices |-> <<>>] /\ reverse = [v \in Vertices |-> <<>>]
        /\ seen = {} /\ order = <<>> /\ root = 0 /\ stack = <<>>
        /\ result = [v \in Vertices |-> missing]
        /\ identity = 0 /\ position = 0 /\ work = <<>> /\ node = missing /\ next = 0
    BY InputsAssumption DEF Init, ArgumentTypes
  <1>2. \A v \in Vertices : forward[v] = <<>> /\ reverse[v] = <<>> /\ result[v] = missing
    BY <1>1
  <1>3. Len(order) = 0 /\ Len(stack) = 0 /\ Len(edges) \in Nat /\ count \in Nat
    BY <1>1 DEF ArgumentTypes
  <1>4. TypeOK
    BY <1>1, <1>3 DEF TypeOK, LinkTypes, ForwardTypes, ReverseTypes
  <1>5. LinksInv
    BY <1>1, <1>2 DEF LinksInv
  <1>6. Finished = {}
    BY <1>3 DEF Finished, Prior
  <1>7. StackInv /\ StackOrder /\ FinishOrder
    BY <1>1, <1>3, <1>6 DEF StackInv, StackOrder, FinishOrder
  <1>8. Earlier = {}
    BY <1>2 DEF Earlier
  <1> QED
    BY <1>1, <1>2, <1>4, <1>5, <1>7, <1>8 DEF IInv, PhaseInv, ComponentInv, GrowthInv, Forwards

LEMMA Stuttering ==
  ASSUME IInv, UNCHANGED vars
  PROVE  IInv'
  <1>1. /\ UNCHANGED arguments /\ UNCHANGED links /\ UNCHANGED forwardPass
        /\ UNCHANGED reversePass /\ pc' = pc
    BY DEF vars, arguments, links, forwardPass, reversePass
  <1>2. ArgumentTypes /\ LinkTypes /\ ForwardTypes /\ ReverseTypes
    BY DEF IInv, TypeOK
  <1>3. /\ Vertices' = Vertices /\ Edges' = Edges /\ edges' = edges /\ (\A e : Used(e)' <=> Used(e))
        /\ ArgumentTypes' /\ LinkTypes' /\ ForwardTypes' /\ ReverseTypes'
        /\ count' = count /\ linked' = linked /\ forward' = forward /\ reverse' = reverse
        /\ seen' = seen /\ order' = order /\ root' = root /\ stack' = stack
        /\ result' = result /\ identity' = identity /\ position' = position
        /\ work' = work /\ node' = node /\ next' = next
    BY <1>1, <1>2, ArgumentsRigid, LinksRigid, ForwardRigid, ReverseRigid
  <1>4. /\ Finished' = Finished /\ (\A i : Prior(i)' = Prior(i)) /\ (\A i : Placed(i)' = Placed(i))
        /\ Current' = Current /\ Earlier' = Earlier /\ (Forwards' <=> Forwards)
        /\ Prior(position)' = Prior(position)
    BY <1>1, <1>3 DEF Finished, Prior, Placed, Current, Earlier, Forwards
  <1>5. TypeOK'
    BY <1>1, <1>3 DEF IInv, TypeOK
  <1>6. LinksInv'
    BY <1>1, <1>3 DEF IInv, LinksInv
  <1>7. StackInv'
    BY <1>3, <1>4 DEF IInv, StackInv
  <1>8. StackOrder' /\ FinishOrder'
    BY <1>3, <1>4 DEF IInv, StackOrder, FinishOrder
  <1>9. PhaseInv'
    BY <1>1, <1>3, <1>4 DEF IInv, PhaseInv
  <1>10. ComponentInv'
    BY <1>1, <1>3, <1>4 DEF IInv, ComponentInv
  <1>11. GrowthInv'
    BY <1>1, <1>3, <1>4 DEF IInv, GrowthInv
  <1> QED BY <1>5, <1>6, <1>7, <1>8, <1>9, <1>10, <1>11 DEF IInv

LEMMA Inductive == Spec => []IInv
  <1>1. Init => IInv
    BY Initially
  <1>2. IInv /\ [Next]_vars => IInv'
    <2>1. ASSUME IInv, Next PROVE IInv'
      BY <2>1, TypeStep, LinksStep, ForwardStep, PhaseStep, ComponentStep, GrowthStep DEF IInv
    <2> QED BY <2>1, Stuttering
  <1> QED BY <1>1, <1>2, PTL DEF Spec

(* No index of the search leaves its vector, on any graph: the types of     *)
(* components()'s variables hold throughout.                                *)
THEOREM TypeCorrect == Spec => []TypeOK
  BY Inductive, PTL DEF IInv

(* The order in which the forward pass finishes is one the reverse pass can *)
(* rely on, at each point of the forward pass and for every graph.          *)
THEOREM OrderIsSound == Spec => []FinishOrder
  BY Inductive, PTL DEF IInv

(* components() computes the strongly connected components, for every number *)
(* of functions and every sequence of calls.                                *)
THEOREM ComponentsAreExact == Spec => []ComponentsAreMutual
  <1>1. IInv => ComponentsAreMutual
    <2> SUFFICES ASSUME IInv, pc = "Done"
                 PROVE  \A u, v \in Vertices : result[u] = result[v] <=> Mutual(Vertices, Edges, u, v)
      BY DEF ComponentsAreMutual
    <2>1. Current = {} /\ position = 0 /\ Vertices \subseteq Finished
      BY DEF IInv, ComponentInv, PhaseInv, Forwards
    <2>2. Len(order) \in Nat
      BY FinishedAreVertices DEF IInv, TypeOK
    <2>3. \A v \in Vertices : result[v] # missing
      BY <2>1, <2>2 DEF IInv, ComponentInv, Finished, Prior, Forwards
    <2>4. \A v \in Vertices : v \in Earlier
      BY <2>1, <2>3 DEF Earlier, Current
    <2> QED BY <2>4 DEF IInv, ComponentInv
  <1> QED BY <1>1, Inductive, PTL
=============================================================================
