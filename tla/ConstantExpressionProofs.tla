----------------------- MODULE ConstantExpressionProofs -----------------------
(***************************************************************************)
(* Proofs about ConstantExpression for every limit and every input: type   *)
(* correctness, the bound on the recursion, the height of what is accepted *)
(* and of what is refused, and the grouping of operators.                  *)
(*                                                                         *)
(* Every action replaces the innermost frame, or replaces it and pushes a  *)
(* callee, or pops it.  The invariants are statements about each frame and *)
(* about each pair of caller and callee, so that three lemmas, one per     *)
(* operation on the stack, carry them from a stack to the next.            *)
(***************************************************************************)
EXTENDS ConstantExpression, SequenceTheorems, FiniteSetTheorems, TLAPS

-----------------------------------------------------------------------------
(* Where the three operations on the call stack leave what. *)

IsPush(s, f, g, t) ==
  /\ t \in Seq(Frames) /\ Len(s) \in Nat \ {0} /\ Len(t) = Len(s) + 1
  /\ t[Len(s)] = f /\ t[Len(t)] = g
  /\ \A i \in 1 .. Len(s) - 1 : t[i] = s[i]

IsReplace(s, f, t) ==
  /\ t \in Seq(Frames) /\ Len(s) \in Nat \ {0} /\ Len(t) = Len(s)
  /\ t[Len(s)] = f
  /\ \A i \in 1 .. Len(s) - 1 : t[i] = s[i]

IsPop(s, t) ==
  /\ t \in Seq(Frames) /\ Len(s) \in Nat \ {0} /\ Len(t) = Len(s) - 1
  /\ \A i \in 1 .. Len(s) - 1 : t[i] = s[i]

LEMMA TopFrame ==
  ASSUME NEW s \in Seq(Frames), s # <<>>
  PROVE  Len(s) \in Nat \ {0} /\ s[Len(s)] \in Frames
  BY EmptySeq, ElementOfSeq

LEMMA Pushed ==
  ASSUME NEW s \in Seq(Frames), s # <<>>, NEW f \in Frames, NEW g \in Frames,
         NEW t, t = Append([s EXCEPT ![Len(s)] = f], g)
  PROVE  IsPush(s, f, g, t) /\ t # <<>>
  <1> DEFINE u == [s EXCEPT ![Len(s)] = f]
  <1>1. /\ u \in Seq(Frames) /\ Len(u) = Len(s) /\ Len(s) \in Nat \ {0} /\ u[Len(s)] = f
        /\ \A i \in 1 .. Len(s) - 1 : u[i] = s[i]
    OBVIOUS
  <1>2. t = Append(u, g)
    OBVIOUS
  <1> HIDE DEF u
  <1>3. /\ t \in Seq(Frames) /\ Len(t) = Len(u) + 1 /\ t[Len(u) + 1] = g /\ t # <<>>
        /\ \A i \in 1 .. Len(u) : t[i] = u[i]
    BY <1>1, <1>2
  <1> QED BY <1>1, <1>3 DEF IsPush

LEMMA Replacement ==
  ASSUME NEW s \in Seq(Frames), s # <<>>, NEW f \in Frames,
         NEW t, t = [s EXCEPT ![Len(s)] = f]
  PROVE  IsReplace(s, f, t) /\ t # <<>>
  BY DEF IsReplace

LEMMA CutOne ==
  ASSUME NEW n \in Nat \ {0}
  PROVE  n - 1 = IF 1 <= n - 1 THEN n - 1 - 1 + 1 ELSE 0
  OBVIOUS

LEMMA Popped ==
  ASSUME NEW s \in Seq(Frames), s # <<>>
  PROVE  IsPop(s, SubSeq(s, 1, Len(s) - 1))
  <1> DEFINE t == SubSeq(s, 1, Len(s) - 1)
  <1>1. Len(s) \in Nat \ {0}
    BY EmptySeq
  <1>2. \A i \in 1 .. Len(s) - 1 : s[i] \in Frames
    BY <1>1, ElementOfSeq
  <1>3. /\ t \in Seq(Frames)
        /\ Len(t) = IF 1 <= Len(s) - 1 THEN Len(s) - 1 - 1 + 1 ELSE 0
        /\ \A i \in 1 .. Len(s) - 1 : t[i] = s[i]
    BY <1>1, <1>2, SubSeqProperties
  <1>4. Len(t) = Len(s) - 1
    BY <1>1, <1>3, CutOne
  <1> QED BY <1>1, <1>3, <1>4 DEF IsPop

-----------------------------------------------------------------------------
(* The recursion *)

FunctionRank(fn) ==
  CASE fn = "Primary" -> 0 [] fn = "Unary" -> 1 [] fn = "Expression" -> 2 [] OTHER -> 3

Rank(frame) == 3 * frame.rem + FunctionRank(frame.fn)

(* A unary or a primary always has budget: the tests at their entry never fail. *)
Funded(frame) == frame.fn \in {"Unary", "Primary"} => frame.rem > 0

(* Every call takes from the rank, and the first has the largest. *)
Ranked(s) ==
  \A i \in 1 .. Len(s) : Rank(s[i]) + i <= 3 * maxConstantTreeDepth + 4 /\ Funded(s[i])

(* A callee's rank is below its caller's. *)
Below(callee, caller) == Rank(callee) < Rank(caller) /\ Funded(callee)

SameCall(f, g) == f.fn = g.fn /\ f.rem = g.rem /\ f.least = g.least

LEMMA RankType ==
  ASSUME NEW f \in Frames PROVE Rank(f) \in Nat /\ (Funded(f) => Rank(f) >= 2)
  BY DepthAssumption DEF Frames, Functions, Rank, FunctionRank, Funded

LEMMA RankedLength ==
  ASSUME NEW s \in Seq(Frames), Ranked(s)
  PROVE  Len(s) <= 3 * maxConstantTreeDepth + 2
  <1>1. CASE s = <<>> BY <1>1, DepthAssumption, EmptySeq
  <1>2. CASE s # <<>>
    <2>1. Len(s) \in Nat \ {0} /\ s[Len(s)] \in Frames
      BY <1>2, TopFrame
    <2>2. Rank(s[Len(s)]) + Len(s) <= 3 * maxConstantTreeDepth + 4 /\ Funded(s[Len(s)])
      BY <2>1 DEF Ranked
    <2>3. Rank(s[Len(s)]) \in Nat /\ Rank(s[Len(s)]) >= 2
      BY <2>1, <2>2, RankType
    <2> QED BY <2>1, <2>2, <2>3, DepthAssumption
  <1> QED BY <1>1, <1>2

(* The rank condition through a call, a continuation and a return. *)
LEMMA RankedPush ==
  ASSUME NEW s \in Seq(Frames), s # <<>>, Ranked(s),
         NEW f \in Frames, SameCall(f, s[Len(s)]), NEW g \in Frames, Below(g, f),
         NEW t, IsPush(s, f, g, t)
  PROVE  Ranked(t)
  <1>1. Len(s) \in Nat \ {0} /\ s[Len(s)] \in Frames BY TopFrame
  <1>2. Rank(f) = Rank(s[Len(s)]) /\ (Funded(s[Len(s)]) => Funded(f))
    BY <1>1 DEF Rank, Funded, SameCall
  <1>3. Rank(f) \in Nat /\ Rank(g) \in Nat BY RankType
  <1>4. Rank(f) + Len(s) <= 3 * maxConstantTreeDepth + 4 /\ Funded(f)
    BY <1>1, <1>2 DEF Ranked
  <1>5. Rank(g) + Len(t) <= 3 * maxConstantTreeDepth + 4 /\ Funded(g)
    BY <1>1, <1>3, <1>4, DepthAssumption DEF Below, IsPush
  <1>6. ASSUME NEW i \in 1 .. Len(t)
        PROVE  Rank(t[i]) + i <= 3 * maxConstantTreeDepth + 4 /\ Funded(t[i])
    <2>1. CASE i \in 1 .. Len(s) - 1 BY <2>1, <1>1 DEF Ranked, IsPush
    <2>2. CASE i = Len(s) BY <2>2, <1>4 DEF IsPush
    <2>3. CASE i = Len(t) BY <2>3, <1>5 DEF IsPush
    <2> QED BY <2>1, <2>2, <2>3 DEF IsPush
  <1> QED BY <1>6 DEF Ranked

LEMMA RankedReplace ==
  ASSUME NEW s \in Seq(Frames), s # <<>>, Ranked(s),
         NEW f \in Frames, SameCall(f, s[Len(s)]),
         NEW t, IsReplace(s, f, t)
  PROVE  Ranked(t)
  <1>1. Len(s) \in Nat \ {0} /\ s[Len(s)] \in Frames BY TopFrame
  <1>2. Rank(f) = Rank(s[Len(s)]) /\ (Funded(s[Len(s)]) => Funded(f))
    BY <1>1 DEF Rank, Funded, SameCall
  <1>3. Rank(f) + Len(s) <= 3 * maxConstantTreeDepth + 4 /\ Funded(f)
    BY <1>1, <1>2 DEF Ranked
  <1>4. ASSUME NEW i \in 1 .. Len(t)
        PROVE  Rank(t[i]) + i <= 3 * maxConstantTreeDepth + 4 /\ Funded(t[i])
    <2>1. CASE i \in 1 .. Len(s) - 1 BY <2>1, <1>1 DEF Ranked, IsReplace
    <2>2. CASE i = Len(s) BY <2>2, <1>3 DEF IsReplace
    <2> QED BY <2>1, <2>2 DEF IsReplace
  <1> QED BY <1>4 DEF Ranked

LEMMA RankedPop ==
  ASSUME NEW s \in Seq(Frames), Ranked(s), NEW t, IsPop(s, t)
  PROVE  Ranked(t)
  BY DEF Ranked, IsPop

-----------------------------------------------------------------------------
(* The heights *)

Waiting == {"left", "right", "true", "false", "operand", "primary", "cast", "paren",
            "argument", "named", "scalar", "element"}

(* The budget of the callee for which a frame waits *)
BudgetBelow(frame) ==
  IF frame.at \in {"left", "primary", "scalar"} THEN frame.rem ELSE frame.rem - 1

(* What is built of a frame's tree leaves room for what the frame waits for. *)
HeightOK(frame) ==
  /\ frame.at \in {"loop", "postfix"} => frame.height \in 1 .. frame.rem
  /\ frame.at \in {"right", "true", "argument"} => frame.height \in 1 .. frame.rem - 1
  /\ frame.at \in {"false", "list", "element"} => frame.height <= frame.rem - 1
  /\ frame.at \in {"start", "open", "type", "paren"} => frame.height = 0
  /\ frame.at = "equals" => frame.rem > 0

Heights(s) == \A i \in 1 .. Len(s) : HeightOK(s[i])

Linked(s) ==
  \A i \in 1 .. Len(s) - 1 : s[i].at \in Waiting /\ s[i + 1].rem = BudgetBelow(s[i])

(* A returned tree keeps the budget that its caller handed down. *)
NodeFits(s, n) ==
  n # none =>
    /\ n.height >= 1
    /\ IF s = <<>> THEN n.height <= maxConstantTreeDepth
       ELSE s[Len(s)].at \in Waiting /\ n.height <= BudgetBelow(s[Len(s)])

(* Budget and levels agree: what a call may still spend is the limit less  *)
(* the levels of the tree above it.                                        *)
Leveled(s) ==
  \A i \in 1 .. Len(s) : s[i].rem + LevelsTo(s, i - 1) = maxConstantTreeDepth

(* The frame's own tree exceeds its budget, with the child n or a leaf. *)
NoRoom(f, n) ==
  \/ AddsLevel(f) /\ Larger(1, n.height) + 1 > f.rem
  \/ Larger(1, n.height) > f.rem
  \/ HoldsPart(f) /\ f.height + 1 > f.rem

Verdicts == {"running", "accepted", "malformed", "deep"}
Nodes == [height : Nat, bind : 0 .. 11]

StackInv ==
  /\ stack \in Seq(Frames) /\ node \in Nodes /\ verdict \in Verdicts
  /\ Ranked(stack) /\ Leveled(stack)
  /\ verdict = "deep" => stack # <<>> /\ NoRoom(stack[Len(stack)], node)
  /\ verdict \in {"running", "accepted"} =>
       Heights(stack) /\ Linked(stack) /\ NodeFits(stack, node)
  /\ verdict = "accepted" => stack = <<>> /\ node # none

LEMMA HeightsPush ==
  ASSUME NEW s \in Seq(Frames), s # <<>>, Heights(s), NEW f \in Frames, NEW g \in Frames,
         HeightOK(f), HeightOK(g), NEW t, IsPush(s, f, g, t)
  PROVE  Heights(t)
  <1>1. ASSUME NEW i \in 1 .. Len(t) PROVE HeightOK(t[i])
    <2>1. CASE i \in 1 .. Len(s) - 1 BY <2>1 DEF Heights, IsPush
    <2>2. CASE i = Len(s) BY <2>2 DEF IsPush
    <2>3. CASE i = Len(t) BY <2>3 DEF IsPush
    <2> QED BY <2>1, <2>2, <2>3 DEF IsPush
  <1> QED BY <1>1 DEF Heights

LEMMA LinkedPush ==
  ASSUME NEW s \in Seq(Frames), s # <<>>, Linked(s), NEW f \in Frames, NEW g \in Frames,
         f.rem = s[Len(s)].rem, f.at \in Waiting, g.rem = BudgetBelow(f),
         NEW t, IsPush(s, f, g, t)
  PROVE  Linked(t)
  <1>1. ASSUME NEW i \in 1 .. Len(t) - 1
        PROVE  t[i].at \in Waiting /\ t[i + 1].rem = BudgetBelow(t[i])
    <2>1. CASE i \in 1 .. Len(s) - 1
      <3>1. t[i] = s[i] /\ t[i + 1].rem = s[i + 1].rem
        <4>1. CASE i + 1 = Len(s) BY <2>1, <4>1 DEF IsPush
        <4>2. CASE i + 1 # Len(s) BY <2>1, <4>2 DEF IsPush
        <4> QED BY <4>1, <4>2
      <3> QED BY <2>1, <3>1 DEF Linked
    <2>2. CASE i = Len(s) BY <2>2 DEF IsPush
    <2> QED BY <2>1, <2>2 DEF IsPush
  <1> QED BY <1>1 DEF Linked

LEMMA HeightsReplace ==
  ASSUME NEW s \in Seq(Frames), s # <<>>, Heights(s), NEW f \in Frames, HeightOK(f),
         NEW t, IsReplace(s, f, t)
  PROVE  Heights(t)
  <1>1. ASSUME NEW i \in 1 .. Len(t) PROVE HeightOK(t[i])
    <2>1. CASE i \in 1 .. Len(s) - 1 BY <2>1 DEF Heights, IsReplace
    <2>2. CASE i = Len(s) BY <2>2 DEF IsReplace
    <2> QED BY <2>1, <2>2 DEF IsReplace
  <1> QED BY <1>1 DEF Heights

LEMMA LinkedReplace ==
  ASSUME NEW s \in Seq(Frames), s # <<>>, Linked(s), NEW f \in Frames,
         f.rem = s[Len(s)].rem, NEW t, IsReplace(s, f, t)
  PROVE  Linked(t)
  <1>1. ASSUME NEW i \in 1 .. Len(t) - 1
        PROVE  t[i].at \in Waiting /\ t[i + 1].rem = BudgetBelow(t[i])
    <2>1. t[i] = s[i] /\ t[i + 1].rem = s[i + 1].rem
      <3>1. CASE i + 1 = Len(s) BY <3>1 DEF IsReplace
      <3>2. CASE i + 1 # Len(s) BY <3>2 DEF IsReplace
      <3> QED BY <3>1, <3>2
    <2> QED BY <2>1 DEF Linked, IsReplace
  <1> QED BY <1>1 DEF Linked

LEMMA HeightsPop ==
  ASSUME NEW s \in Seq(Frames), Heights(s), NEW t, IsPop(s, t)
  PROVE  Heights(t)
  BY DEF Heights, IsPop

LEMMA LinkedPop ==
  ASSUME NEW s \in Seq(Frames), Linked(s), NEW t, IsPop(s, t)
  PROVE  Linked(t)
  BY SMTT(30) DEF Linked, IsPop

-----------------------------------------------------------------------------
(* The levels *)

LEMMA LevelsNext ==
  ASSUME NEW s, NEW i \in Nat
  PROVE  /\ LevelsTo(s, i) \in Nat
         /\ LevelsTo(s, i + 1) = LevelsTo(s, i) + (IF AddsLevel(s[i + 1]) THEN 1 ELSE 0)
  <1> DEFINE L(k) == {j \in 1 .. k : AddsLevel(s[j])}
  <1>1. IsFiniteSet(1 .. i)
    BY FS_Interval
  <1>2. IsFiniteSet(L(i)) /\ Cardinality(L(i)) \in Nat
    BY <1>1, FS_Subset, FS_CardinalityType
  <1>3. CASE AddsLevel(s[i + 1])
    <2>1. L(i + 1) = L(i) \cup {i + 1} /\ i + 1 \notin L(i)
      BY <1>3
    <2>2. Cardinality(L(i + 1)) = Cardinality(L(i)) + 1
      BY <1>2, <2>1, FS_AddElement
    <2> QED BY <1>2, <1>3, <2>2 DEF LevelsTo
  <1>4. CASE ~AddsLevel(s[i + 1])
    <2>1. L(i + 1) = L(i)
      BY <1>4
    <2> QED BY <1>2, <1>4, <2>1 DEF LevelsTo
  <1> QED BY <1>3, <1>4

LEMMA LevelsKept ==
  ASSUME NEW s, NEW t, NEW i \in Int, \A j \in 1 .. i : t[j] = s[j]
  PROVE  LevelsTo(t, i) = LevelsTo(s, i)
  <1>1. {j \in 1 .. i : AddsLevel(t[j])} = {j \in 1 .. i : AddsLevel(s[j])}
    OBVIOUS
  <1> QED BY <1>1 DEF LevelsTo

LEMMA LeveledPush ==
  ASSUME NEW s \in Seq(Frames), s # <<>>, Leveled(s), NEW f \in Frames, NEW g \in Frames,
         f.rem = s[Len(s)].rem, f.at \in Waiting, g.rem = BudgetBelow(f),
         NEW t, IsPush(s, f, g, t)
  PROVE  Leveled(t)
  <1>1. Len(s) \in Nat \ {0} BY TopFrame
  <1>2. \A i \in 1 .. Len(s) : LevelsTo(t, i - 1) = LevelsTo(s, i - 1)
    <2> TAKE i \in 1 .. Len(s)
    <2>1. i - 1 \in Int /\ \A j \in 1 .. i - 1 : t[j] = s[j]
      BY <1>1 DEF IsPush
    <2> QED BY <2>1, LevelsKept
  <1>3. f.rem + LevelsTo(t, Len(s) - 1) = maxConstantTreeDepth
    BY <1>1, <1>2 DEF Leveled
  <1>4. /\ LevelsTo(t, Len(s) - 1) \in Nat
        /\ LevelsTo(t, Len(s)) = LevelsTo(t, Len(s) - 1) + (IF AddsLevel(f) THEN 1 ELSE 0)
    <2>1. Len(s) - 1 \in Nat /\ Len(s) - 1 + 1 = Len(s) /\ t[Len(s)] = f
      BY <1>1 DEF IsPush
    <2> QED BY <2>1, LevelsNext
  <1>5. AddsLevel(f) <=> f.at \notin {"left", "primary", "scalar"}
    BY DEF AddsLevel, Waiting
  <1>6. f.rem \in Int
    BY DepthAssumption DEF Frames
  <1>7. g.rem + LevelsTo(t, Len(s)) = maxConstantTreeDepth
    BY <1>3, <1>4, <1>5, <1>6, DepthAssumption DEF BudgetBelow
  <1>8. ASSUME NEW i \in 1 .. Len(t)
        PROVE  t[i].rem + LevelsTo(t, i - 1) = maxConstantTreeDepth
    <2>1. CASE i \in 1 .. Len(s) - 1 BY <2>1, <1>1, <1>2 DEF Leveled, IsPush
    <2>2. CASE i = Len(s) BY <2>2, <1>3 DEF IsPush
    <2>3. CASE i = Len(t)
      <3>1. t[i].rem = g.rem /\ i - 1 = Len(s)
        BY <1>1, <2>3 DEF IsPush
      <3> QED BY <1>7, <3>1
    <2> QED BY <1>1, <2>1, <2>2, <2>3 DEF IsPush
  <1> QED BY <1>8 DEF Leveled

LEMMA LeveledReplace ==
  ASSUME NEW s \in Seq(Frames), s # <<>>, Leveled(s), NEW f \in Frames,
         f.rem = s[Len(s)].rem, NEW t, IsReplace(s, f, t)
  PROVE  Leveled(t)
  <1>1. Len(s) \in Nat \ {0} BY TopFrame
  <1>2. ASSUME NEW i \in 1 .. Len(t)
        PROVE  t[i].rem + LevelsTo(t, i - 1) = maxConstantTreeDepth
    <2>1. i - 1 \in Int /\ \A j \in 1 .. i - 1 : t[j] = s[j]
      BY <1>1 DEF IsReplace
    <2>2. LevelsTo(t, i - 1) = LevelsTo(s, i - 1)
      BY <2>1, LevelsKept
    <2>3. t[i].rem = s[i].rem /\ i \in 1 .. Len(s)
      BY <1>1 DEF IsReplace
    <2> QED BY <2>2, <2>3 DEF Leveled
  <1> QED BY <1>2 DEF Leveled

LEMMA LeveledPop ==
  ASSUME NEW s \in Seq(Frames), Leveled(s), NEW t, IsPop(s, t)
  PROVE  Leveled(t)
  <1>1. ASSUME NEW i \in 1 .. Len(t)
        PROVE  t[i].rem + LevelsTo(t, i - 1) = maxConstantTreeDepth
    <2>1. i - 1 \in Int /\ \A j \in 1 .. i - 1 : t[j] = s[j]
      BY DEF IsPop
    <2>2. LevelsTo(t, i - 1) = LevelsTo(s, i - 1)
      BY <2>1, LevelsKept
    <2>3. t[i].rem = s[i].rem /\ i \in 1 .. Len(s)
      BY DEF IsPop
    <2> QED BY <2>2, <2>3 DEF Leveled
  <1> QED BY <1>1 DEF Leveled

-----------------------------------------------------------------------------
(* The five ways in which an action ends *)

LEMMA StepCall ==
  ASSUME StackInv, verdict = "running", stack # <<>>,
         NEW f \in Frames, NEW g \in Frames, SameCall(f, Top), Below(g, f),
         HeightOK(f), HeightOK(g), f.at \in Waiting, g.rem = BudgetBelow(f),
         Call(f, g)
  PROVE  StackInv'
  <1>1. IsPush(stack, f, g, stack') /\ stack' # <<>>
    BY Pushed DEF StackInv, Call
  <1>2. stack' \in Seq(Frames) BY <1>1 DEF IsPush
  <1>3. Ranked(stack') BY <1>1, RankedPush DEF StackInv, Top
  <1>4. Heights(stack') BY <1>1, HeightsPush DEF StackInv
  <1>5. Linked(stack') BY <1>1, LinkedPush DEF StackInv, Top, SameCall
  <1>6. node' = none /\ node' \in Nodes /\ verdict' = "running"
    BY DEF Call, none, Nodes
  <1>7. Leveled(stack') BY <1>1, LeveledPush DEF StackInv, Top, SameCall
  <1> QED BY <1>2, <1>3, <1>4, <1>5, <1>6, <1>7 DEF StackInv, NodeFits, Verdicts

LEMMA StepContinue ==
  ASSUME StackInv, verdict = "running", stack # <<>>,
         NEW f \in Frames, SameCall(f, Top), HeightOK(f),
         Continue(f), node' = none
  PROVE  StackInv'
  <1>1. IsReplace(stack, f, stack') /\ stack' # <<>>
    BY Replacement DEF StackInv, Continue
  <1>2. stack' \in Seq(Frames) BY <1>1 DEF IsReplace
  <1>3. Ranked(stack') BY <1>1, RankedReplace DEF StackInv, Top
  <1>4. Heights(stack') BY <1>1, HeightsReplace DEF StackInv
  <1>5. Linked(stack') BY <1>1, LinkedReplace DEF StackInv, Top, SameCall
  <1>6. node' \in Nodes /\ verdict' = "running"
    BY DEF Continue, none, Nodes
  <1>7. Leveled(stack') BY <1>1, LeveledReplace DEF StackInv, Top, SameCall
  <1> QED BY <1>2, <1>3, <1>4, <1>5, <1>6, <1>7 DEF StackInv, NodeFits, Verdicts

LEMMA StepDeep ==
  ASSUME StackInv, stack # <<>>, NEW f \in Frames, SameCall(f, Top),
         NoRoom(f, node), Deep(f)
  PROVE  StackInv'
  <1>1. IsReplace(stack, f, stack') /\ stack' # <<>>
    BY Replacement DEF StackInv, Deep
  <1>2. stack' \in Seq(Frames) BY <1>1 DEF IsReplace
  <1>3. Ranked(stack') BY <1>1, RankedReplace DEF StackInv, Top
  <1>4. node' \in Nodes /\ verdict' = "deep"
    BY DEF Deep, StackInv
  <1>5. Leveled(stack') BY <1>1, LeveledReplace DEF StackInv, Top, SameCall
  <1>6. NoRoom(stack'[Len(stack')], node')
    BY <1>1 DEF IsReplace, Deep
  <1> QED BY <1>1, <1>2, <1>3, <1>4, <1>5, <1>6 DEF StackInv, Verdicts

LEMMA StepMalformed ==
  ASSUME StackInv, Malformed
  PROVE  StackInv'
  BY DEF StackInv, Malformed, Verdicts

LEMMA StepReturn ==
  ASSUME StackInv, verdict = "running", stack # <<>>,
         NEW h \in Nat, h >= 1, h <= Top.rem, NEW b \in 0 .. 11,
         Return(h, b)
  PROVE  StackInv'
  <1>1. IsPop(stack, stack')
    BY Popped DEF StackInv, Return
  <1>2. stack' \in Seq(Frames) BY <1>1 DEF IsPop
  <1>3. Ranked(stack') BY <1>1, RankedPop DEF StackInv
  <1>4. Heights(stack') BY <1>1, HeightsPop DEF StackInv
  <1>5. Linked(stack') BY <1>1, LinkedPop DEF StackInv
  <1>6. /\ node' \in Nodes /\ node' # none
        /\ node'.height = h
    BY DEF Return, none, Nodes
  <1>7. Len(stack) \in Nat \ {0} /\ Top \in Frames
    BY TopFrame DEF StackInv, Top
  <1>8. NodeFits(stack', node')
    <2>1. CASE stack' = <<>>
      <3>1. h <= maxConstantTreeDepth BY <1>7, DepthAssumption DEF Frames
      <3> QED BY <2>1, <1>6, <3>1 DEF NodeFits
    <2>2. CASE stack' # <<>>
      <3>1. Len(stack') \in Nat \ {0} BY <1>2, <2>2, TopFrame
      <3>2. /\ Len(stack') = Len(stack) - 1
            /\ stack'[Len(stack')] = stack[Len(stack) - 1]
        BY <1>1, <1>7, <3>1 DEF IsPop
      <3>3. /\ stack[Len(stack) - 1].at \in Waiting
            /\ Top.rem = BudgetBelow(stack[Len(stack) - 1])
        BY <1>7, <3>1, <3>2 DEF StackInv, Linked, Top
      <3> QED BY <2>2, <1>6, <3>2, <3>3 DEF NodeFits
    <2> QED BY <2>1, <2>2
  <1>9. /\ verdict' \in Verdicts
        /\ verdict' = "accepted" => stack' = <<>>
    <2>1. Len(stack) = 1 => stack' = <<>>
      BY <1>1, <1>2, <1>7, EmptySeq DEF IsPop
    <2> QED BY <2>1 DEF Return, Verdicts
  <1>10. Leveled(stack') /\ verdict' # "deep"
    BY <1>1, LeveledPop DEF StackInv, Return
  <1> QED BY <1>2, <1>3, <1>4, <1>5, <1>6, <1>8, <1>9, <1>10 DEF StackInv

-----------------------------------------------------------------------------
(* The actions *)

LEMMA TopFacts ==
  ASSUME StackInv, NEW fn, NEW at, Running(fn, at)
  PROVE  /\ stack # <<>> /\ verdict = "running"
         /\ Top \in Frames /\ Top.fn = fn /\ Top.at = at
         /\ Top.rem \in Nat /\ Top.height \in Nat /\ node \in Nodes
         /\ HeightOK(Top) /\ Funded(Top)
         /\ node # none => node.height \in Nat /\ node.height >= 1
                           /\ node.height <= BudgetBelow(Top)
  <1>1. Len(stack) \in Nat \ {0} /\ Top \in Frames
    BY TopFrame DEF StackInv, Running, Top
  <1>2. stack # <<>> /\ verdict = "running" /\ Top.fn = fn /\ Top.at = at
    BY DEF Running
  <1>3. HeightOK(Top) /\ Funded(Top)
    BY <1>1, <1>2 DEF StackInv, Heights, Ranked, Top
  <1>4. node \in Nodes /\ NodeFits(stack, node)
    BY <1>2 DEF StackInv
  <1>5. Top.rem \in Nat /\ Top.height \in Nat
    BY <1>1, DepthAssumption DEF Frames
  <1> QED BY <1>1, <1>2, <1>3, <1>4, <1>5 DEF NodeFits, Nodes, Top

(* A fresh frame *)
LEMMA NewFrame ==
  ASSUME NEW fn \in Functions, NEW least \in 0 .. 11, NEW rem \in 0 .. maxConstantTreeDepth
  PROVE  /\ Frame(fn, least, rem) \in Frames /\ HeightOK(Frame(fn, least, rem))
         /\ Frame(fn, least, rem).fn = fn /\ Frame(fn, least, rem).rem = rem
  BY DepthAssumption DEF Frame, Frames, Points, HeightOK

(* A frame that moves to another point *)
LEMMA Moved ==
  ASSUME NEW f \in Frames, NEW at \in Points
  PROVE  /\ [f EXCEPT !.at = at] \in Frames /\ SameCall([f EXCEPT !.at = at], f)
         /\ [f EXCEPT !.at = at].at = at /\ [f EXCEPT !.at = at].height = f.height
  BY DEF Frames, SameCall

(* A callee of this budget may be entered from the frame. *)
Fits(f, fn, rem) ==
  /\ rem \in 0 .. maxConstantTreeDepth /\ rem = BudgetBelow(f)
  /\ HeightOK(f) /\ f.at \in Waiting
  /\ 3 * rem + FunctionRank(fn) < Rank(f)
  /\ fn \in {"Unary", "Primary"} => rem > 0

LEMMA StepDescend ==
  ASSUME StackInv, verdict = "running", stack # <<>>,
         NEW f \in Frames, SameCall(f, Top),
         NEW fits, NEW fn \in Functions, NEW least \in 0 .. 11, NEW rem,
         fits => Fits(f, fn, rem), ~fits => NoRoom(f, node),
         Descend(f, fits, Frame(fn, least, rem))
  PROVE  StackInv'
  <1>1. CASE fits /\ Call(f, Frame(fn, least, rem))
    <2> DEFINE g == Frame(fn, least, rem)
    <2>1. g \in Frames /\ HeightOK(g) /\ g.fn = fn /\ g.rem = rem
      BY <1>1, NewFrame DEF Fits
    <2>2. Below(g, f)
      BY <1>1, <2>1 DEF Below, Rank, Funded, Fits
    <2>3. Call(f, g) BY <1>1
    <2>4. HeightOK(f) /\ f.at \in Waiting /\ g.rem = BudgetBelow(f)
      BY <1>1, <2>1 DEF Fits
    <2> HIDE DEF g
    <2> QED BY <2>1, <2>2, <2>3, <2>4, StepCall
  <1>2. CASE ~fits /\ Deep(f)
    BY <1>2, StepDeep
  <1> QED BY <1>1, <1>2 DEF Descend

LEMMA ExpressionStartInv ==
  ASSUME StackInv, ExpressionStart PROVE StackInv'
  <1> DEFINE f == [Top EXCEPT !.at = "left"]
  <1>1. /\ stack # <<>> /\ verdict = "running" /\ Top \in Frames /\ Top.fn = "Expression"
        /\ Top.rem \in 0 .. maxConstantTreeDepth
    BY TopFacts, DepthAssumption DEF ExpressionStart, In, Frames
  <1>2. f \in Frames /\ SameCall(f, Top) /\ f.at = "left"
    BY ZenonT(30), <1>1, Moved DEF Points
  <1>3. Descend(f, Top.rem > 0, Frame("Unary", 0, Top.rem))
    BY DEF ExpressionStart
  <1> HIDE DEF f
  <1>4. Top.rem > 0 => Fits(f, "Unary", Top.rem)
    BY <1>1, <1>2, DepthAssumption
       DEF Fits, BudgetBelow, HeightOK, Waiting, SameCall, Rank, FunctionRank
  <1>5. "Unary" \in Functions /\ 0 \in 0 .. 11
    BY DEF Functions
  <1>6. ~(Top.rem > 0) => NoRoom(f, node)
    BY <1>1, <1>2, TopFacts
    DEF ExpressionStart, In, Nodes, NoRoom, AddsLevel, HoldsPart, Larger, SameCall
  <1> QED BY <1>1, <1>2, <1>3, <1>4, <1>5, <1>6, StepDescend

LEMMA ExpressionLeftInv ==
  ASSUME StackInv, ExpressionLeft PROVE StackInv'
  <1> DEFINE f == [Top EXCEPT !.at = "loop", !.height = node.height, !.bind = node.bind]
  <1>1. /\ stack # <<>> /\ verdict = "running" /\ Top \in Frames /\ Top.at = "left"
        /\ Top.rem \in Nat /\ node \in Nodes /\ node.height \in Nat
        /\ node.height >= 1 /\ node.height <= BudgetBelow(Top)
    BY TopFacts DEF ExpressionLeft, Returned
  <1>2. f \in Frames /\ SameCall(f, Top) /\ f.at = "loop" /\ f.height = node.height
    <2>1. "loop" \in Points /\ node.bind \in 0 .. 11
      BY <1>1 DEF Points, Nodes
    <2> QED BY <1>1, <2>1 DEF Frames, SameCall
  <1>3. HeightOK(f)
    BY <1>1, <1>2 DEF HeightOK, BudgetBelow, SameCall
  <1> HIDE DEF f
  <1> QED BY <1>1, <1>2, <1>3, StepContinue DEF ExpressionLeft, f

LEMMA ExpressionBinaryInv ==
  ASSUME StackInv, ExpressionBinary PROVE StackInv'
  <1> DEFINE op == constantBinaryPrecedence(look)
             f == [Top EXCEPT !.at = "right", !.op = op]
  <1>1. /\ stack # <<>> /\ verdict = "running" /\ Top \in Frames /\ Top.fn = "Expression"
        /\ Top.at = "loop" /\ Top.height \in Nat /\ HeightOK(Top)
        /\ Top.rem \in 0 .. maxConstantTreeDepth
    BY TopFacts, DepthAssumption DEF ExpressionBinary, In, Frames
  <1>2. op \in 1 .. 10
    BY <1>1 DEF ExpressionBinary, constantBinaryPrecedence, Frames
  <1>3. f \in Frames /\ SameCall(f, Top) /\ f.at = "right" /\ f.height = Top.height
    <2>1. "right" \in Points /\ op \in 0 .. 10
      BY <1>2 DEF Points
    <2> HIDE DEF op
    <2> QED BY <1>1, <2>1 DEF Frames, SameCall
  <1>4. Descend(f, ~AtLimit(Top.height, Top.rem),
                Frame("Expression", RightLeast(op), ChildBudget(Top.rem)))
    BY DEF ExpressionBinary
  <1> HIDE DEF f, op
  <1>5. ~AtLimit(Top.height, Top.rem) => Fits(f, "Expression", ChildBudget(Top.rem))
    BY <1>1, <1>3, DepthAssumption
       DEF AtLimit, ChildBudget, Fits, BudgetBelow, HeightOK, Waiting, SameCall, Rank,
           FunctionRank
  <1>6. "Expression" \in Functions /\ RightLeast(op) \in 0 .. 11
    BY <1>2 DEF Functions, RightLeast
  <1>7. ~~AtLimit(Top.height, Top.rem) => NoRoom(f, node)
    BY <1>1, <1>3, TopFacts
    DEF ExpressionBinary, In, Nodes, NoRoom, AddsLevel, HoldsPart, Larger, SameCall, AtLimit
  <1> QED BY <1>1, <1>3, <1>4, <1>5, <1>6, <1>7, StepDescend

LEMMA ExpressionRightInv ==
  ASSUME StackInv, ExpressionRight PROVE StackInv'
  <1> DEFINE depth == Larger(Top.height, node.height) + 1
             f == [Top EXCEPT !.at = "loop", !.height = depth, !.bind = Top.op]
  <1>1. /\ stack # <<>> /\ verdict = "running" /\ Top \in Frames
        /\ Top.height \in Nat /\ Top.rem \in Nat /\ node.height \in Nat /\ Top.at = "right"
    BY TopFacts DEF ExpressionRight, Returned
  <1>2. CASE depth > Top.rem /\ Deep(Top)
    <2>1. NoRoom(Top, node)
      BY <1>1, <1>2 DEF NoRoom, AddsLevel, HoldsPart, Larger
    <2> QED BY <1>1, <1>2, <2>1, StepDeep DEF SameCall
  <1>3. CASE depth <= Top.rem /\ Continue(f) /\ node' = none
    <2>1. depth \in Nat /\ depth >= 1
      BY <1>1 DEF Larger
    <2>2. f \in Frames /\ SameCall(f, Top) /\ f.at = "loop" /\ f.height = depth
      <3>1. "loop" \in Points /\ Top.op \in 0 .. 11
        BY <1>1 DEF Points, Frames
      <3> HIDE DEF depth
      <3> QED BY <1>1, <2>1, <3>1 DEF Frames, SameCall
    <2>3. HeightOK(f)
      <3> HIDE DEF depth
      <3> QED BY <1>1, <1>3, <2>1, <2>2 DEF HeightOK, SameCall
    <2> HIDE DEF f
    <2> QED BY <1>1, <1>3, <2>2, <2>3, StepContinue
  <1> QED BY <1>2, <1>3 DEF ExpressionRight

LEMMA ExpressionQuestionInv ==
  ASSUME StackInv, ExpressionQuestion PROVE StackInv'
  <1> DEFINE f == [Top EXCEPT !.at = "true"]
  <1>1. /\ stack # <<>> /\ verdict = "running" /\ Top \in Frames /\ Top.fn = "Expression"
        /\ Top.at = "loop" /\ Top.height \in Nat /\ HeightOK(Top) /\ Funded(Top)
        /\ Top.rem \in 0 .. maxConstantTreeDepth
    BY TopFacts, DepthAssumption DEF ExpressionQuestion, In, Frames
  <1>2. f \in Frames /\ SameCall(f, Top) /\ f.at = "true" /\ f.height = Top.height
    BY ZenonT(30), <1>1, Moved DEF Points
  <1>3. Descend(f, ~AtLimit(Top.height, Top.rem), Frame("Expression", 0, ChildBudget(Top.rem)))
    BY DEF ExpressionQuestion
  <1> HIDE DEF f
  <1>4. ~AtLimit(Top.height, Top.rem) => Fits(f, "Expression", ChildBudget(Top.rem))
    BY <1>1, <1>2, DepthAssumption
       DEF AtLimit, ChildBudget, Fits, BudgetBelow, HeightOK, Funded, Waiting, SameCall, Rank,
           FunctionRank
  <1>5. "Expression" \in Functions /\ 0 \in 0 .. 11
    BY DEF Functions
  <1>6. ~~AtLimit(Top.height, Top.rem) => NoRoom(f, node)
    BY <1>1, <1>2, TopFacts
    DEF ExpressionQuestion, In, Nodes, NoRoom, AddsLevel, HoldsPart, Larger, SameCall,
        AtLimit
  <1> QED BY <1>1, <1>2, <1>3, <1>4, <1>5, <1>6, StepDescend

LEMMA ExpressionColonInv ==
  ASSUME StackInv, ExpressionColon PROVE StackInv'
  <1> DEFINE h == Larger(Top.height, node.height)
             f == [Top EXCEPT !.at = "false", !.height = h]
             g == Frame("Expression", 0, ChildBudget(Top.rem))
  <1>1. /\ stack # <<>> /\ verdict = "running" /\ Top \in Frames /\ Top.fn = "Expression"
        /\ Top.at = "true" /\ Top.height \in Nat /\ HeightOK(Top)
        /\ Top.rem \in 0 .. maxConstantTreeDepth /\ node \in Nodes
        /\ node.height \in Nat /\ node.height >= 1 /\ node.height <= BudgetBelow(Top)
    BY TopFacts, DepthAssumption DEF ExpressionColon, Returned, Frames
  <1>2. CASE Malformed
    BY <1>2, StepMalformed
  <1>3. CASE Call(f, g)
    <2>1. h \in Nat /\ h <= Top.rem - 1 /\ Top.rem > 0 /\ "false" \in Points
      BY <1>1 DEF Larger, HeightOK, BudgetBelow, Points
    <2>2. f \in Frames /\ SameCall(f, Top) /\ f.at = "false" /\ f.height = h
      <3> HIDE DEF h
      <3> QED BY <1>1, <2>1 DEF Frames, SameCall
    <2>3. Descend(f, TRUE, g)
      BY <1>3 DEF Descend
    <2> HIDE DEF f, h
    <2>4. Fits(f, "Expression", ChildBudget(Top.rem))
      BY SMTT(30), <1>1, <2>1, <2>2, DepthAssumption
         DEF ChildBudget, Fits, BudgetBelow, HeightOK, Waiting, SameCall, Rank, FunctionRank
    <2>5. "Expression" \in Functions /\ 0 \in 0 .. 11
      BY DEF Functions
    <2> QED BY <1>1, <2>2, <2>3, <2>4, <2>5, StepDescend
  <1> QED BY <1>2, <1>3 DEF ExpressionColon

LEMMA ExpressionFalseInv ==
  ASSUME StackInv, ExpressionFalse PROVE StackInv'
  <1> DEFINE depth == Larger(Top.height, node.height) + 1
  <1>1. /\ stack # <<>> /\ verdict = "running" /\ Top \in Frames /\ Top.fn = "Expression"
        /\ Top.at = "false" /\ Top.height \in Nat /\ HeightOK(Top)
        /\ Top.rem \in 0 .. maxConstantTreeDepth /\ node \in Nodes
        /\ node.height \in Nat /\ node.height >= 1 /\ node.height <= BudgetBelow(Top)
    BY TopFacts, DepthAssumption DEF ExpressionFalse, Returned, Frames
  <1>2. CASE depth > Top.rem /\ Deep(Top)
    <2>1. NoRoom(Top, node)
      BY <1>1, <1>2 DEF NoRoom, AddsLevel, HoldsPart, Larger
    <2> QED BY <1>1, <1>2, <2>1, StepDeep DEF SameCall
  <1>3. CASE depth <= Top.rem /\ Return(depth, 0)
    <2>1. depth \in Nat /\ depth >= 1 /\ 0 \in 0 .. 11
      BY <1>1 DEF Larger
    <2> QED BY <1>1, <1>3, <2>1, StepReturn
  <1> QED BY <1>1, <1>2, <1>3 DEF ExpressionFalse, Larger

LEMMA ExpressionEndInv ==
  ASSUME StackInv, ExpressionEnd PROVE StackInv'
  <1>1. /\ stack # <<>> /\ verdict = "running" /\ Top \in Frames /\ Top.fn = "Expression"
        /\ Top.at = "loop" /\ Top.height \in Nat /\ HeightOK(Top) /\ Funded(Top)
        /\ Top.rem \in 0 .. maxConstantTreeDepth
    BY TopFacts, DepthAssumption DEF ExpressionEnd, In, Frames
  <1>2. Top.height >= 1 /\ Top.height <= Top.rem /\ Top.bind \in 0 .. 11
    BY <1>1 DEF HeightOK, Frames
  <1>3. Return(Top.height, Top.bind)
    BY DEF ExpressionEnd
  <1> QED BY <1>1, <1>2, <1>3, StepReturn

LEMMA UnaryOperatorInv ==
  ASSUME StackInv, UnaryOperator PROVE StackInv'
  <1> DEFINE f == [Top EXCEPT !.at = "operand"]
  <1>1. /\ stack # <<>> /\ verdict = "running" /\ Top \in Frames /\ Top.fn = "Unary"
        /\ Top.at = "start" /\ Top.height \in Nat /\ HeightOK(Top) /\ Funded(Top)
        /\ Top.rem \in 0 .. maxConstantTreeDepth
    BY TopFacts, DepthAssumption DEF UnaryOperator, In, Frames
  <1>2. f \in Frames /\ SameCall(f, Top) /\ f.at = "operand" /\ f.height = Top.height
    BY ZenonT(30), <1>1, Moved DEF Points
  <1>3. Descend(f, Top.rem # 1, Frame("Unary", 0, ChildBudget(Top.rem)))
    BY DEF UnaryOperator
  <1> HIDE DEF f
  <1>4. Top.rem # 1 => Fits(f, "Unary", ChildBudget(Top.rem))
    BY <1>1, <1>2, DepthAssumption
       DEF AtLimit, ChildBudget, Fits, BudgetBelow, HeightOK, Funded, Waiting, SameCall, Rank,
           FunctionRank
  <1>5. "Unary" \in Functions /\ 0 \in 0 .. 11
    BY DEF Functions
  <1>6. ~(Top.rem # 1) => NoRoom(f, node)
    BY <1>1, <1>2, TopFacts
    DEF UnaryOperator, In, Nodes, NoRoom, AddsLevel, HoldsPart, Larger, SameCall
  <1> QED BY <1>1, <1>2, <1>3, <1>4, <1>5, <1>6, StepDescend

LEMMA UnaryPrimaryInv ==
  ASSUME StackInv, UnaryPrimary PROVE StackInv'
  <1> DEFINE f == [Top EXCEPT !.at = "primary"]
  <1>1. /\ stack # <<>> /\ verdict = "running" /\ Top \in Frames /\ Top.fn = "Unary"
        /\ Top.at = "start" /\ Top.height \in Nat /\ HeightOK(Top) /\ Funded(Top)
        /\ Top.rem \in 0 .. maxConstantTreeDepth
    BY TopFacts, DepthAssumption DEF UnaryPrimary, In, Frames
  <1>2. f \in Frames /\ SameCall(f, Top) /\ f.at = "primary" /\ f.height = Top.height
    BY ZenonT(30), <1>1, Moved DEF Points
  <1>3. Descend(f, Top.rem > 0, Frame("Primary", 0, Top.rem))
    BY DEF UnaryPrimary
  <1> HIDE DEF f
  <1>4. Top.rem > 0 => Fits(f, "Primary", Top.rem)
    BY <1>1, <1>2, DepthAssumption
       DEF AtLimit, ChildBudget, Fits, BudgetBelow, HeightOK, Funded, Waiting, SameCall, Rank,
           FunctionRank
  <1>5. "Primary" \in Functions /\ 0 \in 0 .. 11
    BY DEF Functions
  <1>6. ~(Top.rem > 0) => NoRoom(f, node)
    BY <1>1, <1>2, TopFacts
    DEF UnaryPrimary, In, Nodes, NoRoom, AddsLevel, HoldsPart, Larger, SameCall
  <1> QED BY <1>1, <1>2, <1>3, <1>4, <1>5, <1>6, StepDescend

LEMMA UnaryEndInv ==
  ASSUME StackInv, UnaryEnd PROVE StackInv'
  <1>1. CASE Returned("Unary", "operand") /\ Return(node.height + 1, 11)
    <2>1. /\ stack # <<>> /\ verdict = "running" /\ Top.at = "operand" /\ Top.rem \in Nat
          /\ node.height \in Nat /\ node.height <= BudgetBelow(Top)
      BY <1>1, TopFacts DEF Returned
    <2>2. /\ node.height + 1 \in Nat /\ node.height + 1 >= 1
          /\ node.height + 1 <= Top.rem /\ 11 \in 0 .. 11
      BY <2>1 DEF BudgetBelow
    <2> QED BY <1>1, <2>1, <2>2, StepReturn
  <1>2. CASE Returned("Unary", "primary") /\ Return(node.height, node.bind)
    <2>1. /\ stack # <<>> /\ verdict = "running" /\ Top.at = "primary" /\ Top.rem \in Nat
          /\ node \in Nodes /\ node.height \in Nat /\ node.height >= 1
          /\ node.height <= BudgetBelow(Top)
      BY <1>2, TopFacts DEF Returned
    <2>2. node.height <= Top.rem /\ node.bind \in 0 .. 11
      BY <2>1 DEF BudgetBelow, Nodes
    <2> QED BY <1>2, <2>1, <2>2, StepReturn
  <1> QED BY <1>1, <1>2 DEF UnaryEnd

LEMMA PrimaryLeafInv ==
  ASSUME StackInv, PrimaryLeaf PROVE StackInv'
  <1> DEFINE f == [Top EXCEPT !.at = "postfix", !.height = 1]
  <1>1. /\ stack # <<>> /\ verdict = "running" /\ Top \in Frames /\ Top.fn = "Primary"
        /\ Top.at = "start" /\ Top.height \in Nat /\ HeightOK(Top) /\ Funded(Top)
        /\ Top.rem \in 0 .. maxConstantTreeDepth
    BY TopFacts, DepthAssumption DEF PrimaryLeaf, In, Frames
  <1>2. f \in Frames /\ SameCall(f, Top) /\ f.at = "postfix" /\ f.height = 1
    BY <1>1 DEF Frames, SameCall, Points
  <1>3. Continue(f) /\ node' = none
    BY DEF PrimaryLeaf, In
  <1> HIDE DEF f
  <1>4. HeightOK(f)
    BY <1>1, <1>2 DEF HeightOK, Funded, SameCall
  <1> QED BY <1>1, <1>2, <1>3, <1>4, StepContinue

LEMMA PrimaryOpenInv ==
  ASSUME StackInv, PrimaryOpen PROVE StackInv'
  <1> DEFINE f == [Top EXCEPT !.at = "open"]
  <1>1. /\ stack # <<>> /\ verdict = "running" /\ Top \in Frames /\ Top.fn = "Primary"
        /\ Top.at = "start" /\ Top.height \in Nat /\ HeightOK(Top) /\ Funded(Top)
        /\ Top.rem \in 0 .. maxConstantTreeDepth
    BY TopFacts, DepthAssumption DEF PrimaryOpen, In, Frames
  <1>2. f \in Frames /\ SameCall(f, Top) /\ f.at = "open" /\ f.height = Top.height
    BY <1>1, Moved DEF Points
  <1>3. CASE Malformed
    BY <1>3, StepMalformed
  <1>4. CASE Continue(f) /\ UNCHANGED node
    <2> HIDE DEF f
    <2>1. HeightOK(f)
      BY <1>1, <1>2 DEF HeightOK
    <2>2. node' = none
      BY <1>4 DEF PrimaryOpen, In
    <2> QED BY <1>1, <1>2, <1>4, <2>1, <2>2, StepContinue
  <1> QED BY <1>3, <1>4 DEF PrimaryOpen

LEMMA PrimaryParenInv ==
  ASSUME StackInv, PrimaryParen PROVE StackInv'
  <1> DEFINE f == [Top EXCEPT !.at = "paren"]
  <1>1. /\ stack # <<>> /\ verdict = "running" /\ Top \in Frames /\ Top.fn = "Primary"
        /\ Top.at = "open" /\ Top.height \in Nat /\ HeightOK(Top) /\ Funded(Top)
        /\ Top.rem \in 0 .. maxConstantTreeDepth
    BY TopFacts, DepthAssumption DEF PrimaryParen, In, Frames
  <1>2. f \in Frames /\ SameCall(f, Top) /\ f.at = "paren" /\ f.height = Top.height
    BY <1>1, Moved DEF Points
  <1>3. Descend(f, Top.rem # 1, Frame("Expression", 0, ChildBudget(Top.rem)))
    BY DEF PrimaryParen
  <1> HIDE DEF f
  <1>4. Top.rem # 1 => Fits(f, "Expression", ChildBudget(Top.rem))
    BY <1>1, <1>2, DepthAssumption
       DEF AtLimit, ChildBudget, Fits, BudgetBelow, HeightOK, Funded, Waiting, SameCall, Rank,
           FunctionRank
  <1>5. "Expression" \in Functions /\ 0 \in 0 .. 11
    BY DEF Functions
  <1>6. ~(Top.rem # 1) => NoRoom(f, node)
    BY <1>1, <1>2, TopFacts
    DEF PrimaryParen, In, Nodes, NoRoom, AddsLevel, HoldsPart, Larger, SameCall
  <1> QED BY <1>1, <1>2, <1>3, <1>4, <1>5, <1>6, StepDescend

LEMMA PrimaryCastInv ==
  ASSUME StackInv, PrimaryCast PROVE StackInv'
  <1>1. CASE In("Primary", "open") /\ Continue([Top EXCEPT !.at = "type"]) /\ UNCHANGED node
    <2> DEFINE f == [Top EXCEPT !.at = "type"]
    <2>1. /\ stack # <<>> /\ verdict = "running" /\ Top \in Frames /\ Top.at = "open"
          /\ HeightOK(Top) /\ node' = none
      BY <1>1, TopFacts DEF In
    <2>2. f \in Frames /\ SameCall(f, Top) /\ f.at = "type" /\ f.height = Top.height
      BY <2>1, Moved DEF Points
    <2>3. Continue(f)
      BY <1>1
    <2> HIDE DEF f
    <2>4. HeightOK(f)
      BY <2>1, <2>2 DEF HeightOK
    <2> QED BY <2>1, <2>2, <2>3, <2>4, StepContinue
  <1>2. CASE Malformed
    BY <1>2, StepMalformed
  <1>3. CASE /\ In("Primary", "type")
             /\ Descend([Top EXCEPT !.at = "cast"], Top.rem # 1,
                        Frame("Unary", 0, ChildBudget(Top.rem)))
    <2> DEFINE f == [Top EXCEPT !.at = "cast"]
    <2>1. /\ stack # <<>> /\ verdict = "running" /\ Top \in Frames /\ Top.fn = "Primary"
          /\ Funded(Top) /\ Top.rem \in 0 .. maxConstantTreeDepth
      BY <1>3, TopFacts, DepthAssumption DEF In, Frames
    <2>2. f \in Frames /\ SameCall(f, Top) /\ f.at = "cast" /\ f.height = Top.height
      BY <2>1, Moved DEF Points
    <2>3. Descend(f, Top.rem # 1, Frame("Unary", 0, ChildBudget(Top.rem)))
      BY <1>3
    <2> HIDE DEF f
    <2>4. Top.rem # 1 => Fits(f, "Unary", ChildBudget(Top.rem))
      BY <2>1, <2>2, DepthAssumption
         DEF ChildBudget, Fits, BudgetBelow, HeightOK, Funded, Waiting, SameCall, Rank,
             FunctionRank
    <2>5. "Unary" \in Functions /\ 0 \in 0 .. 11
      BY DEF Functions
    <2>6. ~(Top.rem # 1) => NoRoom(f, node)
      BY <1>3, <2>1, <2>2, TopFacts
      DEF In, Nodes, NoRoom, AddsLevel, HoldsPart, Larger, SameCall
    <2> QED BY <2>1, <2>2, <2>3, <2>4, <2>5, <2>6, StepDescend
  <1> QED BY <1>1, <1>2, <1>3 DEF PrimaryCast

LEMMA PrimaryCastEndInv ==
  ASSUME StackInv, PrimaryCastEnd PROVE StackInv'
  <1>1. /\ stack # <<>> /\ verdict = "running" /\ Top \in Frames /\ Top.fn = "Primary"
        /\ Top.at = "cast" /\ Top.height \in Nat /\ HeightOK(Top)
        /\ Top.rem \in 0 .. maxConstantTreeDepth /\ node \in Nodes
        /\ node.height \in Nat /\ node.height >= 1 /\ node.height <= BudgetBelow(Top)
    BY TopFacts, DepthAssumption DEF PrimaryCastEnd, Returned, Frames
  <1>2. /\ node.height + 1 \in Nat /\ node.height + 1 >= 1
        /\ node.height + 1 <= Top.rem /\ 11 \in 0 .. 11
    BY <1>1 DEF BudgetBelow
  <1>3. Return(node.height + 1, 11)
    BY DEF PrimaryCastEnd
  <1> QED BY <1>1, <1>2, <1>3, StepReturn

LEMMA PrimaryCloseInv ==
  ASSUME StackInv, PrimaryClose PROVE StackInv'
  <1> DEFINE depth == Larger(Top.height, node.height) + 1
             f == [Top EXCEPT !.at = "postfix", !.height = depth]
  <1>1. /\ stack # <<>> /\ verdict = "running" /\ Top \in Frames
        /\ Top.at \in {"paren", "argument"} /\ Top.height \in Nat /\ HeightOK(Top)
        /\ Top.rem \in Nat /\ node.height \in Nat /\ node.height >= 1
        /\ node.height <= BudgetBelow(Top)
    <2>1. CASE Returned("Primary", "paren") BY <2>1, TopFacts DEF Returned
    <2>2. CASE Returned("Primary", "argument") BY <2>2, TopFacts DEF Returned
    <2> QED BY <2>1, <2>2 DEF PrimaryClose
  <1>2. CASE Malformed
    BY <1>2, StepMalformed
  <1>3. CASE Top.at = "argument" /\ depth > Top.rem /\ Deep(Top)
    <2>1. NoRoom(Top, node)
      BY <1>1, <1>3 DEF NoRoom, AddsLevel, HoldsPart, Larger
    <2> QED BY <1>1, <1>3, <2>1, StepDeep DEF SameCall
  <1>4. CASE (Top.at = "argument" => depth <= Top.rem) /\ Continue(f) /\ node' = none
    <2>1. depth \in Nat /\ depth >= 1 /\ depth <= Top.rem
      BY <1>1, <1>4 DEF Larger, HeightOK, BudgetBelow
    <2>2. f \in Frames /\ SameCall(f, Top) /\ f.at = "postfix" /\ f.height = depth
      <3>1. "postfix" \in Points
        BY DEF Points
      <3> HIDE DEF depth
      <3> QED BY <1>1, <2>1, <3>1 DEF Frames, SameCall
    <2>3. Continue(f) /\ node' = none
      BY <1>4
    <2> HIDE DEF f, depth
    <2>4. HeightOK(f)
      BY <1>1, <2>1, <2>2 DEF HeightOK, SameCall
    <2> QED BY <1>1, <2>2, <2>3, <2>4, StepContinue
  <1> QED BY <1>2, <1>3, <1>4 DEF PrimaryClose

LEMMA PrimaryCallInv ==
  ASSUME StackInv, PrimaryCall PROVE StackInv'
  <1> DEFINE f == [Top EXCEPT !.at = "argument"]
  <1>1. /\ stack # <<>> /\ verdict = "running" /\ Top \in Frames /\ Top.fn = "Primary"
        /\ Top.at = "postfix" /\ Top.height \in Nat /\ HeightOK(Top) /\ Funded(Top)
        /\ Top.rem \in 0 .. maxConstantTreeDepth
    BY TopFacts, DepthAssumption DEF PrimaryCall, In, Frames
  <1>2. f \in Frames /\ SameCall(f, Top) /\ f.at = "argument" /\ f.height = Top.height
    BY <1>1, Moved DEF Points
  <1>3. Descend(f, ~AtLimit(Top.height, Top.rem), Frame("Expression", 0, ChildBudget(Top.rem)))
    BY DEF PrimaryCall
  <1> HIDE DEF f
  <1>4. ~AtLimit(Top.height, Top.rem) => Fits(f, "Expression", ChildBudget(Top.rem))
    BY <1>1, <1>2, DepthAssumption
       DEF AtLimit, ChildBudget, Fits, BudgetBelow, HeightOK, Funded, Waiting, SameCall, Rank,
           FunctionRank
  <1>5. "Expression" \in Functions /\ 0 \in 0 .. 11
    BY DEF Functions
  <1>6. ~~AtLimit(Top.height, Top.rem) => NoRoom(f, node)
    BY <1>1, <1>2, TopFacts
    DEF PrimaryCall, In, Nodes, NoRoom, AddsLevel, HoldsPart, Larger, SameCall, AtLimit
  <1> QED BY <1>1, <1>2, <1>3, <1>4, <1>5, <1>6, StepDescend

LEMMA PrimaryEndInv ==
  ASSUME StackInv, PrimaryEnd PROVE StackInv'
  <1>1. /\ stack # <<>> /\ verdict = "running" /\ Top \in Frames /\ Top.fn = "Primary"
        /\ Top.at = "postfix" /\ Top.height \in Nat /\ HeightOK(Top) /\ Funded(Top)
        /\ Top.rem \in 0 .. maxConstantTreeDepth
    BY TopFacts, DepthAssumption DEF PrimaryEnd, In, Frames
  <1>2. Top.height >= 1 /\ Top.height <= Top.rem /\ 11 \in 0 .. 11
    BY <1>1 DEF HeightOK
  <1>3. Return(Top.height, 11)
    BY DEF PrimaryEnd
  <1> QED BY <1>1, <1>2, <1>3, StepReturn

LEMMA InitializerStartInv ==
  ASSUME StackInv, InitializerStart PROVE StackInv'
  <1>1. /\ stack # <<>> /\ verdict = "running" /\ Top \in Frames /\ Top.fn = "Initializer"
        /\ Top.at = "start" /\ Top.height \in Nat /\ HeightOK(Top) /\ Funded(Top)
        /\ Top.rem \in 0 .. maxConstantTreeDepth
    BY TopFacts, DepthAssumption DEF InitializerStart, In, Frames
  <1>2. node = none
    BY DEF InitializerStart, In
  <1>3. CASE Top.rem = 0 /\ Deep(Top)
    <2>1. NoRoom(Top, node)
      BY <1>1, <1>2, <1>3 DEF NoRoom, Larger, none
    <2> QED BY <1>1, <1>3, <2>1, StepDeep DEF SameCall
  <1>4. CASE Top.rem > 0 /\ Continue([Top EXCEPT !.at = "equals"]) /\ UNCHANGED node
    <2> DEFINE f == [Top EXCEPT !.at = "equals"]
    <2>1. f \in Frames /\ SameCall(f, Top) /\ f.at = "equals" /\ f.height = Top.height
      BY <1>1, Moved DEF Points
    <2>2. Continue(f) /\ node' = none
      BY <1>1, <1>2, <1>4 DEF In
    <2> HIDE DEF f
    <2>3. HeightOK(f)
      BY <1>1, <1>2, <1>4, <2>1 DEF HeightOK, SameCall
    <2> QED BY <1>1, <2>1, <2>2, <2>3, StepContinue
  <1>5. CASE /\ Top.rem > 0
             /\ Call([Top EXCEPT !.at = "scalar"], Frame("Expression", 0, Top.rem))
    <2> DEFINE f == [Top EXCEPT !.at = "scalar"]
    <2>1. f \in Frames /\ SameCall(f, Top) /\ f.at = "scalar" /\ f.height = Top.height
      BY <1>1, Moved DEF Points
    <2>2. Descend(f, TRUE, Frame("Expression", 0, Top.rem))
      BY <1>5 DEF Descend
    <2> HIDE DEF f
    <2>3. Fits(f, "Expression", Top.rem)
      BY <1>1, <2>1, DepthAssumption
         DEF Fits, BudgetBelow, HeightOK, Waiting, SameCall, Rank, FunctionRank
    <2>4. "Expression" \in Functions /\ 0 \in 0 .. 11
      BY DEF Functions
    <2> QED BY <1>1, <2>1, <2>2, <2>3, <2>4, StepDescend
  <1>6. CASE Top.rem > 0 /\ Continue([Top EXCEPT !.at = "list"]) /\ UNCHANGED node
    <2> DEFINE f == [Top EXCEPT !.at = "list"]
    <2>1. f \in Frames /\ SameCall(f, Top) /\ f.at = "list" /\ f.height = Top.height
      BY <1>1, Moved DEF Points
    <2>2. Continue(f) /\ node' = none
      BY <1>1, <1>2, <1>6 DEF In
    <2> HIDE DEF f
    <2>3. HeightOK(f)
      BY <1>1, <1>2, <1>6, <2>1 DEF HeightOK, SameCall
    <2> QED BY <1>1, <2>1, <2>2, <2>3, StepContinue
  <1> QED BY <1>3, <1>4, <1>5, <1>6 DEF InitializerStart

LEMMA InitializerNamedInv ==
  ASSUME StackInv, InitializerNamed PROVE StackInv'
  <1> DEFINE f == [Top EXCEPT !.at = "named"]
  <1>1. /\ stack # <<>> /\ verdict = "running" /\ Top \in Frames /\ Top.fn = "Initializer"
        /\ Top.at = "equals" /\ Top.height \in Nat /\ HeightOK(Top) /\ Funded(Top)
        /\ Top.rem \in 0 .. maxConstantTreeDepth
    BY TopFacts, DepthAssumption DEF InitializerNamed, In, Frames
  <1>2. f \in Frames /\ SameCall(f, Top) /\ f.at = "named" /\ f.height = Top.height
    BY <1>1, Moved DEF Points
  <1>3. Descend(f, TRUE, Frame("Expression", 0, ChildBudget(Top.rem)))
    BY DEF InitializerNamed, Descend
  <1> HIDE DEF f
  <1>4. Fits(f, "Expression", ChildBudget(Top.rem))
    BY <1>1, <1>2, DepthAssumption
       DEF ChildBudget, Fits, BudgetBelow, HeightOK, Waiting, SameCall, Rank, FunctionRank
  <1>5. "Expression" \in Functions /\ 0 \in 0 .. 11
    BY DEF Functions
  <1> QED BY <1>1, <1>2, <1>3, <1>4, <1>5, StepDescend

LEMMA InitializerElementInv ==
  ASSUME StackInv, InitializerElement PROVE StackInv'
  <1> DEFINE f == [Top EXCEPT !.at = "element"]
  <1>1. /\ stack # <<>> /\ verdict = "running" /\ Top \in Frames /\ Top.fn = "Initializer"
        /\ Top.at = "list" /\ Top.height \in Nat /\ HeightOK(Top) /\ Funded(Top)
        /\ Top.rem \in 0 .. maxConstantTreeDepth
    BY TopFacts, DepthAssumption DEF InitializerElement, In, Frames
  <1>2. f \in Frames /\ SameCall(f, Top) /\ f.at = "element" /\ f.height = Top.height
    BY <1>1, Moved DEF Points
  <1>3. Descend(f, Top.rem # 1, Frame("Initializer", 0, ChildBudget(Top.rem)))
    BY DEF InitializerElement
  <1> HIDE DEF f
  <1>4. Fits(f, "Initializer", ChildBudget(Top.rem))
    <2>1. Top.height <= Top.rem - 1 /\ Top.rem \in Nat /\ Top.rem <= maxConstantTreeDepth
      BY <1>1, DepthAssumption DEF HeightOK
    <2>2. f.fn = "Initializer" /\ f.rem = Top.rem /\ f.rem >= 1
      BY <1>1, <1>2, <2>1 DEF SameCall
    <2>3. HeightOK(f) /\ f.at \in Waiting
      BY <1>2, <2>1, <2>2 DEF HeightOK, Waiting
    <2>4. 3 * (Top.rem - 1) + FunctionRank("Initializer") < Rank(f)
      BY <2>1, <2>2 DEF Rank, FunctionRank
    <2> QED BY <1>2, <2>1, <2>2, <2>3, <2>4, DepthAssumption
            DEF Fits, ChildBudget, BudgetBelow
  <1>5. "Initializer" \in Functions /\ 0 \in 0 .. 11
    BY DEF Functions
  <1>6. ~(Top.rem # 1) => NoRoom(f, node)
    BY <1>1, <1>2, TopFacts
    DEF InitializerElement, In, Nodes, NoRoom, AddsLevel, HoldsPart, Larger, SameCall
  <1> QED BY <1>1, <1>2, <1>3, <1>4, <1>5, <1>6, StepDescend

LEMMA InitializerNextInv ==
  ASSUME StackInv, InitializerNext PROVE StackInv'
  <1> DEFINE h == Larger(Top.height, node.height)
             f == [Top EXCEPT !.at = "list", !.height = h]
  <1>1. /\ stack # <<>> /\ verdict = "running" /\ Top \in Frames /\ Top.fn = "Initializer"
        /\ Top.at = "element" /\ Top.height \in Nat /\ HeightOK(Top)
        /\ Top.rem \in 0 .. maxConstantTreeDepth /\ node \in Nodes
        /\ node.height \in Nat /\ node.height >= 1 /\ node.height <= BudgetBelow(Top)
    BY TopFacts, DepthAssumption DEF InitializerNext, Returned, Frames
  <1>2. h \in Nat /\ h >= 1 /\ h <= Top.rem - 1
    BY <1>1 DEF Larger, HeightOK, BudgetBelow
  <1>3. CASE Malformed
    BY <1>3, StepMalformed
  <1>4. CASE Continue(f) /\ node' = none
    <2>1. f \in Frames /\ SameCall(f, Top) /\ f.at = "list" /\ f.height = h
      <3>1. "list" \in Points
        BY DEF Points
      <3> HIDE DEF h
      <3> QED BY <1>1, <1>2, <3>1 DEF Frames, SameCall
    <2>2. Continue(f) /\ node' = none
      BY <1>4
    <2> HIDE DEF f, h
    <2>3. HeightOK(f)
      BY <1>1, <1>2, <2>1 DEF HeightOK, SameCall
    <2> QED BY <1>1, <2>1, <2>2, <2>3, StepContinue
  <1>5. CASE Return(h + 1, 11)
    <2> HIDE DEF h
    <2>1. h + 1 \in Nat /\ h + 1 >= 1 /\ h + 1 <= Top.rem /\ 11 \in 0 .. 11
      BY <1>1, <1>2
    <2> QED BY <1>1, <1>5, <2>1, StepReturn
  <1> QED BY <1>3, <1>4, <1>5 DEF InitializerNext

LEMMA InitializerEndInv ==
  ASSUME StackInv, InitializerEnd PROVE StackInv'
  <1>1. CASE In("Initializer", "list") /\ Return(Top.height + 1, 11)
    <2>1. /\ stack # <<>> /\ verdict = "running" /\ Top.at = "list" /\ Top.height \in Nat
          /\ Top.rem \in Nat /\ HeightOK(Top)
      BY <1>1, TopFacts DEF In
    <2>2. /\ Top.height + 1 \in Nat /\ Top.height + 1 >= 1
          /\ Top.height + 1 <= Top.rem /\ 11 \in 0 .. 11
      BY <2>1 DEF HeightOK
    <2> QED BY <1>1, <2>1, <2>2, StepReturn
  <1>2. CASE Returned("Initializer", "named") /\ Return(node.height + 1, 11)
    <2>1. /\ stack # <<>> /\ verdict = "running" /\ Top.at = "named" /\ Top.rem \in Nat
          /\ node.height \in Nat /\ node.height <= BudgetBelow(Top)
      BY <1>2, TopFacts DEF Returned
    <2>2. /\ node.height + 1 \in Nat /\ node.height + 1 >= 1
          /\ node.height + 1 <= Top.rem /\ 11 \in 0 .. 11
      BY <2>1 DEF BudgetBelow
    <2> QED BY <1>2, <2>1, <2>2, StepReturn
  <1>3. CASE Returned("Initializer", "scalar") /\ Return(node.height, node.bind)
    <2>1. /\ stack # <<>> /\ verdict = "running" /\ Top.at = "scalar" /\ Top.rem \in Nat
          /\ node \in Nodes /\ node.height \in Nat /\ node.height >= 1
          /\ node.height <= BudgetBelow(Top)
      BY <1>3, TopFacts DEF Returned
    <2>2. node.height <= Top.rem /\ node.bind \in 0 .. 11
      BY <2>1 DEF BudgetBelow, Nodes
    <2> QED BY <1>3, <2>1, <2>2, StepReturn
  <1> QED BY <1>1, <1>2, <1>3 DEF InitializerEnd

-----------------------------------------------------------------------------
(* The theorems *)

CursorOK == pos \in Nat /\ look \in Kinds /\ ahead \in Kinds /\ grouped \in BOOLEAN

LEMMA InitInv == Init => StackInv /\ CursorOK
  <1> SUFFICES ASSUME Init PROVE StackInv /\ CursorOK
    OBVIOUS
  <1>1. CursorOK
    BY InputAssumption DEF Init, Input, Kinds, CursorOK
  <1>2. PICK f \in Frames : stack = <<f>> /\ HeightOK(f) /\ f.rem = maxConstantTreeDepth
                           /\ f.fn \in {"Initializer", "Expression"}
    <2>1. maxConstantTreeDepth \in 0 .. maxConstantTreeDepth
      BY DepthAssumption
    <2>2. /\ "Initializer" \in Functions /\ "Expression" \in Functions
          /\ 0 \in 0 .. 11 /\ 10 \in 0 .. 11
      BY DEF Functions
    <2> QED BY <2>1, <2>2, NewFrame DEF Init
  <1>3. stack \in Seq(Frames) /\ Len(stack) = 1 /\ stack[1] = f
    BY <1>2
  <1>4. Rank(f) + 1 <= 3 * maxConstantTreeDepth + 4 /\ Funded(f)
    BY <1>2, DepthAssumption DEF Rank, FunctionRank, Funded
  <1>5. Ranked(stack) /\ Heights(stack) /\ Linked(stack)
    BY <1>2, <1>3, <1>4 DEF Ranked, Heights, Linked
  <1>6. node = none /\ node \in Nodes /\ verdict = "running"
    BY DEF Init, none, Nodes
  <1>7. Leveled(stack)
    <2>1. {j \in 1 .. 0 : AddsLevel(stack[j])} = {}
      OBVIOUS
    <2>2. LevelsTo(stack, 0) = 0
      BY <2>1, FS_EmptySet DEF LevelsTo
    <2> QED BY <1>2, <1>3, <2>2, DepthAssumption DEF Leveled
  <1> QED BY <1>1, <1>3, <1>5, <1>6, <1>7 DEF StackInv, NodeFits, Verdicts

LEMMA StepInv == StackInv /\ [Next]_vars => StackInv'
  <1> SUFFICES ASSUME StackInv, [Next]_vars PROVE StackInv'
    OBVIOUS
  <1>1. CASE UNCHANGED vars
    BY <1>1 DEF vars, StackInv
  <1>2. CASE Ended
    BY <1>2 DEF Ended, vars, StackInv
  <1>3. CASE \/ ExpressionStart \/ ExpressionLeft \/ ExpressionBinary \/ ExpressionRight
             \/ ExpressionQuestion \/ ExpressionColon \/ ExpressionFalse \/ ExpressionEnd
    BY <1>3, ExpressionStartInv, ExpressionLeftInv, ExpressionBinaryInv, ExpressionRightInv,
       ExpressionQuestionInv, ExpressionColonInv, ExpressionFalseInv, ExpressionEndInv
  <1>4. CASE \/ UnaryOperator \/ UnaryPrimary \/ UnaryEnd
             \/ PrimaryLeaf \/ PrimaryOpen \/ PrimaryParen \/ PrimaryCast \/ PrimaryCastEnd
             \/ PrimaryClose \/ PrimaryCall \/ PrimaryEnd
    BY <1>4, UnaryOperatorInv, UnaryPrimaryInv, UnaryEndInv, PrimaryLeafInv, PrimaryOpenInv,
       PrimaryParenInv, PrimaryCastInv, PrimaryCastEndInv, PrimaryCloseInv, PrimaryCallInv,
       PrimaryEndInv
  <1>5. CASE \/ InitializerStart \/ InitializerNamed \/ InitializerElement
             \/ InitializerNext \/ InitializerEnd
    BY <1>5, InitializerStartInv, InitializerNamedInv, InitializerElementInv,
       InitializerNextInv, InitializerEndInv
  <1> QED BY <1>1, <1>2, <1>3, <1>4, <1>5 DEF Next

LEMMA StepCursor == CursorOK /\ [Next]_vars => CursorOK'
  <1> SUFFICES ASSUME CursorOK, [Next]_vars PROVE CursorOK'
    OBVIOUS
  <1>1. grouped' \in BOOLEAN
    BY DEF CursorOK, vars, Next, Ended,
           ExpressionStart, ExpressionLeft, ExpressionBinary, ExpressionRight,
           ExpressionQuestion, ExpressionColon, ExpressionFalse, ExpressionEnd,
           UnaryOperator, UnaryPrimary, UnaryEnd, PrimaryLeaf, PrimaryOpen, PrimaryParen,
           PrimaryCast, PrimaryCastEnd, PrimaryClose, PrimaryCall, PrimaryEnd,
           InitializerStart, InitializerNamed, InitializerElement, InitializerNext,
           InitializerEnd
  <1>2. Consume \/ UNCHANGED cursor
    BY DEF cursor, vars, Next, Ended,
           ExpressionStart, ExpressionLeft, ExpressionBinary, ExpressionRight,
           ExpressionQuestion, ExpressionColon, ExpressionFalse, ExpressionEnd,
           UnaryOperator, UnaryPrimary, UnaryEnd, PrimaryLeaf, PrimaryOpen, PrimaryParen,
           PrimaryCast, PrimaryCastEnd, PrimaryClose, PrimaryCall, PrimaryEnd,
           InitializerStart, InitializerNamed, InitializerElement, InitializerNext,
           InitializerEnd
  <1>3. CASE Consume
    BY <1>1, <1>3, InputAssumption DEF Consume, Input, Kinds, CursorOK
  <1>4. CASE UNCHANGED cursor
    BY <1>1, <1>4 DEF cursor, CursorOK
  <1> QED BY <1>2, <1>3, <1>4

-----------------------------------------------------------------------------
(* The grouping: what a frame has parsed binds at least as tightly as the  *)
(* operator it goes on with, its callee is told the next precedence, and   *)
(* what the callee returns stands before an operator it could not take.    *)

Binds(f) ==
  /\ f.at = "loop" => f.bind >= 1 /\ f.bind >= f.least
  /\ f.at = "right" => f.op >= 1 /\ f.op >= f.least /\ f.bind >= f.op
  /\ f.at \in {"true", "false"} => f.least = 0

(* The frame f may wait for a call of fn with this least precedence. *)
Serves(f, fn, least) ==
  /\ f.at \in {"left", "operand", "cast"} => fn = "Unary"
  /\ f.at = "primary" => fn = "Primary"
  /\ f.at = "right" => fn = "Expression" /\ least = f.op + 1

(* The frame f may be given a tree that binds so before the token k. *)
Suits(f, bind, k) ==
  /\ f.at \in {"left", "operand", "cast", "primary"} => bind = 11
  /\ f.at = "right" => bind > f.op /\ constantBinaryPrecedence(k) <= f.op

AllBind(s) == \A i \in 1 .. Len(s) : Binds(s[i])

AllServe(s) == \A i \in 1 .. Len(s) - 1 : Serves(s[i], s[i + 1].fn, s[i + 1].least)

(* An expression goes on with an operator that binds no tighter than what *)
(* it holds, or returns before one.                                        *)
MayGoOn(s, k) ==
  s # <<>> /\ s[Len(s)].at = "loop" => constantBinaryPrecedence(k) <= s[Len(s)].bind

MayTake(s, n, k) == s # <<>> /\ n # none => Suits(s[Len(s)], n.bind, k)

GroupInv ==
  /\ grouped = TRUE
  /\ verdict = "running" =>
       AllBind(stack) /\ AllServe(stack) /\ MayGoOn(stack, look) /\ MayTake(stack, node, look)

LEMMA GroupCall ==
  ASSUME StackInv, GroupInv, verdict = "running", stack # <<>>,
         NEW f \in Frames, NEW g \in Frames, SameCall(f, Top), Binds(f), g.at = "start",
         Serves(f, g.fn, g.least), Call(f, g), grouped' = TRUE
  PROVE  GroupInv'
  <1>1. IsPush(stack, f, g, stack') /\ stack' # <<>>
    BY Pushed DEF StackInv, Call
  <1>2. ASSUME NEW i \in 1 .. Len(stack') PROVE Binds(stack'[i])
    <2>1. CASE i \in 1 .. Len(stack) - 1 BY <2>1, <1>1 DEF GroupInv, AllBind, IsPush
    <2>2. CASE i = Len(stack) BY <2>2, <1>1 DEF IsPush
    <2>3. CASE i = Len(stack') BY <2>3, <1>1 DEF IsPush, Binds
    <2> QED BY <1>1, <2>1, <2>2, <2>3 DEF IsPush
  <1>3. ASSUME NEW i \in 1 .. Len(stack') - 1
        PROVE  Serves(stack'[i], stack'[i + 1].fn, stack'[i + 1].least)
    <2>1. CASE i \in 1 .. Len(stack) - 1
      <3>1. /\ stack'[i] = stack[i] /\ stack'[i + 1].fn = stack[i + 1].fn
            /\ stack'[i + 1].least = stack[i + 1].least
        <4>1. CASE i + 1 = Len(stack) BY <1>1, <2>1, <4>1 DEF IsPush, SameCall, Top
        <4>2. CASE i + 1 # Len(stack) BY <1>1, <2>1, <4>2 DEF IsPush
        <4> QED BY <4>1, <4>2
      <3> QED BY <2>1, <3>1 DEF GroupInv, AllServe
    <2>2. CASE i = Len(stack) BY <2>2, <1>1 DEF IsPush
    <2> QED BY <1>1, <2>1, <2>2 DEF IsPush
  <1>4. stack'[Len(stack')] = g
    BY <1>1 DEF IsPush
  <1>5. MayGoOn(stack, look)' /\ MayTake(stack, node, look)'
    BY <1>4 DEF MayGoOn, MayTake, Call
  <1> QED BY <1>2, <1>3, <1>5 DEF GroupInv, AllBind, AllServe

LEMMA GroupContinue ==
  ASSUME StackInv, GroupInv, verdict = "running", stack # <<>>,
         NEW f \in Frames, SameCall(f, Top), Binds(f),
         f.at = "loop" => constantBinaryPrecedence(look') <= f.bind,
         Continue(f), node' = none, grouped' = TRUE
  PROVE  GroupInv'
  <1>1. IsReplace(stack, f, stack') /\ stack' # <<>>
    BY Replacement DEF StackInv, Continue
  <1>2. ASSUME NEW i \in 1 .. Len(stack') PROVE Binds(stack'[i])
    <2>1. CASE i \in 1 .. Len(stack) - 1 BY <2>1, <1>1 DEF GroupInv, AllBind, IsReplace
    <2>2. CASE i = Len(stack) BY <2>2, <1>1 DEF IsReplace
    <2> QED BY <1>1, <2>1, <2>2 DEF IsReplace
  <1>3. ASSUME NEW i \in 1 .. Len(stack') - 1
        PROVE  Serves(stack'[i], stack'[i + 1].fn, stack'[i + 1].least)
    <2>1. /\ stack'[i] = stack[i] /\ stack'[i + 1].fn = stack[i + 1].fn
          /\ stack'[i + 1].least = stack[i + 1].least
      <3>1. CASE i + 1 = Len(stack) BY <1>1, <3>1 DEF IsReplace, SameCall, Top
      <3>2. CASE i + 1 # Len(stack) BY <1>1, <3>2 DEF IsReplace
      <3> QED BY <3>1, <3>2
    <2> QED BY <1>1, <2>1 DEF GroupInv, AllServe, IsReplace
  <1>4. stack'[Len(stack')] = f
    BY <1>1 DEF IsReplace
  <1>5. MayGoOn(stack, look)' /\ MayTake(stack, node, look)'
    BY <1>4 DEF MayGoOn, MayTake
  <1> QED BY <1>2, <1>3, <1>5 DEF GroupInv, AllBind, AllServe

LEMMA GroupReturn ==
  ASSUME StackInv, GroupInv, verdict = "running", stack # <<>>,
         NEW h \in Nat, NEW b \in 0 .. 11, Return(h, b), grouped' = TRUE,
         Len(stack) # 1 => Suits(stack[Len(stack) - 1], b, look')
  PROVE  GroupInv'
  <1>1. IsPop(stack, stack')
    BY Popped DEF StackInv, Return
  <1>2. AllBind(stack')
    BY <1>1 DEF GroupInv, AllBind, IsPop
  <1>3. AllServe(stack')
    BY SMTT(30), <1>1 DEF GroupInv, AllServe, IsPop
  <1>4. node'.bind = b
    BY DEF Return
  <1>5. Len(stack) \in Nat \ {0}
    BY TopFrame DEF StackInv
  <1>6. MayGoOn(stack, look)' /\ MayTake(stack, node, look)'
    <2>1. CASE stack' = <<>> BY <2>1 DEF MayGoOn, MayTake
    <2>2. CASE stack' # <<>>
      <3>1. Len(stack') \in Nat \ {0}
        BY <1>1, <2>2, TopFrame DEF IsPop
      <3>2. Len(stack) - 1 \in 1 .. Len(stack) - 1 /\ Len(stack) # 1
            /\ stack'[Len(stack')] = stack[Len(stack) - 1]
        BY <1>1, <1>5, <3>1 DEF IsPop
      <3>3. stack[Len(stack) - 1].at # "loop"
        BY <3>2 DEF StackInv, Linked, Waiting
      <3> QED BY <1>4, <3>2, <3>3 DEF MayGoOn, MayTake
    <2> QED BY <2>1, <2>2
  <1> QED BY <1>2, <1>3, <1>6 DEF GroupInv, AllBind, AllServe

LEMMA GroupStop ==
  ASSUME GroupInv, verdict' # "running", grouped' = TRUE
  PROVE  GroupInv'
  BY DEF GroupInv

LEMMA GroupDescend ==
  ASSUME StackInv, GroupInv, verdict = "running", stack # <<>>,
         NEW f \in Frames, SameCall(f, Top), Binds(f),
         NEW fits, NEW fn \in Functions, NEW least \in 0 .. 11,
         NEW rem, fits => rem \in 0 .. maxConstantTreeDepth, Serves(f, fn, least),
         Descend(f, fits, Frame(fn, least, rem)), grouped' = TRUE
  PROVE  GroupInv'
  <1>1. CASE fits /\ Call(f, Frame(fn, least, rem))
    <2> DEFINE g == Frame(fn, least, rem)
    <2>1. g \in Frames /\ g.fn = fn /\ g.least = least /\ g.at = "start"
      BY <1>1, NewFrame DEF Frame
    <2>2. Call(f, g) BY <1>1
    <2> HIDE DEF g
    <2> QED BY <2>1, <2>2, GroupCall
  <1>2. CASE Deep(f)
    BY <1>2, GroupStop DEF Deep
  <1> QED BY <1>1, <1>2 DEF Descend

LEMMA CutTwo ==
  ASSUME NEW n \in Nat \ {0}, n # 1
  PROVE  n - 1 \in 1 .. n - 1 /\ n - 1 \in 1 .. n /\ n - 1 + 1 = n
  OBVIOUS

(* What the innermost frame knows of its caller *)
LEMMA CallerFacts ==
  ASSUME StackInv, GroupInv, verdict = "running", stack # <<>>, Len(stack) # 1
  PROVE  /\ Serves(stack[Len(stack) - 1], Top.fn, Top.least)
         /\ stack[Len(stack) - 1].op \in 0 .. 10
  <1>1. Len(stack) \in Nat \ {0}
    BY TopFrame DEF StackInv
  <1>2. /\ Len(stack) - 1 \in 1 .. Len(stack) - 1 /\ Len(stack) - 1 \in 1 .. Len(stack)
        /\ Len(stack) - 1 + 1 = Len(stack)
    BY <1>1, CutTwo
  <1>3. Serves(stack[Len(stack) - 1], stack[Len(stack) - 1 + 1].fn,
               stack[Len(stack) - 1 + 1].least)
    BY <1>2 DEF GroupInv, AllServe
  <1>4. stack[Len(stack) - 1] \in Frames
    BY <1>2, ElementOfSeq DEF StackInv
  <1> QED BY <1>2, <1>3, <1>4 DEF Top, Frames

LEMMA GroupFacts ==
  ASSUME StackInv, GroupInv, NEW fn, NEW at, Running(fn, at)
  PROVE  /\ stack # <<>> /\ verdict = "running" /\ grouped = TRUE
         /\ Top \in Frames /\ Top.fn = fn /\ Top.at = at /\ node \in Nodes
         /\ Top.rem \in 0 .. maxConstantTreeDepth /\ Top.least \in 0 .. 11
         /\ Top.op \in 0 .. 10 /\ Top.bind \in 0 .. 11 /\ Top.height \in Nat
         /\ node.height \in Nat /\ node.bind \in 0 .. 11
         /\ Binds(Top)
         /\ at = "loop" => constantBinaryPrecedence(look) <= Top.bind
         /\ node # none => Suits(Top, node.bind, look)
  <1>1. /\ stack # <<>> /\ verdict = "running" /\ Top \in Frames /\ Top.fn = fn
        /\ Top.at = at /\ node \in Nodes
    BY TopFacts
  <1>2. Len(stack) \in 1 .. Len(stack)
    BY <1>1, TopFrame DEF StackInv
  <1>3. Binds(Top) /\ grouped = TRUE
    BY <1>1, <1>2 DEF GroupInv, AllBind, Top
  <1>4. /\ at = "loop" => constantBinaryPrecedence(look) <= Top.bind
        /\ node # none => Suits(Top, node.bind, look)
    BY <1>1 DEF GroupInv, MayGoOn, MayTake, Top
  <1> QED BY <1>1, <1>3, <1>4 DEF Frames, Nodes

LEMMA PrecedenceRange == \A k : constantBinaryPrecedence(k) \in {-1, 1, 9, 10}
  BY DEF constantBinaryPrecedence

(* A unary, a primary or an initializer returns what every caller may take. *)
LEMMA GroupTight ==
  ASSUME StackInv, GroupInv, verdict = "running", stack # <<>>,
         Top.fn # "Expression", NEW h \in Nat, NEW b \in 0 .. 11,
         b = 11 \/ Top.fn = "Initializer", Return(h, b), grouped' = TRUE
  PROVE  GroupInv'
  <1>1. ASSUME Len(stack) # 1 PROVE Suits(stack[Len(stack) - 1], b, look')
    BY <1>1, CallerFacts DEF Serves, Suits
  <1> QED BY <1>1, GroupReturn

LEMMA ExpressionStartGroup ==
  ASSUME StackInv, GroupInv, ExpressionStart PROVE GroupInv'
  <1> DEFINE f == [Top EXCEPT !.at = "left"]
  <1>1. /\ stack # <<>> /\ verdict = "running" /\ Top \in Frames /\ Top.fn = "Expression"
        /\ Top.at = "start" /\ Top.rem \in 0 .. maxConstantTreeDepth /\ Binds(Top)
        /\ Top.height \in Nat /\ HeightOK(Top) /\ Funded(Top) /\ grouped = TRUE
    BY TopFacts, GroupFacts DEF ExpressionStart, In
  <1>2. f \in Frames /\ SameCall(f, Top) /\ f.at = "left"
    BY ZenonT(30), <1>1, Moved DEF Points
  <1>3. Descend(f, Top.rem > 0, Frame("Unary", 0, Top.rem))
    BY DEF ExpressionStart
  <1>4. grouped' = TRUE
    BY <1>1 DEF ExpressionStart
  <1> HIDE DEF f
  <1>5. Binds(f) /\ Serves(f, "Unary", 0)
    BY <1>1, <1>2 DEF Binds, Serves, SameCall
  <1>6. Top.rem > 0 => Top.rem \in 0 .. maxConstantTreeDepth
    BY <1>1, DepthAssumption DEF ChildBudget, AtLimit, HeightOK, Funded
  <1>7. "Unary" \in Functions /\ 0 \in 0 .. 11
    BY DEF Functions
  <1> QED BY <1>1, <1>2, <1>3, <1>4, <1>5, <1>6, <1>7, GroupDescend

LEMMA ExpressionLeftGroup ==
  ASSUME StackInv, GroupInv, ExpressionLeft PROVE GroupInv'
  <1> DEFINE f == [Top EXCEPT !.at = "loop", !.height = node.height, !.bind = node.bind]
  <1>1. /\ stack # <<>> /\ verdict = "running" /\ Top \in Frames /\ grouped = TRUE
        /\ Top.least \in 0 .. 11 /\ node.height \in Nat /\ node.bind = 11
    BY GroupFacts DEF ExpressionLeft, Returned, Suits
  <1>2. f \in Frames /\ SameCall(f, Top) /\ f.at = "loop" /\ f.bind = 11 /\ f.least = Top.least
    <2>1. "loop" \in Points /\ node.bind \in 0 .. 11
      BY <1>1 DEF Points
    <2> QED BY <1>1, <2>1 DEF Frames, SameCall
  <1>3. Continue(f) /\ node' = none /\ grouped' = TRUE
    BY <1>1 DEF ExpressionLeft
  <1> HIDE DEF f
  <1>4. Binds(f) /\ constantBinaryPrecedence(look') <= f.bind
    BY <1>1, <1>2, PrecedenceRange DEF Binds
  <1> QED BY <1>1, <1>2, <1>3, <1>4, GroupContinue

LEMMA ExpressionBinaryGroup ==
  ASSUME StackInv, GroupInv, ExpressionBinary PROVE GroupInv'
  <1> DEFINE op == constantBinaryPrecedence(look)
             f == [Top EXCEPT !.at = "right", !.op = op]
  <1>1. /\ stack # <<>> /\ verdict = "running" /\ Top \in Frames /\ grouped = TRUE
        /\ Top.rem \in 0 .. maxConstantTreeDepth /\ Top.height \in Nat
        /\ Top.least \in 0 .. 11 /\ op <= Top.bind
    BY GroupFacts DEF ExpressionBinary, In
  <1>2. op >= Top.least /\ op \in 1 .. 10
    BY SMTT(30), <1>1, PrecedenceRange DEF ExpressionBinary
  <1>3. Descend(f, ~AtLimit(Top.height, Top.rem),
                Frame("Expression", RightLeast(op), ChildBudget(Top.rem)))
        /\ grouped' = TRUE
    BY <1>1 DEF ExpressionBinary
  <1>4. /\ f \in Frames /\ SameCall(f, Top) /\ f.at = "right" /\ f.op = op
        /\ f.bind = Top.bind /\ f.least = Top.least
    <2>1. "right" \in Points /\ op \in 0 .. 10
      BY <1>2 DEF Points
    <2> HIDE DEF op
    <2> QED BY <1>1, <2>1 DEF Frames, SameCall
  <1> HIDE DEF f, op
  <1>5. Binds(f) /\ Serves(f, "Expression", RightLeast(op))
    BY <1>1, <1>2, <1>4 DEF Binds, Serves, RightLeast
  <1>6. ~AtLimit(Top.height, Top.rem) => ChildBudget(Top.rem) \in 0 .. maxConstantTreeDepth
    BY <1>1, DepthAssumption DEF ChildBudget, AtLimit
  <1>7. "Expression" \in Functions /\ RightLeast(op) \in 0 .. 11
    BY <1>2 DEF Functions, RightLeast
  <1> QED BY <1>1, <1>3, <1>4, <1>5, <1>6, <1>7, GroupDescend

LEMMA ExpressionRightGroup ==
  ASSUME StackInv, GroupInv, ExpressionRight PROVE GroupInv'
  <1> DEFINE depth == Larger(Top.height, node.height) + 1
             f == [Top EXCEPT !.at = "loop", !.height = depth, !.bind = Top.op]
  <1>1. /\ stack # <<>> /\ verdict = "running" /\ Top \in Frames /\ grouped = TRUE
        /\ Top.at = "right" /\ Top.op \in 0 .. 10 /\ Top.height \in Nat /\ Top.least \in 0 .. 11
        /\ node.height \in Nat /\ Binds(Top) /\ Suits(Top, node.bind, look)
    BY GroupFacts DEF ExpressionRight, Returned
  <1>2. grouped' = TRUE
    BY <1>1 DEF ExpressionRight, Binds, Suits
  <1>3. CASE Deep(Top)
    BY <1>2, <1>3, GroupStop DEF Deep
  <1>4. CASE Continue(f) /\ node' = none
    <2>1. /\ f \in Frames /\ SameCall(f, Top) /\ f.at = "loop" /\ f.bind = Top.op
          /\ f.least = Top.least
      <3>1. "loop" \in Points /\ Top.op \in 0 .. 11 /\ depth \in Nat
        BY <1>1 DEF Points, Larger
      <3> HIDE DEF depth
      <3> QED BY <1>1, <3>1 DEF Frames, SameCall
    <2>2. Continue(f) /\ node' = none /\ look' = look
      BY <1>4 DEF ExpressionRight, cursor
    <2> HIDE DEF f
    <2>3. Binds(f) /\ constantBinaryPrecedence(look') <= f.bind
      BY <1>1, <2>1, <2>2 DEF Binds, Suits
    <2> QED BY <1>1, <1>2, <2>1, <2>2, <2>3, GroupContinue
  <1> QED BY <1>3, <1>4 DEF ExpressionRight

LEMMA ExpressionQuestionGroup ==
  ASSUME StackInv, GroupInv, ExpressionQuestion PROVE GroupInv'
  <1> DEFINE f == [Top EXCEPT !.at = "true"]
  <1>1. /\ stack # <<>> /\ verdict = "running" /\ Top \in Frames /\ Top.fn = "Expression"
        /\ Top.at = "loop" /\ Top.rem \in 0 .. maxConstantTreeDepth /\ Binds(Top)
        /\ Top.height \in Nat /\ HeightOK(Top) /\ Funded(Top) /\ grouped = TRUE
    BY TopFacts, GroupFacts DEF ExpressionQuestion, In
  <1>2. f \in Frames /\ SameCall(f, Top) /\ f.at = "true"
    BY ZenonT(30), <1>1, Moved DEF Points
  <1>3. Descend(f, ~AtLimit(Top.height, Top.rem), Frame("Expression", 0, ChildBudget(Top.rem)))
    BY DEF ExpressionQuestion
  <1>4. grouped' = TRUE
    <2>1. Top.bind > 0
      BY <1>1 DEF Binds, Frames
    <2> QED BY <1>1, <2>1 DEF ExpressionQuestion
  <1> HIDE DEF f
  <1>5. Binds(f) /\ Serves(f, "Expression", 0)
    BY <1>1, <1>2 DEF Binds, Serves, SameCall, ExpressionQuestion, isConditional
  <1>6. ~AtLimit(Top.height, Top.rem) => ChildBudget(Top.rem) \in 0 .. maxConstantTreeDepth
    BY <1>1, DepthAssumption DEF ChildBudget, AtLimit, HeightOK, Funded
  <1>7. "Expression" \in Functions /\ 0 \in 0 .. 11
    BY DEF Functions
  <1> QED BY <1>1, <1>2, <1>3, <1>4, <1>5, <1>6, <1>7, GroupDescend

LEMMA ExpressionColonGroup ==
  ASSUME StackInv, GroupInv, ExpressionColon PROVE GroupInv'
  <1> DEFINE h == Larger(Top.height, node.height)
             f == [Top EXCEPT !.at = "false", !.height = h]
  <1>1. /\ stack # <<>> /\ verdict = "running" /\ Top \in Frames /\ Top.fn = "Expression"
        /\ Top.at = "true" /\ Top.rem \in 0 .. maxConstantTreeDepth /\ Binds(Top)
        /\ Top.height \in Nat /\ HeightOK(Top) /\ Funded(Top) /\ grouped = TRUE
    BY TopFacts, GroupFacts DEF ExpressionColon, Returned
  <1>2. grouped' = TRUE
    BY <1>1 DEF ExpressionColon
  <1>3. CASE Malformed
    BY <1>2, <1>3, GroupStop DEF Malformed
  <1>4. CASE Call(f, Frame("Expression", 0, ChildBudget(Top.rem)))
    <2>1. h \in Nat /\ "false" \in Points
      BY <1>1, GroupFacts DEF ExpressionColon, Returned, Larger, Points
    <2>2. f \in Frames /\ SameCall(f, Top) /\ f.at = "false"
      <3> HIDE DEF h
      <3> QED BY <1>1, <2>1 DEF Frames, SameCall
    <2>3. Descend(f, TRUE, Frame("Expression", 0, ChildBudget(Top.rem)))
      BY <1>4 DEF Descend
    <2> HIDE DEF f, h
    <2>4. Binds(f) /\ Serves(f, "Expression", 0)
      BY <1>1, <2>2 DEF Binds, Serves, SameCall
    <2>5. ChildBudget(Top.rem) \in 0 .. maxConstantTreeDepth
      BY <1>1, DepthAssumption DEF ChildBudget, HeightOK
    <2>6. "Expression" \in Functions /\ 0 \in 0 .. 11
      BY DEF Functions
    <2> QED BY <1>1, <1>2, <2>2, <2>3, <2>4, <2>5, <2>6, GroupDescend
  <1> QED BY <1>3, <1>4 DEF ExpressionColon

LEMMA ExpressionFalseGroup ==
  ASSUME StackInv, GroupInv, ExpressionFalse PROVE GroupInv'
  <1> DEFINE depth == Larger(Top.height, node.height) + 1
  <1>1. /\ stack # <<>> /\ verdict = "running" /\ Top \in Frames /\ Top.fn = "Expression"
        /\ Top.at = "false" /\ Top.rem \in 0 .. maxConstantTreeDepth /\ Binds(Top)
        /\ Top.height \in Nat /\ HeightOK(Top) /\ Funded(Top) /\ grouped = TRUE
    BY TopFacts, GroupFacts DEF ExpressionFalse, Returned
  <1>2. grouped' = TRUE /\ Top.least = 0
    BY <1>1 DEF ExpressionFalse, Binds
  <1>3. CASE Deep(Top)
    BY <1>2, <1>3, GroupStop DEF Deep
  <1>4. CASE Return(depth, 0)
    <2>1. ASSUME Len(stack) # 1 PROVE Suits(stack[Len(stack) - 1], 0, look')
      <3> DEFINE caller == stack[Len(stack) - 1]
      <3>1. Serves(caller, "Expression", 0) /\ caller.op \in 0 .. 10
        BY <1>1, <1>2, <2>1, CallerFacts
      <3> HIDE DEF caller
      <3>2. Suits(caller, 0, look')
        BY <3>1 DEF Serves, Suits
      <3> QED BY <3>2 DEF caller
    <2>2. depth \in Nat /\ 0 \in 0 .. 11
      BY <1>1, GroupFacts DEF ExpressionFalse, Returned, Larger
    <2> HIDE DEF depth
    <2> QED BY <1>1, <1>2, <1>4, <2>1, <2>2, GroupReturn
  <1> QED BY <1>3, <1>4 DEF ExpressionFalse

LEMMA ExpressionEndGroup ==
  ASSUME StackInv, GroupInv, ExpressionEnd PROVE GroupInv'
  <1>1. /\ stack # <<>> /\ verdict = "running" /\ Top \in Frames /\ Top.fn = "Expression"
        /\ Top.at = "loop" /\ Top.rem \in 0 .. maxConstantTreeDepth /\ Binds(Top)
        /\ Top.height \in Nat /\ HeightOK(Top) /\ Funded(Top) /\ grouped = TRUE
    BY TopFacts, GroupFacts DEF ExpressionEnd, In
  <1>2. /\ grouped' = TRUE /\ Return(Top.height, Top.bind) /\ look' = look
        /\ constantBinaryPrecedence(look) < Top.least
    BY <1>1 DEF ExpressionEnd, cursor
  <1>3. Top.bind \in 0 .. 11 /\ Top.bind >= Top.least /\ Top.least \in 0 .. 11
    BY <1>1 DEF Binds, Frames
  <1>4. ASSUME Len(stack) # 1 PROVE Suits(stack[Len(stack) - 1], Top.bind, look')
    <2> DEFINE caller == stack[Len(stack) - 1]
    <2>1. Serves(caller, "Expression", Top.least) /\ caller.op \in 0 .. 10
      BY <1>1, <1>4, CallerFacts
    <2> HIDE DEF caller
    <2>2. Suits(caller, Top.bind, look')
      BY <1>2, <1>3, <2>1, PrecedenceRange DEF Serves, Suits
    <2> QED BY <2>2 DEF caller
  <1> QED BY <1>1, <1>2, <1>3, <1>4, GroupReturn

LEMMA UnaryOperatorGroup ==
  ASSUME StackInv, GroupInv, UnaryOperator PROVE GroupInv'
  <1> DEFINE f == [Top EXCEPT !.at = "operand"]
  <1>1. /\ stack # <<>> /\ verdict = "running" /\ Top \in Frames /\ Top.fn = "Unary"
        /\ Top.at = "start" /\ Top.rem \in 0 .. maxConstantTreeDepth /\ Binds(Top)
        /\ Top.height \in Nat /\ HeightOK(Top) /\ Funded(Top) /\ grouped = TRUE
    BY TopFacts, GroupFacts DEF UnaryOperator, In
  <1>2. f \in Frames /\ SameCall(f, Top) /\ f.at = "operand"
    BY <1>1, Moved DEF Points
  <1>3. Descend(f, Top.rem # 1, Frame("Unary", 0, ChildBudget(Top.rem)))
    BY DEF UnaryOperator
  <1>4. grouped' = TRUE
    BY <1>1 DEF UnaryOperator
  <1> HIDE DEF f
  <1>5. Binds(f) /\ Serves(f, "Unary", 0)
    BY <1>1, <1>2 DEF Binds, Serves, SameCall
  <1>6. Top.rem # 1 => ChildBudget(Top.rem) \in 0 .. maxConstantTreeDepth
    BY <1>1, DepthAssumption DEF ChildBudget, AtLimit, HeightOK, Funded, UnaryOperator
  <1>7. "Unary" \in Functions /\ 0 \in 0 .. 11
    BY DEF Functions
  <1> QED BY <1>1, <1>2, <1>3, <1>4, <1>5, <1>6, <1>7, GroupDescend

LEMMA UnaryPrimaryGroup ==
  ASSUME StackInv, GroupInv, UnaryPrimary PROVE GroupInv'
  <1> DEFINE f == [Top EXCEPT !.at = "primary"]
  <1>1. /\ stack # <<>> /\ verdict = "running" /\ Top \in Frames /\ Top.fn = "Unary"
        /\ Top.at = "start" /\ Top.rem \in 0 .. maxConstantTreeDepth /\ Binds(Top)
        /\ Top.height \in Nat /\ HeightOK(Top) /\ Funded(Top) /\ grouped = TRUE
    BY TopFacts, GroupFacts DEF UnaryPrimary, In
  <1>2. f \in Frames /\ SameCall(f, Top) /\ f.at = "primary"
    BY <1>1, Moved DEF Points
  <1>3. Descend(f, Top.rem > 0, Frame("Primary", 0, Top.rem))
    BY DEF UnaryPrimary
  <1>4. grouped' = TRUE
    BY <1>1 DEF UnaryPrimary
  <1> HIDE DEF f
  <1>5. Binds(f) /\ Serves(f, "Primary", 0)
    BY <1>1, <1>2 DEF Binds, Serves, SameCall
  <1>6. Top.rem > 0 => Top.rem \in 0 .. maxConstantTreeDepth
    BY <1>1, DepthAssumption DEF ChildBudget, AtLimit, HeightOK, Funded
  <1>7. "Primary" \in Functions /\ 0 \in 0 .. 11
    BY DEF Functions
  <1> QED BY <1>1, <1>2, <1>3, <1>4, <1>5, <1>6, <1>7, GroupDescend

LEMMA UnaryEndGroup ==
  ASSUME StackInv, GroupInv, UnaryEnd PROVE GroupInv'
  <1>1. /\ stack # <<>> /\ verdict = "running" /\ Top.fn = "Unary" /\ grouped = TRUE
        /\ node.height \in Nat /\ node.bind = 11
    <2>1. CASE Returned("Unary", "operand") BY <2>1, GroupFacts DEF Returned, Suits
    <2>2. CASE Returned("Unary", "primary") BY <2>2, GroupFacts DEF Returned, Suits
    <2> QED BY <2>1, <2>2 DEF UnaryEnd
  <1>2. grouped' = TRUE
    BY <1>1 DEF UnaryEnd
  <1>3. node.height + 1 \in Nat /\ 11 \in 0 .. 11
    BY <1>1
  <1>4. Return(node.height + 1, 11) \/ Return(node.height, 11)
    BY <1>1 DEF UnaryEnd
  <1> QED BY <1>1, <1>2, <1>3, <1>4, GroupTight

LEMMA PrimaryLeafGroup ==
  ASSUME StackInv, GroupInv, PrimaryLeaf PROVE GroupInv'
  <1> DEFINE f == [Top EXCEPT !.at = "postfix", !.height = 1]
  <1>1. /\ stack # <<>> /\ verdict = "running" /\ Top \in Frames /\ Top.fn = "Primary"
        /\ Top.at = "start" /\ Top.rem \in 0 .. maxConstantTreeDepth /\ Binds(Top)
        /\ Top.height \in Nat /\ HeightOK(Top) /\ Funded(Top) /\ grouped = TRUE
    BY TopFacts, GroupFacts DEF PrimaryLeaf, In
  <1>2. f \in Frames /\ SameCall(f, Top) /\ f.at = "postfix"
    BY <1>1 DEF Frames, SameCall, Points
  <1>3. Continue(f) /\ node' = none /\ grouped' = TRUE
    BY <1>1 DEF PrimaryLeaf, In
  <1> HIDE DEF f
  <1>4. Binds(f)
    BY <1>2 DEF Binds
  <1> QED BY <1>1, <1>2, <1>3, <1>4, GroupContinue

(* A frame that only moves on *)
LEMMA GroupMove ==
  ASSUME StackInv, GroupInv, verdict = "running", stack # <<>>, node = none,
         NEW at \in {"open", "type", "equals", "list"},
         Continue([Top EXCEPT !.at = at]), UNCHANGED node, grouped' = TRUE
  PROVE  GroupInv'
  <1> DEFINE f == [Top EXCEPT !.at = at]
  <1>1. Top \in Frames
    BY TopFrame DEF StackInv, Top
  <1>2. at \in Points
    BY DEF Points
  <1>3. f \in Frames /\ SameCall(f, Top) /\ f.at = at
    BY <1>1, <1>2, Moved
  <1>4. Continue(f) /\ node' = none
    OBVIOUS
  <1> HIDE DEF f
  <1>5. Binds(f) /\ f.at # "loop"
    BY <1>3 DEF Binds
  <1> QED BY <1>3, <1>4, <1>5, GroupContinue

LEMMA PrimaryOpenGroup ==
  ASSUME StackInv, GroupInv, PrimaryOpen PROVE GroupInv'
  <1>1. stack # <<>> /\ verdict = "running" /\ grouped' = TRUE /\ node = none
    BY GroupFacts DEF PrimaryOpen, In
  <1>2. CASE Malformed
    BY <1>1, <1>2, GroupStop DEF Malformed
  <1>3. CASE Continue([Top EXCEPT !.at = "open"]) /\ UNCHANGED node
    BY <1>1, <1>3, GroupMove
  <1> QED BY <1>2, <1>3 DEF PrimaryOpen

LEMMA PrimaryParenGroup ==
  ASSUME StackInv, GroupInv, PrimaryParen PROVE GroupInv'
  <1> DEFINE f == [Top EXCEPT !.at = "paren"]
  <1>1. /\ stack # <<>> /\ verdict = "running" /\ Top \in Frames /\ Top.fn = "Primary"
        /\ Top.at = "open" /\ Top.rem \in 0 .. maxConstantTreeDepth /\ Binds(Top)
        /\ Top.height \in Nat /\ HeightOK(Top) /\ Funded(Top) /\ grouped = TRUE
    BY TopFacts, GroupFacts DEF PrimaryParen, In
  <1>2. f \in Frames /\ SameCall(f, Top) /\ f.at = "paren"
    BY <1>1, Moved DEF Points
  <1>3. Descend(f, Top.rem # 1, Frame("Expression", 0, ChildBudget(Top.rem)))
    BY DEF PrimaryParen
  <1>4. grouped' = TRUE
    BY <1>1 DEF PrimaryParen
  <1> HIDE DEF f
  <1>5. Binds(f) /\ Serves(f, "Expression", 0)
    BY <1>1, <1>2 DEF Binds, Serves, SameCall
  <1>6. Top.rem # 1 => ChildBudget(Top.rem) \in 0 .. maxConstantTreeDepth
    BY <1>1, DepthAssumption DEF ChildBudget, AtLimit, HeightOK, Funded
  <1>7. "Expression" \in Functions /\ 0 \in 0 .. 11
    BY DEF Functions
  <1> QED BY <1>1, <1>2, <1>3, <1>4, <1>5, <1>6, <1>7, GroupDescend

LEMMA PrimaryCastGroup ==
  ASSUME StackInv, GroupInv, PrimaryCast PROVE GroupInv'
  <1>1. stack # <<>> /\ verdict = "running" /\ grouped' = TRUE /\ node = none
    <2>1. CASE In("Primary", "open") BY <2>1, GroupFacts DEF PrimaryCast, In
    <2>2. CASE In("Primary", "type") BY <2>2, GroupFacts DEF PrimaryCast, In
    <2> QED BY <2>1, <2>2 DEF PrimaryCast
  <1>2. CASE Continue([Top EXCEPT !.at = "type"]) /\ UNCHANGED node
    BY <1>1, <1>2, GroupMove
  <1>3. CASE Malformed
    BY <1>1, <1>3, GroupStop DEF Malformed
  <1>4. CASE /\ In("Primary", "type")
             /\ Descend([Top EXCEPT !.at = "cast"], Top.rem # 1,
                        Frame("Unary", 0, ChildBudget(Top.rem)))
    <2> DEFINE f == [Top EXCEPT !.at = "cast"]
    <2>1. /\ Top \in Frames /\ Top.fn = "Primary" /\ Funded(Top)
          /\ Top.rem \in 0 .. maxConstantTreeDepth
      BY <1>4, TopFacts, GroupFacts DEF In
    <2>2. f \in Frames /\ SameCall(f, Top) /\ f.at = "cast"
      BY <2>1, Moved DEF Points
    <2>3. Descend(f, Top.rem # 1, Frame("Unary", 0, ChildBudget(Top.rem)))
      BY <1>4
    <2> HIDE DEF f
    <2>4. Binds(f) /\ Serves(f, "Unary", 0)
      BY <2>2 DEF Binds, Serves
    <2>5. Top.rem # 1 => ChildBudget(Top.rem) \in 0 .. maxConstantTreeDepth
      BY <2>1, DepthAssumption DEF ChildBudget, Funded
    <2>6. "Unary" \in Functions /\ 0 \in 0 .. 11
      BY DEF Functions
    <2> QED BY <1>1, <2>2, <2>3, <2>4, <2>5, <2>6, GroupDescend
  <1> QED BY <1>2, <1>3, <1>4 DEF PrimaryCast

LEMMA PrimaryCastEndGroup ==
  ASSUME StackInv, GroupInv, PrimaryCastEnd PROVE GroupInv'
  <1>1. /\ stack # <<>> /\ verdict = "running" /\ Top.fn = "Primary" /\ grouped = TRUE
        /\ node.height \in Nat /\ node.bind = 11
    BY GroupFacts DEF PrimaryCastEnd, Returned, Suits
  <1>2. Return(node.height + 1, 11) /\ grouped' = TRUE
    BY <1>1 DEF PrimaryCastEnd
  <1>3. node.height + 1 \in Nat /\ 11 \in 0 .. 11
    BY <1>1
  <1> QED BY <1>1, <1>2, <1>3, GroupTight

LEMMA PrimaryCloseGroup ==
  ASSUME StackInv, GroupInv, PrimaryClose PROVE GroupInv'
  <1> DEFINE depth == Larger(Top.height, node.height) + 1
             f == [Top EXCEPT !.at = "postfix", !.height = depth]
  <1>1. /\ stack # <<>> /\ verdict = "running" /\ Top \in Frames /\ grouped = TRUE
        /\ Top.height \in Nat /\ node.height \in Nat
    <2>1. CASE Returned("Primary", "paren") BY <2>1, GroupFacts DEF Returned
    <2>2. CASE Returned("Primary", "argument") BY <2>2, GroupFacts DEF Returned
    <2> QED BY <2>1, <2>2 DEF PrimaryClose
  <1>2. grouped' = TRUE
    BY <1>1 DEF PrimaryClose
  <1>3. CASE Malformed
    BY <1>2, <1>3, GroupStop DEF Malformed
  <1>4. CASE Deep(Top)
    BY <1>2, <1>4, GroupStop DEF Deep
  <1>5. CASE Continue(f) /\ node' = none
    <2>1. f \in Frames /\ SameCall(f, Top) /\ f.at = "postfix"
      <3>1. "postfix" \in Points /\ depth \in Nat
        BY <1>1 DEF Points, Larger
      <3> HIDE DEF depth
      <3> QED BY <1>1, <3>1 DEF Frames, SameCall
    <2>2. Continue(f) /\ node' = none
      BY <1>5
    <2> HIDE DEF f
    <2>3. Binds(f)
      BY <2>1 DEF Binds
    <2> QED BY <1>1, <1>2, <2>1, <2>2, <2>3, GroupContinue
  <1> QED BY <1>3, <1>4, <1>5 DEF PrimaryClose

LEMMA PrimaryCallGroup ==
  ASSUME StackInv, GroupInv, PrimaryCall PROVE GroupInv'
  <1> DEFINE f == [Top EXCEPT !.at = "argument"]
  <1>1. /\ stack # <<>> /\ verdict = "running" /\ Top \in Frames /\ Top.fn = "Primary"
        /\ Top.at = "postfix" /\ Top.rem \in 0 .. maxConstantTreeDepth /\ Binds(Top)
        /\ Top.height \in Nat /\ HeightOK(Top) /\ Funded(Top) /\ grouped = TRUE
    BY TopFacts, GroupFacts DEF PrimaryCall, In
  <1>2. f \in Frames /\ SameCall(f, Top) /\ f.at = "argument"
    BY <1>1, Moved DEF Points
  <1>3. Descend(f, ~AtLimit(Top.height, Top.rem), Frame("Expression", 0, ChildBudget(Top.rem)))
    BY DEF PrimaryCall
  <1>4. grouped' = TRUE
    BY <1>1 DEF PrimaryCall
  <1> HIDE DEF f
  <1>5. Binds(f) /\ Serves(f, "Expression", 0)
    BY <1>1, <1>2 DEF Binds, Serves, SameCall
  <1>6. ~AtLimit(Top.height, Top.rem) => ChildBudget(Top.rem) \in 0 .. maxConstantTreeDepth
    BY <1>1, DepthAssumption DEF ChildBudget, AtLimit, HeightOK, Funded
  <1>7. "Expression" \in Functions /\ 0 \in 0 .. 11
    BY DEF Functions
  <1> QED BY <1>1, <1>2, <1>3, <1>4, <1>5, <1>6, <1>7, GroupDescend

LEMMA PrimaryEndGroup ==
  ASSUME StackInv, GroupInv, PrimaryEnd PROVE GroupInv'
  <1>1. /\ stack # <<>> /\ verdict = "running" /\ Top \in Frames /\ Top.fn = "Primary"
        /\ Top.at = "postfix" /\ Top.rem \in 0 .. maxConstantTreeDepth /\ Binds(Top)
        /\ Top.height \in Nat /\ HeightOK(Top) /\ Funded(Top) /\ grouped = TRUE
    BY TopFacts, GroupFacts DEF PrimaryEnd, In
  <1>2. Return(Top.height, 11) /\ grouped' = TRUE /\ 11 \in 0 .. 11
    BY <1>1 DEF PrimaryEnd
  <1> QED BY <1>1, <1>2, GroupTight

LEMMA InitializerStartGroup ==
  ASSUME StackInv, GroupInv, InitializerStart PROVE GroupInv'
  <1>1. /\ stack # <<>> /\ verdict = "running" /\ Top \in Frames /\ Top.fn = "Initializer"
        /\ Top.at = "start" /\ Top.rem \in 0 .. maxConstantTreeDepth /\ Binds(Top)
        /\ Top.height \in Nat /\ HeightOK(Top) /\ Funded(Top) /\ grouped = TRUE
    BY TopFacts, GroupFacts DEF InitializerStart, In
  <1>2. node = none /\ grouped' = TRUE
    BY <1>1 DEF InitializerStart, In
  <1>3. CASE Deep(Top)
    BY <1>2, <1>3, GroupStop DEF Deep
  <1>4. CASE Continue([Top EXCEPT !.at = "equals"]) /\ UNCHANGED node
    BY <1>1, <1>2, <1>4, GroupMove
  <1>5. CASE /\ Top.rem > 0
             /\ Call([Top EXCEPT !.at = "scalar"], Frame("Expression", 0, Top.rem))
    <2> DEFINE f == [Top EXCEPT !.at = "scalar"]
    <2>1. f \in Frames /\ SameCall(f, Top) /\ f.at = "scalar"
      BY <1>1, Moved DEF Points
    <2>2. Descend(f, TRUE, Frame("Expression", 0, Top.rem))
      BY <1>5 DEF Descend
    <2> HIDE DEF f
    <2>3. Binds(f) /\ Serves(f, "Expression", 0)
      BY <2>1 DEF Binds, Serves
    <2>4. "Expression" \in Functions /\ 0 \in 0 .. 11
      BY DEF Functions
    <2> QED BY <1>1, <1>2, <2>1, <2>2, <2>3, <2>4, GroupDescend
  <1>6. CASE Continue([Top EXCEPT !.at = "list"]) /\ UNCHANGED node
    BY <1>1, <1>2, <1>6, GroupMove
  <1> QED BY <1>3, <1>4, <1>5, <1>6 DEF InitializerStart

LEMMA InitializerNamedGroup ==
  ASSUME StackInv, GroupInv, InitializerNamed PROVE GroupInv'
  <1> DEFINE f == [Top EXCEPT !.at = "named"]
  <1>1. /\ stack # <<>> /\ verdict = "running" /\ Top \in Frames /\ Top.fn = "Initializer"
        /\ Top.at = "equals" /\ Top.rem \in 0 .. maxConstantTreeDepth /\ Binds(Top)
        /\ Top.height \in Nat /\ HeightOK(Top) /\ Funded(Top) /\ grouped = TRUE
    BY TopFacts, GroupFacts DEF InitializerNamed, In
  <1>2. f \in Frames /\ SameCall(f, Top) /\ f.at = "named"
    BY <1>1, Moved DEF Points
  <1>3. Descend(f, TRUE, Frame("Expression", 0, ChildBudget(Top.rem)))
    BY DEF InitializerNamed, Descend
  <1>4. grouped' = TRUE
    BY <1>1 DEF InitializerNamed
  <1> HIDE DEF f
  <1>5. Binds(f) /\ Serves(f, "Expression", 0)
    BY <1>1, <1>2 DEF Binds, Serves, SameCall
  <1>6. TRUE => ChildBudget(Top.rem) \in 0 .. maxConstantTreeDepth
    BY <1>1, DepthAssumption DEF ChildBudget, AtLimit, HeightOK, Funded
  <1>7. "Expression" \in Functions /\ 0 \in 0 .. 11
    BY DEF Functions
  <1> QED BY <1>1, <1>2, <1>3, <1>4, <1>5, <1>6, <1>7, GroupDescend

LEMMA InitializerElementGroup ==
  ASSUME StackInv, GroupInv, InitializerElement PROVE GroupInv'
  <1> DEFINE f == [Top EXCEPT !.at = "element"]
  <1>1. /\ stack # <<>> /\ verdict = "running" /\ Top \in Frames /\ Top.fn = "Initializer"
        /\ Top.at = "list" /\ Top.rem \in 0 .. maxConstantTreeDepth /\ Binds(Top)
        /\ Top.height \in Nat /\ HeightOK(Top) /\ Funded(Top) /\ grouped = TRUE
    BY TopFacts, GroupFacts DEF InitializerElement, In
  <1>2. f \in Frames /\ SameCall(f, Top) /\ f.at = "element"
    BY <1>1, Moved DEF Points
  <1>3. Descend(f, Top.rem # 1, Frame("Initializer", 0, ChildBudget(Top.rem)))
    BY DEF InitializerElement
  <1>4. grouped' = TRUE
    BY <1>1 DEF InitializerElement
  <1> HIDE DEF f
  <1>5. Binds(f) /\ Serves(f, "Initializer", 0)
    BY <1>1, <1>2 DEF Binds, Serves, SameCall
  <1>6. Top.rem # 1 => ChildBudget(Top.rem) \in 0 .. maxConstantTreeDepth
    BY <1>1, DepthAssumption DEF ChildBudget, AtLimit, HeightOK, Funded
  <1>7. "Initializer" \in Functions /\ 0 \in 0 .. 11
    BY DEF Functions
  <1> QED BY <1>1, <1>2, <1>3, <1>4, <1>5, <1>6, <1>7, GroupDescend

LEMMA InitializerNextGroup ==
  ASSUME StackInv, GroupInv, InitializerNext PROVE GroupInv'
  <1> DEFINE h == Larger(Top.height, node.height)
             f == [Top EXCEPT !.at = "list", !.height = h]
  <1>1. /\ stack # <<>> /\ verdict = "running" /\ Top \in Frames /\ Top.fn = "Initializer"
        /\ Top.at = "element" /\ Top.rem \in 0 .. maxConstantTreeDepth /\ Binds(Top)
        /\ Top.height \in Nat /\ HeightOK(Top) /\ Funded(Top) /\ grouped = TRUE
    BY TopFacts, GroupFacts DEF InitializerNext, Returned
  <1>2. grouped' = TRUE /\ h \in Nat
    BY <1>1, GroupFacts DEF InitializerNext, Returned, Larger
  <1>3. CASE Malformed
    BY <1>2, <1>3, GroupStop DEF Malformed
  <1>4. CASE Continue(f) /\ node' = none
    <2>1. f \in Frames /\ SameCall(f, Top) /\ f.at = "list"
      <3>1. "list" \in Points
        BY DEF Points
      <3> HIDE DEF h
      <3> QED BY <1>1, <1>2, <3>1 DEF Frames, SameCall
    <2>2. Continue(f) /\ node' = none
      BY <1>4
    <2> HIDE DEF f, h
    <2>3. Binds(f)
      BY <2>1 DEF Binds
    <2> QED BY <1>1, <1>2, <2>1, <2>2, <2>3, GroupContinue
  <1>5. CASE Return(h + 1, 11)
    <2> HIDE DEF h
    <2>1. h + 1 \in Nat /\ 11 \in 0 .. 11
      BY <1>2
    <2> QED BY <1>1, <1>2, <1>5, <2>1, GroupTight
  <1> QED BY <1>3, <1>4, <1>5 DEF InitializerNext

LEMMA InitializerEndGroup ==
  ASSUME StackInv, GroupInv, InitializerEnd PROVE GroupInv'
  <1>1. /\ stack # <<>> /\ verdict = "running" /\ Top.fn = "Initializer" /\ grouped = TRUE
        /\ node.height \in Nat /\ node.bind \in 0 .. 11 /\ Top.height \in Nat
    <2>1. CASE In("Initializer", "list") BY <2>1, GroupFacts DEF In
    <2>2. CASE Returned("Initializer", "named") BY <2>2, GroupFacts DEF Returned
    <2>3. CASE Returned("Initializer", "scalar") BY <2>3, GroupFacts DEF Returned
    <2> QED BY <2>1, <2>2, <2>3 DEF InitializerEnd
  <1>2. grouped' = TRUE
    BY <1>1 DEF InitializerEnd
  <1>3. Top.height + 1 \in Nat /\ node.height + 1 \in Nat /\ 11 \in 0 .. 11
    BY <1>1
  <1>4. \/ Return(Top.height + 1, 11)
        \/ Return(node.height + 1, 11)
        \/ Return(node.height, node.bind)
    BY DEF InitializerEnd
  <1> QED BY <1>1, <1>2, <1>3, <1>4, GroupTight

LEMMA StepGroup == StackInv /\ GroupInv /\ [Next]_vars => GroupInv'
  <1> SUFFICES ASSUME StackInv, GroupInv, [Next]_vars PROVE GroupInv'
    OBVIOUS
  <1>1. CASE UNCHANGED vars
    BY <1>1 DEF vars, GroupInv, MayGoOn, MayTake
  <1>2. CASE Ended
    BY <1>2 DEF Ended, vars, GroupInv, MayGoOn, MayTake
  <1>3. CASE \/ ExpressionStart \/ ExpressionLeft \/ ExpressionBinary \/ ExpressionRight
             \/ ExpressionQuestion \/ ExpressionColon \/ ExpressionFalse \/ ExpressionEnd
    BY <1>3, ExpressionStartGroup, ExpressionLeftGroup, ExpressionBinaryGroup,
       ExpressionRightGroup, ExpressionQuestionGroup, ExpressionColonGroup,
       ExpressionFalseGroup, ExpressionEndGroup
  <1>4. CASE \/ UnaryOperator \/ UnaryPrimary \/ UnaryEnd
             \/ PrimaryLeaf \/ PrimaryOpen \/ PrimaryParen \/ PrimaryCast \/ PrimaryCastEnd
             \/ PrimaryClose \/ PrimaryCall \/ PrimaryEnd
    BY <1>4, UnaryOperatorGroup, UnaryPrimaryGroup, UnaryEndGroup, PrimaryLeafGroup,
       PrimaryOpenGroup, PrimaryParenGroup, PrimaryCastGroup, PrimaryCastEndGroup,
       PrimaryCloseGroup, PrimaryCallGroup, PrimaryEndGroup
  <1>5. CASE \/ InitializerStart \/ InitializerNamed \/ InitializerElement
             \/ InitializerNext \/ InitializerEnd
    BY <1>5, InitializerStartGroup, InitializerNamedGroup, InitializerElementGroup,
       InitializerNextGroup, InitializerEndGroup
  <1> QED BY <1>1, <1>2, <1>3, <1>4, <1>5 DEF Next

LEMMA InitGroup == Init => GroupInv
  <1> SUFFICES ASSUME Init PROVE GroupInv
    OBVIOUS
  <1>1. PICK f : stack = <<f>> /\ f.at = "start"
    BY DEF Init, Frame
  <1>2. Len(stack) = 1 /\ stack[1] = f
    BY <1>1
  <1>3. node = none /\ grouped = TRUE
    BY DEF Init
  <1> QED BY <1>1, <1>2, <1>3 DEF GroupInv, AllBind, AllServe, MayGoOn, MayTake, Binds


(* Types: budgets stay within the limit, heights never go negative and the  *)
(* result is one of the four verdicts, whatever the source.                 *)
THEOREM TypeCorrect == Spec => []TypeOK
  <1>1. StackInv /\ CursorOK => TypeOK
    BY DEF StackInv, CursorOK, TypeOK, Nodes, Verdicts
  <1> QED BY <1>1, InitInv, StepInv, StepCursor, PTL DEF Spec

(* parseConstantExpression and its companions never stand deeper on the    *)
(* C++ stack than three calls per level of the limit, and two.              *)
THEOREM RecursionIsBounded == Spec => []RecursionBounded
  <1>1. StackInv => RecursionBounded
    BY RankedLength DEF StackInv, RecursionBounded
  <1> QED BY <1>1, InitInv, StepInv, PTL DEF Spec

(* No tree higher than maxConstantTreeDepth is ever accepted.               *)
THEOREM AcceptedTreeFits == Spec => []AcceptedFits
  <1>1. StackInv => AcceptedFits
    BY DepthAssumption DEF StackInv, NodeFits, Nodes, AcceptedFits
  <1> QED BY <1>1, InitInv, StepInv, PTL DEF Spec

(* Precedence and associativity for every source and every limit: whatever  *)
(* parseConstantExpression builds, the left operand of a binary operator    *)
(* binds at least as tightly as the operator and its right operand tighter. *)
THEOREM OperatorsGroup == Spec => []Grouping
  <1>1. GroupInv => Grouping
    BY DEF GroupInv, Grouping
  <1> QED BY <1>1, InitInv, InitGroup, StepInv, StepGroup, PTL DEF Spec

(* Nothing is refused for its depth that could still fit: when the parser   *)
(* gives up at the limit, every tree with that beginning is too high.       *)
THEOREM RefusalsAreDue == Spec => []RefusedIsTooDeep
  <1>1. StackInv => RefusedIsTooDeep
    <2> SUFFICES ASSUME StackInv, verdict = "deep"
                 PROVE  \E height \in LeastHeights : height > maxConstantTreeDepth
      BY DEF RefusedIsTooDeep
    <2> DEFINE n == Len(stack)
               above == LevelsTo(stack, n - 1)
    <2>1. n \in Nat \ {0} /\ stack[n] \in Frames /\ NoRoom(stack[n], node)
      BY TopFrame DEF StackInv
    <2>2. stack[n].rem + above = maxConstantTreeDepth
      BY <2>1 DEF StackInv, Leveled
    <2>3. above \in Nat /\ LevelsTo(stack, n) = above + (IF AddsLevel(stack[n]) THEN 1 ELSE 0)
      <3>1. n - 1 \in Nat /\ n - 1 + 1 = n
        BY <2>1
      <3> QED BY <3>1, LevelsNext
    <2>4. LevelsTo(stack, n) + Larger(1, node.height) \in LeastHeights
      BY DEF LeastHeights
    <2>5. HoldsPart(stack[n]) => LevelsTo(stack, n) + stack[n].height \in LeastHeights
      BY <2>1 DEF LeastHeights
    <2>6. node.height \in Nat /\ stack[n].rem \in Nat /\ stack[n].height \in Nat
      BY <2>1, DepthAssumption DEF StackInv, Nodes, Frames
    <2> HIDE DEF n, above
    <2>7. CASE AddsLevel(stack[n]) /\ Larger(1, node.height) + 1 > stack[n].rem
      BY <2>2, <2>3, <2>4, <2>6, <2>7, DepthAssumption DEF Larger
    <2>8. CASE Larger(1, node.height) > stack[n].rem
      BY <2>2, <2>3, <2>4, <2>6, <2>8, DepthAssumption DEF Larger
    <2>9. CASE HoldsPart(stack[n]) /\ stack[n].height + 1 > stack[n].rem
      <3>1. AddsLevel(stack[n])
        BY <2>9 DEF HoldsPart, AddsLevel
      <3> QED BY <2>2, <2>3, <2>5, <2>6, <2>9, <3>1, DepthAssumption
    <2> QED BY <2>1, <2>7, <2>8, <2>9 DEF NoRoom
  <1> QED BY <1>1, InitInv, StepInv, PTL DEF Spec
=============================================================================
