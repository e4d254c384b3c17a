--------------------------- MODULE CstParserProofs ---------------------------
(***************************************************************************)
(* Proofs about CstParser, for every alphabet, input length and limit on   *)
(* nested blocks; and about TokenCursor, by which it reads its tokens.     *)
(***************************************************************************)
EXTENDS CstParser, TokenCursor, SequenceTheorems, TLAPS

-----------------------------------------------------------------------------
(* Facts about the productions of CstGrammar *)

(* The targets that leave a production, other than by reading its last token *)
Leaving == {Accept, Unread, Missing, Read}

EofLeaves(moves) == \A m \in moves : "Eof" \in m[2] => m[3] \in Leaving

LEMMA ExpressionsLeaveAtEof ==
  ASSUME NEW starts, NEW more, NEW end PROVE EofLeaves(ExpressionMoves(starts, more, end))
BY DEF EofLeaves, Leaving, ExpressionMoves, Leaf

LEMMA OpcodesLeaveAtEof == ASSUME NEW at PROVE EofLeaves(OpcodeMoves(at))
BY DEF EofLeaves, Leaving, OpcodeMoves, Modifier, Leaf

LEMMA PragmasLeaveAtEof == ASSUME NEW name, NEW exit PROVE EofLeaves(PragmaMoves(name, exit))
BY DEF EofLeaves, Leaving, PragmaMoves

LEMMA AttributesLeaveAtEof ==
  ASSUME NEW name, NEW exit PROVE EofLeaves(AttributeMoves(name, exit))
BY DEF EofLeaves, Leaving, AttributeMoves, DotIdents

LEMMA InitializersLeaveAtEof == ASSUME NEW exit PROVE EofLeaves(InitializerMoves(exit))
BY ExpressionsLeaveAtEof DEF EofLeaves, Leaving, InitializerMoves, Names

LEMMA ParameterListsLeaveAtEof ==
  ASSUME NEW name, NEW exit PROVE EofLeaves(ParameterListMoves(name, exit))
BY ExpressionsLeaveAtEof DEF EofLeaves, Leaving, ParameterListMoves, DotIdents

LEMMA LanguagesLeaveAtEof == ASSUME NEW name PROVE EofLeaves(LanguageMoves(name))
BY DEF EofLeaves, Leaving, LanguageMoves

LEMMA DirectivesLeaveAtEof ==
  /\ EofLeaves(LegacyDwarfMoves) /\ EofLeaves(LocMoves) /\ EofLeaves(AliasMoves)
  /\ EofLeaves(ModuleDirectiveMoves) /\ EofLeaves(StrayMoves)
<1>1. EofLeaves(LegacyDwarfMoves)
  BY DEF EofLeaves, Leaving, LegacyDwarfMoves, Names, DotIdents
<1>2. EofLeaves(LocMoves)
  BY DEF EofLeaves, Leaving, LocMoves, Names
<1>3. EofLeaves(AliasMoves)
  BY DEF EofLeaves, Leaving, AliasMoves
<1>4. EofLeaves(ModuleDirectiveMoves)
  BY DEF EofLeaves, Leaving, ModuleDirectiveMoves
<1>5. EofLeaves(StrayMoves)
  BY DEF EofLeaves, StrayMoves
<1>6. QED BY <1>1, <1>2, <1>3, <1>4, <1>5

LEMMA BodiesLeaveAtEof ==
  /\ EofLeaves(VariableMoves) /\ EofLeaves(InstructionMoves) /\ EofLeaves(CallMoves)
  /\ EofLeaves(HeadMoves) /\ EofLeaves(LabelMoves) /\ EofLeaves(CallPrototypeMoves)
  /\ EofLeaves(CallTargetsMoves)
<1>1. EofLeaves(VariableMoves)
  BY ExpressionsLeaveAtEof DEF EofLeaves, Leaving, VariableMoves, Names, DotIdents
<1>2. EofLeaves(InstructionMoves)
  BY ExpressionsLeaveAtEof, OpcodesLeaveAtEof
  DEF EofLeaves, Leaving, InstructionMoves, BracketMoves, VectorMoves, DotIdents
<1>3. EofLeaves(CallMoves)
  BY ExpressionsLeaveAtEof DEF EofLeaves, Leaving, CallMoves, DotIdents
<1>4. EofLeaves(HeadMoves)
  BY OpcodesLeaveAtEof DEF EofLeaves, HeadMoves
<1>5. EofLeaves(LabelMoves)
  BY DEF EofLeaves, Leaving, LabelMoves
<1>6. EofLeaves(CallPrototypeMoves)
  BY DEF EofLeaves, Leaving, CallPrototypeMoves, DotIdents
<1>7. EofLeaves(CallTargetsMoves)
  BY DEF EofLeaves, Leaving, CallTargetsMoves
<1>8. QED BY <1>1, <1>2, <1>3, <1>4, <1>5, <1>6, <1>7

LEMMA HeadersLeaveAtEof == EofLeaves(FuncMoves) /\ EofLeaves(EntryMoves)
<1>1. EofLeaves(FuncMoves)
  BY DEF EofLeaves, Leaving, FuncMoves, DotIdents
<1>2. EofLeaves(EntryMoves)
  BY DEF EofLeaves, Leaving, EntryMoves, ResourceMoves, DotIdents
<1>3. QED BY <1>1, <1>2

(* A production never reads the end of input as a token of its node. *)
LEMMA ProductionsLeaveAtEof ==
  \A p \in DOMAIN Productions : EofLeaves(Productions[p])
<1>1. EofLeaves(LanguageMoves("funclang") \cup { <<<<"funclang", 1>>, {"Semicolon"}, Return>> })
  BY LanguagesLeaveAtEof DEF EofLeaves
<1>2. EofLeaves(LanguageMoves("entrylang") \cup { <<<<"entrylang", 1>>, {"Semicolon"}, Read>> })
  BY LanguagesLeaveAtEof DEF EofLeaves
<1>3. EofLeaves(PragmaMoves("pragma", Return)) /\ EofLeaves(PragmaMoves("entrypragma", <<"entry", 2>>))
  BY PragmasLeaveAtEof
<1>4. /\ EofLeaves(AttributeMoves("varattr", <<"var", 1>>))
      /\ EofLeaves(AttributeMoves("funcattr", <<"func", 1>>))
  BY AttributesLeaveAtEof
<1>5. /\ EofLeaves(ParameterListMoves("protoreturns", <<"proto", 1>>))
      /\ EofLeaves(ParameterListMoves("protoparams", <<"proto", 3>>))
      /\ EofLeaves(ParameterListMoves("returns", <<"func", 2>>))
      /\ EofLeaves(ParameterListMoves("params", <<"func", 4>>))
      /\ EofLeaves(ParameterListMoves("entryparams", <<"entry", 2>>))
  BY ParameterListsLeaveAtEof
<1>6. EofLeaves(InitializerMoves(<<"var", 17>>))
  BY InitializersLeaveAtEof
<1>7. DOMAIN Productions =
        {"dwarf", "loc", "pragma", "alias", "directive", "stray", "var", "varattr", "list",
         "ins", "call", "head", "label", "proto", "targets", "protoreturns", "protoparams",
         "func", "funcattr", "returns", "params", "funclang", "entry", "entryparams",
         "entrypragma", "entrylang"}
  BY DEF Productions
<1>8. ASSUME NEW p \in {"dwarf", "loc", "alias", "directive", "stray", "pragma", "entrypragma"}
      PROVE  EofLeaves(Productions[p])
  BY <1>3, DirectivesLeaveAtEof DEF Productions
<1>9. ASSUME NEW p \in {"var", "ins", "call", "head", "label", "proto", "targets"}
      PROVE  EofLeaves(Productions[p])
  BY BodiesLeaveAtEof DEF Productions
<1>10. ASSUME NEW p \in {"varattr", "funcattr", "list", "func", "entry", "funclang", "entrylang"}
       PROVE  EofLeaves(Productions[p])
  <2>1. CASE p \in {"varattr", "funcattr", "list"}
    BY <1>4, <1>6, <2>1 DEF Productions
  <2>2. CASE p \in {"func", "entry"}
    BY HeadersLeaveAtEof, <2>2 DEF Productions
  <2>3. CASE p = "funclang"
    BY <1>1, <2>3 DEF Productions
  <2>4. CASE p = "entrylang"
    BY <1>2, <2>4 DEF Productions
  <2>5. QED BY <2>1, <2>2, <2>3, <2>4
<1>11. ASSUME NEW p \in {"protoreturns", "protoparams", "returns", "params", "entryparams"}
       PROVE  EofLeaves(Productions[p])
  BY <1>5 DEF Productions
<1>12. QED BY <1>7, <1>8, <1>9, <1>10, <1>11

-----------------------------------------------------------------------------
(* The parser *)

(* The productions that the drivers select are productions of the grammar. *)
LEMMA DriversSelectProductions ==
  /\ \A k : BodyProduction(k)[1] \in DOMAIN Productions \cup {"return"}
  /\ \A k : \A b \in BOOLEAN :
       ModuleProduction(k, b)[1] \in DOMAIN Productions \cup {"return"}
<1>1. {"var", "dwarf", "loc", "pragma", "head", "ins", "entry", "func", "alias",
       "directive", "stray"} \subseteq DOMAIN Productions
  BY DEF Productions
<1>2. ASSUME NEW k PROVE BodyProduction(k)[1] \in DOMAIN Productions \cup {"return"}
  BY <1>1 DEF BodyProduction, Return
<1>3. ASSUME NEW k, NEW b \in BOOLEAN
      PROVE  ModuleProduction(k, b)[1] \in DOMAIN Productions \cup {"return"}
  BY <1>1 DEF ModuleProduction, Return
<1>4. QED BY <1>2, <1>3

LEMMA LevelsAreNaturals ==
  /\ Levels \subseteq Nat /\ 0 \in Levels /\ 1 \in Levels
  /\ \A l \in Levels : l > 0 => l - 1 \in Levels
  /\ \A l \in Levels : l - 1 < kMaxNestedBlockDepth => l + 1 \in Levels
BY BoundsAssumption DEF Levels

LEMMA ConsumeType ==
  ASSUME pos \in Nat, net \in Int, eofs \in Nat, Consume
  PROVE  pos' \in Nat /\ look' \in TokenKinds /\ net' \in Int /\ eofs' \in Nat
BY AlphabetAssumption DEF Consume, TokenKinds

LEMMA AppendType ==
  ASSUME next \in [Levels -> Nat], level \in Levels, NEW begin, NEW end \in Nat,
         AppendTo(level, begin, end)
  PROVE  next' \in [Levels -> Nat] /\ tiled' \in BOOLEAN
<1>1. next' \in [Levels -> Nat] BY DEF AppendTo
<1>2. tiled' \in BOOLEAN BY DEF AppendTo
<1>3. QED BY <1>1, <1>2

LEMMA FinishType ==
  ASSUME TypeOK, NEW begin, NEW end \in Nat, Finish(begin, end)
  PROVE  /\ mode' = "loop" /\ q'[1] = "return" /\ first' = 0 /\ legacy' = FALSE
         /\ expected' = FALSE /\ braces' = 0 /\ took' = FALSE /\ level' = level /\ start' = start
         /\ next' \in [Levels -> Nat] /\ tiled' \in BOOLEAN
<1>1. next' \in [Levels -> Nat] /\ tiled' \in BOOLEAN BY AppendType DEF Finish, TypeOK
<1>2. QED BY <1>1 DEF Finish, ToLoop, Return

LEMMA OpenType ==
  ASSUME TypeOK, level + 1 \in Levels, NEW begin \in Nat, NEW inner \in Nat, Open(begin, inner)
  PROVE  /\ level' \in Levels /\ tiled' \in BOOLEAN
         /\ start' \in [Levels -> Nat] /\ next' \in [Levels -> Nat]
BY DEF Open, TypeOK

(* A step keeps every variable in its range. *)
LEMMA TypeStep == TypeOK /\ [Next]_vars => TypeOK'
<1> SUFFICES ASSUME TypeOK, [Next]_vars PROVE TypeOK'
  OBVIOUS
<1> USE LevelsAreNaturals
<1> USE DEF TypeOK, Modes, cursor, tree, item
<1>1. CASE UNCHANGED vars
  BY <1>1 DEF vars
<1>2. CASE ModuleEnd
  BY <1>2 DEF ModuleEnd
<1>3. CASE ModuleQualifier
  <2>1. pos' \in Nat /\ look' \in TokenKinds /\ net' \in Int /\ eofs' \in Nat
    BY <1>3, ConsumeType DEF ModuleQualifier
  <2>2. QED BY <1>3, <2>1 DEF ModuleQualifier, BeginItem
<1>4. CASE ModuleItem
  <2>1. pos' \in Nat /\ look' \in TokenKinds /\ net' \in Int /\ eofs' \in Nat
    BY <1>4, ConsumeType DEF ModuleItem
  <2>2. q'[1] \in DOMAIN Productions \cup {"return"}
    BY <1>4, DriversSelectProductions DEF ModuleItem, Fail
  <2>3. QED BY <1>4, <2>1, <2>2 DEF ModuleItem, BeginItem, Fail
<1>5. CASE SectionHeader
  <2>1. pos' \in Nat /\ look' \in TokenKinds /\ net' \in Int /\ eofs' \in Nat
    BY <1>5, ConsumeType DEF SectionHeader
  <2>2. QED BY <1>5, <2>1 DEF SectionHeader, Fail
<1>6. CASE SectionPayload
  <2>1. pos' \in Nat /\ look' \in TokenKinds /\ net' \in Int /\ eofs' \in Nat
    BY <1>6, ConsumeType DEF SectionPayload
  <2>2. braces' \in Nat
    <3>1. CASE EndsPayload BY <1>6, <3>1 DEF SectionPayload
    <3>2. CASE ~EndsPayload
      <4>1. braces > 0 /\ braces' = braces + PayloadDepth(look)
        BY <1>6, <3>2 DEF SectionPayload
      <4>2. CASE look = "LBrace" BY <4>1, <4>2 DEF PayloadDepth
      <4>3. CASE look = "RBrace" BY <4>1, <4>3 DEF PayloadDepth
      <4>4. CASE look \notin {"LBrace", "RBrace"} BY <4>1, <4>4 DEF PayloadDepth
      <4>5. QED BY <4>2, <4>3, <4>4
    <3>3. QED BY <3>1, <3>2
  <2>3. mode' \in Modes /\ expected' \in BOOLEAN /\ diagnosed' \in BOOLEAN
    BY <1>6 DEF SectionPayload, Fail
  <2>4. QED BY <1>6, <2>1, <2>2, <2>3 DEF SectionPayload
<1>7. CASE SectionEnd
  <2>1. pos' \in Nat /\ look' \in TokenKinds /\ net' \in Int /\ eofs' \in Nat
    BY <1>7, ConsumeType DEF SectionEnd
  <2>2. diagnosed' \in BOOLEAN BY <1>7 DEF SectionEnd
  <2>3. PICK end \in Nat : Finish(first, end) BY <1>7 DEF SectionEnd
  <2>4. QED BY <2>1, <2>2, <2>3, FinishType
<1>8. CASE BodyClose
  <2>1. pos' \in Nat /\ look' \in TokenKinds /\ net' \in Int /\ eofs' \in Nat
    BY <1>8, ConsumeType DEF BodyClose
  <2>2. QED BY <1>8, <2>1 DEF BodyClose, Close, InBody
<1>9. CASE BodyMissing
  BY <1>9 DEF BodyMissing, Close, InBody
<1>10. CASE BodyItem
  <2>1. pos' \in Nat /\ look' \in TokenKinds /\ net' \in Int /\ eofs' \in Nat
    BY <1>10, ConsumeType DEF BodyItem
  <2>2. q'[1] \in DOMAIN Productions \cup {"return"}
    BY <1>10, DriversSelectProductions DEF BodyItem, Fail
  <2>3. CASE BlockAllowed /\ Open(pos, pos + 1)
    <3>1. level' \in Levels /\ tiled' \in BOOLEAN
          /\ start' \in [Levels -> Nat] /\ next' \in [Levels -> Nat]
      BY <2>3, OpenType DEF BlockAllowed
    <3>2. legacy' \in BOOLEAN /\ first' \in Nat /\ mode' \in Modes /\ expected' \in BOOLEAN
          /\ diagnosed' \in BOOLEAN
      BY <1>10 DEF BodyItem, Fail, BeginItem
    <3>3. QED BY <1>10, <2>1, <2>2, <3>1, <3>2 DEF BodyItem
  <2>4. CASE UNCHANGED tree
    BY <1>10, <2>1, <2>2, <2>4 DEF BodyItem, BeginItem, Fail
  <2>5. QED BY <1>10, <2>3, <2>4 DEF BodyItem
<1>11. CASE ItemAdvance
  <2>1. pos' \in Nat /\ look' \in TokenKinds /\ net' \in Int /\ eofs' \in Nat
    BY <1>11, ConsumeType DEF ItemAdvance
  <2>2. QED BY <1>11, <2>1 DEF ItemAdvance, Took, InBody, isFunctionBoundary
<1>12. CASE ItemReturn
  <2>1. pos' \in Nat /\ look' \in TokenKinds /\ net' \in Int /\ eofs' \in Nat
    BY <1>12, ConsumeType DEF ItemReturn
  <2>2. PICK end \in Nat : Finish(first, end) /\ diagnosed' = diagnosed
    BY <1>12 DEF ItemReturn
  <2>3. QED BY <2>1, <2>2, FinishType
<1>13. CASE ItemAccept
  BY <1>13 DEF ItemAccept, Finish, AppendTo, ToLoop, Return
<1>14. CASE ItemEnterBody
  <2>1. pos' \in Nat /\ look' \in TokenKinds /\ net' \in Int /\ eofs' \in Nat
    BY <1>14, ConsumeType DEF ItemEnterBody
  <2>2. level = 0
    BY <1>14 DEF ItemEnterBody, InBody
  <2>3. Open(first, pos + 1) /\ ToLoop /\ UNCHANGED diagnosed
    BY <1>14 DEF ItemEnterBody
  <2>4. level' \in Levels /\ tiled' \in BOOLEAN
        /\ start' \in [Levels -> Nat] /\ next' \in [Levels -> Nat]
    <3>1. level + 1 \in Levels BY <2>2
    <3>2. first \in Nat /\ pos + 1 \in Nat OBVIOUS
    <3>3. QED BY <2>3, <3>1, <3>2, OpenType
  <2>5. QED BY <2>1, <2>3, <2>4 DEF ToLoop, Return
<1>15. CASE ItemRefuse
  BY <1>15 DEF ItemRefuse, Refuse, Fail
<1>16. CASE ItemRefuseRead
  <2>1. pos' \in Nat /\ look' \in TokenKinds /\ net' \in Int /\ eofs' \in Nat
    BY <1>16, ConsumeType DEF ItemRefuseRead
  <2>2. QED BY <1>16, <2>1 DEF ItemRefuseRead, Fail, Took, InBody, isFunctionBoundary
<1>17. CASE RecoverStop
  BY <1>17 DEF RecoverStop, Finish, AppendTo, ToLoop, Return
<1>18. CASE RecoverError
  <2>1. pos' \in Nat /\ look' \in TokenKinds /\ net' \in Int /\ eofs' \in Nat
    BY <1>18, ConsumeType DEF RecoverError
  <2>2. CASE look = "Semicolon"
    <3>1. PICK end \in Nat : Finish(first, end) /\ diagnosed' = diagnosed
      BY <1>18, <2>2 DEF RecoverError
    <3>2. QED BY <2>1, <3>1, FinishType
  <2>3. CASE look # "Semicolon"
    <3>1. next' \in [Levels -> Nat] /\ tiled' \in BOOLEAN
      BY <1>18, <2>3, AppendType DEF RecoverError
    <3>2. QED BY <1>18, <2>1, <2>3, <3>1 DEF RecoverError, skipped_first, Return
  <2>4. QED BY <2>2, <2>3
<1>19. CASE SkipToken
  <2>1. pos' \in Nat /\ look' \in TokenKinds /\ net' \in Int /\ eofs' \in Nat
    BY <1>19, ConsumeType DEF SkipToken
  <2>2. CASE look = "Semicolon"
    <3>1. PICK end \in Nat : Finish(first, end) /\ diagnosed' = diagnosed
      BY <1>19, <2>2 DEF SkipToken
    <3>2. QED BY <2>1, <3>1, FinishType
  <2>3. CASE look # "Semicolon"
    BY <1>19, <2>1, <2>3 DEF SkipToken
  <2>4. QED BY <2>2, <2>3
<1>20. CASE SkipStop
  BY <1>20 DEF SkipStop, Finish, AppendTo, ToLoop, Return
<1>21. QED
  BY <1>1, <1>2, <1>3, <1>4, <1>5, <1>6, <1>7, <1>8, <1>9, <1>10, <1>11, <1>12, <1>13,
     <1>14, <1>15, <1>16, <1>17, <1>18, <1>19, <1>20 DEF Next, Terminated

(* Type correctness of the parser: in particular the innermost container   *)
(* never exceeds the limit on nested blocks.                               *)
THEOREM TypeCorrect == Spec => []TypeOK
<1>1. Init => TypeOK
  <2> SUFFICES ASSUME Init PROVE TypeOK
    OBVIOUS
  <2>1. look \in TokenKinds
    BY AlphabetAssumption DEF Init, TokenKinds
  <2>2. start \in [Levels -> Nat] /\ next \in [Levels -> Nat]
    BY DEF Init
  <2>3. q[1] = "return"
    BY DEF Init, Return
  <2>4. mode \in Modes /\ level \in Levels
    BY LevelsAreNaturals DEF Init, Modes
  <2>5. pos = 0 /\ first = 0 /\ braces = 0 /\ net = 0 /\ eofs = 0
    BY DEF Init
  <2>6. /\ legacy \in BOOLEAN /\ expected \in BOOLEAN /\ diagnosed \in BOOLEAN
        /\ tiled \in BOOLEAN /\ took \in BOOLEAN
    BY Zenon DEF Init
  <2>7. QED BY <2>1, <2>2, <2>3, <2>4, <2>5, <2>6 DEF TypeOK
<1>2. QED BY <1>1, TypeStep, PTL DEF Spec

-----------------------------------------------------------------------------
(* The inductive strengthening of ChildrenTile.  While an item is being     *)
(* parsed, or recovered from, its container has children up to `first`;    *)
(* the item has consumed a token, unless it failed at a token that its     *)
(* recovery is going to consume.                                           *)
Reading == {"qualifier", "sectionName", "sectionBrace", "section", "item"}

TileInv ==
  /\ tiled = TRUE
  /\ mode \in {"loop", "done"} => next[level] = pos
  /\ mode \notin {"loop", "done"} => next[level] = first /\ first <= pos
  /\ \A l \in Levels : l < level => next[l] = start[l + 1]
  /\ mode = "done" => level = 0
  /\ mode \in Reading => first < pos
  /\ mode = "recover" /\ first = pos => ~StopsAtCurrent

LEMMA ConsumeAdvances == Consume => pos' = pos + 1
BY DEF Consume

LEMMA AppendTiles ==
  ASSUME TypeOK, tiled = TRUE, NEW begin \in Nat, NEW end \in Nat,
         begin = next[level], begin <= end, AppendTo(level, begin, end)
  PROVE  /\ tiled' = TRUE /\ next'[level] = end
         /\ \A l \in Levels : l # level => next'[l] = next[l]
BY DEF AppendTo, TypeOK

(* An item that ends at the cursor leaves the loop head tiled. *)
LEMMA FinishTiles ==
  ASSUME TypeOK, TypeOK', TileInv, NEW end \in Nat, pos' = end,
         next[level] = first, first <= end, Finish(first, end)
  PROVE  TileInv'
<1>1. /\ tiled' = TRUE /\ next'[level] = end
      /\ \A l \in Levels : l # level => next'[l] = next[l]
  BY AppendTiles DEF Finish, TypeOK, TileInv
<1>2. mode' = "loop" /\ level' = level /\ start' = start
  BY DEF Finish, ToLoop
<1>3. \A l \in Levels : l < level' => next'[l] = start'[l + 1]
  BY <1>1, <1>2, LevelsAreNaturals DEF TileInv
<1>4. QED BY <1>1, <1>2, <1>3 DEF TileInv, Reading

LEMMA OpenTiles ==
  ASSUME TypeOK, TypeOK', TileInv, NEW begin \in Nat, level + 1 \in Levels,
         next[level] = begin, pos' = pos + 1, Open(begin, pos + 1), mode' = "loop"
  PROVE  TileInv'
<1>1. level' = level + 1 /\ tiled' = TRUE /\ next'[level'] = pos'
  BY DEF Open, TypeOK, TileInv
<1>2. \A l \in Levels : l < level => next'[l] = next[l] /\ start'[l + 1] = start[l + 1]
  BY LevelsAreNaturals DEF Open, TypeOK
<1>3. next'[level] = begin /\ start'[level + 1] = begin
  BY LevelsAreNaturals DEF Open, TypeOK
<1>4. \A l \in Levels : l < level' => next'[l] = start'[l + 1]
  BY <1>1, <1>2, <1>3, LevelsAreNaturals DEF TileInv, TypeOK
<1>5. QED BY <1>1, <1>4 DEF TileInv, Reading

LEMMA CloseTiles ==
  ASSUME TypeOK, TypeOK', TileInv, mode = "loop", level > 0, mode' = "loop",
         NEW end \in Nat, pos' = end, pos <= end, Close(end)
  PROVE  TileInv'
<1>1. level - 1 \in Levels /\ level' = level - 1
  BY LevelsAreNaturals DEF Close, TypeOK
<1>2. next[level - 1] = start[level]
  BY <1>1, LevelsAreNaturals DEF TileInv, TypeOK
<1>3. tiled' = TRUE
  BY <1>2 DEF Close, TileInv
<1>4. next'[level'] = end
  BY <1>1, LevelsAreNaturals DEF Close, TypeOK
<1>5. \A l \in Levels : l < level' => next'[l] = next[l] /\ start'[l + 1] = start[l + 1]
  BY <1>1, LevelsAreNaturals DEF Close, TypeOK
<1>6. \A l \in Levels : l < level' => next'[l] = start'[l + 1]
  BY <1>1, <1>5, LevelsAreNaturals DEF TileInv, TypeOK
<1>7. QED BY <1>3, <1>4, <1>6 DEF TileInv, Reading

(* A step that leaves the tree alone. *)
LEMMA SameTree ==
  ASSUME TileInv, UNCHANGED tree, mode' \in Modes \ {"loop", "done"},
         next[level] = first', first' <= pos',
         mode' \in Reading => first' < pos',
         mode' = "recover" /\ first' = pos' => ~StopsAtCurrent'
  PROVE  TileInv'
BY DEF TileInv, tree, Modes

(* The item fails at its first token only where the recovery consumes it. *)
LEMMA FailureIsConsumed ==
  ASSUME TypeOK, mode = "loop", mode' = "recover", first' = pos, UNCHANGED cursor,
         ModuleItem \/ BodyItem
  PROVE  ~StopsAtCurrent'
<1>1. expected' = FALSE /\ look' = look /\ pos' = pos /\ level' = level
  <2>1. CASE ModuleItem BY <2>1 DEF ModuleItem, Fail, cursor, tree, Consume
  <2>2. CASE BodyItem BY <2>2 DEF BodyItem, Fail, cursor, tree, Consume
  <2>3. QED BY <2>1, <2>2
<1>2. CASE ModuleItem
  <2>1. ~InBody' /\ look # "Eof" BY <1>1, <1>2 DEF ModuleItem, InBody
  <2>2. QED BY <1>1, <2>1 DEF StopsAtCurrent
<1>3. CASE BodyItem
  <2>1. /\ look # "Eof" /\ look # "RBrace" /\ ~isFunctionOrModuleBoundary(look)
        /\ BodyProduction(look) = Return /\ legacy' = (look = "AtAtDwarf") /\ InBody
    BY <1>3 DEF BodyItem, cursor, tree, BeginItem, Fail
  <2>2. look # "AtAtDwarf"
    BY <2>1 DEF BodyProduction, Return, VariableStateSpace
  <2>3. QED BY <1>1, <2>1, <2>2 DEF StopsAtCurrent, IsAnchor, InBody
<1>4. QED BY <1>2, <1>3

LEMMA TileStep == TypeOK /\ TypeOK' /\ TileInv /\ [Next]_vars => TileInv'
<1> SUFFICES ASSUME TypeOK, TypeOK', TileInv, [Next]_vars PROVE TileInv'
  OBVIOUS
<1>a. /\ pos \in Nat /\ first \in Nat /\ pos + 1 \in Nat /\ pos' \in Nat
      /\ pos <= pos + 1 /\ level \in Levels /\ mode \in Modes
  BY DEF TypeOK
<1>b. /\ mode \notin {"loop", "done"} => next[level] = first /\ first <= pos
      /\ mode = "loop" => next[level] = pos
      /\ mode \in Reading => first < pos
  BY DEF TileInv
<1>1. CASE UNCHANGED vars
  BY <1>1 DEF vars, TileInv, StopsAtCurrent, InBody, IsAnchor
<1>2. CASE ModuleEnd
  <2>1. /\ mode = "loop" /\ ~InBody /\ mode' = "done" /\ pos' = pos
        /\ level' = level /\ start' = start /\ next' = next /\ tiled' = tiled
    BY <1>2 DEF ModuleEnd, cursor, tree
  <2>2. level = 0
    BY <2>1, LevelsAreNaturals DEF InBody, TypeOK
  <2>3. QED BY <1>b, <2>1, <2>2 DEF TileInv, Reading
<1>3. CASE ModuleQualifier
  <2>1. pos' = pos + 1 /\ UNCHANGED tree /\ mode' = "qualifier"
    BY <1>3, ConsumeAdvances DEF ModuleQualifier
  <2>2. first' = next[level] /\ first' < pos'
    BY <1>3, <1>a, <1>b, <2>1 DEF ModuleQualifier, BeginItem, Reading
  <2>3. QED BY <1>a, <2>1, <2>2, SameTree DEF Modes, TypeOK
<1>4. CASE ModuleItem
  <2>1. UNCHANGED tree /\ first' = next[level]
    BY <1>4, <1>b DEF ModuleItem, BeginItem, Reading
  <2>2. CASE Consume /\ mode' \in {"item", "sectionName"}
    <3>1. first' < pos'
      BY <1>4, <1>a, <1>b, <2>2, ConsumeAdvances DEF ModuleItem, BeginItem, Reading
    <3>2. QED BY <1>a, <2>1, <2>2, <3>1, SameTree DEF Modes, TypeOK
  <2>3. CASE UNCHANGED cursor /\ mode' = "recover"
    <3>1. pos' = pos /\ first' <= pos
      BY <1>4, <1>a, <1>b, <2>3 DEF ModuleItem, BeginItem, Reading, cursor
    <3>2. CASE mode = "loop"
      <4>1. first' = pos
        BY <1>4, <3>2 DEF ModuleItem, BeginItem
      <4>2. ~StopsAtCurrent'
        BY <1>4, <2>3, <3>2, <4>1, FailureIsConsumed
      <4>3. QED BY <2>1, <2>3, <3>1, <4>2, SameTree DEF Modes, Reading
    <3>3. CASE mode = "qualifier"
      <4>1. first' = first /\ first < pos
        BY <1>4, <1>b, <3>3 DEF ModuleItem, Reading
      <4>2. QED BY <1>a, <2>1, <2>3, <3>1, <4>1, SameTree DEF Modes, Reading
    <3>4. QED BY <1>4, <3>2, <3>3 DEF ModuleItem
  <2>4. QED BY <1>4, <2>2, <2>3 DEF ModuleItem, Fail
<1>5. CASE SectionHeader
  <2>1. /\ UNCHANGED <<tree, first>> /\ mode \in Reading
        /\ mode' \in {"sectionBrace", "section", "recover"}
        /\ pos' = pos \/ pos' = pos + 1
    BY <1>5, ConsumeAdvances DEF SectionHeader, Fail, Reading, cursor
  <2>2. QED BY <1>a, <1>b, <2>1, SameTree DEF Modes, Reading
<1>6. CASE SectionPayload
  <2>1. /\ UNCHANGED <<tree, first>> /\ mode \in Reading /\ mode' \in {"section", "recover"}
        /\ pos' = pos \/ pos' = pos + 1
    BY <1>6, ConsumeAdvances DEF SectionPayload, Fail, Reading, cursor
  <2>2. QED BY <1>a, <1>b, <2>1, SameTree DEF Modes, Reading
<1>7. CASE SectionEnd
  <2>1. mode = "section" /\ \E end \in {pos, pos + 1} : Finish(first, end) /\ pos' = end
    BY <1>7, ConsumeAdvances DEF SectionEnd, cursor
  <2>2. QED BY <1>a, <1>b, <2>1, FinishTiles DEF Reading
<1>8. CASE BodyClose
  BY <1>8, <1>a, CloseTiles, ConsumeAdvances DEF BodyClose, InBody, TypeOK
<1>9. CASE BodyMissing
  BY <1>9, <1>a, CloseTiles DEF BodyMissing, InBody, cursor, TypeOK
<1>10. CASE BodyItem
  <2>1. CASE Consume /\ Open(pos, pos + 1) /\ mode' = mode
    <3>1. level + 1 \in Levels
      BY <1>10, <2>1, LevelsAreNaturals DEF BodyItem, BlockAllowed, Open, TypeOK
    <3>2. QED BY <1>10, <1>a, <1>b, <2>1, <3>1, OpenTiles, ConsumeAdvances DEF BodyItem
  <2>2. CASE Consume /\ UNCHANGED tree /\ mode' = "item" /\ BeginItem
    BY <1>10, <1>a, <1>b, <2>2, SameTree, ConsumeAdvances DEF BodyItem, BeginItem, Modes
  <2>3. CASE UNCHANGED <<cursor, tree>> /\ mode' = "recover" /\ BeginItem
    <3>1. ~StopsAtCurrent'
      BY <1>10, <2>3, FailureIsConsumed DEF BodyItem, BeginItem
    <3>2. first' = pos /\ pos' = pos /\ mode = "loop"
      BY <1>10, <2>3 DEF BodyItem, BeginItem, cursor
    <3>3. QED BY <1>a, <1>b, <2>3, <3>1, <3>2, SameTree DEF Modes, Reading
  <2>4. QED BY <1>10, <2>1, <2>2, <2>3 DEF BodyItem, Fail
<1>11. CASE ItemAdvance
  <2>1. pos' = pos + 1 /\ UNCHANGED <<tree, mode, first>> /\ mode = "item"
    BY <1>11, ConsumeAdvances DEF ItemAdvance
  <2>2. QED BY <1>a, <1>b, <2>1, SameTree DEF Modes, Reading
<1>12. CASE ItemReturn
  <2>1. mode = "item" /\ pos' = pos + 1 /\ Finish(first, pos + 1)
    BY <1>12, ConsumeAdvances DEF ItemReturn
  <2>2. QED BY <1>a, <1>b, <2>1, FinishTiles DEF Reading
<1>13. CASE ItemAccept
  <2>1. mode = "item" /\ pos' = pos /\ Finish(first, pos)
    BY <1>13 DEF ItemAccept, cursor
  <2>2. QED BY <1>a, <1>b, <2>1, FinishTiles DEF Reading
<1>14. CASE ItemEnterBody
  <2>1. /\ mode = "item" /\ pos' = pos + 1 /\ Open(first, pos + 1) /\ mode' = "loop"
        /\ level = 0
    BY <1>14, ConsumeAdvances, LevelsAreNaturals DEF ItemEnterBody, ToLoop, InBody, TypeOK
  <2>2. level + 1 \in Levels
    BY <2>1, LevelsAreNaturals
  <2>3. QED BY <1>a, <1>b, <2>1, <2>2, OpenTiles
<1>15. CASE ItemRefuse
  <2>1. /\ UNCHANGED <<tree, first>> /\ pos' = pos /\ mode = "item" /\ mode' = "recover"
    BY <1>15 DEF ItemRefuse, Refuse, Fail, cursor
  <2>2. QED BY <1>a, <1>b, <2>1, SameTree DEF Modes, Reading
<1>16. CASE ItemRefuseRead
  <2>1. /\ UNCHANGED <<tree, first>> /\ pos' = pos + 1 /\ mode = "item" /\ mode' = "recover"
    BY <1>16, ConsumeAdvances DEF ItemRefuseRead, Fail
  <2>2. QED BY <1>a, <1>b, <2>1, SameTree DEF Modes, Reading
<1>17. CASE RecoverStop
  <2>1. mode = "recover" /\ pos' = pos /\ Finish(first, pos)
    BY <1>17 DEF RecoverStop, cursor
  <2>2. QED BY <1>a, <1>b, <2>1, FinishTiles
<1>18. CASE RecoverError
  <2>1. mode = "recover" /\ pos' = pos + 1 /\ next[level] = first /\ first <= pos
    BY <1>18, <1>b, ConsumeAdvances DEF RecoverError
  <2>2. CASE Finish(first, pos + 1)
    BY <1>a, <2>1, <2>2, FinishTiles
  <2>3. CASE /\ AppendTo(level, first, pos + 1) /\ mode' = "skip" /\ first' = pos + 1
             /\ UNCHANGED <<level, start>>
    <3>1. /\ tiled' = TRUE /\ next'[level] = pos + 1
          /\ \A l \in Levels : l # level => next'[l] = next[l]
      <4>1. tiled = TRUE /\ first <= pos + 1
        BY <1>a, <2>1 DEF TileInv
      <4>2. PICK end \in Nat : end = pos + 1
        BY <1>a
      <4>3. first = next[level] /\ first <= end /\ AppendTo(level, first, end)
        BY <2>1, <2>3, <4>1, <4>2
      <4>4. QED BY <1>a, <4>1, <4>2, <4>3, AppendTiles
    <3>2. \A l \in Levels : l < level' => next'[l] = start'[l + 1]
      BY <2>3, <3>1, LevelsAreNaturals DEF TileInv
    <3>3. QED BY <1>a, <2>1, <2>3, <3>1, <3>2 DEF TileInv, Reading
  <2>4. QED BY <1>18, <2>2, <2>3 DEF RecoverError, skipped_first
<1>19. CASE SkipToken
  <2>1. mode = "skip" /\ pos' = pos + 1
    BY <1>19, ConsumeAdvances DEF SkipToken
  <2>2. CASE Finish(first, pos + 1)
    BY <1>a, <1>b, <2>1, <2>2, FinishTiles
  <2>3. CASE UNCHANGED <<tree, mode, item>>
    BY <1>a, <1>b, <2>1, <2>3, SameTree DEF item, Modes, Reading
  <2>4. QED BY <1>19, <2>2, <2>3 DEF SkipToken
<1>20. CASE SkipStop
  <2>1. mode = "skip" /\ pos' = pos /\ Finish(first, pos)
    BY <1>20 DEF SkipStop, cursor
  <2>2. QED BY <1>a, <1>b, <2>1, FinishTiles
<1>21. QED
  BY <1>1, <1>2, <1>3, <1>4, <1>5, <1>6, <1>7, <1>8, <1>9, <1>10, <1>11, <1>12, <1>13,
     <1>14, <1>15, <1>16, <1>17, <1>18, <1>19, <1>20 DEF Next, Terminated

THEOREM TileInvariant == Spec => [](TypeOK /\ TileInv)
<1>1. Init => TileInv
  BY LevelsAreNaturals DEF Init, TileInv, Reading
<1>2. QED BY <1>1, TypeCorrect, TypeStep, TileStep, PTL DEF Spec

(* The children of every container tile its tokens, for any input. *)
THEOREM ParserIsLossless == Spec => []ChildrenTile
<1>1. TileInv => ChildrenTile
  BY DEF TileInv, ChildrenTile
<1>2. QED BY <1>1, TileInvariant, PTL

(* A step consumes one token or none. *)
LEMMA CursorStep == [Next]_vars => Consume \/ UNCHANGED cursor
<1>1. UNCHANGED vars \/ Terminated => UNCHANGED cursor
  BY DEF vars, cursor, Terminated
<1>2. ModuleEnd \/ ModuleQualifier \/ ModuleItem => Consume \/ UNCHANGED cursor
  BY DEF ModuleEnd, ModuleQualifier, ModuleItem
<1>3. SectionHeader \/ SectionPayload \/ SectionEnd => Consume \/ UNCHANGED cursor
  BY DEF SectionHeader, SectionPayload, SectionEnd
<1>4. BodyClose \/ BodyMissing \/ BodyItem => Consume \/ UNCHANGED cursor
  BY DEF BodyClose, BodyMissing, BodyItem
<1>5. ItemAdvance \/ ItemReturn \/ ItemAccept \/ ItemEnterBody => Consume \/ UNCHANGED cursor
  BY DEF ItemAdvance, ItemReturn, ItemAccept, ItemEnterBody
<1>6. ItemRefuse \/ ItemRefuseRead => Consume \/ UNCHANGED cursor
  BY DEF ItemRefuse, Refuse, ItemRefuseRead
<1>7. RecoverStop \/ RecoverError \/ SkipToken \/ SkipStop => Consume \/ UNCHANGED cursor
  BY DEF RecoverStop, RecoverError, SkipToken, SkipStop
<1>8. QED BY <1>1, <1>2, <1>3, <1>4, <1>5, <1>6, <1>7 DEF Next

(* No driver iteration returns to its loop head without consuming a token. *)
THEOREM IterationsConsume == Spec => IterationConsumes
<1>1. ASSUME TypeOK, TileInv, [Next]_vars,
             mode \in {"item", "section", "recover"}, mode' = "loop"
      PROVE  pos' > first
  <2>1. Consume \/ UNCHANGED cursor
    BY <1>1, CursorStep
  <2>2. pos' >= pos /\ pos \in Nat /\ pos' \in Nat /\ first \in Nat
    BY <1>1, <2>1, ConsumeAdvances DEF cursor, TypeOK
  <2>3. CASE mode \in {"item", "section"}
    BY <1>1, <2>2, <2>3 DEF TileInv, Reading
  <2>4. CASE mode = "recover"
    <3>1. RecoverStop \/ RecoverError
      BY <1>1, <2>4 DEF Next, vars, ModuleEnd, ModuleQualifier, ModuleItem, SectionHeader,
           SectionPayload, SectionEnd, BodyClose, BodyMissing, BodyItem, ItemAdvance,
           ItemReturn, ItemAccept, ItemEnterBody, ItemRefuse, ItemRefuseRead,
           SkipToken, SkipStop, Terminated
    <3>2. first <= pos /\ (first = pos => ~StopsAtCurrent)
      BY <1>1, <2>4 DEF TileInv
    <3>3. CASE RecoverStop
      BY <2>2, <3>2, <3>3 DEF RecoverStop
    <3>4. CASE RecoverError
      BY <2>2, <3>2, <3>4, ConsumeAdvances DEF RecoverError
    <3>5. QED BY <3>1, <3>3, <3>4
  <2>5. QED BY <1>1, <2>3, <2>4
<1>2. QED BY <1>1, TileInvariant, PTL DEF Spec, IterationConsumes

-----------------------------------------------------------------------------
LEMMA MovesLeaveAtEof ==
  ASSUME TypeOK, mode = "item", look = "Eof", q[1] \in DOMAIN Productions,
         NEW m \in MovesFrom(q), Enabled(m)
  PROVE  m[3] \in Leaving
BY ProductionsLeaveAtEof DEF MovesFrom, Enabled, EofLeaves

(* EofTakenOnce, with the productions that are being read. *)
EofInv == EofTakenOnce /\ (mode = "item" => q[1] \in DOMAIN Productions)

LEMMA EofStep == TypeOK /\ EofInv /\ [Next]_vars => EofInv'
<1> SUFFICES ASSUME TypeOK, EofInv, [Next]_vars PROVE EofInv'
  OBVIOUS
<1> DEFINE Quiet == {"recover", "loop", "done"}
<1>a. eofs \in Nat /\ eofs <= 1 /\ (eofs = 1 => look = "Eof" /\ mode \in Quiet)
  BY DEF EofInv, EofTakenOnce, TypeOK
<1>b. ASSUME Consume, look # "Eof" PROVE EofTakenOnce'
  <2>1. eofs = 0 /\ eofs' = 0 BY <1>a, <1>b DEF Consume
  <2>2. QED BY <2>1 DEF EofTakenOnce
<1>c. ASSUME Consume, mode \notin Quiet, mode' = "recover" PROVE EofTakenOnce'
  <2>1. eofs = 0 BY <1>a, <1>c
  <2>2. eofs' \in {0, 1} /\ (eofs' = 1 => look' = "Eof") BY <1>c, <2>1 DEF Consume
  <2>3. QED BY <1>c, <2>2 DEF EofTakenOnce
<1>d. ASSUME UNCHANGED cursor, mode \in Quiet => mode' \in Quiet PROVE EofTakenOnce'
  BY <1>a, <1>d DEF cursor, EofTakenOnce
<1>e. ASSUME UNCHANGED cursor, look # "Eof" PROVE EofTakenOnce'
  BY <1>a, <1>e DEF cursor, EofTakenOnce
<1>1. CASE UNCHANGED vars
  BY <1>1 DEF vars, EofInv, EofTakenOnce
<1>2. CASE ModuleEnd
  BY <1>2, <1>d DEF ModuleEnd, EofInv
<1>3. CASE ModuleQualifier
  BY <1>3, <1>b DEF ModuleQualifier, FunctionQualifier, EofInv
<1>4. CASE ModuleItem
  <2>1. ASSUME NEW b \in BOOLEAN PROVE ModuleProduction("Eof", b) = Return
    BY DEF ModuleProduction, VariableStateSpace
  <2>2. mode' = "item" => q'[1] \in DOMAIN Productions
    <3>1. ASSUME mode' = "item" PROVE q' # Return /\ q' = ModuleProduction(look, mode = "qualifier")
      BY <1>4, <3>1 DEF ModuleItem, Fail
    <3>2. \A k, b : ModuleProduction(k, b) # Return => ModuleProduction(k, b)[1] \in DOMAIN Productions
      BY DEF ModuleProduction, Return, Productions
    <3>3. QED BY <3>1, <3>2
  <2>3. CASE Consume /\ look # "Eof"
    BY <1>b, <2>2, <2>3 DEF EofInv
  <2>4. CASE UNCHANGED cursor /\ mode' = "recover"
    BY <1>d, <2>2, <2>4 DEF EofInv
  <2>5. QED BY <1>4, <2>1, <2>3, <2>4 DEF ModuleItem, Fail
<1>5. CASE SectionHeader
  BY <1>5, <1>b, <1>c, <1>d DEF SectionHeader, Fail, Names, EofInv
<1>6. CASE SectionPayload
  BY <1>6, <1>b, <1>d DEF SectionPayload, EndsPayload, Fail, EofInv
<1>7. CASE SectionEnd
  BY <1>7, <1>b, <1>d DEF SectionEnd, Finish, ToLoop, EofInv
<1>8. CASE BodyClose
  BY <1>8, <1>b DEF BodyClose, EofInv
<1>9. CASE BodyMissing
  BY <1>9, <1>d DEF BodyMissing, EofInv
<1>10. CASE BodyItem
  <2>1. mode' = "item" => q'[1] \in DOMAIN Productions
    <3>1. ASSUME mode' = "item" PROVE q' # Return /\ q' = BodyProduction(look)
      BY <1>10, <3>1 DEF BodyItem, Fail
    <3>2. \A k : BodyProduction(k) # Return => BodyProduction(k)[1] \in DOMAIN Productions
      BY DEF BodyProduction, Return, Productions
    <3>3. QED BY <3>1, <3>2
  <2>2. EofTakenOnce'
    BY <1>10, <1>b, <1>e DEF BodyItem
  <2>3. QED BY <2>1, <2>2 DEF EofInv
<1>11. CASE ItemAdvance
  <2>1. PICK m \in MovesFrom(q) : Enabled(m) /\ m[3][1] \in DOMAIN Productions /\ q' = m[3]
    BY <1>11 DEF ItemAdvance
  <2>2. m[3] \notin Leaving
    BY <2>1 DEF Leaving, Accept, Unread, Missing, Read, Productions
  <2>3. look # "Eof"
    BY <1>11, <2>1, <2>2, MovesLeaveAtEof DEF ItemAdvance, EofInv
  <2>4. QED BY <1>11, <1>b, <2>1, <2>3 DEF ItemAdvance, EofInv
<1>12. CASE ItemReturn
  <2>1. Return \notin Leaving
    BY DEF Leaving, Accept, Unread, Missing, Read, Return
  <2>2. look # "Eof"
    BY <1>12, <2>1, MovesLeaveAtEof DEF ItemReturn, EofInv
  <2>3. QED BY <1>12, <1>b, <2>2 DEF ItemReturn, Finish, ToLoop, EofInv
<1>13. CASE ItemAccept
  BY <1>13, <1>d DEF ItemAccept, Finish, ToLoop, EofInv
<1>14. CASE ItemEnterBody
  <2>1. EnterBody \notin Leaving
    BY DEF Leaving, Accept, Unread, Missing, Read, EnterBody
  <2>2. look # "Eof"
    BY <1>14, <2>1, MovesLeaveAtEof DEF ItemEnterBody, EofInv
  <2>3. QED BY <1>14, <1>b, <2>2 DEF ItemEnterBody, ToLoop, EofInv
<1>15. CASE ItemRefuse
  BY <1>15, <1>d DEF ItemRefuse, Refuse, Fail, EofInv
<1>16. CASE ItemRefuseRead
  BY <1>16, <1>c DEF ItemRefuseRead, Fail, EofInv
<1>17. CASE RecoverStop
  BY <1>17, <1>d DEF RecoverStop, Finish, ToLoop, EofInv
<1>18. CASE RecoverError
  BY <1>18, <1>b DEF RecoverError, StopsAtCurrent, Finish, ToLoop, EofInv
<1>19. CASE SkipToken
  BY <1>19, <1>b DEF SkipToken, Finish, ToLoop, item, EofInv
<1>20. CASE SkipStop
  BY <1>20, <1>d DEF SkipStop, Finish, ToLoop, EofInv
<1>21. QED
  BY <1>1, <1>2, <1>3, <1>4, <1>5, <1>6, <1>7, <1>8, <1>9, <1>10, <1>11, <1>12, <1>13,
     <1>14, <1>15, <1>16, <1>17, <1>18, <1>19, <1>20 DEF Next, Terminated

(* The parser reads the end of input at most once, in the token that an    *)
(* item refuses, and only recovery follows.                                *)
THEOREM EndIsTakenOnce == Spec => []EofTakenOnce
<1>1. Init => EofInv
  BY DEF Init, EofInv, EofTakenOnce
<1>2. EofInv => EofTakenOnce
  BY DEF EofInv
<1>3. QED BY <1>1, <1>2, TypeCorrect, EofStep, PTL DEF Spec
-----------------------------------------------------------------------------
(* The braces of a production *)

BraceOf(k) == IF k = "LBrace" THEN 1 ELSE IF k = "RBrace" THEN -1 ELSE 0

(* The braces that are open at a state, of the production or of the body that *)
(* starts after it                                                           *)
Inside(s) ==
  CASE s[1] = "list" -> IF s[2] \in {4, 5, 6} THEN 2 ELSE 1
    [] s[1] = "ins" /\ s[2] \in {12, 13, 14, 15, 16, 17} -> 1
    [] s[1] = "enter" -> 1
    [] OTHER -> 0

(* Every move counts the brace that it reads; without a diagnostic a        *)
(* production is left with none open.                                       *)
Counts(m) ==
  /\ m[3] = Accept => Inside(m[1]) = 0
  /\ m[3] \notin Leaving => \A k \in m[2] : Inside(m[3]) = Inside(m[1]) + BraceOf(k)

Balanced(moves) == \A m \in moves : Counts(m)

LEMMA PlainStates ==
  /\ \A name : name \notin {"list", "ins", "enter"} => \A i : Inside(<<name, i>>) = 0
  /\ \A i : i \notin {12, 13, 14, 15, 16, 17} => Inside(<<"ins", i>>) = 0
  /\ \A i \in {12, 13, 14, 15, 16, 17} : Inside(<<"ins", i>>) = 1
  /\ \A i : i \notin {4, 5, 6} => Inside(<<"list", i>>) = 1
  /\ \A i \in {4, 5, 6} : Inside(<<"list", i>>) = 2
  /\ Inside(Return) = 0 /\ Inside(EnterBody) = 1
BY DEF Inside, Return, EnterBody

LEMMA ExpressionsBalance ==
  ASSUME NEW starts, NEW more, NEW end, NEW d \in Nat,
         \A s \in starts : Inside(s) = d, Inside(more) = d, Inside(end) = d,
         more # Accept, end # Accept
  PROVE  Balanced(ExpressionMoves(starts, more, end))
BY DEF Balanced, Counts, BraceOf, Leaving, Accept, Unread, Missing, Read, ExpressionMoves, Leaf

LEMMA OpcodesBalance ==
  ASSUME NEW at, Inside(at) = 0 PROVE Balanced(OpcodeMoves(at))
BY PlainStates
DEF Balanced, Counts, BraceOf, Leaving, Accept, Unread, Missing, Read, OpcodeMoves,
    Modifier, Leaf

LEMMA PragmasBalance ==
  ASSUME NEW name \in {"pragma", "entrypragma"}, NEW exit, Inside(exit) = 0
  PROVE  Balanced(PragmaMoves(name, exit))
BY PlainStates
DEF Balanced, Counts, BraceOf, Leaving, Accept, Unread, Missing, Read, PragmaMoves

LEMMA AttributesBalance ==
  ASSUME NEW name \in {"varattr", "funcattr"}, NEW exit, Inside(exit) = 0
  PROVE  Balanced(AttributeMoves(name, exit))
BY PlainStates
DEF Balanced, Counts, BraceOf, Leaving, Accept, Unread, Missing, Read, AttributeMoves,
    DotIdents

LEMMA ParameterListsBalance ==
  ASSUME NEW name \in {"protoreturns", "protoparams", "returns", "params", "entryparams"},
         NEW exit, Inside(exit) = 0
  PROVE  Balanced(ParameterListMoves(name, exit))
BY PlainStates, ExpressionsBalance
DEF Balanced, Counts, BraceOf, Leaving, Accept, Unread, Missing, Read, ParameterListMoves,
    DotIdents

LEMMA LanguagesBalance ==
  ASSUME NEW name \in {"funclang", "entrylang"} PROVE Balanced(LanguageMoves(name))
BY PlainStates
DEF Balanced, Counts, BraceOf, Leaving, Accept, Unread, Missing, Read, LanguageMoves

LEMMA InitializersBalance ==
  ASSUME NEW exit, Inside(exit) = 0, exit # Accept PROVE Balanced(InitializerMoves(exit))
BY PlainStates, ExpressionsBalance
DEF Balanced, Counts, BraceOf, Leaving, Accept, Unread, Missing, Read, InitializerMoves, Names

LEMMA DirectivesBalance ==
  /\ Balanced(LegacyDwarfMoves) /\ Balanced(LocMoves) /\ Balanced(AliasMoves)
  /\ Balanced(ModuleDirectiveMoves) /\ Balanced(StrayMoves)
<1> USE DEF Balanced, Counts, BraceOf, Leaving, Accept, Unread, Missing, Read
<1>1. Balanced(LegacyDwarfMoves)
  BY PlainStates DEF LegacyDwarfMoves, Names, DotIdents
<1>2. Balanced(LocMoves)
  BY PlainStates DEF LocMoves, Names
<1>3. Balanced(AliasMoves)
  BY PlainStates DEF AliasMoves
<1>4. Balanced(ModuleDirectiveMoves)
  BY PlainStates DEF ModuleDirectiveMoves
<1>5. Balanced(StrayMoves)
  BY PlainStates DEF StrayMoves
<1>6. QED BY <1>1, <1>2, <1>3, <1>4, <1>5

LEMMA BodiesBalance ==
  /\ Balanced(VariableMoves) /\ Balanced(InstructionMoves) /\ Balanced(CallMoves)
  /\ Balanced(HeadMoves) /\ Balanced(LabelMoves) /\ Balanced(CallPrototypeMoves)
  /\ Balanced(CallTargetsMoves)
<1> USE DEF Balanced, Counts, BraceOf, Leaving, Accept, Unread, Missing, Read
<1>1. Balanced(VariableMoves)
  BY SMTT(30), PlainStates, ExpressionsBalance
  DEF VariableMoves, Names, DotIdents
<1>2. Balanced(InstructionMoves)
  BY SMTT(30), PlainStates, ExpressionsBalance, OpcodesBalance
  DEF InstructionMoves, BracketMoves, VectorMoves, DotIdents
<1>3. Balanced(CallMoves)
  BY PlainStates, ExpressionsBalance DEF CallMoves, DotIdents
<1>4. Balanced(HeadMoves)
  BY PlainStates, OpcodesBalance DEF HeadMoves
<1>5. Balanced(LabelMoves)
  BY PlainStates DEF LabelMoves
<1>6. Balanced(CallPrototypeMoves)
  BY PlainStates DEF CallPrototypeMoves, DotIdents
<1>7. Balanced(CallTargetsMoves)
  BY PlainStates DEF CallTargetsMoves
<1>8. QED BY <1>1, <1>2, <1>3, <1>4, <1>5, <1>6, <1>7

LEMMA HeadersBalance == Balanced(FuncMoves) /\ Balanced(EntryMoves)
<1> USE DEF Balanced, Counts, BraceOf, Leaving, Accept, Unread, Missing, Read
<1>1. Balanced(FuncMoves)
  BY PlainStates DEF FuncMoves, DotIdents
<1>2. Balanced(EntryMoves)
  BY PlainStates DEF EntryMoves, ResourceMoves, DotIdents
<1>3. QED BY <1>1, <1>2
(* In every production a move counts the brace that it reads. *)
LEMMA ProductionsBalance ==
  \A p \in DOMAIN Productions : Balanced(Productions[p])
<1>1. Balanced(LanguageMoves("funclang") \cup { <<<<"funclang", 1>>, {"Semicolon"}, Return>> })
  BY LanguagesBalance, PlainStates DEF Balanced, Counts, BraceOf
<1>2. Balanced(LanguageMoves("entrylang") \cup { <<<<"entrylang", 1>>, {"Semicolon"}, Read>> })
  BY LanguagesBalance, PlainStates DEF Balanced, Counts, Leaving
<1>3. /\ Balanced(PragmaMoves("pragma", Return))
      /\ Balanced(PragmaMoves("entrypragma", <<"entry", 2>>))
  BY PragmasBalance, PlainStates
<1>4. /\ Balanced(AttributeMoves("varattr", <<"var", 1>>))
      /\ Balanced(AttributeMoves("funcattr", <<"func", 1>>))
  BY AttributesBalance, PlainStates
<1>5. /\ Balanced(ParameterListMoves("protoreturns", <<"proto", 1>>))
      /\ Balanced(ParameterListMoves("protoparams", <<"proto", 3>>))
      /\ Balanced(ParameterListMoves("returns", <<"func", 2>>))
      /\ Balanced(ParameterListMoves("params", <<"func", 4>>))
      /\ Balanced(ParameterListMoves("entryparams", <<"entry", 2>>))
  BY ParameterListsBalance, PlainStates
<1>6. Balanced(InitializerMoves(<<"var", 17>>))
  BY InitializersBalance, PlainStates DEF Accept
<1>7. DOMAIN Productions =
        {"dwarf", "loc", "pragma", "alias", "directive", "stray", "var", "varattr", "list",
         "ins", "call", "head", "label", "proto", "targets", "protoreturns", "protoparams",
         "func", "funcattr", "returns", "params", "funclang", "entry", "entryparams",
         "entrypragma", "entrylang"}
  BY DEF Productions
<1>8. ASSUME NEW p \in {"dwarf", "loc", "alias", "directive", "stray", "pragma", "entrypragma"}
      PROVE  Balanced(Productions[p])
  BY <1>3, DirectivesBalance DEF Productions
<1>9. ASSUME NEW p \in {"var", "ins", "call", "head", "label", "proto", "targets"}
      PROVE  Balanced(Productions[p])
  BY BodiesBalance DEF Productions
<1>10. ASSUME NEW p \in {"varattr", "funcattr", "list", "func", "entry", "funclang", "entrylang"}
       PROVE  Balanced(Productions[p])
  <2>1. CASE p \in {"varattr", "funcattr", "list"}
    BY <1>4, <1>6, <2>1 DEF Productions
  <2>2. CASE p \in {"func", "entry"}
    BY HeadersBalance, <2>2 DEF Productions
  <2>3. CASE p = "funclang"
    BY <1>1, <2>3 DEF Productions
  <2>4. CASE p = "entrylang"
    BY <1>2, <2>4 DEF Productions
  <2>5. QED BY <2>1, <2>2, <2>3, <2>4
<1>11. ASSUME NEW p \in {"protoreturns", "protoparams", "returns", "params", "entryparams"}
       PROVE  Balanced(Productions[p])
  BY <1>5 DEF Productions
<1>12. QED BY <1>7, <1>8, <1>9, <1>10, <1>11

LEMMA MovesCount ==
  ASSUME q[1] \in DOMAIN Productions, NEW m \in MovesFrom(q), Enabled(m)
  PROVE  /\ m[3] = Accept => Inside(q) = 0
         /\ m[3] \notin Leaving => Inside(m[3]) = Inside(q) + BraceOf(look)
<1>1. m \in Productions[q[1]] /\ m[1] = q /\ look \in m[2]
  BY DEF MovesFrom, Enabled
<1>2. Counts(m)
  BY <1>1, ProductionsBalance DEF Balanced
<1>3. QED BY <1>1, <1>2 DEF Counts
(* The braces that have been opened beyond the open containers: those of the *)
(* section payload or of the production that is being read                  *)
OpenBraces ==
  CASE mode = "section" -> braces
    [] mode = "item" -> Inside(q)
    [] OTHER -> 0

(* CleanNesting, in the middle of an item too *)
NestInv ==
  /\ mode \in {"recover", "skip"} => diagnosed
  /\ diagnosed \/ net = level + OpenBraces
  /\ mode = "item" => q[1] \in DOMAIN Productions

(* The drivers start a production at a token that is no brace. *)
LEMMA DriversStartFlat ==
  /\ \A k : BodyProduction(k) # Return =>
       Inside(BodyProduction(k)) = 0 /\ k \notin {"LBrace", "RBrace"}
            /\ BodyProduction(k)[1] \in DOMAIN Productions
  /\ \A k : \A b \in BOOLEAN : ModuleProduction(k, b) # Return =>
       Inside(ModuleProduction(k, b)) = 0 /\ k \notin {"LBrace", "RBrace"}
            /\ ModuleProduction(k, b)[1] \in DOMAIN Productions
<1>1. {"var", "dwarf", "loc", "pragma", "head", "ins", "entry", "func", "alias",
       "directive", "stray"} \subseteq DOMAIN Productions
  BY DEF Productions
<1>2. ASSUME NEW k, BodyProduction(k) # Return
      PROVE  Inside(BodyProduction(k)) = 0 /\ k \notin {"LBrace", "RBrace"}
             /\ BodyProduction(k)[1] \in DOMAIN Productions
  BY <1>1, <1>2, PlainStates DEF BodyProduction, VariableStateSpace
<1>3. ASSUME NEW k, NEW b \in BOOLEAN, ModuleProduction(k, b) # Return
      PROVE  Inside(ModuleProduction(k, b)) = 0 /\ k \notin {"LBrace", "RBrace"}
             /\ ModuleProduction(k, b)[1] \in DOMAIN Productions
  BY <1>1, <1>3, PlainStates DEF ModuleProduction, VariableStateSpace
<1>4. QED BY <1>2, <1>3

LEMMA InsideIsNatural == \A s : Inside(s) \in Nat
BY DEF Inside

(* Where no diagnostic has been appended, a step moves the count of braces  *)
(* and the containers together.                                             *)
LEMMA NestStep == TypeOK /\ NestInv /\ [Next]_vars => NestInv'
<1> SUFFICES ASSUME TypeOK, NestInv, [Next]_vars PROVE NestInv'
  OBVIOUS
<1>a. net \in Int /\ level \in Nat /\ braces \in Nat /\ Inside(q) \in Nat
  BY InsideIsNatural, LevelsAreNaturals DEF TypeOK
<1>b. Consume => net' = net + BraceOf(look)
  BY DEF Consume, BraceOf
<1>c. UNCHANGED cursor => net' = net
  BY DEF cursor
<1>d. ASSUME diagnosed', mode' # "item" PROVE NestInv'
  BY <1>d DEF NestInv
<1>e. ASSUME mode' = "loop", mode = "loop" \/ OpenBraces = 0, diagnosed' = diagnosed,
             net' - level' = net - level, level' \in Nat, net' \in Int
      PROVE  NestInv'
  BY <1>a, <1>e DEF NestInv, OpenBraces
<1>1. CASE UNCHANGED vars
  BY <1>1 DEF vars, NestInv, OpenBraces
<1>2. CASE ModuleEnd
  BY <1>2, <1>c DEF ModuleEnd, NestInv, OpenBraces, tree
<1>3. CASE ModuleQualifier
  <2>1. BraceOf(look) = 0 /\ mode' = "qualifier" /\ mode \in {"loop", "qualifier"}
        /\ level' = level /\ diagnosed' = diagnosed /\ net' = net + BraceOf(look)
    BY <1>3, <1>b DEF ModuleQualifier, FunctionQualifier, BraceOf, tree
  <2>2. QED BY <1>a, <2>1 DEF NestInv, OpenBraces
<1>4. CASE ModuleItem
  <2>1. level' = level /\ mode \in {"loop", "qualifier"}
    BY <1>4 DEF ModuleItem, tree
  <2>2. CASE Fail(FALSE)
    BY <1>d, <2>2 DEF Fail
  <2>3. CASE Consume /\ mode' = "sectionName" /\ look = "DotSection" /\ diagnosed' = diagnosed
    <3>1. net' = net + 0
      BY <1>b, <2>3 DEF BraceOf
    <3>2. QED BY <1>a, <2>1, <2>3, <3>1 DEF NestInv, OpenBraces
  <2>4. CASE /\ ModuleProduction(look, mode = "qualifier") # Return
             /\ Consume /\ mode' = "item" /\ q' = ModuleProduction(look, mode = "qualifier")
             /\ diagnosed' = diagnosed
    <3>1. Inside(q') = 0 /\ look \notin {"LBrace", "RBrace"} /\ q'[1] \in DOMAIN Productions
      BY <2>4, DriversStartFlat
    <3>2. net' = net + 0
      BY <1>b, <2>4, <3>1 DEF BraceOf
    <3>3. QED BY <1>a, <2>1, <2>4, <3>1, <3>2 DEF NestInv, OpenBraces
  <2>5. QED BY <1>4, <2>2, <2>3, <2>4 DEF ModuleItem
<1>5. CASE SectionHeader
  <2>1. level' = level /\ mode \in {"sectionName", "sectionBrace"}
    BY <1>5 DEF SectionHeader, tree
  <2>2. CASE Fail(FALSE)
    BY <1>d, <2>2 DEF Fail
  <2>3. CASE look \in Names /\ Consume /\ mode' = "sectionBrace" /\ diagnosed' = diagnosed
    <3>1. net' = net + 0
      BY <1>b, <2>3 DEF BraceOf, Names
    <3>2. QED BY <1>a, <2>1, <2>3, <3>1 DEF NestInv, OpenBraces
  <2>4. CASE /\ look = "LBrace" /\ Consume /\ mode' = "section" /\ braces' = 1
             /\ diagnosed' = diagnosed
    <3>1. net' = net + 1
      BY <1>b, <2>4 DEF BraceOf
    <3>2. QED BY <1>a, <2>1, <2>4, <3>1 DEF NestInv, OpenBraces
  <2>5. QED BY <1>5, <2>2, <2>3, <2>4 DEF SectionHeader
<1>6. CASE SectionPayload
  <2>1. CASE Fail(FALSE)
    BY <1>d, <2>1 DEF Fail
  <2>2. CASE Consume /\ braces' = braces + PayloadDepth(look) /\ UNCHANGED <<mode, diagnosed>>
    <3>1. net' = net + PayloadDepth(look) /\ PayloadDepth(look) \in Int
      BY <1>b, <2>2 DEF BraceOf, PayloadDepth
    <3>2. mode = "section" /\ level' = level
      BY <1>6 DEF SectionPayload, tree
    <3>3. QED BY <1>a, <2>2, <3>1, <3>2 DEF NestInv, OpenBraces
  <2>3. QED BY <1>6, <2>1, <2>2 DEF SectionPayload
<1>7. CASE SectionEnd
  <2>1. mode = "section" /\ braces = 0 /\ mode' = "loop" /\ level' = level
    BY <1>7 DEF SectionEnd, Finish, ToLoop
  <2>2. net' = net
    <3>1. CASE look = "Semicolon" /\ Consume
      BY <1>a, <1>b, <3>1 DEF BraceOf
    <3>2. QED BY <1>7, <1>c, <3>1 DEF SectionEnd
  <2>3. diagnosed => diagnosed'
    BY <1>7 DEF SectionEnd
  <2>4. QED BY <1>a, <2>1, <2>2, <2>3 DEF NestInv, OpenBraces
<1>8. CASE BodyClose
  <2>1. net' = net + (-1) /\ level' = level - 1 /\ mode = "loop" /\ mode' = "loop"
        /\ diagnosed' = diagnosed /\ level > 0
    BY <1>8, <1>b DEF BodyClose, Close, BraceOf, InBody
  <2>2. net' - level' = net - level /\ level' \in Nat /\ net' \in Int
    BY <1>a, <2>1
  <2>3. QED BY <1>e, <2>1, <2>2
<1>9. CASE BodyMissing
  BY <1>9, <1>d DEF BodyMissing
<1>10. CASE BodyItem
  <2>1. CASE look = "LBrace" /\ Consume /\ Open(pos, pos + 1) /\ UNCHANGED <<mode, diagnosed>>
    <3>1. net' = net + 1 /\ level' = level + 1 /\ mode = "loop" /\ mode' = "loop"
          /\ diagnosed' = diagnosed
      BY <1>10, <1>b, <2>1 DEF BodyItem, Open, BraceOf
    <3>2. net' - level' = net - level /\ level' \in Nat /\ net' \in Int
      BY <1>a, <3>1
    <3>3. QED BY <1>e, <3>1, <3>2
  <2>2. CASE /\ BodyProduction(look) # Return
             /\ Consume /\ mode' = "item" /\ q' = BodyProduction(look)
             /\ UNCHANGED <<tree, diagnosed>>
    <3>1. Inside(q') = 0 /\ look \notin {"LBrace", "RBrace"} /\ q'[1] \in DOMAIN Productions
      BY <2>2, DriversStartFlat
    <3>2. net' = net + 0 /\ level' = level /\ mode = "loop"
      BY <1>10, <1>b, <2>2, <3>1 DEF BraceOf, tree, BodyItem
    <3>3. QED BY <1>a, <2>2, <3>1, <3>2 DEF NestInv, OpenBraces
  <2>3. CASE Fail(FALSE)
    BY <1>d, <2>3 DEF Fail
  <2>4. QED BY <1>10, <2>1, <2>2, <2>3 DEF BodyItem
<1>11. CASE ItemAdvance
  <2>1. PICK m \in MovesFrom(q) : Enabled(m) /\ m[3][1] \in DOMAIN Productions /\ q' = m[3]
    BY <1>11 DEF ItemAdvance
  <2>2. m[3] \notin Leaving
    BY <2>1 DEF Leaving, Accept, Unread, Missing, Read, Productions
  <2>3. Consume /\ mode = "item" /\ mode' = "item" /\ level' = level /\ diagnosed' = diagnosed
    BY <1>11 DEF ItemAdvance, tree
  <2>4. Inside(q') = Inside(q) + BraceOf(look) /\ net' = net + BraceOf(look)
        /\ BraceOf(look) \in Int
    BY <1>b, <2>1, <2>2, <2>3, MovesCount DEF NestInv, BraceOf
  <2>5. QED BY <1>a, <2>1, <2>3, <2>4 DEF NestInv, OpenBraces
<1>12. CASE ItemReturn
  <2>1. PICK m \in MovesFrom(q) : Enabled(m) /\ m[3] = Return
    BY <1>12 DEF ItemReturn
  <2>2. Return \notin Leaving
    BY DEF Leaving, Accept, Unread, Missing, Read, Return
  <2>3. Consume /\ mode = "item" /\ mode' = "loop" /\ level' = level /\ diagnosed' = diagnosed
    BY <1>12 DEF ItemReturn, Finish, ToLoop
  <2>4. Inside(q) + BraceOf(look) = 0 /\ net' = net + BraceOf(look) /\ BraceOf(look) \in Int
    BY <1>b, <2>1, <2>2, <2>3, MovesCount, PlainStates DEF NestInv, BraceOf
  <2>5. QED BY <1>a, <2>3, <2>4 DEF NestInv, OpenBraces
<1>13. CASE ItemAccept
  <2>1. PICK m \in MovesFrom(q) : Enabled(m) /\ m[3] = Accept
    BY <1>13 DEF ItemAccept
  <2>2. mode = "item" /\ mode' = "loop" /\ level' = level /\ diagnosed' = diagnosed /\ net' = net
    BY <1>13, <1>c DEF ItemAccept, Finish, ToLoop
  <2>3. Inside(q) = 0
    BY <2>1, <2>2, MovesCount DEF NestInv
  <2>4. QED BY <1>a, <2>2, <2>3 DEF NestInv, OpenBraces
<1>14. CASE ItemEnterBody
  <2>1. PICK m \in MovesFrom(q) : Enabled(m) /\ m[3] = EnterBody
    BY <1>14 DEF ItemEnterBody
  <2>2. EnterBody \notin Leaving
    BY DEF Leaving, Accept, Unread, Missing, Read, EnterBody
  <2>3. /\ Consume /\ mode = "item" /\ mode' = "loop" /\ level' = level + 1
        /\ diagnosed' = diagnosed
    BY <1>14 DEF ItemEnterBody, Open, ToLoop
  <2>4. Inside(q) + BraceOf(look) = 1 /\ net' = net + BraceOf(look) /\ BraceOf(look) \in Int
    BY <1>b, <2>1, <2>2, <2>3, MovesCount, PlainStates DEF NestInv, BraceOf
  <2>5. QED BY <1>a, <2>3, <2>4 DEF NestInv, OpenBraces
<1>15. CASE ItemRefuse
  BY <1>15, <1>d DEF ItemRefuse, Refuse, Fail
<1>16. CASE ItemRefuseRead
  BY <1>16, <1>d DEF ItemRefuseRead, Fail
<1>17. CASE RecoverStop
  BY <1>17, <1>d DEF RecoverStop, Finish, ToLoop, NestInv
<1>18. CASE RecoverError
  BY <1>18, <1>d DEF RecoverError, Finish, ToLoop, NestInv
<1>19. CASE SkipToken
  BY <1>19, <1>d DEF SkipToken, Finish, ToLoop, NestInv
<1>20. CASE SkipStop
  BY <1>20, <1>d DEF SkipStop, Finish, ToLoop, NestInv
<1>21. QED
  BY <1>1, <1>2, <1>3, <1>4, <1>5, <1>6, <1>7, <1>8, <1>9, <1>10, <1>11, <1>12, <1>13,
     <1>14, <1>15, <1>16, <1>17, <1>18, <1>19, <1>20 DEF Next, Terminated

(* A tree without diagnostics nests as the braces of its source do: a brace *)
(* inside an item, a payload or a list is never taken for one that opens or *)
(* closes a body.                                                           *)
THEOREM NestingIsClean == Spec => []CleanNesting
<1>1. Init => NestInv
  BY DEF Init, NestInv, OpenBraces
<1>2. TypeOK /\ NestInv => CleanNesting
  BY LevelsAreNaturals DEF NestInv, OpenBraces, CleanNesting, TypeOK
<1>3. QED BY <1>1, <1>2, TypeCorrect, NestStep, PTL DEF Spec

-----------------------------------------------------------------------------
(* The token cursor: its caches are invisible, TokenCursor implements       *)
(* TokenStream                                                              *)

CursorInv == CursorTypeOK /\ LookaheadHeld

LEMMA InputsAreSequences == ASSUME NEW s \in Inputs PROVE s \in Seq(Kinds)
  BY CursorBoundsAssumption DEF Inputs

LEMMA CursorInitInv == CursorInit => CursorInv
  BY InputsAreSequences
  DEF CursorInit, CursorInv, CursorTypeOK, LookaheadHeld, missing

(* Lexing one more token extends the buffer by the next of the source. *)
LEMMA LexOne ==
  ASSUME NEW s \in Seq(Kinds \cup {"Eof"}), source \in Seq(Kinds),
         \A i \in 1 .. Len(s) : s[i] = Lexed(i - 1),
         NEW t, t = Append(s, Lexed(Len(s)))
  PROVE  /\ t \in Seq(Kinds \cup {"Eof"}) /\ Len(t) = Len(s) + 1
         /\ \A i \in 1 .. Len(t) : t[i] = Lexed(i - 1)
  <1>1. Lexed(Len(s)) \in Kinds \cup {"Eof"}
    BY DEF Lexed
  <1>2. /\ t \in Seq(Kinds \cup {"Eof"}) /\ Len(t) = Len(s) + 1
        /\ \A i \in 1 .. Len(s) : t[i] = s[i]
        /\ t[Len(s) + 1] = Lexed(Len(s))
    BY <1>1
  <1>3. ASSUME NEW i \in 1 .. Len(t) PROVE t[i] = Lexed(i - 1)
    <2>1. CASE i \in 1 .. Len(s)
      BY <1>2, <2>1
    <2>2. CASE i = Len(s) + 1
      BY <1>2, <2>2
    <2> QED BY <1>2, <2>1, <2>2
  <1> QED BY <1>2, <1>3

(* What peek() leaves: a lookahead at the current place, no token lost. *)
LEMMA PeekedHolds ==
  ASSUME CursorInv
  PROVE  /\ Peeked[1] \in Seq(Kinds \cup {"Eof"})
         /\ \A i \in 1 .. Len(Peeked[1]) : Peeked[1][i] = Lexed(i - 1)
         /\ Peeked[2] \in Nat /\ Peeked[2] = place
         /\ \/ Peeked[3] = missing /\ Peeked[2] = Len(Peeked[1]) - 1
            \/ /\ Peeked[3] = Len(Peeked[1]) - 1
               /\ Peeked[2] = Len(Peeked[1]) - 2
  <1>1. /\ tokens_ \in Seq(Kinds \cup {"Eof"}) /\ Len(tokens_) \in Nat
        /\ source \in Seq(Kinds)
        /\ \A i \in 1 .. Len(tokens_) : tokens_[i] = Lexed(i - 1)
        /\ peeked_ \in Nat \cup {missing} /\ buffered_next_ \in Nat \cup {missing}
    BY DEF CursorInv, CursorTypeOK, Lexed, Stream!TokenAt
  <1>2. CASE peeked_ # missing
    BY <1>1, <1>2 DEF Peeked, place, CursorInv, LookaheadHeld, missing
  <1>3. CASE peeked_ = missing /\ buffered_next_ # missing
    BY <1>1, <1>3 DEF Peeked, place, CursorInv, LookaheadHeld, missing
  <1>4. CASE peeked_ = missing /\ buffered_next_ = missing
    <2>1. /\ Peeked[1] = Append(tokens_, Lexed(Len(tokens_)))
          /\ Peeked[2] = Len(tokens_) /\ Peeked[3] = missing
          /\ place = Len(tokens_)
      BY <1>4 DEF Peeked, place
    <2>2. /\ Peeked[1] \in Seq(Kinds \cup {"Eof"})
          /\ Len(Peeked[1]) = Len(tokens_) + 1
          /\ \A i \in 1 .. Len(Peeked[1]) : Peeked[1][i] = Lexed(i - 1)
      BY <1>1, <2>1, LexOne
    <2> QED BY <1>1, <2>1, <2>2
  <1> QED BY <1>2, <1>3, <1>4

(* What peekNext() leaves: both caches full. *)
LEMMA PeekNextHolds ==
  ASSUME CursorInv, peekNext
  PROVE  /\ tokens_' \in Seq(Kinds \cup {"Eof"})
         /\ \A i \in 1 .. Len(tokens_') : tokens_'[i] = Lexed(i - 1)
         /\ peeked_' \in Nat /\ peeked_' = place /\ peeked_' = Len(tokens_') - 2
         /\ buffered_next_' = Len(tokens_') - 1
  <1>1. source \in Seq(Kinds) /\ Len(Peeked[1]) \in Nat /\ missing = -1
    BY PeekedHolds DEF CursorInv, CursorTypeOK, missing
  <1>2. CASE Peeked[3] # missing
    BY <1>1, <1>2, PeekedHolds DEF peekNext
  <1>3. CASE Peeked[3] = missing
    <2>1. /\ tokens_' = Append(Peeked[1], Lexed(Len(Peeked[1])))
          /\ peeked_' = Peeked[2] /\ buffered_next_' = Len(Peeked[1])
      BY <1>3 DEF peekNext
    <2>2. /\ tokens_' \in Seq(Kinds \cup {"Eof"}) /\ Len(tokens_') = Len(Peeked[1]) + 1
          /\ \A i \in 1 .. Len(tokens_') : tokens_'[i] = Lexed(i - 1)
      BY <1>1, <2>1, PeekedHolds, LexOne
    <2> QED BY <1>1, <1>3, <2>1, <2>2, PeekedHolds
  <1> QED BY <1>2, <1>3

(* Reading the buffer at the lookahead reads the source at that place. *)
LEMMA AnswerIsSource ==
  ASSUME source \in Seq(Kinds), NEW s \in Seq(Kinds \cup {"Eof"}),
         \A i \in 1 .. Len(s) : s[i] = Lexed(i - 1),
         NEW id \in 0 .. Len(s) - 1
  PROVE  token(s, id) = Stream!TokenAt(source, id)
  <1>1. s[id + 1] = Lexed(id)
    <2>1. id + 1 \in 1 .. Len(s) /\ (id + 1) - 1 = id
      OBVIOUS
    <2> QED BY <2>1
  <1> QED BY <1>1 DEF token, Lexed, Stream!TokenAt

LEMMA CursorStepInv == CursorInv /\ [CursorNext]_cursor_state => CursorInv'
  <1> SUFFICES ASSUME CursorInv, [CursorNext]_cursor_state PROVE CursorInv'
    OBVIOUS
  <1>1. source' = source
    BY DEF CursorNext, peek, peekNext, consume, cursor_state
  <1>2. CASE peek
    BY <1>1, <1>2, PeekedHolds, SMTT(30)
    DEF peek, CursorInv, CursorTypeOK, LookaheadHeld, Lexed,
        Stream!TokenAt, missing
  <1>3. CASE peekNext
    BY <1>1, <1>3, PeekNextHolds, SMTT(30)
    DEF CursorInv, CursorTypeOK, LookaheadHeld, Lexed, Stream!TokenAt,
        missing
  <1>4. CASE consume
    BY <1>1, <1>4, PeekedHolds, SMTT(30)
    DEF consume, CursorInv, CursorTypeOK, LookaheadHeld, Lexed,
        Stream!TokenAt, missing
  <1>5. CASE UNCHANGED cursor_state
    BY <1>5
    DEF cursor_state, CursorInv, CursorTypeOK, LookaheadHeld, Lexed,
        Stream!TokenAt
  <1> QED BY <1>2, <1>3, <1>4, <1>5 DEF CursorNext

(* Every step of the cursor is the step of the stream of the same name.    *)
LEMMA CursorStepRefines ==
  CursorInv /\ CursorInv' /\ [CursorNext]_cursor_state
    => [Stream!Next]_<<source, place, answer>>
  <1> SUFFICES ASSUME CursorInv, CursorInv', [CursorNext]_cursor_state
               PROVE  [Stream!Next]_<<source, place, answer>>
    OBVIOUS
  <1>1. source \in Seq(Kinds) /\ missing = -1
    BY DEF CursorInv, CursorTypeOK, missing
  <1>2. CASE peek
    <2>1. /\ tokens_' = Peeked[1] /\ peeked_' = Peeked[2]
          /\ buffered_next_' = Peeked[3]
          /\ answer' = token(tokens_', peeked_') /\ source' = source
      BY <1>2 DEF peek
    <2>2. place' = place
      BY <1>1, <2>1, PeekedHolds DEF place, missing
    <2>3. place \in 0 .. Len(Peeked[1]) - 1
      BY <1>1, PeekedHolds
    <2>4. answer' = Stream!TokenAt(source, place)
      BY <1>1, <2>1, <2>3, PeekedHolds, AnswerIsSource
    <2> QED BY <2>1, <2>2, <2>4 DEF Stream!Next, Stream!Peek
  <1>3. CASE peekNext
    <2>1. answer' = token(tokens_', buffered_next_') /\ source' = source
      BY <1>3 DEF peekNext
    <2>2. /\ place' = place /\ buffered_next_' = place + 1
          /\ place + 1 \in 0 .. Len(tokens_') - 1
      BY <1>1, <1>3, PeekNextHolds DEF place, missing
    <2>3. answer' = Stream!TokenAt(source, place + 1)
      BY <1>1, <1>3, <2>1, <2>2, PeekNextHolds, AnswerIsSource
    <2> QED BY <2>1, <2>2, <2>3 DEF Stream!Next, Stream!PeekNext
  <1>4. CASE consume
    <2>1. /\ tokens_' = Peeked[1] /\ peeked_' = missing
          /\ buffered_next_' = Peeked[3]
          /\ answer' = token(tokens_', Peeked[2]) /\ source' = source
      BY <1>4 DEF consume
    <2>2. place' = place + 1
      <3>1. CASE Peeked[3] = missing
        BY <1>1, <2>1, <3>1, PeekedHolds DEF place
      <3>2. CASE Peeked[3] # missing
        BY <1>1, <2>1, <3>2, PeekedHolds DEF place
      <3> QED BY <3>1, <3>2
    <2>3. place \in 0 .. Len(Peeked[1]) - 1
      BY <1>1, PeekedHolds
    <2>4. answer' = Stream!TokenAt(source, place)
      BY <1>1, <2>1, <2>3, PeekedHolds, AnswerIsSource
    <2> QED BY <2>1, <2>2, <2>4 DEF Stream!Next, Stream!Consume
  <1>5. CASE UNCHANGED cursor_state
    BY <1>5 DEF cursor_state, place
  <1> QED BY <1>2, <1>3, <1>4, <1>5 DEF CursorNext

(* peek, peekNext and consume, with their buffer and two cached ids, are   *)
(* the operations of a plain stream, in any order and on any source.       *)
THEOREM CursorIsStream == CursorSpec => ImplementsStream
  <1>1. CursorInit => Stream!Init
    BY InputsAreSequences DEF CursorInit, Stream!Init, place, missing
  <1> QED BY <1>1, CursorInitInv, CursorStepInv, CursorStepRefines, PTL
            DEF CursorSpec, Stream!Spec, ImplementsStream

(* The caches hold exactly what is lexed and not consumed.                 *)
THEOREM LookaheadIsHeld == CursorSpec => []LookaheadHeld
  <1>1. CursorInv => LookaheadHeld
    BY DEF CursorInv
  <1> QED BY <1>1, CursorInitInv, CursorStepInv, PTL DEF CursorSpec
=============================================================================
