----------------------------- MODULE CstGrammar -----------------------------
(***************************************************************************)
(* The leaf productions of the CST parser (submod/cst/src), as automata.   *)
(*                                                                         *)
(* A leaf production is a parse function that opens no function body: a    *)
(* directive, a declaration, an instruction, a function header.  Each is a *)
(* set of moves <<state, kinds, target>>, where a state is a pair of the   *)
(* production and a point of its code, and the kinds are those of the      *)
(* lookahead token at which the move is taken.  The targets that are not   *)
(* states are the ways to leave the production:                            *)
(*   Return     the token is consumed and the node is returned;            *)
(*   EnterBody  the token is consumed and parseBody starts;                *)
(*   Accept     the node is returned, the token unread;                    *)
(*   Unread     a diagnostic is returned, the token unread;                *)
(*   Missing    the same, and the diagnostic expects a semicolon;          *)
(*   Read       a diagnostic is returned, the token consumed.              *)
(* A token that no move of the state lists is refused unread.              *)
(*                                                                         *)
(* Token kinds are the TokenKind enumerators that the parser tells apart.  *)
(* "Int" stands for Decimal, Hex and Binary, "Op" for the operators of     *)
(* operands and constant expressions with their casts, "ModuleDirective"   *)
(* for .version, .target, .address_size and .file, "CallMeta" for          *)
(* .callprototype, .calltargets and .branchtargets.  What only the         *)
(* spelling of a token decides is a nondeterministic choice between the    *)
(* moves that it selects.                                                  *)
(***************************************************************************)
EXTENDS Naturals

(* Dotted identifiers; .alias is lexed as one and only its text differs. *)
DotIdents == {"DotIdent", "Alias"}

Names == {"Ident", "DotIdent", "Alias"}

(* The tokens that are a constant expression or an operand by themselves *)
Leaf == {"Ident", "Int", "Float"}

(* isFunctionQualifier; DotWeak is kept apart because it is a modifier too *)
FunctionQualifier == {"Qualifier", "DotWeak"}

(* isVariableStateSpace; "Space" is .global, .const, .shared or .local *)
VariableStateSpace == {"DotReg", "DotParam", "Space"}

(* isModifier *)
Modifier == {"DotIdent", "Alias", "Space", "DotParam", "DotWeak"}

isFunctionBoundary(k) == k \in {"DotEntry", "DotFunc", "Qualifier", "DotWeak"}

isFunctionOrModuleBoundary(k) ==
  isFunctionBoundary(k) \/ k \in {"ModuleDirective", "DotSection"}

(* classifyModuleSource(token) # Unsupported *)
isModuleForm(k) ==
  \/ isFunctionOrModuleBoundary(k)
  \/ k \in {"DotPragma", "AtAtDwarf", "Alias"} \/ k \in VariableStateSpace

(* .alias may be section payload, so it does not end a section *)
isSectionRecoveryBoundary(k) == isModuleForm(k) /\ k # "Alias"

isFunctionBodyItemStart(k) ==
  \/ k \in {"LBrace", "At", "AtAtDwarf", "Ident", "DotLoc", "DotPragma", "CallMeta"}
  \/ k \in VariableStateSpace

TokenKinds ==
  {"DotIdent", "Alias", "Ident", "Int", "Float", "Qualifier", "DotWeak", "DotReg",
   "DotParam", "Space", "Eof", "Semicolon", "Comma", "Colon", "LBrace", "RBrace",
   "LParen", "RParen", "LBracket", "RBracket", "Lt", "Gt", "Eq", "Op", "At", "AtAtDwarf",
   "String", "DotEntry", "DotFunc", "ModuleDirective", "DotSection", "DotPragma",
   "DotLoc", "CallMeta", "KernelResource", "DotAlign", "DotPtr", "DotNoreturn", "Other"}

AllBut(kinds) == TokenKinds \ kinds

Return == <<"return", 0>>
EnterBody == <<"enter", 0>>
Accept == <<"accept", 0>>
Unread == <<"unread", 0>>
Missing == <<"missing", 0>>
Read == <<"read", 0>>

-----------------------------------------------------------------------------
(* Directives *)

LegacyDwarfMoves ==
  LET S(i) == <<"dwarf", i>> IN
  UNION {
    { <<S(0), {"DotSection"}, S(1)>>, <<S(1), Names, S(2)>>, <<S(2), {"Comma"}, S(3)>>,
      <<S(3), {"String"}, S(4)>>, <<S(4), {"Comma"}, S(5)>>, <<S(5), {"At"}, S(6)>>,
      <<S(6), {"Ident"}, S(7)>> },
    { <<S(0), DotIdents, S(8)>>, <<S(8), {"Int"}, S(9)>>, <<S(9), {"Comma"}, S(10)>>,
      <<S(10), {"Int"}, S(9)>>, <<S(8), Names, S(11)>> },
    \* spellings that are not a section, a label or a byte width of the format
    { <<S(i), TokenKinds, Unread>> : i \in {0, 1, 3, 6, 8, 10} },
    \* the semicolon is optional
    { <<S(i), {"Semicolon"}, Return>> : i \in {7, 9, 11} },
    { <<S(7), AllBut({"Semicolon"}), Accept>> },
    { <<S(i), AllBut({"Semicolon", "Comma"}), Accept>> : i \in {9, 11} } }

LocMoves ==
  LET S(i) == <<"loc", i>> IN
  UNION {
    { <<S(0), {"Int"}, S(1)>>, <<S(1), {"Int"}, S(2)>>, <<S(2), {"Int"}, S(3)>>,
      <<S(3), {"Comma"}, S(4)>>, <<S(4), {"Ident"}, S(5)>>, <<S(5), Names, S(6)>>,
      <<S(6), {"Op"}, S(7)>>, <<S(7), {"Int"}, S(8)>>, <<S(6), {"Comma"}, S(9)>>,
      <<S(8), {"Comma"}, S(9)>>, <<S(9), {"Ident"}, S(10)>>, <<S(10), {"Int"}, S(11)>>,
      <<S(11), {"Int"}, S(12)>>, <<S(12), {"Int"}, S(13)>> },
    \* of the operators only '+' is consumed
    { <<S(6), {"Op"}, Unread>> },
    \* consume() comes before the test of the kind
    { <<S(4), TokenKinds, Read>>, <<S(5), AllBut(Names), Read>>,
      <<S(7), AllBut({"Int"}), Read>>, <<S(9), TokenKinds, Read>> },
    { <<S(i), {"Semicolon"}, Return>> : i \in {3, 13} },
    { <<S(3), AllBut({"Semicolon", "Comma"}), Accept>>,
      <<S(13), AllBut({"Semicolon"}), Accept>> } }

(* Strings separated by commas; exit is what follows the terminator. *)
PragmaMoves(name, exit) ==
  LET S(i) == <<name, i>> IN
  { <<S(0), {"String"}, S(1)>>, <<S(1), {"Comma"}, S(0)>>, <<S(1), {"Semicolon"}, exit>>,
    <<S(1), AllBut({"Comma", "Semicolon"}), Missing>> }

AliasMoves ==
  LET S(i) == <<"alias", i>> IN
  { <<S(0), {"Ident"}, S(1)>>, <<S(1), {"Comma"}, S(2)>>, <<S(2), {"Ident"}, S(3)>>,
    <<S(3), {"Semicolon"}, Return>>, <<S(3), AllBut({"Semicolon"}), Missing>> }

(* .version and .address_size (0 to 1), .target (2, 3) and .file (4 to 8) *)
ModuleDirectiveMoves ==
  LET S(i) == <<"directive", i>> IN
  UNION {
    { <<S(0), {"Float", "Int"}, S(1)>>, <<S(0), {"Ident"}, S(2)>>,
      <<S(2), {"Comma"}, S(3)>>, <<S(3), {"Ident"}, S(2)>>,
      <<S(0), {"Int"}, S(4)>>, <<S(4), {"String"}, S(5)>>, <<S(5), {"Comma"}, S(6)>>,
      <<S(6), {"Int"}, S(7)>>, <<S(7), {"Comma"}, S(8)>>, <<S(8), {"Int"}, S(1)>> },
    { <<S(0), TokenKinds, Unread>>, <<S(0), {"Float", "Ident"}, Read>>,
      <<S(3), {"Ident"}, Read>> },
    { <<S(i), {"Semicolon"}, Return>> : i \in {1, 2, 5} },
    { <<S(1), AllBut({"Semicolon"}), Accept>> },
    { <<S(i), AllBut({"Semicolon", "Comma"}), Accept>> : i \in {2, 5} } }

(* A stray module identifier, with its colon, ahead of the recovery. *)
StrayMoves == { <<<<"stray", 0>>, {"Colon"}, <<"stray", 1>>>> }

-----------------------------------------------------------------------------
(* Declarations.  An expression is a chain of operands that starts in one   *)
(* of `starts`, continues in `more` after an operator and has its last     *)
(* operand in `end`.  The code also matches parentheses and `?:` and       *)
(* charges nesting to the depth budget: at every point it may refuse the   *)
(* token that follows, or the operator that it has just consumed.          *)

ExpressionMoves(starts, more, end) ==
  UNION {
    { <<s, {"Op", "LParen"}, more>> : s \in starts \cup {more, end} },
    { <<s, Leaf, end>> : s \in starts \cup {more} },
    { <<end, {"Colon"}, more>>, <<end, {"RParen"}, end>> },
    { <<s, TokenKinds, Unread>> : s \in starts \cup {more, end} },
    { <<s, {"Op", "LParen"}, Read>> : s \in starts \cup {more, end} } }

AttributeMoves(name, exit) ==
  LET S(i) == <<name, i>> IN
  UNION {
    { <<S(0), {"LParen"}, S(1)>>, <<S(1), DotIdents, S(2)>>, <<S(1), DotIdents, Read>>,
      <<S(2), {"LParen"}, S(3)>>, <<S(3), {"Int"}, S(4)>>, <<S(4), {"Comma"}, S(5)>>,
      <<S(5), {"Int"}, S(6)>>, <<S(6), {"RParen"}, S(7)>> },
    { <<S(i), {"Comma"}, S(1)>> : i \in {2, 7} },
    { <<S(i), {"RParen"}, exit>> : i \in {2, 7} },
    { <<S(i), TokenKinds, Unread>> : i \in {2, 7} } }

(* parseInitializer after its `{`; lists nest at most twice here. *)
InitializerMoves(exit) ==
  LET S(i) == <<"list", i>> IN
  UNION {
    ExpressionMoves({S(0)}, S(1), S(2)), ExpressionMoves({S(4)}, S(5), S(6)),
    ExpressionMoves({S(9)}, S(10), S(2)),
    { <<S(0), {"LBrace"}, S(4)>>, <<S(0), Names, S(8)>>, <<S(8), {"Eq"}, S(9)>> },
    { <<S(i), {"Comma"}, S(0)>> : i \in {2, 3} }, { <<S(6), {"Comma"}, S(4)>> },
    { <<S(i), {"RBrace"}, S(3)>> : i \in {4, 6} },
    { <<S(i), {"RBrace"}, exit>> : i \in {0, 2, 3} } }

VariableMoves ==
  LET S(i) == <<"var", i>> IN
  UNION {
    { <<S(0), DotIdents, <<"varattr", 0>>>> },
    { <<S(i), {"DotAlign"}, S(2)>> : i \in {0, 1} }, { <<S(2), {"Int"}, S(3)>> },
    { <<S(i), DotIdents, S(4)>> : i \in {0, 1, 3} },
    { <<S(i), DotIdents, S(5)>> : i \in {0, 1, 3, 4} },
    { <<S(5), {"Ident"}, S(6)>>,
      <<S(6), {"Lt"}, S(7)>>, <<S(7), {"Int"}, S(8)>>, <<S(8), {"Gt"}, S(9)>> },
    \* extents
    { <<S(i), {"LBracket"}, S(10)>> : i \in {6, 12} },
    { <<S(i), {"RBracket"}, S(12)>> : i \in {10, 11} },
    ExpressionMoves({S(10)}, S(16), S(11)),
    \* an initializer: scalar, named or a list
    { <<S(i), {"Eq"}, S(13)>> : i \in {6, 12} },
    ExpressionMoves({S(13), S(19)}, S(15), S(14)),
    { <<S(13), {"LBrace"}, <<"list", 0>>>>, <<S(13), Names, S(18)>>, <<S(18), {"Eq"}, S(19)>> },
    \* an array or an initializer where none may stand
    { <<S(i), {"Eq"}, Read>> : i \in {6, 12} }, { <<S(9), {"LBracket", "Eq"}, Read>> },
    { <<S(i), {"Comma"}, S(5)>> : i \in {6, 9, 12, 14, 17} },
    { <<S(i), {"Semicolon"}, Return>> : i \in {6, 9, 12, 14, 17} },
    { <<S(6), AllBut({"Lt", "LBracket", "Eq", "Comma", "Semicolon"}), Missing>>,
      <<S(14), AllBut({"Op", "LParen", "Comma", "Semicolon"}), Missing>>,
      <<S(17), AllBut({"Comma", "Semicolon"}), Missing>> },
    { <<S(i), AllBut({"LBracket", "Eq", "Comma", "Semicolon"}), Missing>> : i \in {9, 12} } }

(* parseFunctionParameterList after its `(` *)
ParameterListMoves(name, exit) ==
  LET S(i) == <<name, i>> IN
  UNION {
    { <<S(0), {"RParen"}, exit>>, <<S(11), {"RParen"}, exit>> },
    { <<S(i), {"DotReg", "DotParam"}, S(2)>> : i \in {0, 1} },
    \* the state space is consumed before it is tested
    { <<S(0), AllBut({"RParen", "DotReg", "DotParam"}), Read>>,
      <<S(1), AllBut({"DotReg", "DotParam"}), Read>> },
    { <<S(2), {"DotAlign"}, S(3)>>, <<S(3), {"Int"}, S(4)>> },
    { <<S(i), DotIdents, S(5)>> : i \in {2, 4} },
    { <<S(i), DotIdents, S(6)>> : i \in {2, 4, 5} },
    { <<S(6), {"DotPtr"}, S(7)>>, <<S(7), {"Space"}, S(8)>>, <<S(9), {"Int"}, S(10)>> },
    { <<S(i), {"DotAlign"}, S(9)>> : i \in {7, 8} },
    { <<S(i), {"Ident"}, S(11)>> : i \in {6, 7, 8, 10} },
    { <<S(11), {"LBracket"}, S(12)>>, <<S(11), {"Comma"}, S(1)>> },
    ExpressionMoves({S(12)}, S(13), S(14)),
    { <<S(i), {"RBracket"}, S(11)>> : i \in {12, 14} } }

-----------------------------------------------------------------------------
(* Instructions and labelled call metadata *)

(* What may follow the opcode in state at: modifiers, the operands of any    *)
(* opcode, or the targets of call, bra and brx, which require an operand.   *)
OpcodeMoves(at) ==
  LET S(i) == <<"ins", i>> IN
  { <<at, Modifier, at>>, <<at, {"Semicolon"}, Return>>, <<at, {"Semicolon"}, Unread>>,
    <<at, {"Ident"}, <<"call", 3>>>>, <<at, {"LParen"}, <<"call", 0>>>>,
    <<at, Leaf, S(6)>>, <<at, {"Op", "LParen"}, S(5)>>, <<at, {"LBracket"}, S(8)>>,
    <<at, {"LBrace"}, S(12)>>, <<at, {"Op", "LParen"}, Read>>, <<at, {"Op"}, Unread>> }

(* An address: 8 to 11 its components, 15 to 17 the coordinates in braces,  *)
(* 18 after the bracket, where `.unified` may stand                          *)
BracketMoves ==
  LET S(i) == <<"ins", i>> IN
  UNION {
    ExpressionMoves({S(8)}, S(9), S(10)), ExpressionMoves({S(15)}, S(16), S(17)),
    { <<S(10), DotIdents, S(10)>>, <<S(10), {"Comma"}, S(8)>>, <<S(10), {"Comma"}, Read>>,
      <<S(10), {"Comma"}, S(11)>>, <<S(11), {"LBrace"}, S(15)>>, <<S(11), TokenKinds, Unread>>,
      <<S(17), DotIdents, S(17)>>, <<S(17), {"Comma"}, S(15)>>, <<S(17), {"RBrace"}, S(20)>>,
      <<S(20), {"RBracket"}, S(7)>>, <<S(10), {"RBracket"}, S(18)>>,
      <<S(18), DotIdents, S(7)>> } }

(* A vector: 12 to 14 its lanes, 19 and 21 the predicate after the brace     *)
VectorMoves ==
  LET S(i) == <<"ins", i>> IN
  UNION {
    ExpressionMoves({S(12)}, S(13), S(14)),
    { <<S(14), DotIdents, S(14)>>, <<S(14), {"Comma"}, S(12)>>, <<S(14), {"RBrace"}, S(19)>>,
      <<S(19), {"Op"}, S(21)>>, <<S(21), {"Ident"}, S(7)>> } }

InstructionMoves ==
  LET S(i) == <<"ins", i>> IN
  UNION {
    { <<S(0), {"Op"}, S(1)>>, <<S(0), {"Ident"}, S(2)>>, <<S(1), {"Ident"}, S(2)>>,
      <<S(2), {"Ident"}, S(3)>> },
    OpcodeMoves(S(3)),
    \* 4: an operand is due; 6: an identifier or an expression has been read
    ExpressionMoves({S(4)}, S(5), S(6)),
    { <<S(4), {"LBracket"}, S(8)>>, <<S(4), {"LBrace"}, S(12)>> },
    { <<S(6), {"LBracket"}, S(8)>>, <<S(6), DotIdents, S(7)>> },
    BracketMoves, VectorMoves,
    { <<S(i), {"Comma"}, S(4)>> : i \in {6, 7, 18, 19} },
    { <<S(i), {"Semicolon"}, Return>> : i \in {6, 7, 18, 19} },
    { <<S(6), AllBut({"Semicolon", "Comma"}), Missing>>,
      <<S(7), AllBut({"Semicolon", "Comma"}), Missing>>,
      <<S(18), AllBut({"Semicolon", "Comma"}), Missing>>,
      <<S(19), AllBut({"Semicolon", "Comma", "Op"}), Missing>> } }

(* parseCallOperands, parseBranchOperands and parseIndexedBranchOperands:   *)
(* 0 to 2 the return parameter, 3 and 4 the target, 5 to 9 its arguments,   *)
(* 10 the target set.                                                       *)
CallMoves ==
  LET S(i) == <<"call", i>> IN
  UNION {
    { <<S(0), {"Ident"}, S(1)>>, <<S(1), DotIdents, S(1)>>, <<S(1), {"RParen"}, S(2)>>,
      <<S(2), {"Comma"}, S(11)>>, <<S(11), {"Ident"}, S(3)>>, <<S(3), DotIdents, S(4)>> },
    { <<S(i), {"Comma"}, S(5)>> : i \in {3, 4} }, { <<S(i), {"Comma"}, Unread>> : i \in {3, 4} },
    { <<S(5), {"LParen"}, S(6)>>, <<S(5), {"Ident"}, S(10)>>, <<S(5), {"Ident"}, Unread>>,
      <<S(6), {"RParen"}, S(9)>>, <<S(8), {"RParen"}, S(9)>>, <<S(8), DotIdents, S(8)>>,
      <<S(8), {"Comma"}, S(12)>>, <<S(9), {"Comma"}, S(13)>>, <<S(13), {"Ident"}, S(10)>> },
    ExpressionMoves({S(6), S(12)}, S(7), S(8)),
    { <<S(10), {"Comma"}, Unread>>, <<S(10), {"Comma"}, Missing>> },
    { <<S(i), {"Semicolon"}, Return>> : i \in {3, 4, 9, 10} },
    { <<S(i), {"Semicolon"}, Unread>> : i \in {3, 4} },
    { <<S(i), AllBut({"Semicolon", "Comma"}), Missing>> : i \in {3, 4, 9, 10} },
    { <<S(i), AllBut({"Semicolon", "Comma"}), Unread>> : i \in {3, 4} } }

(* An identifier in a body: a label with its colon, or an opcode. *)
HeadMoves == OpcodeMoves(<<"head", 0>>) \cup { <<<<"head", 0>>, {"Colon"}, <<"label", 0>>>> }

LabelMoves ==
  LET S == <<"label", 0>> IN
  { <<S, {"CallMeta"}, <<"proto", 0>>>>, <<S, {"CallMeta"}, <<"targets", 0>>>>,
    <<S, AllBut({"CallMeta"}), Accept>> }

CallPrototypeMoves ==
  LET S(i) == <<"proto", i>> IN
  UNION {
    { <<S(0), {"LParen"}, <<"protoreturns", 0>>>>, <<S(2), {"LParen"}, <<"protoparams", 0>>>> },
    \* the return list had other than one parameter
    { <<S(1), TokenKinds, Unread>> },
    \* `_`, or a name that is not
    { <<S(i), {"Ident"}, S(2)>> : i \in {0, 1} }, { <<S(i), {"Ident"}, Read>> : i \in {0, 1} },
    { <<S(i), {"DotNoreturn"}, S(4)>> : i \in {2, 3} },
    { <<S(i), DotIdents, S(5)>> : i \in {2, 3, 4} }, { <<S(5), {"Int"}, S(6)>> },
    { <<S(i), DotIdents, S(7)>> : i \in {2, 3, 4, 6} }, { <<S(7), {"Int"}, S(8)>> },
    { <<S(i), {"Semicolon"}, Return>> : i \in {2, 3, 4, 6, 8} },
    { <<S(2), AllBut({"Semicolon", "LParen", "DotNoreturn"}), Missing>>,
      <<S(3), AllBut({"Semicolon", "DotNoreturn"}), Missing>> },
    { <<S(i), AllBut({"Semicolon"}), Missing>> : i \in {4, 6, 8} } }

(* parseCallTargets, and parseBranchTargets with its <count> *)
CallTargetsMoves ==
  LET S(i) == <<"targets", i>> IN
  UNION {
    { <<S(0), {"Ident"}, S(1)>>, <<S(1), {"Lt"}, S(2)>>, <<S(2), {"Int"}, S(3)>>,
      <<S(3), {"Gt"}, S(4)>> },
    { <<S(i), {"Comma"}, S(0)>> : i \in {1, 4} },
    { <<S(i), {"Semicolon"}, Return>> : i \in {1, 4} },
    { <<S(i), AllBut({"Semicolon", "Comma"}), Missing>> : i \in {1, 4} } }

-----------------------------------------------------------------------------
(* Function headers: parseFunction up to the prototype `;` or the `{` *)

(* parseLanguageDirective *)
LanguageMoves(name) ==
  LET S(i) == <<name, i>> IN
  { <<S(0), {"String", "Int"}, S(1)>>, <<S(1), {"Comma"}, S(0)>>, <<S(1), {"LBrace"}, EnterBody>> }

FuncMoves ==
  LET S(i) == <<"func", i>>
      Tail == {3, 4, 5, 7, 9}
  IN
  UNION {
    { <<S(0), DotIdents, <<"funcattr", 0>>>> },
    { <<S(i), {"LParen"}, <<"returns", 0>>>> : i \in {0, 1} },
    { <<S(i), {"Ident"}, S(3)>> : i \in {0, 1, 2} },
    { <<S(3), {"LParen"}, <<"params", 0>>>> },
    { <<S(i), {"DotNoreturn"}, S(5)>> : i \in {3, 4} },
    { <<S(i), DotIdents, S(6)>> : i \in {3, 4, 5} }, { <<S(6), {"Int"}, S(7)>> },
    { <<S(i), DotIdents, S(8)>> : i \in {3, 4, 5, 7} }, { <<S(8), {"Int"}, S(9)>> },
    { <<S(i), DotIdents, <<"funclang", 0>>>> : i \in Tail },
    { <<S(i), DotIdents, Unread>> : i \in Tail \cup {0} },
    { <<S(i), {"LBrace"}, EnterBody>> : i \in Tail },
    { <<S(i), {"Semicolon"}, Return>> : i \in Tail } }

(* parseKernelResourceDirective: one value or up to three, and one kind has *)
(* none                                                                     *)
ResourceMoves(after) ==
  LET S(i) == <<"entry", i>> IN
  UNION {
    { <<S(i), {"KernelResource"}, S(3)>> : i \in after },
    { <<S(i), {"KernelResource"}, S(2)>> : i \in after },
    { <<S(3), {"Int"}, S(4)>>, <<S(3), {"Int"}, Unread>>, <<S(4), {"Comma"}, S(3)>>,
      <<S(4), {"Comma"}, Unread>> } }

(* An entry has resource directives and pragmas and always a body. *)
EntryMoves ==
  LET S(i) == <<"entry", i>>
      Tail == {1, 2, 4}
  IN
  UNION {
    ResourceMoves(Tail),
    { <<S(0), {"Ident"}, S(1)>>, <<S(1), {"LParen"}, <<"entryparams", 0>>>> },
    { <<S(i), {"DotPragma"}, <<"entrypragma", 0>>>> : i \in Tail },
    { <<S(i), DotIdents, S(5)>> : i \in Tail },
    { <<S(i), DotIdents, <<"entrylang", 0>>>> : i \in Tail \cup {5} },
    { <<S(i), DotIdents, Unread>> : i \in Tail \cup {5} },
    { <<S(i), {"LBrace"}, EnterBody>> : i \in Tail \cup {5} },
    { <<S(i), {"Semicolon"}, Read>> : i \in Tail \cup {5} } }

-----------------------------------------------------------------------------
(* The moves of every production *)
Productions ==
  [ dwarf |-> LegacyDwarfMoves, loc |-> LocMoves, pragma |-> PragmaMoves("pragma", Return),
    alias |-> AliasMoves, directive |-> ModuleDirectiveMoves, stray |-> StrayMoves,
    var |-> VariableMoves, varattr |-> AttributeMoves("varattr", <<"var", 1>>),
    list |-> InitializerMoves(<<"var", 17>>),
    ins |-> InstructionMoves, call |-> CallMoves, head |-> HeadMoves, label |-> LabelMoves,
    proto |-> CallPrototypeMoves, targets |-> CallTargetsMoves,
    protoreturns |-> ParameterListMoves("protoreturns", <<"proto", 1>>),
    protoparams |-> ParameterListMoves("protoparams", <<"proto", 3>>),
    func |-> FuncMoves, funcattr |-> AttributeMoves("funcattr", <<"func", 1>>),
    returns |-> ParameterListMoves("returns", <<"func", 2>>),
    params |-> ParameterListMoves("params", <<"func", 4>>),
    funclang |-> LanguageMoves("funclang") \cup { <<<<"funclang", 1>>, {"Semicolon"}, Return>> },
    entry |-> EntryMoves, entryparams |-> ParameterListMoves("entryparams", <<"entry", 2>>),
    entrypragma |-> PragmaMoves("entrypragma", <<"entry", 2>>),
    entrylang |-> LanguageMoves("entrylang") \cup { <<<<"entrylang", 1>>, {"Semicolon"}, Read>> } ]

Moves == UNION { Productions[p] : p \in DOMAIN Productions }

(* The moves of state s *)
MovesFrom(s) == { m \in Productions[s[1]] : m[1] = s }
=============================================================================
