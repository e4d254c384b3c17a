------------------------------ MODULE CstParser ------------------------------
(***************************************************************************)
(* PtxCstParser::parseModule with its body driver and its error recovery   *)
(* (submod/cst/src/ptx_cst_directives.cpp, ptx_cst_recovery.cpp).          *)
(*                                                                         *)
(* The token buffer is abstracted to the cursor: `pos` is the id of the    *)
(* lookahead token and `look` its kind, chosen when the token is lexed.    *)
(* No token behind the cursor is read again, except the first token of     *)
(* the current item, of which `legacy` remembers the kind.  The open       *)
(* containers are numbered by their level: 0 is the module, 1 the function *)
(* body, n > 1 a nested block of BlockDepth n - 1.  The C++ call stack is  *)
(* the two functions start and next over the levels.                       *)
(***************************************************************************)
EXTENDS CstGrammar, Integers

CONSTANTS
  Alphabet,              \* the token kinds of the inputs
  MaxTokens,             \* bound: no input has more tokens than this
  kMaxNestedBlockDepth   \* the parser's limit on nested blocks

ASSUME AlphabetAssumption == Alphabet \subseteq TokenKinds
ASSUME BoundsAssumption == MaxTokens \in Nat /\ kMaxNestedBlockDepth \in Nat

Levels == 0 .. kMaxNestedBlockDepth + 1

VARIABLES
  pos,        \* id of the lookahead token
  look,       \* kind of the lookahead token
  mode,       \* where control is
  level,      \* the innermost open container
  start,      \* start[l]: first token of the container at level l
  next,       \* next[l]: end of the token range of its last child
  diagnosed,  \* a diagnostic has been appended
  \* the current item
  q,          \* state of the leaf production (mode "item")
  first,      \* its first token; in mode "skip", skipped_first
  legacy,     \* its first token is @@DWARF (legacy_record)
  expected,   \* the diagnostic that failed it expects a semicolon
  braces,     \* brace_depth of parseSectionDirective (mode "section")
  \* history variables
  tiled,      \* so far every child started where its predecessor ended
  net,        \* opening minus closing braces consumed
  eofs,       \* Eof tokens consumed
  took        \* the current item has consumed a function boundary inside a body

cursor == <<pos, look, net, eofs>>
tree == <<level, start, next, tiled>>
item == <<q, first, legacy, expected, braces, took>>
vars == <<pos, look, mode, level, start, next, diagnosed, q, first, legacy, expected,
          braces, tiled, net, eofs, took>>

InBody == level > 0

-----------------------------------------------------------------------------
(* consume(): the next peek() lexes a token.  The lexer repeats Eof. *)
Consume ==
  /\ pos' = pos + 1
  /\ look' \in IF look = "Eof" \/ pos + 1 >= MaxTokens THEN {"Eof"}
               ELSE Alphabet \cup {"Eof"}
  /\ net' = net + (IF look = "LBrace" THEN 1 ELSE IF look = "RBrace" THEN -1 ELSE 0)
  /\ eofs' = eofs + (IF look = "Eof" THEN 1 ELSE 0)

(* Append the children that cover [begin, end) to the container at level l. *)
AppendTo(l, begin, end) ==
  /\ tiled' = (tiled /\ (begin = next[l]) /\ (begin <= end))
  /\ next' = [next EXCEPT ![l] = end]

(* Open a container whose first token is begin; its children start at inner. *)
Open(begin, inner) ==
  /\ level' = level + 1
  /\ start' = [start EXCEPT ![level + 1] = begin]
  /\ next' = [next EXCEPT ![level + 1] = inner]
  /\ UNCHANGED tiled

(* Close the innermost container as a child of its parent, ending at end. *)
Close(end) ==
  /\ level' = level - 1
  /\ tiled' = (tiled /\ (next[level] <= end) /\ (start[level] = next[level - 1]))
  /\ next' = [next EXCEPT ![level - 1] = end, ![level] = 0]
  /\ start' = [start EXCEPT ![level] = 0]

(* An item failed: the driver appends its diagnostic and calls recover(). *)
Fail(expectsSemicolon) ==
  /\ mode' = "recover"
  /\ expected' = expectsSemicolon
  /\ diagnosed' = TRUE

(* The item and its recovery are over: its local state is gone. *)
ToLoop ==
  /\ mode' = "loop"
  /\ q' = Return /\ first' = 0 /\ legacy' = FALSE /\ expected' = FALSE
  /\ braces' = 0 /\ took' = FALSE

(* The node that starts at begin and ends before end is the item's last. *)
Finish(begin, end) == AppendTo(level, begin, end) /\ UNCHANGED <<level, start>> /\ ToLoop

BeginItem == first' = pos /\ legacy' = (look = "AtAtDwarf")

-----------------------------------------------------------------------------
Init ==
  /\ pos = 0 /\ look \in Alphabet \cup {"Eof"}
  /\ mode = "loop" /\ level = 0
  /\ start = [l \in Levels |-> 0] /\ next = [l \in Levels |-> 0]
  /\ diagnosed = FALSE
  /\ q = Return /\ first = 0 /\ legacy = FALSE /\ expected = FALSE /\ braces = 0
  /\ tiled = TRUE /\ net = 0 /\ eofs = 0 /\ took = FALSE

(* The module loop ends at Eof; without an item the result is a failure. *)
ModuleEnd ==
  /\ mode = "loop" /\ ~InBody /\ look = "Eof"
  /\ mode' = "done"
  /\ diagnosed' = (diagnosed \/ next[0] = 0)
  /\ UNCHANGED <<cursor, tree, item>>

(* Linkage qualifiers ahead of a function or a variable. *)
ModuleQualifier ==
  /\ ~InBody /\ mode \in {"loop", "qualifier"}
  /\ look \in FunctionQualifier
  /\ IF mode = "loop" THEN BeginItem ELSE UNCHANGED <<first, legacy>>
  /\ Consume
  /\ mode' = "qualifier"
  /\ UNCHANGED <<tree, q, expected, braces, diagnosed, took>>

(* The production that a module form starts, if its qualifiers admit it. *)
ModuleProduction(k, qualified) ==
  CASE k = "DotEntry" -> <<"entry", 0>>
    [] k = "DotFunc" -> <<"func", 0>>
    [] k \in VariableStateSpace -> <<"var", 0>>
    [] k = "DotPragma" /\ ~qualified -> <<"pragma", 0>>
    [] k = "AtAtDwarf" /\ ~qualified -> <<"dwarf", 0>>
    [] k = "Alias" /\ ~qualified -> <<"alias", 0>>
    [] k = "ModuleDirective" /\ ~qualified -> <<"directive", 0>>
    [] k = "Ident" -> <<"stray", 0>>
    [] OTHER -> Return

ModuleItem ==
  LET qualified == mode = "qualifier"
      production == ModuleProduction(look, qualified)
      isSection == look = "DotSection" /\ ~qualified
  IN
  /\ ~InBody /\ mode \in {"loop", "qualifier"}
  /\ look \notin FunctionQualifier
  /\ mode = "loop" => look # "Eof"
  /\ IF qualified THEN UNCHANGED <<first, legacy>> ELSE BeginItem
  /\ \/ /\ production # Return
        /\ Consume /\ mode' = "item" /\ q' = production
        /\ UNCHANGED <<expected, diagnosed>>
     \/ /\ isSection
        /\ Consume /\ mode' = "sectionName"
        /\ UNCHANGED <<q, expected, diagnosed>>
     \/ /\ production = Return /\ ~isSection
        /\ Fail(FALSE)
        /\ UNCHANGED <<cursor, q>>
  /\ UNCHANGED <<tree, braces, took>>

(* parseSectionDirective: the name, consumed blindly, and the opening brace *)
SectionHeader ==
  /\ \/ /\ mode = "sectionName" /\ look \in Names
        /\ Consume /\ mode' = "sectionBrace" /\ UNCHANGED <<expected, braces, diagnosed>>
     \/ /\ mode = "sectionName" /\ look \notin Names
        /\ Consume /\ Fail(FALSE) /\ UNCHANGED braces
     \/ /\ mode = "sectionBrace" /\ look = "LBrace"
        /\ Consume /\ mode' = "section" /\ braces' = 1 /\ UNCHANGED <<expected, diagnosed>>
     \/ /\ mode = "sectionBrace" /\ look # "LBrace"
        /\ Fail(FALSE) /\ UNCHANGED <<cursor, braces>>
  /\ UNCHANGED <<tree, q, first, legacy, took>>

(* The raw payload: balanced braces; only at depth 1 does a module form end *)
(* it.  The productions inside are abstracted to whether one is malformed.  *)
EndsPayload == look = "Eof" \/ (braces = 1 /\ isSectionRecoveryBoundary(look))

(* What a payload token adds to brace_depth *)
PayloadDepthFlat(k) == IF k = "RBrace" THEN -1 ELSE 0
PayloadDepth(k) == IF k = "LBrace" THEN 1 ELSE IF k = "RBrace" THEN -1 ELSE 0

SectionPayload ==
  /\ mode = "section" /\ braces > 0
  /\ \/ /\ EndsPayload
        /\ Fail(FALSE) /\ UNCHANGED <<cursor, braces>>
     \/ /\ ~EndsPayload
        /\ Consume
        /\ braces' = braces + PayloadDepth(look)
        /\ UNCHANGED <<mode, expected, diagnosed>>
  /\ UNCHANGED <<tree, q, first, legacy, took>>

SectionEnd ==
  /\ mode = "section" /\ braces = 0
  /\ \/ look = "Semicolon" /\ Consume /\ Finish(first, pos + 1)
     \/ look # "Semicolon" /\ Finish(first, pos) /\ UNCHANGED cursor
  /\ \E payload_error \in BOOLEAN : diagnosed' = (diagnosed \/ payload_error)

-----------------------------------------------------------------------------
(* parseBody: one iteration of the loop that functions and blocks share. *)

BodyClose ==
  /\ mode = "loop" /\ InBody /\ look = "RBrace"
  /\ Consume /\ Close(pos + 1)
  /\ UNCHANGED <<mode, item, diagnosed>>

BodyMissingSwallows ==
  /\ mode = "loop" /\ InBody
  /\ look = "Eof" \/ isFunctionOrModuleBoundary(look)
  /\ Consume /\ Close(pos + 1) /\ diagnosed' = TRUE
  /\ UNCHANGED <<mode, item>>

(* missing(): the boundary token stays in the lookahead. *)
BodyMissing ==
  /\ mode = "loop" /\ InBody
  /\ look = "Eof" \/ isFunctionOrModuleBoundary(look)
  /\ Close(pos) /\ diagnosed' = TRUE
  /\ UNCHANGED <<cursor, mode, item>>

(* The production that parseFunctionBodyItem selects after it consumed k. *)
BodyProduction(k) ==
  CASE k \in VariableStateSpace -> <<"var", 0>>
    [] k = "AtAtDwarf" -> <<"dwarf", 0>>
    [] k = "DotLoc" -> <<"loc", 0>>
    [] k = "DotPragma" -> <<"pragma", 0>>
    [] k = "Ident" -> <<"head", 0>>
    [] k = "At" -> <<"ins", 0>>
    [] OTHER -> Return

(* parseBlock nests while its BlockDepth is below the limit. *)
BlockAllowedAtLimit == level - 1 <= kMaxNestedBlockDepth
BlockAllowed == level - 1 < kMaxNestedBlockDepth

BodyItem ==
  /\ mode = "loop" /\ InBody
  /\ ~(look \in {"RBrace", "Eof"} \/ isFunctionOrModuleBoundary(look))
  /\ \/ /\ look = "LBrace" /\ BlockAllowed
        /\ Consume /\ Open(pos, pos + 1)
        /\ UNCHANGED <<mode, q, first, legacy, expected, diagnosed>>
     \/ /\ BodyProduction(look) # Return
        /\ BeginItem
        /\ Consume /\ mode' = "item" /\ q' = BodyProduction(look)
        /\ UNCHANGED <<tree, expected, diagnosed>>
     \/ /\ BodyProduction(look) = Return
        /\ look = "LBrace" => ~BlockAllowed
        /\ BeginItem /\ Fail(FALSE)
        /\ UNCHANGED <<cursor, tree, q>>
  /\ UNCHANGED <<braces, took>>

-----------------------------------------------------------------------------
(* One step of a leaf production: a move of the grammar, or the refusal of  *)
(* a token that no move lists.                                              *)

Enabled(m) == look \in m[2]

Took == took' = (took \/ (InBody /\ isFunctionBoundary(look)))

Refuse(expectsSemicolon) ==
  /\ Fail(expectsSemicolon)
  /\ UNCHANGED <<cursor, tree, q, first, legacy, braces, took>>

ItemAdvance ==
  /\ mode = "item"
  /\ \E m \in MovesFrom(q) :
       /\ Enabled(m) /\ m[3][1] \in DOMAIN Productions
       /\ q' = m[3]
  /\ Consume /\ Took
  /\ UNCHANGED <<tree, mode, first, legacy, expected, braces, diagnosed>>

ItemReturn ==
  /\ mode = "item"
  /\ \E m \in MovesFrom(q) : Enabled(m) /\ m[3] = Return
  /\ Consume /\ Finish(first, pos + 1)
  /\ UNCHANGED diagnosed

ItemAccept ==
  /\ mode = "item"
  /\ \E m \in MovesFrom(q) : Enabled(m) /\ m[3] = Accept
  /\ Finish(first, pos)
  /\ UNCHANGED <<cursor, diagnosed>>

ItemEnterBody ==
  /\ mode = "item" /\ ~InBody
  /\ \E m \in MovesFrom(q) : Enabled(m) /\ m[3] = EnterBody
  /\ Consume /\ Open(first, pos + 1) /\ ToLoop
  /\ UNCHANGED diagnosed

ItemRefuse ==
  /\ mode = "item"
  /\ \/ /\ \A m \in MovesFrom(q) : ~Enabled(m)
        /\ Refuse(FALSE)
     \/ \E m \in MovesFrom(q) :
          Enabled(m) /\ m[3] \in {Unread, Missing} /\ Refuse(m[3] = Missing)

(* The token was consumed before it was refused. *)
ItemRefuseRead ==
  /\ mode = "item"
  /\ \E m \in MovesFrom(q) : Enabled(m) /\ m[3] = Read
  /\ Consume /\ Fail(FALSE) /\ Took
  /\ UNCHANGED <<tree, q, first, legacy, braces>>

-----------------------------------------------------------------------------
(* recover(first, diagnostic, context) *)

IsAnchorAnyBrace ==
  IF InBody
  THEN look \in {"RBrace", "AtAtDwarf", "LBrace"} \/ isFunctionOrModuleBoundary(look)
  ELSE isModuleForm(look)

IsAnchor ==
  IF InBody
  THEN \/ look \in {"RBrace", "AtAtDwarf"}
       \/ legacy /\ look = "LBrace"
       \/ isFunctionOrModuleBoundary(look)
  ELSE isModuleForm(look)

StopsAtCurrentNotEof ==
  \/ (InBody \/ pos # first) /\ IsAnchor
  \/ InBody /\ expected /\ isFunctionBodyItemStart(look)

(* Nothing more is consumed: Eof, an anchor, or an inserted semicolon.  The *)
(* driver's loop then finds Eof, the anchor or the next body item.          *)
StopsAtCurrent ==
  \/ look = "Eof"
  \/ (InBody \/ pos # first) /\ IsAnchor
  \/ InBody /\ expected /\ isFunctionBodyItemStart(look)

RecoverStop ==
  /\ mode = "recover" /\ StopsAtCurrent
  /\ Finish(first, pos)
  /\ UNCHANGED <<cursor, diagnosed>>

(* Where the Skipped node starts, after the Error node of the token at pos *)
skippedAtError == pos
skipped_first == pos + 1

(* The offending token is an Error node; a semicolon ends the item. *)
RecoverError ==
  /\ mode = "recover" /\ ~StopsAtCurrent
  /\ Consume
  /\ \/ look = "Semicolon" /\ Finish(first, pos + 1)
     \/ /\ look # "Semicolon"
        /\ AppendTo(level, first, pos + 1)
        /\ mode' = "skip" /\ first' = skipped_first /\ q' = Return
        /\ UNCHANGED <<level, start, legacy, expected, braces, took>>
  /\ UNCHANGED diagnosed

SkipToken ==
  /\ mode = "skip" /\ look # "Eof" /\ ~IsAnchor
  /\ Consume
  /\ \/ look = "Semicolon" /\ Finish(first, pos + 1)
     \/ look # "Semicolon" /\ UNCHANGED <<tree, mode, item>>
  /\ UNCHANGED diagnosed

SkipStop ==
  /\ mode = "skip" /\ (look = "Eof" \/ IsAnchor)
  /\ Finish(first, pos)
  /\ UNCHANGED <<cursor, diagnosed>>

Terminated == mode = "done" /\ UNCHANGED vars

Next ==
  \/ ModuleEnd \/ ModuleQualifier \/ ModuleItem
  \/ SectionHeader \/ SectionPayload \/ SectionEnd
  \/ BodyClose \/ BodyMissing \/ BodyItem
  \/ ItemAdvance \/ ItemReturn \/ ItemAccept \/ ItemEnterBody
  \/ ItemRefuse \/ ItemRefuseRead
  \/ RecoverStop \/ RecoverError \/ SkipToken \/ SkipStop
  \/ Terminated

Spec == Init /\ [][Next]_vars

(* The parser is sequential and runs until it returns. *)
FairSpec == Spec /\ WF_vars(Next)

-----------------------------------------------------------------------------
Modes == {"loop", "qualifier", "sectionName", "sectionBrace", "section", "item",
          "recover", "skip", "done"}

(* Every variable has the range that its C++ counterpart can hold. *)
TypeOK ==
  /\ pos \in Nat /\ look \in TokenKinds
  /\ mode \in Modes /\ q[1] \in DOMAIN Productions \cup {"return"}
  /\ first \in Nat /\ legacy \in BOOLEAN
  /\ expected \in BOOLEAN /\ braces \in Nat
  /\ level \in Levels
  /\ start \in [Levels -> Nat] /\ next \in [Levels -> Nat]
  /\ diagnosed \in BOOLEAN /\ tiled \in BOOLEAN /\ took \in BOOLEAN
  /\ net \in Int /\ eofs \in Nat

(* The children of every container tile its tokens: no token is dropped    *)
(* between two siblings, covered twice or left behind the cursor, whatever *)
(* mixture of parsed items, blocks cut short and recovery spans there is.  *)
ChildrenTile ==
  /\ tiled
  /\ mode \in {"loop", "done"} => next[level] = pos
  /\ \A l \in Levels : l < level => next[l] = start[l + 1]
  /\ mode = "done" => level = 0

(* The real end of input is consumed at most once, even by the productions  *)
(* that consume before they look, and nothing but recovery follows it.      *)
EofTakenOnce ==
  /\ eofs <= 1
  /\ eofs = 1 => look = "Eof" /\ mode \in {"recover", "loop", "done"}

(* A tree without diagnostics nests as the braces of its source do. *)
CleanNesting ==
  mode \in {"loop", "done"} /\ ~diagnosed => net = level

(* Every iteration of a driver loop consumes a token: an item, or an item   *)
(* and its recovery, never returns to the loop head where it began.         *)
IterationConsumes ==
  [][ (mode \in {"item", "section", "recover"} /\ mode' = "loop") => pos' > first ]_vars

(* A function or module boundary at which a body stops, however deep the    *)
(* blocks around it, becomes the first token of a module item.              *)
BoundaryReachesModule ==
  \A p \in 0 .. MaxTokens :
    (mode = "loop" /\ InBody /\ isFunctionOrModuleBoundary(look) /\ pos = p)
      ~> (mode = "loop" /\ ~InBody /\ isFunctionOrModuleBoundary(look) /\ pos = p)

(* The parser returns on every input. *)
Terminates == <>(mode = "done")

(* docs/sdk_support.md: recovery synchronizes a malformed body item at the  *)
(* next function, qualifiers included, and preserves that anchor.           *)
FunctionAnchorsPreserved == mode = "recover" /\ InBody => ~took
=============================================================================
