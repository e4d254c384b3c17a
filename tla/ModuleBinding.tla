---------------------------- MODULE ModuleBinding ----------------------------
(***************************************************************************)
(* What bindSymbols() of submod/binding says of a module: names declared    *)
(* twice, and names that are used and mean nothing, or nothing that the     *)
(* place of their use allows.                                               *)
(*                                                                         *)
(* An instruction is a call [target, metadata, returns, inputs, predicate], *)
(* an access to memory [space, qualifier, base, offset, index, predicate]   *)
(* of kind "Load" or "Store", a "Branch" [target], an "Indexed" branch      *)
(* [list], or "Other".  An argument is a "Name", a "Member" of a vector, or *)
(* a "Literal".  Special registers are left out.                            *)
(***************************************************************************)
EXTENDS ModuleTree

-----------------------------------------------------------------------------
(* Declarations *)

SameNames(left, right) == left.name = right.name /\ (left.count = None) = (right.count = None)

FirstMember(group) == Append(group.name, "0")

(* overlappingSymbol(): a name that a group of the same scope also makes *)
NamesOverlap(earlier, later) ==
  CASE later.count = None -> IsMember(earlier, later.name)
    [] later.count = Some(0) -> FALSE
    [] OTHER -> \/ IsMember(earlier, FirstMember(later))
                \/ earlier.count = None /\ IsMember(later, earlier.name)
                \/ earlier.count \notin {None, Some(0)} /\ IsMember(later, FirstMember(earlier))

AllowsRedeclaration(declaration) ==
  declaration.scope = <<>> /\ declaration.kind \in {"Variable", "Function"}

addSymbol(earlier, declaration) ==
  LET known == {i \in DOMAIN earlier : earlier[i].scope = declaration.scope}
  IN IF \E i \in known : SameNames(earlier[i], declaration)
     THEN When(~AllowsRedeclaration(declaration), "DuplicateSymbol")
     ELSE When(\E i \in known : NamesOverlap(earlier[i], declaration), "DuplicateSymbol")

Duplicates(declarations) ==
  FlattenSeq([i \in DOMAIN declarations |->
                addSymbol(SubSeq(declarations, 1, i - 1), declarations[i])])

(* linkage(): every qualifier of linkage after the first *)
ConflictingLinkages(qualifiers) ==
  LET linkages == SelectSeq(qualifiers, LAMBDA q : q \in LinkageQualifiers)
  IN FlattenSeq([i \in DOMAIN linkages |-> When(i > 1, "ConflictingLinkageQualifiers")])

InvalidCount(declarator) ==
  When(declarator.count # None /\ ~ValidCount(declarator.count[1]), "InvalidParameterizedCount")

CollectedNode(n) ==
  CASE n.node.kind = "Variable" ->
         ConflictingLinkages(n.node.qualifiers) \o Each(n.node.declarators, InvalidCount)
    [] n.node.kind = "Function" -> ConflictingLinkages(n.node.qualifiers)
    [] OTHER -> <<>>

-----------------------------------------------------------------------------
(* References *)

isRegisterOrParameter(symbol) == symbol.space \in {"Register", "Parameter"}

(* diagnoseInvalidTarget(): what a use allows a name to be *)
ValidTarget(symbol, use, function) ==
  CASE use = "CallParameter" -> isRegisterOrParameter(symbol)
    [] use = "CallTarget" -> symbol.kind = "Function" \/ symbol.space = "Register"
    [] use = "CallTargetSet" -> symbol.kind \in {"CallPrototype", "CallTargets", "Variable"}
    [] use = "BranchTargetSet" -> symbol.kind = "BranchTargets" /\ symbol.scope = function
    [] use = "BranchTarget" -> symbol.kind = "Label" /\ symbol.scope = function
    [] use = "Operand" -> TRUE

addReference(table, scope, function, use, name) ==
  LET found == lookup(table, scope, name)
  IN IF found = NoSymbol THEN <<"UnresolvedReference">>
     ELSE When(~ValidTarget(table.symbols[found], use, function), "InvalidReferenceTarget")

RECURSIVE ExpressionNames(_)
ExpressionNames(e) ==
  LET generic == e.node = "Call" /\ e.callee.node = "Symbol" /\ e.callee.name = GenericName
  IN IF e.node = "Symbol" THEN <<e.name>>
     ELSE Each(IF generic THEN <<e.argument>> ELSE Operands(e),
               LAMBDA operand : ExpressionNames(operand))

(* A name that is the whole value of a member is no reference *)
RECURSIVE InitializerNames(_)
InitializerNames(initializer) ==
  LET Element(element) == InitializerNames(element)
  IN CASE initializer.form = "Value" -> ExpressionNames(initializer.value)
       [] initializer.form = "Named" ->
            IF initializer.value.node = "Symbol" THEN <<>> ELSE ExpressionNames(initializer.value)
       [] initializer.form = "List" -> Each(initializer.elements, Element)

DimensionNames(dimensions) ==
  LET Names(dimension) == IF dimension = None THEN <<>> ELSE ExpressionNames(dimension[1])
  IN Each(dimensions, Names)

VariableNames(variable) ==
  LET Names(declarator) ==
        DimensionNames(declarator.dimensions)
        \o (IF declarator.initializer = None THEN <<>>
            ELSE InitializerNames(declarator.initializer[1]))
  IN Each(variable.declarators, Names)

ParameterNames(function) ==
  LET Names(parameter) == DimensionNames(parameter.dimensions)
  IN Each(function.returns \o function.parameters, Names)

Uses(use, names) == [i \in DOMAIN names |-> <<use, names[i]>>]
ArgumentNames(arguments) ==
  LET Name(argument) == IF argument.form = "Literal" THEN <<>> ELSE <<argument.name>>
  IN IF arguments = None THEN <<>> ELSE Each(arguments[1], Name)

(* Each name that a node uses, and as what *)
UsesOf(node) ==
  CASE node.kind = "Variable" -> Uses("Operand", VariableNames(node))
    [] node.kind = "Function" -> Uses("Operand", ParameterNames(node))
    [] node.kind = "Call" ->
         Uses("Operand", node.predicate) \o Uses("CallParameter", ArgumentNames(node.returns))
         \o Uses("CallTarget", <<node.target>>)
         \o Uses("CallParameter", ArgumentNames(node.inputs))
         \o Uses("CallTargetSet", node.metadata)
    [] node.kind \in {"Load", "Store"} ->
         Uses("Operand", node.predicate \o <<node.base>> \o node.index)
    [] node.kind = "Branch" -> Uses("BranchTarget", <<node.target>>)
    [] node.kind = "Indexed" -> Uses("BranchTargetSet", <<node.list>>)
    [] OTHER -> <<>>

(* The names of a function's own header are looked up in its scope *)
BoundNode(table, n) ==
  LET scope == IF n.node.kind = "Function" THEN n.at ELSE n.scope
  IN Each(UsesOf(n.node), LAMBDA use : addReference(table, scope, n.function, use[1], use[2]))

-----------------------------------------------------------------------------
BoundAlias(table, n) ==
  LET target == exactDeclaration(table, <<>>, n.node.aliasee)
  IN IF target = NoSymbol \/ table.symbols[target].kind # "Function" THEN <<>>
     ELSE addSymbol(table.declarations, Declared("Function", n.node.alias, <<>>, n.at))

bindSymbols(table) ==
  Each(table.nodes, CollectedNode) \o Duplicates(table.declarations)
  \o Each(Kind(table.nodes, "Alias"), LAMBDA n : BoundAlias(table, n))
  \o Each(table.nodes, LAMBDA n : BoundNode(table, n))
=============================================================================
