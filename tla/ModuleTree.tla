----------------------------- MODULE ModuleTree -----------------------------
(***************************************************************************)
(* A syntax module as the later passes see it: its items and the nodes of   *)
(* its function bodies, each at a place, and the symbols that binding made  *)
(* of its declarations (submod/binding).                                    *)
(*                                                                         *)
(* A place is the path to a node: <<3>> the third item, <<3, 2>> the second *)
(* node of its body, <<3, 2, 1>> the first of the block there.  Places are  *)
(* ordered as the source is.  A scope is the place of the function or block *)
(* that opens it, <<>> for the module.                                      *)
(***************************************************************************)
EXTENDS FunctionContract

Parent(scope) == Front(scope)

(* The nodes of a body and of the blocks in it, in order *)
RECURSIVE BodyNodes(_, _, _)
BodyNodes(body, scope, function) ==
  LET Nodes(i) ==
        <<[at |-> Append(scope, i), scope |-> scope, function |-> function, node |-> body[i]]>>
        \o (IF body[i].kind = "Block"
            THEN BodyNodes(body[i].body, Append(scope, i), function) ELSE <<>>)
  IN FlattenSeq([i \in DOMAIN body |-> Nodes(i)])

(* All nodes of a module, an item before what is in it *)
ModuleNodes(module) ==
  LET Nodes(i) ==
        <<[at |-> <<i>>, scope |-> <<>>, function |-> <<>>, node |-> module[i]]>>
        \o (IF module[i].kind = "Function" THEN BodyNodes(module[i].body, <<i>>, <<i>>) ELSE <<>>)
  IN FlattenSeq([i \in DOMAIN module |-> Nodes(i)])

Kind(nodes, kind) == SelectSeq(nodes, LAMBDA n : n.node.kind = kind)
Functions(module) == SelectSeq(ModuleNodes(module), LAMBDA n : n.node.kind = "Function")

-----------------------------------------------------------------------------
(* Declarations, in the order in which binding collects them *)

Declared(kind, name, scope, at) ==
  [kind |-> kind, name |-> name, scope |-> scope, at |-> at, count |-> None,
   space |-> "None", type |-> "None", vector |-> None, alignment |-> None,
   is_array |-> FALSE, is_entry |-> FALSE, linkage |-> "None", aliasee |-> None]

scalarAlignment(type) ==
  IF IsFundamental(type) \/ type \in {".bf16", ".tf32"} THEN Some(scalar_size_of(type)) ELSE None

declarationAlignment(explicit, vector, type) ==
  IF explicit # None
  THEN IF isValidAlignment(explicit[1]) THEN Some(explicit[1].value) ELSE None
  ELSE IF scalarAlignment(type) = None THEN None
       ELSE Some(scalarAlignment(type)[1] * Lanes(vector))

OfParameter(parameter, kind, scope, at) ==
  [Declared(kind, parameter.name, scope, at) EXCEPT
     !.space = parameter.space, !.type = parameter.type, !.vector = parameter.vector,
     !.alignment = declarationAlignment(parameter.alignment, parameter.vector, parameter.type),
     !.is_array = parameter.dimensions # <<>>]

(* A count that is no positive uint32_t makes a group without members *)
ValidCount(count) == positiveCount(count) # None /\ count.value < HalfWord
parameterizedCount(count) ==
  IF count = None THEN None ELSE Some(IF ValidCount(count[1]) THEN count[1].value ELSE 0)

OfDeclarator(variable, declarator, scope, at) ==
  LET type == IF variable.legacy_texture THEN ".texref" ELSE variable.type
      kind == IF scope # <<>> /\ variable.space = "Parameter" THEN "CallParameter" ELSE "Variable"
  IN [Declared(kind, declarator.name, scope, at) EXCEPT
        !.space = variable.space, !.type = type, !.vector = variable.vector,
        !.alignment = declarationAlignment(variable.alignment, variable.vector, type),
        !.is_array = declarator.dimensions # <<>>,
        !.linkage = declarationLinkage(variable.qualifiers),
        !.count = parameterizedCount(declarator.count)]

OfFormals(formals, kind, at, from) ==
  [k \in DOMAIN formals |-> OfParameter(formals[k], kind, at, at \o <<0, from + k>>)]
OfFunction(function, at) ==
  <<[Declared("Function", function.name, <<>>, at) EXCEPT
       !.is_entry = function.is_entry, !.linkage = declarationLinkage(function.qualifiers)]>>
  \o OfFormals(function.returns, "ReturnParameter", at, 0)
  \o OfFormals(function.parameters, "InputParameter", at, Len(function.returns))

DeclarationsOf(n) ==
  CASE n.node.kind = "Variable" ->
         [k \in DOMAIN n.node.declarators |->
            OfDeclarator(n.node, n.node.declarators[k], n.scope, Append(n.at, k))]
    [] n.node.kind = "Function" -> OfFunction(n.node, n.at)
    [] n.node.kind \in {"Label", "CallPrototype", "CallTargets", "BranchTargets"} ->
         <<Declared(n.node.kind, n.node.name, n.function, n.at)>>
    [] OTHER -> <<>>

(* The first declaration of each name; an array anywhere makes it an array *)
Distinct(declarations) ==
  LET first == SelectSeq(
        [i \in DOMAIN declarations |-> <<i, declarations[i]>>],
        LAMBDA d : \A j \in 1 .. d[1] - 1 : ~SameSymbol(declarations[j], d[2]))
      Merged(declaration) ==
        [declaration EXCEPT !.is_array =
           \E j \in DOMAIN declarations :
             SameSymbol(declarations[j], declaration) /\ declarations[j].is_array]
  IN [i \in DOMAIN first |-> Merged(first[i][2])]

(* collectAlias(), after all declarations: an alias of a function is one *)
WithAlias(symbols, alias) ==
  LET At(name) == {i \in DOMAIN symbols : symbols[i].scope = <<>> /\ symbols[i].name = name
                                          /\ symbols[i].count = None}
      functions == {i \in At(alias.node.aliasee) : symbols[i].kind = "Function"}
      Taken(i) == IF symbols[i].kind = "Function"
                  THEN [symbols EXCEPT ![i].aliasee = Some(alias.node.aliasee)] ELSE symbols
  IN IF functions = {} THEN symbols
     ELSE IF At(alias.node.alias) # {} THEN Taken(CHOOSE i \in At(alias.node.alias) : TRUE)
     ELSE Append(symbols, [Declared("Function", alias.node.alias, <<>>, alias.at) EXCEPT
                             !.aliasee = Some(alias.node.aliasee)])

(* The table: what is declared where, and the symbols *)
TableOf(nodes, declarations) ==
  [nodes |-> nodes, declarations |-> declarations,
   symbols |-> FoldLeft(WithAlias, Distinct(declarations), Kind(nodes, "Alias"))]
BoundNodes(nodes) == TableOf(nodes, Each(nodes, DeclarationsOf))
Bound(module) == BoundNodes(ModuleNodes(module))

-----------------------------------------------------------------------------
(* Queries *)

NoSymbol == 0

Earliest(symbols) ==
  IF symbols = {} THEN NoSymbol ELSE CHOOSE i \in symbols : \A j \in symbols : i <= j
FirstKnown(first, second) == IF first # NoSymbol THEN first ELSE second

DecimalOf(digits) == FoldLeft(LAMBDA n, digit : 10 * n + DigitValue(digit), 0, digits)
IndexOf(suffix) ==
  IF /\ \A i \in DOMAIN suffix : suffix[i] \in DigitCharacters
     /\ Len(suffix) > 1 => suffix[1] # "0"
  THEN Some(DecimalOf(suffix)) ELSE None
compactLabelIndex(prefix, label) ==
  IF IsStrictPrefix(prefix, label) THEN IndexOf(SubSeq(label, Len(prefix) + 1, Len(label)))
  ELSE None

(* A number is known and less than another *)
Below(known, required) == known # None /\ known[1] < required
IsMember(symbol, name) ==
  symbol.count # None /\ Below(compactLabelIndex(symbol.name, name), symbol.count[1])

exactDeclaration(table, scope, name) ==
  Earliest({i \in DOMAIN table.symbols : table.symbols[i].scope = scope
              /\ table.symbols[i].name = name /\ table.symbols[i].count = None})

InScope(table, scope, name) ==
  FirstKnown(exactDeclaration(table, scope, name),
         Earliest({i \in DOMAIN table.symbols :
                     table.symbols[i].scope = scope /\ IsMember(table.symbols[i], name)}))

(* The symbol of the innermost scope that knows a name *)
RECURSIVE lookup(_, _, _)
lookup(table, scope, name) ==
  FirstKnown(InScope(table, scope, name),
         IF scope = <<>> THEN NoSymbol ELSE lookup(table, Parent(scope), name))

canonical(table, symbol) ==
  LET aliasee == table.symbols[symbol].aliasee
  IN IF aliasee = None THEN symbol ELSE exactDeclaration(table, <<>>, aliasee[1])
=============================================================================
