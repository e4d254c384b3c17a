-------------------------- MODULE DeclarationRules --------------------------
(***************************************************************************)
(* checkDeclarations() of submod/semantic/src/ptx_declaration_semantics.cpp *)
(* : redeclarations, header directives, aliases, metadata of control flow,  *)
(* and the order in which Checker::run() asks for all of the checks.  A     *)
(* check gives the kinds of its diagnostics in their order.                 *)
(***************************************************************************)
EXTENDS VariableRules, ModuleHeader

requirePtx(version, required) == When(Below(version, required), "UnsupportedDirectivePtxVersion")

-----------------------------------------------------------------------------
(* Redeclarations *)

VariableEntry(variable, declarator, linkage) ==
  [key |-> <<declarator.count # None, declarator.name>>,
   function |-> FALSE, signature |-> variableSignature(variable, declarator),
   linkage |-> linkage, defines |-> linkage # ".extern"]
DeclarationEntries(item) ==
  CASE item.kind = "Variable" ->
         [k \in DOMAIN item.declarators |->
            VariableEntry(item, item.declarators[k], declarationLinkage(item.qualifiers))]
    [] item.kind = "Function" ->
         <<[key |-> <<FALSE, item.name>>, function |-> TRUE, signature |-> functionSignature(item),
            linkage |-> declarationLinkage(item.qualifiers), defines |-> ~item.is_prototype]>>
    [] OTHER -> <<>>

SameDeclaration(left, right) ==
  /\ left.function = right.function /\ left.linkage = right.linkage
  /\ IF left.function THEN SameSignature(left.signature, right.signature)
     ELSE left.signature = right.signature

(* seen holds the first declaration of each name, and whether a compatible *)
(* one defined it *)
AfterEntry(state, entry, previous) ==
  IF previous = NoSymbol THEN [state EXCEPT !.seen = Append(@, entry)]
  ELSE IF ~SameDeclaration(state.seen[previous], entry)
       THEN [state EXCEPT !.diagnostics = Append(@, "IncompatibleRedeclaration")]
  ELSE IF entry.defines /\ state.seen[previous].defines
       THEN [state EXCEPT !.diagnostics = Append(@, "MultipleDefinitions")]
  ELSE [state EXCEPT !.seen[previous].defines = @ \/ entry.defines]
rememberDeclaration(state, entry) ==
  AfterEntry(state, entry, Earliest({i \in DOMAIN state.seen : state.seen[i].key = entry.key}))

LanguageCode(text) == IF text.value <= 10 THEN Some(text.value) ELSE None

AttributeValues(attributes) ==
  [i \in DOMAIN attributes |->
     <<attributes[i].kind,
       [j \in DOMAIN attributes[i].values |-> parseIntegerMagnitude(attributes[i].values[j])]>>]
SuffixKey(suffix) == IF suffix = None THEN None ELSE Some(integerSyntaxKey(suffix[1]))
LanguageCodes(language) ==
  IF language = None THEN None
  ELSE Some([i \in DOMAIN language[1] |-> LanguageCode(language[1][i])])
HeaderKey(function) ==
  <<AttributeValues(function.attributes), SuffixKey(function.abi_preserve),
    SuffixKey(function.abi_preserve_control), LanguageCodes(function.language)>>
sameFunctionHeader(left, right) == HeaderKey(left) = HeaderKey(right)

FunctionsNamed(module, name) ==
  SelectSeq(module, LAMBDA item : item.kind = "Function" /\ item.name = name)

checkFunctionHeader(module, item) ==
  IF item.kind # "Function" THEN <<>>
  ELSE When(declarationLinkage(item.qualifiers) = ".extern" /\ ~item.is_prototype, "InvalidLinkage")
       \o When(~sameFunctionHeader(FunctionsNamed(module, item.name)[1], item),
               "IncompatibleRedeclaration")
checkRedeclarations(module) ==
  FoldLeft(rememberDeclaration, [seen |-> <<>>, diagnostics |-> <<>>],
           Each(module, DeclarationEntries)).diagnostics
  \o Each(module, LAMBDA item : checkFunctionHeader(module, item))

-----------------------------------------------------------------------------
(* Kernel resources: [kind, values] *)

minimumPtxVersion(kind) ==
  CASE kind \in {"MaxNreg", "MaxNctaPerSm", "MaxNtid"} -> 13
    [] kind = "ReqNtid" -> 21
    [] kind = "MinNctaPerSm" -> 20
    [] OTHER -> 78

ClusterKinds == {"ReqNctaPerCluster", "MaxClusterRank"}

(* A directive clashes with the first of the other kind; the one that is    *)
(* refused for a cluster is not remembered                                  *)
Clashes(resources, i, kinds) ==
  /\ resources[i].kind \in kinds
  /\ SelectSeq(resources, LAMBDA r : r.kind \in kinds)[1].kind # resources[i].kind
ResourceDiagnostics(resources, version) ==
  FlattenSeq([i \in DOMAIN resources |->
    When(Below(version, minimumPtxVersion(resources[i].kind)),
         "UnsupportedKernelResourcePtxVersion")
    \o When(Clashes(resources, i, {"MaxNtid", "ReqNtid"}), "IncompatibleKernelResourceDirective")
    \o When(Clashes(resources, i, ClusterKinds), "IncompatibleKernelResourceDirective")])

checkKernelResources(module) ==
  Each(module, LAMBDA item :
         IF item.kind = "Function" /\ item.is_entry
         THEN ResourceDiagnostics(item.resources, modulePtxVersion(module)) ELSE <<>>)

-----------------------------------------------------------------------------
(* Header directives, attributes and aliases: checkM11Directives() *)

checkDirectiveU32(text) ==
  IF parseIntegerMagnitude(text) = None THEN <<"InvalidIntegerLiteral">>
  ELSE When(text.value >= HalfWord, "InvalidDeclarationDirective")
checkAbiPreservationCount(suffix) == IF suffix = None THEN <<>> ELSE checkDirectiveU32(suffix[1])

UnifiedValue(text) == When(parseIntegerMagnitude(text) = None, "InvalidIntegerLiteral")
checkAttribute(attribute, repeated, space, function, version) ==
  When(repeated, "InvalidDeclarationDirective")
  \o requirePtx(version, IF attribute.kind = "Managed" THEN 40 ELSE 80)
  \o (IF attribute.kind = "Managed" THEN <<>> ELSE Each(attribute.values, UnifiedValue))
  \o When(IF function THEN attribute.kind = "Managed" ELSE space # "Global",
          "InvalidDeclarationDirective")
checkAttributes(attributes, space, function, version) ==
  FlattenSeq([i \in DOMAIN attributes |->
    checkAttribute(attributes[i], \E j \in 1 .. i - 1 : attributes[j].kind = attributes[i].kind,
                   space, function, version)])

(* An alias stands for the defined function of a name and is declared by    *)
(* prototypes of the same signature                                         *)
MayBeAliased(defined) ==
  defined # <<>> /\ ~defined[1].is_entry /\ declarationLinkage(defined[1].qualifiers) # ".weak"
DeclaredAlike(declared, signature) ==
  /\ declared # <<>>
  /\ \A k \in DOMAIN declared :
       /\ ~declared[k].is_entry /\ declared[k].is_prototype
       /\ SameSignature(functionSignature(declared[k]), signature)
AliasAgrees(declared, defined) ==
  MayBeAliased(defined) /\ DeclaredAlike(declared, functionSignature(defined[1]))

checkAlias(module, i, version) ==
  requirePtx(version, 63)
  \o When(\E j \in 1 .. i - 1 : module[j].kind = "Alias" /\ module[j].alias = module[i].alias,
          "InvalidFunctionAlias")
  \o When(~AliasAgrees(FunctionsNamed(module, module[i].alias),
                       SelectSeq(FunctionsNamed(module, module[i].aliasee),
                                 LAMBDA f : ~f.is_prototype)),
          "InvalidFunctionAlias")

HasResource(function, kind) ==
  \E i \in DOMAIN function.resources : function.resources[i].kind = kind

checkHeaderDirectives(function, version) ==
  checkAttributes(function.attributes, "Global", TRUE, version)
  \o Each(function.resources, LAMBDA resource : Each(resource.values, checkDirectiveU32))
  \o checkAbiPreservationCount(function.abi_preserve)
  \o checkAbiPreservationCount(function.abi_preserve_control)
  \o (IF ~function.is_noreturn THEN <<>>
      ELSE requirePtx(version, 64) \o When(function.returns # <<>>, "InvalidDeclarationDirective"))
  \o (IF function.abi_preserve = None THEN <<>> ELSE requirePtx(version, 90))
  \o (IF function.abi_preserve_control = None THEN <<>> ELSE requirePtx(version, 90))
  \o (IF ~function.blocks_are_clusters THEN <<>>
      ELSE requirePtx(version, 90)
           \o When(~(HasResource(function, "ReqNtid") /\ HasResource(function, "ReqNctaPerCluster")),
                   "InvalidDeclarationDirective"))
  \o (IF function.language = None THEN <<>>
      ELSE requirePtx(version, 93)
           \o Each(function.language[1], LAMBDA text :
                     When(LanguageCode(text) = None, "InvalidDeclarationDirective")))

checkPrototypeDirectives(prototype, version) ==
  checkAbiPreservationCount(prototype.abi_preserve)
  \o checkAbiPreservationCount(prototype.abi_preserve_control)
  \o (IF prototype.is_noreturn THEN requirePtx(version, 64) ELSE <<>>)
  \o (IF prototype.abi_preserve = None THEN <<>> ELSE requirePtx(version, 90))
  \o (IF prototype.abi_preserve_control = None THEN <<>> ELSE requirePtx(version, 90))

checkM11Directive(module, n, version) ==
  CASE n.node.kind = "Variable" ->
         checkAttributes(n.node.attributes, n.node.space, FALSE, version)
    [] n.node.kind = "Alias" -> checkAlias(module, n.at[1], version)
    [] n.node.kind = "Function" -> checkHeaderDirectives(n.node, version)
    [] n.node.kind = "CallPrototype" -> checkPrototypeDirectives(n.node, version)
    [] OTHER -> <<>>
checkM11Directives(module, nodes) ==
  Each(nodes, LAMBDA n : checkM11Directive(module, n, modulePtxVersion(module)))

Qualifiers(item) == IF item.kind \in {"Variable", "Function"} THEN item.qualifiers ELSE <<>>

CommonLinkage(item, version, sm) ==
  CASE item.kind = "Variable" -> checkCommonVariable(item, version, sm, TRUE)
    [] item.kind = "Function" ->
         Each(item.qualifiers, LAMBDA qualifier : When(qualifier = ".common", "InvalidLinkage"))
    [] OTHER -> <<>>
checkCommonLinkage(module) ==
  FlattenSeq([i \in DOMAIN module |->
                CommonLinkage(module[i], modulePtxVersion(module), ActiveTarget(module, i))])

WeakLinkage(qualifiers, version) ==
  IF declarationLinkage(qualifiers) # ".weak" THEN <<>>
  ELSE Each(qualifiers, LAMBDA qualifier :
              IF qualifier = ".weak" THEN requirePtx(version, 31) ELSE <<>>)
checkWeakLinkage(module) ==
  Each(module, LAMBDA item : WeakLinkage(Qualifiers(item), modulePtxVersion(module)))

-----------------------------------------------------------------------------
(* Metadata of control flow *)

(* The signatures of functions declared up to the one that a body is part of; *)
(* the first declaration of a name decides                                    *)
SeenFunctions(module, i, name) == FunctionsNamed(SubSeq(module, 1, i), name)

BadTarget(table, found, seen) ==
  IF found = NoSymbol THEN "UnresolvedMetadataTarget"
  ELSE IF table.symbols[found].kind # "Function" \/ table.symbols[found].is_entry
       THEN "InvalidMetadataTarget"
  ELSE IF seen = <<>> THEN "UnresolvedMetadataTarget"
  ELSE "none"

(* bad and signatures say of each target what is wrong with it and its type; *)
(* all good targets have the signature of the first one                      *)
TargetDiagnostics(targets, bad, signatures, first) ==
  FlattenSeq([i \in DOMAIN targets |->
    When(\E j \in 1 .. i - 1 : targets[j] = targets[i], "DuplicateMetadataTarget")
    \o When(bad[i] # "none", bad[i])
    \o When(bad[i] = "none" /\ ~SameSignature(signatures[i], signatures[first]),
            "IncompatibleCallTargetSignature")])
OfTargets(targets, bad, seen) ==
  TargetDiagnostics(targets, bad,
                    [i \in DOMAIN targets |->
                       IF bad[i] = "none" THEN functionSignature(seen[i][1]) ELSE {}],
                    Earliest({i \in DOMAIN targets : bad[i] = "none"}))
SeenTargets(table, targets, seen) ==
  OfTargets(targets,
            [i \in DOMAIN targets |-> BadTarget(table, lookup(table, <<>>, targets[i]), seen[i])],
            seen)
checkCallTargets(table, module, n) ==
  SeenTargets(table, n.node.targets,
              [i \in DOMAIN n.node.targets |->
                 SeenFunctions(module, n.at[1], n.node.targets[i])])

LabelsOf(table, function) ==
  {table.symbols[i].name : i \in {s \in DOMAIN table.symbols :
     table.symbols[s].kind = "Label" /\ table.symbols[s].scope = function}}

(* A compact target L<n> means L0 to Ln-1 *)
CompactTargets(labels, prefix, count) ==
  IF count = None THEN <<"InvalidMetadataTarget">>
  ELSE When(Cardinality({label \in labels : Below(compactLabelIndex(prefix, label), count[1])})
              # count[1],
            "UnresolvedMetadataTarget")
checkBranchTarget(table, function, labels, target) ==
  IF target.count # None
  THEN CompactTargets(labels, target.name, positiveCount(target.count[1]))
  ELSE IF target.name \in labels THEN <<>>
  ELSE IF lookup(table, function, target.name) # NoSymbol THEN <<"InvalidMetadataTarget">>
  ELSE <<"UnresolvedMetadataTarget">>
checkBranchTargets(table, n) ==
  Each(n.node.targets, LAMBDA target :
         checkBranchTarget(table, n.function, LabelsOf(table, n.function), target))

(* A brx.idx must stand after the list that it names *)
ListIsPrior(table, found, n) ==
  When(/\ found # NoSymbol
       /\ table.symbols[found].kind = "BranchTargets"
       /\ table.symbols[found].scope = n.function
       /\ ~hasPriorDeclaration(table, found, n.at),
       "UnresolvedMetadataTarget")
checkIndexedBranchTargetSetVisibility(table, n) ==
  ListIsPrior(table, lookup(table, n.scope, n.node.list), n)

ControlFlowNode(module, table, n) ==
  CASE n.node.kind = "CallPrototype" ->
         checkCallPrototype(n.node, modulePtxVersion(module), ActiveTarget(module, n.at[1]))
    [] n.node.kind = "CallTargets" -> checkCallTargets(table, module, n)
    [] n.node.kind = "BranchTargets" -> checkBranchTargets(table, n)
    [] n.node.kind = "Indexed" -> checkIndexedBranchTargetSetVisibility(table, n)
    [] OTHER -> <<>>
checkControlFlowMetadata(module, table) ==
  Each(table.nodes, LAMBDA n : ControlFlowNode(module, table, n))

-----------------------------------------------------------------------------
(* Checker::run() *)

PlacedVariable(module, n, version, sm) ==
  IF n.function = <<>>
  THEN checkModulePlacement(n.node, version, sm)
       \o When(n.node.space = "Parameter", "ModuleScopeParameter")
  ELSE checkCommonVariable(n.node, version, sm, FALSE)
       \o (IF n.node.space = "Parameter"
           THEN checkBodyParameterDeclaration(n.node, version, sm, module[n.at[1]].is_entry)
           ELSE <<>>)

DeclarationNode(module, table, n, version, sm) ==
  CASE n.node.kind = "Variable" ->
         checkAlignment(n.node.alignment) \o checkVariableDeclaration(table, n, version)
         \o PlacedVariable(module, n, version, sm)
    [] n.node.kind = "Function" ->
         checkIdentifier(n.node.name) \o checkFunctionParameters(n.node, version, sm)
    [] n.node.kind \in {"Label", "CallPrototype", "CallTargets", "BranchTargets"} ->
         checkIdentifier(n.node.name)
    [] n.node.kind = "Alias" -> checkIdentifier(n.node.alias)
    [] n.node.kind = "DebugStrings" -> Each(n.node.labels, checkIdentifier)
    [] OTHER -> <<>>
checkDeclarationNodes(module, table) ==
  Each(table.nodes, LAMBDA n :
         DeclarationNode(module, table, n, modulePtxVersion(module),
                         ActiveTarget(module, n.at[1])))

checkDeclarations(module, table) ==
  checkRedeclarations(module)
  \o checkControlFlowMetadata(module, table)
  \o checkKernelResources(module)
  \o checkM11Directives(module, table.nodes)
  \o checkCommonLinkage(module)
  \o checkWeakLinkage(module)
  \o checkDeclarationNodes(module, table)
=============================================================================
