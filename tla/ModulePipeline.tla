--------------------------- MODULE ModulePipeline ---------------------------
(***************************************************************************)
(* resolveModuleOnly() of submod/resolved_ir/src/ptx_resolved_module.cpp:   *)
(* the phases that take a syntax module to a resolved one.  A phase that    *)
(* says anything ends the resolution, at once or after the functions; what  *)
(* the phases before it have built is then dropped.  Debug directives and   *)
(* pragmas are left out.                                                    *)
(*                                                                         *)
(* What a phase computes in another part of the system is a parameter here: *)
(* OwnedModule and the modules below it define it, and the configurations   *)
(* give the parameters those definitions (ResolvedModules).                 *)
(***************************************************************************)
EXTENDS ModuleHeader, FunctionChecks

CONSTANTS
  Modules,                \* the syntax modules to resolve
  Binding(_),             \* the symbol table of a module
  DeclarationsSay(_, _),  \* what binding and the rules of declarations say
  StorageOf(_, _),        \* [value, said]: the records of declared storage
  CallIndex(_, _),        \* [tables, signatures, said], from a symbol table and the storage
  NameIn(_, _, _),        \* the symbol that a name in a scope leads to
  CallResolves(_, _, _, _), AccessResolves(_, _, _),   \* whether an instruction resolves
  CallSays(_, _, _),      \* what is said of a call that resolves
  PartsOf(_, _, _, _),    \* what a function's record has besides its body
  OperandsIn(_, _, _, _)  \* the operands of an instruction

Silent(m) == DeclarationsSay(m, Binding(m)) = <<>>
RecordsIn(resolved) == IF resolved.value = None THEN <<>> ELSE resolved.value[1]

(* A module is a sequence, and so are the targets of a directive and the    *)
(* nodes of its table, which are in the order of the source.  A label that  *)
(* the rules of declarations have nothing to say of is found by its name.   *)
ASSUME ModulesAssumption ==
  \A m \in Modules :
    /\ m \in Seq(Range(m))
    /\ \A item \in Range(m) : item.kind = "Target" => item.targets \in Seq(Range(item.targets))
ASSUME BindingAssumption ==
  \A m \in Modules :
    LET nodes == Binding(m).nodes
    IN /\ nodes \in Seq(Range(nodes))
       /\ \A i, j \in DOMAIN nodes : i < j <=> IsStrictlyBefore(nodes[i].at, nodes[j].at)
       /\ Silent(m) =>
            \A n \in Range(nodes) :
              n.node.kind = "Label" =>
                Binding(m).symbols[NameIn(Binding(m), n.function, n.node.name)].at = n.at

(* What a phase says is a sequence, if the phases before it were silent, and *)
(* so are the parameters and the operands of a function that does not throw. *)
CallsSaySequences(m, index, calls) ==
  \A n \in calls : CallSays(Binding(m), n, index.signatures) \in Seq(STRING)
OperandsAreSequences(m, index, parts, instructions) ==
  /\ "parameter_declarations" \in DOMAIN parts
  /\ parts.parameter_declarations \in Seq(Range(parts.parameter_declarations))
  /\ \A n \in instructions :
       LET operands == OperandsIn(Binding(m), index.signatures, parts, n)
       IN operands \in Seq(Range(operands))
Throws(m, index, n) ==
  n.node.kind = "Call" /\ Contains(CallSays(Binding(m), n, index.signatures), "ResolveException")
FunctionIsOfSequences(m, index, f) ==
  LET resolved == {n \in Range(InstructionsOf(Binding(m), <<f>>)) :
                     n.node.kind = "Call" => CallResolves(m, Binding(m), n, index.tables)}
  IN /\ CallsSaySequences(m, index, {n \in resolved : n.node.kind = "Call"})
     /\ (\A n \in resolved : ~Throws(m, index, n)) =>
          OperandsAreSequences(m, index, PartsOf(m, Binding(m), index.signatures, f), resolved)
IndexSaysSequences(m, index) ==
  /\ index.said \in Seq(STRING)
  /\ index.said = <<>> =>
       \A f \in DOMAIN m : m[f].kind = "Function" => FunctionIsOfSequences(m, index, f)
StorageSaysSequences(m, resolved) ==
  /\ resolved.said \in Seq(STRING)
  /\ resolved.said = <<>> =>
       IndexSaysSequences(m, CallIndex(Binding(m), RecordsIn(resolved)))
ASSUME PhasesAssumption ==
  \A m \in Modules :
    /\ DeclarationsSay(m, Binding(m)) \in Seq(STRING)
    /\ Silent(m) => StorageSaysSequences(m, StorageOf(m, Binding(m)))

VARIABLES
  module,       \* the syntax module
  table,        \* what binding made of it
  phase,        \* the next phase
  storage,      \* the records of declared storage
  header,       \* the header's configuration
  call_tables,  \* the contracts of call tables
  signatures,   \* by symbol
  position,     \* the item at which the resolution of functions is
  functions,    \* the resolved functions
  diagnostics,
  outcome       \* "Running", "Module", "Rejected" or "Exception"

vars == <<module, table, phase, storage, header, call_tables, signatures, position, functions,
          diagnostics, outcome>>

-----------------------------------------------------------------------------
(* One function *)

HasBodyParameter(f) ==
  \E n \in Range(NodesOf(table, <<f>>, {"Variable"})) : n.node.space = "Parameter"

(* resolveInstruction() *)
resolveInstruction(n) ==
  CASE n.node.kind = "Call" -> CallResolves(module, table, n, call_tables)
    [] n.node.kind \in {"Load", "Store"} -> AccessResolves(table, n, storage)
    [] OTHER -> TRUE

(* An instruction without a resolution is left out, and said *)
InstructionSaysOfCalls(n) ==
  IF n.node.kind = "Call" /\ resolveInstruction(n) THEN CallSays(table, n, signatures) ELSE <<>>
InstructionSays(n) ==
  IF ~resolveInstruction(n) THEN <<"InvalidOperand">>
  ELSE IF n.node.kind = "Call" THEN CallSays(table, n, signatures) ELSE <<>>
BodySays(f) == Each(InstructionsOf(table, <<f>>), InstructionSays)

(* The offset of a label counts the instructions before it that resolved *)
KeptIn(f) == Each(InstructionsOf(table, <<f>>), LAMBDA n : When(resolveInstruction(n), n))
LabelPositions(labels, kept) ==
  [i \in DOMAIN labels |->
     [symbol |-> NameIn(table, labels[i].function, labels[i].node.name),
      instruction_offset |->
        Cardinality({k \in DOMAIN kept : IsStrictlyBefore(kept[k].at, labels[i].at)})]]
BodyOf(parts, kept) ==
  [i \in DOMAIN kept |->
     [node |-> kept[i], opcode |-> kept[i].node.kind,
      operands |-> OperandsIn(table, signatures, parts, kept[i])]]

ConfiguredFunction(f, region, parts, kept) ==
  [scope |-> <<f>>, range |-> <<f>>, region |-> region,
   version |-> header.regions[region].version,
   target |-> Nth(header.regions[region].targets, 1),
   body |-> BodyOf(parts, kept),
   label_positions |-> LabelPositions(NodesOf(table, <<f>>, {"Label"}), kept)]
WithParts(own, parts) ==
  [field \in DOMAIN own \cup DOMAIN parts |->
     IF field \in DOMAIN own THEN own[field] ELSE parts[field]]
RecordFrom(f, parts) ==
  WithParts(ConfiguredFunction(f, RegionAt(module, f), parts, KeptIn(f)), parts)
FunctionRecord(f) == RecordFrom(f, PartsOf(module, table, signatures, f))

-----------------------------------------------------------------------------
NoHeader == [invalid |-> 0, source_order |-> <<>>, regions |-> <<>>]

NoTable == [nodes |-> <<>>, declarations |-> <<>>, symbols |-> <<>>]

(* A call of resolveModuleOnly(): what the phases build on starts empty *)
Entered ==
  /\ table = NoTable /\ phase = "Declarations" /\ storage = <<>> /\ header = NoHeader
  /\ call_tables = <<>> /\ signatures = <<>> /\ position = 0 /\ functions = <<>>
  /\ diagnostics = <<>> /\ outcome = "Running"
EnterAgain ==
  /\ table' = NoTable /\ phase' = "Declarations" /\ storage' = <<>> /\ header' = NoHeader
  /\ call_tables' = <<>> /\ signatures' = <<>> /\ position' = 0 /\ functions' = <<>>
  /\ diagnostics' = <<>> /\ outcome' = "Running"

Stop(said, as) == phase' = "Done" /\ diagnostics' = said /\ outcome' = as
GoOn(next) == phase' = next /\ UNCHANGED <<diagnostics, outcome>>
Unless(said, next) == IF said = <<>> THEN GoOn(next) ELSE Stop(said, "Rejected")

(* Binding, and the rules of declarations whatever binding said *)
CheckDeclarations ==
  /\ phase = "Declarations"
  /\ table' = Binding(module)
  /\ Unless(DeclarationsSay(module, table'), "Storage")
  /\ UNCHANGED <<module, storage, header, call_tables, signatures, position, functions>>

Stored(resolved) == storage' = RecordsIn(resolved) /\ Unless(resolved.said, "Index")
ResolveStorage ==
  /\ phase = "Storage"
  /\ Stored(StorageOf(module, table))
  /\ UNCHANGED <<module, table, header, call_tables, signatures, position, functions>>

(* The header, and the signatures and tables that calls go by *)
CallsIndexed(index) ==
  /\ call_tables' = index.tables /\ signatures' = index.signatures
  /\ Unless(index.said, "Functions")
IndexCalls ==
  /\ phase = "Index"
  /\ header' = resolve_module_header(module)
  /\ CallsIndexed(CallIndex(table, storage))
  /\ UNCHANGED <<module, table, storage, position, functions>>

(* A kernel without a version leaves the role of its body .param open *)
LacksVersion(f) == module[f].is_entry /\ header.regions[1].version = None /\ HasBodyParameter(f)

Resolved(f, said) ==
  IF Contains(said, "ResolveException")
  THEN Stop(diagnostics, "Exception") /\ UNCHANGED functions
  ELSE /\ functions' = Append(functions, FunctionRecord(f))
       /\ diagnostics' = diagnostics \o said
       /\ UNCHANGED <<phase, outcome>>

(* What was said of the functions before is dropped if one lacks a version  *)
ResolveFunction ==
  /\ phase = "Functions" /\ position < Len(module)
  /\ position' = position + 1
  /\ IF module[position'].kind # "Function"
     THEN UNCHANGED <<phase, functions, diagnostics, outcome>>
     ELSE IF LacksVersion(position')
     THEN Stop(<<"MissingValidationContext">>, "Rejected") /\ UNCHANGED functions
     ELSE Resolved(position', BodySays(position'))
  /\ UNCHANGED <<module, table, storage, header, call_tables, signatures>>

(* All functions are resolved before any diagnostic of theirs counts *)
PublishAnyway ==
  /\ phase = "Functions" /\ position = Len(module)
  /\ GoOn("LegacySizes")
  /\ UNCHANGED <<module, table, storage, header, call_tables, signatures, position, functions>>
Publish ==
  /\ phase = "Functions" /\ position = Len(module)
  /\ Unless(diagnostics, "LegacySizes")
  /\ UNCHANGED <<module, table, storage, header, call_tables, signatures, position, functions>>

Artifacts == <<module, table, storage, header, call_tables, signatures, position, functions>>

Finish(said) == Stop(said, IF said = <<>> THEN "Module" ELSE "Rejected")

CheckLegacySizes ==
  /\ phase = "LegacySizes"
  /\ Unless(Each(functions, LAMBDA f : check_legacy_entry_input_sizes(table, f)), "Visibility")
  /\ UNCHANGED Artifacts

CheckVisibility ==
  /\ phase = "Visibility"
  /\ Unless(Each(functions, LAMBDA f : check_direct_call_visibility(table, f)), "Transfers")
  /\ UNCHANGED Artifacts

CheckTransfers ==
  /\ phase = "Transfers"
  /\ Finish(Each(functions, LAMBDA f : check_call_parameter_transfers(table, f, TRUE)))
  /\ UNCHANGED Artifacts

(* One phase, or one function of the phase of functions *)
Resolve == \/ CheckDeclarations \/ ResolveStorage \/ IndexCalls \/ ResolveFunction \/ Publish
           \/ CheckLegacySizes \/ CheckVisibility \/ CheckTransfers

(* A caller may resolve another module, or the same again *)
ResolveAgain(modules) == outcome # "Running" /\ module' \in modules /\ EnterAgain

ResolutionInit == module \in Modules /\ Entered
ResolutionNext == Resolve \/ ResolveAgain(Modules)
ResolutionSpec == ResolutionInit /\ [][ResolutionNext]_vars

-----------------------------------------------------------------------------
(* What the phases keep between them *)

Accepted == outcome = "Module"

(* The pipeline keeps the promise of Resolution: diagnostics of a function  *)
(* stay while later ones are resolved, a module that something was said of  *)
(* is not returned, and there is one outcome.                               *)
Promise == INSTANCE Resolution WITH said <- diagnostics, outcome <- outcome
KeepsPromise == Promise!Spec

(* A returned module has every function of the source, none has lost an     *)
(* instruction, and each label of the source has a position in the body     *)
(* that is where the source has it.                                         *)
NothingDropped ==
  Accepted =>
    /\ \A i \in DOMAIN module :
         module[i].kind = "Function" => \E f \in Range(functions) : f.scope = <<i>>
    /\ \A f \in Range(functions) :
         /\ [i \in DOMAIN f.body |-> f.body[i].node] = InstructionsOf(table, f.scope)
         /\ \A n \in Range(NodesOf(table, f.scope, {"Label"})) :
              \E l \in Range(f.label_positions) : table.symbols[l.symbol].at = n.at
         /\ \A l \in Range(f.label_positions) : \A i \in DOMAIN f.body :
              i > l.instruction_offset
                <=> IsStrictlyBefore(table.symbols[l.symbol].at, f.body[i].node.at)

(* The version and the target that the rules of declarations went by are    *)
(* those that the header gives a function, if no directive is invalid.      *)
OneConfiguration ==
  Accepted /\ header.invalid = 0 =>
    \A f \in Range(functions) :
      LET written == DirectivesUpTo(module, f.scope[1], "Target")
          targets == header.regions[f.region].targets
      IN /\ f.version = modulePtxVersion(module)
         /\ targets = IF written = {} THEN <<>> ELSE module[Max(written)].targets
         /\ ActiveTarget(module, f.scope[1]) # None =>
              LET profile == find_target_profile(targets[1])
              IN profile # None /\ profile[1].architecture = ActiveTarget(module, f.scope[1])[1]
=============================================================================
