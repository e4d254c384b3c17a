--------------------------- MODULE ResolvedModules ---------------------------
(***************************************************************************)
(* The phases of ModulePipeline as the other modules compute them, and what *)
(* a module that resolveModuleOnly() returns promises to its readers,       *)
(* stated from the syntax module and the published records and without the  *)
(* operators by which the phases decide.                                    *)
(***************************************************************************)
EXTENDS ModulePipeline, OwnedModule

(* Binding speaks first, then the rules of declarations *)
bind_and_check(syntax, symbols) == bindSymbols(symbols) \o checkDeclarations(syntax, symbols)

(* The signatures of functions and prototypes, and then of tables *)
AfterTables(known, built) ==
  [tables |-> built.tables, said |-> built.said, signatures |-> WithTables(known, built.tables)]
WithMetadata(symbols, declared) ==
  declared @@ index_function_metadata_signatures(symbols, declared)
TablesAmong(symbols, records, known) ==
  AfterTables(known, index_call_tables(symbols, records, known))
index_calls(symbols, records) ==
  TablesAmong(symbols, records, WithMetadata(symbols, FunctionSignatures(symbols)))

-----------------------------------------------------------------------------
Calls == {n \in Range(table.nodes) : n.node.kind = "Call"}
SymbolOf(n, name) == table.symbols[lookup(table, n.scope, name)]
NamedArguments(n) ==
  {a \in Range(FlattenSeq(n.node.returns \o n.node.inputs)) : a.form # "Literal"}

(* Only a register of the module as an argument of a call makes the         *)
(* resolution throw: no other module that the rules of declarations accept  *)
(* reaches a throw of check_call_abi().                                     *)
OnlyRegistersThrow ==
  outcome = "Exception" =>
    \E n \in Calls : \E a \in NamedArguments(n) :
      SymbolOf(n, a.name).scope = <<>> /\ SymbolOf(n, a.name).space = "Register"

(* No module makes the resolution throw, as the comment of ResolveException *)
(* says.                                                                    *)
NeverThrows == outcome # "Exception"

-----------------------------------------------------------------------------
(* The elements of an initializer lie in the object, each at a multiple of  *)
(* its size and none on another.                                            *)
InitializersInside ==
  \A r \in Range(storage) :
    LET bytes == scalar_size_of(r.type)
        offsets == [i \in DOMAIN r.initializer |-> r.initializer[i].byte_offset]
    IN /\ \A i \in DOMAIN offsets : offsets[i] % bytes = 0 /\ offsets[i] + bytes <= r.byte_extent[1]
       /\ \A i, j \in DOMAIN offsets : i < j => offsets[i] + bytes <= offsets[j]

-----------------------------------------------------------------------------
(* Calls *)

ItemNamed(name) == CHOOSE i \in DOMAIN module : module[i].kind = "Function" /\ module[i].name = name
DeclaredFirst(name, at) ==
  \E i \in 1 .. at - 1 : module[i].kind = "Function" /\ module[i].name = name

(* The functions that a call may reach *)
Reaches(n) ==
  LET metadata == SymbolOf(n, n.node.metadata[1])
      list == {m \in Range(table.nodes) : m.at = metadata.at}
  IN IF n.node.metadata = None THEN {SymbolOf(n, n.node.target).name}
     ELSE CASE metadata.kind = "CallPrototype" -> {}
            [] metadata.kind = "CallTargets" -> UNION {Range(m.node.targets) : m \in list}
            [] metadata.kind = "Variable" ->
                 {table.symbols[s.canonical_function].name : s \in UNION {Range(t.slots) :
                    t \in {t \in Range(call_tables) : table.symbols[t.symbol] = metadata}}}

(* The function itself, if a name is an alias of it *)
Aliased(name) ==
  LET aliases == {item \in Range(module) : item.kind = "Alias" /\ item.alias = name}
  IN IF aliases = {} THEN name ELSE (CHOOSE item \in aliases : TRUE).aliasee

TakesArguments(n, arguments, formals) ==
  LET given == IF arguments = None THEN <<>> ELSE arguments[1]
      Element(a) == IF a.form = "Member" THEN 1 ELSE Lanes(SymbolOf(n, a.name).vector)
  IN /\ Len(given) \in {Len(formals), Len(formals) - 1}
     /\ Len(given) < Len(formals) => Last(formals).dimensions = <<None>>
     /\ \A i \in DOMAIN given :
          given[i].form # "Literal" =>
            /\ SymbolOf(n, given[i].name).type = formals[i].type
            /\ Element(given[i]) = Lanes(formals[i].vector)
            /\ formals[i].dimensions # <<>> =>
                 SymbolOf(n, given[i].name).is_array /\ SymbolOf(n, given[i].name).space = "Parameter"

(* Whatever function a returned module's call reaches, by its name, an      *)
(* alias, a list or a table, takes the arguments of the call.               *)
CalleesTakeArguments ==
  Accepted =>
    \A n \in Calls : \A name \in Reaches(n) :
      LET callee == module[ItemNamed(Aliased(name))]
      IN /\ TakesArguments(n, n.node.returns, callee.returns)
         /\ TakesArguments(n, n.node.inputs, callee.parameters)
         /\ ~callee.is_entry

(* A returned module names no function and no table before it declares it,  *)
(* in a call or in a table that a call goes through, and a list of branch   *)
(* targets has labels of its function only.                                 *)
DeclaredBeforeUse ==
  Accepted =>
    /\ \A f \in Range(functions) : \A list \in Range(f.branch_target_sets) :
         \A target \in Range(list.targets) :
           \E l \in Range(f.label_positions) : l.symbol = target.symbol
    /\ \A n \in Calls : n.node.metadata = None => DeclaredFirst(n.node.target, n.at[1] + 1)
    /\ \A t \in Range(call_tables) :
         \E i \in DOMAIN module :
           /\ module[i].kind = "Variable"
           /\ \E d \in Range(module[i].declarators) : d.name = table.symbols[t.symbol].name
           /\ \A s \in Range(t.slots) : DeclaredFirst(table.symbols[s.canonical_function].name, i)
           /\ \A n \in Calls :
                n.node.metadata = <<table.symbols[t.symbol].name>> =>
                  \E j \in 1 .. n.at[1] : module[j].kind = "Variable"
                    /\ \E d \in Range(module[j].declarators) : d.name = n.node.metadata[1]

-----------------------------------------------------------------------------
(* .param objects *)

(* The instructions of a function that move a .param object of its own *)
LocalMoves(source, kind) ==
  {i \in DOMAIN source :
     /\ source[i].node.kind = kind /\ source[i].node.space = "Parameter"
     /\ SymbolOf(source[i], source[i].node.base).kind = "CallParameter"}

SameObject(n, a, m) ==
  n.node.base = a.name /\ SymbolOf(n, n.node.base) = SymbolOf(m, a.name)

(* In a returned module a .param object is stored without a predicate, and  *)
(* nothing but such stores stands before the call that takes it; it is      *)
(* loaded with nothing but such loads after the call that gave it.          *)
TransfersFollowProtocol ==
  Accepted =>
    \A f \in {f \in Range(functions) : ~(f.is_entry /\ Below(f.version, 14))} :
      LET source == InstructionsOf(table, f.scope)
          stores == LocalMoves(source, "Store")
          loads == LocalMoves(source, "Load")
          Takes(c, arguments, n) ==
            /\ source[c].node.kind = "Call" /\ arguments # None
            /\ \E a \in Range(arguments[1]) : a.form # "Literal" /\ SameObject(n, a, source[c])
      IN /\ \A i \in stores : /\ source[i].node.predicate = None
              /\ \E c \in i .. Len(source) : /\ i .. c - 1 \subseteq stores
                                             /\ Takes(c, source[c].node.inputs, source[i])
         /\ \A i \in loads : /\ source[i].node.predicate = None
              /\ \E c \in 1 .. i : /\ c + 1 .. i \subseteq loads
                                   /\ Takes(c, source[c].node.returns, source[i])

Bytes(declared, dimensions) ==
  FoldLeft(LAMBDA b, d : b * constantArrayExtent(d[1])[1],
           scalar_size_of(declared.type) * Lanes(declared.vector), dimensions)

(* The parameters of a kernel that is returned fit: those of its header     *)
(* into what its version allows, those of an early body into the ceiling,   *)
(* each sum exact where the code adds in 64 bits.                           *)
KernelInputsFit ==
  Accepted =>
    \A f \in {f \in Range(functions) : f.is_entry /\ f.version # None} :
      LET formals == SelectSeq(module[f.scope[1]].parameters, LAMBDA p : p.type \notin OpaqueTypes)
          bodies == {n \in Range(table.nodes) : /\ n.function = f.scope
                       /\ n.node.kind = "Variable" /\ n.node.space = "Parameter"}
          Members(d) == IF d.count = None THEN 1 ELSE d.count[1].value
          OfNode(n) == MapThenSumSet(LAMBDA k : Members(n.node.declarators[k])
                                       * Bytes(n.node, n.node.declarators[k].dimensions),
                                     DOMAIN n.node.declarators)
      IN /\ FoldLeft(LAMBDA sum, p : sum + Bytes(p, p.dimensions), 0, formals)
              <= EntryLimit(f.version[1])
         /\ Below(f.version, 14) => MapThenSumSet(OfNode, bodies) <= LegacyCeiling
=============================================================================
