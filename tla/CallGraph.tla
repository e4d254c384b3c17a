----------------------------- MODULE CallGraph -----------------------------
(***************************************************************************)
(* analyze_call_cycles() of submod/resolved_ir/src/ptx_call_graph.hpp: the  *)
(* functions of a module become vertices, its calls edges, and a call on a  *)
(* cycle is reported as recursive, or as possibly recursive.  The search    *)
(* for components is taken at its promise, ComponentsAreMutual, which       *)
(* ComponentSearchProofs proves of components().                            *)
(***************************************************************************)
EXTENDS Integers, Sequences, Reachability

CONSTANTS
  Modules,        \* the resolved modules to analyze
  EntrySignature  \* the signature that says is_entry

VARIABLES
  module,       \* what is analyzed: symbols, functions and call tables
  pc, at, call, \* the loop that runs, its function, and its instruction
  definitions,  \* canonical functions to vertices
  owners,       \* the function of each vertex
  signatures,   \* canonical functions to signatures
  finite,       \* the candidates of the lists and tables consumed so far
  edges,        \* as a set: a repeated edge only repeats a diagnostic, which
                \* append_minimum_requirement() emits once
  has_open_boundaries, diagnostics, recursive_calls  \* the result

graph == <<definitions, owners, signatures>>
vars == <<module, pc, at, call, definitions, owners, signatures, finite, edges,
          has_open_boundaries, diagnostics, recursive_calls>>

Symbols == module.symbols
Functions == module.functions
Function == Functions[at]
Call == Function.body[call]

None == "none"

(* No symbol of a resolved module is None, not even one that its owner has   *)
(* edited: what a record lacks, it holds no identity for.                   *)
ASSUME ModulesAssumption ==
  \A m \in Modules :
    /\ None \notin DOMAIN m.symbols
    /\ Len(m.functions) \in Nat /\ DOMAIN m.functions = 1 .. Len(m.functions)
    /\ \A i \in DOMAIN m.functions :
         /\ m.functions[i].is_entry \in BOOLEAN /\ m.functions[i].is_prototype \in BOOLEAN
         /\ Len(m.functions[i].body) \in Nat
         /\ DOMAIN m.functions[i].body = 1 .. Len(m.functions[i].body)
         /\ \A j \in DOMAIN m.functions[i].body :
              /\ m.functions[i].body[j].indirect \in BOOLEAN
              /\ m.functions[i].body[j].ranged \in BOOLEAN
         /\ \A k \in DOMAIN m.functions[i].call_target_sets :
              m.functions[i].call_target_sets[k].symbol # None
    /\ DOMAIN m.call_tables \subseteq Nat
    /\ \A k \in DOMAIN m.call_tables : m.call_tables[k].symbol # None

Init ==
  /\ module \in Modules
  /\ pc = "Functions" /\ at = 1 /\ call = 1
  /\ definitions = <<>> /\ owners = <<>> /\ signatures = <<>>
  /\ finite = <<>> /\ edges = {}
  /\ has_open_boundaries = FALSE /\ diagnostics = <<>> /\ recursive_calls = {}

(* A map's emplace: a key that is there keeps its value. *)
emplace(map, key, value) ==
  [k \in DOMAIN map \cup {key} |-> IF k \in DOMAIN map THEN map[k] ELSE value]

Report(what) == diagnostics' = Append(diagnostics, what)

IsDevice(id) ==
  id \in DOMAIN Symbols /\ Symbols[id].kind = "Function" /\ ~Symbols[id].is_entry

(* A symbol's canonical is itself, or the function that it is an alias of. *)
canonical(id) ==
  IF IsDevice(id) /\ IsDevice(Symbols[id].canonical) THEN Symbols[id].canonical ELSE None

-----------------------------------------------------------------------------
(* Functions become vertices *)

Identified(function) ==
  /\ canonical(function.symbol) = function.canonical_function
  /\ function.canonical_function # None
  /\ function.signature # EntrySignature

NextFunction == at' = at + 1 /\ call' = 1

RegisterEntry ==
  /\ pc = "Functions" /\ at <= Len(Functions) /\ Function.is_entry
  /\ NextFunction
  /\ UNCHANGED <<module, pc, graph, finite, edges, has_open_boundaries, diagnostics,
                 recursive_calls>>

RegisterInvalid ==
  /\ pc = "Functions" /\ at <= Len(Functions) /\ ~Function.is_entry
  /\ ~Identified(Function)
  /\ Report("invalid canonical identity")
  /\ NextFunction
  /\ UNCHANGED <<module, pc, graph, finite, edges, has_open_boundaries, recursive_calls>>

(* What registering a function says about the ones before it *)
Disagreement(key) ==
  IF key \in DOMAIN signatures /\ signatures[key] # Function.signature
  THEN <<"signatures disagree">> ELSE <<>>
Duplicate(key) ==
  IF ~Function.is_prototype /\ key \in DOMAIN definitions
  THEN <<"two local definitions">> ELSE <<>>

NewVertexLast == Len(owners)
NewVertex == Len(owners) + 1

Register ==
  /\ pc = "Functions" /\ at <= Len(Functions) /\ ~Function.is_entry
  /\ Identified(Function)
  /\ LET key == Function.canonical_function
     IN /\ signatures' = emplace(signatures, key, Function.signature)
        /\ diagnostics' = diagnostics \o Disagreement(key) \o Duplicate(key)
        /\ IF ~Function.is_prototype /\ key \notin DOMAIN definitions
           THEN /\ definitions' = emplace(definitions, key, NewVertex)
                /\ owners' = Append(owners, at)
           ELSE UNCHANGED <<definitions, owners>>
  /\ NextFunction
  /\ UNCHANGED <<module, pc, finite, edges, has_open_boundaries, recursive_calls>>

Registered ==
  /\ pc = "Functions" /\ at > Len(Functions)
  /\ pc' = "Calls" /\ at' = 1 /\ call' = 1
  /\ UNCHANGED <<module, graph, finite, edges, has_open_boundaries, diagnostics,
                 recursive_calls>>

-----------------------------------------------------------------------------
(* What a call may invoke *)

Sets == UNION {{[owner |-> i, set |-> Functions[i].call_target_sets[k], index |-> k] :
                  k \in DOMAIN Functions[i].call_target_sets} : i \in DOMAIN Functions}
Lists(id) == {s \in Sets : s.set.symbol = id}
Tables(id) == {k \in DOMAIN module.call_tables : module.call_tables[k].symbol = id}
First(id) == CHOOSE k \in Tables(id) : \A l \in Tables(id) : k <= l
FirstTable(id) == module.call_tables[First(id)]

(* hasPriorDeclaration(id, use): declared is the first function item that id *)
(* is visible in, use the item that the use of a list stands in, each Unknown*)
(* when its order is not known: only TRUE of the three answers counts.       *)
Unknown == 0
hasPriorDeclarationLate(id, use) == Symbols[id].declared # Unknown
hasPriorDeclaration(id, use) ==
  Symbols[id].declared # Unknown /\ use # Unknown /\ Symbols[id].declared <= use

(* bound stands for the two joins of a target's text: its name finds its    *)
(* symbol in the module's scope, and its range lies inside the list's.       *)
ListTargetValid(list, target, use) ==
  LET key == canonical(target.symbol)
  IN /\ key # None /\ key = target.canonical_function
     /\ target.bound
     /\ key \in DOMAIN signatures /\ signatures[key] = list.signature
     /\ hasPriorDeclaration(target.symbol, use)

SlotValid(table, slot) ==
  LET key == canonical(slot.symbol)
  IN /\ key # None /\ key = slot.canonical_function
     /\ key \in DOMAIN signatures /\ signatures[key] = table.signature

Keys(members) == {canonical(members[k].symbol) : k \in DOMAIN members}

Failed(why) == [ok |-> FALSE, why |-> why, values |-> {}]
Found(values) == [ok |-> TRUE, why |-> <<>>, values |-> values]

(* candidates(id, use): the lambda of the code, without its memo *)
Looked(id, use) ==
  IF Lists(id) # {} THEN
    IF \E s, t \in Lists(id) : s # t THEN Failed(<<"ambiguous list">>)
    ELSE LET list == (CHOOSE s \in Lists(id) : TRUE).set
         IN IF \A k \in DOMAIN list.targets : ListTargetValid(list, list.targets[k], use)
            THEN Found(Keys(list.targets)) ELSE Failed(<<"list target disagrees">>)
  ELSE IF Tables(id) # {} THEN
    LET table == FirstTable(id)
    IN IF \A k \in DOMAIN table.slots : SlotValid(table, table.slots[k])
       THEN Found(Keys(table.slots)) ELSE Failed(<<"table slot disagrees">>)
  ELSE IF id \in DOMAIN Symbols /\ Symbols[id].kind = "CallPrototype"
       THEN Failed(<<>>) ELSE Failed(<<"no contract">>)

candidates(id, use) == IF id \in DOMAIN finite THEN Found(finite[id]) ELSE Looked(id, use)

(* add(target, candidate) for each target *)
Local == ~Function.is_entry /\ Function.canonical_function \in DOMAIN definitions

EdgesTo(targets, candidate) ==
  IF Local
  THEN {[from |-> definitions[Function.canonical_function], to |-> definitions[t],
         range |-> <<at, call>>, candidate |-> candidate] :
          t \in targets \cap DOMAIN definitions}
  ELSE {}
LeavesNever(targets) == FALSE
Leaves(targets) == ~(targets \subseteq DOMAIN definitions)

Add(targets, candidate) ==
  /\ edges' = edges \cup EdgesTo(targets, candidate)
  /\ has_open_boundaries' = (has_open_boundaries \/ Leaves(targets))

-----------------------------------------------------------------------------
(* Calls become edges *)

AtCall ==
  /\ pc = "Calls" /\ at <= Len(Functions) /\ ~Function.is_prototype
  /\ call <= Len(Function.body)

NextCall == call' = call + 1 /\ UNCHANGED at

SkipFunction ==
  /\ pc = "Calls" /\ at <= Len(Functions)
  /\ Function.is_prototype \/ call > Len(Function.body)
  /\ NextFunction
  /\ UNCHANGED <<module, pc, graph, finite, edges, has_open_boundaries, diagnostics,
                 recursive_calls>>

(* A call holds the functions it names (direct), whether it is indirect, the *)
(* list, table or prototype it names (metadata) and where (use), and whether *)
(* it has a range.                                                           *)
CallUnplaced ==
  /\ AtCall /\ ~Call.ranged
  /\ Report("no owned source range")
  /\ NextCall
  /\ UNCHANGED <<module, pc, graph, finite, edges, has_open_boundaries, recursive_calls>>

CallDirect ==
  /\ AtCall /\ Call.ranged /\ Len(Call.direct) = 1 /\ ~Call.indirect
  /\ LET target == canonical(Call.direct[1])
     IN IF target # None
        THEN Add({target}, FALSE) /\ UNCHANGED diagnostics
        ELSE Report("invalid direct target") /\ UNCHANGED <<edges, has_open_boundaries>>
  /\ NextCall
  /\ UNCHANGED <<module, pc, graph, finite, recursive_calls>>

CallOpen ==
  /\ AtCall /\ Call.ranged /\ Len(Call.direct) = 0 /\ Call.indirect
  /\ Call.metadata = None
  /\ has_open_boundaries' = TRUE
  /\ NextCall
  /\ UNCHANGED <<module, pc, graph, finite, edges, diagnostics, recursive_calls>>

CandidateEdgesExact == FALSE
CandidateEdges == TRUE

CallCandidates ==
  /\ AtCall /\ Call.ranged /\ Len(Call.direct) = 0 /\ Call.indirect
  /\ Call.metadata # None
  /\ LET found == candidates(Call.metadata, Call.use)
     IN IF found.ok
        THEN /\ Add(found.values, CandidateEdges)
             /\ finite' = emplace(finite, Call.metadata, found.values)
             /\ UNCHANGED diagnostics
        ELSE /\ diagnostics' = diagnostics \o found.why
             /\ has_open_boundaries' = TRUE
             /\ UNCHANGED <<finite, edges>>
  /\ NextCall
  /\ UNCHANGED <<module, pc, graph, recursive_calls>>

CallMalformed ==
  /\ AtCall /\ Call.ranged
  /\ ~(Len(Call.direct) = 1 /\ ~Call.indirect) /\ ~(Len(Call.direct) = 0 /\ Call.indirect)
  /\ Report("no valid target layout")
  /\ NextCall
  /\ UNCHANGED <<module, pc, graph, finite, edges, has_open_boundaries, recursive_calls>>

-----------------------------------------------------------------------------
Vertices == 1 .. Len(owners)
Followed(direct_only) ==
  {<<e.from, e.to>> : e \in {d \in edges : ~direct_only \/ ~d.candidate}}

(* components(): ComponentsAreMutual makes an identity as good as its class. *)
Components(direct_only) ==
  [u \in Vertices |-> {v \in Vertices : Mutual(Vertices, Followed(direct_only), u, v)}]

OnComponentOthers(edge, all) == edge.from # edge.to /\ all[edge.from] = all[edge.to]
OnComponent(edge, all) == all[edge.from] = all[edge.to]

Witnesses(all, direct) ==
  {[function |-> owners[e.from], range |-> e.range,
    possible |-> e.candidate \/ direct[e.from] # direct[e.to]] :
     e \in {d \in edges : OnComponent(d, all)}}

Refuse ==
  /\ pc = "Calls" /\ at > Len(Functions) /\ diagnostics # <<>>
  /\ pc' = "Done"
  /\ UNCHANGED <<module, at, call, graph, finite, edges, has_open_boundaries, diagnostics,
                 recursive_calls>>

Classify ==
  /\ pc = "Calls" /\ at > Len(Functions) /\ diagnostics = <<>>
  /\ recursive_calls' = Witnesses(Components(FALSE), Components(TRUE))
  /\ pc' = "Done"
  /\ UNCHANGED <<module, at, call, graph, finite, edges, has_open_boundaries, diagnostics>>

(* The call has returned. *)
Returned == pc = "Done" /\ UNCHANGED vars

Next ==
  \/ RegisterEntry \/ RegisterInvalid \/ Register \/ Registered
  \/ SkipFunction \/ CallUnplaced \/ CallDirect \/ CallOpen \/ CallCandidates
  \/ CallMalformed \/ Refuse \/ Classify \/ Returned

Spec == Init /\ [][Next]_vars

-----------------------------------------------------------------------------
TypeOK ==
  /\ pc \in {"Functions", "Calls", "Done"}
  /\ at \in 1 .. Len(Functions) + 1 /\ call \in Nat \ {0}
  /\ owners \in Seq(DOMAIN Functions)
  /\ definitions \in [DOMAIN definitions -> Vertices]
  /\ DOMAIN definitions \subseteq DOMAIN signatures /\ DOMAIN signatures \subseteq DOMAIN Symbols
  /\ edges \subseteq [from : Vertices, to : Vertices, range : Nat \X Nat, candidate : BOOLEAN]
  /\ has_open_boundaries \in BOOLEAN /\ diagnostics \in Seq(STRING)
  /\ recursive_calls \subseteq
       [function : DOMAIN Functions, range : Nat \X Nat, possible : BOOLEAN]

(* The module, without the analysis: which functions it defines, and what   *)
(* each of its calls may invoke.                                            *)
Defines(function) == ~function.is_entry /\ ~function.is_prototype
Definitions == {i \in DOMAIN Functions : Defines(Functions[i])}
DefinedKeys == {Functions[i].canonical_function : i \in Definitions}

MayInvoke(c) ==
  IF ~c.indirect THEN {canonical(c.direct[1])}
  ELSE IF Lists(c.metadata) # {} THEN UNION {Keys(s.set.targets) : s \in Lists(c.metadata)}
  ELSE IF Tables(c.metadata) # {} THEN Keys(FirstTable(c.metadata).slots)
  ELSE {}

Places(i) == DOMAIN Functions[i].body

Invokes(direct_only) ==
  UNION {UNION {{<<Functions[i].canonical_function, t>> :
                   t \in MayInvoke(Functions[i].body[j])} :
                  j \in {k \in Places(i) : direct_only => ~Functions[i].body[k].indirect}} :
           i \in Definitions}

(* The call returns to its own function: directly, or through others. *)
OnCycle(i, j, direct_only) ==
  \E t \in MayInvoke(Functions[i].body[j]) \cap DefinedKeys :
    Reaches(DefinedKeys, Invokes(direct_only), t, Functions[i].canonical_function)

Accepted == pc = "Done" /\ diagnostics = <<>>

(* A call is reported exactly when it lies on a cycle of the module's local *)
(* definitions, whatever prototypes, aliases, lists and tables it goes      *)
(* through: lines 14 to 31 and 306 to 312.                                  *)
ReportsAreCycles ==
  Accepted =>
    {<<w.function, w.range>> : w \in recursive_calls} =
    UNION {{<<i, <<i, j>>>> : j \in {k \in Places(i) : OnCycle(i, k, FALSE)}} :
             i \in Definitions}

(* Recursion is certain, not only possible, exactly when direct calls alone *)
(* close a cycle through the call (line 17).                                *)
CertainIsDirect ==
  Accepted =>
    \A w \in recursive_calls :
      LET j == w.range[2]
      IN ~w.possible <=> /\ ~Functions[w.function].body[j].indirect
                         /\ OnCycle(w.function, j, TRUE)

(* The module says that it may call what it does not define whenever some   *)
(* body may, a kernel's included, and never otherwise (line 24).            *)
OpenIsOpen ==
  Accepted =>
    (has_open_boundaries <=>
       \E i \in DOMAIN Functions : ~Functions[i].is_prototype /\
         \E j \in Places(i) :
           LET c == Functions[i].body[j]
           IN \/ c.indirect /\ Lists(c.metadata) = {} /\ Tables(c.metadata) = {}
              \/ ~(MayInvoke(c) \subseteq DefinedKeys))

(* What the module must satisfy for its calls to mean anything *)
VisibleFrom(use, id) ==
  Symbols[id].declared # Unknown /\ use # Unknown /\ Symbols[id].declared <= use

Signed(key, signature) ==
  \E k \in DOMAIN Functions : /\ ~Functions[k].is_entry
                              /\ Functions[k].canonical_function = key
                              /\ Functions[k].signature = signature

ListMeans(list) ==
  \A k \in DOMAIN list.targets :
    LET target == list.targets[k]
    IN /\ target.bound /\ target.canonical_function = canonical(target.symbol)
       /\ Signed(target.canonical_function, list.signature)

ListSeen(list, use) ==
  \A k \in DOMAIN list.targets : VisibleFrom(use, list.targets[k].symbol)

TableMeans(table) ==
  \A n \in DOMAIN table.slots :
    /\ table.slots[n].canonical_function = canonical(table.slots[n].symbol)
    /\ Signed(table.slots[n].canonical_function, table.signature)

(* What an indirect call names: nothing, one list, else a table, else a      *)
(* prototype                                                                 *)
ContractMeans(id) ==
  \/ id = None
  \/ /\ Lists(id) # {}
     /\ \A s, t \in Lists(id) : s = t
     /\ \A s \in Lists(id) : ListMeans(s.set)
  \/ Lists(id) = {} /\ Tables(id) # {} /\ TableMeans(FirstTable(id))
  \/ /\ Lists(id) = {} /\ Tables(id) = {}
     /\ id \in DOMAIN Symbols /\ Symbols[id].kind = "CallPrototype"

(* The first call of the module that names its contract *)
Contracted(i, j, id) == Functions[i].body[j].indirect /\ Functions[i].body[j].metadata = id

Leads(i, j) ==
  \A k \in 1 .. i : ~Functions[k].is_prototype =>
    \A l \in Places(k) :
      k < i \/ l < j => ~Contracted(k, l, Functions[i].body[j].metadata)

(* The targets of a list stand before the first use of the list: what a later*)
(* use says is served from the memo, and its order is never asked for.       *)
Sees(i, j) ==
  LET c == Functions[i].body[j]
  IN Leads(i, j) => \A s \in Lists(c.metadata) : ListSeen(s.set, c.use)

Meaningful(i, j) ==
  LET c == Functions[i].body[j]
  IN /\ c.ranged
     /\ Len(c.direct) = IF c.indirect THEN 0 ELSE 1
     /\ None \notin MayInvoke(c)
     /\ c.indirect => ContractMeans(c.metadata) /\ Sees(i, j)

Consistent ==
  /\ \A i \in DOMAIN Functions : ~Functions[i].is_entry => Identified(Functions[i])
  /\ \A i, j \in DOMAIN Functions :
       ~Functions[i].is_entry /\ ~Functions[j].is_entry
         /\ Functions[i].canonical_function = Functions[j].canonical_function
       => /\ Functions[i].signature = Functions[j].signature
          /\ Defines(Functions[i]) /\ Defines(Functions[j]) => i = j
  /\ \A i \in DOMAIN Functions : ~Functions[i].is_prototype =>
       \A j \in Places(i) : Meaningful(i, j)

(* No recursion is reported of a module whose joins are broken, and every   *)
(* broken join of a call is noticed, one served from the memo included, but *)
(* for the order of a use that is not the first of its list (Sees; lines 25 *)
(* and 305).                                                                *)
OnlyConsistent ==
  pc = "Done" => /\ diagnostics = <<>> <=> Consistent
                 /\ recursive_calls # {} => Consistent
=============================================================================
