---------------------------- MODULE SymbolTable ----------------------------
(***************************************************************************)
(* SymbolTableBuilder::build() of submod/binding/src/ptx_symbol_table.cpp:  *)
(* five passes over a module that index the order of its events, collect    *)
(* its declarations, add its aliases, and bind the references of variables  *)
(* and of functions.  A module is the sequence of its events in the order   *)
(* in which every pass visits them; a module item begins at an event of     *)
(* ItemKinds and ends where the next begins.  Names are ordinary ones:      *)
(* SymbolNames shows what a scope makes of groups.                          *)
(***************************************************************************)
EXTENDS Integers, Sequences, FiniteSets, FiniteSetsExt

CONSTANTS
  Names, Ranges,
  Texts   \* the modules, in which a range may stand more than once

VARIABLES
  text,
  pass, at,                \* the pass, and the event that it handles next
  source_orders, ambiguous_source_orders, next_source_order,
  scopes, symbols, declaration_occurrences, functions,
  function_scope, lexical_scope,   \* arguments of collectBody() and bindBody()
  references, diagnostics

vars == <<text, pass, at, source_orders, ambiguous_source_orders, next_source_order,
          scopes, symbols, declaration_occurrences, functions,
          function_scope, lexical_scope, references, diagnostics>>

order_vars == <<source_orders, ambiguous_source_orders, next_source_order>>
table_vars == <<scopes, symbols, declaration_occurrences, functions>>
walk_vars  == <<function_scope, lexical_scope>>

-----------------------------------------------------------------------------
(* Events *)

FunctionKinds == {"Prototype", "Definition"}
ItemKinds == FunctionKinds \cup {"Variable", "Alias"}

(* Declared in the scope of the function, in whatever block they stand.      *)
(* Prototypes and target lists of calls are collected as labels are.          *)
FunctionWide == {"Parameter", "Label", "BranchTargets"}

ReferenceKinds == {"Initializer", "InstructionOperand", "CallTarget",
                   "BranchTarget", "BranchTargetSet"}

EventKinds == ItemKinds \cup FunctionWide \cup ReferenceKinds \cup {"Local", "Open", "Close"}

(* other is the aliasee of an Alias *)
Events == [kind : EventKinds, name : Names, other : Names, range : Ranges]

(* The module item that an event is part of *)
ItemIn(events, i) == Max({j \in 1 .. i : events[j].kind \in ItemKinds})

Opens(events, i, j) == Cardinality({k \in i .. j : events[k].kind = "Open"})
Closes(events, i, j) == Cardinality({k \in i .. j : events[k].kind = "Close"})

(* The blocks of its item that are open where an event stands *)
BlocksAround(events, i) ==
  {j \in ItemIn(events, i) .. i - 1 :
     /\ events[j].kind = "Open"
     /\ \A k \in j .. i - 1 : Opens(events, j, k) > Closes(events, j, k)}

(* A module is read off a tree: what belongs to a function stands in one,    *)
(* and a block that ends has begun.                                          *)
WellNested(events) ==
  /\ events # <<>> => events[1].kind \in ItemKinds
  /\ \A i \in DOMAIN events :
       /\ events[i].kind \in FunctionWide \cup {"Local", "Open", "Close"}
            => events[ItemIn(events, i)].kind \in FunctionKinds
       /\ events[i].kind = "Close" => BlocksAround(events, i) # {}

ASSUME TextsAssumption == Texts \subseteq Seq(Events) /\ \A t \in Texts : WellNested(t)

Positions == DOMAIN text

Item(i) == ItemIn(text, i)

InFunction(i) == text[Item(i)].kind \in FunctionKinds

(* What indexSourceOrder() records: neither parameters nor labels, and of    *)
(* the references only those whose visibility depends on the order.          *)
OrderedKinds == FunctionKinds \cup {"Variable", "Local", "BranchTargets", "Initializer",
                                    "CallTarget", "BranchTargetSet"}

Handles(p, i) ==
  CASE p = "index"         -> text[i].kind \in OrderedKinds
    [] p = "collect"       -> text[i].kind \notin ReferenceKinds \cup {"Alias"}
    [] p = "alias"         -> text[i].kind = "Alias"
    [] p = "bindModule"    -> text[i].kind \in ReferenceKinds /\ ~InFunction(i)
    [] p = "bindFunctions" -> \/ text[i].kind \in FunctionKinds \cup {"Open", "Close"}
                              \/ text[i].kind \in ReferenceKinds /\ InFunction(i)

Passes == <<"index", "collect", "alias", "bindModule", "bindFunctions">>
After(p) == IF p = "bindFunctions" THEN "done"
            ELSE Passes[1 + CHOOSE i \in DOMAIN Passes : Passes[i] = p]

(* The next event that a pass handles, or the end *)
Following(p, i) ==
  IF p = "done" THEN 1
  ELSE Min({j \in i .. Len(text) : Handles(p, j)} \cup {Len(text) + 1})

event == text[at]
Working(p) == pass = p /\ at <= Len(text)
Advance == at' = Following(pass, at + 1) /\ UNCHANGED <<text, pass>>

-----------------------------------------------------------------------------
ModuleScope == 1
NoScope == 0
NoSymbol == 0
Unknown == -1

Init ==
  /\ text \in Texts
  /\ pass = "index" /\ at = Following("index", 1)
  /\ source_orders = <<>> /\ ambiguous_source_orders = {} /\ next_source_order = 0
  /\ scopes = <<[kind |-> "Module", parent |-> NoScope, at |-> 0]>>
  /\ symbols = <<>> /\ declaration_occurrences = <<>> /\ functions = <<>>
  /\ function_scope = NoScope /\ lexical_scope = ModuleScope
  /\ references = <<>> /\ diagnostics = {}

EndPass ==
  /\ pass # "done" /\ at > Len(text)
  /\ pass' = After(pass)
  /\ at' = Following(After(pass), 1)
  /\ function_scope' = NoScope /\ lexical_scope' = ModuleScope
  /\ UNCHANGED <<text, order_vars, table_vars, references, diagnostics>>

-----------------------------------------------------------------------------
(* The order of events.  The number of a repeated range is used up.          *)

OrderAfterSame(order) == order
OrderAfter(order) == order + 1

AmbiguousAfterForgotten(range) == {}
AmbiguousAfter(range) == ambiguous_source_orders \cup {range}

IndexAmbiguous ==
  /\ Working("index") /\ event.range \in ambiguous_source_orders
  /\ Advance
  /\ UNCHANGED <<order_vars, table_vars, walk_vars, references, diagnostics>>

IndexNew ==
  /\ Working("index")
  /\ event.range \notin ambiguous_source_orders \cup DOMAIN source_orders
  /\ source_orders' = [range \in DOMAIN source_orders \cup {event.range} |->
                         IF range = event.range THEN next_source_order
                         ELSE source_orders[range]]
  /\ next_source_order' = OrderAfter(next_source_order)
  /\ Advance
  /\ UNCHANGED <<ambiguous_source_orders, table_vars, walk_vars, references, diagnostics>>

IndexRepeated ==
  /\ Working("index")
  /\ event.range \in DOMAIN source_orders \ ambiguous_source_orders
  /\ source_orders' = [range \in DOMAIN source_orders \ {event.range} |-> source_orders[range]]
  /\ ambiguous_source_orders' = AmbiguousAfter(event.range)
  /\ next_source_order' = OrderAfter(next_source_order)
  /\ Advance
  /\ UNCHANGED <<table_vars, walk_vars, references, diagnostics>>

-----------------------------------------------------------------------------
(* Declarations *)

exactSymbol(scope, name) ==
  Min({i \in DOMAIN symbols : symbols[i].scope = scope /\ symbols[i].name = name}
      \cup {Len(symbols) + 1})

IsNew(id) == id = Len(symbols) + 1

OwnedScopeLast(symbol, scope, is_definition) == [symbol EXCEPT !.owned_scope = scope]
OwnedScope(symbol, scope, is_definition) ==
  IF symbol.owned_scope = NoScope \/ is_definition
  THEN [symbol EXCEPT !.owned_scope = scope] ELSE symbol

(* symbols after addSymbol(): a name that is there keeps its first meaning *)
WithSymbol(scope, kind, name) ==
  IF IsNew(exactSymbol(scope, name))
  THEN Append(symbols, [scope |-> scope, kind |-> kind, name |-> name, at |-> at,
                        owned_scope |-> NoScope, canonical_function |-> NoSymbol])
  ELSE symbols

(* and its occurrences after that and recordDeclarationOccurrence() *)
WithOccurrence(id, recorded) ==
  LET occurrences == IF IsNew(id) THEN Append(declaration_occurrences, <<>>)
                     ELSE declaration_occurrences
  IN IF ~recorded THEN occurrences
     ELSE [occurrences EXCEPT ![id] =
             Append(@, IF event.range \in DOMAIN source_orders
                       THEN source_orders[event.range] ELSE Unknown)]

Diagnose(kind, condition) ==
  diagnostics' = IF condition THEN diagnostics \cup {[kind |-> kind, at |-> at]}
                 ELSE diagnostics

CollectVariable ==
  /\ Working("collect") /\ event.kind \in {"Variable", "Local"}
  /\ LET scope == IF event.kind = "Variable" THEN ModuleScope ELSE lexical_scope
         id == exactSymbol(scope, event.name)
     IN /\ symbols' = WithSymbol(scope, "Variable", event.name)
        /\ declaration_occurrences' = WithOccurrence(id, TRUE)
        /\ Diagnose("DuplicateSymbol", scope # ModuleScope /\ ~IsNew(id))
  /\ Advance
  /\ UNCHANGED <<order_vars, scopes, functions, walk_vars, references>>

(* A function whose name is taken by a variable gives that variable a scope *)
CollectFunction ==
  /\ Working("collect") /\ event.kind \in FunctionKinds
  /\ LET id == exactSymbol(ModuleScope, event.name)
         scope == Len(scopes) + 1
     IN /\ symbols' = [WithSymbol(ModuleScope, "Function", event.name) EXCEPT
                         ![id] = OwnedScope(@, scope, event.kind = "Definition")]
        /\ declaration_occurrences' = WithOccurrence(id, TRUE)
        /\ scopes' = Append(scopes, [kind |-> "Function", parent |-> ModuleScope, at |-> at])
        /\ functions' = Append(functions, scope)
        /\ function_scope' = scope /\ lexical_scope' = scope
  /\ Advance
  /\ UNCHANGED <<order_vars, references, diagnostics>>

ScopeOfLabelLexical == lexical_scope
ScopeOfLabel == function_scope

CollectFunctionWide ==
  /\ Working("collect") /\ event.kind \in FunctionWide
  /\ LET id == exactSymbol(ScopeOfLabel, event.name)
     IN /\ symbols' = WithSymbol(ScopeOfLabel, event.kind, event.name)
        /\ declaration_occurrences' = WithOccurrence(id, event.kind = "BranchTargets")
        /\ Diagnose("DuplicateSymbol", ~IsNew(id))
  /\ Advance
  /\ UNCHANGED <<order_vars, scopes, functions, walk_vars, references>>

CollectBlock ==
  /\ Working("collect") /\ event.kind = "Open"
  /\ scopes' = Append(scopes, [kind |-> "Block", parent |-> lexical_scope, at |-> at])
  /\ lexical_scope' = Len(scopes) + 1
  /\ Advance
  /\ UNCHANGED <<order_vars, symbols, declaration_occurrences, functions, function_scope,
                 references, diagnostics>>

EndBlock ==
  /\ pass \in {"collect", "bindFunctions"} /\ Working(pass) /\ event.kind = "Close"
  /\ lexical_scope' = scopes[lexical_scope].parent
  /\ Advance
  /\ UNCHANGED <<order_vars, table_vars, function_scope, references, diagnostics>>

(* Symbols that an aliasee may name *)
AliaseesBefore == {i \in DOMAIN symbols : symbols[i].kind = "Function" /\ symbols[i].at < at}
Aliasees == {i \in DOMAIN symbols : symbols[i].kind = "Function"}

CollectAlias ==
  /\ Working("alias") /\ exactSymbol(ModuleScope, event.other) \in Aliasees
  /\ LET id == exactSymbol(ModuleScope, event.name)
         with == WithSymbol(ModuleScope, "Function", event.name)
     IN /\ symbols' = IF with[id].kind # "Function" THEN with
                      ELSE [with EXCEPT ![id].canonical_function =
                              exactSymbol(ModuleScope, event.other)]
        /\ declaration_occurrences' = WithOccurrence(id, FALSE)
  /\ Advance
  /\ UNCHANGED <<order_vars, scopes, functions, walk_vars, references, diagnostics>>

DropAlias ==
  /\ Working("alias") /\ exactSymbol(ModuleScope, event.other) \notin Aliasees
  /\ Advance
  /\ UNCHANGED <<order_vars, table_vars, walk_vars, references, diagnostics>>

-----------------------------------------------------------------------------
(* References *)

(* A scope with the parent that it has, the parent of that, and so on *)
Enclosing(scope) ==
  {s \in DOMAIN scopes :
     \A chain \in SUBSET DOMAIN scopes :
       scope \in chain /\ (\A q \in chain : scopes[q].parent \in chain \cup {NoScope})
         => s \in chain}

(* The way goes from a scope to its parent, which is always an earlier one *)
lookup(scope, name) ==
  LET declaring == {s \in Enclosing(scope) : ~IsNew(exactSymbol(s, name))}
  IN IF declaring = {} THEN NoSymbol ELSE exactSymbol(Max(declaring), name)

(* Variables of a function are registers here, those of a module are not *)
ValidTarget(kind, symbol) ==
  CASE kind = "CallTarget"      -> \/ symbol.kind = "Function"
                                   \/ symbol.kind = "Variable" /\ symbol.scope # ModuleScope
    [] kind = "BranchTarget"    -> symbol.kind = "Label" /\ symbol.scope = function_scope
    [] kind = "BranchTargetSet" -> symbol.kind = "BranchTargets" /\ symbol.scope = function_scope
    [] OTHER                    -> TRUE

(* addReference() and the check of its target *)
BindReference ==
  /\ pass \in {"bindModule", "bindFunctions"} /\ Working(pass) /\ event.kind \in ReferenceKinds
  /\ LET target == lookup(lexical_scope, event.name)
     IN /\ references' = Append(references, [scope |-> lexical_scope, at |-> at,
                                             target |-> target])
        /\ IF target = NoSymbol THEN Diagnose("UnresolvedReference", TRUE)
           ELSE Diagnose("InvalidReferenceTarget", ~ValidTarget(event.kind, symbols[target]))
  /\ Advance
  /\ UNCHANGED <<order_vars, table_vars, walk_vars>>

(* The functions are bound in the order in which they were collected *)
BindFunction ==
  /\ Working("bindFunctions") /\ event.kind \in FunctionKinds
  /\ LET scope == functions[Cardinality({i \in 1 .. at : text[i].kind \in FunctionKinds})]
     IN function_scope' = scope /\ lexical_scope' = scope
  /\ Advance
  /\ UNCHANGED <<order_vars, table_vars, references, diagnostics>>

(* Blocks have ranges of their own; to find none would be a logic_error *)
blockScope(parent, position) ==
  CHOOSE s \in DOMAIN scopes :
    scopes[s] = [kind |-> "Block", parent |-> parent, at |-> position]

BindBlock ==
  /\ Working("bindFunctions") /\ event.kind = "Open"
  /\ lexical_scope' = blockScope(lexical_scope, at)
  /\ Advance
  /\ UNCHANGED <<order_vars, table_vars, function_scope, references, diagnostics>>

Returned == pass = "done" /\ UNCHANGED vars

Next ==
  \/ IndexAmbiguous \/ IndexNew \/ IndexRepeated
  \/ CollectVariable \/ CollectFunction \/ CollectFunctionWide \/ CollectBlock \/ EndBlock
  \/ CollectAlias \/ DropAlias
  \/ BindReference \/ BindFunction \/ BindBlock
  \/ EndPass \/ Returned

Spec == Init /\ [][Next]_vars

(* What the later passes of the library ask of the finished table *)
hasPriorDeclaration(symbol, range) ==
  IF range \notin DOMAIN source_orders THEN "unknown"
  ELSE LET orders == {declaration_occurrences[symbol][i] :
                        i \in DOMAIN declaration_occurrences[symbol]}
       IN IF \E order \in orders \ {Unknown} : order < source_orders[range] THEN "yes"
          ELSE IF Unknown \in orders THEN "unknown" ELSE "no"

-----------------------------------------------------------------------------
TypeOK ==
  LET Ids == DOMAIN symbols \cup {NoSymbol}
  IN /\ at \in 1 .. Len(text) + 1
     /\ pass = "done" \/ \E i \in DOMAIN Passes : Passes[i] = pass
     /\ DOMAIN source_orders \subseteq Ranges \ ambiguous_source_orders
     /\ \A r, q \in DOMAIN source_orders :
          /\ source_orders[r] \in 0 .. next_source_order - 1
          /\ source_orders[r] = source_orders[q] => r = q
     /\ \A s \in DOMAIN scopes : scopes[s].parent \in 0 .. s - 1
     /\ \A i \in DOMAIN symbols :
          /\ symbols[i].scope \in DOMAIN scopes
          /\ symbols[i].owned_scope \in DOMAIN scopes \cup {NoScope}
          /\ symbols[i].canonical_function \in Ids
     /\ Len(declaration_occurrences) = Len(symbols)
     /\ lexical_scope \in DOMAIN scopes /\ function_scope \in DOMAIN scopes \cup {NoScope}
     /\ \A i \in DOMAIN references : references[i].target \in Ids
     /\ \A d \in diagnostics : d.at \in Positions

-----------------------------------------------------------------------------
(* What a module means, said of its text alone.  A scope is the position of  *)
(* the function or the block that opens it, 0 for the module.                *)

ScopesAround(i) ==
  {0} \cup (IF InFunction(i) THEN {Item(i)} ELSE {}) \cup BlocksAround(text, i)

DeclaringKinds == {"Variable", "Local"} \cup FunctionKinds \cup FunctionWide

DeclaredIn(i) ==
  IF text[i].kind \in ItemKinds THEN 0
  ELSE IF text[i].kind = "Local" THEN Max(ScopesAround(i)) ELSE Item(i)

Declarations(name, scope) ==
  {i \in Positions : /\ text[i].kind \in DeclaringKinds
                     /\ text[i].name = name /\ DeclaredIn(i) = scope}

FirstIsFunction(name) ==
  /\ Declarations(name, 0) # {}
  /\ text[Min(Declarations(name, 0))].kind \in FunctionKinds

AliasEvents == {i \in Positions : text[i].kind = "Alias"}

(* The aliasee is a function, or one of the aliases taken before *)
NamesFunction(i, taken) ==
  \/ FirstIsFunction(text[i].other)
  \/ /\ Declarations(text[i].other, 0) = {}
     /\ \E j \in taken : j < i /\ text[j].name = text[i].other

(* Aliases that come into being: the fewest of which that is true *)
AliasTakes(i) ==
  /\ i \in AliasEvents
  /\ \A taken \in SUBSET AliasEvents :
       (\A j \in AliasEvents : NamesFunction(j, taken) => j \in taken) => i \in taken

Aliases(name) == {i \in AliasEvents : AliasTakes(i) /\ text[i].name = name}

Meanings(name, scope) ==
  IF scope = 0 /\ Declarations(name, 0) = {} THEN Aliases(name) ELSE Declarations(name, scope)

Meaning(i) ==
  LET around == {s \in ScopesAround(i) : Meanings(text[i].name, s) # {}}
  IN IF around = {} THEN 0 ELSE Min(Meanings(text[i].name, Max(around)))

(* A reference means the earliest declaration in the innermost scope around  *)
(* it that declares the name, wherever in that scope either of them stands;  *)
(* and every reference is bound once (lines 325 to 352 and 1441 to 1513).    *)
ReferencesAsWritten ==
  pass = "done" =>
    \A i \in Positions : text[i].kind \in ReferenceKinds =>
      LET bound == {k \in DOMAIN references : references[k].at = i}
      IN /\ Cardinality(bound) = 1
         /\ \A k \in bound :
              LET target == references[k].target
              IN Meaning(i) = IF target = NoSymbol THEN 0 ELSE symbols[target].at

Recorded == {"Variable", "Local", "BranchTargets"} \cup FunctionKinds

RangeIsShared(i) ==
  \E j \in Positions \ {i} : text[j].kind \in OrderedKinds /\ text[j].range = text[i].range

(* hasPriorDeclaration() answers for the place of the use: never yes or no   *)
(* where the text says otherwise, and unknown only for shared ranges (lines  *)
(* 380 to 396 and 438 to 448).                                               *)
PriorIsTextual ==
  pass = "done" =>
    \A k \in DOMAIN references :
      LET i == references[k].at
          target == references[k].target
          declared == {d \in Positions :
                         /\ text[d].kind \in Recorded /\ text[d].name = symbols[target].name
                         /\ DeclaredIn(d) = scopes[symbols[target].scope].at}
          answer == hasPriorDeclaration(target, text[i].range)
      IN target # NoSymbol /\ text[i].kind \in OrderedKinds =>
           CASE answer = "yes"     -> \E d \in declared : d < i
             [] answer = "no"      -> \A d \in declared : d > i
             [] answer = "unknown" -> \E d \in declared \cup {i} : RangeIsShared(d)

(* The scope that a function symbol owns is that of a definition when the    *)
(* module has one, whether prototypes come before or after it (lines 579 to  *)
(* 595).                                                                     *)
OwnedIsDefinition ==
  pass = "done" =>
    \A i \in Positions : text[i].kind = "Definition" =>
      LET owned == symbols[exactSymbol(ModuleScope, text[i].name)].owned_scope
      IN /\ owned # NoScope
         /\ text[scopes[owned].at].kind = "Definition"
         /\ text[scopes[owned].at].name = text[i].name

(* An alias of a function is bound wherever the function stands, its name is *)
(* a function of which the last alias decides, and nothing else is           *)
(* canonical (lines 916 to 928 and 1499 to 1502).                            *)
AliasesBound ==
  pass = "done" =>
    \A id \in DOMAIN symbols :
      LET aliases == Aliases(symbols[id].name)
          canonical == symbols[id].canonical_function
      IN IF symbols[id].scope = ModuleScope /\ symbols[id].kind = "Function" /\ aliases # {}
         THEN /\ canonical # NoSymbol
              /\ symbols[canonical].kind = "Function"
              /\ symbols[canonical].scope = ModuleScope
              /\ symbols[canonical].name = text[Max(aliases)].other
         ELSE canonical = NoSymbol
=============================================================================
