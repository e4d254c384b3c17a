# ptx_frontend in TLA+

A verification development beside the C++23 library in `src/`: TLA+ modules of its
components, TLC configurations that check them on small instances, and TLAPS proofs of the
properties that matter most for every value of the constants. Paths below are relative to `src/`.

## The system

`ptx_frontend` turns PTX assembly into a checked intermediate representation. It is a library of
sequential passes; nothing runs concurrently and nothing is persisted. What is hard in it is
what a long or malformed source makes the passes do: recovery from errors without losing
source text, termination of every recovery loop, depth budgets over recursive functions,
caches of lookahead, declaration order, and graph algorithms over calls.

    text --Lexer--> tokens --CST parser--> lossless CST --lowering--> syntax AST
         --binding--> symbols, scopes, references --declaration semantics--> facts
         --module resolution--> Resolved IR --checker, availability--> diagnostics

The passes call each other in this order; a pass reads the results of the earlier ones and
appends diagnostics. The only callbacks are the mutually recursive parse functions. The
instruction tables are YAML, turned into C++ by a Python generator at build time.

| Component | State | Operations | Hard behaviour | What makes it correct |
|---|---|---|---|---|
| Lexer (`submod/lexer`) | flex start condition, position, comment buffer, one-token cache | `next`, `peek`, `consume`, one rule per lexeme | comments that span rules, CR/LF/CRLF, end of input in a comment, cache bypass | lossless, positions as in the whole source, each token delivered once, one Error then Eof |
| Token cursor (`ptx_cst_parser_detail.hpp`) | token buffer, two cached ids | `peek`, `peekNext`, `consume`, `expect` | any order of calls | a plain stream whose ids are places |
| CST parser and recovery (`ptx_cst_directives.cpp`, `ptx_cst_recovery.cpp`) | call stack of containers, children, diagnostics | `parseModule`, `parseFunction`, `parseBody`, `parseBlock`, `parseSectionDirective`, `recover` | an item fails after any number of tokens; bodies cut short at boundaries | children tile the tokens, every loop advances, boundaries reach the module |
| Leaf productions (`ptx_cst_operands.cpp`, `ptx_cst_declarations.cpp`, ...) | position in a production | about 25 parse functions | where exactly each one stops | shared with the parser |
| Constant expressions (`ptx_cst_expressions.cpp`) | call stack, budgets, heights | 4 recursive functions | budget down, height up, precedence climbing | exact limit, bounded recursion, grouping |
| Syntax lowering (`submod/syntax`) | AST under construction | one lowering per node | partial CST, recovery nodes | structure preserved, nothing lowered from recovery |
| Symbol binding (`submod/binding`) | scopes, symbols, tries, source orders, references | collect, alias pass, bind, lookup | forward references, parameterized names `%r<100>`, ambiguous order | tries agree with a linear search, lookup finds the innermost earliest |
| Declaration semantics (`submod/semantic`) | facts per declaration | merge, evaluate initializers | overflow in constant arithmetic, linkage of redeclarations | merged facts agree |
| Module resolution (`submod/resolved_ir`) | partial module | header, regions, storage, functions, tables, phases | early returns between phases, repeated directives | later phases read only what exists |
| Call graph (`ptx_call_graph.hpp`) | edges, components | two-pass component search | candidates, open boundaries | components are mutual reachability |
| Call tables, call parameter transfers | signatures, tables, cursor over a body | index, check, one pass each | tables of callees, stores before and loads after a call, sums that wrap | callees take the arguments, transfers follow the protocol |
| Validators (`ptx_module_availability.cpp`) | a resolved module its holder may have edited, and maybe a source | `validateModule` alone and with a source | caches of one symbol in many records, another version or target | what is accepted is consistent, and a fresh resolution would agree |
| Instruction resolution, checker | none | predicates over one instruction | size of the tables | table by table |
| Python database and generator | build-time objects | load, validate, plan, emit | duplicate names | outside the library's run time |

## What is modelled

| Module | Models | Kind |
|---|---|---|
| `Lexer` | `ptx_lexer.l`, `ptx_lexer.cpp` | state machine over texts of character classes |
| `TokenStream` | what the parser expects of its cursor | abstract specification |
| `TokenCursor` | `peek`, `peekNext`, `consume` with the buffer and both caches | implements `TokenStream` |
| `CstGrammar` | the leaf productions as automata over token kinds | operators |
| `CstParser` | `parseModule` and its drivers, `recover` | state machine over `CstGrammar` |
| `ConstantExpression` | `parseInitializer`, `parseConstantExpression`, `parseConstantUnary`, `parseConstantPrimary` | state machine with an explicit C++ call stack |
| `NameSpace` | what one scope promises of names and of groups such as `%r<100>` | abstract specification |
| `SymbolNames` | the exact maps and both tries of a scope: `addSymbol`, `lookup` and what they call | implements `NameSpace` |
| `SymbolTable` | `SymbolTableBuilder::build`: five passes over a module | state machine over a flattened module |
| `Reachability` | paths in a graph, without recursion | operators |
| `ComponentSearch` | `components` of `ptx_call_graph.hpp`: both passes with their explicit stacks | state machine over every edge list |
| `CallGraph` | `analyze_call_cycles` on top of the promise of `ComponentSearch` | state machine over modules |
| `PtxBase`, `ConstantEvaluation` | scalar types, targets, integer spellings, places in a source and declarations before them; `evaluate*` of constants with integers that wrap, and values of immediates for a type | operators |
| `FunctionContract`, `ModuleTree`, `ModuleBinding` | signatures and their comparison; the syntax module with its scopes and symbols; the diagnostics of binding | operators |
| `ParameterRules`, `VariableRules`, `DeclarationRules` | `checkDeclarations` | operators |
| `StorageLayout` | `resolve_storage_declarations`: extents, initializers, relocations, opaque objects | operators |
| `CallResolution` | operands of calls, the index of signatures, call tables, ABI of callees | operators |
| `ModuleHeader` | the version and the target by which declarations are checked, and `resolve_module_header`: the regions that functions and aliases belong to | operators |
| `OwnedModule` | the resolved module: contracts, parameters, control contracts, what operands keep of symbols, source identities | operators |
| `FunctionChecks` | on resolved functions: visibility of callees, addresses of `ld` and `st`, the protocol of `.param` objects, sums of legacy inputs | operators |
| `ModulePipeline` | `resolveModuleOnly` phase by phase; what a phase computes elsewhere is a parameter | actions over syntax modules |
| `OwnedRules` | the checks of `ptx_module_availability.cpp` on the records of one module: header, contracts, declarations, storage, calls, tables, references, roles | operators |
| `ModuleValidation` | both `validateModule` overloads, with the availability of what functions declare, the association of owned functions to a source and the check of recursion | operators |
| `ModuleHolder` | the caller: resolves, keeps, edits, replaces the source, validates | state machine, composes all of the above |
| `Resolution` | what a caller of the resolution sees | abstract specification |
| `ResolvedModules` | the phases as the modules above compute them, and what a module that is returned promises | operators, properties |
| `MC...` | sets for the configurations (`token_cursor` and `constant_expression` need none) | instances |
| `...Proofs` | lemmas and theorems | TLAPS |

**Lexer.** `source` is the text, `offset` what flex has matched of it; `condition`, `at`,
`comment`, `opened` are the start condition and `PtxLexerExtra`; `cache` is `has_peek_` with
`peek_`. A step is one match (`ScanLexeme`, `ScanOpen`, `ScanComment`, `ScanUnterminated`,
`ScanEof`); `CallNext`, `CallPeek` and `CallConsume` are the API. The longest-match rule is
explicit: every rule is the set of lengths it matches. The texts are a constant. Characters are eight classes; names,
numbers and dotted names are runs of one class, so which keyword a spelling is (and which
malformed numbers are Error tokens of their own) is left out.

**TokenCursor.** The variables are the fields of `PtxCstParser` of the same name. `Peeked` is the
state that `peek()` leaves, which all three operations start from. `place` maps the caches to the
abstract position.

**CstGrammar and CstParser.** A leaf production is a set of moves `<<state, kinds, target>>`,
one per token the C++ function tests; the targets say how it ends: accepted, refused with or
without the token, refused for want of a semicolon. Spelling-dependent choices (`call`, `bra`,
section names) are nondeterministic between the branches they select. Constant expressions inside a production
are flattened to what decides where they stop. `CstParser` adds what is
around them: the loops of `parseModule` and `parseBody`, the section payload with its brace
counter, nested blocks with `kMaxNestedBlockDepth`, and `recover()` with its early exits, the
Error and Skipped nodes and its anchors. The stack of open containers is the C++ call
stack: `start[l]` and `next[l]` are where the container at level `l` begins and where its last
child ends. Source tokens are chosen when they are lexed, so a run covers every input up to the
bound; the end of input repeats, as `PtxLexer` repeats it.

**ConstantExpression.** A frame of `stack` is a call with its arguments (`least` is
`minimum_precedence`, `rem` the `RemainingTreeDepth`), the point where it waits, and the height of
what it has built. `node` is the value on its way up. Trees are abstracted to their height and to
how tightly their root binds. Every `consume`, test of the budget and return has its action; the
three kinds of entry are those of `parseVariableDeclaration` and `parseNumericOperand`.

**NameSpace and SymbolNames.** `NameSpace` decides overlaps and lookups on the sets of names that
declarations stand for; `SymbolNames` extends it with the code's indexes. Spellings are
sequences of characters here, because the tries branch on them, and a member number has `Bits` bits
(32 in the code) and `MaxDigits` decimals (10). A node of a trie is named by the way to it: a prefix of a base, or the
high bits of a member number (`Node`). An edge of the code's vector of nodes is then the presence of the
node it leads to, and a walk is the set of nodes on it: `indexMemberNumber` changes the nodes of `Path`, and
`earliestMemberBelow` looks at the left children of the nodes from which the walk to the limit turns right
(`TurnsRight`, `LeftChild`), as far as the nodes go (`Walked`). `AddAgain` and `AddNew` are the two
outcomes of `addSymbol`; the diagnostic names the earlier symbol it gives as `previous_range`.

**SymbolTable.** A module is flattened to the sequence of events that all passes visit in one order.
A step is one event of one pass: `Index...` is `indexSourceRange`, `Collect...` the collecting
functions, `CollectAlias` and `DropAlias` the alias pass, `Bind...` the two binding passes. `lexical_scope`
and `function_scope` are the arguments of `collectBody` and `bindBody`. A range may
stand at several events, as tests of the repository construct it, so an order can be unknown. The
module composes with `SymbolNames` through `exactSymbol` and `lookup`, which on ordinary names are what
`NameSpace` says; the loop of `lookup` over parents is a closure (`Enclosing`). The properties compare the table with `Meaning`, which reads the text alone. Shapes of
operands, debug metadata, special registers, linkage and types are left out.

**Reachability, ComponentSearch, CallGraph.** An edge `[source, target]` is a call; a path exists when no
set closed under edges separates its ends, a definition that needs no induction. `ComponentSearch` has
one action for each thing either loop of `components` does: the frames with their cursors and the
finishing order of the forward pass, then the work list of the reverse pass. `CallGraph` uses what it
promises: `Components` are the classes of mutual reachability. `Register...` makes functions vertices,
`Call...` are the branches for one call (direct, open, through the candidates of a list or a table),
`Refuse` returns after a malformed join, `Classify` reports. The use of a list has an order of its own (`use`), which an edited
module may have lost. Source texts and ranges of targets are one truth value each, the edges a set.

**ModulePipeline.** `module` is a syntax module: its items in order, with the spellings and constants that
decide something. A step is a phase: `CheckDeclarations` binds and runs `checkDeclarations` whatever
binding said, `ResolveStorage`, `IndexCalls` (header, signatures, call tables), one
`ResolveFunction` for each item, `Publish`, `CheckLegacySizes`, `CheckVisibility`, `CheckTransfers`. `Unless` is
the early return after a phase that said something; functions are resolved to the last before any
of their diagnostics counts. `table`, `storage`, `header`, `call_tables`, `signatures` and `functions` are the parts
of the partial module, `outcome` what the call ends with: a module, a refusal or an exception. Diagnostics are their
kinds. What a phase computes in another part of the system is an operator parameter: the symbol table (`Binding`),
what declarations and calls say (`DeclarationsSay`, `CallSays`), storage, the index of calls, and the parts of records
(`StorageOf`, `CallIndex`, `PartsOf`, `OperandsIn`, ...). The configurations give each parameter the operator that
computes it (`bind_and_check`, `resolve_storage_declarations`, `index_calls`, ...). The header (`ModuleHeader`) and the
checks of functions (`FunctionChecks`) are no parameters: the module extends them. A kernel whose version is missing
(`LacksVersion`) ends the resolution with `MissingValidationContext` alone. Of instructions, calls, branches, loads
and stores are resolved and any other is `Other`, which
always is. The operators below the phases are functions of the module and of what earlier phases left;
`Bound` is what `SymbolTable` computes, as an operator.
An integer has `Width` bits, doubles are exact fractions.

**OwnedModule, OwnedRules, ModuleValidation, ModuleHolder.** `owned` is the `ResolvedModule` that a caller
keeps: it can be read without syntax, and any of its fields can be assigned. `Resolving` is a step of the
pipeline (`ResolutionSpec` is what it does without a holder); `Keep` takes the module it returned. `Validate` asks both overloads of `validateModule`, alone and
with the source at hand, and `verdict` holds the kinds each gives, under both context policies (`says` for the
context that is there, `lacks` for what a complete context adds). `Edit` changes one field of one function, of the contract,
signature, operand, list, label, table or record of storage in it, or drops or repeats such a part. `Resupply`
gives the kept module another source, which is resolved beside it for comparison. After it the validators see the old
records and the new syntax. A check gives the set of kinds of what it says; its texts and ranges are left out. Names of checks are
those of the code; `check_source_associations` pairs owned and source functions by identity, occurrence
and the items of their bodies.

## What the runs show

| Run | Bounds | Shows |
|---|---|---|
| `lexer_text` | 7 of 8 classes, texts of up to 5, and of 6 over the classes of comments, 4 tokens | positions agree with a count over the whole source (`PositionsMatchSource`), each scanned token is delivered once in any mixture of the three calls (`DeliveredOnce`), the lexemes are the source, with two comments through the same buffer (`Lossless`), only Eof is empty, it is final, and an unterminated comment is one Error before it (`EofIsFinal`) |
| `token_cursor` | sources of up to 5, 8 lexed | the caches implement the stream (`ImplementsStream`) |
| `cst_parser` | inputs of up to 7 tokens over 21 classes of bodies, blocks, guards, headers and boundaries, blocks nested twice | no token is lost or covered twice (`ChildrenTile`), the end is taken once (`EofTakenOnce`), clean trees nest as their braces (`CleanNesting`), loops advance (`IterationConsumes`), the parser returns (`Terminates`), a boundary that stops a body becomes a module item (`BoundaryReachesModule`) |
| `cst_anchors` | 8 tokens | violates `FunctionAnchorsPreserved`: see below |
| `constant_expression` | 7 tokens, limit of 3 levels | an accepted tree fits (`AcceptedFits`), a refused one does not: in every way to finish the input the tree exceeds the limit (`RefusedIsTooDeep`), recursion is bounded (`RecursionBounded`), operators group by precedence (`Grouping`) |
| `symbol_names` | 5 spellings, groups of 0, 1, 2 and 13, numbers of 4 bits, 3 symbols, declarations until the second diagnostic | the tries decide as the sets of names do (`ImplementsNameSpace`), lookup finds the earliest (`LookupIsEarliest`) |
| `symbol_table` | functions with declarations before, in and after a block, 4 module items in any order, ranges shared by two or three events | references mean the earliest declaration of the innermost scope (`ReferencesAsWritten`), `hasPriorDeclaration` never contradicts the text (`PriorIsTextual`), scopes of symbols are of definitions (`OwnedIsDefinition`), aliases bind functions wherever they stand (`AliasesBound`) |
| `component_search` | every list of up to 4 edges over 1 or 3 vertices, of up to 3 when some are candidates (`direct_only`) | identities of components are classes of mutual reachability (`ComponentsAreMutual`), the search ends (`Terminates`) |
| `call_graph` | modules of 6 function items with up to 3 calls of every form, and edited modules with a join broken or the use of a list out of order | a report is a call on a cycle (`ReportsAreCycles`), certain only along direct calls (`CertainIsDirect`), open boundaries are those that leave the module (`OpenIsOpen`), nothing is reported of an inconsistent module (`OnlyConsistent`) |
| `module_pipeline` | 9512 modules in 17 families (below), integers of 15 bits, one edit or one other source for each module kept | see the next paragraphs |
| `pipeline_exceptions` | the same | violates `NeverThrows`: see below |
| `pipeline_retargeting` | one initialized variable and a kernel, six versions and targets, each replaced by itself for 16 others | violates `RetargetingKeepsRules`: see below |

`module_pipeline` checks what a returned module promises, each property stated from the source module and the
records without the operators that decide. Calls take what their callees have as formals, whichever of
name, alias, list or table leads to them (`CalleesTakeArguments`), and name nothing that is declared later
(`DeclaredBeforeUse`). `.param` objects are stored right before the call that takes them and loaded right after the
one that gives them (`TransfersFollowProtocol`); inputs of kernels fit, with exact sums where the code
adds in 64 bits (`KernelInputsFit`). Initializers lie inside their objects and do not overlap (`InitializersInside`),
no function loses an instruction or a label (`NothingDropped`), and a function is resolved for the
version and target that the rules of declarations went by (`OneConfiguration`). Only a register of the module
makes the resolution throw (`OnlyRegistersThrow`). `KeepsPromise` is a refinement: the phases implement `Resolution`,
in which what was said stays, a refusal is never silent, and no module is returned of which something was said; a caller
may call again with an empty sink (`CallAgain`). One exception is part of it (`LacksContext`): a kernel that lacks a version is refused with
`MissingValidationContext`, and what was said of the functions before it is not told
(`ptx_resolved_module.cpp:1292`-`1316` returns an answer that holds only this).

Of the validators: a module as it was resolved is never said to contradict itself or its source, and a
verdict without a source reports nothing that the verdict with one lacks (`ResolvedIsIntact`). When another source
is accepted for a kept module that initializes nothing, that source resolves; and whenever it resolves, it gives the same
functions, contracts, roles, operands and storage, but for the values of initializers, and the kept module is one that the validator
accepts under it without the source (`RetargetingIsSound`). The functions of `VersionedRecursion` call themselves, directly,
through a function with a prototype or through a list, in one target region or two. The check of recursion refuses them for versions before
2.0 and targets below `sm_20`, in the overload with a source by the source of each owned function (`SourceRecursion`). Whatever one field was edited to, each call of an accepted module
reaches functions the module holds, and none an entry, whose formals take the operands one by one (`ValidatedCallsFit`).

`ResolvedIsIntact` names exceptions, which are what the code does: three sources resolve to a module that the validators
refuse (`IsTolerated`). One has an invalid header directive, which resolution only records; one a kernel that writes a resource
twice (`.maxnreg 4 .maxnreg 4`); one an opaque array with an empty initializer list.

Why the bounds are enough. The parser looks at most two tokens ahead and recovery keeps one
position and one flag, so a mistake needs a handful of tokens: the opener, the item, the
token that fails, the anchor, and one more of each for nesting. One nested block reaches
the limit, is refused at it and returns to it; two let a boundary pass through a
block inside a block. What `cst_parser` shows of safety is proved for all classes and lengths (`CstParserProofs`), so its
classes and lengths matter for the two liveness properties; they are the function boundaries, two of the directives that end a body, and the items
that a body, a block or a header can fail in. The depth limit of 3 (128 in the code) separates every place where the budget is
lowered: the root, an inner level and the last one. Seven tokens build trees above the limit in each of
the four functions. A CRLF between any two lexemes takes four characters, two comments six.
Three symbols suffice for names: one that overlaps, one that
was there before it, and one that shares a trie path with both; 13 and 2 are limits whose bits take both
branches at every depth but the root's, and `r`, `r1`, `r10`, `r12`, `r01` are bases and members of each other. A
reference can see three scopes, so a competing declaration is placed in each of them, before and
after it; four module items hold two declarations, an alias and a use in every order, and three equal
ranges are the least at which a forgotten repetition shows. Three vertices with four edges hold
a cycle, a chord and a vertex off the cycle; self loops and parallel edges are included. Six
function items hold prototypes, an alias, two functions and a third that is a kernel or not.
Each family of `MCModulePipeline` varies what one phase decides on and holds the rest: formals
against arguments, results, module registers, tables and lists of callees, all bodies of up to three moves around a call,
qualified accesses with offsets up to half a word, legacy sums from 1 byte to beyond the ceiling, parameters at
the limits of three versions, headers with two or three directives in any order, initializers
of every shape against every extent, kernels without a version after a function that is refused or not, opaque fields in pairs, labels and lists, redeclarations in pairs, and
resource directives in pairs for three versions. `EditedSources` call directly, through a list, a prototype and a
table, so that an edit meets each kind of record; one edit is enough to set two records at odds, since every other one still says
what it was made from. `Retargeted` sources, recursive ones among them, exist for three versions and two targets and are replaced by themselves for eight
versions around every limit that a rule on them names, in both directions. A word of 15 bits lets sums and products wrap with extents that a few declarators reach;
limits of the code above it are scaled with it (`Word`, `HalfWord`).
The symmetric `space` class is left out of the instances because `lf` already stands for
whitespace that is inside a run.

Fairness: `FairSpec` of `CstParser` and of `ComponentSearch` is weak fairness of the next-state
relation. Each is a single thread that runs until it returns, so a step that can be taken is taken;
nothing stronger is assumed. All other runs are of safety. `symbol_names` turns the deadlock check off,
since a scope stops at the bound on its symbols.

Findings. The comment of `ResolveException` (`ptx_resolved_ir_diagnostics.hpp:55`) says that only
generated descriptors which violate their contract raise it. In an early module, which may declare registers at module scope,
a call that passes such a register raises it: `index_function_call_arguments` indexes headers
and bodies only, and `check_call_abi` finds no properties (`pipeline_exceptions`). `docs/sdk_support.md` promises that recovery preserves the next function with its
qualifiers as an anchor. `.weak` is both an instruction modifier and a function qualifier, and
`parseInstructionAfterHead` takes modifiers before it misses the semicolon: in
`.entry f { ret .weak .entry` the qualifier ends in a Skipped node of the body and the next function
loses it. `parseLocDirective` can take an anchor in the same way, since it consumes before it tests.

The comment at `ptx_module_availability.cpp:5204` says that retargeting must not bypass version or target
sensitive rules of declarations. The validator binds the supplied source again and runs `checkDeclarations` on it, but not
`resolve_storage_declarations`, where the versions of initializers are tested that `docs/sdk_support.md:8110` lists. A module resolved for a
late version may hold the address of a kernel (3.1), a mask of an address (7.1) or of an integer (7.3) and is still accepted with an
earlier source, which a fresh resolution refuses with `UnsupportedStorageInitializer` (`pipeline_retargeting`). For the same reason what an
initializer holds stays that of the old version: whether an address in it is generic is decided when storage is resolved.

## What is proved

For every alphabet, text, module, bound and limit, from the named assumptions of the modules. Those say that
bounds are natural numbers and the depth limit is positive, that inputs are made of known kinds, that
the braces of a module in `SymbolTable` match as the parser leaves them (`TextsAssumption`), and that a
module given to `CallGraph` has the shape of its data type, with no symbol called `None`
(`ModulesAssumption`): edited modules whose joins are broken are included. `ModulePipeline` assumes of its modules that they are
sequences (`ModulesAssumption`), of `Binding` that it lists nodes in the order of the source and that a label that passed the
rules of declarations is found by its name (`BindingAssumption`), and of the other phases, wherever those before them were silent,
that what they say, and the parameters and operands they give, are sequences (`PhasesAssumption`). TLC evaluates the assumptions on
every run; for `module_pipeline` that is on all 9512 modules, with the operators that compute the phases. Every
invariant below was checked by TLC before it was proved.

| Run | Proved of its properties | Only checked |
|---|---|---|
| `lexer_text` | all: `PositionsMatchSource`, `DeliveredOnce`, `Lossless`, `EofIsFinal` | |
| `token_cursor` | all: `ImplementsStream` | |
| `cst_parser` | `TypeOK`, `ChildrenTile`, `EofTakenOnce`, `CleanNesting`, `IterationConsumes` | `Terminates`, `BoundaryReachesModule` |
| `constant_expression` | all: `AcceptedFits`, `RefusedIsTooDeep`, `RecursionBounded`, `Grouping` | |
| `symbol_names` | all: `LookupIsEarliest`, `ImplementsNameSpace` | |
| `symbol_table` | all: `ReferencesAsWritten`, `PriorIsTextual`, `OwnedIsDefinition`, `AliasesBound` | |
| `component_search` | `ComponentsAreMutual` | `Terminates` |
| `call_graph` | all: `ReportsAreCycles`, `CertainIsDirect`, `OpenIsOpen`, `OnlyConsistent` | |
| `module_pipeline` | `KeepsPromise`, `NothingDropped`, `OneConfiguration` | `OnlyRegistersThrow`, `InitializersInside`, `CalleesTakeArguments`, `DeclaredBeforeUse`, `TransfersFollowProtocol`, `KernelInputsFit`, `ResolvedIsIntact`, `RetargetingIsSound`, `ValidatedCallsFit` |
| the runs that expect a violation | | all |

**LexerProofs.**

- `LexerIsLossless`: the concatenation of what was returned and the open
  comment is the prefix of the source that was scanned. `LexInv` adds the types of the
  buffers and that the offset is in the source; the longest match is shown to lie in the rest of the
  text, for which a maximum of a bounded set is obtained from well-foundedness of `<`.
- `TokensAreDeliveredOnce`: `DeliveryInv` says that the cache holds a token that is scanned and not delivered,
  and is empty while `peek()` or `consume()` waits for one; so delivered and waiting are everything scanned.
- `EofEndsTheTokens`: after an Eof or the Error of an open comment (`EndInv`) nothing of the source is
  left, the start condition is `INITIAL` again and no trivia is pending, so the next token is the same Eof.
- `PositionsAreTheSource`: `at` is `Advance` over the scanned prefix. `Advance` counts a text at once and not by
  recursion, so what is proved of it is how it composes: it may be split at every place but inside a CR LF. That
  the lexer never stops there is the second conjunct of `AtInv`, and it holds because whitespace runs, blocks and line
  comments all take both characters; `AdjoinInv` links the ends and starts of lexemes.

**CstParserProofs.**

- `TypeCorrect`, `TileInvariant`, `ParserIsLossless`: `ChildrenTile` is not
  inductive, because it says nothing while an item or a recovery is under way. `TileInv` adds that then
  `first` is where the open container's children end, that the cursor is not before it, and
  that the open containers are chained: `next[l] = start[l + 1]`.
- `IterationsConsume`: a failed item either has consumed or stands at a token
  at which recovery consumes; with `FailureIsConsumed` for the items that start at an anchor.
- `EndIsTakenOnce`: rests on `ProductionsLeaveAtEof`: in every
  state of every production the only move at Eof leaves the production.
- `NestingIsClean`: `CleanNesting` speaks of the places between items, so `NestInv` says what holds in the middle of one:
  without diagnostics the open braces are the levels and those the item has inside (`OpenBraces`). Each
  state of a production has a number of braces inside it (`Inside`), and one lemma per production (`...Balance`) shows that
  every move changes it by the brace it reads and that a production that is accepted has none left.
- `CursorIsStream`, of `TokenCursor`: a refinement. The inductive invariant says that the buffer is the source as far as
  lexed and that the caches are its last one or two ids, so that they never bury a token (`LookaheadIsHeld`, which no run
  repeats); each operation then maps to the operation of the same name.

**ConstantExpressionProofs.**

- `TypeCorrect`, `AcceptedTreeFits`, `RecursionIsBounded`: the invariant
  gives every frame a rank, 3 times its budget plus 0, 1, 2 or 3 for its function. The rank falls from
  frame to frame, which bounds the stack, and the height that a frame has built plus what
  it still adds stays within its budget, which the caller's budget covers. A by-product: the tests
  for a budget of 0 on entry of `parseConstantUnary` and `parseConstantPrimary` and the second tests
  after a right operand never fail.
- `RefusalsAreDue`: `Leveled` makes the budgets exact, where the bounds above need only that they are small enough: what a call may
  spend is the limit less the levels of the tree above it. A refusal then shows a frame without room (`NoRoom`), and
  the least heights of the tree that the stack stands for (`LeastHeights`) exceed the limit.
- `OperatorsGroup`: precedence climbing. Each frame holds a root that binds as tightly as it may take (`Binds`),
  serves a caller whose own operator the result suits (`Serves`, `Suits`), and goes on only with an operator
  that binds no tighter than what it holds (`MayGoOn`, `MayTake`).

**ComponentSearchProofs.** `TypeCorrect`, `OrderIsSound`, `ComponentsAreExact`: the two-pass search is right
for every graph. `IInv` is the conjunction of the adjacency lists (`LinksInv`), the stack of frames as a
path whose cursors separate finished successors from the rest (`StackInv`, `StackOrder`), the finishing
order (`FinishOrder`), what each phase has done (`PhaseInv`), and for the reverse pass that the
component in growth reaches its root, is closed except for its work list, and that finished
components are whole (`ComponentInv`, `GrowthInv`). No induction over paths is needed: a
path is what no closed set separates, so a lemma exhibits the closed set.

**CallGraphProofs.** `CallGraphInvariant` is the invariant of the whole analysis: signatures are those of
functions seen (`SignaturesInv`), vertices and definitions correspond one to one (`DefinitionsInv`), the memo holds
what a look found for some use (`MemoInv`) and serves the contracts of calls that were passed, of those every list (`ServedInv`), edges are those of the calls behind the loop (`EdgesInv`), and there is no
diagnostic exactly if the functions and calls so far agree (`DiagnosticsInv`). From it:

- `ReportsTheCycles`, `CertainRecursionIsDirect`: edges map to invocations between canonical functions, and
  reachability over vertices to reachability over functions, in both directions; a report is a call on a cycle,
  certain exactly if direct calls alone close one.
- `OpenBoundariesAreTold`: `has_open_boundaries` is set exactly if a call may leave the module.
- `AcceptsTheConsistent`: a module gives no diagnostic exactly if all its joins agree. The memo is what makes this hard: a
  list is looked up at the first call that names it and never again, so its targets must stand before that use (`Sees`, `Leads`).
  In a module as it was resolved they then stand before every later use too; in an edited one a later use may have lost its order, and the
  analysis does not ask for it. The two directions of `ServedInv` give that the memo answers a list for every call but the first
  (`MemoServesOthers`).

**SymbolTableProofs.** The invariants build on each other in this order.

- `OrderCorrect`: after the first pass a range has an order exactly if one ordered
  event of the module has it, and orders compare as positions do (`OrdersAreTextual`, which
  needs no run of its own; `PriorIsTextual` is what it is for).
  `WalkInv` says that a pass stands at an event it handles and skips none, from what `Following` chooses;
  `OrderInv` relates orders, ambiguous ranges and the events indexed so far: an ambiguous range has two
  events, a known one has one, and orders rise with positions although repeated ranges use up numbers.
- `DefinitionIsOwned`: a function's symbol owns the scope of a definition if the module
  has one. `OwnInv` adds that no scope has two symbols of one name, that an owned scope is that of a
  function of the symbol's name, and that each definition collected so far has a symbol that owns a scope:
  a prototype that comes later finds the symbol taken.
- `AliasesAreBound`: `ScopeInv` says that the scopes made so far are the functions and blocks entered, each with the scope
  around it as its parent, and that two passes which make and find them stand in the scopes around their event (`Standing`).
  `SymInv` says that a symbol stands for the earliest declaration of its name in its scope, that every
  declaration seen has one, and that its canonical function is what the last alias of it names among those taken (`CanonicalIs`).
- `ReferencesMeanTheText`: `RefInv` says that each reference behind the walk is bound once, to what `Meaning` reads from
  the text. `lookup` goes from scope to parent; `Enclosing` is that way as a closure, and its innermost
  declaring scope is the innermost of the text because scopes are made in the order of their events.
- `PriorsAreTextual`: `OccInv` says that the orders recorded for a symbol are those of its declarations that were seen. With `OrderInv`
  the answer of `hasPriorDeclaration`, where there is one, is that of the text.

**SymbolNamesProofs.** From six assumptions: digits are characters and names are not empty (`NamesAssumption`), sizes of
groups are member numbers (`CountsAssumption`, `BitsAssumption`), no member number has more than `MaxDigits`
decimals (`DigitsAssumption`), and the bounds of the run are natural numbers. They hold for the code's 32 bits and 10 digits.

- `TriesImplementNames`: the code never builds the set of names of a group. It compares the first member of
  one group with the other group, looks for bases that are prefixes of a name, and asks a trie of bits for a member
  below a count. The proof has three parts. *Numbers and spellings*: `Decimal` and `Value` are
  inverse to each other between numbers and digit strings without a leading zero (`DecimalFacts`,
  `SpellingFacts`), so `parseParameterizedIndex` finds exactly the members (`MemberOf`). *Groups*: two groups share a
  name exactly if one contains the first member of the other (`GroupsMeet`); for if `b` is `a` with the beginning of a
  decimal behind it, ten times that beginning is still below the count (`DecimalBegins`, `SharedMember`). *Bits*: the
  left children of a walk hold exactly the numbers below its limit (`LeavesLess`, `LessLeaves`). Each step of
  `SymbolNames` is then the step of `NameSpace` for the same declaration.
- `NamesAreIndexed`: the invariant `IndexInv` the steps rest on. No two symbols are of the same name and form (`Distinct`), the exact
  maps hold each name's symbol (`OrdinaryIndexed`, `GroupsIndexed`), the nodes of the prefix trie are the prefixes of
  group bases (`PrefixesIndexed`), and a node of the number trie of a base is there exactly if a symbol has
  a member through it, and holds the earliest one (`MembersIndexed`).
- `LookupsAreEarliest`: `lookup` finds what the declarations name; the shortcut of a scope with a single group takes the
  group that the trie would find.
- `SilenceIsUnambiguous`: in a scope without a diagnostic no spelling belongs to two symbols. It is proved of
  `NameSpace` and holds of `SymbolNames` because that implements it. No run repeats it.
- `ScopeIsTyped`: `TypeOK`, likewise.

**ModulePipelineProofs.** The theorems hold whatever the phases compute, as long as the assumptions above do.
`PipelineIsSound` is the invariant they share, `PipelineInv`, in four parts: the phase, the outcome and the diagnostics agree
(`TypeInv`); a phase that is reached finds what those before it left, and they were silent (`ArtifactsInv`); while functions are resolved and
after, the records are exactly those of the function items up to `position`, none of which threw, and nothing is said if
nothing was said of any of them (`FunctionsInv`); and each check of functions was silent for every record before the next began
(`ChecksInv`). The early returns are why it is needed: a function is read by the checks only because all functions were silent,
and a table only because declarations were.

- `PipelineKeepsPromise`: each phase is a step of `Resolution` or a stutter. What a function says is appended to what was said
  (`FunctionIsPromised`); the one refusal that drops it is `LacksContext`.
- `NothingIsDropped`: an instruction is left out of a body only with a diagnostic, so in a returned module the body is all of them
  (`AllKept`). The position of a label counts kept instructions before it; because nodes are in the order of the source, those
  are an initial segment of the body (`InitialSegment`, `CountedBefore`).
- `ConfigurationIsOne`: two parts of the code read the directives independently, the rules of declarations by looking for the first version and
  the last target, the header by a loop that replaces, appends or counts as invalid. `HeaderSoFar` is the
  invariant of that loop: it has a region for every target, and the version is the first one unless a directive was invalid.
- `PublishedIsChecked`: what the three checks test one instruction at a time, as statements about whole functions: callees are
  declared before they are called (`CalleesAreVisible`), parameters are accessed as they are declared
  (`AccessesAreAllowed`), a stored `.param` object is followed by nothing but stores up to the call that takes it, and a loaded
  one preceded by nothing but loads down to the call that gave it (`Protected`), and the inputs of a kernel fit (`InputsFit`).
- `LegacySumIsExact`: the sum of inputs is computed in words that wrap, guarded by a quotient. For every sequence of inputs it is
  refused exactly if an input has no size or counts zero times or the sum in numbers of any size exceeds the ceiling, and otherwise is that
  sum. The theorem asks that a word is larger than the ceiling, which holds from 15 bits on; the code has 64.

Most lemmas are about sequences joined from pieces, the form of every list the passes build (`FlattenSeq`, `Each`): a join is
empty if all its pieces are (`FlattenNothing`), contains what they contain (`FlattenContains`), and keeps the order of what was
selected (`FlattenPicks`, `Selects`).

The recursive functions `Power`, `Shifted`, `Decimal` and `Value` are shown to satisfy their equations without
an induction theorem: approximations of them up to `n` exist and agree, since otherwise there were a least
`n` for which they do not (`LeastNumber`). The folds and sums of `ModulePipelineProofs` are treated likewise (`JoinsExist`,
`HeadersExist`, `ChainsExist`).

Model-checked only, and why:

- The other properties of `module_pipeline`. They speak of what the phases compute from the source: trees of constants, extents,
  signatures, scopes. Those are recursive operators and bit operations, which take a module out of the prover's reach. `TransfersFollowProtocol`,
  `DeclaredBeforeUse` and `KernelInputsFit` are proved in the terms of records and symbol tables (`PublishedIsChecked`); that the records say
  what the source does is the part only TLC checks. The properties of `ModuleHolder` are about edits of those records.
- Liveness (`Terminates`, `BoundaryReachesModule`), which is beyond the prover.
- `TypeOK` of `Lexer`, `SymbolTable` and `CallGraph`, which no run repeats, also types fields no property reads; the
  parts that the proofs need are conjuncts of their invariants.

## What is not modelled

`PROJECT.json` lists every component with its status, and every hazard with its properties. Its map lists the definitions that
translate a function, a type or a loop; a short part that such a definition names is covered by the lines of that definition.
Text, names and node payloads are abstracted throughout: only what decides control is kept. Left out, and why:

- *Debug metadata*: DWARF sections and records, `.loc` and `.file` in binding, pragmas. The passes read and
  write nothing the others use. The one-to-one matching of equal location references
  (`ptx_debug_locations.cpp:125`) is the one hazard that stays without a property.
- *Syntax lowering* (`submod/syntax`) and *CST data*: a structural map from node to node without state. Modules
  of the pipeline start from the syntax tree, runs of the parser end with the token tree.
- *Instruction descriptors, the checker and the parts of the validators that dispatch on them*
  (`check_instruction_body`, textures, ranges of immediates, restrictions of `cvta`, groups of `tcgen05`, contexts of
  stack operations): predicates over one instruction, generated from YAML, which a
  model would repeat row by row. The operands of calls, branches, loads, stores and guards, which relate
  instructions to declarations, are modelled.
- *Rounding* of floating constants and the *spelling* of numbers beyond digits, suffix and overflow.
- *Python database and generator*, YAML data, corpus, examples and scripts: they run at build time or are no logic
  of the library.

What would come next: a module of location events and their references, and the checks of single instructions that
relate operands to declarations.

## Running

    tlc -workers 2 -config CstParser.cfg MCCstParser.tla
    tlapm CstParserProofs.tla

Each run of `PROJECT.json` takes at most three minutes on two cores, each proof module from one to a few minutes.
