---------------------------- MODULE MCCallGraph ----------------------------
(* Finite instances of CallGraph for TLC. *)
EXTENDS CallGraph

CONSTANT MaxCalls  \* bound: no module has more calls than this

NoCalls == <<>>
DirectCall(id) ==
  [direct |-> <<id>>, indirect |-> FALSE, metadata |-> None, use |-> Unknown, ranged |-> TRUE]
UsedIn(item, id) ==
  [direct |-> <<>>, indirect |-> TRUE, metadata |-> id, use |-> item, ranged |-> TRUE]

FunctionSymbol(canonical_id, entry, order) ==
  [kind |-> "Function", canonical |-> canonical_id, is_entry |-> entry, declared |-> order]
OtherSymbol(what) ==
  [kind |-> what, canonical |-> None, is_entry |-> FALSE, declared |-> Unknown]

Item(id, canonical_id, entry, prototype, calls, sets) ==
  [symbol |-> id, canonical_function |-> canonical_id, is_entry |-> entry,
   is_prototype |-> prototype, signature |-> "void", body |-> calls,
   call_target_sets |-> sets]

Target(id, canonical_id) == [symbol |-> id, canonical_function |-> canonical_id, bound |-> TRUE]
Set(targets) == [symbol |-> "list", signature |-> "void", targets |-> targets]
Table(slots) == [symbol |-> "table", signature |-> "void", slots |-> slots]

-----------------------------------------------------------------------------
(* Modules as resolution makes them: prototypes of f, g and the alias of f  *)
(* come first, then f, g perhaps not defined, and a kernel or the function h*)

ProgramSymbols(kernel) ==
  [id \in {"f", "g", "h", "alias", "list", "table", "prototype"} |->
     CASE id = "f" -> FunctionSymbol("f", FALSE, 1)
       [] id = "g" -> FunctionSymbol("g", FALSE, 2)
       [] id = "alias" -> FunctionSymbol("f", FALSE, 3)
       [] id = "h" -> FunctionSymbol("h", kernel, 6)
       [] id = "list" -> OtherSymbol("CallTargetSet")
       [] id = "table" -> OtherSymbol("Variable")
       [] id = "prototype" -> OtherSymbol("CallPrototype")]

(* h may be a kernel, which no call may name. *)
Callees(item) ==
  {DirectCall(id) : id \in {"f", "g", "h", "alias"}}
  \cup {UsedIn(item, id) : id \in {"list", "table", "prototype", None}}

Bodies(item, most) == UNION {[1 .. k -> Callees(item)] : k \in 0 .. most}

Programs ==
  {[symbols |-> ProgramSymbols(shape = "kernel"),
    functions |-> <<Item("f", "f", FALSE, TRUE, NoCalls, <<>>),
                    Item("g", "g", FALSE, TRUE, NoCalls, <<>>),
                    Item("alias", "f", FALSE, TRUE, NoCalls, <<>>),
                    Item("f", "f", FALSE, FALSE, b[1], <<Set(targets)>>),
                    Item("g", "g", FALSE, shape = "open", b[2], <<>>),
                    Item("h", "h", shape = "kernel", FALSE, b[3], <<>>)>>,
    call_tables |-> <<Table(<<Target("g", "g")>>)>>] :
     shape \in {"closed", "open", "kernel"},
     b \in {c \in Bodies(4, 2) \X Bodies(5, 1) \X Bodies(6, 1) :
              Len(c[1]) + Len(c[2]) + Len(c[3]) <= MaxCalls},
     targets \in {<<Target("f", "f"), Target("g", "g")>>, <<Target("alias", "f")>>}}

-----------------------------------------------------------------------------
(* Modules that their owner has edited: each join may be broken, and the use *)
(* of a list may have lost its order or stand elsewhere.                     *)

EditedSymbols(entry, declared) ==
  [id \in {"f", "g", "h", "list", "table", "prototype", "variable"} |->
     CASE id = "f" -> FunctionSymbol("f", entry, declared)
       [] id = "g" -> FunctionSymbol("g", FALSE, 1)
       [] id = "h" -> FunctionSymbol("h", FALSE, 3)
       [] id = "list" -> OtherSymbol("CallTargetSet")
       [] id = "table" -> OtherSymbol("Variable")
       [] id = "prototype" -> OtherSymbol("CallPrototype")
       [] id = "variable" -> OtherSymbol("Variable")]

EditedCalls ==
  {DirectCall("f"), DirectCall("variable"), UsedIn(3, "list"), UsedIn(3, "table"),
   UsedIn(3, "variable"), UsedIn(3, "prototype"),
   [DirectCall("f") EXCEPT !.ranged = FALSE], [DirectCall("f") EXCEPT !.indirect = TRUE],
   [DirectCall("f") EXCEPT !.direct = <<"f", "g">>]}

EditedSets ==
  {<<Set(<<Target("f", "f")>>)>>,
   <<Set(<<Target("f", "f")>>), Set(<<Target("g", "g")>>)>>,
   <<Set(<<Target("g", "g"), Target("f", "g")>>)>>,
   <<Set(<<[Target("f", "f") EXCEPT !.bound = FALSE]>>)>>,
   <<[Set(<<Target("f", "f")>>) EXCEPT !.signature = "int"]>>}

(* The second function: as it was, or with one edit *)
Second ==
  LET f == Item("f", "f", FALSE, FALSE, <<>>, <<>>)
  IN {f, [f EXCEPT !.is_prototype = TRUE], [f EXCEPT !.canonical_function = "g"],
      [f EXCEPT !.signature = "int"], [f EXCEPT !.signature = EntrySignature]}

(* What the first and the third function call, with the list and the table's *)
(* slot that they need                                                       *)
Uses ==
  LET sound == <<Set(<<Target("f", "f")>>)>>
  IN {<<NoCalls, c, sound, "f">> : c \in EditedCalls}
     \cup {<<first, UsedIn(3, "list"), sets, "f">> :
             first \in {NoCalls, <<UsedIn(1, "list")>>}, sets \in EditedSets}
     \cup {<<first, UsedIn(item, "list"), sound, "f">> :
             first \in {NoCalls} \cup {<<UsedIn(order, "list")>> : order \in {Unknown, 1, 3}},
             item \in {Unknown, 2}}
     \cup {<<NoCalls, UsedIn(3, "table"), sound, "g">>}

Edited ==
  {[symbols |-> EditedSymbols(e[1], e[2]),
    functions |-> <<Item("g", "g", FALSE, FALSE, use[1], <<>>), second,
                    Item(third, third, FALSE, FALSE, <<use[2]>>, use[3])>>,
    call_tables |-> <<Table(<<Target("f", use[4])>>)>>] :
     e \in {<<FALSE, 1>>, <<FALSE, 3>>, <<FALSE, Unknown>>, <<TRUE, 2>>},
     second \in Second, third \in {"f", "g", "h"}, use \in Uses}

SomeModules == Edited \cup Programs
=============================================================================
