--------------------------- MODULE MCSymbolTable ---------------------------
(* A finite instance of SymbolTable for TLC: every name is a, or f. *)
EXTENDS SymbolTable, SequencesExt

Event(kind, name, other) == [kind |-> kind, name |-> name, other |-> other]
A(kind) == Event(kind, "a", "a")
F(kind) == Event(kind, "f", "f")

(* A function with declarations around and in a block, and a reference in     *)
(* the block or after it, between two items that may declare the same name    *)
Around == {<<>>, <<A("Variable")>>, <<A("Prototype")>>}
Declares == {<<>>, <<A("Local")>>, <<A("Label")>>, <<A("BranchTargets")>>}
Refers == {A(kind) : kind \in ReferenceKinds}

Nested ==
  {before \o <<F("Definition")>> \o first \o <<F("Open")>> \o inside \o use
    \o <<F("Close")>> \o last \o after :
     before \in Around, after \in Around,
     first \in Declares \cup {<<A("Parameter")>>}, last \in Declares,
     inside \in Declares, use \in {<<r>> : r \in Refers}}
Behind ==
  {<<F("Definition")>> \o first \o <<F("Open")>> \o inside
    \o <<F("Open"), A("Local"), F("Close"), F("Close"), use>> \o after :
     after \in Around, first \in Declares, inside \in Declares, use \in Refers}

(* Module items in any order *)
Items ==
  {<<A("Variable")>>, <<A("Variable"), F("Initializer")>>, <<F("Prototype")>>,
   <<A("Prototype")>>, <<F("Definition"), A("CallTarget")>>,
   <<A("Definition"), F("CallTarget")>>,
   <<Event("Alias", "a", "f")>>, <<Event("Alias", "f", "a")>>}
Modules == {FlattenSeq(items) : items \in [1 .. 4 -> Items]}

(* Each event has the range of its own place; in some modules three events,   *)
(* or two, have one range.                                                    *)
At(events, places) ==
  [i \in DOMAIN events |->
     [kind |-> events[i].kind, name |-> events[i].name, other |-> events[i].other,
      range |-> IF i \in places THEN Min(places) ELSE i]]

Given ==
  UNION {{At(events, {}) : events \in UNION {Nested, Behind, Modules}},
         {At(events, places) : events \in {e \in Modules : Len(e) <= 5},
            places \in {{1, 2}, {1, 3}, {1, 2, 3}}}}

Places == 1 .. 12
=============================================================================
