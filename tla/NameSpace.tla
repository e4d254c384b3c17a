----------------------------- MODULE NameSpace -----------------------------
(***************************************************************************)
(* What one scope of a symbol table promises of its names, with no index:   *)
(* a declaration is an ordinary name, or a group such as %r<100> that       *)
(* stands for %r0 to %r99.                                                  *)
(***************************************************************************)
EXTENDS Integers, Sequences, FiniteSets

CONSTANTS
  Characters,  \* what spellings are made of
  Names,       \* the spellings that are declared, sequences of characters
  Counts       \* the sizes of groups

VARIABLES
  redeclarable,  \* whether a name may be declared again, as in a module's scope
  symbols,       \* what has been declared, in order
  diagnostics

vars == <<redeclarable, symbols, diagnostics>>

Ordinary == -1
NoSymbol == 0

Declarations == [name : Names, count : Counts \cup {Ordinary}]

Digit == <<"0", "1", "2", "3", "4", "5", "6", "7", "8", "9">>
Digits == {"0", "1", "2", "3", "4", "5", "6", "7", "8", "9"}

ASSUME NamesAssumption == Digits \subseteq Characters /\ Names \subseteq Seq(Characters) \ {<<>>}
ASSUME CountsAssumption == Counts \subseteq Nat

Decimal[n \in Nat] ==
  IF n < 10 THEN <<Digit[n + 1]>> ELSE Append(Decimal[n \div 10], Digit[(n % 10) + 1])

Members(symbol) ==
  IF symbol.count = Ordinary THEN {symbol.name}
  ELSE {symbol.name \o Decimal[i] : i \in 0 .. symbol.count - 1}

Earliest(S) == IF S = {} THEN NoSymbol ELSE CHOOSE i \in S : \A j \in S : i <= j

SameName(symbol, declaration) ==
  /\ symbol.name = declaration.name
  /\ symbol.count = Ordinary <=> declaration.count = Ordinary

Again(declaration) ==
  Earliest({i \in DOMAIN symbols : SameName(symbols[i], declaration)})
Overlapping(declaration) ==
  Earliest({i \in DOMAIN symbols : Members(symbols[i]) \cap Members(declaration) # {}})

(* An ordinary name comes before any group; of several groups the earliest   *)
(* does.                                                                     *)
Find(name) ==
  LET named == {i \in DOMAIN symbols : symbols[i].count = Ordinary /\ symbols[i].name = name}
  IN IF named # {} THEN Earliest(named)
     ELSE Earliest({i \in DOMAIN symbols : name \in Members(symbols[i])})

Init == redeclarable \in BOOLEAN /\ symbols = <<>> /\ diagnostics = <<>>

Diagnosed(previous, declaration) ==
  Append(diagnostics, [previous |-> previous, declaration |-> declaration])

Declare(declaration) ==
  /\ UNCHANGED redeclarable
  /\ IF Again(declaration) # NoSymbol
     THEN /\ diagnostics' = IF redeclarable THEN diagnostics
                            ELSE Diagnosed(Again(declaration), declaration)
          /\ UNCHANGED symbols
     ELSE /\ diagnostics' = IF Overlapping(declaration) = NoSymbol THEN diagnostics
                            ELSE Diagnosed(Overlapping(declaration), declaration)
          /\ symbols' = Append(symbols, declaration)

Next == \E declaration \in Declarations : Declare(declaration)

Spec == Init /\ [][Next]_vars
=============================================================================
