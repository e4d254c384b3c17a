---------------------------- MODULE SymbolNames ----------------------------
(***************************************************************************)
(* The indexes of one scope in submod/binding/src/ptx_symbol_table.cpp:     *)
(* exact names, a trie over the characters of group bases, and for every    *)
(* base of a spelling a trie over the bits of its member number.  Symbols   *)
(* are numbered from 1, and NoSymbol is std::nullopt.  The node of a trie   *)
(* is named by the way to it from the root, so that an edge is there when   *)
(* the node is that it leads to.                                            *)
(***************************************************************************)
EXTENDS NameSpace

CONSTANTS
  Bits,        \* the width of a member number: 32 in the code
  MaxDigits,   \* the longest decimal of that width: 10 in the code
  Spellings,   \* what lookup() is asked for
  Most,        \* bound: a scope has at most this many symbols
  MostDiagnosed  \* bound: and this many diagnostics before its last declaration

VARIABLES ordinary_exact, parameterized_exact, parameterized_prefixes, member_prefixes

indexes == <<ordinary_exact, parameterized_exact, parameterized_prefixes, member_prefixes>>

NoMember == -1

(* 2 to the k, and number >> k *)
Power[k \in Nat] == IF k = 0 THEN 1 ELSE 2 * Power[k - 1]
Shifted[k \in Nat] ==
  IF k = 0 THEN [number \in Nat |-> number] ELSE [number \in Nat |-> Shifted[k - 1][number] \div 2]

Numbers == 0 .. Power[Bits] - 1

ASSUME BitsAssumption == Bits \in Nat /\ Counts \subseteq Numbers
ASSUME DigitsAssumption == MaxDigits \in Nat /\ \A n \in Numbers : Len(Decimal[n]) <= MaxDigits
ASSUME SpellingsAssumption == Spellings \subseteq Seq(Characters)
ASSUME BoundsAssumption == Most \in Nat /\ MostDiagnosed \in Nat

(* from_chars() over the suffix *)
Valued == [c \in Digits |-> (CHOOSE i \in DOMAIN Digit : Digit[i] = c) - 1]
Value[suffix \in Seq(Digits)] ==
  IF suffix = <<>> THEN 0
  ELSE 10 * Value[SubSeq(suffix, 1, Len(suffix) - 1)] + Valued[suffix[Len(suffix)]]

LeadingZeroAllowed(suffix) == FALSE
LeadingZero(suffix) == Len(suffix) > 1 /\ suffix[1] = "0"

parseParameterizedIndex(base, name) ==
  LET suffix == SubSeq(name, Len(base) + 1, Len(name))
  IN IF /\ Len(base) < Len(name) /\ Len(suffix) <= MaxDigits /\ name = base \o suffix
        /\ ~LeadingZero(suffix)
        /\ \A i \in DOMAIN suffix : suffix[i] \in Digits
        /\ Value[suffix] \in Numbers
     THEN Value[suffix] ELSE NoMember

keepEarliest(destination, candidate) ==
  IF destination = NoSymbol \/ candidate < destination THEN candidate ELSE destination

(* What a node keeps, one that was not there before too *)
Kept(index, node, symbol) ==
  keepEarliest(IF node \in DOMAIN index THEN index[node] ELSE NoSymbol, symbol)

(* A map's emplace: a key that is there keeps its value. *)
emplace(map, key, value) ==
  [k \in DOMAIN map \cup {key} |-> IF k \in DOMAIN map THEN map[k] ELSE value]

-----------------------------------------------------------------------------
(* The trie over member numbers: a walk descends from the highest bit, and  *)
(* a node is the bit that was taken last with the number down to that bit.  *)

Node(number, bit) == <<bit, Shifted[bit][number]>>
Path(number) == {Node(number, bit) : bit \in 0 .. Bits}

EmptyIndex == [node \in {<<Bits, 0>>} |-> NoSymbol]

indexMemberNumber(index, member, symbol) ==
  [node \in DOMAIN index \cup Path(member) |->
     IF node \in Path(member) THEN Kept(index, node, symbol) ELSE index[node]]

LeftChild(number, bit) == <<bit, 2 * Shifted[bit + 1][number]>>
TurnsRightOrLeft(number, bit) == TRUE
TurnsRight(number, bit) == Shifted[bit][number] % 2 = 1

(* How far the walk to limit gets: the bits whose parent node is there *)
Walked(index, limit) ==
  {bit \in 0 .. Bits - 1 : \A b \in bit + 1 .. Bits : Node(limit, b) \in DOMAIN index}

earliestMemberBelow(index, limit) ==
  IF limit = 0 THEN NoSymbol
  ELSE LET left == {LeftChild(limit, bit) : bit \in {b \in Walked(index, limit) : TurnsRight(limit, b)}}
       IN Earliest({index[node] : node \in left \cap DOMAIN index})

-----------------------------------------------------------------------------
(* The trie over the bases of groups, in which a node is a prefix *)

PrefixesOf(spelling) == {SubSeq(spelling, 1, n) : n \in 0 .. Len(spelling)}

indexParameterizedBase(index, base, symbol) ==
  [prefix \in DOMAIN index \cup PrefixesOf(base) |->
     IF prefix = base THEN Kept(index, base, symbol)
     ELSE IF prefix \in DOMAIN index THEN index[prefix] ELSE NoSymbol]

HasMember(symbol, spelling) ==
  LET member == parseParameterizedIndex(symbols[symbol].name, spelling)
  IN member # NoMember /\ symbols[symbol].count # Ordinary /\ member < symbols[symbol].count

(* The walk ends where the next character has no edge. *)
parameterizedContaining(index, spelling) ==
  LET walked == {n \in 1 .. Len(spelling) : \A m \in 1 .. n : SubSeq(spelling, 1, m) \in DOMAIN index}
      met == {index[SubSeq(spelling, 1, n)] : n \in walked}
  IN Earliest({symbol \in met : symbol # NoSymbol /\ HasMember(symbol, spelling)})

-----------------------------------------------------------------------------
(* The scope *)

BasesOf(spelling) ==
  {SubSeq(spelling, 1, n) : n \in IF Len(spelling) > MaxDigits
                                  THEN Len(spelling) - MaxDigits .. Len(spelling) - 1
                                  ELSE 1 .. Len(spelling) - 1}

indexMemberSpelling(index, spelling, symbol) ==
  LET bases == {base \in BasesOf(spelling) : parseParameterizedIndex(base, spelling) # NoMember}
      Old(base) == IF base \in DOMAIN index THEN index[base] ELSE EmptyIndex
  IN [base \in DOMAIN index \cup bases |->
        IF base \in bases
        THEN indexMemberNumber(Old(base), parseParameterizedIndex(base, spelling), symbol)
        ELSE index[base]]

First(group) == Append(group, "0")

exactSymbol(declaration) ==
  LET exact == IF declaration.count = Ordinary THEN ordinary_exact ELSE parameterized_exact
  IN IF declaration.name \in DOMAIN exact THEN exact[declaration.name] ELSE NoSymbol

overlappingSymbol(declaration) ==
  IF declaration.count = Ordinary
  THEN parameterizedContaining(parameterized_prefixes, declaration.name)
  ELSE IF declaration.count = 0 THEN NoSymbol
  ELSE LET containing == parameterizedContaining(parameterized_prefixes, First(declaration.name))
           member == IF declaration.name \in DOMAIN member_prefixes
                     THEN earliestMemberBelow(member_prefixes[declaration.name], declaration.count)
                     ELSE NoSymbol
       IN IF member = NoSymbol THEN containing ELSE keepEarliest(containing, member)

(* The second test of an overlap, on the names themselves *)
ParameterizedNameContains(base, count, name) ==
  LET member == parseParameterizedIndex(base, name)
  IN member # NoMember /\ member < count

symbolNameSetsOverlap(existing, declaration) ==
  CASE existing.count = Ordinary /\ declaration.count = Ordinary ->
         existing.name = declaration.name
    [] existing.count = Ordinary /\ declaration.count # Ordinary ->
         ParameterizedNameContains(declaration.name, declaration.count, existing.name)
    [] existing.count # Ordinary /\ declaration.count = Ordinary ->
         ParameterizedNameContains(existing.name, existing.count, declaration.name)
    [] OTHER ->
         /\ existing.count # 0 /\ declaration.count # 0
         /\ \/ ParameterizedNameContains(existing.name, existing.count, First(declaration.name))
            \/ ParameterizedNameContains(declaration.name, declaration.count, First(existing.name))

indexSymbol(declaration, id) ==
  IF declaration.count = Ordinary
  THEN /\ ordinary_exact' = emplace(ordinary_exact, declaration.name, id)
       /\ member_prefixes' = indexMemberSpelling(member_prefixes, declaration.name, id)
       /\ UNCHANGED <<parameterized_exact, parameterized_prefixes>>
  ELSE /\ parameterized_exact' = emplace(parameterized_exact, declaration.name, id)
       /\ parameterized_prefixes' =
            indexParameterizedBase(parameterized_prefixes, declaration.name, id)
       /\ member_prefixes' =
            IF declaration.count = 0 THEN member_prefixes
            ELSE indexMemberSpelling(member_prefixes, First(declaration.name), id)
       /\ UNCHANGED ordinary_exact

InitIndexes ==
  /\ Init
  /\ ordinary_exact = <<>> /\ parameterized_exact = <<>> /\ member_prefixes = <<>>
  /\ parameterized_prefixes = [prefix \in {<<>>} |-> NoSymbol]

(* addSymbol() of a name that the scope already has *)
AddAgain(declaration) ==
  /\ exactSymbol(declaration) # NoSymbol
  /\ diagnostics' = IF redeclarable THEN diagnostics
                    ELSE Diagnosed(exactSymbol(declaration), declaration)
  /\ UNCHANGED <<redeclarable, symbols, indexes>>

(* addSymbol() of a new name: an overlap is diagnosed, and added all the same *)
AddNew(declaration) ==
  /\ exactSymbol(declaration) = NoSymbol
  /\ LET overlap == overlappingSymbol(declaration)
     IN diagnostics' =
          IF overlap # NoSymbol /\ symbolNameSetsOverlap(symbols[overlap], declaration)
          THEN Diagnosed(overlap, declaration) ELSE diagnostics
  /\ symbols' = Append(symbols, declaration)
  /\ indexSymbol(declaration, Len(symbols) + 1)
  /\ UNCHANGED redeclarable

addSymbol ==
  /\ Len(symbols) < Most /\ Len(diagnostics) <= MostDiagnosed
  /\ \E declaration \in Declarations : AddAgain(declaration) \/ AddNew(declaration)

SpecIndexes == InitIndexes /\ [][addSymbol]_<<vars, indexes>>

(* One round of lookup()'s loop.  A scope with a single group is not searched *)
(* through its trie.                                                          *)
lookup(name) ==
  IF name \in DOMAIN ordinary_exact THEN ordinary_exact[name]
  ELSE IF Cardinality(DOMAIN parameterized_exact) = 1
  THEN LET group == parameterized_exact[CHOOSE n \in DOMAIN parameterized_exact : TRUE]
       IN IF HasMember(group, name) THEN group ELSE NoSymbol
  ELSE parameterizedContaining(parameterized_prefixes, name)

-----------------------------------------------------------------------------
TypeOK ==
  LET Ids == DOMAIN symbols \cup {NoSymbol}
  IN /\ redeclarable \in BOOLEAN
     /\ symbols \in Seq(Declarations)
     /\ \A i \in DOMAIN diagnostics :
          /\ diagnostics[i].previous \in DOMAIN symbols
          /\ diagnostics[i].declaration \in Declarations
     /\ \A name \in DOMAIN ordinary_exact :
          symbols[ordinary_exact[name]] = [name |-> name, count |-> Ordinary]
     /\ \A name \in DOMAIN parameterized_exact :
          symbols[parameterized_exact[name]].name = name
     /\ \A prefix \in DOMAIN parameterized_prefixes : parameterized_prefixes[prefix] \in Ids
     /\ \A base \in DOMAIN member_prefixes : \A node \in DOMAIN member_prefixes[base] :
          member_prefixes[base][node] \in Ids \ {NoSymbol}

(* The tries decide as the sets of names do: each declaration is diagnosed   *)
(* when a name of it is taken, against the earliest declaration that takes   *)
(* one, and kept or not accordingly (lines 665 to 729).                      *)
ImplementsNameSpace == Spec

(* lookup() gives the symbol that the declarations name: an ordinary name    *)
(* before a group, the earliest of several groups (lines 325 to 352).        *)
LookupIsEarliest == \A name \in Spellings : lookup(name) = Find(name)

(* A scope with no diagnostic is unambiguous: no spelling belongs to two of  *)
(* its symbols, so the order of declarations is immaterial to lookup().      *)
SilentIsUnambiguous ==
  diagnostics = <<>> =>
    \A name \in Spellings : \A i, j \in DOMAIN symbols :
      name \in Members(symbols[i]) \cap Members(symbols[j]) => i = j
=============================================================================
