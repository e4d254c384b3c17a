------------------------- MODULE SymbolTableProofs -------------------------
(***************************************************************************)
(* What build() promises, for every module, name and repetition of ranges:   *)
(* the orders that it gives are those of the text, the scope that a function *)
(* owns is a definition's, aliases are bound in whatever order they stand,   *)
(* every reference means what the text makes it mean, and what is said of    *)
(* the declarations before a use is so.                                      *)
(***************************************************************************)
EXTENDS SymbolTable, FiniteSetTheorems, WellFoundedInduction, TLAPS

LEMMA MinExists ==
  ASSUME NEW S, S \subseteq Nat, S # {}
  PROVE  Min(S) \in S /\ \A x \in S : Min(S) <= x
  <1>1. PICK m \in S : \A u \in S : ~ (<<u, m>> \in OpToRel(<, Nat))
    BY NatLessThanWellFounded, WFMin
  <1>2. \A u \in S : m <= u
    <2> SUFFICES ASSUME NEW u \in S, u < m PROVE FALSE
      OBVIOUS
    <2>1. <<u, m>> \in Nat \X Nat /\ <<u, m>>[1] < <<u, m>>[2]
      OBVIOUS
    <2> QED BY <1>1, <2>1 DEF OpToRel
  <1> QED BY <1>2 DEF Min

-----------------------------------------------------------------------------
(* How the passes walk over the text *)

PassNames == {"index", "collect", "alias", "bindModule", "bindFunctions"}

LEMMA AfterIsNext ==
  /\ After("index") = "collect" /\ After("collect") = "alias"
  /\ After("alias") = "bindModule" /\ After("bindModule") = "bindFunctions"
  /\ After("bindFunctions") = "done"
  <1>1. \A n \in 1 .. 5 : (CHOOSE i \in DOMAIN Passes : Passes[i] = Passes[n]) = n
    BY DEF Passes
  <1> QED BY <1>1 DEF After, Passes

(* A pass moves to the next event that it handles, and skips none. *)
LEMMA FollowingSkips ==
  ASSUME NEW p \in PassNames, text \in Seq(Events), NEW i \in Nat, i >= 1, i <= Len(text) + 1
  PROVE  /\ Following(p, i) \in Nat
         /\ i <= Following(p, i) /\ Following(p, i) <= Len(text) + 1
         /\ Following(p, i) <= Len(text) => Handles(p, Following(p, i))
         /\ \A j \in Positions : i <= j /\ j < Following(p, i) => ~Handles(p, j)
  <1> DEFINE S == {j \in i .. Len(text) : Handles(p, j)} \cup {Len(text) + 1}
             f == Min(S)
  <1>1. Len(text) \in Nat /\ Positions = 1 .. Len(text)
    BY DEF Positions
  <1>2. S \subseteq Nat /\ S # {} /\ Len(text) + 1 \in S
    BY <1>1
  <1>3. f \in S /\ \A x \in S : f <= x
    <2> HIDE DEF S
    <2> QED BY <1>2, MinExists
  <1>4. Following(p, i) = f
    BY DEF Following, PassNames
  <1>5. \A j \in i .. Len(text) : Handles(p, j) => j \in S
    OBVIOUS
  <1>6. f <= Len(text) + 1 /\ i <= f /\ f \in Nat
    BY <1>1, <1>2, <1>3
  <1>7. f <= Len(text) => Handles(p, f)
    BY <1>1, <1>3
  <1>8. ASSUME NEW j \in Positions, i <= j, j < f, Handles(p, j) PROVE FALSE
    <2>1. j \in S
      BY <1>1, <1>5, <1>8
    <2> HIDE DEF f, S
    <2> QED BY <1>1, <1>3, <1>6, <1>8, <2>1
  <1> HIDE DEF f
  <1> QED BY <1>4, <1>6, <1>7, <1>8

WalkInv ==
  /\ text \in Seq(Events)
  /\ pass \in PassNames \cup {"done"}
  /\ at \in Nat /\ at >= 1
  /\ pass # "done" => at <= Len(text) + 1
  /\ pass # "done" /\ at <= Len(text) => Handles(pass, at)

(* One event of a pass: what it skips on the way to the next, it would not   *)
(* have handled.                                                             *)
LEMMA AdvanceSkips ==
  ASSUME WalkInv, pass # "done", at <= Len(text), Advance
  PROVE  /\ WalkInv'
         /\ pass' = pass /\ text' = text
         /\ at < at'
         /\ \A j \in Positions : at < j /\ j < at' => ~Handles(pass, j)
  <1>1. at + 1 \in Nat /\ at + 1 >= 1 /\ at + 1 <= Len(text) + 1 /\ pass \in PassNames
    BY DEF WalkInv
  <1>2. /\ at' = Following(pass, at + 1) /\ text' = text /\ pass' = pass
    BY DEF Advance
  <1>3. /\ at' \in Nat /\ at + 1 <= at' /\ at' <= Len(text) + 1
        /\ at' <= Len(text) => Handles(pass, at')
        /\ \A j \in Positions : at + 1 <= j /\ j < at' => ~Handles(pass, j)
    BY <1>1, <1>2, FollowingSkips DEF WalkInv
  <1>4. Handles(pass, at)' = Handles(pass, at')
    BY <1>2 DEF Handles, InFunction, Item, ItemIn, Max
  <1>5. WalkInv'
    BY <1>1, <1>2, <1>3, <1>4 DEF WalkInv
  <1>6. Positions \subseteq Nat /\ at \in Nat
    BY DEF Positions, WalkInv
  <1> QED BY <1>1, <1>2, <1>3, <1>5, <1>6

LEMMA EndPassSkips ==
  ASSUME WalkInv, EndPass
  PROVE  /\ WalkInv'
         /\ text' = text /\ pass' = After(pass)
         /\ \A j \in Positions : j < at
         /\ pass' # "done" => \A j \in Positions : j < at' => ~Handles(pass', j)
  <1>1. text' = text /\ pass' = After(pass) /\ at' = Following(After(pass), 1) /\ pass \in PassNames
    BY DEF EndPass, WalkInv
  <1>2. pass' \in (PassNames \ {"index"}) \cup {"done"}
    BY <1>1, AfterIsNext DEF PassNames
  <1>3. Len(text) \in Nat /\ Positions = 1 .. Len(text)
    BY DEF WalkInv, Positions
  <1>4. CASE pass' = "done"
    <2>1. at' = 1
      BY <1>1, <1>4 DEF Following
    <2> QED BY <1>1, <1>3, <1>4, <2>1 DEF WalkInv, EndPass
  <1>5. CASE pass' # "done"
    <2>1. After(pass) \in PassNames
      BY <1>1, <1>2, <1>5
    <2>2. /\ at' \in Nat /\ 1 <= at' /\ at' <= Len(text) + 1
          /\ at' <= Len(text) => Handles(After(pass), at')
          /\ \A j \in Positions : 1 <= j /\ j < at' => ~Handles(After(pass), j)
      <3>1. text \in Seq(Events) /\ 1 \in Nat /\ 1 >= 1 /\ 1 <= Len(text) + 1
        BY <1>3 DEF WalkInv
      <3> QED BY <1>1, <2>1, <3>1, FollowingSkips
    <2>3. Handles(pass, at)' = Handles(pass', at')
      BY <1>1 DEF Handles, InFunction, Item, ItemIn, Max
    <2> QED BY <1>1, <1>2, <1>3, <1>5, <2>2, <2>3 DEF WalkInv, EndPass
  <1> QED BY <1>4, <1>5

-----------------------------------------------------------------------------
(* The index of the order of events *)

Ordered(i) == text[i].kind \in OrderedKinds
Indexed == {i \in Positions : Ordered(i) /\ (pass = "index" => i < at)}
Known(i) == text[i].range \in DOMAIN source_orders

OrdersBounded ==
  /\ next_source_order \in Nat
  /\ \A r \in DOMAIN source_orders : source_orders[r] \in Nat /\ source_orders[r] < next_source_order
AmbiguousUnknown == \A r \in ambiguous_source_orders : r \notin DOMAIN source_orders
KnownSeen == \A r \in DOMAIN source_orders : \E i \in Indexed : text[i].range = r
AllSeen == \A i \in Indexed : Known(i) \/ text[i].range \in ambiguous_source_orders
AmbiguousShared ==
  \A r \in ambiguous_source_orders :
    \E i, j \in Indexed : i # j /\ text[i].range = r /\ text[j].range = r
KnownOnce == \A i, j \in Indexed : Known(i) /\ text[i].range = text[j].range => i = j
Monotone ==
  \A i, j \in Indexed :
    i < j /\ Known(i) /\ Known(j) => source_orders[text[i].range] < source_orders[text[j].range]

(* The orders given so far are those of the events that have been indexed.    *)
OrderInv ==
  /\ OrdersBounded /\ AmbiguousUnknown /\ KnownSeen /\ AllSeen
  /\ AmbiguousShared /\ KnownOnce /\ Monotone

LEMMA IndexSteps ==
  ASSUME WalkInv, OrderInv, Working("index"), Advance
  PROVE  /\ Indexed' = Indexed \cup {at}
         /\ at \notin Indexed /\ at \in Positions
         /\ \A i \in Indexed : i < at
         /\ Indexed \subseteq Nat /\ at \in Nat
  <1>1. /\ pass' = pass /\ text' = text /\ at < at' /\ at' \in Nat /\ at \in Nat
        /\ \A j \in Positions : at < j /\ j < at' => ~Handles(pass, j)
    BY AdvanceSkips DEF Working, WalkInv
  <1>2. Positions' = Positions /\ Positions = 1 .. Len(text) /\ Len(text) \in Nat
    BY <1>1 DEF Positions, WalkInv
  <1>3. pass = "index" /\ at \in Positions
    BY <1>1, <1>2 DEF Working, WalkInv
  <1>4. \A j : Handles("index", j) <=> Ordered(j)
    BY DEF Handles, Ordered
  <1>5. Ordered(at)
    BY <1>3, <1>4 DEF WalkInv, Working
  <1>6. \A j \in Positions : at < j /\ j < at' => ~Ordered(j)
    BY <1>1, <1>3, <1>4
  <1>7. Indexed' = {i \in Positions : Ordered(i) /\ i < at'}
    BY <1>1, <1>2, <1>3 DEF Indexed, Ordered
  <1>8. Indexed = {i \in Positions : Ordered(i) /\ i < at}
    BY <1>3 DEF Indexed
  <1>9. Indexed' = Indexed \cup {at}
    BY <1>1, <1>2, <1>3, <1>5, <1>6, <1>7, <1>8
  <1> QED BY <1>1, <1>2, <1>3, <1>8, <1>9

LEMMA IndexAmbiguousStep ==
  ASSUME WalkInv, OrderInv, IndexAmbiguous
  PROVE  OrderInv'
  <1> USE DEF OrderInv
  <1>1. /\ Indexed' = Indexed \cup {at}
        /\ at \notin Indexed
        /\ \A i \in Indexed : i < at
        /\ Indexed \subseteq Nat /\ at \in Nat
    BY IndexSteps DEF IndexAmbiguous
  <1>2. text' = text /\ source_orders' = source_orders
        /\ ambiguous_source_orders' = ambiguous_source_orders
        /\ next_source_order' = next_source_order
        /\ text[at].range \in ambiguous_source_orders
    BY DEF IndexAmbiguous, Advance, order_vars, event
  <1>3. ~Known(at)
    BY <1>2 DEF AmbiguousUnknown, Known
  <1>4. OrdersBounded' /\ AmbiguousUnknown'
    BY <1>2 DEF OrdersBounded, AmbiguousUnknown
  <1>5. AllSeen' /\ KnownOnce'
    BY <1>1, <1>2, <1>3 DEF AllSeen, KnownOnce, AmbiguousUnknown, Known
  <1>6. AmbiguousShared' /\ KnownSeen'
    BY <1>1, <1>2 DEF AmbiguousShared, KnownSeen
  <1>7. Monotone'
    BY <1>1, <1>2, <1>3 DEF Monotone, Known
  <1> QED BY <1>4, <1>5, <1>6, <1>7

LEMMA IndexNewStep ==
  ASSUME WalkInv, OrderInv, IndexNew, NEW r, r = text[at].range
  PROVE  OrderInv'
  <1> USE DEF OrderInv
  <1>1. /\ Indexed' = Indexed \cup {at}
        /\ at \notin Indexed
        /\ \A i \in Indexed : i < at
        /\ Indexed \subseteq Nat /\ at \in Nat
    BY IndexSteps DEF IndexNew
  <1>2. /\ text' = text /\ next_source_order' = next_source_order + 1
        /\ ambiguous_source_orders' = ambiguous_source_orders
        /\ r \notin ambiguous_source_orders /\ r \notin DOMAIN source_orders
        /\ DOMAIN source_orders' = DOMAIN source_orders \cup {r}
        /\ source_orders'[r] = next_source_order
        /\ \A q \in DOMAIN source_orders : source_orders'[q] = source_orders[q]
    BY DEF IndexNew, Advance, event, OrderAfter
  <1>3. \A i \in Indexed : text[i].range # r
    BY <1>2 DEF AllSeen, Known
  <1>4. \A i \in Indexed : Known(i)' <=> Known(i)
    BY <1>2, <1>3 DEF Known
  <1>5. \A i \in Indexed' : i \in Indexed \/ (text[i].range = r /\ i = at)
    BY <1>1
  <1>6. OrdersBounded' /\ AmbiguousUnknown'
    BY <1>2 DEF OrdersBounded, AmbiguousUnknown
  <1>7. AllSeen' /\ KnownOnce'
    BY <1>2, <1>3, <1>4, <1>5 DEF AllSeen, KnownOnce, Known
  <1>8. AmbiguousShared' /\ KnownSeen'
    BY <1>1, <1>2 DEF AmbiguousShared, KnownSeen
  <1>9. Monotone'
    <2> SUFFICES ASSUME NEW i \in Indexed', NEW j \in Indexed', i < j, Known(i)', Known(j)'
                 PROVE  source_orders'[text'[i].range] < source_orders'[text'[j].range]
      BY DEF Monotone
    <2>1. i \in Indexed
      BY <1>1
    <2>2. /\ text[i].range \in DOMAIN source_orders
          /\ source_orders'[text'[i].range] = source_orders[text[i].range]
      BY <1>2, <1>4, <2>1 DEF Known
    <2>3. CASE j = at
      BY <1>2, <2>2, <2>3 DEF OrdersBounded
    <2>4. CASE j \in Indexed
      BY <1>2, <1>4, <2>1, <2>2, <2>4 DEF Monotone, Known
    <2> QED BY <1>1, <2>3, <2>4
  <1> QED BY <1>6, <1>7, <1>8, <1>9

LEMMA IndexRepeatedStep ==
  ASSUME WalkInv, OrderInv, IndexRepeated, NEW r, r = text[at].range
  PROVE  OrderInv'
  <1> USE DEF OrderInv
  <1>1. /\ Indexed' = Indexed \cup {at}
        /\ at \notin Indexed
        /\ \A i \in Indexed : i < at
        /\ Indexed \subseteq Nat /\ at \in Nat
    BY IndexSteps DEF IndexRepeated
  <1>2. /\ text' = text /\ next_source_order' = next_source_order + 1
        /\ ambiguous_source_orders' = ambiguous_source_orders \cup {r}
        /\ r \in DOMAIN source_orders
        /\ DOMAIN source_orders' = DOMAIN source_orders \ {r}
        /\ \A q \in DOMAIN source_orders' : source_orders'[q] = source_orders[q]
    BY DEF IndexRepeated, Advance, event, OrderAfter, AmbiguousAfter
  <1>3. \A i \in Indexed : Known(i)' <=> Known(i) /\ text[i].range # r
    BY <1>2 DEF Known
  <1>4. \A i \in Indexed' : i \in Indexed \/ (i = at /\ text[i].range = r /\ ~Known(i)')
    BY <1>1, <1>2 DEF Known
  <1>5. OrdersBounded' /\ AmbiguousUnknown'
    BY <1>2 DEF OrdersBounded, AmbiguousUnknown
  <1>6. AllSeen' /\ KnownOnce'
    BY <1>2, <1>3, <1>4 DEF AllSeen, KnownOnce
  <1>7. AmbiguousShared'
    <2>1. \A q \in ambiguous_source_orders :
            \E i, j \in Indexed' : i # j /\ text'[i].range = q /\ text'[j].range = q
      BY <1>1, <1>2 DEF AmbiguousShared
    <2>2. \E i \in Indexed : text[i].range = r
      BY <1>2 DEF KnownSeen
    <2>3. \E i, j \in Indexed' : i # j /\ text'[i].range = r /\ text'[j].range = r
      BY <1>1, <1>2, <2>2
    <2> QED BY <1>2, <2>1, <2>3 DEF AmbiguousShared
  <1>8. Monotone'
    BY <1>1, <1>2, <1>3, <1>4 DEF Monotone, Known
  <1>9. KnownSeen'
    BY <1>1, <1>2 DEF KnownSeen
  <1> QED BY <1>5, <1>6, <1>7, <1>8, <1>9

LEMMA OrderUnindexed ==
  ASSUME WalkInv, OrderInv, UNCHANGED <<text, order_vars>>, Indexed' = Indexed
  PROVE  OrderInv'
  BY DEF OrderInv, OrdersBounded, AmbiguousUnknown, KnownSeen, AllSeen, AmbiguousShared,
         KnownOnce, Monotone, Known, order_vars

LEMMA OrderInit ==
  ASSUME Init
  PROVE  WalkInv /\ OrderInv
  <1>1. text \in Seq(Events) /\ pass = "index" /\ at = Following("index", 1)
        /\ Len(text) \in Nat /\ Positions = 1 .. Len(text) /\ "index" \in PassNames
    BY TextsAssumption DEF Init, Positions, PassNames
  <1>2. /\ at \in Nat /\ 1 <= at /\ at <= Len(text) + 1
        /\ at <= Len(text) => Handles("index", at)
        /\ \A j \in Positions : 1 <= j /\ j < at => ~Handles("index", j)
    <2>1. 1 \in Nat /\ 1 >= 1 /\ 1 <= Len(text) + 1
      BY <1>1
    <2> QED BY <1>1, <2>1, FollowingSkips
  <1>3. WalkInv
    BY <1>1, <1>2 DEF WalkInv
  <1>4. \A j : Handles("index", j) <=> Ordered(j)
    BY DEF Handles, Ordered
  <1>5. Indexed = {}
    BY <1>1, <1>2, <1>4 DEF Indexed
  <1>6. OrderInv
    BY <1>5 DEF OrderInv, OrdersBounded, AmbiguousUnknown, KnownSeen, AllSeen, AmbiguousShared,
         KnownOnce, Monotone, Init
  <1> QED BY <1>3, <1>6

LEMMA IndexedEndPass ==
  ASSUME WalkInv, EndPass
  PROVE  Indexed' = Indexed
  <1>1. /\ text' = text /\ pass' = After(pass)
        /\ \A j \in Positions : j < at
    BY EndPassSkips
  <1>2. pass' # "index"
    BY <1>1, AfterIsNext DEF EndPass, WalkInv, PassNames
  <1>3. Positions' = Positions
    BY <1>1 DEF Positions
  <1> QED BY <1>1, <1>2, <1>3 DEF Indexed, Ordered

LEMMA IndexedLater ==
  ASSUME Advance, pass # "index"
  PROVE  Indexed' = Indexed
  BY DEF Indexed, Ordered, Positions, Advance

LEMMA OrderStep ==
  ASSUME WalkInv, OrderInv, [Next]_vars
  PROVE  (WalkInv /\ OrderInv)'
  <1>1. CASE IndexAmbiguous \/ IndexNew \/ IndexRepeated
    <2>1. WalkInv'
      BY <1>1, AdvanceSkips DEF IndexAmbiguous, IndexNew, IndexRepeated, Working
    <2> QED BY <1>1, <2>1, IndexAmbiguousStep, IndexNewStep, IndexRepeatedStep
  <1>2. CASE \/ CollectVariable \/ CollectFunction \/ CollectFunctionWide \/ CollectBlock
             \/ EndBlock \/ CollectAlias \/ DropAlias
             \/ BindReference \/ BindFunction \/ BindBlock
    <2>1. Advance /\ UNCHANGED order_vars /\ pass # "index" /\ pass # "done" /\ at <= Len(text)
      BY <1>2 DEF CollectVariable, CollectFunction, CollectFunctionWide, CollectBlock, EndBlock,
                  CollectAlias, DropAlias, BindReference, BindFunction, BindBlock, Working
    <2>2. WalkInv' /\ text' = text
      BY <2>1, AdvanceSkips
    <2> QED BY <2>1, <2>2, IndexedLater, OrderUnindexed
  <1>3. CASE EndPass
    <2>1. WalkInv' /\ text' = text
      BY <1>3, EndPassSkips
    <2> QED BY <1>3, <2>1, IndexedEndPass, OrderUnindexed DEF EndPass
  <1>4. CASE UNCHANGED vars
    <2>1. text' = text /\ pass' = pass /\ at' = at /\ UNCHANGED order_vars
      BY <1>4 DEF vars, order_vars
    <2>2. Handles(pass, at)' = Handles(pass', at')
      BY <2>1 DEF Handles, InFunction, Item, ItemIn, Max
    <2>3. WalkInv'
      BY <2>1, <2>2 DEF WalkInv
    <2>4. Indexed' = Indexed
      BY <2>1 DEF Indexed, Ordered, Positions
    <2> QED BY <2>1, <2>3, <2>4, OrderUnindexed
  <1> QED BY <1>1, <1>2, <1>3, <1>4 DEF Next, Returned

(* Every event is indexed once its pass is over: what the later passes and    *)
(* hasPriorDeclaration() read has an order exactly for the ranges that one    *)
(* ordered event has, and compares as the text does (lines 380 to 396).       *)
OrdersAreTextual ==
  pass # "index" =>
    \A i \in Positions : text[i].kind \in OrderedKinds =>
      /\ Known(i) <=> ~RangeIsShared(i)
      /\ \A j \in Positions :
           text[j].kind \in OrderedKinds /\ Known(i) /\ Known(j) =>
             (i < j <=> source_orders[text[i].range] < source_orders[text[j].range])

(* The orders are the text's, for every module and every repetition of ranges *)
THEOREM OrderCorrect == Spec => []OrdersAreTextual
  <1>1. Spec => [](WalkInv /\ OrderInv)
    BY OrderInit, OrderStep, PTL DEF Spec
  <1>2. WalkInv /\ OrderInv => OrdersAreTextual
    <2> SUFFICES ASSUME WalkInv, OrderInv, pass # "index",
                        NEW i \in Positions, text[i].kind \in OrderedKinds
                 PROVE  /\ Known(i) <=> ~RangeIsShared(i)
                        /\ \A j \in Positions :
                             text[j].kind \in OrderedKinds /\ Known(i) /\ Known(j) =>
                               (i < j <=>
                                source_orders[text[i].range] < source_orders[text[j].range])
      BY DEF OrdersAreTextual
    <2>1. \A j \in Positions : text[j].kind \in OrderedKinds => j \in Indexed
      BY DEF Indexed, Ordered
    <2>2. Positions \subseteq Nat
      BY DEF WalkInv, Positions
    <2>3. ASSUME Known(i) PROVE ~RangeIsShared(i)
      BY <2>1, <2>3 DEF RangeIsShared, OrderInv, KnownOnce
    <2>4. ASSUME ~Known(i) PROVE RangeIsShared(i)
      <3>1. PICK j \in Indexed, k \in Indexed :
              j # k /\ text[j].range = text[i].range /\ text[k].range = text[i].range
        BY <2>1, <2>4 DEF OrderInv, AllSeen, AmbiguousShared
      <3> QED BY <3>1 DEF RangeIsShared, Indexed, Ordered
    <2>5. ASSUME NEW j \in Positions, text[j].kind \in OrderedKinds, Known(i), Known(j)
          PROVE  i < j <=> source_orders[text[i].range] < source_orders[text[j].range]
      <3>1. source_orders[text[i].range] \in Nat /\ source_orders[text[j].range] \in Nat
        BY <2>5 DEF Known, OrderInv, OrdersBounded
      <3>2. i \in Indexed /\ j \in Indexed /\ i \in Nat /\ j \in Nat
        BY <2>1, <2>2, <2>5
      <3>3. i < j => source_orders[text[i].range] < source_orders[text[j].range]
        BY <2>5, <3>2 DEF OrderInv, Monotone
      <3>4. j < i => source_orders[text[j].range] < source_orders[text[i].range]
        BY <2>5, <3>2 DEF OrderInv, Monotone
      <3> QED BY <3>1, <3>2, <3>3, <3>4
    <2> QED BY <2>3, <2>4, <2>5
  <1> QED BY <1>1, <1>2, PTL

-----------------------------------------------------------------------------
(* Sequences whose elements have no type *)

IsSeq(s) == \E S : s \in Seq(S)

LEMMA AppendKeeps ==
  ASSUME NEW s, IsSeq(s), NEW e
  PROVE  /\ IsSeq(Append(s, e)) /\ Len(s) \in Nat /\ DOMAIN s = 1 .. Len(s)
         /\ Len(Append(s, e)) = Len(s) + 1
         /\ DOMAIN Append(s, e) = 1 .. Len(s) + 1
         /\ \A i \in DOMAIN s : Append(s, e)[i] = s[i]
         /\ Append(s, e)[Len(s) + 1] = e
  <1>1. PICK S : s \in Seq(S)
    BY DEF IsSeq
  <1>2. s \in Seq(S \cup {e}) /\ e \in S \cup {e}
    BY <1>1
  <1>3. Append(s, e) \in Seq(S \cup {e})
    BY <1>2
  <1> QED BY <1>2, <1>3 DEF IsSeq

LEMMA ExceptKeeps ==
  ASSUME NEW s, IsSeq(s), NEW e, NEW i \in DOMAIN s
  PROVE  /\ IsSeq([s EXCEPT ![i] = e])
         /\ DOMAIN [s EXCEPT ![i] = e] = DOMAIN s
         /\ [s EXCEPT ![i] = e][i] = e
         /\ \A j \in DOMAIN s \ {i} : [s EXCEPT ![i] = e][j] = s[j]
  <1>1. PICK S : s \in Seq(S)
    BY DEF IsSeq
  <1>2. s \in Seq(S \cup {e}) /\ e \in S \cup {e}
    BY <1>1
  <1>3. [s EXCEPT ![i] = e] \in Seq(S \cup {e})
    BY <1>2
  <1>4. s \in [DOMAIN s -> S \cup {e}]
    BY <1>2
  <1> QED BY <1>3, <1>4 DEF IsSeq

-----------------------------------------------------------------------------
(* The symbols of a scope *)

SymbolFields == {"scope", "kind", "name", "at", "owned_scope", "canonical_function"}
SymbolsTyped == IsSeq(symbols) /\ \A i \in DOMAIN symbols : DOMAIN symbols[i] = SymbolFields

LEMMA ExactIs ==
  ASSUME IsSeq(symbols), NEW scope, NEW name, NEW id, id = exactSymbol(scope, name)
  PROVE  /\ id \in Nat
         /\ IsNew(id) => \A i \in DOMAIN symbols :
                           ~(symbols[i].scope = scope /\ symbols[i].name = name)
         /\ ~IsNew(id) => /\ id \in DOMAIN symbols
                          /\ symbols[id].scope = scope /\ symbols[id].name = name
  <1> DEFINE S == {i \in DOMAIN symbols : symbols[i].scope = scope /\ symbols[i].name = name}
             T == S \cup {Len(symbols) + 1}
  <1>1. Len(symbols) \in Nat /\ DOMAIN symbols = 1 .. Len(symbols)
    BY DEF IsSeq
  <1>2. T \subseteq Nat /\ T # {} /\ \A i \in S : i < Len(symbols) + 1
    BY <1>1
  <1>3. id = Min(T)
    BY DEF exactSymbol
  <1>4. id \in T /\ \A x \in T : id <= x
    <2> HIDE DEF S, T
    <2> QED BY <1>2, <1>3, MinExists
  <1>5. IsNew(id) => S = {}
    BY <1>1, <1>2, <1>4 DEF IsNew
  <1>6. ~IsNew(id) => id \in S
    BY <1>4 DEF IsNew
  <1> QED BY <1>2, <1>4, <1>5, <1>6

LEMMA WithIs ==
  ASSUME SymbolsTyped, NEW scope, NEW kind, NEW name, NEW id, id = exactSymbol(scope, name),
         NEW w, w = WithSymbol(scope, kind, name)
  PROVE  /\ IsSeq(w) /\ id \in DOMAIN w /\ DOMAIN symbols \subseteq DOMAIN w
         /\ \A i \in DOMAIN symbols : w[i] = symbols[i]
         /\ \A i \in DOMAIN w : i \in DOMAIN symbols \/ (i = id /\ IsNew(id))
         /\ w[id].scope = scope /\ w[id].name = name
         /\ IsNew(id) => w[id].owned_scope = NoScope /\ id \notin DOMAIN symbols
         /\ \A i \in DOMAIN w : DOMAIN w[i] = SymbolFields
  <1> DEFINE e == [scope |-> scope, kind |-> kind, name |-> name, at |-> at,
                   owned_scope |-> NoScope, canonical_function |-> NoSymbol]
  <1>1. DOMAIN e = SymbolFields /\ e.scope = scope /\ e.name = name /\ e.owned_scope = NoScope
    BY DEF SymbolFields
  <1>2. w = IF IsNew(id) THEN Append(symbols, e) ELSE symbols
    BY DEF WithSymbol
  <1> HIDE DEF e
  <1>3. Len(symbols) \in Nat /\ DOMAIN symbols = 1 .. Len(symbols)
    BY AppendKeeps DEF SymbolsTyped
  <1>4. CASE IsNew(id)
    <2>1. /\ IsSeq(w) /\ DOMAIN w = 1 .. Len(symbols) + 1
          /\ \A i \in DOMAIN symbols : w[i] = symbols[i]
          /\ w[Len(symbols) + 1] = e
      BY <1>2, <1>4, AppendKeeps DEF SymbolsTyped
    <2>2. id = Len(symbols) + 1
      BY <1>4 DEF IsNew
    <2> QED BY <1>1, <1>3, <1>4, <2>1, <2>2 DEF SymbolsTyped
  <1>5. CASE ~IsNew(id)
    BY <1>2, <1>5, ExactIs DEF SymbolsTyped
  <1> QED BY <1>4, <1>5

-----------------------------------------------------------------------------
(* The scopes that symbols own *)

(* Definitions that the second pass has been through *)
Collected ==
  {d \in Positions : /\ text[d].kind = "Definition" /\ pass # "index"
                     /\ pass = "collect" => d < at}

Unique ==
  \A i, j \in DOMAIN symbols :
    symbols[i].scope = symbols[j].scope /\ symbols[i].name = symbols[j].name => i = j

(* scope is that of a function called name, and of a definition if there is one *)
OwnedFor(scope, name) ==
  /\ scope \in DOMAIN scopes /\ scopes[scope].at \in Positions
  /\ text[scopes[scope].at].kind \in FunctionKinds
  /\ text[scopes[scope].at].name = name
  /\ (\E d \in Collected : text[d].name = name) => text[scopes[scope].at].kind = "Definition"

OwnersOwn ==
  \A i \in DOMAIN symbols : symbols[i].owned_scope # NoScope =>
    /\ symbols[i].scope = ModuleScope
    /\ OwnedFor(symbols[i].owned_scope, symbols[i].name)

DefinitionsOwned ==
  \A d \in Collected : \E i \in DOMAIN symbols :
    /\ symbols[i].scope = ModuleScope /\ symbols[i].name = text[d].name
    /\ symbols[i].owned_scope # NoScope

(* A symbol owns a definition as soon as one of its name has been collected;  *)
(* a later prototype cannot take it away, for no scope has two symbols of     *)
(* one name.                                                                  *)
OwnInv == SymbolsTyped /\ IsSeq(scopes) /\ Unique /\ OwnersOwn /\ DefinitionsOwned

(* Steps that add symbols which own nothing, or scopes, but no definition *)
LEMMA OwnKept ==
  ASSUME OwnInv, text' = text, Collected' = Collected,
         SymbolsTyped', IsSeq(scopes'), Unique',
         DOMAIN scopes \subseteq DOMAIN scopes',
         \A s \in DOMAIN scopes : scopes'[s] = scopes[s],
         DOMAIN symbols \subseteq DOMAIN symbols',
         \A i \in DOMAIN symbols : /\ symbols'[i].scope = symbols[i].scope
                                   /\ symbols'[i].name = symbols[i].name
                                   /\ symbols'[i].owned_scope = symbols[i].owned_scope,
         \A i \in DOMAIN symbols' \ DOMAIN symbols : symbols'[i].owned_scope = NoScope
  PROVE  OwnInv'
  <1>1. \A scope, name : OwnedFor(scope, name) => OwnedFor(scope, name)'
    BY DEF OwnedFor, Positions
  <1>2. OwnersOwn'
    <2> SUFFICES ASSUME NEW i \in DOMAIN symbols', symbols'[i].owned_scope # NoScope
                 PROVE  /\ symbols'[i].scope = ModuleScope
                        /\ OwnedFor(symbols[i].owned_scope, symbols[i].name)'
      BY DEF OwnersOwn, NoScope, ModuleScope
    <2>1. i \in DOMAIN symbols /\ symbols[i].owned_scope # NoScope
      OBVIOUS
    <2>2. symbols[i].scope = ModuleScope /\ OwnedFor(symbols[i].owned_scope, symbols[i].name)
      BY <2>1 DEF OwnInv, OwnersOwn
    <2> QED BY <1>1, <2>1, <2>2 DEF OwnedFor, Positions
  <1>3. DefinitionsOwned'
    BY DEF OwnInv, DefinitionsOwned, NoScope, ModuleScope
  <1> QED BY <1>2, <1>3 DEF OwnInv

(* Adding a symbol keeps the names of a scope apart. *)
LEMMA WithUnique ==
  ASSUME OwnInv, NEW scope, NEW kind, NEW name, NEW w, w = WithSymbol(scope, kind, name)
  PROVE  \A i, j \in DOMAIN w : w[i].scope = w[j].scope /\ w[i].name = w[j].name => i = j
  <1>1. PICK id : id = exactSymbol(scope, name)
    OBVIOUS
  <1>2. SymbolsTyped /\ IsSeq(symbols)
    BY DEF OwnInv, SymbolsTyped
  <1>3. \A i \in DOMAIN w : i \in DOMAIN symbols \/ (i = id /\ IsNew(id))
    BY <1>1, <1>2, WithIs
  <1>4. \A i \in DOMAIN symbols : w[i] = symbols[i]
    BY <1>1, <1>2, WithIs
  <1>5. w[id].scope = scope /\ w[id].name = name
    BY <1>1, <1>2, WithIs
  <1>6. IsNew(id) => \A i \in DOMAIN symbols :
                       ~(symbols[i].scope = scope /\ symbols[i].name = name)
    BY <1>1, <1>2, ExactIs
  <1> QED BY <1>3, <1>4, <1>5, <1>6 DEF OwnInv, Unique

LEMMA CollectedSteps ==
  ASSUME WalkInv, Working("collect"), Advance
  PROVE  /\ at \in Positions /\ pass = "collect" /\ pass' = pass /\ text' = text
         /\ text[at].kind # "Definition" => Collected' = Collected
         /\ text[at].kind = "Definition" => Collected' = Collected \cup {at}
  <1>1. /\ pass' = pass /\ text' = text /\ at < at' /\ at' \in Nat /\ at \in Nat
        /\ \A j \in Positions : at < j /\ j < at' => ~Handles(pass, j)
    BY AdvanceSkips DEF Working, WalkInv
  <1>2. Positions' = Positions /\ Positions = 1 .. Len(text) /\ Len(text) \in Nat
    BY <1>1 DEF Positions, WalkInv
  <1>3. pass = "collect" /\ at \in Positions
    BY <1>1, <1>2 DEF Working, WalkInv
  <1>4. \A j : text[j].kind = "Definition" => Handles("collect", j)
    BY DEF Handles, ReferenceKinds
  <1>5. \A j \in Positions : at < j /\ j < at' => text[j].kind # "Definition"
    BY <1>1, <1>3, <1>4
  <1>6. Collected' = {d \in Positions : text[d].kind = "Definition" /\ d < at'}
    BY <1>1, <1>2, <1>3 DEF Collected
  <1>7. Collected = {d \in Positions : text[d].kind = "Definition" /\ d < at}
    BY <1>3 DEF Collected
  <1> QED BY <1>1, <1>2, <1>3, <1>5, <1>6, <1>7

LEMMA CollectedElsewhere ==
  ASSUME WalkInv, Advance, pass # "collect"
  PROVE  Collected' = Collected
  BY DEF Collected, Positions, Advance

LEMMA CollectedEndPass ==
  ASSUME WalkInv, EndPass
  PROVE  Collected' = Collected
  <1>1. /\ text' = text /\ pass' = After(pass)
        /\ \A j \in Positions : j < at
        /\ pass' # "done" => \A j \in Positions : j < at' => ~Handles(pass', j)
    BY EndPassSkips
  <1>2. Positions' = Positions /\ pass \in PassNames
    BY <1>1 DEF Positions, EndPass, WalkInv
  <1>3. CASE pass = "index"
    <2>1. pass' = "collect"
      BY <1>1, <1>3, AfterIsNext
    <2>2. \A j : text[j].kind = "Definition" => Handles("collect", j)
      BY DEF Handles, ReferenceKinds
    <2> QED BY <1>1, <1>2, <1>3, <2>1, <2>2 DEF Collected
  <1>4. CASE pass # "index"
    <2>1. pass' # "index" /\ pass' # "collect"
      BY <1>1, <1>2, <1>4, AfterIsNext DEF PassNames
    <2> QED BY <1>1, <1>2, <1>4, <2>1 DEF Collected
  <1> QED BY <1>3, <1>4

(* addSymbol() alone leaves what is owned as it is. *)
LEMMA OwnWith ==
  ASSUME OwnInv, text' = text, Collected' = Collected, scopes' = scopes,
         NEW scope, NEW kind, NEW name, symbols' = WithSymbol(scope, kind, name)
  PROVE  OwnInv'
  <1>1. PICK id : id = exactSymbol(scope, name)
    OBVIOUS
  <1>2. SymbolsTyped /\ IsSeq(scopes)
    BY DEF OwnInv
  <1>3. /\ IsSeq(symbols') /\ DOMAIN symbols \subseteq DOMAIN symbols'
        /\ \A i \in DOMAIN symbols : symbols'[i] = symbols[i]
        /\ \A i \in DOMAIN symbols' : i \in DOMAIN symbols \/ (i = id /\ IsNew(id))
        /\ IsNew(id) => symbols'[id].owned_scope = NoScope
        /\ \A i \in DOMAIN symbols' : DOMAIN symbols'[i] = SymbolFields
    BY <1>1, <1>2, WithIs
  <1>4. SymbolsTyped'
    BY <1>3 DEF SymbolsTyped
  <1>5. Unique'
    BY WithUnique DEF Unique
  <1> QED BY <1>2, <1>3, <1>4, <1>5, OwnKept

LEMMA OwnSame ==
  ASSUME OwnInv, text' = text, Collected' = Collected, scopes' = scopes, symbols' = symbols
  PROVE  OwnInv'
  BY OwnKept DEF OwnInv, SymbolsTyped, Unique

LEMMA OwnBlock ==
  ASSUME OwnInv, text' = text, Collected' = Collected, symbols' = symbols,
         NEW scope, scopes' = Append(scopes, scope)
  PROVE  OwnInv'
  <1>1. IsSeq(scopes)
    BY DEF OwnInv
  <1>2. /\ IsSeq(scopes') /\ DOMAIN scopes \subseteq DOMAIN scopes'
        /\ \A s \in DOMAIN scopes : scopes'[s] = scopes[s]
    BY <1>1, AppendKeeps
  <1> QED BY <1>2, OwnKept DEF OwnInv, SymbolsTyped, Unique

LEMMA OwnAlias ==
  ASSUME WalkInv, OwnInv, CollectAlias
  PROVE  OwnInv'
  <1>1. PICK id : id = exactSymbol(ModuleScope, event.name)
    OBVIOUS
  <1>2. PICK w : w = WithSymbol(ModuleScope, "Function", event.name)
    OBVIOUS
  <1>3. PICK c : c = exactSymbol(ModuleScope, event.other)
    OBVIOUS
  <1>4. /\ text' = text /\ scopes' = scopes
        /\ symbols' = IF w[id].kind # "Function" THEN w
                      ELSE [w EXCEPT ![id].canonical_function = c]
    BY <1>1, <1>2, <1>3 DEF CollectAlias, Advance
  <1>5. Collected' = Collected
    BY CollectedElsewhere DEF CollectAlias, Working
  <1>6. SymbolsTyped /\ IsSeq(scopes)
    BY DEF OwnInv
  <1>7. /\ IsSeq(w) /\ DOMAIN symbols \subseteq DOMAIN w /\ id \in DOMAIN w
        /\ \A i \in DOMAIN symbols : w[i] = symbols[i]
        /\ \A i \in DOMAIN w : i \in DOMAIN symbols \/ (i = id /\ IsNew(id))
        /\ IsNew(id) => w[id].owned_scope = NoScope
        /\ \A i \in DOMAIN w : DOMAIN w[i] = SymbolFields
    BY <1>1, <1>2, <1>6, WithIs
  <1>8. \A i, j \in DOMAIN w : w[i].scope = w[j].scope /\ w[i].name = w[j].name => i = j
    BY <1>2, WithUnique
  <1>9. /\ IsSeq(symbols') /\ DOMAIN symbols' = DOMAIN w
        /\ \A i \in DOMAIN w :
             /\ symbols'[i].scope = w[i].scope /\ symbols'[i].name = w[i].name
             /\ symbols'[i].owned_scope = w[i].owned_scope
             /\ DOMAIN symbols'[i] = SymbolFields
    <2> DEFINE e == [w[id] EXCEPT !.canonical_function = c]
    <2>1. /\ DOMAIN e = SymbolFields
          /\ e.scope = w[id].scope /\ e.name = w[id].name /\ e.owned_scope = w[id].owned_scope
      BY <1>7 DEF SymbolFields
    <2>2. symbols' = w \/ symbols' = [w EXCEPT ![id] = e]
      BY <1>4
    <2> HIDE DEF e
    <2> QED BY <1>7, <2>1, <2>2, ExceptKeeps
  <1>10. SymbolsTyped' /\ Unique'
    BY <1>8, <1>9 DEF SymbolsTyped, Unique
  <1> QED BY <1>4, <1>5, <1>6, <1>7, <1>9, <1>10, OwnKept

(* A definition takes its symbol over, a prototype only one without a scope. *)
LEMMA OwnFunction ==
  ASSUME WalkInv, OwnInv, CollectFunction
  PROVE  OwnInv'
  <1>1. PICK id : id = exactSymbol(ModuleScope, event.name)
    OBVIOUS
  <1>2. PICK w : w = WithSymbol(ModuleScope, "Function", event.name)
    OBVIOUS
  <1>3. PICK e : e = OwnedScope(w[id], Len(scopes) + 1, event.kind = "Definition")
    OBVIOUS
  <1>4. PICK new : new = [kind |-> "Function", parent |-> ModuleScope, at |-> at]
    OBVIOUS
  <1>5. /\ symbols' = [w EXCEPT ![id] = e] /\ scopes' = Append(scopes, new) /\ new.at = at
        /\ event = text[at] /\ text[at].kind \in FunctionKinds
    BY <1>1, <1>2, <1>3, <1>4 DEF CollectFunction, event
  <1>6. /\ at \in Positions /\ text' = text
        /\ text[at].kind # "Definition" => Collected' = Collected
        /\ text[at].kind = "Definition" => Collected' = Collected \cup {at}
    BY CollectedSteps DEF CollectFunction
  <1>7. SymbolsTyped /\ IsSeq(scopes) /\ Unique /\ OwnersOwn /\ DefinitionsOwned
    BY DEF OwnInv
  <1>8. /\ IsSeq(w) /\ id \in DOMAIN w /\ DOMAIN symbols \subseteq DOMAIN w
        /\ \A i \in DOMAIN symbols : w[i] = symbols[i]
        /\ \A i \in DOMAIN w : i \in DOMAIN symbols \/ (i = id /\ IsNew(id))
        /\ w[id].scope = ModuleScope /\ w[id].name = text[at].name
        /\ IsNew(id) => w[id].owned_scope = NoScope /\ id \notin DOMAIN symbols
        /\ \A i \in DOMAIN w : DOMAIN w[i] = SymbolFields
    BY <1>1, <1>2, <1>5, <1>7, WithIs
  <1>9. \A i, j \in DOMAIN w : w[i].scope = w[j].scope /\ w[i].name = w[j].name => i = j
    BY <1>2, WithUnique
  <1>10. /\ IsSeq(scopes') /\ Len(scopes) \in Nat
         /\ DOMAIN scopes = 1 .. Len(scopes) /\ DOMAIN scopes' = 1 .. Len(scopes) + 1
         /\ \A s \in DOMAIN scopes : scopes'[s] = scopes[s]
         /\ scopes'[Len(scopes) + 1] = new
    BY <1>5, <1>7, AppendKeeps
  <1>11. /\ DOMAIN e = SymbolFields /\ e.scope = w[id].scope /\ e.name = w[id].name
         /\ e.owned_scope =
              IF w[id].owned_scope = NoScope \/ text[at].kind = "Definition"
              THEN Len(scopes) + 1 ELSE w[id].owned_scope
    BY <1>3, <1>5, <1>8 DEF OwnedScope, SymbolFields
  <1>12. /\ IsSeq(symbols') /\ DOMAIN symbols' = DOMAIN w /\ symbols'[id] = e
         /\ \A j \in DOMAIN w \ {id} : symbols'[j] = w[j]
    BY <1>5, <1>8, ExceptKeeps
  <1>13. SymbolsTyped' /\ Unique'
    BY <1>8, <1>9, <1>11, <1>12 DEF SymbolsTyped, Unique
  <1>14. e.owned_scope # NoScope
    BY <1>10, <1>11 DEF NoScope
  <1>15. \A i \in DOMAIN symbols : symbols[i].owned_scope # NoScope =>
           /\ symbols[i].scope = ModuleScope
           /\ symbols[i].owned_scope \in DOMAIN scopes
           /\ OwnedFor(symbols[i].owned_scope, symbols[i].name)
    BY <1>7 DEF OwnersOwn, OwnedFor
  <1>16. OwnersOwn'
    <2> SUFFICES ASSUME NEW i \in DOMAIN symbols', symbols'[i].owned_scope # NoScope,
                        NEW s, s = symbols'[i].owned_scope
                 PROVE  /\ symbols'[i].scope = ModuleScope
                        /\ s \in DOMAIN scopes' /\ scopes'[s].at \in Positions
                        /\ text[scopes'[s].at].kind \in FunctionKinds
                        /\ text[scopes'[s].at].name = symbols'[i].name
                        /\ (\E d \in Collected' : text[d].name = symbols'[i].name)
                             => text[scopes'[s].at].kind = "Definition"
      BY <1>6 DEF OwnersOwn, OwnedFor, Positions, NoScope, ModuleScope
    <2>1. CASE i # id
      <3>1. /\ i \in DOMAIN symbols /\ symbols'[i] = symbols[i] /\ w[i] = symbols[i]
            /\ symbols[i].scope = ModuleScope
            /\ s \in DOMAIN scopes /\ scopes'[s] = scopes[s]
            /\ OwnedFor(s, symbols[i].name)
        BY <1>8, <1>10, <1>12, <1>15, <2>1
      <3>2. text[at].name # symbols[i].name
        BY <1>8, <1>9, <1>12, <2>1, <3>1
      <3>3. \A d \in Collected' : text[d].name = symbols[i].name => d \in Collected
        BY <1>6, <3>2
      <3> QED BY <1>10, <3>1, <3>3 DEF OwnedFor
    <2>2. CASE i = id /\ (w[id].owned_scope = NoScope \/ text[at].kind = "Definition")
      <3>1. s = Len(scopes) + 1 /\ s \in DOMAIN scopes' /\ scopes'[s].at = at
            /\ symbols'[i].name = text[at].name /\ symbols'[i].scope = ModuleScope
        BY <1>5, <1>8, <1>10, <1>11, <1>12, <2>2
      <3>2. ASSUME NEW d \in Collected', text[d].name = text[at].name, text[at].kind # "Definition"
            PROVE  FALSE
        <4>1. d \in Collected /\ w[id].owned_scope = NoScope
          BY <1>6, <2>2, <3>2
        <4>2. PICK k \in DOMAIN symbols : /\ symbols[k].scope = ModuleScope
                                          /\ symbols[k].name = text[d].name
                                          /\ symbols[k].owned_scope # NoScope
          BY <1>7, <4>1 DEF DefinitionsOwned
        <4> QED BY <1>8, <1>9, <3>2, <4>1, <4>2
      <3> QED BY <1>5, <1>6, <3>1, <3>2
    <2>3. CASE i = id /\ w[id].owned_scope # NoScope /\ text[at].kind # "Definition"
      <3>1. /\ i \in DOMAIN symbols /\ w[i] = symbols[i] /\ s = symbols[i].owned_scope
            /\ symbols'[i].scope = ModuleScope /\ symbols'[i].name = symbols[i].name
        BY <1>8, <1>11, <1>12, <2>3
      <3>2. s \in DOMAIN scopes /\ scopes'[s] = scopes[s] /\ OwnedFor(s, symbols[i].name)
        BY <1>10, <1>15, <2>3, <3>1
      <3> QED BY <1>6, <1>10, <2>3, <3>1, <3>2 DEF OwnedFor
    <2> QED BY <2>1, <2>2, <2>3
  <1>17. DefinitionsOwned'
    <2> SUFFICES ASSUME NEW d \in Collected'
                 PROVE  \E i \in DOMAIN symbols' :
                          /\ symbols'[i].scope = ModuleScope /\ symbols'[i].name = text[d].name
                          /\ symbols'[i].owned_scope # NoScope
      BY <1>6 DEF DefinitionsOwned, NoScope, ModuleScope
    <2>1. CASE d = at
      BY <1>8, <1>11, <1>12, <1>14, <2>1
    <2>2. CASE d \in Collected
      <3>1. PICK i \in DOMAIN symbols : /\ symbols[i].scope = ModuleScope
                                        /\ symbols[i].name = text[d].name
                                        /\ symbols[i].owned_scope # NoScope
        BY <1>7, <2>2 DEF DefinitionsOwned
      <3>2. CASE i = id
        BY <1>8, <1>11, <1>12, <1>14, <3>1, <3>2
      <3>3. CASE i # id
        BY <1>8, <1>12, <3>1, <3>3
      <3> QED BY <3>2, <3>3
    <2> QED BY <1>6, <2>1, <2>2
  <1> QED BY <1>10, <1>13, <1>16, <1>17 DEF OwnInv

LEMMA OwnInit ==
  ASSUME Init
  PROVE  OwnInv
  <1>1. symbols = <<>> /\ pass = "index" /\ DOMAIN symbols = {}
    BY DEF Init
  <1>2. SymbolsTyped
    BY <1>1 DEF SymbolsTyped, IsSeq
  <1>3. IsSeq(scopes)
    <2>1. PICK e : e = [kind |-> "Module", parent |-> NoScope, at |-> 0]
      OBVIOUS
    <2>2. scopes = <<e>> /\ <<e>> \in Seq({e})
      BY <2>1 DEF Init
    <2> QED BY <2>2 DEF IsSeq
  <1>4. Collected = {}
    BY <1>1 DEF Collected
  <1> QED BY <1>1, <1>2, <1>3, <1>4 DEF OwnInv, Unique, OwnersOwn, DefinitionsOwned

LEMMA OwnStep ==
  ASSUME WalkInv, OwnInv, [Next]_vars
  PROVE  OwnInv'
  <1>1. CASE CollectVariable
    <2>1. text' = text /\ Collected' = Collected
      BY <1>1, CollectedSteps DEF CollectVariable, event
    <2>2. PICK scope : symbols' = WithSymbol(scope, "Variable", event.name)
      BY <1>1 DEF CollectVariable
    <2> QED BY <1>1, <2>1, <2>2, OwnWith DEF CollectVariable
  <1>2. CASE CollectFunctionWide
    <2>1. text' = text /\ Collected' = Collected
      BY <1>2, CollectedSteps DEF CollectFunctionWide, event, FunctionWide
    <2>2. symbols' = WithSymbol(ScopeOfLabel, event.kind, event.name) /\ scopes' = scopes
      BY <1>2 DEF CollectFunctionWide
    <2> QED BY <2>1, <2>2, OwnWith
  <1>3. CASE CollectBlock
    <2>1. text' = text /\ Collected' = Collected /\ symbols' = symbols
      BY <1>3, CollectedSteps DEF CollectBlock, event
    <2>2. PICK scope : scopes' = Append(scopes, scope)
      BY <1>3 DEF CollectBlock
    <2> QED BY <2>1, <2>2, OwnBlock
  <1>4. CASE EndBlock
    <2>1. text' = text /\ symbols' = symbols /\ scopes' = scopes
      BY <1>4 DEF EndBlock, Advance, table_vars
    <2>2. Collected' = Collected
      BY <1>4, CollectedSteps, CollectedElsewhere DEF EndBlock, event
    <2> QED BY <2>1, <2>2, OwnSame
  <1>5. CASE \/ IndexAmbiguous \/ IndexNew \/ IndexRepeated
             \/ DropAlias \/ BindReference \/ BindFunction \/ BindBlock
    <2>1. Advance /\ pass # "collect" /\ symbols' = symbols /\ scopes' = scopes
      BY <1>5 DEF IndexAmbiguous, IndexNew, IndexRepeated, DropAlias, BindReference,
                  BindFunction, BindBlock, Working, table_vars
    <2>2. text' = text /\ Collected' = Collected
      BY <2>1, CollectedElsewhere DEF Advance
    <2> QED BY <2>1, <2>2, OwnSame
  <1>6. CASE EndPass
    <2>1. text' = text /\ symbols' = symbols /\ scopes' = scopes
      BY <1>6 DEF EndPass, table_vars
    <2> QED BY <1>6, <2>1, CollectedEndPass, OwnSame
  <1>7. CASE UNCHANGED vars
    <2>1. text' = text /\ pass' = pass /\ at' = at /\ symbols' = symbols /\ scopes' = scopes
      BY <1>7 DEF vars
    <2>2. Collected' = Collected
      BY <2>1 DEF Collected, Positions
    <2> QED BY <2>1, <2>2, OwnSame
  <1> QED BY <1>1, <1>2, <1>3, <1>4, <1>5, <1>6, <1>7, OwnFunction, OwnAlias
          DEF Next, Returned

(* A function's symbol owns the scope of a definition, if there is one:       *)
(* whatever prototypes come before and after it, and however often either is  *)
(* repeated (lines 579 to 595).                                               *)
THEOREM DefinitionIsOwned == Spec => []OwnedIsDefinition
  <1>1. Spec => [](WalkInv /\ OrderInv /\ OwnInv)
    <2>1. Init => WalkInv /\ OrderInv /\ OwnInv
      BY OrderInit, OwnInit
    <2>2. WalkInv /\ OrderInv /\ OwnInv /\ [Next]_vars => (WalkInv /\ OrderInv /\ OwnInv)'
      BY OrderStep, OwnStep
    <2> QED BY <2>1, <2>2, PTL DEF Spec
  <1>2. WalkInv /\ OwnInv => OwnedIsDefinition
    <2> SUFFICES ASSUME WalkInv, OwnInv, pass = "done",
                        NEW i \in Positions, text[i].kind = "Definition",
                        NEW id, id = exactSymbol(ModuleScope, text[i].name)
                 PROVE  /\ symbols[id].owned_scope # NoScope
                        /\ text[scopes[symbols[id].owned_scope].at].kind = "Definition"
                        /\ text[scopes[symbols[id].owned_scope].at].name = text[i].name
      BY DEF OwnedIsDefinition
    <2>1. i \in Collected
      BY DEF Collected
    <2>2. PICK k \in DOMAIN symbols : /\ symbols[k].scope = ModuleScope
                                      /\ symbols[k].name = text[i].name
                                      /\ symbols[k].owned_scope # NoScope
      BY <2>1 DEF OwnInv, DefinitionsOwned
    <2>3. IsSeq(symbols)
      BY DEF OwnInv, SymbolsTyped
    <2>4. id \in DOMAIN symbols /\ symbols[id].scope = ModuleScope /\ symbols[id].name = text[i].name
      BY <2>2, <2>3, ExactIs
    <2>5. id = k
      BY <2>2, <2>4 DEF OwnInv, Unique
    <2>6. OwnedFor(symbols[id].owned_scope, text[i].name)
      BY <2>2, <2>4, <2>5 DEF OwnInv, OwnersOwn
    <2> QED BY <2>1, <2>2, <2>5, <2>6 DEF OwnedFor
  <1> QED BY <1>1, <1>2, PTL
-----------------------------------------------------------------------------
(* The largest element of a finite set of numbers *)
LEMMA MaxIsGreatest ==
  ASSUME NEW n \in Nat, NEW S, S \subseteq 0 .. n, S # {}
  PROVE  Max(S) \in S /\ \A x \in S : Max(S) >= x
  <1> DEFINE T == {n - x : x \in S}
  <1>1. \A x \in S : x \in Nat /\ n - x \in Nat
    OBVIOUS
  <1>2. T \subseteq Nat /\ T # {}
    BY <1>1, Zenon
  <1>3. PICK t \in T : \A u \in T : t <= u
    <2> HIDE DEF T
    <2> QED BY <1>2, MinExists
  <1>4. PICK x \in S : t = n - x
    BY <1>3, Zenon
  <1>5. \A y \in S : x >= y
    <2> SUFFICES ASSUME NEW y \in S PROVE x >= y
      OBVIOUS
    <2>1. n - y \in T
      BY Zenon
    <2> HIDE DEF T
    <2>2. n - x <= n - y
      BY <1>3, <1>4, <2>1
    <2> QED BY <1>1, <2>2
  <1> HIDE DEF T
  <1> QED BY <1>5 DEF Max

(* Counting the elements of a set that lie between two bounds *)
Count(S, i, j) == Cardinality(S \cap (i .. j))

LEMMA CountFinite ==
  ASSUME NEW S, NEW i \in Int, NEW j \in Int
  PROVE  /\ IsFiniteSet(S \cap (i .. j)) /\ Count(S, i, j) \in Nat
         /\ S \cap (i .. j) = {} => Count(S, i, j) = 0
  <1>1. IsFiniteSet(i .. j) /\ S \cap (i .. j) \in SUBSET (i .. j)
    BY FS_Interval
  <1>2. IsFiniteSet(S \cap (i .. j))
    BY <1>1, FS_Subset
  <1> QED BY <1>2, FS_CardinalityType, FS_EmptySet DEF Count

LEMMA CountSplit ==
  ASSUME NEW S, NEW i \in Int, NEW m \in Int, NEW j \in Int, i <= m + 1, m <= j
  PROVE  Count(S, i, j) = Count(S, i, m) + Count(S, m + 1, j)
  <1> DEFINE A == S \cap (i .. m)
             B == S \cap (m + 1 .. j)
  <1>1. IsFiniteSet(A) /\ IsFiniteSet(B) /\ Count(S, i, m) \in Nat /\ Count(S, m + 1, j) \in Nat
    <2>1. m + 1 \in Int
      OBVIOUS
    <2> QED BY <2>1, CountFinite
  <1>2. A \cap B = {}
    OBVIOUS
  <1>3. S \cap (i .. j) = A \cup B
    OBVIOUS
  <1> HIDE DEF A, B
  <1>4. Cardinality(A \cup B) = Cardinality(A) + Cardinality(B) - Cardinality(A \cap B)
    BY <1>1, FS_Union
  <1>5. Cardinality(A \cap B) = 0
    BY <1>2, FS_EmptySet
  <1>6. Cardinality(A) \in Nat /\ Cardinality(B) \in Nat
    BY <1>1, FS_CardinalityType
  <1>7. Cardinality(A \cup B) = Cardinality(A) + Cardinality(B)
    BY <1>4, <1>5, <1>6
  <1>8. Count(S, i, j) = Cardinality(A \cup B)
    BY <1>3 DEF Count
  <1>9. Count(S, i, m) = Cardinality(A) /\ Count(S, m + 1, j) = Cardinality(B)
    BY DEF Count, A, B
  <1> QED BY <1>7, <1>8, <1>9

LEMMA CountOne ==
  ASSUME NEW S, NEW i \in Int
  PROVE  Count(S, i, i) = IF i \in S THEN 1 ELSE 0
  <1>1. CASE i \in S
    <2>1. S \cap (i .. i) = {i}
      BY <1>1
    <2> QED BY <1>1, <2>1, FS_Singleton DEF Count
  <1>2. CASE i \notin S
    <2>1. S \cap (i .. i) = {}
      BY <1>2
    <2> QED BY <1>2, <2>1, FS_EmptySet DEF Count
  <1> QED BY <1>1, <1>2

-----------------------------------------------------------------------------
(* How the blocks of a text are nested *)

Net(t, i, j) == Opens(t, i, j) - Closes(t, i, j)

LEMMA NetIs ==
  ASSUME NEW t, NEW i \in Int, NEW j \in Int
  PROVE  /\ Opens(t, i, j) = Count({k \in Int : t[k].kind = "Open"}, i, j)
         /\ Closes(t, i, j) = Count({k \in Int : t[k].kind = "Close"}, i, j)
         /\ Opens(t, i, j) \in Nat /\ Closes(t, i, j) \in Nat /\ Net(t, i, j) \in Int
         /\ Opens(t, i, j) > Closes(t, i, j) <=> Net(t, i, j) >= 1
  <1> DEFINE O == {k \in Int : t[k].kind = "Open"}
             C == {k \in Int : t[k].kind = "Close"}
  <1>1. O \cap (i .. j) = {k \in i .. j : t[k].kind = "Open"}
    OBVIOUS
  <1>2. C \cap (i .. j) = {k \in i .. j : t[k].kind = "Close"}
    OBVIOUS
  <1>3. Opens(t, i, j) = Count(O, i, j) /\ Closes(t, i, j) = Count(C, i, j)
    BY <1>1, <1>2 DEF Opens, Closes, Count
  <1>4. Count(O, i, j) \in Nat /\ Count(C, i, j) \in Nat
    BY CountFinite
  <1> HIDE DEF O, C
  <1>5. Opens(t, i, j) \in Nat /\ Closes(t, i, j) \in Nat
    BY <1>3, <1>4
  <1>6. Net(t, i, j) \in Int /\ (Opens(t, i, j) > Closes(t, i, j) <=> Net(t, i, j) >= 1)
    BY <1>5 DEF Net
  <1> QED BY <1>3, <1>5, <1>6 DEF O, C

LEMMA NetInt ==
  ASSUME NEW t, NEW i \in Int, NEW j \in Int
  PROVE  Net(t, i, j) \in Int
  BY NetIs

LEMMA NetSplit ==
  ASSUME NEW t, NEW i \in Int, NEW m \in Int, NEW j \in Int, i <= m + 1, m <= j
  PROVE  Net(t, i, j) = Net(t, i, m) + Net(t, m + 1, j)
  <1> DEFINE O == {k \in Int : t[k].kind = "Open"}
             C == {k \in Int : t[k].kind = "Close"}
  <1>1. /\ Opens(t, i, j) = Count(O, i, j) /\ Closes(t, i, j) = Count(C, i, j)
        /\ Opens(t, i, m) = Count(O, i, m) /\ Closes(t, i, m) = Count(C, i, m)
        /\ Opens(t, m + 1, j) = Count(O, m + 1, j) /\ Closes(t, m + 1, j) = Count(C, m + 1, j)
    <2>1. m + 1 \in Int
      OBVIOUS
    <2> QED BY ZenonT(30), <2>1, NetIs
  <1> HIDE DEF O, C
  <1>2. /\ Count(O, i, j) = Count(O, i, m) + Count(O, m + 1, j)
        /\ Count(C, i, j) = Count(C, i, m) + Count(C, m + 1, j)
    BY CountSplit
  <1>3. /\ Count(O, i, m) \in Nat /\ Count(O, m + 1, j) \in Nat
        /\ Count(C, i, m) \in Nat /\ Count(C, m + 1, j) \in Nat
    <2>1. m + 1 \in Int
      OBVIOUS
    <2> QED BY <2>1, CountFinite
  <1> QED BY <1>1, <1>2, <1>3 DEF Net

LEMMA NetOne ==
  ASSUME NEW t, NEW i \in Int
  PROVE  /\ t[i].kind = "Open" => Net(t, i, i) = 1
         /\ t[i].kind = "Close" => Net(t, i, i) = -1
         /\ t[i].kind \notin {"Open", "Close"} => Net(t, i, i) = 0
  <1> DEFINE O == {k \in Int : t[k].kind = "Open"}
             C == {k \in Int : t[k].kind = "Close"}
  <1>1. /\ Opens(t, i, i) = Count(O, i, i) /\ Closes(t, i, i) = Count(C, i, i)
    BY NetIs
  <1>2. (i \in O <=> t[i].kind = "Open") /\ (i \in C <=> t[i].kind = "Close")
    OBVIOUS
  <1> HIDE DEF O, C
  <1>3. Count(O, i, i) = (IF i \in O THEN 1 ELSE 0) /\ Count(C, i, i) = (IF i \in C THEN 1 ELSE 0)
    BY CountOne
  <1> QED BY <1>1, <1>2, <1>3 DEF Net

(* Where no block begins or ends, nothing changes. *)
LEMMA NetSame ==
  ASSUME NEW t, NEW i \in Int, NEW m \in Int, NEW j \in Int, i <= m + 1, m <= j,
         \A k \in m + 1 .. j : t[k].kind \notin {"Open", "Close"}
  PROVE  Net(t, i, j) = Net(t, i, m)
  <1> DEFINE O == {k \in Int : t[k].kind = "Open"}
             C == {k \in Int : t[k].kind = "Close"}
  <1>0. m + 1 \in Int
    OBVIOUS
  <1>1. Opens(t, m + 1, j) = Count(O, m + 1, j) /\ Closes(t, m + 1, j) = Count(C, m + 1, j)
    BY <1>0, NetIs
  <1>2. O \cap (m + 1 .. j) = {} /\ C \cap (m + 1 .. j) = {}
    OBVIOUS
  <1> HIDE DEF O, C
  <1>2a. Count(O, m + 1, j) = 0 /\ Count(C, m + 1, j) = 0
    BY <1>0, <1>2, CountFinite
  <1>3. Net(t, m + 1, j) = 0
    BY <1>1, <1>2a DEF Net
  <1>4. Net(t, i, j) = Net(t, i, m) + Net(t, m + 1, j) /\ Net(t, i, m) \in Int
    BY NetSplit, NetIs
  <1> QED BY <1>3, <1>4

LEMMA ItemIs ==
  ASSUME NEW t, t[1].kind \in ItemKinds, NEW i \in Nat, i >= 1
  PROVE  /\ ItemIn(t, i) \in 1 .. i /\ t[ItemIn(t, i)].kind \in ItemKinds
         /\ \A k \in ItemIn(t, i) + 1 .. i : t[k].kind \notin ItemKinds
  <1> DEFINE S == {j \in 1 .. i : t[j].kind \in ItemKinds}
  <1>1. S \subseteq 0 .. i /\ 1 \in S
    OBVIOUS
  <1>2. ItemIn(t, i) = Max(S)
    BY DEF ItemIn
  <1>3. Max(S) \in S /\ \A x \in S : Max(S) >= x
    <2> HIDE DEF S
    <2> QED BY <1>1, MaxIsGreatest
  <1>4. ItemIn(t, i) \in 1 .. i /\ t[ItemIn(t, i)].kind \in ItemKinds
    BY <1>2, <1>3
  <1>5. ASSUME NEW k \in ItemIn(t, i) + 1 .. i, t[k].kind \in ItemKinds PROVE FALSE
    <2>1. k \in S /\ k > Max(S)
      BY <1>2, <1>4, <1>5
    <2> QED BY <1>2, <1>3, <1>4, <2>1
  <1> QED BY <1>4, <1>5

LEMMA ItemUnique ==
  ASSUME NEW t, t[1].kind \in ItemKinds, NEW i \in Nat, NEW m \in 1 .. i,
         t[m].kind \in ItemKinds, \A k \in m + 1 .. i : t[k].kind \notin ItemKinds
  PROVE  ItemIn(t, i) = m
  <1>1. /\ ItemIn(t, i) \in 1 .. i /\ t[ItemIn(t, i)].kind \in ItemKinds
        /\ \A k \in ItemIn(t, i) + 1 .. i : t[k].kind \notin ItemKinds
    BY ItemIs
  <1>2. ~ (m < ItemIn(t, i)) /\ ~ (ItemIn(t, i) < m)
    BY <1>1
  <1> QED BY <1>1, <1>2

LEMMA BlocksIs ==
  ASSUME NEW t, t[1].kind \in ItemKinds, NEW i \in Nat, i >= 1
  PROVE  /\ \A j : j \in BlocksAround(t, i) <=>
                     /\ j \in ItemIn(t, i) .. i - 1 /\ t[j].kind = "Open"
                     /\ \A k \in j .. i - 1 : Net(t, j, k) >= 1
         /\ BlocksAround(t, i) \subseteq ItemIn(t, i) + 1 .. i - 1
         /\ BlocksAround(t, i) \subseteq Nat
  <1>1. ItemIn(t, i) \in 1 .. i /\ t[ItemIn(t, i)].kind \in ItemKinds
    BY ItemIs
  <1>2. \A j, k \in Int : Opens(t, j, k) > Closes(t, j, k) <=> Net(t, j, k) >= 1
    BY NetIs
  <1>3. ASSUME NEW j
        PROVE  j \in BlocksAround(t, i) <=>
                     /\ j \in ItemIn(t, i) .. i - 1 /\ t[j].kind = "Open"
                     /\ \A k \in j .. i - 1 : Net(t, j, k) >= 1
    BY <1>1, <1>2 DEF BlocksAround
  <1>4. ASSUME NEW j \in BlocksAround(t, i) PROVE j \in ItemIn(t, i) + 1 .. i - 1 /\ j \in Nat
    <2>1. j # ItemIn(t, i)
      BY <1>1, <1>3 DEF ItemKinds, FunctionKinds
    <2> QED BY <1>1, <1>3, <2>1
  <1> QED BY <1>3, <1>4

(* Around a block that is open are the blocks that were open where it begins. *)
LEMMA BlocksNested ==
  ASSUME NEW t, t[1].kind \in ItemKinds, NEW i \in Nat, i >= 1, NEW p \in BlocksAround(t, i)
  PROVE  /\ p \in Nat /\ p >= 1 /\ p < i /\ ItemIn(t, p) = ItemIn(t, i)
         /\ BlocksAround(t, p) = {j \in BlocksAround(t, i) : j < p}
  <1> DEFINE m == ItemIn(t, i)
  <1>1. /\ m \in 1 .. i /\ t[m].kind \in ItemKinds
        /\ \A k \in m + 1 .. i : t[k].kind \notin ItemKinds
    BY ItemIs
  <1>2. /\ p \in m + 1 .. i - 1 /\ p \in Nat /\ p >= 1 /\ p < i
        /\ \A k \in p .. i - 1 : Net(t, p, k) >= 1
    BY <1>1, BlocksIs
  <1>3. ItemIn(t, p) = m
    BY <1>1, <1>2, ItemUnique
  <1> HIDE DEF m
  <1>4. \A j : j \in BlocksAround(t, p) <=>
                     /\ j \in m .. p - 1 /\ t[j].kind = "Open"
                     /\ \A k \in j .. p - 1 : Net(t, j, k) >= 1
    BY <1>2, <1>3, BlocksIs
  <1>5. \A j : j \in BlocksAround(t, i) <=>
                     /\ j \in m .. i - 1 /\ t[j].kind = "Open"
                     /\ \A k \in j .. i - 1 : Net(t, j, k) >= 1
    BY BlocksIs DEF m
  <1>6. ASSUME NEW j \in BlocksAround(t, i), j < p PROVE j \in BlocksAround(t, p)
    BY <1>1, <1>2, <1>4, <1>5, <1>6
  <1>7. ASSUME NEW j \in BlocksAround(t, p) PROVE j \in BlocksAround(t, i) /\ j < p
    <2>1. j \in m .. p - 1 /\ t[j].kind = "Open" /\ \A k \in j .. p - 1 : Net(t, j, k) >= 1
      BY <1>4
    <2>2. j \in Int /\ j <= p - 1 /\ j \in m .. i - 1 /\ p - 1 \in Int
      BY <1>1, <1>2, <2>1
    <2>3. ASSUME NEW k \in j .. i - 1 PROVE Net(t, j, k) >= 1
      <3>1. CASE k <= p - 1
        BY <2>1, <2>2, <3>1
      <3>2. CASE k >= p
        <4>1. k \in Int /\ k \in p .. i - 1 /\ p - 1 <= k /\ (p - 1) + 1 = p /\ j <= (p - 1) + 1
          BY <1>1, <1>2, <2>2, <3>2
        <4>2. Net(t, j, k) = Net(t, j, p - 1) + Net(t, (p - 1) + 1, k)
          BY <2>2, <4>1, NetSplit
        <4>3. Net(t, j, p - 1) >= 1 /\ Net(t, p, k) >= 1
          BY <1>2, <2>1, <2>2, <4>1
        <4>4. Net(t, j, p - 1) \in Int
          BY <2>2, NetInt
        <4>5. Net(t, p, k) \in Int
          BY <1>2, <4>1, NetInt
        <4> QED BY <4>1, <4>2, <4>3, <4>4, <4>5
      <3> QED BY <1>2, <2>2, <3>1, <3>2
    <2> QED BY <1>5, <2>1, <2>2, <2>3, <1>2
  <1> QED BY <1>2, <1>3, <1>6, <1>7 DEF m

(* Which blocks are around the next event of an item, those between them     *)
(* neither beginning nor ending a block *)
LEMMA BlocksStay ==
  ASSUME NEW t, t[1].kind \in ItemKinds, NEW i \in Nat, i >= 1, NEW n \in Nat, i < n,
         \A k \in i + 1 .. n : t[k].kind \notin ItemKinds,
         \A k \in i + 1 .. n - 1 : t[k].kind \notin {"Open", "Close"}
  PROVE  /\ ItemIn(t, n) = ItemIn(t, i)
         /\ \A j : j \in BlocksAround(t, n) <=>
              \/ j = i /\ t[i].kind = "Open"
              \/ j \in BlocksAround(t, i) /\ Net(t, j, i) >= 1
  <1> DEFINE m == ItemIn(t, i)
  <1>1. /\ m \in 1 .. i /\ t[m].kind \in ItemKinds
        /\ \A k \in m + 1 .. i : t[k].kind \notin ItemKinds
    BY ItemIs
  <1>2. ItemIn(t, n) = m
    <2> HIDE DEF m
    <2>1. m \in 1 .. n /\ \A k \in m + 1 .. n : k \in m + 1 .. i \/ k \in i + 1 .. n
      BY <1>1
    <2>2. \A k \in m + 1 .. n : t[k].kind \notin ItemKinds
      BY <1>1, <2>1
    <2> QED BY <1>1, <2>1, <2>2, ItemUnique
  <1> HIDE DEF m
  <1>3. \A j : j \in BlocksAround(t, n) <=>
                     /\ j \in m .. n - 1 /\ t[j].kind = "Open"
                     /\ \A k \in j .. n - 1 : Net(t, j, k) >= 1
    <2>1. n >= 1
      OBVIOUS
    <2> QED BY <1>2, <2>1, BlocksIs
  <1>4. \A j : j \in BlocksAround(t, i) <=>
                     /\ j \in m .. i - 1 /\ t[j].kind = "Open"
                     /\ \A k \in j .. i - 1 : Net(t, j, k) >= 1
    BY BlocksIs DEF m
  <1>5. ASSUME NEW j \in Int, j <= i, NEW k \in i .. n - 1 PROVE Net(t, j, k) = Net(t, j, i)
    <2>1. j <= i + 1 /\ i <= k /\ k \in Int /\ \A q \in i + 1 .. k : t[q].kind \notin {"Open", "Close"}
      BY <1>5
    <2> QED BY <2>1, NetSame
  <1>6. ASSUME NEW j \in BlocksAround(t, n)
        PROVE  (j = i /\ t[i].kind = "Open") \/ (j \in BlocksAround(t, i) /\ Net(t, j, i) >= 1)
    <2>1. j \in m .. n - 1 /\ t[j].kind = "Open" /\ \A k \in j .. n - 1 : Net(t, j, k) >= 1
      BY <1>3
    <2>2. j <= i
      BY <1>1, <2>1
    <2>3. CASE j = i
      BY <2>1, <2>3
    <2>4. CASE j < i
      <3>1. j \in m .. i - 1 /\ i \in j .. n - 1 /\ \A k \in j .. i - 1 : k \in j .. n - 1
        BY <1>1, <2>1, <2>4
      <3> QED BY <1>4, <2>1, <3>1
    <2> QED BY <1>1, <2>1, <2>2, <2>3, <2>4
  <1>7. ASSUME t[i].kind = "Open" PROVE i \in BlocksAround(t, n)
    <2>1. Net(t, i, i) = 1
      BY <1>7, NetOne
    <2>2. \A k \in i .. n - 1 : Net(t, i, k) >= 1
      BY <1>5, <2>1
    <2> QED BY <1>1, <1>3, <1>7, <2>2
  <1>8. ASSUME NEW j \in BlocksAround(t, i), Net(t, j, i) >= 1 PROVE j \in BlocksAround(t, n)
    <2>1. j \in m .. i - 1 /\ t[j].kind = "Open" /\ \A k \in j .. i - 1 : Net(t, j, k) >= 1
      BY <1>4
    <2>2. j \in Int /\ j <= i /\ j \in m .. n - 1
      BY <1>1, <2>1
    <2>3. ASSUME NEW k \in j .. n - 1 PROVE Net(t, j, k) >= 1
      <3>1. CASE k \in j .. i - 1
        BY <2>1, <3>1
      <3>2. CASE k \in i .. n - 1
        BY <1>5, <1>8, <2>2, <3>2
      <3> QED BY <2>2, <3>1, <3>2
    <2> QED BY <1>3, <2>1, <2>2, <2>3
  <1> QED BY <1>2, <1>6, <1>7, <1>8 DEF m

(* Of the blocks that are open, the innermost would be closed next. *)
LEMMA InnermostIsOne ==
  ASSUME NEW t, t[1].kind \in ItemKinds, NEW i \in Nat, i >= 1,
         NEW m \in BlocksAround(t, i), \A j \in BlocksAround(t, i) : j <= m
  PROVE  Net(t, m, i - 1) = 1
  <1> DEFINE K == {k \in m .. i - 1 : Net(t, m, k) = 1}
             q == Max(K)
  <1>1. /\ m \in ItemIn(t, i) .. i - 1 /\ t[m].kind = "Open" /\ m \in Nat /\ m <= i - 1
        /\ \A k \in m .. i - 1 : Net(t, m, k) >= 1
        /\ ItemIn(t, i) \in 1 .. i
    BY BlocksIs, ItemIs
  <1>2. Net(t, m, m) = 1
    BY <1>1, NetOne
  <1>3. K \subseteq 0 .. i - 1 /\ m \in K /\ i - 1 \in Nat
    BY <1>1, <1>2
  <1>4. q \in K /\ \A x \in K : q >= x
    <2> HIDE DEF K
    <2> QED BY <1>3, MaxIsGreatest
  <1>5. q \in m .. i - 1 /\ Net(t, m, q) = 1
    BY <1>4
  <1>6. \A k \in q + 1 .. i - 1 : Net(t, m, k) # 1
    <2> SUFFICES ASSUME NEW k \in q + 1 .. i - 1, Net(t, m, k) = 1 PROVE FALSE
      OBVIOUS
    <2>1. k \in K /\ k > q
      BY <1>1, <1>5
    <2> HIDE DEF q, K
    <2> QED BY <1>3, <1>4, <1>5, <2>1
  <1> HIDE DEF q, K
  <1>7. SUFFICES ASSUME q < i - 1 PROVE FALSE
    BY <1>1, <1>5
  <1> DEFINE o == q + 1
  <1>8. o \in Int /\ o \in m + 1 .. i - 1 /\ q \in Int
    BY <1>1, <1>5, <1>7
  <1>9. ASSUME NEW k \in o .. i - 1 PROVE Net(t, o, k) >= 1
    <2>1. k \in Int /\ m <= q + 1 /\ q <= k /\ k \in m .. i - 1 /\ k \in q + 1 .. i - 1
      BY <1>1, <1>5, <1>8
    <2>2. Net(t, m, k) = Net(t, m, q) + Net(t, q + 1, k)
      BY <1>1, <1>8, <2>1, NetSplit
    <2>3. Net(t, m, k) >= 1 /\ Net(t, m, k) # 1
      BY <1>1, <1>6, <2>1
    <2>4. Net(t, m, k) \in Int
      BY <1>1, <2>1, NetInt
    <2>5. Net(t, o, k) \in Int
      BY <1>8, <2>1, NetInt
    <2> QED BY <1>5, <2>2, <2>3, <2>4, <2>5
  <1> HIDE DEF o
  <1>10. t[o].kind = "Open"
    <2>1. Net(t, o, o) >= 1
      BY <1>8, <1>9
    <2>2. ~ (t[o].kind = "Close") /\ ~ (t[o].kind \notin {"Open", "Close"})
      BY <1>8, <2>1, NetOne
    <2> QED BY <2>2
  <1>11. o \in BlocksAround(t, i)
    <2>1. o \in ItemIn(t, i) .. i - 1
      BY <1>1, <1>8
    <2> QED BY <1>9, <1>10, <2>1, BlocksIs
  <1> QED BY <1>1, <1>8, <1>11

LEMMA BlocksStep ==
  ASSUME NEW t, t[1].kind \in ItemKinds, NEW i \in Nat, i >= 1, NEW n \in Nat, i < n,
         \A k \in i + 1 .. n : t[k].kind \notin ItemKinds,
         \A k \in i + 1 .. n - 1 : t[k].kind \notin {"Open", "Close"}
  PROVE  /\ ItemIn(t, n) = ItemIn(t, i)
         /\ t[i].kind = "Open" => BlocksAround(t, n) = BlocksAround(t, i) \cup {i}
         /\ t[i].kind = "Close" =>
              \A m \in BlocksAround(t, i) : (\A j \in BlocksAround(t, i) : j <= m)
                => BlocksAround(t, n) = BlocksAround(t, i) \ {m}
         /\ t[i].kind \notin {"Open", "Close"} => BlocksAround(t, n) = BlocksAround(t, i)
  <1>1. /\ ItemIn(t, n) = ItemIn(t, i)
        /\ \A j : j \in BlocksAround(t, n) <=>
              \/ j = i /\ t[i].kind = "Open"
              \/ j \in BlocksAround(t, i) /\ Net(t, j, i) >= 1
    BY BlocksStay
  <1>2. \A j \in BlocksAround(t, i) :
          /\ j \in Nat /\ j <= i - 1
          /\ Net(t, j, i - 1) >= 1 /\ Net(t, j, i - 1) \in Int
          /\ Net(t, j, i) = Net(t, j, i - 1) + Net(t, i, i)
    <2> TAKE j \in BlocksAround(t, i)
    <2>1. /\ j \in Nat /\ j \in ItemIn(t, i) .. i - 1
          /\ \A k \in j .. i - 1 : Net(t, j, k) >= 1
      BY BlocksIs
    <2>2. i - 1 \in Int /\ j \in Int /\ j <= i - 1 /\ i - 1 \in j .. i - 1 /\ (i - 1) + 1 = i
      BY <2>1, ItemIs
    <2>3. Net(t, j, i) = Net(t, j, i - 1) + Net(t, (i - 1) + 1, i)
      <3>1. j <= (i - 1) + 1 /\ i - 1 <= i
        BY <2>2
      <3> QED BY <2>2, <3>1, NetSplit
    <2>4. Net(t, j, i - 1) \in Int
      BY <2>2, NetInt
    <2> QED BY <2>1, <2>2, <2>3, <2>4
  <1>3. CASE t[i].kind = "Open"
    <2>1. Net(t, i, i) = 1
      BY <1>3, NetOne
    <2>2. \A j \in BlocksAround(t, i) : Net(t, j, i) >= 1
      BY <1>2, <2>1
    <2> QED BY <1>1, <1>3, <2>2
  <1>4. CASE t[i].kind = "Close"
    <2> SUFFICES ASSUME NEW m \in BlocksAround(t, i), \A j \in BlocksAround(t, i) : j <= m
                 PROVE  BlocksAround(t, n) = BlocksAround(t, i) \ {m}
      BY <1>1, <1>4
    <2>1. Net(t, i, i) = -1
      BY <1>4, NetOne
    <2>2. Net(t, m, i - 1) = 1
      BY InnermostIsOne
    <2>3. ~ (Net(t, m, i) >= 1)
      BY <1>2, <2>1, <2>2
    <2>4. ASSUME NEW j \in BlocksAround(t, i), j # m PROVE Net(t, j, i) >= 1
      <3>1. j \in Nat /\ m \in Nat /\ j < m /\ m <= i - 1 /\ i - 1 \in Int /\ m - 1 \in Int
        BY <1>2, <2>4
      <3>2. Net(t, j, i - 1) = Net(t, j, m - 1) + Net(t, (m - 1) + 1, i - 1)
        <4>1. j <= (m - 1) + 1 /\ m - 1 <= i - 1
          BY <3>1
        <4> QED BY <3>1, <4>1, NetSplit
      <3>3. Net(t, j, m - 1) >= 1
        <4>1. m - 1 \in j .. i - 1
          BY <3>1
        <4> QED BY <4>1, BlocksIs
      <3>4. Net(t, j, m - 1) \in Int /\ (m - 1) + 1 = m
        <4>1. j \in Int /\ m - 1 \in Int
          BY <3>1
        <4> QED BY <3>1, <4>1, NetInt
      <3> QED BY <1>2, <2>1, <2>2, <3>2, <3>3, <3>4
    <2> QED BY <1>1, <1>4, <2>3, <2>4
  <1>5. CASE t[i].kind \notin {"Open", "Close"}
    <2>1. Net(t, i, i) = 0
      BY <1>5, NetOne
    <2>2. \A j \in BlocksAround(t, i) : Net(t, j, i) >= 1
      BY <1>2, <2>1
    <2> QED BY <1>1, <1>5, <2>2
  <1> QED BY <1>1, <1>3, <1>4, <1>5
-----------------------------------------------------------------------------
(* The scopes around an event *)

Inner(i) == Max(ScopesAround(i))

Nested == text \in Seq(Events) /\ WellNested(text)

LEMMA AroundIs ==
  ASSUME Nested, NEW i \in Positions
  PROVE  /\ text[1].kind \in ItemKinds /\ i \in Nat /\ i >= 1
         /\ Item(i) \in 1 .. i
         /\ 0 \in ScopesAround(i) /\ ScopesAround(i) \subseteq 0 .. i
         /\ text[i].kind \notin ItemKinds => Item(i) < i /\ ScopesAround(i) \subseteq 0 .. i - 1
         /\ Inner(i) \in ScopesAround(i) /\ \A s \in ScopesAround(i) : s <= Inner(i)
  <1>1. /\ i \in Nat /\ i >= 1 /\ text # <<>>
    BY DEF Positions, Nested
  <1>2. text[1].kind \in ItemKinds
    BY <1>1 DEF Nested, WellNested
  <1>3. /\ Item(i) \in 1 .. i /\ text[Item(i)].kind \in ItemKinds
        /\ BlocksAround(text, i) \subseteq Item(i) + 1 .. i - 1
    BY <1>1, <1>2, ItemIs, BlocksIs DEF Item
  <1>4. 0 \in ScopesAround(i) /\ ScopesAround(i) \subseteq 0 .. i
    BY <1>1, <1>3 DEF ScopesAround
  <1>5. Inner(i) \in ScopesAround(i) /\ \A s \in ScopesAround(i) : Inner(i) >= s
    BY <1>1, <1>4, MaxIsGreatest DEF Inner
  <1>6. text[i].kind \notin ItemKinds => Item(i) < i /\ ScopesAround(i) \subseteq 0 .. i - 1
    BY <1>1, <1>3 DEF ScopesAround
  <1>7. \A s \in ScopesAround(i) : s <= Inner(i)
    BY <1>1, <1>4, <1>5
  <1> QED BY <1>1, <1>2, <1>3, <1>4, <1>5, <1>6, <1>7

LEMMA AroundNested ==
  ASSUME Nested, NEW i \in Positions, NEW p \in BlocksAround(text, i)
  PROVE  /\ p \in Positions /\ p < i /\ Item(p) = Item(i) /\ Item(i) < p
         /\ ScopesAround(p) = {s \in ScopesAround(i) : s < p}
         /\ text[p].kind = "Open"
  <1>1. /\ text[1].kind \in ItemKinds /\ i \in Nat /\ i >= 1 /\ Item(i) \in 1 .. i
    BY AroundIs
  <1>2. /\ p \in Nat /\ p >= 1 /\ p < i /\ Item(p) = Item(i)
        /\ BlocksAround(text, p) = {j \in BlocksAround(text, i) : j < p}
    BY <1>1, BlocksNested DEF Item
  <1>3. Item(i) < p /\ text[p].kind = "Open"
    BY <1>1, BlocksIs DEF Item
  <1>4. p \in Positions
    BY <1>1, <1>2 DEF Positions, Nested
  <1>5. InFunction(p) <=> InFunction(i)
    BY <1>2 DEF InFunction
  <1>6. ScopesAround(p) = {s \in ScopesAround(i) : s < p}
    BY <1>1, <1>2, <1>3, <1>5 DEF ScopesAround
  <1> QED BY <1>2, <1>3, <1>4, <1>6

LEMMA InnerUnique ==
  ASSUME Nested, NEW i \in Positions, NEW x \in ScopesAround(i), \A s \in ScopesAround(i) : s <= x
  PROVE  Inner(i) = x
  <1>1. Inner(i) \in ScopesAround(i) /\ Inner(i) <= x /\ x <= Inner(i) /\ ScopesAround(i) \subseteq 0 .. i /\ i \in Nat
    BY AroundIs
  <1> QED BY <1>1

(* From one event of a function to the next that is not part of what its     *)
(* blocks are made of *)
LEMMA InnerStep ==
  ASSUME Nested, NEW i \in Positions, NEW n \in Positions, i < n,
         text[n].kind \notin ItemKinds, InFunction(n),
         \A k \in i + 1 .. n - 1 : text[k].kind \notin FunctionKinds \cup {"Open", "Close"}
  PROVE  /\ InFunction(i) /\ Item(n) = Item(i)
         /\ text[i].kind \in FunctionKinds => Inner(n) = i /\ Item(n) = i
         /\ text[i].kind = "Open" => Inner(n) = i
         /\ text[i].kind = "Close" => /\ Inner(i) \in BlocksAround(text, i)
                                      /\ Inner(n) = Inner(Inner(i))
         /\ text[i].kind \notin FunctionKinds \cup {"Open", "Close"} => Inner(n) = Inner(i)
  <1>1. /\ text[1].kind \in ItemKinds /\ i \in Nat /\ i >= 1 /\ n \in Nat /\ n >= 1
        /\ Item(i) \in 1 .. i /\ Item(n) < n
    BY AroundIs
  <1>2. /\ Item(n) \in 1 .. n /\ text[Item(n)].kind \in FunctionKinds
        /\ \A k \in Item(n) + 1 .. n : text[k].kind \notin ItemKinds
    BY <1>1, ItemIs DEF Item, InFunction
  <1>3. Item(n) <= i
    BY <1>1, <1>2
  <1>4. /\ \A k \in i + 1 .. n : text[k].kind \notin ItemKinds
        /\ \A k \in i + 1 .. n - 1 : text[k].kind \notin {"Open", "Close"}
    BY <1>1, <1>2, <1>3
  <1>5. /\ Item(n) = Item(i)
        /\ text[i].kind = "Open" => BlocksAround(text, n) = BlocksAround(text, i) \cup {i}
        /\ text[i].kind = "Close" =>
              \A m \in BlocksAround(text, i) : (\A j \in BlocksAround(text, i) : j <= m)
                => BlocksAround(text, n) = BlocksAround(text, i) \ {m}
        /\ text[i].kind \notin {"Open", "Close"} => BlocksAround(text, n) = BlocksAround(text, i)
    BY <1>1, <1>4, BlocksStep DEF Item
  <1>6. InFunction(i)
    BY <1>5 DEF InFunction
  <1>7. /\ ScopesAround(i) = {0, Item(i)} \cup BlocksAround(text, i)
        /\ ScopesAround(n) = {0, Item(i)} \cup BlocksAround(text, n)
    BY <1>5, <1>6 DEF ScopesAround
  <1>8. /\ Inner(i) \in ScopesAround(i) /\ \A s \in ScopesAround(i) : s <= Inner(i)
        /\ ScopesAround(i) \subseteq 0 .. i
    BY AroundIs
  <1>9. BlocksAround(text, i) \subseteq Item(i) + 1 .. i - 1
    BY <1>1, BlocksIs DEF Item
  <1>10. CASE text[i].kind \in FunctionKinds
    <2>1. i = Item(i)
      BY <1>1, <1>2, <1>5, <1>10 DEF ItemKinds
    <2>2. BlocksAround(text, i) = {}
      BY <1>1, <1>9, <2>1
    <2>3. ScopesAround(n) = {0, i}
      BY <1>5, <1>7, <1>10, <2>1, <2>2 DEF FunctionKinds
    <2>4. Inner(n) = i
      BY <1>1, <2>3, InnerUnique
    <2> QED BY <1>5, <1>6, <1>10, <2>1, <2>4 DEF FunctionKinds
  <1>11. CASE text[i].kind = "Open"
    <2>1. ScopesAround(n) = ScopesAround(i) \cup {i}
      BY <1>5, <1>7, <1>11
    <2>2. Inner(n) = i
      BY <1>1, <1>8, <2>1, InnerUnique
    <2> QED BY <1>5, <1>6, <1>11, <2>2 DEF FunctionKinds
  <1>12. CASE text[i].kind = "Close"
    <2>1. PICK b \in BlocksAround(text, i) : TRUE
      BY <1>12 DEF Nested, WellNested, Positions
    <2>2. Inner(i) \in BlocksAround(text, i)
      <3>1. Inner(i) >= b /\ b > Item(i) /\ b > 0
        BY <1>1, <1>7, <1>8, <1>9, <2>1
      <3>2. Inner(i) # 0 /\ Inner(i) # Item(i)
        BY <1>1, <1>8, <1>9, <3>1, <2>1
      <3> QED BY <1>7, <1>8, <3>2
    <2>3. /\ Inner(i) \in Positions /\ Item(i) < Inner(i)
          /\ ScopesAround(Inner(i)) = {s \in ScopesAround(i) : s < Inner(i)}
      BY <2>2, AroundNested
    <2>4. BlocksAround(text, n) = BlocksAround(text, i) \ {Inner(i)}
      <3>1. \A j \in BlocksAround(text, i) : j <= Inner(i)
        BY <1>7, <1>8
      <3> QED BY <1>5, <1>12, <2>2, <3>1
    <2>5. ScopesAround(n) = ScopesAround(i) \ {Inner(i)}
      <3>1. Inner(i) # 0 /\ Inner(i) # Item(i)
        BY <1>1, <2>3, <1>8
      <3> QED BY <1>7, <2>4, <3>1
    <2>6. ScopesAround(n) = ScopesAround(Inner(i))
      BY <1>1, <1>8, <2>3, <2>5
    <2> QED BY <1>5, <1>6, <1>12, <2>2, <2>6 DEF Inner, FunctionKinds
  <1>13. CASE text[i].kind \notin FunctionKinds \cup {"Open", "Close"}
    <2>1. ScopesAround(n) = ScopesAround(i)
      BY <1>5, <1>7, <1>13
    <2> QED BY <1>5, <1>6, <1>13, <2>1 DEF Inner
  <1> QED BY <1>10, <1>11, <1>12, <1>13
-----------------------------------------------------------------------------
(* The tree of scopes that the second pass makes, and where a pass stands in  *)
(* it *)

Opener(p) == text[p].kind \in FunctionKinds \cup {"Open"}

Opened == {p \in Positions : /\ Opener(p) /\ pass # "index"
                             /\ pass = "collect" => p < at}

IsFunction(p) == text[p].kind \in FunctionKinds
FunctionsUpTo(p) == {i \in 1 .. p : IsFunction(i)}

ScopeAt(p, parent) ==
  [kind |-> IF text[p].kind = "Open" THEN "Block" ELSE "Function", parent |-> parent, at |-> p]

(* Every scope has the parent that the text gives it. *)
ParentsEnclose ==
  \A s \in DOMAIN scopes : s # ModuleScope =>
    /\ scopes[s].at \in Opened
    /\ scopes[s] = ScopeAt(scopes[s].at, scopes[s].parent)
    /\ scopes[s].parent \in 1 .. s - 1
    /\ scopes[scopes[s].parent].at = IF IsFunction(scopes[s].at) THEN 0 ELSE Inner(scopes[s].at)

ScopesOrdered == \A s, q \in DOMAIN scopes : s < q => scopes[s].at < scopes[q].at

OpenedHaveScopes == \A p \in Opened : \E s \in DOMAIN scopes : s # ModuleScope /\ scopes[s].at = p

ScopesTree ==
  /\ IsSeq(scopes) /\ ModuleScope \in DOMAIN scopes
  /\ scopes[ModuleScope].at = 0 /\ scopes[ModuleScope].parent = NoScope
  /\ ParentsEnclose /\ ScopesOrdered /\ OpenedHaveScopes

(* The functions are numbered as they stand in the text. *)
FunctionsListed ==
  /\ IsSeq(functions) /\ Len(functions) = Cardinality({p \in Opened : IsFunction(p)})
  /\ \A p \in Opened : IsFunction(p) =>
       LET n == Cardinality(FunctionsUpTo(p))
       IN n \in DOMAIN functions /\ functions[n] \in DOMAIN scopes /\ scopes[functions[n]].at = p

(* In a function, both scopes of the walk are those around the event. *)
Standing ==
  /\ pass \in {"collect", "bindFunctions"} /\ at \in Positions
       /\ text[at].kind \notin ItemKinds /\ InFunction(at)
     => /\ lexical_scope \in DOMAIN scopes /\ scopes[lexical_scope].at = Inner(at)
        /\ function_scope \in DOMAIN scopes /\ scopes[function_scope].at = Item(at)
  /\ pass \in {"alias", "bindModule"} => lexical_scope = ModuleScope

ScopeInv == Nested /\ ScopesTree /\ FunctionsListed /\ Standing

LEMMA TextKept ==
  ASSUME text' = text
  PROVE  /\ Positions' = Positions /\ (Nested' <=> Nested)
         /\ \A p : /\ ScopesAround(p)' = ScopesAround(p) /\ Inner(p)' = Inner(p)
                   /\ Item(p)' = Item(p) /\ (InFunction(p)' <=> InFunction(p))
                   /\ (IsFunction(p)' <=> IsFunction(p)) /\ (Opener(p)' <=> Opener(p))
                   /\ FunctionsUpTo(p)' = FunctionsUpTo(p) /\ DeclaredIn(p)' = DeclaredIn(p)
         /\ \A p, s : ScopeAt(p, s)' = ScopeAt(p, s)
  BY DEF Positions, Nested, ScopesAround, Inner, Item, InFunction, IsFunction, Opener, FunctionsUpTo,
         ScopeAt, DeclaredIn

LEMMA OpenedSteps ==
  ASSUME WalkInv, Working("collect"), Advance
  PROVE  /\ at \in Positions /\ pass = "collect" /\ pass' = pass /\ text' = text
         /\ ~Opener(at) => Opened' = Opened
         /\ Opener(at) => Opened' = Opened \cup {at}
         /\ \A p \in Opened : p \in Nat /\ p < at
  <1>1. /\ pass' = pass /\ text' = text /\ at < at' /\ at' \in Nat /\ at \in Nat
        /\ \A j \in Positions : at < j /\ j < at' => ~Handles(pass, j)
    BY AdvanceSkips DEF Working, WalkInv
  <1>2. Positions' = Positions /\ Positions = 1 .. Len(text) /\ Len(text) \in Nat
    BY <1>1 DEF Positions, WalkInv
  <1>3. pass = "collect" /\ at \in Positions
    BY <1>1, <1>2 DEF Working, WalkInv
  <1>4. \A j : Opener(j) => Handles("collect", j)
    BY DEF Handles, ReferenceKinds, Opener, FunctionKinds
  <1>5. \A j \in Positions : at < j /\ j < at' => ~Opener(j)
    BY <1>1, <1>3, <1>4
  <1>6. Opened' = {p \in Positions : Opener(p) /\ p < at'}
    BY <1>1, <1>2, <1>3 DEF Opened, Opener
  <1>7. Opened = {p \in Positions : Opener(p) /\ p < at}
    BY <1>3 DEF Opened
  <1> QED BY <1>1, <1>2, <1>3, <1>5, <1>6, <1>7

LEMMA OpenedElsewhere ==
  ASSUME Advance, pass # "collect"
  PROVE  Opened' = Opened
  BY DEF Opened, Positions, Opener, Advance

LEMMA OpenedEndPass ==
  ASSUME WalkInv, EndPass
  PROVE  Opened' = Opened
  <1>1. /\ text' = text /\ pass' = After(pass)
        /\ \A j \in Positions : j < at
        /\ pass' # "done" => \A j \in Positions : j < at' => ~Handles(pass', j)
    BY EndPassSkips
  <1>2. Positions' = Positions /\ pass \in PassNames
    BY <1>1 DEF Positions, EndPass, WalkInv
  <1>3. CASE pass = "index"
    <2>1. pass' = "collect"
      BY <1>1, <1>3, AfterIsNext
    <2>2. \A j : Opener(j) => Handles("collect", j)
      BY DEF Handles, ReferenceKinds, Opener, FunctionKinds
    <2> QED BY <1>1, <1>2, <1>3, <2>1, <2>2 DEF Opened, Opener
  <1>4. CASE pass # "index"
    <2>1. pass' # "index" /\ pass' # "collect"
      BY <1>1, <1>2, <1>4, AfterIsNext DEF PassNames
    <2> QED BY <1>1, <1>2, <1>4, <2>1 DEF Opened, Opener
  <1> QED BY <1>3, <1>4

LEMMA TreeSame ==
  ASSUME ScopesTree, FunctionsListed, text' = text, Opened' = Opened,
         scopes' = scopes, functions' = functions
  PROVE  ScopesTree' /\ FunctionsListed'
  <1>1. \A p : /\ Inner(p)' = Inner(p) /\ (IsFunction(p)' <=> IsFunction(p))
               /\ FunctionsUpTo(p)' = FunctionsUpTo(p)
    BY TextKept
  <1>2. \A p, s : ScopeAt(p, s)' = ScopeAt(p, s)
    BY TextKept
  <1>3. {p \in Opened : IsFunction(p)}' = {p \in Opened : IsFunction(p)}
    BY <1>1
  <1>4. ParentsEnclose'
    BY <1>1, <1>2 DEF ScopesTree, ParentsEnclose, ModuleScope
  <1>5. ScopesTree'
    BY <1>4 DEF ScopesTree, ScopesOrdered, OpenedHaveScopes, ModuleScope, NoScope
  <1>6. FunctionsListed'
    BY <1>1, <1>3 DEF FunctionsListed
  <1> QED BY <1>5, <1>6

(* The number of a function is one more than that of the function before it. *)
LEMMA FunctionsCount ==
  ASSUME WalkInv, Nested, Working("collect"), Advance, Opener(at)
  PROVE  LET before == {p \in Opened : IsFunction(p)}
         IN /\ IsFiniteSet(before) /\ Cardinality(before) \in Nat
            /\ IsFunction(at) => /\ {p \in Opened' : IsFunction(p)'} = before \cup {at}
                                 /\ Cardinality(before \cup {at}) = Cardinality(before) + 1
                                 /\ FunctionsUpTo(at) = before \cup {at}
            /\ ~IsFunction(at) => {p \in Opened' : IsFunction(p)'} = before
  <1> DEFINE before == {p \in Opened : IsFunction(p)}
  <1>1. /\ at \in Positions /\ pass = "collect" /\ text' = text /\ Opened' = Opened \cup {at}
        /\ \A p \in Opened : p \in Nat /\ p < at
    BY OpenedSteps
  <1>2. Positions = 1 .. Len(text) /\ Len(text) \in Nat /\ at \in Nat
    BY <1>1 DEF Positions, Nested
  <1>3. \A p : IsFunction(p)' <=> IsFunction(p)
    BY <1>1, TextKept
  <1>4. before = {p \in 1 .. at - 1 : IsFunction(p)}
    <2>1. \A p : IsFunction(p) => Opener(p)
      BY DEF Opener, IsFunction
    <2>2. Opened = {p \in Positions : Opener(p) /\ p < at}
      BY <1>1 DEF Opened
    <2>3. ASSUME NEW p \in before PROVE p \in 1 .. at - 1 /\ IsFunction(p)
      <3>1. p \in Opened /\ IsFunction(p)
        OBVIOUS
      <3>2. p \in Positions /\ p < at
        BY <2>2, <3>1
      <3> QED BY <1>2, <3>1, <3>2
    <2>4. ASSUME NEW p \in 1 .. at - 1, IsFunction(p) PROVE p \in before
      <3>1. p \in Positions /\ p < at
        BY <1>1, <1>2
      <3> QED BY <2>1, <2>2, <2>4, <3>1
    <2> HIDE DEF before
    <2> QED BY <2>3, <2>4
  <1>5. IsFiniteSet(1 .. at - 1) /\ before \in SUBSET (1 .. at - 1)
    <2>1. 1 \in Int /\ at - 1 \in Int
      BY <1>2
    <2> HIDE DEF before
    <2> QED BY <1>4, <2>1, FS_Interval
  <1>6. IsFiniteSet(before) /\ Cardinality(before) \in Nat
    BY <1>5, FS_Subset, FS_CardinalityType
  <1>7. at \notin before
    BY <1>2, <1>4
  <1>8. {p \in Opened' : IsFunction(p)'} = IF IsFunction(at) THEN before \cup {at} ELSE before
    BY <1>1, <1>3
  <1>9. IsFunction(at) => FunctionsUpTo(at) = before \cup {at}
    <2>1. \A p \in Int : p \in 1 .. at <=> p \in 1 .. at - 1 \/ p = at
      BY <1>1, <1>2
    <2> QED BY <1>1, <1>2, <1>4, <2>1 DEF FunctionsUpTo
  <1> HIDE DEF before
  <1>10. Cardinality(before \cup {at}) = Cardinality(before) + 1
    BY <1>6, <1>7, FS_AddElement
  <1> QED BY <1>6, <1>8, <1>9, <1>10 DEF before
-----------------------------------------------------------------------------
(* The tree of scopes grows by the scope of the function or the block that    *)
(* begins, and the walk stands where the text says. *)

LEMMA ItemIsItem ==
  ASSUME Nested, NEW i \in Positions
  PROVE  /\ text[i].kind \in ItemKinds <=> Item(i) = i
         /\ Item(i) \in Positions /\ text[Item(i)].kind \in ItemKinds
         /\ text[i].kind \in FunctionKinds => InFunction(i) /\ Item(i) = i
         /\ text[i].kind \in FunctionWide \cup {"Local", "Open", "Close"} => InFunction(i) /\ Item(i) < i
  <1>1. /\ text[1].kind \in ItemKinds /\ i \in Nat /\ i >= 1 /\ Item(i) \in 1 .. i
        /\ text[i].kind \notin ItemKinds => Item(i) < i
    BY AroundIs
  <1>2. text[Item(i)].kind \in ItemKinds
    BY <1>1, ItemIs DEF Item
  <1>3. text[i].kind \in ItemKinds => Item(i) = i
    BY <1>1, ItemUnique DEF Item
  <1>4. Item(i) \in Positions
    BY <1>1 DEF Positions, Nested
  <1>5. text[i].kind \in FunctionKinds => InFunction(i) /\ Item(i) = i
    BY <1>3 DEF InFunction, ItemKinds
  <1>6. text[i].kind \in FunctionWide \cup {"Local", "Open", "Close"} => InFunction(i)
    BY DEF Nested, WellNested, InFunction, Item, Positions
  <1>7. text[i].kind \in FunctionWide \cup {"Local", "Open", "Close"} => text[i].kind \notin ItemKinds
    BY DEF FunctionWide, ItemKinds, FunctionKinds
  <1> QED BY <1>1, <1>2, <1>3, <1>4, <1>5, <1>6, <1>7

ScopesExtend == /\ DOMAIN scopes \subseteq DOMAIN scopes'
                /\ \A s \in DOMAIN scopes : scopes'[s] = scopes[s]

LEMMA StandingStep ==
  ASSUME WalkInv, Nested, Standing, pass \in {"collect", "bindFunctions"}, Working(pass), Advance,
         ScopesExtend,
         text[at].kind \in FunctionKinds =>
           /\ lexical_scope' \in DOMAIN scopes' /\ scopes'[lexical_scope'].at = at
           /\ function_scope' = lexical_scope',
         text[at].kind = "Open" =>
           /\ lexical_scope' \in DOMAIN scopes' /\ scopes'[lexical_scope'].at = at
           /\ function_scope' = function_scope,
         text[at].kind = "Close" /\ lexical_scope \in DOMAIN scopes
           /\ scopes[lexical_scope].at = Inner(at) /\ Inner(at) \in BlocksAround(text, at) =>
           /\ lexical_scope' \in DOMAIN scopes' /\ scopes'[lexical_scope'].at = Inner(Inner(at))
           /\ function_scope' = function_scope,
         text[at].kind \notin FunctionKinds \cup {"Open", "Close"} =>
           lexical_scope' = lexical_scope /\ function_scope' = function_scope
  PROVE  Standing'
  <1>1. /\ WalkInv' /\ pass' = pass /\ text' = text /\ at < at'
        /\ \A j \in Positions : at < j /\ j < at' => ~Handles(pass, j)
    BY AdvanceSkips DEF Working, WalkInv
  <1>2. /\ Positions' = Positions /\ Positions = 1 .. Len(text) /\ Len(text) \in Nat
        /\ Inner(at)' = Inner(at') /\ Item(at)' = Item(at') /\ (InFunction(at)' <=> InFunction(at'))
    BY <1>1 DEF Positions, WalkInv, Inner, ScopesAround, InFunction, Item
  <1>3. at \in Positions /\ at \in Nat
    BY <1>2 DEF Working, WalkInv
  <1>4. \A j : text[j].kind \in FunctionKinds \cup {"Open", "Close"} => Handles(pass, j)
    BY DEF Handles, ReferenceKinds, FunctionKinds
  <1>5. pass' \notin {"alias", "bindModule"}
    BY <1>1
  <1>6. SUFFICES ASSUME NEW n, n = at', n \in Positions, text[n].kind \notin ItemKinds, InFunction(n)
                 PROVE  /\ lexical_scope' \in DOMAIN scopes' /\ scopes'[lexical_scope'].at = Inner(n)
                        /\ function_scope' \in DOMAIN scopes' /\ scopes'[function_scope'].at = Item(n)
    BY <1>1, <1>2, <1>5 DEF Standing
  <1>7. \A k \in at + 1 .. n - 1 : text[k].kind \notin FunctionKinds \cup {"Open", "Close"}
    <2> TAKE k \in at + 1 .. n - 1
    <2>1. n \in Nat /\ n <= Len(text)
      BY <1>2, <1>6
    <2>2. k \in Nat /\ at < k /\ k < n
      BY <1>3, <2>1
    <2>3. k \in Positions
      <3>1. Positions = 1 .. Len(text) /\ Len(text) \in Nat
        BY <1>2
      <3>2. k >= 1 /\ k <= Len(text)
        BY <2>1, <2>2, <3>1, <1>3
      <3> QED BY <2>2, <3>1, <3>2
    <2> QED BY <1>1, <1>4, <1>6, <2>2, <2>3
  <1>8. /\ InFunction(at) /\ Item(n) = Item(at)
        /\ text[at].kind \in FunctionKinds => Inner(n) = at /\ Item(n) = at
        /\ text[at].kind = "Open" => Inner(n) = at
        /\ text[at].kind = "Close" => /\ Inner(at) \in BlocksAround(text, at)
                                      /\ Inner(n) = Inner(Inner(at))
        /\ text[at].kind \notin FunctionKinds \cup {"Open", "Close"} => Inner(n) = Inner(at)
    BY <1>1, <1>3, <1>6, <1>7, InnerStep
  <1>9. CASE text[at].kind \in FunctionKinds
    BY <1>8, <1>9
  <1>10. CASE text[at].kind \notin FunctionKinds
    <2>1. text[at].kind \notin ItemKinds
      BY <1>3, <1>8, <1>10, ItemIsItem DEF InFunction
    <2>2. /\ lexical_scope \in DOMAIN scopes /\ scopes[lexical_scope].at = Inner(at)
          /\ function_scope \in DOMAIN scopes /\ scopes[function_scope].at = Item(at)
      BY <1>3, <1>8, <2>1 DEF Standing
    <2>3. /\ function_scope \in DOMAIN scopes' /\ scopes'[function_scope].at = Item(n)
          /\ lexical_scope \in DOMAIN scopes' /\ scopes'[lexical_scope].at = Inner(at)
      BY <1>8, <2>2 DEF ScopesExtend
    <2>4. CASE text[at].kind = "Open"
      BY <1>8, <2>3, <2>4
    <2>5. CASE text[at].kind = "Close"
      BY <1>8, <2>2, <2>3, <2>5
    <2>6. CASE text[at].kind \notin {"Open", "Close"}
      BY <1>8, <1>10, <2>3, <2>6
    <2> QED BY <2>4, <2>5, <2>6
  <1> QED BY <1>9, <1>10

(* The other passes stay in the scope of the module. *)
LEMMA StandingElsewhere ==
  ASSUME WalkInv, Standing, Advance, Working(pass), pass \in {"index", "alias", "bindModule"},
         lexical_scope' = lexical_scope
  PROVE  Standing'
  <1>1. pass' = pass
    BY DEF Advance
  <1> QED BY <1>1 DEF Standing

LEMMA StandingEndPass ==
  ASSUME WalkInv, Nested, EndPass
  PROVE  Standing'
  <1>1. /\ text' = text /\ pass' = After(pass) /\ lexical_scope' = ModuleScope
        /\ pass' # "done" => \A j \in Positions : j < at' => ~Handles(pass', j)
    BY EndPassSkips DEF EndPass
  <1>2. ASSUME pass' \in {"collect", "bindFunctions"}, NEW n, n = at', n \in Positions,
               text[n].kind \notin ItemKinds, InFunction(n)
        PROVE  FALSE
    <2>1. Item(n) < n /\ Item(n) \in Positions /\ text[Item(n)].kind \in FunctionKinds
      BY <1>2, ItemIsItem, AroundIs DEF InFunction
    <2>2. Handles(pass', Item(n))
      BY <1>2, <2>1 DEF Handles, ReferenceKinds, FunctionKinds
    <2> QED BY <1>1, <1>2, <2>1, <2>2
  <1>3. Positions' = Positions /\ (InFunction(at)' <=> InFunction(at'))
    BY <1>1 DEF Positions, InFunction, Item
  <1> QED BY <1>1, <1>2, <1>3 DEF Standing

LEMMA TreeGrows ==
  ASSUME WalkInv, Nested, ScopesTree, FunctionsListed, Working("collect"), Advance, Opener(at),
         NEW parent \in DOMAIN scopes,
         scopes[parent].at = (IF IsFunction(at) THEN 0 ELSE Inner(at)),
         NEW new, new = Len(scopes) + 1,
         scopes' = Append(scopes, ScopeAt(at, parent)),
         functions' = IF IsFunction(at) THEN Append(functions, new) ELSE functions
  PROVE  /\ ScopesTree' /\ FunctionsListed' /\ ScopesExtend
         /\ new \in DOMAIN scopes' /\ scopes'[new].at = at
  <1>1. /\ at \in Positions /\ text' = text /\ Opened' = Opened \cup {at}
        /\ \A p \in Opened : p \in Nat /\ p < at
    BY OpenedSteps
  <1>2. at \in Nat /\ at > 0
    BY DEF WalkInv
  <1>3. PICK e : e = ScopeAt(at, parent)
    OBVIOUS
  <1>4. e.at = at /\ e.parent = parent /\ e = ScopeAt(e.at, e.parent)
    BY <1>3 DEF ScopeAt
  <1>5. /\ IsSeq(scopes') /\ Len(scopes) \in Nat /\ DOMAIN scopes = 1 .. Len(scopes)
        /\ DOMAIN scopes' = 1 .. Len(scopes) + 1
        /\ \A s \in DOMAIN scopes : scopes'[s] = scopes[s]
        /\ scopes'[Len(scopes) + 1] = e
    BY <1>3, AppendKeeps DEF ScopesTree
  <1>6. /\ DOMAIN scopes' = DOMAIN scopes \cup {new} /\ scopes'[new] = e /\ new \notin DOMAIN scopes
        /\ parent \in 1 .. new - 1 /\ new # ModuleScope /\ ModuleScope \in DOMAIN scopes
    BY <1>5 DEF ScopesTree, ModuleScope
  <1>7. ScopesExtend
    BY <1>5, <1>6 DEF ScopesExtend
  <1>8. \A p : Inner(p)' = Inner(p) /\ (IsFunction(p)' <=> IsFunction(p)) /\ FunctionsUpTo(p)' = FunctionsUpTo(p)
    BY <1>1, TextKept
  <1>9. \A p, s : ScopeAt(p, s)' = ScopeAt(p, s)
    BY <1>1, TextKept
  <1>10. \A s \in DOMAIN scopes : s # ModuleScope =>
           /\ scopes[s].at \in Opened
           /\ scopes[s] = ScopeAt(scopes[s].at, scopes[s].parent)
           /\ scopes[s].parent \in 1 .. s - 1 /\ scopes[s].parent \in DOMAIN scopes
           /\ scopes[scopes[s].parent].at =
                IF IsFunction(scopes[s].at) THEN 0 ELSE Inner(scopes[s].at)
    BY <1>5 DEF ScopesTree, ParentsEnclose
  <1>11. ParentsEnclose'
    <2> SUFFICES ASSUME NEW s \in DOMAIN scopes', s # ModuleScope
                 PROVE  /\ scopes'[s].at \in Opened'
                        /\ scopes'[s] = ScopeAt(scopes'[s].at, scopes'[s].parent)
                        /\ scopes'[s].parent \in 1 .. s - 1
                        /\ scopes'[scopes'[s].parent].at =
                             IF IsFunction(scopes'[s].at) THEN 0 ELSE Inner(scopes'[s].at)
      BY <1>8, <1>9 DEF ParentsEnclose, ModuleScope
    <2>1. CASE s = new
      BY <1>1, <1>4, <1>5, <1>6, <2>1
    <2>2. CASE s \in DOMAIN scopes
      BY <1>1, <1>5, <1>10, <2>2
    <2> QED BY <1>6, <2>1, <2>2
  <1>12. ScopesOrdered'
    <2> SUFFICES ASSUME NEW s \in DOMAIN scopes', NEW q \in DOMAIN scopes', s < q
                 PROVE  scopes'[s].at < scopes'[q].at
      BY DEF ScopesOrdered
    <2>1. s \in DOMAIN scopes
      BY <1>5
    <2>2. CASE q \in DOMAIN scopes
      BY <1>5, <2>1, <2>2 DEF ScopesTree, ScopesOrdered
    <2>3. CASE q = new
      BY <1>1, <1>2, <1>4, <1>5, <1>6, <1>10, <2>1, <2>3 DEF ScopesTree
    <2> QED BY <1>6, <2>2, <2>3
  <1>13. OpenedHaveScopes'
    <2> SUFFICES ASSUME NEW p \in Opened'
                 PROVE  \E s \in DOMAIN scopes' : s # ModuleScope /\ scopes'[s].at = p
      BY DEF OpenedHaveScopes, ModuleScope
    <2>1. CASE p = at
      BY <1>4, <1>6, <2>1
    <2>2. CASE p \in Opened
      BY <1>5, <1>6, <2>2 DEF ScopesTree, OpenedHaveScopes
    <2> QED BY <1>1, <2>1, <2>2
  <1>14. ScopesTree'
    BY <1>5, <1>6, <1>11, <1>12, <1>13 DEF ScopesTree, ModuleScope, NoScope
  <1> DEFINE before == {p \in Opened : IsFunction(p)}
  <1>15. /\ Cardinality(before) \in Nat
         /\ IsFunction(at) => /\ {p \in Opened' : IsFunction(p)'} = before \cup {at}
                              /\ Cardinality(before \cup {at}) = Cardinality(before) + 1
                              /\ FunctionsUpTo(at) = before \cup {at}
         /\ ~IsFunction(at) => {p \in Opened' : IsFunction(p)'} = before
    BY FunctionsCount
  <1>16. /\ IsSeq(functions) /\ Len(functions) = Cardinality(before)
         /\ \A p \in before : /\ Cardinality(FunctionsUpTo(p)) \in DOMAIN functions
                              /\ functions[Cardinality(FunctionsUpTo(p))] \in DOMAIN scopes
                              /\ scopes[functions[Cardinality(FunctionsUpTo(p))]].at = p
    BY DEF FunctionsListed
  <1> HIDE DEF before
  <1>17. FunctionsListed'
    <2>1. CASE IsFunction(at)
      <3>1. functions' = Append(functions, new)
        BY <2>1
      <3>2. /\ IsSeq(functions') /\ DOMAIN functions = 1 .. Len(functions)
            /\ Len(functions') = Len(functions) + 1
            /\ DOMAIN functions' = 1 .. Len(functions) + 1
            /\ \A i \in DOMAIN functions : functions'[i] = functions[i]
            /\ functions'[Len(functions) + 1] = new
        BY <1>16, <3>1, AppendKeeps
      <3>3. \A p \in before \cup {at} :
              /\ Cardinality(FunctionsUpTo(p)) \in DOMAIN functions'
              /\ functions'[Cardinality(FunctionsUpTo(p))] \in DOMAIN scopes'
              /\ scopes'[functions'[Cardinality(FunctionsUpTo(p))]].at = p
        <4> TAKE p \in before \cup {at}
        <4>1. CASE p = at
          <5>1. Cardinality(FunctionsUpTo(at)) = Len(functions) + 1 /\ Len(functions) \in Nat
            BY <1>15, <1>16, <2>1
          <5>2. Len(functions) + 1 \in DOMAIN functions' /\ functions'[Len(functions) + 1] = new
            BY <3>2, <5>1
          <5> QED BY <1>4, <1>6, <4>1, <5>1, <5>2
        <4>2. CASE p \in before
          BY <1>5, <1>6, <1>15, <1>16, <3>2, <4>2
        <4> QED BY <4>1, <4>2
      <3>4. \A p \in Opened' : IsFunction(p)' => p \in before \cup {at}
        BY <1>15, <2>1
      <3> QED BY <1>8, <1>15, <1>16, <2>1, <3>2, <3>3, <3>4 DEF FunctionsListed
    <2>2. CASE ~IsFunction(at)
      <3>1. functions' = functions /\ {p \in Opened' : IsFunction(p)'} = before
        BY <1>15, <2>2
      <3>2. \A p \in Opened' : IsFunction(p)' => p \in before
        BY <3>1
      <3> QED BY <1>5, <1>6, <1>8, <1>16, <3>1, <3>2 DEF FunctionsListed
    <2> QED BY <2>1, <2>2
  <1> QED BY <1>4, <1>6, <1>7, <1>14, <1>17

LEMMA ScopeOne ==
  ASSUME Nested, ScopesTree
  PROVE  /\ \A s \in DOMAIN scopes : s \in Nat /\ scopes[s].at \in Nat
         /\ \A s, q \in DOMAIN scopes : scopes[s].at = scopes[q].at => s = q
         /\ \A s, q \in DOMAIN scopes : s < q <=> scopes[s].at < scopes[q].at
  <1>1. \A s \in DOMAIN scopes : s \in Nat
    BY DEF ScopesTree, IsSeq
  <1>2. Opened \subseteq Nat
    BY DEF Opened, Positions, Nested
  <1>3. \A s \in DOMAIN scopes : scopes[s].at \in Nat
    <2> TAKE s \in DOMAIN scopes
    <2>1. CASE s = ModuleScope
      BY <2>1 DEF ScopesTree
    <2>2. CASE s # ModuleScope
      BY <1>2, <2>2 DEF ScopesTree, ParentsEnclose
    <2> QED BY <2>1, <2>2
  <1>4. \A s, q \in DOMAIN scopes : s < q => scopes[s].at < scopes[q].at
    BY DEF ScopesTree, ScopesOrdered
  <1> QED BY <1>1, <1>3, <1>4

LEMMA ScopeInit ==
  ASSUME Init
  PROVE  ScopeInv
  <1>1. /\ text \in Seq(Events) /\ WellNested(text) /\ pass = "index" /\ functions = <<>>
    BY TextsAssumption DEF Init
  <1>2. Opened = {}
    BY <1>1 DEF Opened
  <1>3. PICK e : e = [kind |-> "Module", parent |-> NoScope, at |-> 0]
    OBVIOUS
  <1>4. scopes = <<e>> /\ e.at = 0 /\ e.parent = NoScope
    BY <1>3 DEF Init
  <1>5. <<e>> \in Seq({e}) /\ DOMAIN scopes = {1} /\ scopes[1] = e
    BY <1>4
  <1>6. ScopesTree
    <2>1. IsSeq(scopes) /\ \A s \in DOMAIN scopes : s = 1
      BY <1>4, <1>5 DEF IsSeq
    <2>2. ParentsEnclose /\ ScopesOrdered
      BY <2>1 DEF ParentsEnclose, ScopesOrdered, ModuleScope
    <2> QED BY <1>2, <1>4, <1>5, <2>1, <2>2 DEF ScopesTree, OpenedHaveScopes, ModuleScope
  <1>7. FunctionsListed
    <2>1. {p \in Opened : IsFunction(p)} = {} /\ Cardinality({}) = 0
      BY <1>2, FS_EmptySet
    <2>2. functions \in Seq({}) /\ Len(functions) = 0
      BY <1>1
    <2> QED BY <1>2, <2>1, <2>2 DEF FunctionsListed, IsSeq
  <1>8. Standing
    BY <1>1 DEF Standing
  <1> QED BY <1>1, <1>6, <1>7, <1>8 DEF ScopeInv, Nested

(* Steps that make no scope *)
LEMMA ScopeSame ==
  ASSUME ScopeInv, text' = text, Opened' = Opened, scopes' = scopes, functions' = functions, Standing'
  PROVE  ScopeInv'
  <1>1. ScopesTree' /\ FunctionsListed'
    BY TreeSame DEF ScopeInv
  <1> QED BY <1>1, TextKept DEF ScopeInv

LEMMA ScopeCollect ==
  ASSUME WalkInv, ScopeInv, CollectFunction \/ CollectBlock
  PROVE  ScopeInv' /\ ScopesExtend
  <1> USE DEF ScopeInv
  <1>1. /\ Working("collect") /\ Advance /\ pass = "collect" /\ Working(pass) /\ event = text[at]
    BY DEF CollectFunction, CollectBlock, Working, event
  <1>2. at \in Positions /\ text' = text
    BY <1>1, OpenedSteps
  <1>3. Nested'
    BY <1>2, TextKept
  <1>4. PICK new : new = Len(scopes) + 1
    OBVIOUS
  <1>5. CASE CollectFunction
    <2>1. /\ text[at].kind \in FunctionKinds /\ text[at].kind \notin {"Open", "Close"}
          /\ scopes' = Append(scopes, [kind |-> "Function", parent |-> ModuleScope, at |-> at])
          /\ functions' = Append(functions, new)
          /\ function_scope' = new /\ lexical_scope' = new
      BY <1>1, <1>4, <1>5 DEF CollectFunction, FunctionKinds
    <2>2. Opener(at) /\ IsFunction(at) /\ scopes' = Append(scopes, ScopeAt(at, ModuleScope))
      BY <2>1 DEF Opener, IsFunction, ScopeAt
    <2>3. ModuleScope \in DOMAIN scopes /\ scopes[ModuleScope].at = 0
      BY DEF ScopesTree
    <2>4. /\ ScopesTree' /\ FunctionsListed' /\ ScopesExtend
          /\ new \in DOMAIN scopes' /\ scopes'[new].at = at
      BY <1>1, <1>4, <2>1, <2>2, <2>3, TreeGrows
    <2>5. Standing'
      BY <1>1, <2>1, <2>4, StandingStep
    <2> QED BY <1>3, <2>4, <2>5
  <1>6. CASE CollectBlock
    <2>1. /\ text[at].kind = "Open" /\ text[at].kind \notin FunctionKinds
          /\ scopes' = Append(scopes, [kind |-> "Block", parent |-> lexical_scope, at |-> at])
          /\ functions' = functions
          /\ function_scope' = function_scope /\ lexical_scope' = new
      BY <1>1, <1>4, <1>6 DEF CollectBlock, FunctionKinds
    <2>2. Opener(at) /\ ~IsFunction(at) /\ scopes' = Append(scopes, ScopeAt(at, lexical_scope))
      BY <2>1 DEF Opener, IsFunction, ScopeAt
    <2>3. lexical_scope \in DOMAIN scopes /\ scopes[lexical_scope].at = Inner(at)
      <3>1. InFunction(at) /\ text[at].kind \notin ItemKinds
        BY <1>2, <2>1, ItemIsItem DEF ItemKinds, FunctionKinds
      <3> QED BY <1>1, <1>2, <3>1 DEF Standing
    <2>4. /\ ScopesTree' /\ FunctionsListed' /\ ScopesExtend
          /\ new \in DOMAIN scopes' /\ scopes'[new].at = at
      BY <1>1, <1>4, <2>1, <2>2, <2>3, TreeGrows
    <2>5. Standing'
      BY <1>1, <2>1, <2>4, StandingStep
    <2> QED BY <1>3, <2>4, <2>5
  <1> QED BY <1>5, <1>6

LEMMA ScopeEndBlock ==
  ASSUME WalkInv, ScopeInv, EndBlock
  PROVE  ScopeInv' /\ ScopesExtend
  <1> USE DEF ScopeInv
  <1>1. /\ pass \in {"collect", "bindFunctions"} /\ Working(pass) /\ Advance /\ text' = text
        /\ scopes' = scopes /\ functions' = functions /\ function_scope' = function_scope
        /\ text[at].kind = "Close" /\ text[at].kind \notin FunctionKinds
        /\ lexical_scope' = scopes[lexical_scope].parent
    BY DEF EndBlock, table_vars, event, FunctionKinds, Advance
  <1>2. ~Opener(at)
    BY <1>1 DEF Opener
  <1>3. Opened' = Opened
    BY <1>1, <1>2, OpenedSteps, OpenedElsewhere
  <1>4. ASSUME lexical_scope \in DOMAIN scopes, scopes[lexical_scope].at = Inner(at),
               Inner(at) \in BlocksAround(text, at)
        PROVE  lexical_scope' \in DOMAIN scopes /\ scopes[lexical_scope'].at = Inner(Inner(at))
    <2>1. at \in Positions
      BY <1>1 DEF WalkInv, Working, Positions
    <2>2. Inner(at) \in Positions /\ text[Inner(at)].kind = "Open"
      BY <1>4, <2>1, AroundNested
    <2>3. ~IsFunction(Inner(at)) /\ Inner(at) # 0
      <3>1. Inner(at) # 0
        BY <2>2, AroundIs
      <3> QED BY <2>2, <3>1 DEF IsFunction, FunctionKinds
    <2>4. lexical_scope # ModuleScope
      BY <1>4, <2>3 DEF ScopesTree
    <2>5. /\ scopes[lexical_scope].parent \in 1 .. lexical_scope - 1
          /\ scopes[scopes[lexical_scope].parent].at = Inner(Inner(at))
      BY <1>4, <2>3, <2>4 DEF ScopesTree, ParentsEnclose
    <2>6. DOMAIN scopes = 1 .. Len(scopes) /\ Len(scopes) \in Nat
      BY DEF ScopesTree, IsSeq
    <2> QED BY <1>1, <1>4, <2>5, <2>6
  <1>5. ScopesExtend
    BY <1>1 DEF ScopesExtend
  <1>6. Standing'
    BY <1>1, <1>4, <1>5, StandingStep
  <1> QED BY <1>1, <1>3, <1>5, <1>6, ScopeSame

LEMMA ScopeBind ==
  ASSUME WalkInv, ScopeInv, BindFunction \/ BindBlock
  PROVE  ScopeInv' /\ ScopesExtend
  <1> USE DEF ScopeInv
  <1>1. /\ pass = "bindFunctions" /\ Working(pass) /\ Advance /\ text' = text
        /\ scopes' = scopes /\ functions' = functions /\ event = text[at]
    BY DEF BindFunction, BindBlock, Working, table_vars, event, Advance
  <1>2. Opened' = Opened /\ at \in Positions /\ ScopesExtend
    BY <1>1, OpenedElsewhere DEF WalkInv, Working, Positions, ScopesExtend
  <1>3. CASE BindFunction
    <2>1. IsFunction(at) /\ text[at].kind \in FunctionKinds /\ text[at].kind \notin {"Open", "Close"}
      BY <1>1, <1>3 DEF BindFunction, IsFunction, FunctionKinds
    <2>2. lexical_scope' = functions[Cardinality(FunctionsUpTo(at))] /\ function_scope' = lexical_scope'
      BY <1>3 DEF BindFunction, FunctionsUpTo, IsFunction
    <2>3. at \in Opened
      BY <1>1, <1>2, <2>1 DEF Opened, Opener
    <2>4. lexical_scope' \in DOMAIN scopes' /\ scopes'[lexical_scope'].at = at
      BY <1>1, <2>1, <2>2, <2>3 DEF FunctionsListed
    <2>5. Standing'
      BY <1>1, <1>2, <2>1, <2>2, <2>4, StandingStep
    <2> QED BY <1>1, <1>2, <2>5, ScopeSame
  <1>4. CASE BindBlock
    <2>1. ~IsFunction(at) /\ text[at].kind = "Open" /\ text[at].kind \notin FunctionKinds
      BY <1>1, <1>4 DEF BindBlock, IsFunction, FunctionKinds
    <2>2. lexical_scope' = blockScope(lexical_scope, at) /\ function_scope' = function_scope
      BY <1>4 DEF BindBlock
    <2>3. at \in Opened
      BY <1>1, <1>2, <2>1 DEF Opened, Opener
    <2>4. PICK s \in DOMAIN scopes : s # ModuleScope /\ scopes[s].at = at
      BY <2>3 DEF ScopesTree, OpenedHaveScopes
    <2>5. /\ scopes[s] = ScopeAt(at, scopes[s].parent) /\ scopes[s].parent \in 1 .. s - 1
          /\ scopes[scopes[s].parent].at = Inner(at)
      BY <2>1, <2>4 DEF ScopesTree, ParentsEnclose
    <2>6. lexical_scope \in DOMAIN scopes /\ scopes[lexical_scope].at = Inner(at)
      <3>1. InFunction(at) /\ text[at].kind \notin ItemKinds
        BY <1>2, <2>1, ItemIsItem DEF ItemKinds, FunctionKinds
      <3> QED BY <1>1, <1>2, <3>1 DEF Standing
    <2>7. scopes[s].parent \in DOMAIN scopes
      <3>1. DOMAIN scopes = 1 .. Len(scopes) /\ Len(scopes) \in Nat
        BY DEF ScopesTree, IsSeq
      <3> QED BY <2>4, <2>5, <3>1
    <2>8. scopes[s].parent = lexical_scope
      BY <2>5, <2>6, <2>7, ScopeOne
    <2>9. scopes[s] = [kind |-> "Block", parent |-> lexical_scope, at |-> at]
      BY <2>1, <2>5, <2>8 DEF ScopeAt
    <2>10. /\ lexical_scope' \in DOMAIN scopes
           /\ scopes[lexical_scope'] = [kind |-> "Block", parent |-> lexical_scope, at |-> at]
      BY <2>2, <2>9 DEF blockScope
    <2>11. scopes[lexical_scope'].at = at
      BY <2>10
    <2>12. Standing'
      BY <1>1, <1>2, <2>1, <2>2, <2>10, <2>11, StandingStep
    <2> QED BY <1>1, <1>2, <2>12, ScopeSame
  <1> QED BY <1>3, <1>4

LEMMA ScopeStep ==
  ASSUME WalkInv, ScopeInv, [Next]_vars
  PROVE  ScopeInv' /\ ScopesExtend
  <1> USE DEF ScopeInv
  <1>1. CASE CollectVariable \/ CollectFunctionWide
    <2>1. /\ pass = "collect" /\ Working("collect") /\ Working(pass) /\ Advance
          /\ scopes' = scopes /\ functions' = functions
          /\ lexical_scope' = lexical_scope /\ function_scope' = function_scope
          /\ text[at].kind \notin FunctionKinds \cup {"Open", "Close"}
      BY <1>1 DEF CollectVariable, CollectFunctionWide, Working, walk_vars, event, FunctionKinds, FunctionWide
    <2>2. Opened' = Opened /\ text' = text
      BY <2>1, OpenedSteps DEF Opener
    <2>3. ScopesExtend
      BY <2>1 DEF ScopesExtend
    <2>4. Standing'
      BY <2>1, <2>3, StandingStep
    <2> QED BY <2>1, <2>2, <2>3, <2>4, ScopeSame
  <1>2. CASE IndexAmbiguous \/ IndexNew \/ IndexRepeated \/ CollectAlias \/ DropAlias
             \/ (BindReference /\ pass = "bindModule")
    <2>1. /\ pass \in {"index", "alias", "bindModule"} /\ Working(pass) /\ Advance /\ text' = text
          /\ scopes' = scopes /\ functions' = functions /\ lexical_scope' = lexical_scope
      BY <1>2 DEF IndexAmbiguous, IndexNew, IndexRepeated, CollectAlias, DropAlias, BindReference,
                  Working, walk_vars, table_vars, Advance
    <2>2. Opened' = Opened
      BY <2>1, OpenedElsewhere
    <2>3. Standing'
      BY <2>1, StandingElsewhere
    <2> QED BY <2>1, <2>2, <2>3, ScopeSame DEF ScopesExtend
  <1>3. CASE BindReference /\ pass # "bindModule"
    <2>1. /\ pass = "bindFunctions" /\ Working(pass) /\ Advance /\ text' = text
          /\ scopes' = scopes /\ functions' = functions
          /\ lexical_scope' = lexical_scope /\ function_scope' = function_scope
          /\ text[at].kind \notin FunctionKinds \cup {"Open", "Close"}
      BY <1>3 DEF BindReference, Working, walk_vars, table_vars, Advance, event, ReferenceKinds, FunctionKinds
    <2>2. Opened' = Opened /\ ScopesExtend
      BY <2>1, OpenedElsewhere DEF ScopesExtend
    <2>3. Standing'
      BY <2>1, <2>2, StandingStep
    <2> QED BY <2>1, <2>2, <2>3, ScopeSame
  <1>4. CASE EndPass
    <2>1. text' = text /\ scopes' = scopes /\ functions' = functions
      BY <1>4 DEF EndPass, table_vars
    <2> QED BY <1>4, <2>1, OpenedEndPass, StandingEndPass, ScopeSame DEF ScopesExtend
  <1>5. CASE UNCHANGED vars
    <2>1. /\ text' = text /\ scopes' = scopes /\ functions' = functions /\ pass' = pass /\ at' = at
          /\ lexical_scope' = lexical_scope /\ function_scope' = function_scope
      BY <1>5 DEF vars
    <2>2. Opened' = Opened
      BY <2>1 DEF Opened, Positions, Opener
    <2>3. Standing'
      BY <2>1, TextKept DEF Standing
    <2> QED BY <2>1, <2>2, <2>3, ScopeSame DEF ScopesExtend
  <1> QED BY <1>1, <1>2, <1>3, <1>4, <1>5, ScopeCollect, ScopeEndBlock, ScopeBind DEF Next, Returned
-----------------------------------------------------------------------------
(* The way of lookup() *)

LEMMA AroundParent ==
  ASSUME Nested, NEW i \in Positions, NEW p \in ScopesAround(i), p # 0
  PROVE  /\ p \in Positions /\ Opener(p)
         /\ IsFunction(p) => \A x \in ScopesAround(i) : x < p => x = 0
         /\ ~IsFunction(p) => /\ Inner(p) \in ScopesAround(i)
                              /\ \A x \in ScopesAround(i) : x < p => x <= Inner(p)
  <1>1. i \in Nat /\ Item(i) \in 1 .. i /\ ScopesAround(i) \subseteq 0 .. i /\ text[1].kind \in ItemKinds
        /\ i >= 1
    BY AroundIs
  <1>2. BlocksAround(text, i) \subseteq Item(i) + 1 .. i - 1
    BY <1>1, BlocksIs DEF Item
  <1>3. CASE InFunction(i) /\ p = Item(i)
    <2>1. p \in Positions /\ IsFunction(p) /\ Opener(p)
      BY <1>3, ItemIsItem DEF InFunction, IsFunction, Opener
    <2>2. \A x \in ScopesAround(i) : x < p => x = 0
      BY <1>1, <1>2, <1>3 DEF ScopesAround
    <2> QED BY <2>1, <2>2
  <1>4. CASE p \in BlocksAround(text, i)
    <2>1. /\ p \in Positions /\ text[p].kind = "Open"
          /\ ScopesAround(p) = {s \in ScopesAround(i) : s < p}
      BY <1>4, AroundNested
    <2>2. ~IsFunction(p) /\ Opener(p)
      BY <2>1 DEF IsFunction, Opener, FunctionKinds
    <2>3. Inner(p) \in ScopesAround(p) /\ \A x \in ScopesAround(p) : x <= Inner(p)
      BY <2>1, AroundIs
    <2> QED BY <2>1, <2>2, <2>3
  <1> QED BY <1>3, <1>4 DEF ScopesAround

LEMMA ParentIs ==
  ASSUME ScopeInv, NEW i \in Positions, NEW q \in DOMAIN scopes, scopes[q].at \in ScopesAround(i),
         NEW parent, parent = scopes[q].parent
  PROVE  /\ q = ModuleScope => parent = NoScope
         /\ q # ModuleScope =>
              /\ parent \in DOMAIN scopes /\ parent # NoScope /\ parent < q
              /\ scopes[parent].at \in ScopesAround(i)
              /\ \A x \in ScopesAround(i) : x < scopes[q].at => x <= scopes[parent].at
  <1> USE DEF ScopeInv
  <1>1. CASE q = ModuleScope
    BY <1>1 DEF ScopesTree
  <1>2. CASE q # ModuleScope
    <2>1. PICK p : p = scopes[q].at
      OBVIOUS
    <2>2. /\ p \in Opened /\ parent \in 1 .. q - 1
          /\ scopes[parent].at = IF IsFunction(p) THEN 0 ELSE Inner(p)
      BY <1>2, <2>1 DEF ScopesTree, ParentsEnclose
    <2>3. DOMAIN scopes = 1 .. Len(scopes) /\ Len(scopes) \in Nat
      BY DEF ScopesTree, IsSeq
    <2>4. parent \in DOMAIN scopes /\ parent # NoScope /\ parent < q
      BY <2>2, <2>3 DEF NoScope
    <2>5. p \in ScopesAround(i) /\ p # 0
      <3>1. p \in Positions
        BY <2>2 DEF Opened
      <3> QED BY <2>1, <3>1, AroundIs
    <2>6. /\ IsFunction(p) => \A x \in ScopesAround(i) : x < p => x = 0
          /\ ~IsFunction(p) => /\ Inner(p) \in ScopesAround(i)
                               /\ \A x \in ScopesAround(i) : x < p => x <= Inner(p)
      BY <2>5, AroundParent
    <2>7. 0 \in ScopesAround(i)
      BY AroundIs
    <2> QED BY <1>2, <2>1, <2>2, <2>4, <2>6, <2>7
  <1> QED BY <1>1, <1>2

(* From the innermost scope, the parents are the scopes around, and they are  *)
(* as deep as the text says. *)
LEMMA EnclosingIs ==
  ASSUME ScopeInv, NEW i \in Positions, NEW scope \in DOMAIN scopes, scopes[scope].at = Inner(i)
  PROVE  Enclosing(scope) = {s \in DOMAIN scopes : scopes[s].at \in ScopesAround(i)}
  <1> DEFINE around == {s \in DOMAIN scopes : scopes[s].at \in ScopesAround(i)}
  <1>1. /\ \A s \in DOMAIN scopes : s \in Nat /\ scopes[s].at \in Nat
        /\ \A s, q \in DOMAIN scopes : scopes[s].at = scopes[q].at => s = q
        /\ \A s, q \in DOMAIN scopes : s < q <=> scopes[s].at < scopes[q].at
    BY ScopeOne DEF ScopeInv
  <1>2. Inner(i) \in ScopesAround(i) /\ \A x \in ScopesAround(i) : x <= Inner(i)
    BY AroundIs DEF ScopeInv
  <1>3. \A q \in around : scopes[q].parent \in around \cup {NoScope}
    BY ParentIs
  <1>4. ASSUME NEW s \in Enclosing(scope) PROVE s \in around
    <2>1. scope \in around /\ around \in SUBSET DOMAIN scopes
      BY <1>2
    <2> HIDE DEF around
    <2> QED BY <1>3, <2>1 DEF Enclosing
  <1>5. ASSUME NEW s \in around, s \notin Enclosing(scope) PROVE FALSE
    <2>1. PICK chain \in SUBSET DOMAIN scopes :
            /\ scope \in chain /\ s \notin chain
            /\ \A q \in chain : scopes[q].parent \in chain \cup {NoScope}
      BY <1>5 DEF Enclosing
    <2> DEFINE B == {q \in chain \cap around : q > s}
    <2>2. s \in Nat /\ s >= 1 /\ scopes[s].at \in ScopesAround(i)
      BY <1>1 DEF ScopeInv, ScopesTree, IsSeq
    <2>3. scope \in B
      <3>1. scopes[s].at <= scopes[scope].at /\ scope # s
        BY <1>2, <2>1, <2>2
      <3> QED BY <1>1, <1>2, <2>1, <3>1
    <2>4. B \subseteq Nat /\ B # {}
      BY <1>1, <2>3
    <2>5. PICK q \in B : \A x \in B : q <= x
      <3> HIDE DEF B
      <3> QED BY <2>4, MinExists
    <2>6. q \in chain /\ q \in around /\ q > s /\ q # ModuleScope /\ q \in DOMAIN scopes
      BY <2>2, <2>5 DEF ModuleScope
    <2>7. PICK parent : parent = scopes[q].parent
      OBVIOUS
    <2>8. /\ parent \in DOMAIN scopes /\ parent # NoScope /\ parent < q
          /\ scopes[parent].at \in ScopesAround(i)
          /\ \A x \in ScopesAround(i) : x < scopes[q].at => x <= scopes[parent].at
      BY <2>6, <2>7, ParentIs
    <2>9. parent \in chain /\ parent \in around
      BY <2>1, <2>6, <2>7, <2>8
    <2>10. parent >= s
      <3>1. scopes[s].at < scopes[q].at
        BY <1>1, <2>6
      <3>2. scopes[s].at <= scopes[parent].at
        BY <2>2, <2>8, <3>1
      <3> QED BY <1>1, <2>8, <3>2
    <2>11. parent # s
      BY <2>1, <2>9
    <2>12. parent \in B
      BY <1>1, <2>2, <2>8, <2>9, <2>10, <2>11
    <2> HIDE DEF B
    <2> QED BY <1>1, <2>5, <2>6, <2>8, <2>12
  <1>6. Enclosing(scope) \subseteq around
    BY <1>4
  <1> HIDE DEF around
  <1>7. around \subseteq Enclosing(scope)
    BY <1>5
  <1> QED BY <1>6, <1>7 DEF around
-----------------------------------------------------------------------------
(* Which aliases come into being *)

TakingAliases == {j \in AliasEvents : AliasTakes(j)}

LEMMA AliasFixpoint ==
  ASSUME NEW i \in AliasEvents
  PROVE  AliasTakes(i) <=> NamesFunction(i, TakingAliases)
  <1> DEFINE A == TakingAliases
             B == {j \in A : NamesFunction(j, A)}
  <1>1. A \in SUBSET AliasEvents /\ B \in SUBSET AliasEvents
    BY DEF TakingAliases
  <1>2. ASSUME NEW S, NEW T, S \subseteq T, NEW j, NamesFunction(j, S) PROVE NamesFunction(j, T)
    BY <1>2 DEF NamesFunction
  <1>3. ASSUME NEW j \in AliasEvents, NamesFunction(j, A) PROVE j \in A
    <2> SUFFICES ASSUME NEW taken \in SUBSET AliasEvents,
                        \A k \in AliasEvents : NamesFunction(k, taken) => k \in taken
                 PROVE  j \in taken
      BY DEF TakingAliases, AliasTakes
    <2>1. A \subseteq taken
      BY DEF TakingAliases, AliasTakes
    <2>2. NamesFunction(j, taken)
      BY <1>2, <1>3, <2>1
    <2> QED BY <2>2
  <1>4. ASSUME NEW j \in AliasEvents, NamesFunction(j, B) PROVE j \in B
    <2>1. NamesFunction(j, A)
      BY <1>2, <1>4
    <2> QED BY <1>3, <2>1
  <1>5. ASSUME AliasTakes(i) PROVE NamesFunction(i, A)
    <2> HIDE DEF B
    <2>1. i \in B
      BY <1>1, <1>4, <1>5 DEF AliasTakes
    <2> QED BY <2>1 DEF B
  <1>6. ASSUME NamesFunction(i, A) PROVE AliasTakes(i)
    BY <1>3, <1>6 DEF TakingAliases
  <1> QED BY <1>5, <1>6

LEMMA MeansKept ==
  ASSUME text' = text
  PROVE  /\ Positions' = Positions /\ AliasEvents' = AliasEvents
         /\ \A i : (AliasTakes(i)' <=> AliasTakes(i)) /\ (InFunction(i)' <=> InFunction(i))
         /\ \A i : DeclaredIn(i)' = DeclaredIn(i)
         /\ \A name, scope : Declarations(name, scope)' = Declarations(name, scope)
         /\ \A i : Meaning(i)' = Meaning(i)
  BY SMTT(30) DEF Positions, AliasEvents, AliasTakes, NamesFunction, FirstIsFunction, Declarations, DeclaredIn,
         ScopesAround, InFunction, Item, Meaning, Meanings, Aliases

-----------------------------------------------------------------------------
(* What the symbols stand for *)

(* The declarations that the second pass has been through *)
Seen == {d \in Positions : /\ text[d].kind \in DeclaringKinds /\ pass # "index"
                           /\ pass = "collect" => d < at}

SeenAs(name, place) == {d \in Seen : text[d].name = name /\ DeclaredIn(d) = place}

KindOf(d) == IF text[d].kind \in FunctionKinds THEN "Function"
             ELSE IF text[d].kind \in {"Variable", "Local"} THEN "Variable" ELSE text[d].kind

(* The aliases that the third pass has taken *)
Taken == {j \in AliasEvents : /\ AliasTakes(j) /\ pass \notin {"index", "collect"}
                              /\ pass = "alias" => j < at}
TakenAs(name) == {j \in Taken : text[j].name = name}

Earliest(d, S) == d \in S /\ \A e \in S : d <= e

(* A symbol stands for the earliest declaration of its name in its scope, or  *)
(* for the earliest alias of that name when nothing declares it. *)
StandsFor(symbol, tree, seen, taken) ==
  /\ symbol.scope \in DOMAIN tree
  /\ \/ /\ Earliest(symbol.at, {d \in seen : /\ text[d].name = symbol.name
                                          /\ DeclaredIn(d) = tree[symbol.scope].at})
        /\ symbol.kind = KindOf(symbol.at)
     \/ /\ symbol.scope = ModuleScope /\ symbol.kind = "Function"
        /\ Declarations(symbol.name, 0) = {}
        /\ Earliest(symbol.at, {j \in taken : text[j].name = symbol.name})

SymbolsMean == \A i \in DOMAIN symbols : StandsFor(symbols[i], scopes, Seen, Taken)

DeclaredHaveSymbols ==
  \A d \in Seen : \E i \in DOMAIN symbols : /\ symbols[i].name = text[d].name
                                            /\ scopes[symbols[i].scope].at = DeclaredIn(d)
TakenHaveSymbols ==
  \A j \in Taken : \E i \in DOMAIN symbols : /\ symbols[i].name = text[j].name
                                             /\ symbols[i].scope = ModuleScope

Aliased(symbol, taken) ==
  /\ symbol.scope = ModuleScope /\ symbol.kind = "Function"
  /\ \E j \in taken : text[j].name = symbol.name

(* The last alias of a function decides. *)
CanonicalIs(symbol, table, taken) ==
  LET c == symbol.canonical_function
  IN /\ ~Aliased(symbol, taken) => c = NoSymbol
     /\ Aliased(symbol, taken) =>
          /\ c \in DOMAIN table /\ table[c].kind = "Function" /\ table[c].scope = ModuleScope
          /\ \E j \in taken :
               /\ text[j].name = symbol.name /\ text[j].other = table[c].name
               /\ \A k \in taken : text[k].name = symbol.name => k <= j

Canonical == \A i \in DOMAIN symbols : CanonicalIs(symbols[i], symbols, Taken)

SymInv == SymbolsMean /\ DeclaredHaveSymbols /\ TakenHaveSymbols /\ Canonical

LEMMA SeenSteps ==
  ASSUME WalkInv, Working("collect"), Advance
  PROVE  /\ at \in Positions /\ pass = "collect" /\ pass' = pass /\ text' = text
         /\ Taken = {} /\ Taken' = {}
         /\ text[at].kind \notin DeclaringKinds => Seen' = Seen
         /\ text[at].kind \in DeclaringKinds => Seen' = Seen \cup {at}
         /\ \A d \in Seen : d \in Nat /\ d < at
  <1>1. /\ pass' = pass /\ text' = text /\ at < at' /\ at' \in Nat /\ at \in Nat
        /\ \A j \in Positions : at < j /\ j < at' => ~Handles(pass, j)
    BY AdvanceSkips DEF Working, WalkInv
  <1>2. Positions' = Positions /\ Positions = 1 .. Len(text) /\ Len(text) \in Nat
    BY <1>1 DEF Positions, WalkInv
  <1>3. pass = "collect" /\ at \in Positions
    BY <1>1, <1>2 DEF Working, WalkInv
  <1>4. \A j : text[j].kind \in DeclaringKinds => Handles("collect", j)
    BY DEF Handles, ReferenceKinds, DeclaringKinds, FunctionKinds, FunctionWide
  <1>5. \A j \in Positions : at < j /\ j < at' => text[j].kind \notin DeclaringKinds
    BY <1>1, <1>3, <1>4
  <1>6. Seen' = {d \in Positions : text[d].kind \in DeclaringKinds /\ d < at'}
    BY <1>1, <1>2, <1>3 DEF Seen
  <1>7. Seen = {d \in Positions : text[d].kind \in DeclaringKinds /\ d < at}
    BY <1>3 DEF Seen
  <1>8. Taken = {} /\ Taken' = {}
    BY <1>1, <1>3 DEF Taken
  <1> QED BY <1>1, <1>2, <1>3, <1>5, <1>6, <1>7, <1>8

LEMMA TakenSteps ==
  ASSUME WalkInv, Working("alias"), Advance
  PROVE  /\ at \in AliasEvents /\ pass = "alias" /\ pass' = pass /\ text' = text
         /\ Seen' = Seen
         /\ AliasTakes(at) => Taken' = Taken \cup {at}
         /\ ~AliasTakes(at) => Taken' = Taken
         /\ \A j \in Taken : j \in Nat /\ j < at
         /\ Taken = {j \in TakingAliases : j < at}
  <1>1. /\ pass' = pass /\ text' = text /\ at < at' /\ at' \in Nat /\ at \in Nat
        /\ \A j \in Positions : at < j /\ j < at' => ~Handles(pass, j)
    BY AdvanceSkips DEF Working, WalkInv
  <1>2. Positions' = Positions /\ Positions = 1 .. Len(text) /\ Len(text) \in Nat
    BY <1>1 DEF Positions, WalkInv
  <1>3. pass = "alias" /\ at \in Positions
    BY <1>1, <1>2 DEF Working, WalkInv
  <1>4. \A j : text[j].kind = "Alias" <=> Handles("alias", j)
    BY DEF Handles
  <1>5. at \in AliasEvents
    BY <1>3, <1>4 DEF AliasEvents, WalkInv, Working
  <1>6. /\ AliasEvents' = AliasEvents /\ \A j : AliasTakes(j)' <=> AliasTakes(j)
    BY <1>1, MeansKept
  <1>7. /\ AliasEvents \subseteq Positions
        /\ \A j \in AliasEvents : ~(at < j /\ j < at')
    BY <1>1, <1>3, <1>4 DEF AliasEvents
  <1>8. Taken' = {j \in AliasEvents : AliasTakes(j) /\ j < at'}
    BY <1>1, <1>3, <1>6 DEF Taken
  <1>9. Taken = {j \in AliasEvents : AliasTakes(j) /\ j < at}
    BY <1>3 DEF Taken
  <1>10. Seen' = Seen
    BY <1>1, <1>2, <1>3 DEF Seen
  <1>11. \A j \in AliasEvents : j < at' <=> j < at \/ j = at
    BY <1>1, <1>2, <1>7
  <1>12. /\ AliasTakes(at) => Taken' = Taken \cup {at}
         /\ ~AliasTakes(at) => Taken' = Taken
    BY <1>5, <1>8, <1>9, <1>11
  <1>13. \A j \in Taken : j \in Nat /\ j < at
    BY <1>2, <1>7, <1>9
  <1> QED BY <1>1, <1>3, <1>5, <1>9, <1>10, <1>12, <1>13 DEF TakingAliases

LEMMA SeenElsewhere ==
  ASSUME Advance, pass \notin {"collect", "alias"}
  PROVE  Seen' = Seen /\ Taken' = Taken
  <1>1. text' = text /\ pass' = pass
    BY DEF Advance
  <1>2. /\ Positions' = Positions /\ AliasEvents' = AliasEvents
        /\ \A j : AliasTakes(j)' <=> AliasTakes(j)
    BY <1>1, MeansKept
  <1> QED BY <1>1, <1>2 DEF Seen, Taken

LEMMA SeenEndPass ==
  ASSUME WalkInv, EndPass
  PROVE  Seen' = Seen /\ Taken' = Taken
  <1>1. /\ text' = text /\ pass' = After(pass)
        /\ \A j \in Positions : j < at
        /\ pass' # "done" => \A j \in Positions : j < at' => ~Handles(pass', j)
    BY EndPassSkips
  <1>2. /\ Positions' = Positions /\ AliasEvents' = AliasEvents
        /\ \A j : AliasTakes(j)' <=> AliasTakes(j)
    BY <1>1, MeansKept
  <1>3. pass \in PassNames /\ AliasEvents \subseteq Positions
    BY DEF EndPass, WalkInv, AliasEvents
  <1>4. CASE pass = "index"
    <2>1. pass' = "collect"
      BY <1>1, <1>4, AfterIsNext
    <2>2. \A j : text[j].kind \in DeclaringKinds => Handles("collect", j)
      BY DEF Handles, ReferenceKinds, DeclaringKinds, FunctionKinds, FunctionWide
    <2> QED BY <1>1, <1>2, <1>4, <2>1, <2>2 DEF Seen, Taken
  <1>5. CASE pass = "collect"
    <2>1. pass' = "alias"
      BY <1>1, <1>5, AfterIsNext
    <2>2. \A j \in AliasEvents : Handles("alias", j)
      BY DEF Handles, AliasEvents
    <2>3. Taken' = {} /\ Taken = {}
      BY <1>1, <1>2, <1>3, <1>5, <2>1, <2>2 DEF Taken
    <2> QED BY <1>1, <1>2, <1>5, <2>1, <2>3 DEF Seen
  <1>6. CASE pass \notin {"index", "collect"}
    <2>1. pass' \notin {"index", "collect", "alias"}
      BY <1>1, <1>3, <1>6, AfterIsNext DEF PassNames
    <2> QED BY <1>1, <1>2, <1>3, <1>6, <2>1 DEF Seen, Taken
  <1> QED BY <1>4, <1>5, <1>6

LEMMA SymPrimed ==
  ASSUME text' = text,
         \A i \in DOMAIN symbols' : StandsFor(symbols'[i], scopes', Seen', Taken'),
         \A d \in Seen' : \E i \in DOMAIN symbols' :
           symbols'[i].name = text[d].name /\ scopes'[symbols'[i].scope].at = DeclaredIn(d),
         \A j \in Taken' : \E i \in DOMAIN symbols' :
           symbols'[i].name = text[j].name /\ symbols'[i].scope = ModuleScope,
         \A i \in DOMAIN symbols' : CanonicalIs(symbols'[i], symbols', Taken')
  PROVE  SymInv'
  <1>1. /\ \A d : DeclaredIn(d)' = DeclaredIn(d)
        /\ \A name, scope : Declarations(name, scope)' = Declarations(name, scope)
    BY MeansKept
  <1>2. \A d : KindOf(d)' = KindOf(d)
    BY DEF KindOf
  <1>3. DeclaredHaveSymbols'
    BY <1>1 DEF DeclaredHaveSymbols
  <1>4. TakenHaveSymbols'
    BY DEF TakenHaveSymbols, ModuleScope
  <1>6. SymbolsMean'
    BY <1>1, <1>2 DEF SymbolsMean, StandsFor, ModuleScope, Earliest
  <1>7. Canonical'
    BY DEF Canonical, CanonicalIs, Aliased, ModuleScope, NoSymbol
  <1> QED BY <1>3, <1>4, <1>6, <1>7 DEF SymInv

LEMMA WithNew ==
  ASSUME SymbolsTyped, NEW scope, NEW kind, NEW name, NEW id, id = exactSymbol(scope, name),
         NEW w, w = WithSymbol(scope, kind, name), IsNew(id)
  PROVE  w[id].at = at /\ w[id].kind = kind /\ w[id].canonical_function = NoSymbol
  <1> DEFINE e == [scope |-> scope, kind |-> kind, name |-> name, at |-> at,
                   owned_scope |-> NoScope, canonical_function |-> NoSymbol]
  <1>1. e.at = at /\ e.kind = kind /\ e.canonical_function = NoSymbol
    OBVIOUS
  <1>2. w = Append(symbols, e)
    BY DEF WithSymbol
  <1> HIDE DEF e
  <1>3. w[Len(symbols) + 1] = e
    BY <1>2, AppendKeeps DEF SymbolsTyped
  <1> QED BY <1>1, <1>3 DEF IsNew

LEMMA SymSame ==
  ASSUME SymInv, text' = text, ScopesExtend, Seen' = Seen, Taken' = Taken, symbols' = symbols
  PROVE  SymInv'
  <1>1. \A i \in DOMAIN symbols : symbols[i].scope \in DOMAIN scopes
    BY DEF SymInv, SymbolsMean, StandsFor
  <1>2. \A i \in DOMAIN symbols : scopes'[symbols[i].scope].at = scopes[symbols[i].scope].at
    BY <1>1 DEF ScopesExtend
  <1>3. \A i \in DOMAIN symbols' : StandsFor(symbols'[i], scopes', Seen', Taken')
    <2> SUFFICES ASSUME NEW i \in DOMAIN symbols, NEW e, e = symbols[i]
                 PROVE  StandsFor(e, scopes', Seen, Taken)
      OBVIOUS
    <2>1. StandsFor(e, scopes, Seen, Taken) /\ e.scope \in DOMAIN scopes'
      BY <1>1 DEF SymInv, SymbolsMean, ScopesExtend
    <2>2. PICK place : place = scopes[e.scope].at
      OBVIOUS
    <2>3. scopes'[e.scope].at = place
      BY <1>2, <2>2
    <2> QED BY <2>1, <2>2, <2>3 DEF StandsFor
  <1>4. \A i \in DOMAIN symbols' : CanonicalIs(symbols'[i], symbols', Taken')
    BY DEF SymInv, Canonical
  <1>5. \A d \in Seen' : \E i \in DOMAIN symbols' :
           symbols'[i].name = text[d].name /\ scopes'[symbols'[i].scope].at = DeclaredIn(d)
    BY <1>2 DEF SymInv, DeclaredHaveSymbols
  <1>6. \A j \in Taken' : \E i \in DOMAIN symbols' :
           symbols'[i].name = text[j].name /\ symbols'[i].scope = ModuleScope
    BY DEF SymInv, TakenHaveSymbols
  <1> QED BY <1>3, <1>4, <1>5, <1>6, SymPrimed

(* A declaration that the second pass comes to *)
LEMMA SymDeclare ==
  ASSUME WalkInv, ScopeInv, OwnInv, SymInv, Working("collect"), Advance, ScopesExtend,
         text[at].kind \in DeclaringKinds,
         NEW scope \in DOMAIN scopes, scopes[scope].at = DeclaredIn(at),
         NEW w, w = WithSymbol(scope, KindOf(at), text[at].name),
         DOMAIN symbols' = DOMAIN w,
         \A i \in DOMAIN w : /\ symbols'[i].scope = w[i].scope /\ symbols'[i].name = w[i].name
                             /\ symbols'[i].kind = w[i].kind /\ symbols'[i].at = w[i].at
                             /\ symbols'[i].canonical_function = w[i].canonical_function
  PROVE  SymInv'
  <1>1. /\ text' = text /\ Taken = {} /\ Taken' = {} /\ Seen' = Seen \cup {at}
        /\ \A d \in Seen : d \in Nat /\ d < at
    BY SeenSteps
  <1>2. PICK id : id = exactSymbol(scope, text[at].name)
    OBVIOUS
  <1>3. PICK kind : kind = KindOf(at)
    OBVIOUS
  <1>4. PICK name : name = text[at].name
    OBVIOUS
  <1>5. SymbolsTyped /\ IsSeq(symbols)
    BY DEF OwnInv, SymbolsTyped
  <1>6. /\ id \in DOMAIN w /\ DOMAIN symbols \subseteq DOMAIN w
        /\ \A i \in DOMAIN symbols : w[i] = symbols[i]
        /\ \A i \in DOMAIN w : i \in DOMAIN symbols \/ (i = id /\ IsNew(id))
        /\ w[id].scope = scope /\ w[id].name = name
    BY <1>2, <1>3, <1>4, <1>5, WithIs
  <1>7. IsNew(id) => w[id].at = at /\ w[id].kind = kind /\ w[id].canonical_function = NoSymbol
    BY <1>2, <1>3, <1>4, <1>5, WithNew
  <1>8. IsNew(id) => \A i \in DOMAIN symbols : ~(symbols[i].scope = scope /\ symbols[i].name = name)
    BY <1>2, <1>4, <1>5, ExactIs
  <1>9. \A i \in DOMAIN symbols : symbols[i].scope \in DOMAIN scopes
    BY DEF SymInv, SymbolsMean, StandsFor
  <1>10. \A s \in DOMAIN scopes : s \in DOMAIN scopes' /\ scopes'[s].at = scopes[s].at
    BY DEF ScopesExtend
  <1>11. at \in Nat
    BY DEF WalkInv
  <1>12. \A i \in DOMAIN symbols' : StandsFor(symbols'[i], scopes', Seen', Taken')
    <2> SUFFICES ASSUME NEW i \in DOMAIN symbols' PROVE StandsFor(symbols'[i], scopes', Seen', Taken')
      OBVIOUS
    <2>1. CASE i \in DOMAIN symbols
      <3>1. StandsFor(symbols[i], scopes, Seen, Taken)
        BY <2>1 DEF SymInv, SymbolsMean
      <3>2. PICK place : place = scopes[symbols[i].scope].at
        OBVIOUS
      <3>3. /\ symbols[i].kind = KindOf(symbols[i].at)
            /\ Earliest(symbols[i].at, {d \in Seen : text[d].name = symbols[i].name /\ DeclaredIn(d) = place})
        BY <1>1, <3>1, <3>2 DEF StandsFor, Earliest
      <3>4. Earliest(symbols[i].at, {d \in Seen' : text[d].name = symbols[i].name /\ DeclaredIn(d) = place})
        BY <1>1, <1>11, <3>3 DEF Earliest
      <3>5. /\ symbols'[i].scope = symbols[i].scope /\ symbols'[i].name = symbols[i].name
            /\ symbols'[i].kind = symbols[i].kind /\ symbols'[i].at = symbols[i].at
        BY <1>6, <2>1
      <3> QED BY <1>9, <1>10, <2>1, <3>2, <3>3, <3>4, <3>5 DEF StandsFor
    <2>2. CASE i = id /\ IsNew(id)
      <3>1. \A d \in Seen : ~(text[d].name = name /\ DeclaredIn(d) = DeclaredIn(at))
        <4> SUFFICES ASSUME NEW d \in Seen, text[d].name = name, DeclaredIn(d) = DeclaredIn(at)
                     PROVE  FALSE
          OBVIOUS
        <4>1. PICK k \in DOMAIN symbols : /\ symbols[k].name = name
                                          /\ scopes[symbols[k].scope].at = scopes[scope].at
          BY DEF SymInv, DeclaredHaveSymbols
        <4>2. symbols[k].scope = scope
          BY <1>9, <4>1, ScopeOne DEF ScopeInv
        <4> QED BY <1>8, <2>2, <4>1, <4>2
      <3>2. Earliest(at, {d \in Seen' : text[d].name = name /\ DeclaredIn(d) = DeclaredIn(at)})
        BY <1>1, <1>4, <1>11, <3>1 DEF Earliest
      <3>3. /\ symbols'[i].scope = scope /\ symbols'[i].name = name
            /\ symbols'[i].kind = KindOf(at) /\ symbols'[i].at = at
        BY <1>3, <1>6, <1>7, <2>2
      <3> QED BY <1>10, <3>2, <3>3 DEF StandsFor
    <2> QED BY <1>6, <2>1, <2>2
  <1>13. \A d \in Seen' : \E i \in DOMAIN symbols' :
           symbols'[i].name = text[d].name /\ scopes'[symbols'[i].scope].at = DeclaredIn(d)
    <2> SUFFICES ASSUME NEW d \in Seen'
                 PROVE  \E i \in DOMAIN symbols' :
                          symbols'[i].name = text[d].name /\ scopes'[symbols'[i].scope].at = DeclaredIn(d)
      OBVIOUS
    <2>1. CASE d = at
      BY <1>4, <1>6, <1>10, <2>1
    <2>2. CASE d \in Seen
      <3>1. PICK i \in DOMAIN symbols : /\ symbols[i].name = text[d].name
                                        /\ scopes[symbols[i].scope].at = DeclaredIn(d)
        BY <2>2 DEF SymInv, DeclaredHaveSymbols
      <3> QED BY <1>6, <1>9, <1>10, <3>1
    <2> QED BY <1>1, <2>1, <2>2
  <1>14. \A i \in DOMAIN symbols' : CanonicalIs(symbols'[i], symbols', Taken')
    <2> SUFFICES ASSUME NEW i \in DOMAIN symbols' PROVE symbols'[i].canonical_function = NoSymbol
      BY <1>1 DEF CanonicalIs, Aliased
    <2>1. CASE i \in DOMAIN symbols
      <3>1. CanonicalIs(symbols[i], symbols, Taken)
        BY <2>1 DEF SymInv, Canonical
      <3> QED BY <1>1, <1>6, <2>1, <3>1 DEF CanonicalIs, Aliased
    <2> QED BY <1>6, <1>7, <2>1
  <1> QED BY <1>1, <1>12, <1>13, <1>14, SymPrimed

LEMMA DeclarationsSeen ==
  ASSUME pass \notin {"index", "collect"}, NEW name, NEW place
  PROVE  Declarations(name, place) = {d \in Seen : text[d].name = name /\ DeclaredIn(d) = place}
  BY DEF Declarations, Seen

LEMMA EarliestIsMin ==
  ASSUME Nested, NEW S, S \subseteq Positions, NEW d, Earliest(d, S)
  PROVE  S # {} /\ d = Min(S)
  <1>1. S \subseteq Nat /\ S # {}
    BY DEF Positions, Nested, Earliest
  <1>2. Min(S) \in S /\ \A x \in S : Min(S) <= x
    BY <1>1, MinExists
  <1>3. d \in S /\ d <= Min(S) /\ Min(S) <= d
    BY <1>2 DEF Earliest
  <1>4. PICK m : m = Min(S)
    OBVIOUS
  <1>5. m \in Nat /\ d \in Nat /\ d <= m /\ m <= d
    BY <1>1, <1>2, <1>3, <1>4
  <1> QED BY <1>1, <1>4, <1>5

LEMMA FunctionKindIs ==
  ASSUME NEW d, text[d].kind \in DeclaringKinds
  PROVE  KindOf(d) = "Function" <=> text[d].kind \in FunctionKinds
  BY DEF KindOf, DeclaringKinds, FunctionKinds, FunctionWide

(* The third pass takes an alias just when the text says that it takes. *)
LEMMA AliasTold ==
  ASSUME WalkInv, ScopeInv, OwnInv, SymInv, Working("alias"), Advance,
         NEW c, c = exactSymbol(ModuleScope, text[at].other)
  PROVE  /\ c \in Aliasees <=> AliasTakes(at)
         /\ c \in Aliasees => /\ c \in DOMAIN symbols /\ symbols[c].kind = "Function"
                              /\ symbols[c].scope = ModuleScope /\ symbols[c].name = text[at].other
  <1>1. /\ at \in AliasEvents /\ pass = "alias" /\ Taken = {j \in TakingAliases : j < at}
        /\ \A j \in Taken : j < at
    BY TakenSteps
  <1>2. PICK o : o = text[at].other
    OBVIOUS
  <1>3. IsSeq(symbols)
    BY DEF OwnInv, SymbolsTyped
  <1>4. /\ IsNew(c) => \A i \in DOMAIN symbols :
                         ~(symbols[i].scope = ModuleScope /\ symbols[i].name = o)
        /\ ~IsNew(c) => /\ c \in DOMAIN symbols
                        /\ symbols[c].scope = ModuleScope /\ symbols[c].name = o
    BY <1>2, <1>3, ExactIs
  <1>5. IsNew(c) => c \notin DOMAIN symbols
    BY <1>3 DEF IsNew, IsSeq
  <1>6. Declarations(o, 0) = {d \in Seen : text[d].name = o /\ DeclaredIn(d) = 0}
    BY <1>1, DeclarationsSeen
  <1>7. AliasTakes(at) <=> \/ FirstIsFunction(o)
                           \/ Declarations(o, 0) = {} /\ \E j \in Taken : text[j].name = o
    <2>1. AliasTakes(at) <=> NamesFunction(at, TakingAliases)
      BY <1>1, AliasFixpoint
    <2>2. (\E j \in TakingAliases : j < at /\ text[j].name = o) <=> \E j \in Taken : text[j].name = o
      BY <1>1
    <2> QED BY <1>2, <2>1, <2>2 DEF NamesFunction
  <1>8. scopes[ModuleScope].at = 0 /\ ModuleScope \in DOMAIN scopes
    BY DEF ScopeInv, ScopesTree
  <1>9. CASE IsNew(c)
    <2>1. Declarations(o, 0) = {}
      <3> SUFFICES ASSUME NEW d \in Seen, text[d].name = o, DeclaredIn(d) = 0 PROVE FALSE
        BY <1>6
      <3>1. PICK k \in DOMAIN symbols : symbols[k].name = o /\ scopes[symbols[k].scope].at = 0
        BY DEF SymInv, DeclaredHaveSymbols
      <3>2. symbols[k].scope \in DOMAIN scopes
        BY <3>1 DEF SymInv, SymbolsMean, StandsFor
      <3>3. symbols[k].scope = ModuleScope
        BY <1>8, <3>1, <3>2, ScopeOne DEF ScopeInv
      <3> QED BY <1>4, <1>9, <3>1, <3>3
    <2>2. ~ \E j \in Taken : text[j].name = o
      BY <1>4, <1>9 DEF SymInv, TakenHaveSymbols
    <2>3. ~FirstIsFunction(o)
      BY <2>1 DEF FirstIsFunction
    <2> QED BY <1>5, <1>7, <1>9, <2>2, <2>3 DEF Aliasees
  <1>10. CASE ~IsNew(c)
    <2>1. c \in Aliasees <=> symbols[c].kind = "Function"
      BY <1>4, <1>10 DEF Aliasees
    <2>2. StandsFor(symbols[c], scopes, Seen, Taken)
      BY <1>4, <1>10 DEF SymInv, SymbolsMean
    <2>3. CASE /\ Earliest(symbols[c].at, Declarations(o, 0))
               /\ symbols[c].kind = KindOf(symbols[c].at)
      <3>1. Declarations(o, 0) \subseteq Positions
        BY DEF Declarations
      <3>2. Declarations(o, 0) # {} /\ symbols[c].at = Min(Declarations(o, 0))
        BY <2>3, <3>1, EarliestIsMin DEF ScopeInv
      <3>3. symbols[c].at \in Declarations(o, 0)
        BY <2>3 DEF Earliest
      <3>4. text[symbols[c].at].kind \in DeclaringKinds
        BY <3>3 DEF Declarations
      <3>5. FirstIsFunction(o) <=> symbols[c].kind = "Function"
        BY <2>3, <3>2, <3>4, FunctionKindIs DEF FirstIsFunction
      <3> QED BY <1>2, <1>4, <1>7, <1>10, <2>1, <3>2, <3>5
    <2>4. CASE /\ symbols[c].kind = "Function" /\ Declarations(o, 0) = {}
               /\ Earliest(symbols[c].at, {j \in Taken : text[j].name = o})
      <3>1. \E j \in Taken : text[j].name = o
        BY <2>4 DEF Earliest
      <3> QED BY <1>2, <1>4, <1>7, <1>10, <2>1, <2>4, <3>1
    <2> QED BY <1>4, <1>6, <1>8, <1>10, <2>2, <2>3, <2>4 DEF StandsFor
  <1> QED BY <1>9, <1>10

LEMMA SymAlias ==
  ASSUME WalkInv, ScopeInv, OwnInv, SymInv, CollectAlias
  PROVE  SymInv'
  <1>1. /\ Working("alias") /\ Advance /\ scopes' = scopes /\ event = text[at]
    BY DEF CollectAlias, event
  <1>2. PICK c : c = exactSymbol(ModuleScope, text[at].other)
    OBVIOUS
  <1>3. PICK n : n = text[at].name
    OBVIOUS
  <1>4. PICK id : id = exactSymbol(ModuleScope, n)
    OBVIOUS
  <1>5. PICK w : w = WithSymbol(ModuleScope, "Function", n)
    OBVIOUS
  <1>6. /\ AliasTakes(at) /\ c \in DOMAIN symbols /\ symbols[c].kind = "Function"
        /\ symbols[c].scope = ModuleScope /\ symbols[c].name = text[at].other
    BY <1>1, <1>2, AliasTold DEF CollectAlias
  <1>7. /\ text' = text /\ Seen' = Seen /\ Taken' = Taken \cup {at} /\ pass = "alias"
        /\ \A j \in Taken : j \in Nat /\ j < at
    BY <1>1, <1>6, TakenSteps
  <1>8. symbols' = IF w[id].kind # "Function" THEN w ELSE [w EXCEPT ![id].canonical_function = c]
    BY <1>1, <1>2, <1>3, <1>4, <1>5 DEF CollectAlias
  <1>9. SymbolsTyped /\ IsSeq(symbols) /\ Unique
    BY DEF OwnInv, SymbolsTyped
  <1>10. /\ IsSeq(w) /\ id \in DOMAIN w /\ DOMAIN symbols \subseteq DOMAIN w
         /\ \A i \in DOMAIN symbols : w[i] = symbols[i]
         /\ \A i \in DOMAIN w : i \in DOMAIN symbols \/ (i = id /\ IsNew(id))
         /\ w[id].scope = ModuleScope /\ w[id].name = n
         /\ \A i \in DOMAIN w : DOMAIN w[i] = SymbolFields
    BY <1>4, <1>5, <1>9, WithIs
  <1>11. IsNew(id) => w[id].at = at /\ w[id].kind = "Function" /\ w[id].canonical_function = NoSymbol
    BY <1>4, <1>5, <1>9, WithNew
  <1>12. IsNew(id) => \A i \in DOMAIN symbols : ~(symbols[i].scope = ModuleScope /\ symbols[i].name = n)
    BY <1>4, <1>9, ExactIs
  <1>13. \A i, j \in DOMAIN w : w[i].scope = w[j].scope /\ w[i].name = w[j].name => i = j
    BY <1>5, WithUnique
  <1>14. /\ DOMAIN symbols' = DOMAIN w
         /\ \A i \in DOMAIN w :
              /\ symbols'[i].scope = w[i].scope /\ symbols'[i].name = w[i].name
              /\ symbols'[i].kind = w[i].kind /\ symbols'[i].at = w[i].at
              /\ symbols'[i].canonical_function =
                   IF i = id /\ w[id].kind = "Function" THEN c ELSE w[i].canonical_function
    <2> DEFINE e == [w[id] EXCEPT !.canonical_function = c]
    <2>1. /\ e.scope = w[id].scope /\ e.name = w[id].name /\ e.kind = w[id].kind /\ e.at = w[id].at
          /\ e.canonical_function = c
      BY <1>10 DEF SymbolFields
    <2>2. symbols' = IF w[id].kind # "Function" THEN w ELSE [w EXCEPT ![id] = e]
      BY <1>8
    <2> HIDE DEF e
    <2> QED BY <1>10, <2>1, <2>2, ExceptKeeps
  <1>15. \A i \in DOMAIN symbols : symbols[i].scope \in DOMAIN scopes
    BY DEF SymInv, SymbolsMean, StandsFor
  <1>16. ModuleScope \in DOMAIN scopes /\ scopes[ModuleScope].at = 0
    BY DEF ScopeInv, ScopesTree
  <1>17. at \in Nat
    BY DEF WalkInv
  <1>18. \A i \in DOMAIN symbols' : StandsFor(symbols'[i], scopes', Seen', Taken')
    <2> SUFFICES ASSUME NEW i \in DOMAIN symbols', NEW e, e = symbols'[i]
                 PROVE  StandsFor(e, scopes, Seen, Taken \cup {at})
      BY <1>1, <1>7
    <2>1. CASE i \in DOMAIN symbols
      <3>1. StandsFor(symbols[i], scopes, Seen, Taken)
        BY <2>1 DEF SymInv, SymbolsMean
      <3>2. /\ e.scope = symbols[i].scope /\ e.name = symbols[i].name
            /\ e.kind = symbols[i].kind /\ e.at = symbols[i].at
        BY <1>10, <1>14, <2>1
      <3>3. ASSUME Earliest(e.at, {j \in Taken : text[j].name = e.name})
            PROVE  Earliest(e.at, {j \in Taken \cup {at} : text[j].name = e.name})
        BY <1>7, <1>17, <3>3 DEF Earliest
      <3> QED BY <3>1, <3>2, <3>3 DEF StandsFor
    <2>2. CASE i = id /\ IsNew(id)
      <3>1. e.scope = ModuleScope /\ e.name = n /\ e.kind = "Function" /\ e.at = at
        BY <1>10, <1>11, <1>14, <2>2
      <3>2. Declarations(n, 0) = {}
        <4>1. Declarations(n, 0) = {d \in Seen : text[d].name = n /\ DeclaredIn(d) = 0}
          BY <1>7, DeclarationsSeen
        <4> SUFFICES ASSUME NEW d \in Seen, text[d].name = n, DeclaredIn(d) = 0 PROVE FALSE
          BY <4>1
        <4>2. PICK k \in DOMAIN symbols : symbols[k].name = n /\ scopes[symbols[k].scope].at = 0
          BY DEF SymInv, DeclaredHaveSymbols
        <4>3. symbols[k].scope = ModuleScope
          BY <1>15, <1>16, <4>2, ScopeOne DEF ScopeInv
        <4> QED BY <1>12, <2>2, <4>2, <4>3
      <3>3. \A j \in Taken : text[j].name # n
        BY <1>12, <2>2 DEF SymInv, TakenHaveSymbols
      <3>4. Earliest(at, {j \in Taken \cup {at} : text[j].name = n})
        BY <1>3, <1>17, <3>3 DEF Earliest
      <3> QED BY <1>16, <3>1, <3>2, <3>4 DEF StandsFor
    <2> QED BY <1>10, <1>14, <2>1, <2>2
  <1>19. \A d \in Seen' : \E i \in DOMAIN symbols' :
           symbols'[i].name = text[d].name /\ scopes'[symbols'[i].scope].at = DeclaredIn(d)
    BY <1>1, <1>7, <1>10, <1>14 DEF SymInv, DeclaredHaveSymbols
  <1>20. \A j \in Taken' : \E i \in DOMAIN symbols' :
           symbols'[i].name = text[j].name /\ symbols'[i].scope = ModuleScope
    BY <1>3, <1>7, <1>10, <1>14 DEF SymInv, TakenHaveSymbols
  <1>21. /\ c \in DOMAIN symbols' /\ symbols'[c].kind = "Function" /\ symbols'[c].scope = ModuleScope
         /\ symbols'[c].name = text[at].other
    BY <1>6, <1>10, <1>14
  <1>22. \A i \in DOMAIN symbols' : CanonicalIs(symbols'[i], symbols', Taken')
    <2> SUFFICES ASSUME NEW i \in DOMAIN symbols', NEW e, e = symbols'[i]
                 PROVE  CanonicalIs(e, symbols', Taken \cup {at})
      BY <1>7
    <2>1. CASE e.scope = ModuleScope /\ e.kind = "Function" /\ e.name = n
      <3>1. i = id
        BY <1>10, <1>13, <1>14, <2>1
      <3>2. e.canonical_function = c
        BY <1>14, <2>1, <3>1
      <3>3. Aliased(e, Taken \cup {at})
        BY <1>3, <2>1 DEF Aliased
      <3>4. \A k \in Taken \cup {at} : k <= at
        BY <1>7, <1>17
      <3> QED BY <1>3, <1>21, <2>1, <3>2, <3>3, <3>4 DEF CanonicalIs
    <2>2. CASE ~(e.scope = ModuleScope /\ e.kind = "Function" /\ e.name = n)
      <3>1. i \in DOMAIN symbols
        BY <1>10, <1>11, <1>14, <2>2
      <3>2. CanonicalIs(symbols[i], symbols, Taken)
        BY <3>1 DEF SymInv, Canonical
      <3>3. /\ e.scope = symbols[i].scope /\ e.name = symbols[i].name /\ e.kind = symbols[i].kind
            /\ e.canonical_function = symbols[i].canonical_function
        BY <1>10, <1>14, <2>2, <3>1
      <3>4. Aliased(e, Taken \cup {at}) <=> Aliased(symbols[i], Taken)
        BY <1>3, <2>2, <3>3 DEF Aliased
      <3>5. ASSUME Aliased(e, Taken \cup {at}), NEW k \in Taken \cup {at}, text[k].name = e.name
            PROVE  k \in Taken
        BY <1>3, <2>2, <3>5 DEF Aliased
      <3>6. \A k \in DOMAIN symbols : /\ k \in DOMAIN symbols' /\ symbols'[k].kind = symbols[k].kind
                                      /\ symbols'[k].scope = symbols[k].scope
                                      /\ symbols'[k].name = symbols[k].name
        BY <1>10, <1>14
      <3> QED BY <3>2, <3>3, <3>4, <3>5, <3>6 DEF CanonicalIs
    <2> QED BY <2>1, <2>2
  <1> QED BY <1>7, <1>18, <1>19, <1>20, <1>22, SymPrimed

LEMMA SymInit ==
  ASSUME Init
  PROVE  SymInv
  <1>1. symbols = <<>> /\ pass = "index" /\ DOMAIN symbols = {}
    BY DEF Init
  <1>2. Seen = {} /\ Taken = {}
    BY <1>1 DEF Seen, Taken
  <1> QED BY <1>1, <1>2 DEF SymInv, SymbolsMean, DeclaredHaveSymbols, TakenHaveSymbols, Canonical

(* Where a declaration is put is where the text puts it. *)
LEMMA PlaceOfDeclaration ==
  ASSUME WalkInv, ScopeInv, Working("collect"), at \in Positions
  PROVE  /\ ModuleScope \in DOMAIN scopes
         /\ text[at].kind \in ItemKinds => scopes[ModuleScope].at = DeclaredIn(at)
         /\ text[at].kind = "Local" =>
              lexical_scope \in DOMAIN scopes /\ scopes[lexical_scope].at = DeclaredIn(at)
         /\ text[at].kind \in FunctionWide =>
              function_scope \in DOMAIN scopes /\ scopes[function_scope].at = DeclaredIn(at)
  <1>1. ModuleScope \in DOMAIN scopes /\ scopes[ModuleScope].at = 0 /\ Nested /\ Standing
    BY DEF ScopeInv, ScopesTree
  <1>2. ASSUME text[at].kind \in FunctionWide \cup {"Local"}
        PROVE  /\ text[at].kind \notin ItemKinds
               /\ lexical_scope \in DOMAIN scopes /\ scopes[lexical_scope].at = Inner(at)
               /\ function_scope \in DOMAIN scopes /\ scopes[function_scope].at = Item(at)
    <2>1. InFunction(at) /\ text[at].kind \notin ItemKinds
      BY <1>1, <1>2, ItemIsItem DEF FunctionWide, ItemKinds, FunctionKinds
    <2> QED BY <1>1, <2>1 DEF Standing, Working
  <1>3. text[at].kind \in FunctionWide => text[at].kind # "Local"
    BY DEF FunctionWide
  <1> QED BY <1>1, <1>2, <1>3 DEF DeclaredIn, Inner

LEMMA SymStep ==
  ASSUME WalkInv, ScopeInv, OwnInv, SymInv, [Next]_vars
  PROVE  SymInv'
  <1>0. ScopesExtend
    BY ScopeStep
  <1>1. CASE CollectVariable
    <2>1. /\ Working("collect") /\ Advance /\ event = text[at] /\ text[at].kind \in {"Variable", "Local"}
      BY <1>1 DEF CollectVariable, event
    <2>2. PICK scope : /\ scope = IF text[at].kind = "Variable" THEN ModuleScope ELSE lexical_scope
                       /\ symbols' = WithSymbol(scope, "Variable", text[at].name)
      BY <1>1, <2>1 DEF CollectVariable
    <2>3. /\ KindOf(at) = "Variable" /\ text[at].kind \in DeclaringKinds
          /\ text[at].kind = "Variable" => text[at].kind \in ItemKinds
      BY <2>1 DEF KindOf, FunctionKinds, DeclaringKinds, ItemKinds
    <2>4. scope \in DOMAIN scopes /\ scopes[scope].at = DeclaredIn(at)
      BY <2>1, <2>2, <2>3, SeenSteps, PlaceOfDeclaration
    <2> QED BY <1>0, <2>1, <2>2, <2>3, <2>4, SymDeclare
  <1>2. CASE CollectFunctionWide
    <2>1. /\ Working("collect") /\ Advance /\ event = text[at] /\ text[at].kind \in FunctionWide
      BY <1>2 DEF CollectFunctionWide, event
    <2>2. symbols' = WithSymbol(function_scope, text[at].kind, text[at].name)
      BY <1>2, <2>1 DEF CollectFunctionWide, ScopeOfLabel
    <2>3. KindOf(at) = text[at].kind /\ text[at].kind \in DeclaringKinds
      BY <2>1 DEF KindOf, FunctionKinds, DeclaringKinds, FunctionWide
    <2>4. function_scope \in DOMAIN scopes /\ scopes[function_scope].at = DeclaredIn(at)
      BY <2>1, SeenSteps, PlaceOfDeclaration
    <2> QED BY <1>0, <2>1, <2>2, <2>3, <2>4, SymDeclare
  <1>3. CASE CollectFunction
    <2>1. /\ Working("collect") /\ Advance /\ event = text[at] /\ text[at].kind \in FunctionKinds
      BY <1>3 DEF CollectFunction, event
    <2>2. PICK id : id = exactSymbol(ModuleScope, text[at].name)
      OBVIOUS
    <2>3. PICK w : w = WithSymbol(ModuleScope, "Function", text[at].name)
      OBVIOUS
    <2>4. PICK e : e = OwnedScope(w[id], Len(scopes) + 1, text[at].kind = "Definition")
      OBVIOUS
    <2>5. symbols' = [w EXCEPT ![id] = e]
      BY <1>3, <2>1, <2>2, <2>3, <2>4 DEF CollectFunction
    <2>6. SymbolsTyped
      BY DEF OwnInv
    <2>7. IsSeq(w) /\ id \in DOMAIN w /\ \A i \in DOMAIN w : DOMAIN w[i] = SymbolFields
      BY <2>2, <2>3, <2>6, WithIs
    <2>8. /\ e.scope = w[id].scope /\ e.name = w[id].name /\ e.kind = w[id].kind /\ e.at = w[id].at
          /\ e.canonical_function = w[id].canonical_function
      BY <2>4, <2>7 DEF OwnedScope, SymbolFields
    <2>9. /\ DOMAIN symbols' = DOMAIN w
          /\ \A i \in DOMAIN w : /\ symbols'[i].scope = w[i].scope /\ symbols'[i].name = w[i].name
                                 /\ symbols'[i].kind = w[i].kind /\ symbols'[i].at = w[i].at
                                 /\ symbols'[i].canonical_function = w[i].canonical_function
      BY <2>5, <2>7, <2>8, ExceptKeeps
    <2>10. KindOf(at) = "Function" /\ text[at].kind \in DeclaringKinds /\ text[at].kind \in ItemKinds
      BY <2>1 DEF KindOf, DeclaringKinds, ItemKinds
    <2>11. ModuleScope \in DOMAIN scopes /\ scopes[ModuleScope].at = DeclaredIn(at)
      BY <2>1, <2>10, SeenSteps, PlaceOfDeclaration
    <2> QED BY <1>0, <2>1, <2>3, <2>9, <2>10, <2>11, SymDeclare
  <1>4. CASE CollectBlock \/ (EndBlock /\ pass = "collect")
    <2>1. Working("collect") /\ Advance /\ symbols' = symbols /\ text[at].kind \in {"Open", "Close"}
      BY <1>4 DEF CollectBlock, EndBlock, event, table_vars
    <2>2. text[at].kind \notin DeclaringKinds
      BY <2>1 DEF DeclaringKinds, FunctionKinds, FunctionWide
    <2> QED BY <1>0, <2>1, <2>2, SeenSteps, SymSame
  <1>5. CASE DropAlias
    <2>1. /\ Working("alias") /\ Advance /\ symbols' = symbols
          /\ exactSymbol(ModuleScope, text[at].other) \notin Aliasees
      BY <1>5 DEF DropAlias, event, table_vars
    <2>2. ~AliasTakes(at)
      BY <2>1, AliasTold
    <2> QED BY <1>0, <2>1, <2>2, TakenSteps, SymSame
  <1>6. CASE \/ IndexAmbiguous \/ IndexNew \/ IndexRepeated
             \/ BindReference \/ BindFunction \/ BindBlock \/ (EndBlock /\ pass # "collect")
    <2>1. /\ Advance /\ pass \notin {"collect", "alias"} /\ symbols' = symbols /\ text' = text
      BY <1>6 DEF IndexAmbiguous, IndexNew, IndexRepeated, BindReference, BindFunction, BindBlock,
                  EndBlock, Working, table_vars, Advance
    <2> QED BY <1>0, <2>1, SeenElsewhere, SymSame
  <1>7. CASE EndPass
    <2>1. text' = text /\ symbols' = symbols
      BY <1>7 DEF EndPass, table_vars
    <2> QED BY <1>0, <1>7, <2>1, SeenEndPass, SymSame
  <1>8. CASE UNCHANGED vars
    <2>1. text' = text /\ pass' = pass /\ at' = at /\ symbols' = symbols
      BY <1>8 DEF vars
    <2>2. Seen' = Seen /\ Taken' = Taken
      BY <2>1, MeansKept DEF Seen, Taken
    <2> QED BY <1>0, <2>1, <2>2, SymSame
  <1> QED BY <1>1, <1>2, <1>3, <1>4, <1>5, <1>6, <1>7, <1>8, SymAlias DEF Next, Returned

LEMMA MaxUnique ==
  ASSUME NEW n \in Nat, NEW S, S \subseteq 0 .. n, NEW m \in S, \A x \in S : x <= m
  PROVE  Max(S) = m
  <1>1. Max(S) \in S /\ \A x \in S : Max(S) >= x
    BY MaxIsGreatest
  <1>2. PICK k : k = Max(S)
    OBVIOUS
  <1>3. k \in S /\ k >= m
    BY <1>1, <1>2
  <1>4. k \in Nat /\ m \in Nat /\ k <= m
    BY <1>3
  <1> QED BY <1>2, <1>3, <1>4

LEMMA AliasesTaken ==
  ASSUME pass \notin {"index", "collect", "alias"}, NEW name
  PROVE  Aliases(name) = {j \in Taken : text[j].name = name}
  BY DEF Aliases, Taken

(* Of the aliases of a function the last decides what it is another name of,  *)
(* wherever the function and the other aliases stand, and no other symbol is   *)
(* given a canonical function (lines 916 to 928 and 1499 to 1502).             *)
THEOREM AliasesAreBound == Spec => []AliasesBound
  <1>1. Spec => [](WalkInv /\ OrderInv /\ OwnInv /\ ScopeInv /\ SymInv)
    <2>1. Init => WalkInv /\ OrderInv /\ OwnInv /\ ScopeInv /\ SymInv
      BY OrderInit, OwnInit, ScopeInit, SymInit
    <2>2. WalkInv /\ OrderInv /\ OwnInv /\ ScopeInv /\ SymInv /\ [Next]_vars
            => (WalkInv /\ OrderInv /\ OwnInv /\ ScopeInv /\ SymInv)'
      BY OrderStep, OwnStep, ScopeStep, SymStep
    <2> QED BY <2>1, <2>2, PTL DEF Spec
  <1>2. OwnInv /\ ScopeInv /\ SymInv => AliasesBound
    <2> SUFFICES ASSUME OwnInv, ScopeInv, SymInv, pass = "done", NEW id \in DOMAIN symbols
                 PROVE  LET aliases == Aliases(symbols[id].name)
                            canonical == symbols[id].canonical_function
                        IN IF /\ symbols[id].scope = ModuleScope /\ symbols[id].kind = "Function"
                              /\ aliases # {}
                           THEN /\ canonical # NoSymbol
                                /\ symbols[canonical].kind = "Function"
                                /\ symbols[canonical].scope = ModuleScope
                                /\ symbols[canonical].name = text[Max(aliases)].other
                           ELSE canonical = NoSymbol
      BY DEF AliasesBound
    <2>0a. PICK e : e = symbols[id]
      OBVIOUS
    <2>0b. PICK c : c = e.canonical_function
      OBVIOUS
    <2>0c. PICK aliases : aliases = Aliases(e.name)
      OBVIOUS
    <2> SUFFICES IF e.scope = ModuleScope /\ e.kind = "Function" /\ aliases # {}
                 THEN /\ c # NoSymbol /\ symbols[c].kind = "Function"
                      /\ symbols[c].scope = ModuleScope
                      /\ symbols[c].name = text[Max(aliases)].other
                 ELSE c = NoSymbol
      BY <2>0a, <2>0b, <2>0c
    <2>1. aliases = {j \in Taken : text[j].name = e.name}
      BY <2>0c, AliasesTaken
    <2>2. CanonicalIs(e, symbols, Taken)
      BY <2>0a DEF SymInv, Canonical
    <2>3. CASE Aliased(e, Taken)
      <3>1. c \in DOMAIN symbols /\ symbols[c].kind = "Function" /\ symbols[c].scope = ModuleScope
        BY <2>0b, <2>2, <2>3 DEF CanonicalIs
      <3>2. PICK j \in Taken : /\ text[j].name = e.name /\ text[j].other = symbols[c].name
                               /\ \A k \in Taken : text[k].name = e.name => k <= j
        BY <2>0b, <2>2, <2>3 DEF CanonicalIs
      <3>3. aliases \subseteq 0 .. Len(text) /\ Len(text) \in Nat
        BY <2>0c DEF Aliases, AliasEvents, Positions, ScopeInv, Nested
      <3>4. j \in aliases /\ \A k \in aliases : k <= j
        BY <2>1, <3>2
      <3>5. Max(aliases) = j
        BY <3>3, <3>4, MaxUnique
      <3>6. c # NoSymbol
        BY <3>1 DEF OwnInv, SymbolsTyped, IsSeq, NoSymbol
      <3> QED BY <2>1, <2>3, <3>1, <3>2, <3>4, <3>5, <3>6 DEF Aliased
    <2>4. CASE ~Aliased(e, Taken)
      BY <2>0b, <2>1, <2>2, <2>4 DEF CanonicalIs, Aliased
    <2> QED BY <2>3, <2>4
  <1> QED BY <1>1, <1>2, PTL

-----------------------------------------------------------------------------
(* What a reference finds *)

LEMMA MeaningOfScope ==
  ASSUME OwnInv, ScopeInv, SymInv, pass \notin {"index", "collect", "alias"},
         NEW s \in DOMAIN scopes, NEW name, NEW id, id = exactSymbol(s, name),
         NEW place, place = scopes[s].at
  PROVE  /\ IsNew(id) <=> Meanings(name, place) = {}
         /\ ~IsNew(id) => /\ id \in DOMAIN symbols /\ id # NoSymbol
                          /\ symbols[id].at = Min(Meanings(name, place))
  <1>1. IsSeq(symbols) /\ Nested
    BY DEF OwnInv, SymbolsTyped, ScopeInv
  <1>2. /\ IsNew(id) => \A i \in DOMAIN symbols :
                          ~(symbols[i].scope = s /\ symbols[i].name = name)
        /\ ~IsNew(id) => /\ id \in DOMAIN symbols
                         /\ symbols[id].scope = s /\ symbols[id].name = name
    BY <1>1, ExactIs
  <1>3. Declarations(name, place) = {d \in Seen : text[d].name = name /\ DeclaredIn(d) = place}
    BY DeclarationsSeen
  <1>4. Aliases(name) = {j \in Taken : text[j].name = name}
    BY AliasesTaken
  <1>5. Declarations(name, place) \subseteq Positions /\ Aliases(name) \subseteq Positions
    BY DEF Declarations, Aliases, AliasEvents
  <1>6. \A i \in DOMAIN symbols : symbols[i].scope \in DOMAIN scopes
    BY DEF SymInv, SymbolsMean, StandsFor
  <1>7. ModuleScope \in DOMAIN scopes /\ scopes[ModuleScope].at = 0
    BY DEF ScopeInv, ScopesTree
  <1>8. \A q \in DOMAIN scopes : scopes[q].at = place => q = s
    BY ScopeOne DEF ScopeInv
  <1>9. CASE IsNew(id)
    <2>1. Declarations(name, place) = {}
      <3> SUFFICES ASSUME NEW d \in Seen, text[d].name = name, DeclaredIn(d) = place PROVE FALSE
        BY <1>3
      <3>1. PICK k \in DOMAIN symbols : symbols[k].name = name /\ scopes[symbols[k].scope].at = place
        BY DEF SymInv, DeclaredHaveSymbols
      <3> QED BY <1>2, <1>6, <1>8, <1>9, <3>1
    <2>2. ASSUME place = 0 PROVE Aliases(name) = {}
      <3>1. s = ModuleScope
        BY <1>7, <1>8, <2>2
      <3> QED BY <1>2, <1>4, <1>9, <3>1 DEF SymInv, TakenHaveSymbols
    <2> QED BY <1>9, <2>1, <2>2 DEF Meanings
  <1>10. CASE ~IsNew(id)
    <2>1. id # NoSymbol
      BY <1>1, <1>2, <1>10 DEF IsSeq, NoSymbol
    <2>2. StandsFor(symbols[id], scopes, Seen, Taken)
      BY <1>2, <1>10 DEF SymInv, SymbolsMean
    <2>3. CASE Earliest(symbols[id].at, Declarations(name, place))
      <3>1. /\ Declarations(name, place) # {}
            /\ symbols[id].at = Min(Declarations(name, place))
        BY <1>1, <1>5, <2>3, EarliestIsMin
      <3>2. Meanings(name, place) = Declarations(name, place)
        BY <3>1 DEF Meanings
      <3> QED BY <1>2, <1>10, <2>1, <3>1, <3>2
    <2>4. CASE /\ s = ModuleScope /\ Declarations(name, 0) = {}
               /\ Earliest(symbols[id].at, Aliases(name))
      <3>1. Aliases(name) # {} /\ symbols[id].at = Min(Aliases(name))
        BY <1>1, <1>5, <2>4, EarliestIsMin
      <3>2. Meanings(name, place) = Aliases(name)
        BY <1>7, <2>4 DEF Meanings
      <3> QED BY <1>2, <1>10, <2>1, <3>1, <3>2
    <2> QED BY <1>2, <1>3, <1>4, <1>10, <2>2, <2>3, <2>4 DEF StandsFor
  <1> QED BY <1>9, <1>10

(* The walk stands in the innermost scope around a reference. *)
LEMMA StandsAtReference ==
  ASSUME WalkInv, ScopeInv, pass \in {"bindModule", "bindFunctions"}, at \in Positions,
         text[at].kind \in ReferenceKinds
  PROVE  /\ lexical_scope \in DOMAIN scopes /\ scopes[lexical_scope].at = Inner(at)
         /\ pass = "bindFunctions" <=> InFunction(at)
  <1>1. /\ text[at].kind \notin ItemKinds /\ text[at].kind \notin FunctionKinds \cup {"Open", "Close"}
    BY DEF ReferenceKinds, ItemKinds, FunctionKinds
  <1>2. Handles(pass, at) /\ Nested /\ Standing
    BY DEF WalkInv, Positions, ScopeInv
  <1>3. CASE pass = "bindFunctions"
    BY <1>1, <1>2, <1>3 DEF Handles, Standing
  <1>4. CASE pass = "bindModule"
    <2>1. ~InFunction(at) /\ lexical_scope = ModuleScope
      BY <1>2, <1>4 DEF Handles, Standing
    <2>2. BlocksAround(text, at) = {}
      <3> SUFFICES ASSUME NEW p \in BlocksAround(text, at) PROVE FALSE
        OBVIOUS
      <3>1. p \in Positions /\ Item(p) = Item(at) /\ text[p].kind = "Open"
        BY <1>2, AroundNested
      <3>2. InFunction(p)
        BY <1>2, <3>1, ItemIsItem
      <3> QED BY <2>1, <3>1, <3>2 DEF InFunction
    <2>3. ScopesAround(at) = {0}
      BY <2>1, <2>2 DEF ScopesAround
    <2>4. Inner(at) = 0
      BY <1>2, <2>3, AroundIs
    <2> QED BY <1>4, <2>1, <2>4 DEF ScopeInv, ScopesTree
  <1> QED BY <1>3, <1>4

(* lookup() finds what the text means. *)
LEMMA LookupMeans ==
  ASSUME WalkInv, OwnInv, ScopeInv, SymInv, pass \in {"bindModule", "bindFunctions"},
         at \in Positions, text[at].kind \in ReferenceKinds,
         NEW target, target = lookup(lexical_scope, text[at].name)
  PROVE  /\ target = NoSymbol => Meaning(at) = 0
         /\ target # NoSymbol => target \in DOMAIN symbols /\ symbols[target].at = Meaning(at)
  <1>1. lexical_scope \in DOMAIN scopes /\ scopes[lexical_scope].at = Inner(at)
    BY StandsAtReference
  <1>2. PICK name : name = text[at].name
    OBVIOUS
  <1> DEFINE declaring == {s \in Enclosing(lexical_scope) : ~IsNew(exactSymbol(s, name))}
             around == {p \in ScopesAround(at) : Meanings(name, p) # {}}
  <1>3. Enclosing(lexical_scope) = {s \in DOMAIN scopes : scopes[s].at \in ScopesAround(at)}
    BY <1>1, EnclosingIs
  <1>4. \A s \in DOMAIN scopes :
          /\ IsNew(exactSymbol(s, name)) <=> Meanings(name, scopes[s].at) = {}
          /\ ~IsNew(exactSymbol(s, name)) =>
               /\ exactSymbol(s, name) \in DOMAIN symbols /\ exactSymbol(s, name) # NoSymbol
               /\ symbols[exactSymbol(s, name)].at = Min(Meanings(name, scopes[s].at))
    BY MeaningOfScope
  <1>5. \A s : s \in declaring <=> s \in DOMAIN scopes /\ scopes[s].at \in around
    BY <1>3, <1>4
  <1>6. \A p \in around : \E s \in declaring : scopes[s].at = p
    <2> SUFFICES ASSUME NEW p \in around PROVE \E s \in DOMAIN scopes : scopes[s].at = p
      BY <1>5
    <2>1. CASE p = 0
      BY <2>1 DEF ScopeInv, ScopesTree
    <2>2. CASE p # 0
      <3>1. p \in Positions /\ Opener(p)
        BY <2>2, AroundParent DEF ScopeInv
      <3>2. p \in Opened
        BY <3>1 DEF Opened
      <3> QED BY <3>2 DEF ScopeInv, ScopesTree, OpenedHaveScopes
    <2> QED BY <2>1, <2>2
  <1>7. target = IF declaring = {} THEN NoSymbol ELSE exactSymbol(Max(declaring), name)
    BY <1>2 DEF lookup
  <1>8. Meaning(at) = IF around = {} THEN 0 ELSE Min(Meanings(name, Max(around)))
    BY <1>2 DEF Meaning
  <1>9. around \subseteq 0 .. at /\ at \in Nat
    BY AroundIs DEF ScopeInv
  <1>10. declaring \subseteq 0 .. Len(scopes) /\ Len(scopes) \in Nat
    BY <1>5 DEF ScopeInv, ScopesTree, IsSeq
  <1> HIDE DEF declaring, around
  <1>11. CASE declaring = {}
    <2>1. around = {}
      BY <1>6, <1>11
    <2> QED BY <1>7, <1>8, <1>11, <2>1
  <1>12. CASE declaring # {}
    <2>1. PICK m : m = Max(declaring)
      OBVIOUS
    <2>2. m \in declaring /\ \A s \in declaring : m >= s
      BY <1>10, <1>12, <2>1, MaxIsGreatest
    <2>3. m \in DOMAIN scopes /\ scopes[m].at \in around
      BY <1>5, <2>2
    <2>4. \A p \in around : p <= scopes[m].at
      <3> SUFFICES ASSUME NEW p \in around PROVE p <= scopes[m].at
        OBVIOUS
      <3>1. PICK s \in declaring : scopes[s].at = p
        BY <1>6
      <3>2. s \in DOMAIN scopes /\ m >= s
        BY <1>5, <2>2, <3>1
      <3>3. /\ s \in Nat /\ m \in Nat /\ scopes[s].at \in Nat /\ scopes[m].at \in Nat
            /\ m < s <=> scopes[m].at < scopes[s].at
        BY <2>3, <3>2, ScopeOne DEF ScopeInv
      <3> QED BY <3>1, <3>2, <3>3
    <2>5. Max(around) = scopes[m].at
      BY <1>9, <2>3, <2>4, MaxUnique
    <2>6. target = exactSymbol(m, name) /\ ~IsNew(exactSymbol(m, name))
      <3>1. Meanings(name, scopes[m].at) # {}
        BY <2>3 DEF around
      <3> QED BY <1>4, <1>7, <1>12, <2>1, <2>3, <3>1
    <2>7. Meaning(at) = Min(Meanings(name, scopes[m].at))
      BY <1>8, <2>3, <2>5
    <2> QED BY <1>4, <2>3, <2>6, <2>7
  <1> QED BY <1>11, <1>12

IsReference(i) == text[i].kind \in ReferenceKinds

(* The references that the last two passes have been through *)
Bound == {i \in Positions : /\ IsReference(i)
                            /\ \/ pass = "done"
                               \/ pass = "bindFunctions" /\ (InFunction(i) => i < at)
                               \/ pass = "bindModule" /\ ~InFunction(i) /\ i < at}

RightlyBound(reference, table) ==
  /\ reference.target = NoSymbol => Meaning(reference.at) = 0
  /\ reference.target # NoSymbol =>
       reference.target \in DOMAIN table /\ table[reference.target].at = Meaning(reference.at)

(* Each of them is bound once, and to what the text says it means. *)
RefInv ==
  /\ IsSeq(references)
  /\ \A i \in Bound : \E k \in DOMAIN references : references[k].at = i
  /\ \A k \in DOMAIN references : references[k].at \in Bound
  /\ \A k, l \in DOMAIN references : references[k].at = references[l].at => k = l
  /\ \A k \in DOMAIN references : RightlyBound(references[k], symbols)

LEMMA BoundSteps ==
  ASSUME WalkInv, pass \in {"bindModule", "bindFunctions"}, Working(pass), Advance
  PROVE  /\ at \in Positions /\ text' = text
         /\ ~IsReference(at) => Bound' = Bound
         /\ IsReference(at) => Bound' = Bound \cup {at} /\ at \notin Bound
  <1>1. /\ pass' = pass /\ text' = text /\ at < at' /\ at' \in Nat /\ at \in Nat
        /\ \A j \in Positions : at < j /\ j < at' => ~Handles(pass, j)
    BY AdvanceSkips DEF Working, WalkInv
  <1>2. Positions' = Positions /\ Positions = 1 .. Len(text) /\ Len(text) \in Nat
    BY <1>1 DEF Positions, WalkInv
  <1>3. at \in Positions /\ Handles(pass, at)
    BY <1>1, <1>2 DEF Working, WalkInv
  <1>4. /\ \A i : InFunction(i)' <=> InFunction(i)
        /\ \A i : IsReference(i)' <=> IsReference(i)
    BY <1>1, MeansKept DEF IsReference
  <1>5. \A j : IsReference(j) => (Handles(pass, j) <=> (pass = "bindFunctions" <=> InFunction(j)))
    BY DEF IsReference, Handles, ReferenceKinds, FunctionKinds
  <1>6. \A j \in Positions : IsReference(j) /\ (pass = "bindFunctions" <=> InFunction(j)) =>
          (j < at' <=> j < at \/ j = at)
    BY <1>1, <1>2, <1>5
  <1>7. CASE pass = "bindFunctions"
    <2>1. Bound' = {i \in Positions : IsReference(i) /\ (InFunction(i) => i < at')}
      BY <1>1, <1>2, <1>4, <1>7 DEF Bound
    <2>2. Bound = {i \in Positions : IsReference(i) /\ (InFunction(i) => i < at)}
      BY <1>7 DEF Bound
    <2> QED BY <1>1, <1>3, <1>5, <1>6, <1>7, <2>1, <2>2
  <1>8. CASE pass = "bindModule"
    <2>1. Bound' = {i \in Positions : IsReference(i) /\ ~InFunction(i) /\ i < at'}
      BY <1>1, <1>2, <1>4, <1>8 DEF Bound
    <2>2. Bound = {i \in Positions : IsReference(i) /\ ~InFunction(i) /\ i < at}
      BY <1>8 DEF Bound
    <2> QED BY <1>1, <1>3, <1>5, <1>6, <1>8, <2>1, <2>2
  <1> QED BY <1>7, <1>8

LEMMA BoundElsewhere ==
  ASSUME Advance, pass \in {"index", "collect", "alias"}
  PROVE  Bound' = {} /\ Bound = {}
  BY DEF Bound, Advance

LEMMA BoundEndPass ==
  ASSUME WalkInv, EndPass
  PROVE  Bound' = Bound
  <1>1. /\ text' = text /\ pass' = After(pass)
        /\ \A j \in Positions : j < at
        /\ pass' # "done" => \A j \in Positions : j < at' => ~Handles(pass', j)
    BY EndPassSkips
  <1>2. /\ \A i : InFunction(i)' <=> InFunction(i)
        /\ \A i : IsReference(i)' <=> IsReference(i)
        /\ Positions' = Positions
    BY <1>1, MeansKept DEF IsReference
  <1>3. pass \in PassNames
    BY DEF EndPass, WalkInv
  <1>4. CASE pass \in {"index", "collect"}
    <2>1. pass' \in {"collect", "alias"}
      BY <1>1, <1>4, AfterIsNext
    <2> QED BY <1>4, <2>1 DEF Bound
  <1>5. CASE pass = "alias"
    <2>1. pass' = "bindModule"
      BY <1>1, <1>5, AfterIsNext
    <2>2. \A j : IsReference(j) /\ ~InFunction(j) => Handles("bindModule", j)
      BY DEF IsReference, Handles
    <2> QED BY <1>1, <1>2, <1>5, <2>1, <2>2 DEF Bound
  <1>6. CASE pass = "bindModule"
    <2>1. pass' = "bindFunctions"
      BY <1>1, <1>6, AfterIsNext
    <2>2. \A j : IsReference(j) /\ InFunction(j) => Handles("bindFunctions", j)
      BY DEF IsReference, Handles
    <2> QED BY <1>1, <1>2, <1>6, <2>1, <2>2 DEF Bound
  <1>7. CASE pass = "bindFunctions"
    <2>1. pass' = "done"
      BY <1>1, <1>7, AfterIsNext
    <2> QED BY <1>1, <1>2, <1>7, <2>1 DEF Bound
  <1> QED BY <1>3, <1>4, <1>5, <1>6, <1>7 DEF PassNames

LEMMA RefSame ==
  ASSUME RefInv, text' = text, references' = references, Bound' = Bound,
         symbols' = symbols \/ Bound = {}
  PROVE  RefInv'
  <1>1. \A i : Meaning(i)' = Meaning(i)
    BY MeansKept
  <1>2. \A k \in DOMAIN references : RightlyBound(references[k], symbols')
    BY DEF RefInv
  <1>3. (\A k \in DOMAIN references : RightlyBound(references[k], symbols))'
    BY <1>1, <1>2 DEF RightlyBound, NoSymbol
  <1> QED BY <1>3 DEF RefInv

LEMMA RefBind ==
  ASSUME WalkInv, OwnInv, ScopeInv, SymInv, RefInv, BindReference
  PROVE  RefInv'
  <1>1. /\ pass \in {"bindModule", "bindFunctions"} /\ Working(pass) /\ Advance /\ event = text[at]
        /\ IsReference(at) /\ symbols' = symbols
    BY DEF BindReference, event, table_vars, IsReference
  <1>2. /\ at \in Positions /\ text' = text /\ Bound' = Bound \cup {at} /\ at \notin Bound
    BY <1>1, BoundSteps
  <1>3. PICK target : target = lookup(lexical_scope, text[at].name)
    OBVIOUS
  <1>4. PICK r : r = [scope |-> lexical_scope, at |-> at, target |-> target]
    OBVIOUS
  <1>5. r.at = at /\ r.target = target
    BY <1>4
  <1>6. references' = Append(references, r)
    BY <1>1, <1>3, <1>4 DEF BindReference
  <1>7. /\ target = NoSymbol => Meaning(at) = 0
        /\ target # NoSymbol => target \in DOMAIN symbols /\ symbols[target].at = Meaning(at)
    BY <1>1, <1>2, <1>3, LookupMeans DEF IsReference
  <1>8. RightlyBound(r, symbols)
    BY <1>5, <1>7 DEF RightlyBound
  <1>9. /\ IsSeq(references') /\ Len(references) \in Nat /\ DOMAIN references = 1 .. Len(references)
        /\ DOMAIN references' = 1 .. Len(references) + 1
        /\ \A k \in DOMAIN references : references'[k] = references[k]
        /\ references'[Len(references) + 1] = r
    BY <1>6, AppendKeeps DEF RefInv
  <1>10. /\ DOMAIN references' = DOMAIN references \cup {Len(references) + 1}
         /\ Len(references) + 1 \notin DOMAIN references
    BY <1>9
  <1>11. \A k \in DOMAIN references' : RightlyBound(references'[k], symbols')
    BY <1>1, <1>8, <1>9, <1>10 DEF RefInv
  <1>12. \A i : Meaning(i)' = Meaning(i)
    BY <1>2, MeansKept
  <1>13. (\A k \in DOMAIN references : RightlyBound(references[k], symbols))'
    BY <1>11, <1>12 DEF RightlyBound, NoSymbol
  <1>14. \A i \in Bound' : \E k \in DOMAIN references' : references'[k].at = i
    BY <1>2, <1>5, <1>9, <1>10 DEF RefInv
  <1>15. \A k \in DOMAIN references' : references'[k].at \in Bound'
    BY <1>2, <1>5, <1>9, <1>10 DEF RefInv
  <1>16. \A k \in DOMAIN references : references[k].at # at
    BY <1>2 DEF RefInv
  <1>17. \A k, l \in DOMAIN references' : references'[k].at = references'[l].at => k = l
    BY <1>5, <1>9, <1>10, <1>16 DEF RefInv
  <1> QED BY <1>9, <1>13, <1>14, <1>15, <1>17 DEF RefInv

LEMMA RefInit ==
  ASSUME Init
  PROVE  RefInv
  <1>1. references = <<>> /\ pass = "index" /\ DOMAIN references = {}
    BY DEF Init
  <1>2. Bound = {}
    BY <1>1 DEF Bound
  <1>3. IsSeq(references)
    BY <1>1 DEF IsSeq
  <1> QED BY <1>1, <1>2, <1>3 DEF RefInv

LEMMA RefStep ==
  ASSUME WalkInv, OwnInv, ScopeInv, SymInv, RefInv, [Next]_vars
  PROVE  RefInv'
  <1>1. CASE \/ IndexAmbiguous \/ IndexNew \/ IndexRepeated
             \/ CollectVariable \/ CollectFunction \/ CollectFunctionWide \/ CollectBlock
             \/ (EndBlock /\ pass = "collect") \/ CollectAlias \/ DropAlias
    <2>1. /\ Advance /\ pass \in {"index", "collect", "alias"} /\ references' = references /\ text' = text
      BY <1>1 DEF IndexAmbiguous, IndexNew, IndexRepeated, CollectVariable, CollectFunction,
                  CollectFunctionWide, CollectBlock, EndBlock, CollectAlias, DropAlias, Working, Advance
    <2> QED BY <2>1, BoundElsewhere, RefSame
  <1>2. CASE BindFunction \/ BindBlock \/ (EndBlock /\ pass # "collect")
    <2>1. /\ Advance /\ pass = "bindFunctions" /\ Working(pass) /\ references' = references
          /\ symbols' = symbols /\ text[at].kind \in FunctionKinds \cup {"Open", "Close"}
      BY <1>2 DEF BindFunction, BindBlock, EndBlock, Working, table_vars, event
    <2>2. ~IsReference(at)
      BY <2>1 DEF IsReference, ReferenceKinds, FunctionKinds
    <2> QED BY <2>1, <2>2, BoundSteps, RefSame
  <1>3. CASE EndPass
    <2>1. text' = text /\ symbols' = symbols /\ references' = references
      BY <1>3 DEF EndPass, table_vars
    <2> QED BY <1>3, <2>1, BoundEndPass, RefSame
  <1>4. CASE UNCHANGED vars
    <2>1. text' = text /\ pass' = pass /\ at' = at /\ symbols' = symbols /\ references' = references
      BY <1>4 DEF vars
    <2>2. Bound' = Bound
      BY <2>1, MeansKept DEF Bound, IsReference
    <2> QED BY <2>1, <2>2, RefSame
  <1> QED BY <1>1, <1>2, <1>3, <1>4, RefBind DEF Next, Returned

BindInv == WalkInv /\ OrderInv /\ OwnInv /\ ScopeInv /\ SymInv /\ RefInv

LEMMA BindHolds == Spec => []BindInv
  <1>1. Init => BindInv
    BY OrderInit, OwnInit, ScopeInit, SymInit, RefInit DEF BindInv
  <1>2. BindInv /\ [Next]_vars => BindInv'
    BY OrderStep, OwnStep, ScopeStep, SymStep, RefStep DEF BindInv
  <1> QED BY <1>1, <1>2, PTL DEF Spec

(* Every reference is bound once, to the earliest declaration of its name in  *)
(* the innermost scope around it that declares the name: the tree of scopes    *)
(* that two passes walk independently, the names that a scope has kept and the  *)
(* way of lookup() agree with the text (lines 325 to 352 and 1441 to 1513).     *)
THEOREM ReferencesMeanTheText == Spec => []ReferencesAsWritten
  <1>1. BindInv => ReferencesAsWritten
    <2> SUFFICES ASSUME BindInv, pass = "done", NEW i \in Positions, text[i].kind \in ReferenceKinds,
                        NEW bound, bound = {k \in DOMAIN references : references[k].at = i}
                 PROVE  /\ Cardinality(bound) = 1
                        /\ \A k \in bound :
                             Meaning(i) = IF references[k].target = NoSymbol THEN 0
                                          ELSE symbols[references[k].target].at
      BY DEF ReferencesAsWritten
    <2>1. i \in Bound
      BY DEF Bound, IsReference
    <2>2. PICK k \in DOMAIN references : references[k].at = i
      BY <2>1 DEF BindInv, RefInv
    <2>3. bound = {k}
      BY <2>2 DEF BindInv, RefInv
    <2>4. Cardinality(bound) = 1
      BY <2>3, FS_Singleton
    <2>5. RightlyBound(references[k], symbols)
      BY DEF BindInv, RefInv
    <2> QED BY <2>2, <2>3, <2>4, <2>5 DEF RightlyBound
  <1> QED BY <1>1, BindHolds, PTL
-----------------------------------------------------------------------------
(* The orders that a symbol's declarations have *)

OrderOf(d) == IF Known(d) THEN source_orders[text[d].range] ELSE Unknown

RecordedFor(d, symbol, tree) ==
  text[d].kind \in Recorded /\ text[d].name = symbol.name /\ DeclaredIn(d) = tree[symbol.scope].at

(* orders are those of the declarations of a symbol *)
Tells(orders, symbol, tree, seen) ==
  /\ IsSeq(orders)
  /\ \A d \in seen : RecordedFor(d, symbol, tree) => \E k \in DOMAIN orders : orders[k] = OrderOf(d)
  /\ \A k \in DOMAIN orders : \E d \in seen : RecordedFor(d, symbol, tree) /\ orders[k] = OrderOf(d)

OccInv ==
  /\ IsSeq(declaration_occurrences) /\ DOMAIN declaration_occurrences = DOMAIN symbols
  /\ \A i \in DOMAIN symbols : Tells(declaration_occurrences[i], symbols[i], scopes, Seen)

LEMMA OccPrimed ==
  ASSUME text' = text, source_orders' = source_orders, IsSeq(declaration_occurrences'),
         DOMAIN declaration_occurrences' = DOMAIN symbols',
         \A i \in DOMAIN symbols' : Tells(declaration_occurrences'[i], symbols'[i], scopes', Seen')
  PROVE  OccInv'
  <1>1. \A d : DeclaredIn(d)' = DeclaredIn(d)
    BY MeansKept
  <1>2. \A d : OrderOf(d)' = OrderOf(d)
    BY DEF OrderOf, Known, Unknown
  <1>3. (\A i \in DOMAIN symbols : Tells(declaration_occurrences[i], symbols[i], scopes, Seen))'
    BY <1>1, <1>2 DEF Tells, RecordedFor
  <1> QED BY <1>3 DEF OccInv

LEMMA OccSame ==
  ASSUME SymInv, OccInv, text' = text, source_orders' = source_orders, ScopesExtend, Seen' = Seen,
         symbols' = symbols, declaration_occurrences' = declaration_occurrences
  PROVE  OccInv'
  <1>1. \A i \in DOMAIN symbols : symbols[i].scope \in DOMAIN scopes
    BY DEF SymInv, SymbolsMean, StandsFor
  <1>2. \A i \in DOMAIN symbols : scopes'[symbols[i].scope].at = scopes[symbols[i].scope].at
    BY <1>1 DEF ScopesExtend
  <1>3. \A i \in DOMAIN symbols, d \in Seen :
          RecordedFor(d, symbols[i], scopes') <=> RecordedFor(d, symbols[i], scopes)
    BY <1>2 DEF RecordedFor
  <1>4. \A i \in DOMAIN symbols : Tells(declaration_occurrences[i], symbols[i], scopes', Seen)
    BY <1>3 DEF OccInv, Tells
  <1> QED BY <1>4, OccPrimed DEF OccInv

(* In the first pass there is no symbol yet. *)
LEMMA OccEmpty ==
  ASSUME SymInv, OccInv, pass = "index", text' = text, symbols' = symbols,
         declaration_occurrences' = declaration_occurrences
  PROVE  OccInv'
  <1>1. Seen = {} /\ Taken = {}
    BY DEF Seen, Taken
  <1>2. DOMAIN symbols = {}
    BY <1>1 DEF SymInv, SymbolsMean, StandsFor, Earliest
  <1> QED BY <1>2 DEF OccInv

LEMMA NoneIsEmpty ==
  ASSUME NEW none, none = <<>>
  PROVE  IsSeq(none) /\ DOMAIN none = {}
  <1>1. none \in Seq({})
    OBVIOUS
  <1> QED BY <1>1 DEF IsSeq

LEMMA SameLength ==
  ASSUME NEW m \in Nat, NEW k \in Nat, 1 .. m = 1 .. k
  PROVE  m = k
  <1>1. \A x \in 1 .. m : x \in 1 .. k
    OBVIOUS
  <1>2. \A x \in 1 .. k : x \in 1 .. m
    OBVIOUS
  <1>3. m <= k
    BY <1>1
  <1>4. k <= m
    BY <1>2
  <1> QED BY <1>3, <1>4

(* addSymbol() adds an element here whenever it adds a symbol. *)
LEMMA OccGrow ==
  ASSUME SymbolsTyped, OccInv, NEW scope, NEW kind, NEW name,
         NEW w, w = WithSymbol(scope, kind, name), NEW id, id = exactSymbol(scope, name), NEW none
  PROVE  LET n == IF IsNew(id) THEN Append(declaration_occurrences, none)
                  ELSE declaration_occurrences
         IN /\ IsSeq(n) /\ DOMAIN n = DOMAIN w
            /\ \A i \in DOMAIN symbols : n[i] = declaration_occurrences[i]
            /\ IsNew(id) => n[id] = none
  <1>1. /\ id \in DOMAIN w /\ DOMAIN symbols \subseteq DOMAIN w
        /\ \A i \in DOMAIN w : i \in DOMAIN symbols \/ (i = id /\ IsNew(id))
    BY WithIs
  <1>2. IsSeq(declaration_occurrences) /\ DOMAIN declaration_occurrences = DOMAIN symbols
    BY DEF OccInv
  <1>3. CASE IsNew(id)
    <2>1. /\ IsSeq(Append(declaration_occurrences, none))
          /\ DOMAIN Append(declaration_occurrences, none) = 1 .. Len(declaration_occurrences) + 1
          /\ \A i \in DOMAIN declaration_occurrences :
               Append(declaration_occurrences, none)[i] = declaration_occurrences[i]
          /\ Append(declaration_occurrences, none)[Len(declaration_occurrences) + 1] = none
      BY <1>2, AppendKeeps
    <2>2. /\ Len(declaration_occurrences) \in Nat
          /\ DOMAIN declaration_occurrences = 1 .. Len(declaration_occurrences)
      BY <1>2, AppendKeeps
    <2>3. Len(symbols) \in Nat /\ DOMAIN symbols = 1 .. Len(symbols)
      BY AppendKeeps DEF SymbolsTyped
    <2>4. Len(symbols) = Len(declaration_occurrences)
      BY <1>2, <2>2, <2>3, SameLength
    <2>5. id = Len(declaration_occurrences) + 1
      BY <1>3, <2>4 DEF IsNew
    <2>6. 1 .. Len(declaration_occurrences) + 1 = DOMAIN declaration_occurrences \cup {id}
      BY <2>2, <2>5
    <2>7. DOMAIN w = DOMAIN symbols \cup {id}
      BY <1>1, <1>3
    <2>8. DOMAIN Append(declaration_occurrences, none) = DOMAIN w
      BY <1>2, <2>1, <2>6, <2>7
    <2> QED BY <1>2, <1>3, <2>1, <2>5, <2>8
  <1>4. CASE ~IsNew(id)
    BY <1>1, <1>2, <1>4
  <1> QED BY <1>3, <1>4

(* What addSymbol() leaves: a new symbol has no occurrence yet *)
Grown(id) == IF IsNew(id) THEN Append(declaration_occurrences, <<>>) ELSE declaration_occurrences

LEMMA GrownIs ==
  ASSUME SymbolsTyped, OccInv, NEW scope, NEW kind, NEW name,
         NEW w, w = WithSymbol(scope, kind, name), NEW id, id = exactSymbol(scope, name)
  PROVE  /\ IsSeq(Grown(id)) /\ DOMAIN Grown(id) = DOMAIN w
         /\ \A i \in DOMAIN symbols : Grown(id)[i] = declaration_occurrences[i]
         /\ IsNew(id) => IsSeq(Grown(id)[id]) /\ DOMAIN Grown(id)[id] = {}
  <1>1. PICK none : none = <<>>
    OBVIOUS
  <1> DEFINE n == IF IsNew(id) THEN Append(declaration_occurrences, none) ELSE declaration_occurrences
  <1>2. /\ IsSeq(n) /\ DOMAIN n = DOMAIN w
        /\ \A i \in DOMAIN symbols : n[i] = declaration_occurrences[i]
        /\ IsNew(id) => n[id] = none
    BY OccGrow, Zenon
  <1>3. Grown(id) = n
    BY <1>1 DEF Grown
  <1> HIDE DEF n
  <1>4. IsSeq(none) /\ DOMAIN none = {}
    BY <1>1, NoneIsEmpty
  <1> QED BY <1>2, <1>3, <1>4

LEMMA OccWith ==
  ASSUME ScopeInv, OwnInv, SymInv, OccInv, NEW scope \in DOMAIN scopes, NEW kind, NEW name,
         NEW w, w = WithSymbol(scope, kind, name), NEW id, id = exactSymbol(scope, name),
         NEW n, n = Grown(id)
  PROVE  \A i \in DOMAIN w : Tells(n[i], w[i], scopes, Seen)
  <1>1. SymbolsTyped /\ IsSeq(symbols)
    BY DEF OwnInv, SymbolsTyped
  <1>2. /\ id \in DOMAIN w /\ DOMAIN symbols \subseteq DOMAIN w
        /\ \A i \in DOMAIN symbols : w[i] = symbols[i]
        /\ \A i \in DOMAIN w : i \in DOMAIN symbols \/ (i = id /\ IsNew(id))
        /\ w[id].scope = scope /\ w[id].name = name
        /\ IsNew(id) => id \notin DOMAIN symbols
    BY <1>1, WithIs
  <1>3. /\ IsNew(id) => \A i \in DOMAIN symbols : ~(symbols[i].scope = scope /\ symbols[i].name = name)
    BY <1>1, ExactIs
  <1>4. \A i \in DOMAIN w : w[i].scope \in DOMAIN scopes
    BY <1>2 DEF SymInv, SymbolsMean, StandsFor
  <1>5. /\ \A i \in DOMAIN symbols : n[i] = declaration_occurrences[i]
        /\ IsNew(id) => IsSeq(n[id]) /\ DOMAIN n[id] = {}
    BY <1>1, GrownIs
  <1> SUFFICES ASSUME NEW i \in DOMAIN w PROVE Tells(n[i], w[i], scopes, Seen)
    OBVIOUS
  <1>6. CASE i \in DOMAIN symbols
    BY <1>2, <1>6, <1>5 DEF OccInv
  <1>7. CASE i = id /\ IsNew(id)
    <2>1. IsSeq(n[i]) /\ DOMAIN n[i] = {}
      BY <1>7, <1>5
    <2>2. ASSUME NEW d \in Seen, RecordedFor(d, w[i], scopes) PROVE FALSE
      <3>1. text[d].name = name /\ DeclaredIn(d) = scopes[scope].at
        BY <1>2, <1>7, <2>2 DEF RecordedFor
      <3>2. PICK k \in DOMAIN symbols : /\ symbols[k].name = name
                                        /\ scopes[symbols[k].scope].at = scopes[scope].at
        BY <3>1 DEF SymInv, DeclaredHaveSymbols
      <3>3. symbols[k].scope = scope
        BY <1>2, <1>4, <3>2, ScopeOne DEF ScopeInv
      <3> QED BY <1>3, <1>7, <3>2, <3>3
    <2> QED BY <2>1, <2>2 DEF Tells
  <1> QED BY <1>2, <1>6, <1>7

LEMMA OccDeclare ==
  ASSUME WalkInv, ScopeInv, OwnInv, SymInv, OccInv, Working("collect"), Advance, ScopesExtend,
         text[at].kind \in DeclaringKinds, source_orders' = source_orders,
         NEW scope \in DOMAIN scopes, scopes[scope].at = DeclaredIn(at), NEW kind,
         NEW w, w = WithSymbol(scope, kind, text[at].name),
         DOMAIN symbols' = DOMAIN w,
         \A i \in DOMAIN w : symbols'[i].scope = w[i].scope /\ symbols'[i].name = w[i].name,
         declaration_occurrences' =
           WithOccurrence(exactSymbol(scope, text[at].name), text[at].kind \in Recorded)
  PROVE  OccInv'
  <1>1. /\ text' = text /\ Seen' = Seen \cup {at}
    BY SeenSteps
  <1>2. PICK name : name = text[at].name
    OBVIOUS
  <1>3. PICK id : id = exactSymbol(scope, name)
    OBVIOUS
  <1>4. SymbolsTyped /\ IsSeq(symbols)
    BY DEF OwnInv, SymbolsTyped
  <1>5. /\ id \in DOMAIN w /\ DOMAIN symbols \subseteq DOMAIN w
        /\ \A i \in DOMAIN symbols : w[i] = symbols[i]
        /\ \A i \in DOMAIN w : i \in DOMAIN symbols \/ (i = id /\ IsNew(id))
        /\ w[id].scope = scope /\ w[id].name = name
        /\ IsNew(id) => id \notin DOMAIN symbols
    BY <1>2, <1>3, <1>4, WithIs
  <1>6. \A i, j \in DOMAIN w : w[i].scope = w[j].scope /\ w[i].name = w[j].name => i = j
    BY WithUnique
  <1>7. \A i \in DOMAIN w : w[i].scope \in DOMAIN scopes
    BY <1>5 DEF SymInv, SymbolsMean, StandsFor
  <1>8. \A s \in DOMAIN scopes : scopes'[s].at = scopes[s].at
    BY DEF ScopesExtend
  <1>9. \A i \in DOMAIN w, d \in Seen' :
           RecordedFor(d, symbols'[i], scopes') <=> RecordedFor(d, w[i], scopes)
    BY <1>7, <1>8 DEF RecordedFor
  <1>10. \A i \in DOMAIN w : RecordedFor(at, w[i], scopes) <=> i = id /\ text[at].kind \in Recorded
    <2> SUFFICES ASSUME NEW i \in DOMAIN w
                 PROVE  RecordedFor(at, w[i], scopes) <=> i = id /\ text[at].kind \in Recorded
      OBVIOUS
    <2>1. ASSUME RecordedFor(at, w[i], scopes) PROVE i = id
      <3>1. w[i].name = name /\ scopes[w[i].scope].at = scopes[scope].at
        BY <1>2, <2>1 DEF RecordedFor
      <3>2. w[i].scope = scope
        BY <1>7, <3>1, ScopeOne DEF ScopeInv
      <3> QED BY <1>5, <1>6, <3>1, <3>2
    <2>2. i = id /\ text[at].kind \in Recorded => RecordedFor(at, w[i], scopes)
      BY <1>2, <1>5 DEF RecordedFor
    <2>3. RecordedFor(at, w[i], scopes) => text[at].kind \in Recorded
      BY DEF RecordedFor
    <2> QED BY <2>1, <2>2, <2>3
  <1>11. w = WithSymbol(scope, kind, name)
    BY <1>2
  <1>12. PICK n : n = Grown(id)
    OBVIOUS
  <1>13. /\ IsSeq(n) /\ DOMAIN n = DOMAIN w
         /\ \A i \in DOMAIN w : Tells(n[i], w[i], scopes, Seen)
    BY <1>3, <1>4, <1>11, <1>12, GrownIs, OccWith
  <1>14. PICK o : o = OrderOf(at)
    OBVIOUS
  <1>15. PICK more : more = Append(n[id], o)
    OBVIOUS
  <1>16. /\ IsSeq(more) /\ Len(n[id]) \in Nat /\ DOMAIN n[id] = 1 .. Len(n[id])
         /\ DOMAIN more = 1 .. Len(n[id]) + 1
         /\ \A k \in DOMAIN n[id] : more[k] = n[id][k]
         /\ more[Len(n[id]) + 1] = o
    <2>1. IsSeq(n[id])
      BY <1>5, <1>13 DEF Tells
    <2> QED BY <1>15, <2>1, AppendKeeps
  <1>17. declaration_occurrences' = IF text[at].kind \in Recorded THEN [n EXCEPT ![id] = more] ELSE n
    BY <1>2, <1>3, <1>14, <1>15, <1>12 DEF WithOccurrence, Grown, OrderOf, Known, event
  <1>18. /\ IsSeq(declaration_occurrences') /\ DOMAIN declaration_occurrences' = DOMAIN w
         /\ \A i \in DOMAIN w : declaration_occurrences'[i] =
              IF i = id /\ text[at].kind \in Recorded THEN more ELSE n[i]
    <2>1. CASE text[at].kind \in Recorded
      <3>1. declaration_occurrences' = [n EXCEPT ![id] = more] /\ id \in DOMAIN n /\ IsSeq(n)
        BY <1>5, <1>13, <1>17, <2>1
      <3> QED BY SMTT(30), <1>13, <2>1, <3>1, ExceptKeeps
    <2>2. CASE text[at].kind \notin Recorded
      BY <1>13, <1>17, <2>2
    <2> QED BY <2>1, <2>2
  <1>19. \A i \in DOMAIN symbols' : Tells(declaration_occurrences'[i], symbols'[i], scopes', Seen')
    <2> SUFFICES ASSUME NEW i \in DOMAIN w, NEW e, e = symbols'[i]
                 PROVE  Tells(declaration_occurrences'[i], e, scopes', Seen')
      OBVIOUS
    <2>1. \A d \in Seen' : RecordedFor(d, e, scopes') <=> RecordedFor(d, w[i], scopes)
      BY <1>9
    <2>2. Tells(n[i], w[i], scopes, Seen)
      BY <1>13
    <2>3. CASE i = id /\ text[at].kind \in Recorded
      <3>1. declaration_occurrences'[i] = more /\ RecordedFor(at, w[i], scopes)
        BY <1>10, <1>18, <2>3
      <3>2. /\ DOMAIN more = DOMAIN n[i] \cup {Len(n[i]) + 1} /\ Len(n[i]) + 1 \in DOMAIN more
        BY <1>16, <2>3
      <3>3. \A d \in Seen \cup {at} : RecordedFor(d, w[i], scopes) => \E k \in DOMAIN more : more[k] = OrderOf(d)
        <4> TAKE d \in Seen \cup {at}
        <4> HAVE RecordedFor(d, w[i], scopes)
        <4>1. CASE d \in Seen
          <5>1. PICK k \in DOMAIN n[i] : n[i][k] = OrderOf(d)
            BY <2>2, <4>1 DEF Tells
          <5> QED BY <1>16, <2>3, <3>2, <5>1
        <4>2. CASE d = at
          <5>1. more[Len(n[i]) + 1] = OrderOf(d)
            BY <1>14, <1>16, <2>3, <4>2
          <5> QED BY <3>2, <5>1
        <4> QED BY <4>1, <4>2
      <3>4. \A k \in DOMAIN more : \E d \in Seen \cup {at} : RecordedFor(d, w[i], scopes) /\ more[k] = OrderOf(d)
        <4> TAKE k \in DOMAIN more
        <4>1. CASE k \in DOMAIN n[i]
          <5>1. PICK d \in Seen : RecordedFor(d, w[i], scopes) /\ n[i][k] = OrderOf(d)
            BY <2>2, <4>1 DEF Tells
          <5> QED BY <1>16, <2>3, <4>1, <5>1
        <4>2. CASE k = Len(n[i]) + 1
          <5>1. more[k] = OrderOf(at)
            BY <1>14, <1>16, <2>3, <4>2
          <5> QED BY <3>1, <5>1
        <4> QED BY <3>2, <4>1, <4>2
      <3> QED BY <1>1, <1>16, <2>1, <3>1, <3>3, <3>4 DEF Tells
    <2>4. CASE ~(i = id /\ text[at].kind \in Recorded)
      <3>1. declaration_occurrences'[i] = n[i] /\ ~RecordedFor(at, w[i], scopes)
        BY <1>10, <1>18, <2>4
      <3> QED BY <1>1, <2>1, <2>2, <3>1 DEF Tells
    <2> QED BY <2>3, <2>4
  <1> QED BY <1>1, <1>18, <1>19, OccPrimed

LEMMA OccAlias ==
  ASSUME WalkInv, ScopeInv, OwnInv, SymInv, OccInv, CollectAlias
  PROVE  OccInv'
  <1>1. /\ Working("alias") /\ Advance /\ scopes' = scopes /\ source_orders' = source_orders
        /\ event = text[at]
    BY DEF CollectAlias, event, order_vars
  <1>2. text' = text /\ Seen' = Seen
    BY <1>1, TakenSteps
  <1>3. PICK c : c = exactSymbol(ModuleScope, text[at].other)
    OBVIOUS
  <1>4. PICK name : name = text[at].name
    OBVIOUS
  <1>5. PICK id : id = exactSymbol(ModuleScope, name)
    OBVIOUS
  <1>6. PICK w : w = WithSymbol(ModuleScope, "Function", name)
    OBVIOUS
  <1>7. PICK n : n = Grown(id)
    OBVIOUS
  <1>8. symbols' = IF w[id].kind # "Function" THEN w ELSE [w EXCEPT ![id].canonical_function = c]
    BY <1>1, <1>3, <1>4, <1>5, <1>6 DEF CollectAlias
  <1>9. declaration_occurrences' = n
    BY <1>1, <1>4, <1>5, <1>7 DEF CollectAlias, WithOccurrence, Grown
  <1>10. ModuleScope \in DOMAIN scopes
    BY DEF ScopeInv, ScopesTree
  <1>11. SymbolsTyped
    BY DEF OwnInv
  <1>12. IsSeq(n) /\ DOMAIN n = DOMAIN w
    BY <1>5, <1>6, <1>7, <1>11, GrownIs
  <1>13. \A i \in DOMAIN w : Tells(n[i], w[i], scopes, Seen)
    BY <1>5, <1>6, <1>7, <1>10, OccWith
  <1>14. IsSeq(w) /\ id \in DOMAIN w /\ \A i \in DOMAIN w : DOMAIN w[i] = SymbolFields
    BY <1>5, <1>6, <1>11, WithIs
  <1>15. /\ DOMAIN symbols' = DOMAIN w
         /\ \A i \in DOMAIN w : symbols'[i].scope = w[i].scope /\ symbols'[i].name = w[i].name
    <2>1. PICK e : e = [w[id] EXCEPT !.canonical_function = c]
      OBVIOUS
    <2>2. e.scope = w[id].scope /\ e.name = w[id].name
      BY <1>14, <2>1 DEF SymbolFields
    <2>3. symbols' = IF w[id].kind # "Function" THEN w ELSE [w EXCEPT ![id] = e]
      BY <1>8, <2>1
    <2> QED BY <1>14, <2>2, <2>3, ExceptKeeps
  <1>16. \A i \in DOMAIN symbols' : Tells(declaration_occurrences'[i], symbols'[i], scopes', Seen')
    <2> SUFFICES ASSUME NEW i \in DOMAIN w, NEW e, e = symbols'[i]
                 PROVE  Tells(n[i], e, scopes, Seen)
      BY <1>1, <1>2, <1>9, <1>15
    <2>1. \A d \in Seen : RecordedFor(d, e, scopes) <=> RecordedFor(d, w[i], scopes)
      BY <1>15 DEF RecordedFor
    <2> QED BY <1>13, <2>1 DEF Tells
  <1> QED BY <1>1, <1>2, <1>9, <1>12, <1>15, <1>16, OccPrimed

LEMMA OccInit ==
  ASSUME Init
  PROVE  OccInv
  <1>1. /\ symbols = <<>> /\ DOMAIN symbols = {}
        /\ declaration_occurrences = <<>> /\ DOMAIN declaration_occurrences = {}
    BY DEF Init
  <1>2. IsSeq(declaration_occurrences)
    BY <1>1 DEF IsSeq
  <1> QED BY <1>1, <1>2 DEF OccInv

LEMMA OccStep ==
  ASSUME WalkInv, ScopeInv, OwnInv, SymInv, OccInv, [Next]_vars
  PROVE  OccInv'
  <1>0. ScopesExtend
    BY ScopeStep
  <1>1. CASE CollectVariable
    <2>1. /\ Working("collect") /\ Advance /\ event = text[at] /\ text[at].kind \in {"Variable", "Local"}
          /\ source_orders' = source_orders
      BY <1>1 DEF CollectVariable, event, order_vars
    <2>2. PICK scope : scope = IF text[at].kind = "Variable" THEN ModuleScope ELSE lexical_scope
      OBVIOUS
    <2>3. /\ symbols' = WithSymbol(scope, "Variable", text[at].name)
          /\ declaration_occurrences' = WithOccurrence(exactSymbol(scope, text[at].name), TRUE)
      BY <1>1, <2>1, <2>2 DEF CollectVariable
    <2>4. /\ text[at].kind \in DeclaringKinds /\ text[at].kind \in Recorded
          /\ text[at].kind = "Variable" => text[at].kind \in ItemKinds
      BY <2>1 DEF DeclaringKinds, Recorded, ItemKinds
    <2>5. scope \in DOMAIN scopes /\ scopes[scope].at = DeclaredIn(at)
      BY <2>1, <2>2, <2>4, SeenSteps, PlaceOfDeclaration
    <2>6. declaration_occurrences' =
            WithOccurrence(exactSymbol(scope, text[at].name), text[at].kind \in Recorded)
      BY <2>3, <2>4 DEF WithOccurrence
    <2> QED BY <1>0, <2>1, <2>3, <2>4, <2>5, <2>6, OccDeclare
  <1>2. CASE CollectFunctionWide
    <2>1. /\ Working("collect") /\ Advance /\ event = text[at] /\ text[at].kind \in FunctionWide
          /\ source_orders' = source_orders
      BY <1>2 DEF CollectFunctionWide, event, order_vars
    <2>2. /\ symbols' = WithSymbol(function_scope, text[at].kind, text[at].name)
          /\ declaration_occurrences' =
               WithOccurrence(exactSymbol(function_scope, text[at].name), text[at].kind = "BranchTargets")
      BY <1>2, <2>1 DEF CollectFunctionWide, ScopeOfLabel
    <2>3. /\ text[at].kind \in DeclaringKinds
          /\ text[at].kind \in Recorded <=> text[at].kind = "BranchTargets"
      BY <2>1 DEF DeclaringKinds, FunctionWide, Recorded, FunctionKinds
    <2>4. function_scope \in DOMAIN scopes /\ scopes[function_scope].at = DeclaredIn(at)
      BY <2>1, SeenSteps, PlaceOfDeclaration
    <2>5. declaration_occurrences' =
            WithOccurrence(exactSymbol(function_scope, text[at].name), text[at].kind \in Recorded)
      BY <2>2, <2>3 DEF WithOccurrence
    <2> QED BY <1>0, <2>1, <2>2, <2>3, <2>4, <2>5, OccDeclare
  <1>3. CASE CollectFunction
    <2>1. /\ Working("collect") /\ Advance /\ event = text[at] /\ text[at].kind \in FunctionKinds
          /\ source_orders' = source_orders
      BY <1>3 DEF CollectFunction, event, order_vars
    <2>2. PICK id : id = exactSymbol(ModuleScope, text[at].name)
      OBVIOUS
    <2>3. PICK w : w = WithSymbol(ModuleScope, "Function", text[at].name)
      OBVIOUS
    <2>4. PICK e : e = OwnedScope(w[id], Len(scopes) + 1, text[at].kind = "Definition")
      OBVIOUS
    <2>5. symbols' = [w EXCEPT ![id] = e]
      BY <1>3, <2>1, <2>2, <2>3, <2>4 DEF CollectFunction
    <2>6. SymbolsTyped
      BY DEF OwnInv
    <2>7. IsSeq(w) /\ id \in DOMAIN w /\ \A i \in DOMAIN w : DOMAIN w[i] = SymbolFields
      BY <2>2, <2>3, <2>6, WithIs
    <2>8. e.scope = w[id].scope /\ e.name = w[id].name
      BY <2>4, <2>7 DEF OwnedScope, SymbolFields
    <2>9. /\ DOMAIN symbols' = DOMAIN w
          /\ \A i \in DOMAIN w : symbols'[i].scope = w[i].scope /\ symbols'[i].name = w[i].name
      BY <2>5, <2>7, <2>8, ExceptKeeps
    <2>10. text[at].kind \in DeclaringKinds /\ text[at].kind \in ItemKinds /\ text[at].kind \in Recorded
      BY <2>1 DEF DeclaringKinds, ItemKinds, Recorded
    <2>11. ModuleScope \in DOMAIN scopes /\ scopes[ModuleScope].at = DeclaredIn(at)
      BY <2>1, <2>10, SeenSteps, PlaceOfDeclaration
    <2>12. declaration_occurrences' =
             WithOccurrence(exactSymbol(ModuleScope, text[at].name), text[at].kind \in Recorded)
      BY <1>3, <2>1, <2>10 DEF CollectFunction, WithOccurrence
    <2> QED BY <1>0, <2>1, <2>3, <2>9, <2>10, <2>11, <2>12, OccDeclare
  <1>4. CASE CollectBlock \/ (EndBlock /\ pass = "collect")
    <2>1. /\ Working("collect") /\ Advance /\ symbols' = symbols /\ source_orders' = source_orders
          /\ declaration_occurrences' = declaration_occurrences /\ text[at].kind \in {"Open", "Close"}
      BY <1>4 DEF CollectBlock, EndBlock, event, table_vars, order_vars
    <2>2. text[at].kind \notin DeclaringKinds
      BY <2>1 DEF DeclaringKinds, FunctionKinds, FunctionWide
    <2> QED BY <1>0, <2>1, <2>2, SeenSteps, OccSame
  <1>5. CASE DropAlias
    <2>1. /\ Working("alias") /\ Advance /\ symbols' = symbols /\ source_orders' = source_orders
          /\ declaration_occurrences' = declaration_occurrences
      BY <1>5 DEF DropAlias, table_vars, order_vars
    <2> QED BY <1>0, <2>1, TakenSteps, OccSame
  <1>6. CASE IndexAmbiguous \/ IndexNew \/ IndexRepeated
    <2>1. /\ pass = "index" /\ symbols' = symbols /\ text' = text
          /\ declaration_occurrences' = declaration_occurrences
      BY <1>6 DEF IndexAmbiguous, IndexNew, IndexRepeated, Working, table_vars, Advance
    <2> QED BY <2>1, OccEmpty
  <1>7. CASE BindReference \/ BindFunction \/ BindBlock \/ (EndBlock /\ pass # "collect")
    <2>1. /\ Advance /\ pass \notin {"collect", "alias"} /\ symbols' = symbols /\ text' = text
          /\ declaration_occurrences' = declaration_occurrences /\ source_orders' = source_orders
      BY <1>7 DEF BindReference, BindFunction, BindBlock, EndBlock, Working, table_vars, order_vars,
                  Advance
    <2> QED BY <1>0, <2>1, SeenElsewhere, OccSame
  <1>8. CASE EndPass
    <2>1. /\ text' = text /\ symbols' = symbols /\ declaration_occurrences' = declaration_occurrences
          /\ source_orders' = source_orders
      BY <1>8 DEF EndPass, table_vars, order_vars
    <2> QED BY <1>0, <1>8, <2>1, SeenEndPass, OccSame
  <1>9. CASE UNCHANGED vars
    <2>1. /\ text' = text /\ pass' = pass /\ at' = at /\ symbols' = symbols
          /\ declaration_occurrences' = declaration_occurrences /\ source_orders' = source_orders
      BY <1>9 DEF vars, order_vars
    <2>2. Seen' = Seen
      BY <2>1, MeansKept DEF Seen
    <2> QED BY <1>0, <2>1, <2>2, OccSame
  <1> QED BY <1>1, <1>2, <1>3, <1>4, <1>5, <1>6, <1>7, <1>8, <1>9, OccAlias DEF Next, Returned

(* Once the first pass is over, an ordered event whose range has no order     *)
(* shares that range with another.                                            *)
LEMMA UnknownIsShared ==
  ASSUME OrderInv, pass # "index", NEW i \in Positions, text[i].kind \in OrderedKinds, ~Known(i)
  PROVE  RangeIsShared(i)
  <1>1. i \in Indexed
    BY DEF Indexed, Ordered
  <1>2. PICK j \in Indexed, k \in Indexed :
          j # k /\ text[j].range = text[i].range /\ text[k].range = text[i].range
    BY <1>1 DEF OrderInv, AllSeen, AmbiguousShared
  <1> QED BY <1>2 DEF RangeIsShared, Indexed, Ordered

LEMMA OrdersCompare ==
  ASSUME WalkInv, OrderInv, pass # "index", NEW i \in Positions, NEW j \in Positions,
         text[i].kind \in OrderedKinds, text[j].kind \in OrderedKinds, Known(i), Known(j)
  PROVE  /\ source_orders[text[i].range] \in Nat
         /\ i < j <=> source_orders[text[i].range] < source_orders[text[j].range]
  <1>1. source_orders[text[i].range] \in Nat /\ source_orders[text[j].range] \in Nat
    BY DEF Known, OrderInv, OrdersBounded
  <1>2. i \in Indexed /\ j \in Indexed /\ i \in Nat /\ j \in Nat
    BY DEF Indexed, Ordered, WalkInv, Positions
  <1>3. i < j => source_orders[text[i].range] < source_orders[text[j].range]
    BY <1>2 DEF OrderInv, Monotone
  <1>4. j < i => source_orders[text[j].range] < source_orders[text[i].range]
    BY <1>2 DEF OrderInv, Monotone
  <1> QED BY <1>1, <1>2, <1>3, <1>4

(* What hasPriorDeclaration() answers is never yes or no where the text says   *)
(* otherwise, and unknown only where a range stands more than once: the orders *)
(* that the first pass gave and the occurrences that the second recorded under *)
(* a symbol belong together (lines 380 to 396 and 438 to 448).                 *)
THEOREM PriorsAreTextual == Spec => []PriorIsTextual
  <1>1. Init => OccInv
    BY OccInit
  <1>2. BindInv /\ OccInv /\ [Next]_vars => OccInv'
    BY OccStep DEF BindInv
  <1>3. BindInv /\ OccInv => PriorIsTextual
    <2> SUFFICES ASSUME BindInv, OccInv, pass = "done", NEW k \in DOMAIN references
                 PROVE  LET i == references[k].at
                            target == references[k].target
                            declared == {d \in Positions :
                              /\ text[d].kind \in Recorded /\ text[d].name = symbols[target].name
                              /\ DeclaredIn(d) = scopes[symbols[target].scope].at}
                            answer == hasPriorDeclaration(target, text[i].range)
                        IN target # NoSymbol /\ text[i].kind \in OrderedKinds =>
                             CASE answer = "yes"     -> \E d \in declared : d < i
                               [] answer = "no"      -> \A d \in declared : d > i
                               [] answer = "unknown" -> \E d \in declared \cup {i} : RangeIsShared(d)
      BY DEF PriorIsTextual
    <2> DEFINE i == references[k].at
               target == references[k].target
               declared == {d \in Positions :
                 /\ text[d].kind \in Recorded /\ text[d].name = symbols[target].name
                 /\ DeclaredIn(d) = scopes[symbols[target].scope].at}
               answer == hasPriorDeclaration(target, text[i].range)
    <2> SUFFICES ASSUME target # NoSymbol, text[i].kind \in OrderedKinds
                 PROVE  CASE answer = "yes"     -> \E d \in declared : d < i
                          [] answer = "no"      -> \A d \in declared : d > i
                          [] answer = "unknown" -> \E d \in declared \cup {i} : RangeIsShared(d)
      OBVIOUS
    <2> USE DEF BindInv
    <2>1. i \in Bound /\ RightlyBound(references[k], symbols)
      BY DEF RefInv
    <2>2. i \in Positions /\ text[i].kind \in ReferenceKinds /\ target \in DOMAIN symbols
      BY <2>1 DEF Bound, IsReference, RightlyBound
    <2>3. /\ i = references[k].at /\ target = references[k].target
            /\ answer = hasPriorDeclaration(target, text[i].range)
      OBVIOUS
    <2> HIDE DEF i, target, answer
    <2>4. PICK mine : mine = declaration_occurrences[target]
      OBVIOUS
    <2>5. PICK orders : orders = {mine[n] : n \in DOMAIN mine}
      OBVIOUS
    <2>6. Tells(mine, symbols[target], scopes, Seen)
      BY <2>2, <2>4 DEF OccInv
    <2>7. \A d : d \in declared <=> d \in Seen /\ RecordedFor(d, symbols[target], scopes)
      <3>1. \A kind \in Recorded : kind \in DeclaringKinds
        BY DEF Recorded, DeclaringKinds, FunctionWide
      <3>2. Seen = {d \in Positions : text[d].kind \in DeclaringKinds}
        BY DEF Seen
      <3> HIDE DEF i, target
      <3> QED BY <3>1, <3>2 DEF RecordedFor
    <2>8. /\ \A d \in declared : OrderOf(d) \in orders
          /\ \A o \in orders : \E d \in declared : o = OrderOf(d)
      BY <2>5, <2>6, <2>7 DEF Tells
    <2>9. \A d \in declared : /\ d \in Positions /\ text[d].kind \in OrderedKinds /\ d # i
                              /\ Positions \subseteq Nat
      BY <2>2 DEF Recorded, OrderedKinds, FunctionKinds, ReferenceKinds, WalkInv, Positions
    <2>10. \A d \in declared : ~Known(d) => RangeIsShared(d)
      BY <2>9, UnknownIsShared
    <2>11. answer = IF text[i].range \notin DOMAIN source_orders THEN "unknown"
                    ELSE IF \E o \in orders \ {Unknown} : o < source_orders[text[i].range] THEN "yes"
                    ELSE IF Unknown \in orders THEN "unknown" ELSE "no"
      BY <2>4, <2>5, <2>3 DEF hasPriorDeclaration
    <2>12. CASE ~Known(i)
      <3>1. answer = "unknown"
        BY <2>11, <2>12 DEF Known
      <3>2. RangeIsShared(i)
        BY <2>2, <2>12, UnknownIsShared
      <3> QED BY <3>1, <3>2
    <2>13. CASE Known(i) /\ \E o \in orders \ {Unknown} : o < source_orders[text[i].range]
      <3>1. answer = "yes"
        BY <2>11, <2>13 DEF Known
      <3>2. PICK o \in orders : o # Unknown /\ o < source_orders[text[i].range]
        BY <2>13
      <3>3. PICK d \in declared : o = OrderOf(d)
        BY <2>8, <3>2
      <3>4. Known(d) /\ o = source_orders[text[d].range]
        BY <3>2, <3>3 DEF OrderOf
      <3>5. d < i
        BY <2>2, <2>9, <2>13, <3>2, <3>4, OrdersCompare
      <3> QED BY <3>1, <3>5
    <2>14. CASE Known(i) /\ ~(\E o \in orders \ {Unknown} : o < source_orders[text[i].range])
      <3>1. CASE Unknown \in orders
        <4>1. answer = "unknown"
          BY <2>11, <2>14, <3>1 DEF Known
        <4>2. PICK d \in declared : OrderOf(d) = Unknown
          BY <2>8, <3>1
        <4>3. ~Known(d)
          BY <2>9, <4>2, OrdersCompare DEF OrderOf, Unknown
        <4> QED BY <2>10, <4>1, <4>3
      <3>2. CASE Unknown \notin orders
        <4>1. answer = "no"
          BY <2>11, <2>14, <3>2 DEF Known
        <4>2. ASSUME NEW d \in declared PROVE d > i
          <5>1. OrderOf(d) \in orders /\ OrderOf(d) # Unknown
            BY <2>8, <3>2
          <5>2. Known(d) /\ OrderOf(d) = source_orders[text[d].range]
            BY <5>1 DEF OrderOf
          <5>3. ~(d < i)
            BY <2>2, <2>9, <2>14, <5>1, <5>2, OrdersCompare
          <5>4. d \in Nat /\ i \in Nat /\ d # i
            BY <2>2, <2>9
          <5> QED BY <5>3, <5>4
        <4> QED BY <4>1, <4>2
      <3> QED BY <3>1, <3>2
    <2> QED BY <2>12, <2>13, <2>14
  <1> QED BY <1>1, <1>2, <1>3, BindHolds, PTL DEF Spec
=============================================================================
