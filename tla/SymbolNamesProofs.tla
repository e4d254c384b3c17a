------------------------- MODULE SymbolNamesProofs -------------------------
(***************************************************************************)
(* The tries of SymbolNames decide as the sets of names of NameSpace do,    *)
(* for every set of names, every size of groups and every width of numbers. *)
(***************************************************************************)
EXTENDS SymbolNames, SequenceTheorems, FiniteSetTheorems, WellFoundedInduction, TLAPS

(* A set of numbers that is not empty has a least one. *)
LEMMA LeastNumber ==
  ASSUME NEW T, T \subseteq Nat, T # {}
  PROVE  \E x \in T : \A y \in T : x <= y
  <1>1. PICK x \in T : \A y \in T : ~ (<<y, x>> \in OpToRel(<, Nat))
    BY NatLessThanWellFounded, WFMin
  <1>2. ASSUME NEW y \in T, y < x PROVE FALSE
    <2>1. <<y, x>> \in Nat \X Nat /\ <<y, x>>[1] < <<y, x>>[2]
      BY <1>2
    <2>2. <<y, x>> \in OpToRel(<, Nat)
      BY <2>1, Zenon DEF OpToRel
    <2> QED BY <1>1, <2>2
  <1>3. \A y \in T : y \in Nat /\ x \in Nat
    OBVIOUS
  <1> QED BY <1>2, <1>3

-----------------------------------------------------------------------------
(* The recursive functions of the model satisfy their equations. *)

Powers(f, n) == f = [k \in 0 .. n |-> IF k = 0 THEN 1 ELSE 2 * f[k - 1]]

LEMMA PowersExist == \A n \in Nat : \E f : Powers(f, n)
  <1> SUFFICES ASSUME {n \in Nat : ~ \E f : Powers(f, n)} # {} PROVE FALSE
    OBVIOUS
  <1>1. PICK n \in Nat : /\ ~ \E f : Powers(f, n)
                         /\ \A m \in Nat : (~ \E f : Powers(f, m)) => n <= m
    BY LeastNumber
  <1>2. CASE n = 0
    <2> DEFINE f == [k \in 0 .. 0 |-> 1]
    <2>1. Powers(f, n)
      BY <1>2 DEF Powers
    <2> QED BY <1>1, <2>1
  <1>3. CASE n > 0
    <2>1. n - 1 \in Nat /\ n - 1 < n
      BY <1>3
    <2>2. PICK g : Powers(g, n - 1)
      BY <1>1, <2>1
    <2> DEFINE f == [k \in 0 .. n |-> IF k = n THEN 2 * g[n - 1] ELSE g[k]]
    <2>3. \A k \in 0 .. n : f[k] = IF k = 0 THEN 1 ELSE 2 * f[k - 1]
      BY <1>3, <2>2 DEF Powers
    <2>4. Powers(f, n)
      BY <2>3 DEF Powers
    <2> QED BY <1>1, <2>4
  <1> QED BY <1>2, <1>3

LEMMA PowersAgree ==
  ASSUME NEW m \in Nat, NEW n \in Nat, NEW f, NEW g, Powers(f, m), Powers(g, n)
  PROVE  \A k \in 0 .. m : k <= n => f[k] = g[k]
  <1> DEFINE Apart == {k \in 0 .. m : k <= n /\ f[k] # g[k]}
  <1> SUFFICES ASSUME Apart # {} PROVE FALSE
    OBVIOUS
  <1>1. PICK k \in Apart : \A l \in Apart : k <= l
    <2>1. Apart \subseteq Nat
      OBVIOUS
    <2> HIDE DEF Apart
    <2> QED BY <2>1, LeastNumber
  <1>2. CASE k = 0
    BY <1>1, <1>2 DEF Powers
  <1>3. CASE k > 0
    <2>1. k - 1 \in 0 .. m /\ k - 1 <= n /\ k - 1 \notin Apart
      BY <1>1, <1>3
    <2>2. f[k - 1] = g[k - 1]
      BY <2>1
    <2> QED BY <1>1, <1>3, <2>2 DEF Powers
  <1> QED BY <1>1, <1>2, <1>3

LEMMA PowerIs == \A k \in Nat : Power[k] = IF k = 0 THEN 1 ELSE 2 * Power[k - 1]
  <1> DEFINE F == [n \in Nat |-> (CHOOSE f : Powers(f, n))[n]]
  <1>1. F = [k \in Nat |-> IF k = 0 THEN 1 ELSE 2 * F[k - 1]]
    <2>a. F = [k \in Nat |-> F[k]]
      OBVIOUS
    <2>b. \A k \in Nat : F[k] = (CHOOSE f : Powers(f, k))[k]
      OBVIOUS
    <2> HIDE DEF F
    <2> SUFFICES ASSUME NEW k \in Nat PROVE F[k] = IF k = 0 THEN 1 ELSE 2 * F[k - 1]
      BY <2>a
    <2>1. PICK f : f = (CHOOSE g : Powers(g, k)) /\ Powers(f, k)
      BY PowersExist, Zenon
    <2>2. F[k] = f[k] /\ f[k] = IF k = 0 THEN 1 ELSE 2 * f[k - 1]
      <3>1. F[k] = f[k]
        BY <2>b, <2>1, Zenon
      <3>2. Powers(f, k)
        BY <2>1
      <3>3. f[k] = IF k = 0 THEN 1 ELSE 2 * f[k - 1]
        BY <3>2 DEF Powers
      <3> QED BY <3>1, <3>3
    <2>3. CASE k > 0
      <3> k - 1 \in Nat
        BY <2>3
      <3>1. PICK g : g = (CHOOSE h : Powers(h, k - 1)) /\ Powers(g, k - 1)
        BY PowersExist, Zenon
      <3>2. g[k - 1] = f[k - 1]
        BY <2>1, <2>3, <3>1, PowersAgree
      <3>3. F[k - 1] = g[k - 1]
        BY <2>b, <3>1, Zenon
      <3> QED BY <2>2, <2>3, <3>2, <3>3
    <2> QED BY <2>2, <2>3
  <1>2. \E f : f = [k \in Nat |-> IF k = 0 THEN 1 ELSE 2 * f[k - 1]]
    BY <1>1
  <1>3. Power = [k \in Nat |-> IF k = 0 THEN 1 ELSE 2 * Power[k - 1]]
    BY <1>2 DEF Power
  <1> QED BY <1>3
Unshifted == [number \in Nat |-> number]
Halved(f) == [number \in Nat |-> f[number] \div 2]

Shifts(f, n) ==
  f = [k \in 0 .. n |-> IF k = 0 THEN Unshifted
                        ELSE Halved(f[k - 1])]

LEMMA ShiftsExist == \A n \in Nat : \E f : Shifts(f, n)
  <1> SUFFICES ASSUME {n \in Nat : ~ \E f : Shifts(f, n)} # {} PROVE FALSE
    OBVIOUS
  <1>1. PICK n \in Nat : /\ ~ \E f : Shifts(f, n)
                         /\ \A m \in Nat : (~ \E f : Shifts(f, m)) => n <= m
    BY LeastNumber
  <1>2. CASE n = 0
    <2> DEFINE f == [k \in 0 .. 0 |-> Unshifted]
    <2>1. Shifts(f, n)
      BY <1>2 DEF Shifts
    <2> QED BY <1>1, <2>1
  <1>3. CASE n > 0
    <2>1. n - 1 \in Nat /\ n - 1 < n
      BY <1>3
    <2>2. PICK g : Shifts(g, n - 1)
      BY <1>1, <2>1
    <2> DEFINE f == [k \in 0 .. n |-> IF k = n THEN Halved(g[n - 1])
                                      ELSE g[k]]
    <2>3. \A k \in 0 .. n : f[k] = IF k = 0 THEN Unshifted
                                   ELSE Halved(f[k - 1])
      BY <1>3, <2>2 DEF Shifts
    <2>4. Shifts(f, n)
      BY <2>3 DEF Shifts
    <2> QED BY <1>1, <2>4
  <1> QED BY <1>2, <1>3

LEMMA ShiftsAgree ==
  ASSUME NEW m \in Nat, NEW n \in Nat, NEW f, NEW g, Shifts(f, m), Shifts(g, n)
  PROVE  \A k \in 0 .. m : k <= n => f[k] = g[k]
  <1> DEFINE Apart == {k \in 0 .. m : k <= n /\ f[k] # g[k]}
  <1> SUFFICES ASSUME Apart # {} PROVE FALSE
    OBVIOUS
  <1>1. PICK k \in Apart : \A l \in Apart : k <= l
    <2>1. Apart \subseteq Nat
      OBVIOUS
    <2> HIDE DEF Apart
    <2> QED BY <2>1, LeastNumber
  <1>2. CASE k = 0
    BY <1>1, <1>2 DEF Shifts
  <1>3. CASE k > 0
    <2>1. k - 1 \in 0 .. m /\ k - 1 <= n /\ k - 1 \notin Apart
      BY <1>1, <1>3
    <2>2. f[k - 1] = g[k - 1]
      BY <2>1
    <2> QED BY <1>1, <1>3, <2>2 DEF Shifts
  <1> QED BY <1>1, <1>2, <1>3

LEMMA ShiftedDefined ==
  \A k \in Nat : Shifted[k] = IF k = 0 THEN Unshifted
                              ELSE Halved(Shifted[k - 1])
  <1> DEFINE F == [n \in Nat |-> (CHOOSE f : Shifts(f, n))[n]]
  <1>1. F = [k \in Nat |-> IF k = 0 THEN Unshifted
                           ELSE Halved(F[k - 1])]
    <2>a. F = [k \in Nat |-> F[k]]
      OBVIOUS
    <2>b. \A k \in Nat : F[k] = (CHOOSE f : Shifts(f, k))[k]
      OBVIOUS
    <2> HIDE DEF F
    <2> SUFFICES ASSUME NEW k \in Nat
                 PROVE  F[k] = IF k = 0 THEN Unshifted
                               ELSE Halved(F[k - 1])
      BY <2>a
    <2>1. PICK f : f = (CHOOSE g : Shifts(g, k)) /\ Shifts(f, k)
      BY ShiftsExist, Zenon
    <2>2. /\ F[k] = f[k]
          /\ f[k] = IF k = 0 THEN Unshifted
                    ELSE Halved(f[k - 1])
      <3>1. F[k] = f[k]
        BY <2>b, <2>1, Zenon
      <3>2. Shifts(f, k)
        BY <2>1
      <3>3. f[k] = IF k = 0 THEN Unshifted
                   ELSE Halved(f[k - 1])
        BY <3>2 DEF Shifts
      <3> QED BY <3>1, <3>3
    <2>3. CASE k > 0
      <3> k - 1 \in Nat
        BY <2>3
      <3>1. PICK g : g = (CHOOSE h : Shifts(h, k - 1)) /\ Shifts(g, k - 1)
        BY ShiftsExist, Zenon
      <3>2. g[k - 1] = f[k - 1]
        BY <2>1, <2>3, <3>1, ShiftsAgree
      <3>3. F[k - 1] = g[k - 1]
        BY <2>b, <3>1, Zenon
      <3> QED BY <2>2, <2>3, <3>2, <3>3
    <2> QED BY <2>2, <2>3
  <1>2. \E f : f = [k \in Nat |-> IF k = 0 THEN Unshifted
                                  ELSE Halved(f[k - 1])]
    BY <1>1
  <1>3. Shifted = [k \in Nat |-> IF k = 0 THEN Unshifted
                                 ELSE Halved(Shifted[k - 1])]
    BY <1>2 DEF Shifted, Unshifted, Halved
  <1> QED BY <1>3

LEMMA ShiftedIs ==
  /\ \A n \in Nat : Shifted[0][n] = n
  /\ \A k, n \in Nat : Shifted[k + 1][n] = Shifted[k][n] \div 2
  <1>1. \A k \in Nat : k + 1 \in Nat /\ k + 1 # 0 /\ (k + 1) - 1 = k
    OBVIOUS
  <1>2. Shifted[0] = Unshifted
    BY ShiftedDefined
  <1>3. ASSUME NEW k \in Nat PROVE Shifted[k + 1] = Halved(Shifted[k])
    BY <1>1, ShiftedDefined
  <1>4. \A n \in Nat : Shifted[0][n] = n
    BY <1>2 DEF Unshifted
  <1>5. ASSUME NEW k \in Nat, NEW n \in Nat PROVE Shifted[k + 1][n] = Shifted[k][n] \div 2
    BY <1>3 DEF Halved
  <1> QED BY <1>4, <1>5

Single(k) == <<Digit[k + 1]>>
Longer(s, k) == Append(s, Digit[(k % 10) + 1])

Decimals(f, n) ==
  f = [k \in 0 .. n |-> IF k < 10 THEN Single(k)
                        ELSE Longer(f[k \div 10], k)]

LEMMA DecimalsExist == \A n \in Nat : \E f : Decimals(f, n)
  <1> SUFFICES ASSUME {n \in Nat : ~ \E f : Decimals(f, n)} # {} PROVE FALSE
    OBVIOUS
  <1>1. PICK n \in Nat : /\ ~ \E f : Decimals(f, n)
                         /\ \A m \in Nat : (~ \E f : Decimals(f, m)) => n <= m
    BY LeastNumber
  <1>2. CASE n = 0
    <2> DEFINE f == [k \in 0 .. 0 |-> Single(k)]
    <2>1. Decimals(f, n)
      BY <1>2 DEF Decimals
    <2> QED BY <1>1, <2>1
  <1>3. CASE n > 0
    <2>1. n - 1 \in Nat /\ n - 1 < n
      BY <1>3
    <2>2. PICK g : Decimals(g, n - 1)
      BY <1>1, <2>1
    <2> DEFINE last == IF n < 10 THEN Single(n) ELSE Longer(g[n \div 10], n)
               f == [k \in 0 .. n |-> IF k = n THEN last ELSE g[k]]
    <2>3. \A k \in 0 .. n : f[k] = IF k < 10 THEN Single(k)
                                   ELSE Longer(f[k \div 10], k)
      <3> SUFFICES ASSUME NEW k \in 0 .. n
                   PROVE  f[k] = IF k < 10 THEN Single(k)
                                 ELSE Longer(f[k \div 10], k)
        OBVIOUS
      <3>1. k >= 10 => k \div 10 \in 0 .. n /\ k \div 10 # n /\ k \div 10 <= n - 1
        OBVIOUS
      <3>2. CASE k = n
        BY <3>1, <3>2
      <3>3. CASE k # n
        <4>1. k \in 0 .. n - 1
          BY <3>3
        <4>2. g[k] = IF k < 10 THEN Single(k) ELSE Longer(g[k \div 10], k)
          BY <2>2, <4>1 DEF Decimals
        <4> QED BY <3>1, <3>3, <4>2
      <3> QED BY <3>2, <3>3
    <2>4. Decimals(f, n)
      BY <2>3 DEF Decimals
    <2> QED BY <1>1, <2>4
  <1> QED BY <1>2, <1>3

LEMMA DecimalsAgree ==
  ASSUME NEW m \in Nat, NEW n \in Nat, NEW f, NEW g, Decimals(f, m), Decimals(g, n)
  PROVE  \A k \in 0 .. m : k <= n => f[k] = g[k]
  <1> DEFINE Apart == {k \in 0 .. m : k <= n /\ f[k] # g[k]}
  <1> SUFFICES ASSUME Apart # {} PROVE FALSE
    OBVIOUS
  <1>1. PICK k \in Apart : \A l \in Apart : k <= l
    <2>1. Apart \subseteq Nat
      OBVIOUS
    <2> HIDE DEF Apart
    <2> QED BY <2>1, LeastNumber
  <1>2. /\ f[k] = IF k < 10 THEN Single(k) ELSE Longer(f[k \div 10], k)
        /\ g[k] = IF k < 10 THEN Single(k) ELSE Longer(g[k \div 10], k)
    BY <1>1 DEF Decimals
  <1>3. CASE k < 10
    BY <1>1, <1>2, <1>3
  <1>4. CASE k >= 10
    <2>1. k \div 10 \in 0 .. m /\ k \div 10 <= n /\ k \div 10 < k
      BY <1>1, <1>4
    <2>2. f[k \div 10] = g[k \div 10]
      BY <1>1, <2>1
    <2> QED BY <1>1, <1>2, <1>4, <2>2
  <1> QED BY <1>1, <1>3, <1>4

LEMMA DecimalIs ==
  \A k \in Nat : Decimal[k] = IF k < 10 THEN Single(k)
                              ELSE Longer(Decimal[k \div 10], k)
  <1> DEFINE F == [n \in Nat |-> (CHOOSE f : Decimals(f, n))[n]]
  <1>1. F = [k \in Nat |-> IF k < 10 THEN Single(k)
                           ELSE Longer(F[k \div 10], k)]
    <2>a. F = [k \in Nat |-> F[k]]
      OBVIOUS
    <2>b. \A k \in Nat : F[k] = (CHOOSE f : Decimals(f, k))[k]
      OBVIOUS
    <2> HIDE DEF F
    <2> SUFFICES ASSUME NEW k \in Nat
                 PROVE  F[k] = IF k < 10 THEN Single(k)
                               ELSE Longer(F[k \div 10], k)
      BY <2>a
    <2>1. PICK f : f = (CHOOSE g : Decimals(g, k)) /\ Decimals(f, k)
      BY DecimalsExist, Zenon
    <2>2. /\ F[k] = f[k]
          /\ f[k] = IF k < 10 THEN Single(k) ELSE Longer(f[k \div 10], k)
      <3>1. F[k] = f[k]
        BY <2>b, <2>1, Zenon
      <3>2. Decimals(f, k)
        BY <2>1
      <3>3. f[k] = IF k < 10 THEN Single(k) ELSE Longer(f[k \div 10], k)
        BY <3>2 DEF Decimals
      <3> QED BY <3>1, <3>3
    <2>3. CASE k >= 10
      <3>1. PICK j : j = k \div 10
        OBVIOUS
      <3>2. j \in Nat /\ j <= k /\ j \in 0 .. j
        BY <2>3, <3>1
      <3>3. PICK g : g = (CHOOSE h : Decimals(h, j)) /\ Decimals(g, j)
        BY <3>2, DecimalsExist, Zenon
      <3>4. g[j] = f[j]
        BY <2>1, <3>2, <3>3, DecimalsAgree
      <3>5. F[j] = g[j]
        BY <2>b, <3>2, <3>3, Zenon
      <3> QED BY <2>2, <2>3, <3>1, <3>4, <3>5
    <2> QED BY <2>2, <2>3
  <1>2. \E f : f = [k \in Nat |-> IF k < 10 THEN Single(k)
                                  ELSE Longer(f[k \div 10], k)]
    BY <1>1
  <1>3. Decimal = [k \in Nat |-> IF k < 10 THEN Single(k)
                                 ELSE Longer(Decimal[k \div 10], k)]
    BY <1>2 DEF Decimal, Single, Longer
  <1> QED BY <1>3

(* All of a sequence but its last element *)
Butlast(s) == SubSeq(s, 1, Len(s) - 1)
Grown(v, s) == 10 * v + Valued[s[Len(s)]]
UpTo(n) == {s \in Seq(Digits) : Len(s) <= n}

LEMMA ButlastShorter ==
  ASSUME NEW s \in Seq(Digits), s # <<>>
  PROVE  /\ Len(s) \in Nat \ {0}
         /\ Butlast(s) \in Seq(Digits)
         /\ Len(Butlast(s)) = Len(s) - 1
  <1>1. Len(s) \in Nat \ {0}
    BY EmptySeq
  <1>2. PICK n \in Nat : n = Len(s) - 1
    BY <1>1
  <1>3. \A i \in 1 .. n : s[i] \in Digits
    BY <1>1, <1>2, ElementOfSeq
  <1>4. /\ SubSeq(s, 1, n) \in Seq(Digits)
        /\ Len(SubSeq(s, 1, n)) = IF 1 <= n THEN n - 1 + 1 ELSE 0
    BY <1>3, SubSeqProperties
  <1>5. (IF 1 <= n THEN n - 1 + 1 ELSE 0) = n
    OBVIOUS
  <1> QED BY <1>1, <1>2, <1>4, <1>5, Zenon DEF Butlast

Values(f, n) == f = [s \in UpTo(n) |-> IF s = <<>> THEN 0 ELSE Grown(f[Butlast(s)], s)]

LEMMA ButlastUpTo ==
  ASSUME NEW n \in Nat, NEW s \in UpTo(n), s # <<>>
  PROVE  n > 0 /\ Len(s) \in 1 .. n /\ Butlast(s) \in UpTo(n - 1) /\ Butlast(s) \in UpTo(n)
  <1>1. s \in Seq(Digits) /\ Len(s) <= n
    BY DEF UpTo
  <1>2. /\ Len(s) \in Nat \ {0}
        /\ Butlast(s) \in Seq(Digits)
        /\ Len(Butlast(s)) = Len(s) - 1
    BY <1>1, ButlastShorter
  <1> HIDE DEF Butlast
  <1> QED BY <1>1, <1>2 DEF UpTo

LEMMA ValuesExist == \A n \in Nat : \E f : Values(f, n)
  <1> SUFFICES ASSUME {n \in Nat : ~ \E f : Values(f, n)} # {} PROVE FALSE
    OBVIOUS
  <1>1. PICK n \in Nat : /\ ~ \E f : Values(f, n)
                         /\ \A m \in Nat : (~ \E f : Values(f, m)) => n <= m
    BY LeastNumber
  <1>2. CASE n = 0
    <2> DEFINE f == [s \in UpTo(0) |-> 0]
    <2>1. \A s \in UpTo(0) : s = <<>>
      BY ButlastUpTo
    <2>2. f = [s \in UpTo(0) |-> IF s = <<>> THEN 0 ELSE Grown(f[Butlast(s)], s)]
      BY <2>1, Zenon
    <2>3. Values(f, n)
      BY <1>2, <2>2 DEF Values
    <2> QED BY <1>1, <2>3
  <1>3. CASE n > 0
    <2>1. n - 1 \in Nat /\ n - 1 < n
      BY <1>3
    <2>2. PICK g : Values(g, n - 1)
      BY <1>1, <2>1
    <2> DEFINE Last(s) == IF s = <<>> THEN 0 ELSE Grown(g[Butlast(s)], s)
               f == [s \in UpTo(n) |-> Last(s)]
    <2>3. \A s \in UpTo(n - 1) : s \in UpTo(n) /\ g[s] = Last(s)
      <3>1. \A s \in UpTo(n - 1) : s \in UpTo(n)
        BY <2>1 DEF UpTo
      <3>2. \A s \in UpTo(n - 1) : g[s] = IF s = <<>> THEN 0 ELSE Grown(g[Butlast(s)], s)
        BY <2>2, Zenon DEF Values
      <3> QED BY <3>1, <3>2, Zenon
    <2>4. ASSUME NEW s \in UpTo(n)
          PROVE  Last(s) = IF s = <<>> THEN 0 ELSE Grown(f[Butlast(s)], s)
      <3>1. CASE s = <<>>
        BY <3>1
      <3>2. CASE s # <<>>
        <4>1. Butlast(s) \in UpTo(n - 1) /\ Butlast(s) \in UpTo(n)
          BY <3>2, ButlastUpTo
        <4>2. f[Butlast(s)] = g[Butlast(s)]
          BY <2>3, <4>1, Zenon
        <4> QED BY <3>2, <4>2, Zenon
      <3> QED BY <3>1, <3>2
    <2>5. Values(f, n)
      BY <2>4, Zenon DEF Values
    <2> QED BY <1>1, <2>5
  <1> QED BY <1>2, <1>3

LEMMA ValuesAgree ==
  ASSUME NEW m \in Nat, NEW n \in Nat, NEW f, NEW g, Values(f, m), Values(g, n)
  PROVE  \A s \in UpTo(m) \cap UpTo(n) : f[s] = g[s]
  <1> DEFINE Apart == {k \in Nat : \E s \in UpTo(m) \cap UpTo(n) : Len(s) = k /\ f[s] # g[s]}
  <1>1. Apart = {}
    <2> SUFFICES ASSUME Apart # {} PROVE FALSE
      OBVIOUS
    <2>1. PICK k \in Apart : \A l \in Apart : k <= l
      <3>1. Apart \subseteq Nat
        OBVIOUS
      <3> HIDE DEF Apart
      <3> QED BY <3>1, LeastNumber
    <2>2. PICK s \in UpTo(m) \cap UpTo(n) : Len(s) = k /\ f[s] # g[s]
      BY <2>1
    <2>3. /\ f[s] = IF s = <<>> THEN 0 ELSE Grown(f[Butlast(s)], s)
          /\ g[s] = IF s = <<>> THEN 0 ELSE Grown(g[Butlast(s)], s)
      BY <2>2, Zenon DEF Values
    <2>4. s # <<>>
      BY <2>2, <2>3, Zenon
    <2>5. Butlast(s) \in UpTo(m) \cap UpTo(n)
      BY <2>2, <2>4, ButlastUpTo
    <2>6. s \in Seq(Digits)
      BY <2>2 DEF UpTo
    <2>7. Len(Butlast(s)) = k - 1 /\ k - 1 \in Nat /\ k - 1 < k
      BY <2>2, <2>4, <2>6, ButlastShorter
    <2>8. k - 1 \notin Apart
      BY <2>1, <2>7
    <2>9. f[Butlast(s)] = g[Butlast(s)]
      BY <2>5, <2>7, <2>8
    <2> QED BY <2>2, <2>3, <2>9, Zenon
  <1>2. \A s \in UpTo(m) \cap UpTo(n) : Len(s) \in Nat
    BY LenProperties DEF UpTo
  <1> QED BY <1>1, <1>2

LEMMA ValueIs ==
  \A s \in Seq(Digits) : Value[s] = IF s = <<>> THEN 0 ELSE Grown(Value[Butlast(s)], s)
  <1> DEFINE F == [s \in Seq(Digits) |-> (CHOOSE f : Values(f, Len(s)))[s]]
  <1>0. \A s \in Seq(Digits) : Len(s) \in Nat /\ s \in UpTo(Len(s))
    BY LenProperties DEF UpTo
  <1>1. F = [s \in Seq(Digits) |-> IF s = <<>> THEN 0 ELSE Grown(F[Butlast(s)], s)]
    <2>a. F = [s \in Seq(Digits) |-> F[s]]
      OBVIOUS
    <2>b. \A s \in Seq(Digits) : F[s] = (CHOOSE f : Values(f, Len(s)))[s]
      OBVIOUS
    <2> HIDE DEF F
    <2> SUFFICES ASSUME NEW s \in Seq(Digits)
                 PROVE  F[s] = IF s = <<>> THEN 0 ELSE Grown(F[Butlast(s)], s)
      BY <2>a, Zenon
    <2>1. PICK f : f = (CHOOSE g : Values(g, Len(s))) /\ Values(f, Len(s))
      BY <1>0, ValuesExist, Zenon
    <2>2. /\ F[s] = f[s]
          /\ f[s] = IF s = <<>> THEN 0 ELSE Grown(f[Butlast(s)], s)
      <3>1. F[s] = f[s]
        BY <2>b, <2>1, Zenon
      <3>2. f[s] = IF s = <<>> THEN 0 ELSE Grown(f[Butlast(s)], s)
        BY <1>0, <2>1, Zenon DEF Values
      <3> QED BY <3>1, <3>2
    <2>3. CASE s # <<>>
      <3>1. PICK b : b = Butlast(s)
        OBVIOUS
      <3>2. b \in Seq(Digits) /\ b \in UpTo(Len(s))
        BY <1>0, <2>3, <3>1, ButlastShorter, ButlastUpTo
      <3>3. PICK g : g = (CHOOSE h : Values(h, Len(b))) /\ Values(g, Len(b))
        BY <1>0, <3>2, ValuesExist, Zenon
      <3>4. g[b] = f[b]
        BY <1>0, <2>1, <3>2, <3>3, ValuesAgree
      <3>5. F[b] = g[b]
        BY <2>b, <3>2, <3>3, Zenon
      <3> QED BY <2>2, <2>3, <3>1, <3>4, <3>5, Zenon
    <2> QED BY <2>2, <2>3, Zenon
  <1>2. \E f : f = [s \in Seq(Digits) |-> IF s = <<>> THEN 0 ELSE Grown(f[Butlast(s)], s)]
    BY <1>1, Zenon
  <1>3. Value = [s \in Seq(Digits) |-> IF s = <<>> THEN 0 ELSE Grown(Value[Butlast(s)], s)]
    BY <1>2, Zenon DEF Value, Grown, Butlast
  <1> QED BY <1>3, Zenon
-----------------------------------------------------------------------------
(* Decimals and their values *)

LEMMA DigitAt ==
  /\ Digit[1] = "0" /\ Digit[2] = "1" /\ Digit[3] = "2" /\ Digit[4] = "3" /\ Digit[5] = "4"
  /\ Digit[6] = "5" /\ Digit[7] = "6" /\ Digit[8] = "7" /\ Digit[9] = "8" /\ Digit[10] = "9"
  /\ DOMAIN Digit = 1 .. 10
  BY DEF Digit

LEMMA DigitFacts ==
  /\ \A k \in 0 .. 9 : Digit[k + 1] \in Digits /\ Valued[Digit[k + 1]] = k
  /\ \A c \in Digits : Valued[c] \in 0 .. 9 /\ Digit[Valued[c] + 1] = c
  /\ Digit[1] = "0"
  /\ \A k \in 1 .. 9 : Digit[k + 1] # "0"
  <1>1. \A i \in 1 .. 10 : Digit[i] \in Digits
    BY DigitAt DEF Digits
  <1>2. \A i, j \in 1 .. 10 : Digit[i] = Digit[j] => i = j
    <2> SUFFICES ASSUME NEW i \in 1 .. 10, NEW j \in 1 .. 10, i # j PROVE Digit[i] # Digit[j]
      OBVIOUS
    <2>1. CASE i <= 5
      BY <2>1, DigitAt
    <2>2. CASE i > 5
      BY <2>2, DigitAt
    <2> QED BY <2>1, <2>2
  <1>3. \A c \in Digits : \E i \in 1 .. 10 : Digit[i] = c
    <2> SUFFICES ASSUME NEW c \in Digits PROVE \E i \in 1 .. 10 : Digit[i] = c
      OBVIOUS
    <2>1. CASE c \in {"0", "1", "2", "3", "4"}
      BY <2>1, DigitAt
    <2>2. CASE c \in {"5", "6", "7", "8", "9"}
      BY <2>2, DigitAt
    <2> QED BY <2>1, <2>2 DEF Digits
  <1>4. \A c \in Digits : Valued[c] = (CHOOSE i \in 1 .. 10 : Digit[i] = c) - 1
    BY DigitAt, Zenon DEF Valued
  <1>5. ASSUME NEW c \in Digits, NEW i \in 1 .. 10, Digit[i] = c PROVE Valued[c] = i - 1
    <2>1. PICK j \in 1 .. 10 : j = (CHOOSE k \in 1 .. 10 : Digit[k] = c) /\ Digit[j] = c
      BY <1>3, Zenon
    <2>2. j = i
      BY <1>2, <1>5, <2>1
    <2> QED BY <1>4, <2>1, <2>2
  <1>6. ASSUME NEW k \in 0 .. 9 PROVE Digit[k + 1] \in Digits /\ Valued[Digit[k + 1]] = k
    <2>1. k + 1 \in 1 .. 10 /\ (k + 1) - 1 = k
      OBVIOUS
    <2> QED BY <1>1, <1>5, <2>1
  <1>7. ASSUME NEW c \in Digits PROVE Valued[c] \in 0 .. 9 /\ Digit[Valued[c] + 1] = c
    <2>1. PICK i \in 1 .. 10 : Digit[i] = c
      BY <1>3
    <2>2. Valued[c] = i - 1 /\ (i - 1) + 1 = i /\ i - 1 \in 0 .. 9
      BY <1>5, <2>1
    <2> QED BY <2>1, <2>2
  <1>8. \A k \in 1 .. 9 : Digit[k + 1] # "0"
    <2> SUFFICES ASSUME NEW k \in 1 .. 9 PROVE Digit[k + 1] # Digit[1]
      BY DigitAt
    <2>1. k + 1 \in 1 .. 10 /\ 1 \in 1 .. 10 /\ k + 1 # 1
      OBVIOUS
    <2> QED BY <1>2, <2>1
  <1> QED BY <1>6, <1>7, <1>8, DigitAt

LEMMA ValueAppend ==
  ASSUME NEW s \in Seq(Digits), NEW c \in Digits
  PROVE  Value[Append(s, c)] = 10 * Value[s] + Valued[c]
  <1> DEFINE t == Append(s, c)
  <1>1. /\ t \in Seq(Digits) /\ t # <<>> /\ Len(t) = Len(s) + 1 /\ t[Len(s) + 1] = c
        /\ \A i \in 1 .. Len(s) : t[i] = s[i]
    BY AppendProperties
  <1>2. Len(s) \in Nat
    BY LenProperties
  <1> HIDE DEF t
  <1>3. Butlast(t) \in Seq(Digits) /\ Len(Butlast(t)) = Len(s)
    BY <1>1, <1>2, ButlastShorter
  <1>4. \A i \in 1 .. Len(s) : Butlast(t)[i] = s[i]
    <2>1. Butlast(t) = SubSeq(t, 1, Len(s))
      BY <1>1, <1>2 DEF Butlast
    <2>2. \A i \in 1 .. Len(s) : t[i] \in Digits
      BY <1>1, <1>2, ElementOfSeq
    <2>3. \A i \in 1 .. Len(s) - 1 + 1 : SubSeq(t, 1, Len(s))[i] = t[1 + i - 1]
      BY <1>2, <2>2, SubSeqProperties
    <2>4. \A i \in 1 .. Len(s) : i \in 1 .. Len(s) - 1 + 1 /\ 1 + i - 1 = i
      BY <1>2
    <2> QED BY <1>1, <2>1, <2>3, <2>4
  <1>5. Butlast(t) = s
    BY <1>3, <1>4, SeqEqual
  <1>6. Value[t] = Grown(Value[Butlast(t)], t)
    BY <1>1, ValueIs
  <1> QED BY <1>1, <1>5, <1>6 DEF Grown, t

LEMMA DecimalShort == \A n \in 0 .. 9 : Decimal[n] = <<Digit[n + 1]>>
  <1>1. ASSUME NEW n \in 0 .. 9 PROVE Decimal[n] = Single(n)
    <2>1. n \in Nat /\ n < 10
      OBVIOUS
    <2> QED BY <2>1, DecimalIs
  <1> QED BY <1>1, Zenon DEF Single

LEMMA Tenfold ==
  ASSUME NEW m \in Nat, NEW r \in 0 .. 9
  PROVE  /\ (10 * m + r) \div 10 = m /\ (10 * m + r) % 10 = r
         /\ 10 * m + r \in Nat /\ (m > 0 => 10 * m + r >= 10 /\ 10 * m + r > m)
  OBVIOUS

LEMMA DecimalLong ==
  ASSUME NEW m \in Nat, m > 0, NEW r \in 0 .. 9
  PROVE  Decimal[10 * m + r] = Append(Decimal[m], Digit[r + 1])
  <1>1. PICK n \in Nat : n = 10 * m + r /\ n \div 10 = m /\ n % 10 = r /\ ~(n < 10)
    BY Tenfold
  <1>2. Decimal[n] = Longer(Decimal[n \div 10], n)
    BY <1>1, DecimalIs
  <1>3. Decimal[n] = Append(Decimal[n \div 10], Digit[(n % 10) + 1])
    BY <1>2, Zenon DEF Longer
  <1> QED BY <1>1, <1>3, Zenon

LEMMA ValueEmpty == Value[<<>>] = 0
  BY EmptySeq, ValueIs

LEMMA ValueSingle ==
  ASSUME NEW c \in Digits PROVE <<c>> \in Seq(Digits) /\ Value[<<c>>] = Valued[c]
  <1>1. <<c>> = Append(<<>>, c)
    OBVIOUS
  <1>2. <<>> \in Seq(Digits)
    BY EmptySeq
  <1>3. Value[Append(<<>>, c)] = 10 * 0 + Valued[c]
    BY <1>2, ValueEmpty, ValueAppend
  <1>4. Valued[c] \in Int
    BY DigitFacts
  <1> QED BY <1>1, <1>2, <1>3, <1>4, AppendProperties

(* What holds of the decimal of a number *)
Written(n) ==
  /\ Decimal[n] \in Seq(Digits) /\ Decimal[n] # <<>>
  /\ n > 0 => Decimal[n][1] # "0"
  /\ Len(Decimal[n]) > 1 => n >= 10
  /\ Value[Decimal[n]] = n

LEMMA DecimalFacts == \A n \in Nat : Written(n)
  <1> SUFFICES ASSUME {n \in Nat : ~Written(n)} # {} PROVE FALSE
    OBVIOUS
  <1>1. PICK n \in Nat : ~Written(n) /\ \A m \in Nat : ~Written(m) => n <= m
    BY LeastNumber
  <1>2. CASE n < 10
    <2>1. n \in 0 .. 9 /\ Decimal[n] = <<Digit[n + 1]>>
      BY <1>2, DecimalShort
    <2>2. Digit[n + 1] \in Digits /\ Valued[Digit[n + 1]] = n /\ (n > 0 => Digit[n + 1] # "0")
      BY <2>1, DigitFacts
    <2>3. Decimal[n] \in Seq(Digits) /\ Value[Decimal[n]] = n
      BY <2>1, <2>2, ValueSingle
    <2>4. Len(Decimal[n]) = 1 /\ Decimal[n][1] = Digit[n + 1] /\ Decimal[n] # <<>>
      BY <2>1
    <2> QED BY <1>1, <2>2, <2>3, <2>4 DEF Written
  <1>3. CASE n >= 10
    <2> DEFINE m == n \div 10
               r == n % 10
    <2>1. m \in Nat /\ r \in 0 .. 9 /\ n = 10 * m + r /\ m < n /\ m > 0
      BY <1>3
    <2> HIDE DEF m, r
    <2>2. Decimal[n] = Append(Decimal[m], Digit[r + 1])
      <3>1. Decimal[10 * m + r] = Append(Decimal[m], Digit[r + 1])
        BY <2>1, DecimalLong
      <3> QED BY <2>1, <3>1
    <2>3. Written(m)
      BY <1>1, <2>1
    <2>4. Digit[r + 1] \in Digits /\ Valued[Digit[r + 1]] = r
      BY <2>1, DigitFacts
    <2>5. /\ Decimal[n] \in Seq(Digits) /\ Decimal[n] # <<>>
          /\ \A i \in 1 .. Len(Decimal[m]) : Decimal[n][i] = Decimal[m][i]
      BY <2>2, <2>3, <2>4, AppendProperties DEF Written
    <2>6. 1 \in 1 .. Len(Decimal[m])
      BY <2>3, EmptySeq DEF Written
    <2>7. Decimal[n][1] # "0"
      BY <2>1, <2>3, <2>5, <2>6 DEF Written
    <2>8. Value[Decimal[n]] = n
      BY <2>1, <2>2, <2>3, <2>4, ValueAppend DEF Written
    <2> QED BY <1>1, <1>3, <2>5, <2>7, <2>8 DEF Written
  <1> QED BY <1>1, <1>2, <1>3

(* What holds of a spelling of a number *)
Spells(s) ==
  /\ Value[s] \in Nat
  /\ Decimal[Value[s]] = s
  /\ s[1] # "0" => Value[s] > 0

LEMMA SpellingFacts == \A s \in Seq(Digits) : s # <<>> /\ ~LeadingZero(s) => Spells(s)
  <1> DEFINE Proper(s) == s # <<>> /\ ~LeadingZero(s)
             Lengths == {k \in Nat : \E s \in Seq(Digits) : Len(s) = k /\ Proper(s) /\ ~Spells(s)}
  <1>1. Lengths = {}
    <2> SUFFICES ASSUME Lengths # {} PROVE FALSE
      OBVIOUS
    <2>1. PICK k \in Lengths : \A l \in Lengths : k <= l
      <3>1. Lengths \subseteq Nat
        OBVIOUS
      <3> HIDE DEF Lengths
      <3> QED BY <3>1, LeastNumber
    <2>2. PICK s \in Seq(Digits) : Len(s) = k /\ Proper(s) /\ ~Spells(s)
      BY <2>1
    <2>3. PICK b \in Seq(Digits), c \in Digits : s = Append(b, c)
      BY <2>2, SequenceEmptyOrAppend
    <2>4. /\ Len(s) = Len(b) + 1 /\ \A i \in 1 .. Len(b) : s[i] = b[i]
          /\ s[Len(b) + 1] = c
      BY <2>3, AppendProperties
    <2>5. Len(b) \in Nat
      BY LenProperties
    <2>6. Valued[c] \in 0 .. 9 /\ Digit[Valued[c] + 1] = c
      BY DigitFacts
    <2>7. CASE b = <<>>
      <3>1. s = <<c>> /\ s[1] = c
        BY <2>3, <2>7
      <3>2. Value[s] = Valued[c]
        BY <3>1, ValueSingle
      <3>3. Decimal[Valued[c]] = <<c>>
        BY <2>6, DecimalShort
      <3>4. c # "0" => Valued[c] # 0
        BY <2>6, DigitFacts
      <3> QED BY <2>2, <2>6, <3>1, <3>2, <3>3, <3>4 DEF Spells
    <2>8. CASE b # <<>>
      <3>1. 1 \in 1 .. Len(b)
        BY <2>8, EmptySeq
      <3>2. s[1] # "0" /\ b[1] = s[1]
        BY <2>2, <2>4, <2>5, <3>1 DEF LeadingZero
      <3>3. Proper(b)
        BY <2>8, <3>2 DEF LeadingZero
      <3>4. Spells(b)
        <4>1. Len(b) \notin Lengths
          BY <2>1, <2>2, <2>4, <2>5
        <4> QED BY <2>5, <3>3, <4>1
      <3>5. Value[s] = 10 * Value[b] + Valued[c]
        BY <2>3, ValueAppend
      <3>6. Value[b] \in Nat /\ Value[b] > 0 /\ Decimal[Value[b]] = b
        BY <3>2, <3>4 DEF Spells
      <3>7. Decimal[10 * Value[b] + Valued[c]] = Append(Decimal[Value[b]], Digit[Valued[c] + 1])
        BY <2>6, <3>6, DecimalLong
      <3>8. Decimal[Value[s]] = s
        BY <2>3, <2>6, <3>5, <3>6, <3>7
      <3>9. Value[s] \in Nat /\ Value[s] > 0
        <4>1. PICK m \in Nat : m = Value[b] /\ m > 0
          BY <3>6
        <4>2. PICK r \in 0 .. 9 : r = Valued[c]
          BY <2>6
        <4>3. 10 * m + r \in Nat /\ 10 * m + r > 0
          BY <4>1
        <4> QED BY <3>5, <4>1, <4>2, <4>3
      <3> QED BY <2>2, <3>8, <3>9 DEF Spells
    <2> QED BY <2>7, <2>8
  <1>2. \A s \in Seq(Digits) : Len(s) \in Nat
    BY LenProperties
  <1> QED BY <1>1, <1>2

(* A beginning of a decimal is the decimal of a number that is at most a    *)
(* tenth, and with a zero behind it that of ten times the number.           *)
Begins(n) ==
  \A k \in 1 .. Len(Decimal[n]) - 1 :
    \E m \in Nat : /\ SubSeq(Decimal[n], 1, k) = Decimal[m]
                   /\ Append(Decimal[m], "0") = Decimal[10 * m]
                   /\ 10 * m <= n

LEMMA PrefixOfAppend ==
  ASSUME NEW S, NEW s \in Seq(S), NEW e \in S, NEW k \in 1 .. Len(s)
  PROVE  SubSeq(Append(s, e), 1, k) = SubSeq(s, 1, k)
  <1>1. <<e>> \in Seq(S) /\ Append(s, e) = s \o <<e>>
    BY AppendIsConcat
  <1>2. Len(s) \in Nat
    BY LenProperties
  <1>3. 1 \in 1 .. Len(s)
    BY <1>2
  <1> QED BY <1>1, <1>3, SubSeqOfConcat1

LEMMA DecimalBegins == \A n \in Nat : Begins(n)
  <1> SUFFICES ASSUME {n \in Nat : ~Begins(n)} # {} PROVE FALSE
    OBVIOUS
  <1>1. PICK n \in Nat : ~Begins(n) /\ \A m \in Nat : ~Begins(m) => n <= m
    BY LeastNumber
  <1>2. PICK k \in 1 .. Len(Decimal[n]) - 1 :
          ~ \E m \in Nat : /\ SubSeq(Decimal[n], 1, k) = Decimal[m]
                           /\ Append(Decimal[m], "0") = Decimal[10 * m]
                           /\ 10 * m <= n
    BY <1>1 DEF Begins
  <1>3. Written(n)
    BY DecimalFacts
  <1>4. Len(Decimal[n]) \in Nat
    BY <1>3, LenProperties DEF Written
  <1>5. n >= 10
    BY <1>2, <1>3, <1>4 DEF Written
  <1> DEFINE q == n \div 10
             r == n % 10
  <1>6. q \in Nat /\ r \in 0 .. 9 /\ n = 10 * q + r /\ q < n /\ q > 0 /\ 10 * q <= n
    BY <1>5
  <1> HIDE DEF q, r
  <1>7. Digit[r + 1] \in Digits
    BY <1>6, DigitFacts
  <1>8. Decimal[n] = Append(Decimal[q], Digit[r + 1])
    <2>1. Decimal[10 * q + r] = Append(Decimal[q], Digit[r + 1])
      BY <1>6, DecimalLong
    <2> QED BY <1>6, <2>1
  <1>9. Decimal[q] \in Seq(Digits)
    BY <1>6, DecimalFacts DEF Written
  <1>10. Len(Decimal[n]) = Len(Decimal[q]) + 1 /\ Len(Decimal[q]) \in Nat
    BY <1>7, <1>8, <1>9, AppendProperties, LenProperties
  <1>11. SubSeq(Decimal[n], 1, k) = SubSeq(Decimal[q], 1, k) /\ k \in 1 .. Len(Decimal[q])
    BY <1>7, <1>8, <1>9, <1>10, PrefixOfAppend
  <1>12. CASE k = Len(Decimal[q])
    <2>1. SubSeq(Decimal[n], 1, k) = Decimal[q]
      BY <1>9, <1>11, <1>12, SubSeqFull
    <2>2. Decimal[10 * q] = Append(Decimal[q], "0")
      <3>1. \A z \in 0 .. 9 : Decimal[10 * q + z] = Append(Decimal[q], Digit[z + 1])
        BY <1>6, DecimalLong
      <3>2. 10 * q + 0 = 10 * q /\ 0 + 1 = 1 /\ 0 \in 0 .. 9
        BY <1>6
      <3>3. Digit[1] = "0"
        BY DigitFacts
      <3> QED BY <3>1, <3>2, <3>3
    <2> QED BY <1>2, <1>6, <2>1, <2>2
  <1>13. CASE k # Len(Decimal[q])
    <2>1. k \in 1 .. Len(Decimal[q]) - 1
      BY <1>10, <1>11, <1>13
    <2>2. Begins(q)
      BY <1>1, <1>6
    <2>3. PICK m \in Nat : /\ SubSeq(Decimal[q], 1, k) = Decimal[m]
                           /\ Append(Decimal[m], "0") = Decimal[10 * m]
                           /\ 10 * m <= q
      BY <2>1, <2>2 DEF Begins
    <2>4. 10 * m <= n
      BY <1>6, <2>3
    <2> QED BY <1>2, <1>11, <2>3, <2>4
  <1> QED BY <1>12, <1>13

-----------------------------------------------------------------------------
(* Member numbers *)

LEMMA PowerPositive == \A k \in Nat : Power[k] \in Nat /\ Power[k] > 0
  <1> DEFINE P(k) == Power[k] \in Nat /\ Power[k] > 0
  <1> SUFFICES ASSUME {k \in Nat : ~P(k)} # {} PROVE FALSE
    OBVIOUS
  <1>1. PICK k \in Nat : ~P(k) /\ \A m \in Nat : ~P(m) => k <= m
    <2>1. {l \in Nat : ~P(l)} \subseteq Nat
      OBVIOUS
    <2> HIDE DEF P
    <2> QED BY <2>1, LeastNumber
  <1>2. CASE k = 0
    BY <1>1, <1>2, PowerIs
  <1>3. CASE k > 0
    <2>1. k - 1 \in Nat /\ P(k - 1)
      BY <1>1, <1>3
    <2>2. PICK p \in Nat : p = Power[k - 1] /\ p > 0
      BY <2>1
    <2>3. Power[k] = 2 * p
      BY <1>3, <2>2, PowerIs
    <2> QED BY <1>1, <2>2, <2>3
  <1> QED BY <1>1, <1>2, <1>3

LEMMA NumbersFacts ==
  /\ Numbers \subseteq Nat /\ 0 \in Numbers /\ NoMember \notin Numbers /\ NoMember = -1
  /\ \A n \in Numbers : \A m \in 0 .. n : m \in Numbers
  /\ Counts \subseteq Numbers /\ Counts \subseteq Nat
  <1>1. PICK p \in Nat : p = Power[Bits] /\ p > 0
    BY BitsAssumption, PowerPositive
  <1>2. Numbers = 0 .. p - 1
    BY <1>1 DEF Numbers
  <1> QED BY <1>1, <1>2, BitsAssumption, CountsAssumption DEF NoMember

LEMMA DecimalOfNumber ==
  ASSUME NEW n \in Numbers
  PROVE  /\ n \in Nat /\ Decimal[n] \in Seq(Digits) /\ Decimal[n] \in Seq(Characters)
         /\ Decimal[n] # <<>> /\ Len(Decimal[n]) \in Nat \ {0} /\ Len(Decimal[n]) <= MaxDigits
         /\ ~LeadingZero(Decimal[n]) /\ Value[Decimal[n]] = n
  <1>1. n \in Nat
    BY NumbersFacts
  <1>2. Written(n)
    BY <1>1, DecimalFacts
  <1>3. Decimal[n] \in Seq(Characters)
    BY <1>2, NamesAssumption, SeqMonotonic DEF Written
  <1>4. Len(Decimal[n]) \in Nat \ {0} /\ Len(Decimal[n]) <= MaxDigits
    BY <1>2, DigitsAssumption, EmptySeq DEF Written
  <1>5. ~LeadingZero(Decimal[n])
    BY <1>1, <1>2 DEF Written, LeadingZero
  <1> QED BY <1>1, <1>2, <1>3, <1>4, <1>5 DEF Written

LEMMA ConcatParts ==
  ASSUME NEW S, NEW s \in Seq(S), NEW t \in Seq(S), t # <<>>
  PROVE  /\ s \o t \in Seq(S) /\ Len(s \o t) = Len(s) + Len(t) /\ Len(s) < Len(s \o t)
         /\ SubSeq(s \o t, Len(s) + 1, Len(s \o t)) = t
         /\ SubSeq(s \o t, 1, Len(s)) = s
  <1>1. /\ s \o t \in Seq(S) /\ Len(s \o t) = Len(s) + Len(t)
        /\ Len(s) \in Nat /\ Len(t) \in Nat /\ Len(t) > 0
    BY ConcatProperties, LenProperties, EmptySeq
  <1>2. PICK a \in Nat : a = Len(s)
    BY <1>1
  <1>3. PICK b \in Nat : b = Len(t) /\ b > 0
    BY <1>1
  <1>4. a + 1 \in a + 1 .. a + b /\ a + b \in a + 1 .. a + b /\ (a + 1) - a = 1 /\ (a + b) - a = b
    BY <1>3
  <1>5. SubSeq(s \o t, a + 1, a + b) = SubSeq(t, 1, b)
    BY <1>2, <1>3, <1>4, SubSeqOfConcat2
  <1>6. SubSeq(t, 1, b) = t
    BY <1>3, SubSeqFull
  <1>7. CASE a = 0
    <2>1. s = <<>>
      BY <1>2, <1>7, EmptySeq
    <2>2. SubSeq(s \o t, 1, 0) = <<>>
      BY SubSeqEmpty
    <2> QED BY <1>1, <1>2, <1>3, <1>5, <1>6, <1>7, <2>1, <2>2
  <1>8. CASE a > 0
    <2>1. 1 \in 1 .. a /\ a \in 1 .. a
      BY <1>8
    <2>2. SubSeq(s \o t, 1, a) = SubSeq(s, 1, a)
      BY <1>2, <2>1, SubSeqOfConcat1
    <2>3. SubSeq(s, 1, a) = s
      BY <1>2, SubSeqFull
    <2> QED BY <1>1, <1>2, <1>3, <1>5, <1>6, <2>2, <2>3
  <1> QED BY <1>7, <1>8

(* A spelling names the member n of a base when it is the base with the     *)
(* decimal of n behind it.                                                  *)
LEMMA ParseIs ==
  ASSUME NEW base \in Seq(Characters), NEW name \in Seq(Characters), NEW n \in Numbers
  PROVE  parseParameterizedIndex(base, name) = n <=> name = base \o Decimal[n]
  <1> DEFINE suffix == SubSeq(name, Len(base) + 1, Len(name))
             Right == /\ Len(base) < Len(name) /\ Len(suffix) <= MaxDigits /\ name = base \o suffix
                      /\ ~LeadingZero(suffix)
                      /\ \A i \in DOMAIN suffix : suffix[i] \in Digits
                      /\ Value[suffix] \in Numbers
  <1>1. parseParameterizedIndex(base, name) = IF Right THEN Value[suffix] ELSE NoMember
    BY DEF parseParameterizedIndex
  <1>2. n # NoMember /\ n \in Nat
    BY NumbersFacts
  <1>3. Len(base) \in Nat /\ Len(name) \in Nat
    BY LenProperties
  <1>4. ASSUME parseParameterizedIndex(base, name) = n PROVE name = base \o Decimal[n]
    <2>1. Right /\ Value[suffix] = n
      BY <1>1, <1>2, <1>4, Zenon
    <2>2. PICK a \in Nat : a = Len(base) + 1
      BY <1>3
    <2>3. PICK b \in Nat : b = Len(name)
      BY <1>3
    <2>4. a <= b
      BY <1>3, <2>1, <2>2, <2>3
    <2>5. \A i \in a .. b : name[i] \in Characters
      BY <1>3, <2>2, <2>3, ElementOfSeq
    <2>6. suffix = SubSeq(name, a, b)
      BY <2>2, <2>3
    <2>7. SubSeq(name, a, b) \in Seq(Characters) /\ Len(SubSeq(name, a, b)) = b - a + 1
      BY <2>4, <2>5, SubSeqProperties
    <2>8. suffix \in Seq(Characters) /\ Len(suffix) \in Nat /\ Len(suffix) > 0
      BY <2>4, <2>6, <2>7
    <2> HIDE DEF suffix
    <2>9. suffix \in Seq(Digits) /\ suffix # <<>>
      BY <2>1, <2>8
    <2>10. Decimal[Value[suffix]] = suffix
      BY <2>1, <2>9, SpellingFacts DEF Spells
    <2> QED BY <2>1, <2>10
  <1>5. ASSUME name = base \o Decimal[n] PROVE parseParameterizedIndex(base, name) = n
    <2>1. /\ Decimal[n] \in Seq(Digits) /\ Decimal[n] \in Seq(Characters) /\ Decimal[n] # <<>>
          /\ Len(Decimal[n]) <= MaxDigits /\ ~LeadingZero(Decimal[n]) /\ Value[Decimal[n]] = n
      BY DecimalOfNumber
    <2>2. suffix = Decimal[n] /\ Len(base) < Len(name)
      BY <1>5, <2>1, ConcatParts
    <2>3. \A i \in DOMAIN suffix : suffix[i] \in Digits
      <3>1. DOMAIN suffix = 1 .. Len(suffix) /\ suffix \in Seq(Digits)
        BY <2>1, <2>2, LenProperties
      <3> HIDE DEF suffix
      <3> QED BY <3>1, ElementOfSeq
    <2> HIDE DEF suffix
    <2>4. Right
      BY <1>5, <2>1, <2>2, <2>3
    <2> QED BY <1>1, <2>1, <2>2, <2>4, Zenon
  <1> QED BY <1>4, <1>5

LEMMA ParseRange ==
  ASSUME NEW base, NEW name
  PROVE  parseParameterizedIndex(base, name) \in Numbers \cup {NoMember}
  BY Zenon DEF parseParameterizedIndex

LEMMA DeclarationIs ==
  ASSUME NEW d \in Declarations
  PROVE  /\ d.name \in Names /\ d.name \in Seq(Characters) /\ d.name # <<>>
         /\ d.count \in Counts \cup {Ordinary} /\ d.count \in Int
         /\ d.count # Ordinary => d.count \in Numbers /\ d.count \in Nat
         /\ Ordinary = -1
  <1>1. d.name \in Names /\ d.count \in Counts \cup {Ordinary} /\ Ordinary = -1
    BY DEF Declarations, Ordinary
  <1>2. d.name \in Seq(Characters) /\ d.name # <<>>
    BY <1>1, NamesAssumption
  <1>3. d.count # Ordinary => d.count \in Numbers /\ d.count \in Nat
    BY <1>1, NumbersFacts
  <1>4. d.count \in Int
    BY <1>1, <1>3
  <1> QED BY <1>1, <1>2, <1>3, <1>4

(* The members of a group are the spellings that have a number below its    *)
(* count.                                                                   *)
LEMMA ContainsIs ==
  ASSUME NEW d \in Declarations, d.count # Ordinary, NEW name \in Seq(Characters)
  PROVE  name \in Members(d) <=> ParameterizedNameContains(d.name, d.count, name)
  <1> DEFINE m == parseParameterizedIndex(d.name, name)
  <1>1. d.name \in Seq(Characters) /\ d.count \in Numbers /\ d.count \in Nat
    BY DeclarationIs
  <1>2. Members(d) = {d.name \o Decimal[i] : i \in 0 .. d.count - 1}
    BY DEF Members
  <1>3. ParameterizedNameContains(d.name, d.count, name) <=> m # NoMember /\ m < d.count
    BY DEF ParameterizedNameContains
  <1>4. m \in Numbers \cup {NoMember}
    BY ParseRange
  <1>5. ASSUME m # NoMember, m < d.count PROVE name \in Members(d)
    <2>1. m \in Numbers /\ m \in Nat
      BY <1>4, <1>5, NumbersFacts
    <2>2. name = d.name \o Decimal[m]
      BY <1>1, <2>1, ParseIs
    <2>3. m \in 0 .. d.count - 1
      BY <1>1, <1>5, <2>1
    <2> HIDE DEF m
    <2> QED BY <1>2, <2>2, <2>3
  <1>6. ASSUME name \in Members(d) PROVE m # NoMember /\ m < d.count
    <2>1. PICK i \in 0 .. d.count - 1 : name = d.name \o Decimal[i]
      BY <1>2, <1>6
    <2>2. i \in Numbers /\ i < d.count
      <3>1. i \in 0 .. d.count /\ i < d.count
        BY <1>1
      <3>2. \A k \in Numbers : \A j \in 0 .. k : j \in Numbers
        BY NumbersFacts
      <3> QED BY <1>1, <3>1, <3>2
    <2>3. m = i
      <3>1. \A n \in Numbers : m = n <=> name = d.name \o Decimal[n]
        BY <1>1, ParseIs
      <3> HIDE DEF m
      <3> QED BY <2>1, <2>2, <3>1
    <2> QED BY <2>2, <2>3, NumbersFacts
  <1> HIDE DEF m
  <1> QED BY <1>3, <1>5, <1>6

LEMMA FirstIs ==
  ASSUME NEW d \in Declarations
  PROVE  /\ First(d.name) = d.name \o Decimal[0] /\ First(d.name) \in Seq(Characters)
         /\ First(d.name) # <<>>
  <1>1. d.name \in Seq(Characters)
    BY DeclarationIs
  <1>2. "0" \in Characters
    BY NamesAssumption DEF Digits
  <1>3. First(d.name) = d.name \o <<"0">>
    BY <1>1, <1>2, AppendIsConcat DEF First
  <1>4. Decimal[0] = <<Digit[0 + 1]>> /\ Digit[0 + 1] = "0"
    BY DecimalShort, DigitFacts
  <1> QED BY <1>1, <1>2, <1>3, <1>4, AppendProperties DEF First

LEMMA FirstIsMember ==
  ASSUME NEW d \in Declarations, d.count # Ordinary
  PROVE  First(d.name) \in Members(d) <=> d.count # 0
  <1>1. First(d.name) = d.name \o Decimal[0]
    BY FirstIs
  <1>2. Members(d) = {d.name \o Decimal[i] : i \in 0 .. d.count - 1}
    BY DEF Members
  <1>3. d.count \in Nat
    BY DeclarationIs
  <1>4. CASE d.count = 0
    BY <1>2, <1>4
  <1>5. CASE d.count # 0
    <2>1. 0 \in 0 .. d.count - 1
      BY <1>3, <1>5
    <2> QED BY <1>1, <1>2, <1>5, <2>1
  <1> QED BY <1>4, <1>5
-----------------------------------------------------------------------------
(* Two groups meet when one has the first member of the other. *)

(* q is p with a beginning of s behind it. *)
Extends(p, q, s, S) ==
  \E k \in Nat : /\ k = Len(q) - Len(p) /\ k < Len(s)
                /\ SubSeq(s, 1, k) \in Seq(S) /\ q = p \o SubSeq(s, 1, k)
Inside(p, u, e) == Append(p \o u, e) = p \o Append(u, e)

LEMMA CommonConcat ==
  ASSUME NEW S, NEW p \in Seq(S), NEW q \in Seq(S), NEW s \in Seq(S), NEW t \in Seq(S),
         p \o s = q \o t, Len(p) <= Len(q), t # <<>>
  PROVE  Extends(p, q, s, S)
  <1>1. /\ Len(p) \in Nat /\ Len(q) \in Nat /\ Len(s) \in Nat /\ Len(t) \in Nat /\ Len(t) > 0
    BY LenProperties, EmptySeq
  <1>2. /\ Len(p \o s) = Len(p) + Len(s)
        /\ \A x \in 1 .. Len(p) + Len(s) : (p \o s)[x] = IF x <= Len(p) THEN p[x] ELSE s[x - Len(p)]
    BY ConcatProperties
  <1>3. /\ Len(q \o t) = Len(q) + Len(t)
        /\ \A x \in 1 .. Len(q) + Len(t) : (q \o t)[x] = IF x <= Len(q) THEN q[x] ELSE t[x - Len(q)]
    BY ConcatProperties
  <1>4. PICK k \in Nat : k = Len(q) - Len(p) /\ k < Len(s)
    <2>1. Len(p) + Len(s) = Len(q) + Len(t)
      BY <1>2, <1>3, Zenon
    <2>2. Len(q) - Len(p) \in Nat /\ Len(q) - Len(p) < Len(s)
      BY <1>1, <2>1
    <2> QED BY <2>2
  <1>5. PICK u : u = SubSeq(s, 1, k)
    OBVIOUS
  <1>6. u \in Seq(S) /\ Len(u) = k /\ \A x \in 1 .. k : u[x] = s[x]
    <2>1. \A x \in 1 .. k : s[x] \in S
      BY <1>1, <1>4, ElementOfSeq
    <2>2. /\ u \in Seq(S) /\ Len(u) = IF 1 <= k THEN k - 1 + 1 ELSE 0
          /\ \A x \in 1 .. k - 1 + 1 : u[x] = s[1 + x - 1]
      BY <1>5, <2>1, SubSeqProperties
    <2>3. (IF 1 <= k THEN k - 1 + 1 ELSE 0) = k /\ k - 1 + 1 = k
      OBVIOUS
    <2>4. \A x \in 1 .. k : 1 + x - 1 = x
      OBVIOUS
    <2> QED BY <2>2, <2>3, <2>4
  <1>7. /\ p \o u \in Seq(S) /\ Len(p \o u) = Len(p) + Len(u)
        /\ \A x \in 1 .. Len(p) + Len(u) : (p \o u)[x] = IF x <= Len(p) THEN p[x] ELSE u[x - Len(p)]
    BY <1>6, ConcatProperties
  <1>8. ASSUME NEW x \in 1 .. Len(q) PROVE q[x] = (p \o u)[x]
    <2>1. /\ x \in 1 .. Len(p) + Len(u) /\ x \in 1 .. Len(p) + Len(s) /\ x \in 1 .. Len(q) + Len(t)
          /\ x <= Len(q) /\ x \in Int
      BY <1>1, <1>4, <1>6
    <2>2. (q \o t)[x] = q[x]
      BY <1>3, <2>1
    <2>3. CASE x <= Len(p)
      <3>1. (p \o s)[x] = p[x]
        BY <1>2, <2>1, <2>3
      <3>2. (p \o u)[x] = p[x]
        BY <1>7, <2>1, <2>3
      <3> QED BY <2>2, <3>1, <3>2
    <2>4. CASE ~(x <= Len(p))
      <3>1. x - Len(p) \in 1 .. k
        BY <1>1, <1>4, <2>1, <2>4
      <3>2. u[x - Len(p)] = s[x - Len(p)]
        BY <1>6, <3>1
      <3>3. (p \o s)[x] = s[x - Len(p)]
        BY <1>2, <2>1, <2>4
      <3>4. (p \o u)[x] = u[x - Len(p)]
        BY <1>7, <2>1, <2>4
      <3> QED BY <2>2, <3>2, <3>3, <3>4
    <2> QED BY <2>3, <2>4
  <1>9. Len(p \o u) = Len(q)
    BY <1>1, <1>4, <1>6, <1>7
  <1>10. q = p \o u
    BY <1>7, <1>8, <1>9, SeqEqual
  <1> QED BY <1>4, <1>5, <1>6, <1>10 DEF Extends

LEMMA AppendInside ==
  ASSUME NEW S, NEW p \in Seq(S), NEW u \in Seq(S), NEW e \in S
  PROVE  Inside(p, u, e)
  <1>1. <<e>> \in Seq(S) /\ p \o u \in Seq(S)
    BY ConcatProperties
  <1>2. Append(p \o u, e) = (p \o u) \o <<e>>
    BY <1>1, AppendIsConcat
  <1>3. (p \o u) \o <<e>> = p \o (u \o <<e>>)
    BY <1>1, ConcatAssociative
  <1>4. u \o <<e>> = Append(u, e)
    BY AppendIsConcat
  <1> QED BY <1>2, <1>3, <1>4 DEF Inside

LEMMA SharedMember ==
  ASSUME NEW a \in Declarations, NEW b \in Declarations, a.count # Ordinary, b.count # Ordinary,
         NEW i \in 0 .. a.count - 1, NEW j \in 0 .. b.count - 1,
         a.name \o Decimal[i] = b.name \o Decimal[j], Len(a.name) <= Len(b.name)
  PROVE  First(b.name) \in Members(a)
  <1>1. /\ a.name \in Seq(Characters) /\ a.count \in Nat /\ a.count \in Numbers
        /\ b.name \in Seq(Characters) /\ b.count \in Nat /\ b.count \in Numbers
    BY DeclarationIs
  <1>2. i \in Numbers /\ j \in Numbers /\ i \in Nat /\ 0 \in 0 .. a.count - 1
    <2>1. i \in 0 .. a.count /\ j \in 0 .. b.count /\ i \in Nat /\ 0 \in 0 .. a.count - 1
      BY <1>1
    <2>2. \A k \in Numbers : \A l \in 0 .. k : l \in Numbers
      BY NumbersFacts
    <2> QED BY <1>1, <2>1, <2>2
  <1>3. Members(a) = {a.name \o Decimal[k] : k \in 0 .. a.count - 1}
    BY DEF Members
  <1>4. /\ Decimal[i] \in Seq(Characters) /\ Len(Decimal[i]) \in Nat
        /\ Decimal[j] \in Seq(Characters) /\ Decimal[j] # <<>>
    BY <1>2, DecimalOfNumber
  <1>5. PICK k \in Nat : /\ k < Len(Decimal[i]) /\ SubSeq(Decimal[i], 1, k) \in Seq(Characters)
                         /\ b.name = a.name \o SubSeq(Decimal[i], 1, k)
    <2>1. Extends(a.name, b.name, Decimal[i], Characters)
      BY <1>1, <1>4, CommonConcat
    <2> QED BY <2>1 DEF Extends
  <1>6. CASE k = 0
    <2>1. SubSeq(Decimal[i], 1, k) = <<>>
      BY <1>6, SubSeqEmpty
    <2>2. b.name = a.name
      BY <1>1, <1>5, <2>1, ConcatEmptySeq
    <2>3. First(b.name) = a.name \o Decimal[0]
      BY <2>2, FirstIs
    <2> QED BY <1>2, <1>3, <2>3
  <1>7. CASE k > 0
    <2>1. k \in 1 .. Len(Decimal[i]) - 1
      BY <1>4, <1>5, <1>7
    <2>2. PICK m \in Nat : /\ SubSeq(Decimal[i], 1, k) = Decimal[m]
                           /\ Append(Decimal[m], "0") = Decimal[10 * m] /\ 10 * m <= i
      BY <1>2, <2>1, DecimalBegins DEF Begins
    <2>3. "0" \in Characters
      BY NamesAssumption DEF Digits
    <2>4. First(b.name) = a.name \o Append(Decimal[m], "0")
      <3>1. First(b.name) = Append(a.name \o SubSeq(Decimal[i], 1, k), "0")
        BY <1>5 DEF First
      <3>2. Append(a.name \o SubSeq(Decimal[i], 1, k), "0")
              = a.name \o Append(SubSeq(Decimal[i], 1, k), "0")
        <4>1. Inside(a.name, SubSeq(Decimal[i], 1, k), "0")
          BY <1>1, <1>5, <2>3, AppendInside
        <4> QED BY <4>1 DEF Inside
      <3> QED BY <2>2, <3>1, <3>2
    <2>5. 10 * m \in 0 .. a.count - 1
      BY <1>1, <2>2
    <2> QED BY <1>3, <2>2, <2>4, <2>5
  <1> QED BY <1>6, <1>7

LEMMA GroupsMeet ==
  ASSUME NEW a \in Declarations, NEW b \in Declarations, a.count # Ordinary, b.count # Ordinary
  PROVE  Members(a) \cap Members(b) # {} <=>
           /\ a.count # 0 /\ b.count # 0
           /\ First(a.name) \in Members(b) \/ First(b.name) \in Members(a)
  <1>1. ASSUME a.count # 0, b.count # 0, First(a.name) \in Members(b) \/ First(b.name) \in Members(a)
        PROVE  Members(a) \cap Members(b) # {}
    <2>1. First(a.name) \in Members(a) /\ First(b.name) \in Members(b)
      BY <1>1, FirstIsMember
    <2> QED BY <1>1, <2>1
  <1>2. ASSUME Members(a) \cap Members(b) # {}
        PROVE  /\ a.count # 0 /\ b.count # 0
               /\ First(a.name) \in Members(b) \/ First(b.name) \in Members(a)
    <2>1. /\ Members(a) = {a.name \o Decimal[i] : i \in 0 .. a.count - 1}
          /\ Members(b) = {b.name \o Decimal[i] : i \in 0 .. b.count - 1}
      BY DEF Members
    <2>2. PICK i \in 0 .. a.count - 1 : a.name \o Decimal[i] \in Members(b)
      BY <1>2, <2>1
    <2>3. PICK j \in 0 .. b.count - 1 : a.name \o Decimal[i] = b.name \o Decimal[j]
      BY <2>1, <2>2
    <2>4. a.count # 0 /\ b.count # 0
      BY <2>2, <2>3, DeclarationIs
    <2>5. Len(a.name) \in Nat /\ Len(b.name) \in Nat
      BY DeclarationIs, LenProperties
    <2>6. CASE Len(a.name) <= Len(b.name)
      <3>1. First(b.name) \in Members(a)
        BY <2>3, <2>6, SharedMember
      <3> QED BY <2>4, <3>1
    <2>7. CASE Len(b.name) <= Len(a.name)
      <3>1. First(a.name) \in Members(b)
        BY <2>3, <2>7, SharedMember
      <3> QED BY <2>4, <3>1
    <2> QED BY <2>5, <2>6, <2>7
  <1> QED BY <1>1, <1>2

LEMMA OneMember ==
  ASSUME NEW d \in Declarations, d.count = Ordinary PROVE Members(d) = {d.name}
  BY DEF Members

(* The second test of an overlap is the overlap of the sets of names. *)
LEMMA OverlapIs ==
  ASSUME NEW a \in Declarations, NEW b \in Declarations
  PROVE  symbolNameSetsOverlap(a, b) <=> Members(a) \cap Members(b) # {}
  <1>1. a.name \in Seq(Characters) /\ b.name \in Seq(Characters)
    BY DeclarationIs
  <1>2. CASE a.count = Ordinary /\ b.count = Ordinary
    <2>1. symbolNameSetsOverlap(a, b) <=> a.name = b.name
      BY <1>2 DEF symbolNameSetsOverlap
    <2> QED BY <1>2, <2>1, OneMember
  <1>3. CASE a.count = Ordinary /\ b.count # Ordinary
    <2>1. symbolNameSetsOverlap(a, b) <=> ParameterizedNameContains(b.name, b.count, a.name)
      BY <1>3 DEF symbolNameSetsOverlap
    <2>2. a.name \in Members(b) <=> ParameterizedNameContains(b.name, b.count, a.name)
      BY <1>1, <1>3, ContainsIs
    <2> QED BY <1>3, <2>1, <2>2, OneMember
  <1>4. CASE a.count # Ordinary /\ b.count = Ordinary
    <2>1. symbolNameSetsOverlap(a, b) <=> ParameterizedNameContains(a.name, a.count, b.name)
      BY <1>4 DEF symbolNameSetsOverlap
    <2>2. b.name \in Members(a) <=> ParameterizedNameContains(a.name, a.count, b.name)
      BY <1>1, <1>4, ContainsIs
    <2> QED BY <1>4, <2>1, <2>2, OneMember
  <1>5. CASE a.count # Ordinary /\ b.count # Ordinary
    <2>1. symbolNameSetsOverlap(a, b) <=>
            /\ a.count # 0 /\ b.count # 0
            /\ \/ ParameterizedNameContains(a.name, a.count, First(b.name))
               \/ ParameterizedNameContains(b.name, b.count, First(a.name))
      BY <1>5 DEF symbolNameSetsOverlap
    <2>2. First(a.name) \in Seq(Characters) /\ First(b.name) \in Seq(Characters)
      BY FirstIs
    <2>3. /\ First(b.name) \in Members(a) <=> ParameterizedNameContains(a.name, a.count, First(b.name))
          /\ First(a.name) \in Members(b) <=> ParameterizedNameContains(b.name, b.count, First(a.name))
      BY <1>5, <2>2, ContainsIs
    <2> QED BY <1>5, <2>1, <2>3, GroupsMeet
  <1> QED BY <1>2, <1>3, <1>4, <1>5

-----------------------------------------------------------------------------
(* The member that a symbol is indexed as under a base *)

IndexedSpelling(symbol) == IF symbol.count = Ordinary THEN symbol.name ELSE First(symbol.name)
MemberOf(base, symbol) ==
  IF symbol.count = 0 THEN NoMember ELSE parseParameterizedIndex(base, IndexedSpelling(symbol))

LEMMA IndexedSpellingIs ==
  ASSUME NEW d \in Declarations
  PROVE  IndexedSpelling(d) \in Seq(Characters) /\ IndexedSpelling(d) # <<>>
  BY DeclarationIs, FirstIs DEF IndexedSpelling

LEMMA MemberRange ==
  ASSUME NEW base, NEW d PROVE MemberOf(base, d) \in Numbers \cup {NoMember}
  BY ParseRange DEF MemberOf

(* What takes a name of a group: a group that has its first member, or a    *)
(* symbol that is indexed under its base with a number below its count.     *)
LEMMA OverlapByIndex ==
  ASSUME NEW s \in Declarations, NEW d \in Declarations, d.count # Ordinary, d.count # 0
  PROVE  Members(s) \cap Members(d) # {} <=>
           \/ s.count # Ordinary /\ First(d.name) \in Members(s)
           \/ MemberOf(d.name, s) # NoMember /\ MemberOf(d.name, s) < d.count
  <1>1. d.name \in Seq(Characters) /\ s.name \in Seq(Characters) /\ First(s.name) \in Seq(Characters)
    BY DeclarationIs, FirstIs
  <1>2. Ordinary # 0
    BY DEF Ordinary
  <1>3. CASE s.count = Ordinary
    <2>1. MemberOf(d.name, s) = parseParameterizedIndex(d.name, s.name)
      BY <1>2, <1>3 DEF MemberOf, IndexedSpelling
    <2>2. s.name \in Members(d) <=> MemberOf(d.name, s) # NoMember /\ MemberOf(d.name, s) < d.count
      BY <1>1, <2>1, ContainsIs DEF ParameterizedNameContains
    <2> QED BY <1>3, <2>2, OneMember
  <1>4. CASE s.count = 0
    <2>1. MemberOf(d.name, s) = NoMember
      BY <1>4 DEF MemberOf
    <2>2. Members(s) = {}
      BY <1>2, <1>4 DEF Members
    <2> QED BY <2>1, <2>2
  <1>5. CASE s.count # Ordinary /\ s.count # 0
    <2>1. MemberOf(d.name, s) = parseParameterizedIndex(d.name, First(s.name))
      BY <1>5 DEF MemberOf, IndexedSpelling
    <2>2. First(s.name) \in Members(d) <=>
            MemberOf(d.name, s) # NoMember /\ MemberOf(d.name, s) < d.count
      BY <1>1, <2>1, ContainsIs DEF ParameterizedNameContains
    <2> QED BY <1>5, <2>2, GroupsMeet
  <1> QED BY <1>3, <1>4, <1>5
-----------------------------------------------------------------------------
(* The walk down the trie of member numbers *)

LEMMA ShiftedNat == \A k, n \in Nat : Shifted[k][n] \in Nat
  <1> DEFINE P(k) == \A n \in Nat : Shifted[k][n] \in Nat
  <1> SUFFICES ASSUME {k \in Nat : ~P(k)} # {} PROVE FALSE
    OBVIOUS
  <1>1. PICK k \in Nat : ~P(k) /\ \A m \in Nat : ~P(m) => k <= m
    <2>1. {l \in Nat : ~P(l)} \subseteq Nat
      OBVIOUS
    <2> HIDE DEF P
    <2> QED BY <2>1, LeastNumber
  <1>2. k # 0
    BY <1>1, ShiftedIs
  <1>3. PICK j \in Nat : k = j + 1
    <2>1. k - 1 \in Nat /\ k = (k - 1) + 1
      BY <1>2
    <2> QED BY <2>1
  <1>4. P(j)
    BY <1>1, <1>3
  <1>5. \A n \in Nat : Shifted[j + 1][n] = Shifted[j][n] \div 2
    BY <1>3, ShiftedIs
  <1>6. \A n \in Nat : Shifted[j + 1][n] \in Nat
    BY <1>4, <1>5
  <1> QED BY <1>1, <1>3, <1>6

LEMMA ShiftedMonotone ==
  \A k \in Nat : \A m, n \in Nat : m <= n => Shifted[k][m] <= Shifted[k][n]
  <1> DEFINE P(k) == \A m, n \in Nat : m <= n => Shifted[k][m] <= Shifted[k][n]
  <1> SUFFICES ASSUME {k \in Nat : ~P(k)} # {} PROVE FALSE
    OBVIOUS
  <1>1. PICK k \in Nat : ~P(k) /\ \A m \in Nat : ~P(m) => k <= m
    <2>1. {l \in Nat : ~P(l)} \subseteq Nat
      OBVIOUS
    <2> HIDE DEF P
    <2> QED BY <2>1, LeastNumber
  <1>2. k # 0
    BY <1>1, ShiftedIs
  <1>3. PICK j \in Nat : k = j + 1
    <2>1. k - 1 \in Nat /\ k = (k - 1) + 1
      BY <1>2
    <2> QED BY <2>1
  <1>4. P(j)
    BY <1>1, <1>3
  <1>5. \A n \in Nat : Shifted[j + 1][n] = Shifted[j][n] \div 2 /\ Shifted[j][n] \in Nat
    BY <1>3, ShiftedIs, ShiftedNat
  <1>6. \A a, b \in Nat : a <= b => a \div 2 <= b \div 2
    OBVIOUS
  <1>7. ASSUME NEW m \in Nat, NEW n \in Nat, m <= n
        PROVE  Shifted[j + 1][m] <= Shifted[j + 1][n]
    BY <1>4, <1>5, <1>6, <1>7
  <1> QED BY <1>1, <1>3, <1>7

LEMMA ShiftedSmall ==
  \A k \in Nat : k <= Bits => \A n \in Numbers : Shifted[k][n] < Power[Bits - k]
  <1> DEFINE P(k) == k <= Bits => \A n \in Numbers : Shifted[k][n] < Power[Bits - k]
  <1> SUFFICES ASSUME {k \in Nat : ~P(k)} # {} PROVE FALSE
    OBVIOUS
  <1>1. PICK k \in Nat : ~P(k) /\ \A m \in Nat : ~P(m) => k <= m
    <2>1. {l \in Nat : ~P(l)} \subseteq Nat
      OBVIOUS
    <2> HIDE DEF P
    <2> QED BY <2>1, LeastNumber
  <1>2. k <= Bits /\ Bits \in Nat
    BY <1>1, BitsAssumption
  <1>3. k # 0
    <2> SUFFICES ASSUME k = 0 PROVE P(0)
      BY <1>1
    <2>1. Bits - 0 = Bits /\ Power[Bits] \in Nat
      BY <1>2, PowerPositive
    <2>2. \A n \in Numbers : n \in Nat /\ n < Power[Bits]
      BY <2>1, NumbersFacts DEF Numbers
    <2>3. \A n \in Numbers : Shifted[0][n] = n
      BY <2>2, ShiftedIs
    <2> QED BY <2>1, <2>2, <2>3
  <1>4. PICK j \in Nat : k = j + 1
    BY <1>1, <1>3
  <1>5. P(j) /\ j <= Bits
    BY <1>1, <1>2, <1>4
  <1>6. PICK b \in Nat : b = Bits - k /\ Bits - j = b + 1
    BY <1>2, <1>4
  <1>7. PICK p \in Nat : p = Power[b]
    BY <1>6, PowerPositive
  <1>8. Power[b + 1] = 2 * p
    BY <1>6, <1>7, PowerIs
  <1>9. ASSUME NEW n \in Numbers PROVE Shifted[k][n] < Power[Bits - k]
    <2>1. n \in Nat
      BY NumbersFacts
    <2>2. PICK s \in Nat : s = Shifted[j][n]
      BY <1>4, <2>1, ShiftedNat
    <2>3. s < 2 * p
      BY <1>5, <1>6, <1>8, <2>2
    <2>4. Shifted[j + 1][n] = s \div 2
      BY <1>4, <2>1, <2>2, ShiftedIs
    <2>5. s \div 2 < p
      BY <1>7, <2>2, <2>3
    <2> QED BY <1>4, <1>6, <1>7, <2>4, <2>5
  <1> QED BY <1>1, <1>9

LEMMA ShiftedOut == \A n \in Numbers : Shifted[Bits][n] = 0
  <1> SUFFICES ASSUME NEW n \in Numbers PROVE Shifted[Bits][n] = 0
    OBVIOUS
  <1>1. Bits \in Nat /\ Bits - Bits = 0 /\ Bits <= Bits
    BY BitsAssumption
  <1>2. Shifted[Bits][n] < Power[0]
    BY <1>1, ShiftedSmall
  <1>3. Power[0] = 1
    BY PowerIs
  <1>4. Shifted[Bits][n] \in Nat
    BY <1>1, NumbersFacts, ShiftedNat
  <1> QED BY <1>2, <1>3, <1>4

LEMMA ShiftedTogether ==
  ASSUME NEW j \in Nat, NEW m \in Nat, NEW n \in Nat, Shifted[j][m] = Shifted[j][n]
  PROVE  \A k \in Nat : j <= k => Shifted[k][m] = Shifted[k][n]
  <1> DEFINE P(k) == j <= k => Shifted[k][m] = Shifted[k][n]
  <1> SUFFICES ASSUME {k \in Nat : ~P(k)} # {} PROVE FALSE
    OBVIOUS
  <1>1. PICK k \in Nat : ~P(k) /\ \A l \in Nat : ~P(l) => k <= l
    <2>1. {l \in Nat : ~P(l)} \subseteq Nat
      OBVIOUS
    <2> HIDE DEF P
    <2> QED BY <2>1, LeastNumber
  <1>2. j < k
    BY <1>1
  <1>3. PICK i \in Nat : k = i + 1
    BY <1>1, <1>2
  <1>4. Shifted[i][m] = Shifted[i][n]
    BY <1>1, <1>2, <1>3
  <1>5. Shifted[i + 1][m] = Shifted[i][m] \div 2 /\ Shifted[i + 1][n] = Shifted[i][n] \div 2
    BY <1>3, ShiftedIs
  <1> QED BY <1>1, <1>3, <1>4, <1>5

(* The way to m leaves the way to a greater number at a bit that the        *)
(* greater one has, and stays with it above that bit.                       *)
Leaves(m, limit, bit) == TurnsRight(limit, bit) /\ Node(m, bit) = LeftChild(limit, bit)

LEMMA LeavesLess ==
  ASSUME NEW m \in Numbers, NEW limit \in Numbers, NEW bit \in 0 .. Bits - 1,
         Leaves(m, limit, bit)
  PROVE  m < limit /\ \A b \in bit + 1 .. Bits : Node(m, b) = Node(limit, b)
  <1>1. m \in Nat /\ limit \in Nat /\ bit \in Nat /\ bit + 1 \in Nat
    BY NumbersFacts
  <1>2. Shifted[bit][limit] % 2 = 1 /\ Shifted[bit][m] = 2 * Shifted[bit + 1][limit]
    BY DEF Leaves, TurnsRight, Node, LeftChild
  <1>3. PICK a \in Nat : a = Shifted[bit][m]
    BY <1>1, ShiftedNat
  <1>4. PICK b \in Nat : b = Shifted[bit][limit]
    BY <1>1, ShiftedNat
  <1>5. Shifted[bit + 1][m] = a \div 2 /\ Shifted[bit + 1][limit] = b \div 2
    BY <1>1, <1>3, <1>4, ShiftedIs
  <1>6. a < b /\ a \div 2 = b \div 2
    BY <1>2, <1>3, <1>4, <1>5
  <1>7. m < limit
    <2>1. CASE limit <= m
      <3>1. b <= a
        BY <1>1, <1>3, <1>4, <2>1, ShiftedMonotone
      <3> QED BY <1>3, <1>4, <1>6, <3>1
    <2> QED BY <1>1, <2>1
  <1>8. Shifted[bit + 1][m] = Shifted[bit + 1][limit]
    BY <1>5, <1>6
  <1>9. \A k \in Nat : bit + 1 <= k => Shifted[k][m] = Shifted[k][limit]
    BY <1>1, <1>8, ShiftedTogether
  <1>10. \A k \in bit + 1 .. Bits : k \in Nat /\ bit + 1 <= k
    BY <1>1, BitsAssumption
  <1> QED BY <1>7, <1>9, <1>10 DEF Node

LEMMA LessLeaves ==
  ASSUME NEW m \in Numbers, NEW limit \in Numbers, m < limit
  PROVE  \E bit \in 0 .. Bits - 1 : Leaves(m, limit, bit)
  <1>1. m \in Nat /\ limit \in Nat /\ Bits \in Nat
    BY NumbersFacts, BitsAssumption
  <1> DEFINE Same == {k \in Nat : Shifted[k][m] = Shifted[k][limit]}
  <1>2. Bits \in Same
    BY <1>1, ShiftedOut
  <1>3. PICK k \in Same : \A l \in Same : k <= l
    <2>1. Same \subseteq Nat /\ Same # {}
      BY <1>2
    <2> HIDE DEF Same
    <2> QED BY <2>1, LeastNumber
  <1>4. k \in Nat /\ k <= Bits /\ Shifted[k][m] = Shifted[k][limit]
    BY <1>2, <1>3
  <1>5. k # 0
    BY <1>1, <1>4, ShiftedIs
  <1>6. PICK bit \in Nat : k = bit + 1
    BY <1>4, <1>5
  <1>7. bit \notin Same /\ bit \in 0 .. Bits - 1
    BY <1>1, <1>3, <1>4, <1>6
  <1>8. PICK a \in Nat : a = Shifted[bit][m]
    BY <1>1, <1>6, ShiftedNat
  <1>9. PICK b \in Nat : b = Shifted[bit][limit]
    BY <1>1, <1>6, ShiftedNat
  <1>10. Shifted[bit + 1][m] = a \div 2 /\ Shifted[bit + 1][limit] = b \div 2
    BY <1>1, <1>6, <1>8, <1>9, ShiftedIs
  <1>11. a # b
    BY <1>6, <1>7, <1>8, <1>9
  <1>12. a <= b
    BY <1>1, <1>6, <1>8, <1>9, ShiftedMonotone
  <1>13. a \div 2 = b \div 2
    BY <1>4, <1>6, <1>10
  <1>14. b % 2 = 1 /\ a = 2 * (b \div 2)
    BY <1>8, <1>9, <1>11, <1>12, <1>13
  <1>15. Leaves(m, limit, bit)
    BY <1>8, <1>9, <1>10, <1>14 DEF Leaves, TurnsRight, Node, LeftChild
  <1> QED BY <1>7, <1>15

LEMMA PathFacts ==
  ASSUME NEW n \in Numbers
  PROVE  /\ <<Bits, 0>> \in Path(n)
         /\ \A bit \in 0 .. Bits : Node(n, bit) \in Path(n)
         /\ \A node \in Path(n) : node[1] \in 0 .. Bits /\ node = Node(n, node[1])
  <1>1. Bits \in 0 .. Bits
    BY BitsAssumption
  <1>2. Node(n, Bits) = <<Bits, 0>>
    BY ShiftedOut DEF Node
  <1>3. \A bit \in 0 .. Bits : Node(n, bit)[1] = bit
    BY DEF Node
  <1> QED BY <1>1, <1>2, <1>3 DEF Path
-----------------------------------------------------------------------------
(* The earliest symbol of a set *)

LEMMA EarliestIs ==
  ASSUME NEW S, S \subseteq Nat \ {0}
  PROVE  /\ S = {} => Earliest(S) = NoSymbol
         /\ S # {} => Earliest(S) \in S /\ \A j \in S : Earliest(S) <= j
         /\ Earliest(S) = NoSymbol <=> S = {}
  <1>1. S = {} => Earliest(S) = NoSymbol
    BY DEF Earliest
  <1>2. ASSUME S # {} PROVE Earliest(S) \in S /\ \A j \in S : Earliest(S) <= j
    <2>1. \E i \in S : \A j \in S : i <= j
      BY <1>2, LeastNumber
    <2>2. Earliest(S) = CHOOSE i \in S : \A j \in S : i <= j
      BY <1>2 DEF Earliest
    <2> QED BY <2>1, <2>2, Zenon
  <1> QED BY <1>1, <1>2 DEF NoSymbol

LEMMA EarliestUnique ==
  ASSUME NEW S, S \subseteq Nat \ {0}, NEW x \in S, \A j \in S : x <= j
  PROVE  Earliest(S) = x
  <1>1. Earliest(S) \in S /\ \A j \in S : Earliest(S) <= j
    BY EarliestIs
  <1>2. PICK e \in Nat : e = Earliest(S) /\ e <= x /\ x <= e /\ x \in Nat
    BY <1>1
  <1> QED BY <1>2

(* A part of a set that has a symbol before each of the set *)
LEMMA EarliestOfPart ==
  ASSUME NEW S, NEW T, S \subseteq Nat \ {0}, T \subseteq S, \A i \in S : \E j \in T : j <= i
  PROVE  Earliest(T) = Earliest(S)
  <1>1. CASE S = {}
    <2>1. T = {}
      BY <1>1
    <2> QED BY <1>1, <2>1
  <1>2. CASE S # {}
    <2>1. T # {} /\ T \subseteq Nat \ {0}
      BY <1>2
    <2>2. Earliest(T) \in T /\ \A j \in T : Earliest(T) <= j
      BY <2>1, EarliestIs
    <2>3. ASSUME NEW i \in S PROVE Earliest(T) <= i
      <3>1. PICK j \in T : j <= i
        OBVIOUS
      <3>2. Earliest(T) <= j
        BY <2>2, <3>1
      <3>3. Earliest(T) \in Nat /\ j \in Nat /\ i \in Nat
        BY <2>1, <2>2, <3>1
      <3> QED BY <3>1, <3>2, <3>3
    <2> QED BY <2>2, <2>3, EarliestUnique
  <1> QED BY <1>1, <1>2

LEMMA EarliestOfBoth ==
  ASSUME NEW S, NEW T, S \subseteq Nat \ {0}, T \subseteq Nat \ {0}
  PROVE  (IF Earliest(T) = NoSymbol THEN Earliest(S) ELSE keepEarliest(Earliest(S), Earliest(T)))
           = Earliest(S \cup T)
  <1>1. CASE T = {}
    <2>1. Earliest(T) = NoSymbol /\ S \cup T = S
      BY <1>1, EarliestIs
    <2> QED BY <2>1
  <1>2. CASE T # {} /\ S = {}
    <2>1. Earliest(T) # NoSymbol /\ Earliest(S) = NoSymbol /\ S \cup T = T
      BY <1>2, EarliestIs
    <2> QED BY <2>1 DEF keepEarliest
  <1>3. CASE T # {} /\ S # {}
    <2>1. /\ Earliest(T) # NoSymbol /\ Earliest(S) # NoSymbol
          /\ Earliest(S) \in S /\ \A j \in S : Earliest(S) <= j
          /\ Earliest(T) \in T /\ \A j \in T : Earliest(T) <= j
      BY <1>3, EarliestIs
    <2>2. PICK s \in S : s = Earliest(S) /\ \A j \in S : s <= j
      BY <2>1
    <2>3. PICK t \in T : t = Earliest(T) /\ \A j \in T : t <= j
      BY <2>1
    <2>4. s \in Nat /\ t \in Nat /\ S \cup T \subseteq Nat \ {0}
      BY <2>2, <2>3
    <2>5. CASE t < s
      <3>1. \A j \in S \cup T : t <= j
        BY <2>2, <2>3, <2>4, <2>5
      <3>2. Earliest(S \cup T) = t
        BY <2>3, <2>4, <3>1, EarliestUnique
      <3> QED BY <2>1, <2>2, <2>3, <2>5, <3>2 DEF keepEarliest
    <2>6. CASE ~(t < s)
      <3>1. \A j \in S \cup T : s <= j
        BY <2>2, <2>3, <2>4, <2>6
      <3>2. Earliest(S \cup T) = s
        BY <2>2, <2>4, <3>1, EarliestUnique
      <3> QED BY <2>1, <2>2, <2>3, <2>6, <3>2 DEF keepEarliest
    <2> QED BY <2>4, <2>5, <2>6
  <1> QED BY <1>1, <1>2, <1>3

-----------------------------------------------------------------------------
(* What the indexes hold *)

Through(syms, base, node) ==
  {i \in DOMAIN syms : /\ MemberOf(base, syms[i]) # NoMember
                       /\ node \in Path(MemberOf(base, syms[i]))}

Distinct(syms) ==
  /\ syms \in Seq(Declarations)
  /\ \A i, j \in DOMAIN syms : SameName(syms[i], syms[j]) => i = j

OrdinaryIndexed(syms, map) ==
  /\ \A name \in DOMAIN map : /\ map[name] \in DOMAIN syms /\ syms[map[name]].name = name
                              /\ syms[map[name]].count = Ordinary
  /\ \A i \in DOMAIN syms : syms[i].count = Ordinary => syms[i].name \in DOMAIN map

GroupsIndexed(syms, map) ==
  /\ \A name \in DOMAIN map : /\ map[name] \in DOMAIN syms /\ syms[map[name]].name = name
                              /\ syms[map[name]].count # Ordinary
  /\ \A i \in DOMAIN syms : syms[i].count # Ordinary => syms[i].name \in DOMAIN map

PrefixesIndexed(syms, map) ==
  /\ \A prefix \in DOMAIN map : map[prefix] # NoSymbol =>
       /\ map[prefix] \in DOMAIN syms /\ syms[map[prefix]].name = prefix
       /\ syms[map[prefix]].count # Ordinary
  /\ \A i \in DOMAIN syms : syms[i].count # Ordinary =>
       PrefixesOf(syms[i].name) \subseteq DOMAIN map /\ map[syms[i].name] = i

MembersIndexed(syms, map) ==
  /\ DOMAIN map \subseteq Seq(Characters) \ {<<>>}
  /\ \A base \in DOMAIN map : \A node \in DOMAIN map[base] :
       /\ Through(syms, base, node) # {}
       /\ map[base][node] = Earliest(Through(syms, base, node))
  /\ \A i \in DOMAIN syms : \A base \in Seq(Characters) \ {<<>>} :
       MemberOf(base, syms[i]) # NoMember =>
         base \in DOMAIN map /\ Path(MemberOf(base, syms[i])) \subseteq DOMAIN map[base]

IndexInv ==
  /\ Distinct(symbols)
  /\ OrdinaryIndexed(symbols, ordinary_exact)
  /\ GroupsIndexed(symbols, parameterized_exact)
  /\ PrefixesIndexed(symbols, parameterized_prefixes)
  /\ MembersIndexed(symbols, member_prefixes)

LEMMA SymbolIs ==
  ASSUME Distinct(symbols)
  PROVE  /\ Len(symbols) \in Nat /\ DOMAIN symbols = 1 .. Len(symbols)
         /\ DOMAIN symbols \subseteq Nat \ {0}
         /\ \A i \in DOMAIN symbols : symbols[i] \in Declarations
  <1>1. symbols \in Seq(Declarations)
    BY DEF Distinct
  <1>2. Len(symbols) \in Nat /\ DOMAIN symbols = 1 .. Len(symbols)
    BY <1>1, LenProperties
  <1> QED BY <1>1, <1>2, ElementOfSeq

LEMMA HasMemberIs ==
  ASSUME Distinct(symbols), NEW i \in DOMAIN symbols, NEW spelling \in Seq(Characters)
  PROVE  HasMember(i, spelling) <=> symbols[i].count # Ordinary /\ spelling \in Members(symbols[i])
  <1>1. symbols[i] \in Declarations
    BY SymbolIs
  <1>2. CASE symbols[i].count # Ordinary
    BY <1>1, <1>2, ContainsIs DEF HasMember, ParameterizedNameContains
  <1>3. CASE symbols[i].count = Ordinary
    BY <1>3 DEF HasMember
  <1> QED BY <1>2, <1>3

(* The groups that have a spelling *)
Containing(spelling) ==
  {i \in DOMAIN symbols : symbols[i].count # Ordinary /\ spelling \in Members(symbols[i])}

LEMMA PrefixOfMember ==
  ASSUME NEW d \in Declarations, d.count # Ordinary, NEW spelling \in Seq(Characters),
         spelling \in Members(d)
  PROVE  /\ Len(d.name) \in 1 .. Len(spelling) /\ SubSeq(spelling, 1, Len(d.name)) = d.name
         /\ \A m \in 1 .. Len(d.name) : SubSeq(spelling, 1, m) \in PrefixesOf(d.name)
  <1>1. d.name \in Seq(Characters) /\ d.name # <<>> /\ d.count \in Nat /\ d.count \in Numbers
    BY DeclarationIs
  <1>2. PICK k \in 0 .. d.count - 1 : spelling = d.name \o Decimal[k]
    BY DEF Members
  <1>3. k \in Numbers
    <2>1. k \in 0 .. d.count
      BY <1>1, <1>2
    <2> QED BY <1>1, <2>1, NumbersFacts
  <1>4. PICK t \in Seq(Characters) : t = Decimal[k] /\ t # <<>>
    BY <1>3, DecimalOfNumber
  <1>5. PICK s \in Seq(Characters) : s = d.name /\ s # <<>>
    BY <1>1
  <1>6. spelling = s \o t
    BY <1>2, <1>4, <1>5
  <1>7. Len(s) \in Nat /\ Len(s) > 0
    BY <1>5, EmptySeq
  <1>8. Len(s) < Len(spelling) /\ SubSeq(spelling, 1, Len(s)) = s
    BY ZenonT(30), <1>4, <1>5, <1>6, ConcatParts
  <1>9. Len(spelling) \in Nat
    BY LenProperties
  <1>10. ASSUME NEW m \in 1 .. Len(s) PROVE SubSeq(spelling, 1, m) \in PrefixesOf(s)
    <2>1. 1 \in 1 .. Len(s) /\ m \in 0 .. Len(s)
      BY <1>7
    <2>2. SubSeq(s \o t, 1, m) = SubSeq(s, 1, m)
      BY ZenonT(30), <1>4, <1>5, <2>1, SubSeqOfConcat1
    <2>3. SubSeq(s, 1, m) \in PrefixesOf(s)
      BY <2>1 DEF PrefixesOf
    <2> QED BY <1>6, <2>2, <2>3
  <1> QED BY <1>5, <1>7, <1>8, <1>9, <1>10

(* The walk over the prefixes of a spelling meets the groups that have it. *)
LEMMA ContainingIs ==
  ASSUME IndexInv, NEW spelling \in Seq(Characters)
  PROVE  parameterizedContaining(parameterized_prefixes, spelling) = Earliest(Containing(spelling))
  <1> DEFINE index == parameterized_prefixes
             walked == {n \in 1 .. Len(spelling) :
                          \A m \in 1 .. n : SubSeq(spelling, 1, m) \in DOMAIN index}
             met == {index[SubSeq(spelling, 1, n)] : n \in walked}
             found == {symbol \in met : symbol # NoSymbol /\ HasMember(symbol, spelling)}
  <1>1. Distinct(symbols) /\ PrefixesIndexed(symbols, index)
    BY DEF IndexInv
  <1>2. parameterizedContaining(index, spelling) = Earliest(found)
    BY DEF parameterizedContaining
  <1>3. ASSUME NEW i \in found PROVE i \in Containing(spelling)
    <2>1. PICK n \in walked : i = index[SubSeq(spelling, 1, n)]
      OBVIOUS
    <2>2. i # NoSymbol /\ HasMember(i, spelling)
      OBVIOUS
    <2>3. n \in 1 .. Len(spelling) /\ n \in 1 .. n /\ SubSeq(spelling, 1, n) \in DOMAIN index
      BY LenProperties
    <2>4. i \in DOMAIN symbols
      BY <1>1, <2>1, <2>2, <2>3 DEF PrefixesIndexed
    <2> QED BY <1>1, <2>2, <2>4, HasMemberIs DEF Containing
  <1>4. ASSUME NEW i \in Containing(spelling) PROVE i \in found
    <2>1. i \in DOMAIN symbols /\ symbols[i].count # Ordinary /\ spelling \in Members(symbols[i])
      BY DEF Containing
    <2>2. symbols[i] \in Declarations /\ i # NoSymbol
      BY <1>1, <2>1, SymbolIs DEF NoSymbol
    <2>3. PrefixesOf(symbols[i].name) \subseteq DOMAIN index /\ index[symbols[i].name] = i
      BY <1>1, <2>1 DEF PrefixesIndexed
    <2>4. PICK n : n = Len(symbols[i].name)
      OBVIOUS
    <2>5. /\ n \in 1 .. Len(spelling) /\ SubSeq(spelling, 1, n) = symbols[i].name
          /\ \A m \in 1 .. n : SubSeq(spelling, 1, m) \in PrefixesOf(symbols[i].name)
      BY <2>1, <2>2, <2>4, PrefixOfMember
    <2>6. n \in walked
      BY <2>3, <2>5
    <2>7. index[SubSeq(spelling, 1, n)] = i
      BY <2>3, <2>5
    <2>8. i \in met
      BY <2>6, <2>7
    <2>9. HasMember(i, spelling)
      BY <1>1, <2>1, HasMemberIs
    <2> HIDE DEF met
    <2> QED BY <2>2, <2>8, <2>9
  <1> HIDE DEF found
  <1>5. found = Containing(spelling)
    BY <1>3, <1>4
  <1> QED BY <1>2, <1>5

(* The symbols that are indexed under a base with a number below a limit *)
Below(base, limit) ==
  {i \in DOMAIN symbols : MemberOf(base, symbols[i]) # NoMember /\ MemberOf(base, symbols[i]) < limit}

(* The left children of the way to a limit hold the numbers below it. *)
LEMMA BelowIs ==
  ASSUME IndexInv, NEW base \in DOMAIN member_prefixes, NEW limit \in Numbers
  PROVE  earliestMemberBelow(member_prefixes[base], limit) = Earliest(Below(base, limit))
  <1> DEFINE index == member_prefixes[base]
             turned == {b \in Walked(index, limit) : TurnsRight(limit, b)}
             left == {LeftChild(limit, bit) : bit \in turned}
             found == {index[node] : node \in left \cap DOMAIN index}
  <1>1. Distinct(symbols) /\ MembersIndexed(symbols, member_prefixes)
    BY DEF IndexInv
  <1>2. \A node \in DOMAIN index : /\ Through(symbols, base, node) # {}
                                   /\ index[node] = Earliest(Through(symbols, base, node))
    BY <1>1 DEF MembersIndexed
  <1>3. Below(base, limit) \subseteq Nat \ {0}
    BY <1>1, SymbolIs DEF Below
  <1>4. \A i : MemberOf(base, symbols[i]) # NoMember => MemberOf(base, symbols[i]) \in Numbers
    BY MemberRange
  <1>5. CASE limit = 0
    <2>1. earliestMemberBelow(index, limit) = NoSymbol
      BY <1>5 DEF earliestMemberBelow
    <2>2. ASSUME NEW i \in Below(base, limit) PROVE FALSE
      <3>1. MemberOf(base, symbols[i]) # NoMember /\ MemberOf(base, symbols[i]) < 0
        BY <1>5 DEF Below
      <3>2. MemberOf(base, symbols[i]) \in Nat
        BY <1>4, <3>1, NumbersFacts
      <3> QED BY <3>1, <3>2
    <2> QED BY <1>3, <2>1, <2>2, EarliestIs
  <1>6. CASE limit # 0
    <2>1. earliestMemberBelow(index, limit) = Earliest(found)
      BY <1>6 DEF earliestMemberBelow
    <2>2. ASSUME NEW v \in found PROVE v \in Below(base, limit)
      <3>1. PICK node \in left \cap DOMAIN index : v = index[node]
        OBVIOUS
      <3>2. PICK bit \in turned : node = LeftChild(limit, bit)
        BY <3>1
      <3>3. bit \in 0 .. Bits - 1 /\ TurnsRight(limit, bit)
        BY <3>2 DEF Walked
      <3>4. Through(symbols, base, node) \subseteq Nat \ {0}
        BY <1>1, SymbolIs DEF Through
      <3>5. v \in Through(symbols, base, node)
        BY <1>2, <3>1, <3>4, EarliestIs
      <3>6. /\ v \in DOMAIN symbols /\ MemberOf(base, symbols[v]) # NoMember
            /\ node \in Path(MemberOf(base, symbols[v]))
        BY <3>5 DEF Through
      <3>7. PICK m \in Numbers : m = MemberOf(base, symbols[v])
        BY <1>4, <3>6
      <3>8. node = Node(m, node[1]) /\ node[1] = bit
        BY <3>2, <3>6, <3>7, PathFacts DEF LeftChild
      <3>9. Leaves(m, limit, bit)
        BY <3>2, <3>3, <3>8 DEF Leaves
      <3>10. m < limit
        BY <3>3, <3>7, <3>9, LeavesLess
      <3> QED BY <3>6, <3>7, <3>10 DEF Below
    <2>3. ASSUME NEW i \in Below(base, limit) PROVE \E v \in found : v <= i
      <3>1. /\ i \in DOMAIN symbols /\ MemberOf(base, symbols[i]) # NoMember
            /\ MemberOf(base, symbols[i]) < limit
        BY DEF Below
      <3>2. PICK m \in Numbers : m = MemberOf(base, symbols[i]) /\ m < limit
        BY <1>4, <3>1
      <3>3. PICK bit \in 0 .. Bits - 1 : Leaves(m, limit, bit)
        BY <3>2, LessLeaves
      <3>4. Path(m) \subseteq DOMAIN index
        BY <1>1, <3>1, <3>2 DEF MembersIndexed
      <3>5. \A b \in 0 .. Bits : Node(m, b) \in DOMAIN index
        BY <3>2, <3>4, PathFacts
      <3>6. \A b \in bit + 1 .. Bits : Node(m, b) = Node(limit, b)
        BY <3>2, <3>3, LeavesLess
      <3>7. \A b \in bit + 1 .. Bits : b \in 0 .. Bits
        BY <3>3, BitsAssumption
      <3>8. bit \in Walked(index, limit)
        BY <3>3, <3>5, <3>6, <3>7 DEF Walked
      <3>9. PICK node : node = Node(m, bit)
        OBVIOUS
      <3>10. node \in left /\ node \in DOMAIN index
        <4>1. TurnsRight(limit, bit) /\ node = LeftChild(limit, bit)
          BY <3>3, <3>9 DEF Leaves
        <4>2. bit \in 0 .. Bits
          BY <3>3, BitsAssumption
        <4> QED BY <3>5, <3>8, <3>9, <4>1, <4>2
      <3>11. node \in Path(m)
        <4>1. bit \in 0 .. Bits
          BY <3>3, BitsAssumption
        <4> QED BY <3>2, <3>9, <4>1, PathFacts
      <3>12. i \in Through(symbols, base, node)
        BY <3>1, <3>2, <3>11 DEF Through
      <3>13. Through(symbols, base, node) \subseteq Nat \ {0}
        BY <1>1, SymbolIs DEF Through
      <3>14. index[node] <= i
        BY <1>2, <3>10, <3>12, <3>13, EarliestIs
      <3>15. index[node] \in found
        BY <3>10
      <3> HIDE DEF found
      <3> QED BY <3>14, <3>15
    <2> HIDE DEF found
    <2>4. found \subseteq Below(base, limit)
      BY <2>2
    <2>5. Earliest(found) = Earliest(Below(base, limit))
      BY <1>3, <2>3, <2>4, EarliestOfPart
    <2> QED BY <2>1, <2>5
  <1> QED BY <1>5, <1>6

LEMMA ExactIs ==
  ASSUME IndexInv, NEW d \in Declarations
  PROVE  exactSymbol(d) = Again(d)
  <1> DEFINE same == {i \in DOMAIN symbols : SameName(symbols[i], d)}
  <1>1. /\ Distinct(symbols) /\ OrdinaryIndexed(symbols, ordinary_exact)
        /\ GroupsIndexed(symbols, parameterized_exact)
    BY DEF IndexInv
  <1>2. DOMAIN symbols \subseteq Nat \ {0} /\ NoSymbol = 0
    BY <1>1, SymbolIs DEF NoSymbol
  <1>3. Again(d) = Earliest(same)
    BY DEF Again
  <1>4. \A i, j \in same : i = j
    BY <1>1 DEF Distinct, SameName
  <1>5. ASSUME NEW i \in same PROVE exactSymbol(d) = i
    <2>1. i \in DOMAIN symbols /\ symbols[i].name = d.name
          /\ (symbols[i].count = Ordinary <=> d.count = Ordinary)
      BY DEF SameName
    <2>2. CASE d.count = Ordinary
      <3>1. d.name \in DOMAIN ordinary_exact
        BY <1>1, <2>1, <2>2 DEF OrdinaryIndexed
      <3>2. PICK j : j = ordinary_exact[d.name]
        OBVIOUS
      <3>3. j \in same
        BY <1>1, <2>2, <3>1, <3>2 DEF OrdinaryIndexed, SameName
      <3>4. exactSymbol(d) = j
        BY <2>2, <3>1, <3>2 DEF exactSymbol
      <3> HIDE DEF same
      <3> QED BY <1>4, <3>3, <3>4
    <2>3. CASE d.count # Ordinary
      <3>1. d.name \in DOMAIN parameterized_exact
        BY <1>1, <2>1, <2>3 DEF GroupsIndexed
      <3>2. PICK j : j = parameterized_exact[d.name]
        OBVIOUS
      <3>3. j \in same
        BY <1>1, <2>3, <3>1, <3>2 DEF GroupsIndexed, SameName
      <3>4. exactSymbol(d) = j
        BY <2>3, <3>1, <3>2 DEF exactSymbol
      <3> HIDE DEF same
      <3> QED BY <1>4, <3>3, <3>4
    <2> QED BY <2>2, <2>3
  <1>6. CASE same = {}
    <2>1. CASE d.count = Ordinary
      <3>1. d.name \notin DOMAIN ordinary_exact
        BY <1>1, <1>6, <2>1 DEF OrdinaryIndexed, SameName
      <3> QED BY <1>2, <1>3, <1>6, <2>1, <3>1, EarliestIs DEF exactSymbol
    <2>2. CASE d.count # Ordinary
      <3>1. d.name \notin DOMAIN parameterized_exact
        BY <1>1, <1>6, <2>2 DEF GroupsIndexed, SameName
      <3> QED BY <1>2, <1>3, <1>6, <2>2, <3>1, EarliestIs DEF exactSymbol
    <2> QED BY <2>1, <2>2
  <1>7. CASE same # {}
    <2>1. same \subseteq Nat \ {0}
      BY <1>2
    <2>2. Earliest(same) \in same
      BY <1>7, <2>1, EarliestIs
    <2> HIDE DEF same
    <2> QED BY <1>3, <1>5, <2>2
  <1> QED BY <1>6, <1>7

(* The indexes find the earliest symbol that takes a name of a new one. *)
LEMMA OverlappingIs ==
  ASSUME IndexInv, NEW d \in Declarations, \A i \in DOMAIN symbols : ~SameName(symbols[i], d)
  PROVE  overlappingSymbol(d) = Overlapping(d)
  <1> DEFINE meeting == {i \in DOMAIN symbols : Members(symbols[i]) \cap Members(d) # {}}
  <1>1. Distinct(symbols) /\ MembersIndexed(symbols, member_prefixes)
    BY DEF IndexInv
  <1>2. /\ DOMAIN symbols \subseteq Nat \ {0} /\ NoSymbol = 0
        /\ \A i \in DOMAIN symbols : symbols[i] \in Declarations
    BY <1>1, SymbolIs DEF NoSymbol
  <1>3. Overlapping(d) = Earliest(meeting)
    BY DEF Overlapping
  <1>4. d.name \in Seq(Characters) /\ d.name # <<>> /\ Ordinary # 0
    BY DeclarationIs DEF Ordinary
  <1>5. CASE d.count = Ordinary
    <2>1. overlappingSymbol(d) = Earliest(Containing(d.name))
      BY <1>4, <1>5, ContainingIs DEF overlappingSymbol
    <2>2. ASSUME NEW i \in DOMAIN symbols
          PROVE  Members(symbols[i]) \cap Members(d) # {} <=>
                   symbols[i].count # Ordinary /\ d.name \in Members(symbols[i])
      <3>1. Members(d) = {d.name}
        BY <1>5, OneMember
      <3>2. CASE symbols[i].count = Ordinary
        <4>1. Members(symbols[i]) = {symbols[i].name} /\ symbols[i].name # d.name
          BY <1>2, <1>5, <3>2, OneMember DEF SameName
        <4> QED BY <3>1, <3>2, <4>1
      <3>3. CASE symbols[i].count # Ordinary
        BY <3>1, <3>3
      <3> QED BY <3>2, <3>3
    <2>3. meeting = Containing(d.name)
      BY <2>2 DEF Containing
    <2> QED BY <1>3, <2>1, <2>3
  <1>6. CASE d.count = 0
    <2>1. Members(d) = {}
      BY <1>4, <1>6 DEF Members
    <2>2. overlappingSymbol(d) = NoSymbol
      BY <1>4, <1>6 DEF overlappingSymbol
    <2>3. meeting = {}
      BY <2>1
    <2> QED BY <1>3, <2>2, <2>3, EarliestIs
  <1>7. CASE d.count # Ordinary /\ d.count # 0
    <2> DEFINE first == Containing(First(d.name))
               below == Below(d.name, d.count)
    <2>1. \A i \in DOMAIN symbols :
            Members(symbols[i]) \cap Members(d) # {} <=>
              \/ symbols[i].count # Ordinary /\ First(d.name) \in Members(symbols[i])
              \/ MemberOf(d.name, symbols[i]) # NoMember /\ MemberOf(d.name, symbols[i]) < d.count
      BY <1>2, <1>7, OverlapByIndex
    <2>2. meeting = first \cup below
      BY <2>1 DEF Containing, Below
    <2>3. First(d.name) \in Seq(Characters)
      BY FirstIs
    <2>4. parameterizedContaining(parameterized_prefixes, First(d.name)) = Earliest(first)
      BY <2>3, ContainingIs
    <2>5. (IF d.name \in DOMAIN member_prefixes
           THEN earliestMemberBelow(member_prefixes[d.name], d.count) ELSE NoSymbol) = Earliest(below)
      <3>1. CASE d.name \in DOMAIN member_prefixes
        <4>1. d.count \in Numbers
          BY <1>7, DeclarationIs
        <4> QED BY <3>1, <4>1, BelowIs
      <3>2. CASE d.name \notin DOMAIN member_prefixes
        <4>1. below = {}
          BY <1>1, <1>4, <3>2 DEF MembersIndexed, Below
        <4> QED BY <3>2, <4>1, EarliestIs
      <3> QED BY <3>1, <3>2
    <2>6. first \subseteq Nat \ {0} /\ below \subseteq Nat \ {0}
      BY <1>2 DEF Containing, Below
    <2> HIDE DEF first, below
    <2>7. overlappingSymbol(d) =
            IF Earliest(below) = NoSymbol THEN Earliest(first)
            ELSE keepEarliest(Earliest(first), Earliest(below))
      BY <1>7, <2>4, <2>5, Zenon DEF overlappingSymbol
    <2>8. overlappingSymbol(d) = Earliest(first \cup below)
      BY <2>6, <2>7, EarliestOfBoth
    <2> QED BY <1>3, <2>2, <2>8
  <1> QED BY <1>5, <1>6, <1>7
-----------------------------------------------------------------------------
(* Each index keeps what it holds when a symbol is added. *)

New(syms, d) == \A i \in DOMAIN syms : ~SameName(syms[i], d)

LEMMA Added ==
  ASSUME NEW syms \in Seq(Declarations), NEW d \in Declarations
  PROVE  /\ Append(syms, d) \in Seq(Declarations)
         /\ Len(syms) \in Nat /\ Len(syms) + 1 \in Nat \ {0} /\ DOMAIN syms = 1 .. Len(syms)
         /\ Len(syms) + 1 \in DOMAIN Append(syms, d)
         /\ \A i \in DOMAIN syms : /\ i \in DOMAIN Append(syms, d) /\ Append(syms, d)[i] = syms[i]
                                   /\ syms[i] \in Declarations
                                   /\ i # Len(syms) + 1 /\ i < Len(syms) + 1 /\ i \in Nat \ {0}
         /\ Append(syms, d)[Len(syms) + 1] = d
         /\ \A i \in DOMAIN Append(syms, d) : i \in DOMAIN syms \/ i = Len(syms) + 1
  <1> DEFINE t == Append(syms, d)
  <1>1. /\ t \in Seq(Declarations) /\ Len(t) = Len(syms) + 1
        /\ \A i \in 1 .. Len(syms) : t[i] = syms[i]
        /\ t[Len(syms) + 1] = d
    BY AppendProperties
  <1>2. Len(syms) \in Nat /\ DOMAIN syms = 1 .. Len(syms)
    BY LenProperties
  <1> HIDE DEF t
  <1>3. DOMAIN t = 1 .. Len(syms) + 1
    BY <1>1, LenProperties
  <1>4. \A i \in DOMAIN syms : syms[i] \in Declarations
    BY <1>2, ElementOfSeq
  <1>5. \A i \in DOMAIN syms : /\ i \in DOMAIN t /\ t[i] = syms[i]
                               /\ i # Len(syms) + 1 /\ i < Len(syms) + 1 /\ i \in Nat \ {0}
    BY <1>1, <1>2, <1>3
  <1>6. \A i \in DOMAIN t : i \in DOMAIN syms \/ i = Len(syms) + 1
    BY <1>2, <1>3
  <1>7. Len(syms) + 1 \in DOMAIN t /\ Len(syms) + 1 \in Nat \ {0}
    BY <1>2, <1>3
  <1> QED BY <1>1, <1>2, <1>4, <1>5, <1>6, <1>7 DEF t

LEMMA DistinctAdded ==
  ASSUME NEW syms, Distinct(syms), NEW d \in Declarations, New(syms, d)
  PROVE  Distinct(Append(syms, d))
  <1>1. syms \in Seq(Declarations)
    BY DEF Distinct
  <1> DEFINE t == Append(syms, d)
  <1>2. /\ t \in Seq(Declarations)
        /\ \A i \in DOMAIN syms : t[i] = syms[i]
        /\ t[Len(syms) + 1] = d
        /\ \A i \in DOMAIN t : i \in DOMAIN syms \/ i = Len(syms) + 1
    BY <1>1, Added
  <1> HIDE DEF t
  <1>3. ASSUME NEW i \in DOMAIN t, NEW j \in DOMAIN t, SameName(t[i], t[j]) PROVE i = j
    <2>1. CASE i \in DOMAIN syms /\ j \in DOMAIN syms
      BY <1>2, <1>3, <2>1 DEF Distinct
    <2>2. CASE i \in DOMAIN syms /\ j = Len(syms) + 1
      BY <1>2, <1>3, <2>2 DEF New
    <2>3. CASE i = Len(syms) + 1 /\ j \in DOMAIN syms
      <3>1. SameName(t[j], t[i])
        BY <1>3 DEF SameName
      <3> QED BY <1>2, <2>3, <3>1 DEF New
    <2>4. CASE i = Len(syms) + 1 /\ j = Len(syms) + 1
      BY <2>4
    <2> QED BY <1>2, <2>1, <2>2, <2>3, <2>4
  <1> QED BY <1>2, <1>3 DEF Distinct, t

LEMMA OrdinaryAdded ==
  ASSUME NEW syms, Distinct(syms), NEW d \in Declarations, New(syms, d), NEW map,
         OrdinaryIndexed(syms, map), d.count = Ordinary
  PROVE  OrdinaryIndexed(Append(syms, d), emplace(map, d.name, Len(syms) + 1))
  <1> DEFINE t == Append(syms, d)
             m == emplace(map, d.name, Len(syms) + 1)
  <1>1. syms \in Seq(Declarations)
    BY DEF Distinct
  <1>2. /\ Len(syms) + 1 \in DOMAIN t
        /\ \A i \in DOMAIN syms : i \in DOMAIN t /\ t[i] = syms[i]
        /\ t[Len(syms) + 1] = d
        /\ \A i \in DOMAIN t : i \in DOMAIN syms \/ i = Len(syms) + 1
    BY <1>1, Added
  <1>3. d.name \notin DOMAIN map
    BY DEF OrdinaryIndexed, New, SameName
  <1>4. /\ DOMAIN m = DOMAIN map \cup {d.name} /\ m[d.name] = Len(syms) + 1
        /\ \A k \in DOMAIN map : m[k] = map[k]
    BY <1>3 DEF emplace
  <1> HIDE DEF t, m
  <1>5. \A name \in DOMAIN m : /\ m[name] \in DOMAIN t /\ t[m[name]].name = name
                               /\ t[m[name]].count = Ordinary
    BY <1>2, <1>4 DEF OrdinaryIndexed
  <1>6. \A i \in DOMAIN t : t[i].count = Ordinary => t[i].name \in DOMAIN m
    BY <1>2, <1>4 DEF OrdinaryIndexed
  <1>7. OrdinaryIndexed(t, m)
    BY <1>5, <1>6 DEF OrdinaryIndexed
  <1> QED BY <1>7 DEF t, m

LEMMA OrdinaryKept ==
  ASSUME NEW syms, Distinct(syms), NEW d \in Declarations, NEW map,
         OrdinaryIndexed(syms, map), d.count # Ordinary
  PROVE  OrdinaryIndexed(Append(syms, d), map)
  <1>1. syms \in Seq(Declarations)
    BY DEF Distinct
  <1> DEFINE t == Append(syms, d)
  <1>2. /\ \A i \in DOMAIN syms : i \in DOMAIN t /\ t[i] = syms[i]
        /\ t[Len(syms) + 1] = d
        /\ \A i \in DOMAIN t : i \in DOMAIN syms \/ i = Len(syms) + 1
    BY <1>1, Added
  <1> HIDE DEF t
  <1>3. OrdinaryIndexed(t, map)
    BY <1>2 DEF OrdinaryIndexed
  <1> QED BY <1>3 DEF t

LEMMA GroupsAdded ==
  ASSUME NEW syms, Distinct(syms), NEW d \in Declarations, New(syms, d), NEW map,
         GroupsIndexed(syms, map), d.count # Ordinary
  PROVE  GroupsIndexed(Append(syms, d), emplace(map, d.name, Len(syms) + 1))
  <1> DEFINE t == Append(syms, d)
             m == emplace(map, d.name, Len(syms) + 1)
  <1>1. syms \in Seq(Declarations)
    BY DEF Distinct
  <1>2. /\ Len(syms) + 1 \in DOMAIN t
        /\ \A i \in DOMAIN syms : i \in DOMAIN t /\ t[i] = syms[i]
        /\ t[Len(syms) + 1] = d
        /\ \A i \in DOMAIN t : i \in DOMAIN syms \/ i = Len(syms) + 1
    BY <1>1, Added
  <1>3. d.name \notin DOMAIN map
    BY DEF GroupsIndexed, New, SameName
  <1>4. /\ DOMAIN m = DOMAIN map \cup {d.name} /\ m[d.name] = Len(syms) + 1
        /\ \A k \in DOMAIN map : m[k] = map[k]
    BY <1>3 DEF emplace
  <1> HIDE DEF t, m
  <1>5. \A name \in DOMAIN m : /\ m[name] \in DOMAIN t /\ t[m[name]].name = name
                               /\ t[m[name]].count # Ordinary
    BY <1>2, <1>4 DEF GroupsIndexed
  <1>6. \A i \in DOMAIN t : t[i].count # Ordinary => t[i].name \in DOMAIN m
    BY <1>2, <1>4 DEF GroupsIndexed
  <1>7. GroupsIndexed(t, m)
    BY <1>5, <1>6 DEF GroupsIndexed
  <1> QED BY <1>7 DEF t, m

LEMMA GroupsKept ==
  ASSUME NEW syms, Distinct(syms), NEW d \in Declarations, NEW map,
         GroupsIndexed(syms, map), d.count = Ordinary
  PROVE  GroupsIndexed(Append(syms, d), map)
  <1>1. syms \in Seq(Declarations)
    BY DEF Distinct
  <1> DEFINE t == Append(syms, d)
  <1>2. /\ \A i \in DOMAIN syms : i \in DOMAIN t /\ t[i] = syms[i]
        /\ t[Len(syms) + 1] = d
        /\ \A i \in DOMAIN t : i \in DOMAIN syms \/ i = Len(syms) + 1
    BY <1>1, Added
  <1> HIDE DEF t
  <1>3. GroupsIndexed(t, map)
    BY <1>2 DEF GroupsIndexed
  <1> QED BY <1>3 DEF t

LEMMA PrefixesKept ==
  ASSUME NEW syms, Distinct(syms), NEW d \in Declarations, NEW map,
         PrefixesIndexed(syms, map), d.count = Ordinary
  PROVE  PrefixesIndexed(Append(syms, d), map)
  <1>1. syms \in Seq(Declarations)
    BY DEF Distinct
  <1> DEFINE t == Append(syms, d)
  <1>2. /\ \A i \in DOMAIN syms : i \in DOMAIN t /\ t[i] = syms[i]
        /\ t[Len(syms) + 1] = d
        /\ \A i \in DOMAIN t : i \in DOMAIN syms \/ i = Len(syms) + 1
    BY <1>1, Added
  <1> HIDE DEF t
  <1>3. PrefixesIndexed(t, map)
    BY <1>2 DEF PrefixesIndexed
  <1> QED BY <1>3 DEF t

LEMMA PrefixesAdded ==
  ASSUME NEW syms, Distinct(syms), NEW d \in Declarations, New(syms, d), NEW map,
         PrefixesIndexed(syms, map), d.count # Ordinary
  PROVE  PrefixesIndexed(Append(syms, d), indexParameterizedBase(map, d.name, Len(syms) + 1))
  <1> DEFINE t == Append(syms, d)
             m == indexParameterizedBase(map, d.name, Len(syms) + 1)
  <1>1. syms \in Seq(Declarations)
    BY DEF Distinct
  <1>2. /\ Len(syms) + 1 \in DOMAIN t /\ Len(syms) + 1 # NoSymbol
        /\ \A i \in DOMAIN syms : i \in DOMAIN t /\ t[i] = syms[i]
        /\ t[Len(syms) + 1] = d
        /\ \A i \in DOMAIN t : i \in DOMAIN syms \/ i = Len(syms) + 1
    BY <1>1, Added DEF NoSymbol
  <1>3. ASSUME d.name \in DOMAIN map PROVE map[d.name] = NoSymbol
    BY <1>3 DEF PrefixesIndexed, New, SameName
  <1>4. Kept(map, d.name, Len(syms) + 1) = Len(syms) + 1
    BY <1>3 DEF Kept, keepEarliest
  <1>5. d.name \in PrefixesOf(d.name)
    <2>1. d.name \in Seq(Characters)
      BY DeclarationIs
    <2>2. SubSeq(d.name, 1, Len(d.name)) = d.name /\ Len(d.name) \in 0 .. Len(d.name)
      BY <2>1, SubSeqFull, LenProperties
    <2> QED BY <2>2 DEF PrefixesOf
  <1>6. /\ DOMAIN m = DOMAIN map \cup PrefixesOf(d.name)
        /\ m[d.name] = Len(syms) + 1
        /\ \A prefix \in DOMAIN map : prefix # d.name => m[prefix] = map[prefix]
        /\ \A prefix \in DOMAIN m : prefix # d.name /\ prefix \notin DOMAIN map => m[prefix] = NoSymbol
    BY <1>4, <1>5 DEF indexParameterizedBase
  <1> HIDE DEF t, m
  <1>7. ASSUME NEW prefix \in DOMAIN m, m[prefix] # NoSymbol
        PROVE  m[prefix] \in DOMAIN t /\ t[m[prefix]].name = prefix /\ t[m[prefix]].count # Ordinary
    <2>1. CASE prefix = d.name
      BY <1>2, <1>6, <2>1
    <2>2. CASE prefix # d.name
      <3>1. prefix \in DOMAIN map /\ m[prefix] = map[prefix]
        BY <1>6, <1>7, <2>2
      <3> QED BY <1>2, <1>7, <3>1 DEF PrefixesIndexed
    <2> QED BY <2>1, <2>2
  <1>8. ASSUME NEW i \in DOMAIN t, t[i].count # Ordinary
        PROVE  PrefixesOf(t[i].name) \subseteq DOMAIN m /\ m[t[i].name] = i
    <2>1. CASE i = Len(syms) + 1
      BY <1>2, <1>6, <2>1
    <2>2. CASE i \in DOMAIN syms
      <3>1. t[i] = syms[i] /\ syms[i].count # Ordinary
        BY <1>2, <1>8, <2>2
      <3>2. PrefixesOf(syms[i].name) \subseteq DOMAIN map /\ map[syms[i].name] = i
        BY <2>2, <3>1 DEF PrefixesIndexed
      <3>3. syms[i].name # d.name
        BY <2>2, <3>1 DEF New, SameName
      <3>4. syms[i].name \in DOMAIN map
        <4>1. syms[i] \in Declarations
          BY <1>1, <2>2, Added
        <4>2. syms[i].name \in Seq(Characters)
          BY <4>1, DeclarationIs
        <4>3. /\ SubSeq(syms[i].name, 1, Len(syms[i].name)) = syms[i].name
              /\ Len(syms[i].name) \in 0 .. Len(syms[i].name)
          BY <4>2, SubSeqFull, LenProperties
        <4>4. syms[i].name \in PrefixesOf(syms[i].name)
          BY <4>3 DEF PrefixesOf
        <4> QED BY <3>2, <4>4
      <3> QED BY <1>6, <3>1, <3>2, <3>3, <3>4
    <2> QED BY <1>2, <2>1, <2>2
  <1>9. PrefixesIndexed(t, m)
    BY <1>7, <1>8 DEF PrefixesIndexed
  <1> QED BY <1>9 DEF t, m
Bases(spelling) ==
  {base \in BasesOf(spelling) : parseParameterizedIndex(base, spelling) # NoMember}
OldIndex(map, base) == IF base \in DOMAIN map THEN map[base] ELSE EmptyIndex
Held(index, node) == IF node \in DOMAIN index THEN index[node] ELSE NoSymbol

LEMMA BasesAre ==
  ASSUME NEW spelling \in Seq(Characters)
  PROVE  /\ Bases(spelling) \subseteq Seq(Characters) \ {<<>>}
         /\ \A base \in Seq(Characters) \ {<<>>} :
              parseParameterizedIndex(base, spelling) # NoMember => base \in Bases(spelling)
  <1>1. PICK l \in Nat : l = Len(spelling)
    BY LenProperties
  <1>2. ASSUME NEW base \in BasesOf(spelling) PROVE base \in Seq(Characters) \ {<<>>}
    <2>1. PICK n \in Nat : n >= 1 /\ n <= l - 1 /\ base = SubSeq(spelling, 1, n)
      BY <1>1, DigitsAssumption DEF BasesOf
    <2>2. \A i \in 1 .. n : spelling[i] \in Characters
      BY <1>1, <2>1, ElementOfSeq
    <2>3. SubSeq(spelling, 1, n) \in Seq(Characters) /\ Len(SubSeq(spelling, 1, n)) = n - 1 + 1
      BY <2>1, <2>2, SubSeqProperties
    <2>4. PICK u : u = SubSeq(spelling, 1, n)
      OBVIOUS
    <2>5. u # <<>>
      <3>1. Len(u) >= 1
        BY <2>1, <2>3, <2>4
      <3>2. Len(<<>>) = 0
        BY EmptySeq
      <3> QED BY <3>1, <3>2
    <2> QED BY <2>1, <2>3, <2>4, <2>5
  <1>3. ASSUME NEW base \in Seq(Characters) \ {<<>>},
               parseParameterizedIndex(base, spelling) # NoMember
        PROVE  base \in BasesOf(spelling)
    <2>1. PICK n \in Numbers : n = parseParameterizedIndex(base, spelling)
      BY <1>3, ParseRange
    <2>2. spelling = base \o Decimal[n]
      BY <2>1, ParseIs
    <2>3. PICK t \in Seq(Characters) : t = Decimal[n] /\ t # <<>> /\ Len(t) \in Nat /\ Len(t) > 0 /\ Len(t) <= MaxDigits
      BY <2>1, DecimalOfNumber
    <2>4. Len(base \o t) = Len(base) + Len(t) /\ SubSeq(base \o t, 1, Len(base)) = base
      BY <2>3, ConcatParts
    <2>5. PICK b \in Nat : b = Len(base) /\ b > 0
      BY EmptySeq
    <2>6. l = b + Len(t) /\ SubSeq(spelling, 1, b) = base
      BY <1>1, <2>2, <2>3, <2>4, <2>5
    <2>7. b >= l - MaxDigits /\ b <= l - 1 /\ MaxDigits \in Nat
      BY <2>3, <2>5, <2>6, DigitsAssumption
    <2>8. b \in (IF l > MaxDigits THEN l - MaxDigits .. l - 1 ELSE 1 .. l - 1)
      BY <1>1, <2>5, <2>7
    <2> QED BY <1>1, <2>6, <2>8 DEF BasesOf
  <1> QED BY <1>2, <1>3 DEF Bases

(* What the trie of a base holds at a node, or would hold *)
LEMMA HeldIs ==
  ASSUME NEW syms, Distinct(syms), NEW map, MembersIndexed(syms, map),
         NEW base \in Seq(Characters) \ {<<>>}, NEW node
  PROVE  /\ Held(OldIndex(map, base), node) = Earliest(Through(syms, base, node))
         /\ Through(syms, base, node) \subseteq Nat \ {0}
         /\ Through(syms, base, node) \subseteq DOMAIN syms
         /\ node \in DOMAIN OldIndex(map, base) =>
              Through(syms, base, node) # {} \/ node = <<Bits, 0>>
  <1>1. syms \in Seq(Declarations)
    BY DEF Distinct
  <1>2. Through(syms, base, node) \subseteq Nat \ {0} /\ Through(syms, base, node) \subseteq DOMAIN syms
    BY <1>1, LenProperties DEF Through
  <1>3. CASE base \in DOMAIN map /\ node \in DOMAIN map[base]
    BY <1>2, <1>3 DEF MembersIndexed, Held, OldIndex
  <1>4. CASE ~(base \in DOMAIN map /\ node \in DOMAIN map[base])
    <2>1. Through(syms, base, node) = {}
      BY <1>4 DEF MembersIndexed, Through
    <2>2. Held(OldIndex(map, base), node) = NoSymbol
      BY <1>4 DEF Held, OldIndex, EmptyIndex
    <2>3. node \in DOMAIN OldIndex(map, base) => node = <<Bits, 0>>
      BY <1>4 DEF OldIndex, EmptyIndex
    <2> QED BY <1>2, <2>1, <2>2, <2>3, EarliestIs
  <1> QED BY <1>3, <1>4

LEMMA ThroughAdded ==
  ASSUME NEW syms \in Seq(Declarations), NEW d \in Declarations, NEW base, NEW node
  PROVE  Through(Append(syms, d), base, node) =
           Through(syms, base, node) \cup
             (IF MemberOf(base, d) # NoMember /\ node \in Path(MemberOf(base, d))
              THEN {Len(syms) + 1} ELSE {})
  <1> DEFINE t == Append(syms, d)
  <1>1. /\ Len(syms) + 1 \in DOMAIN t
        /\ \A i \in DOMAIN syms : i \in DOMAIN t /\ t[i] = syms[i]
        /\ t[Len(syms) + 1] = d
        /\ \A i \in DOMAIN t : i \in DOMAIN syms \/ i = Len(syms) + 1
    BY Added
  <1> HIDE DEF t
  <1>2. Through(t, base, node) =
           Through(syms, base, node) \cup
             (IF MemberOf(base, d) # NoMember /\ node \in Path(MemberOf(base, d))
              THEN {Len(syms) + 1} ELSE {})
    BY <1>1 DEF Through
  <1> QED BY <1>2 DEF t

LEMMA MembersKept ==
  ASSUME NEW syms, Distinct(syms), NEW d \in Declarations, NEW map,
         MembersIndexed(syms, map), d.count = 0
  PROVE  MembersIndexed(Append(syms, d), map)
  <1>1. syms \in Seq(Declarations)
    BY DEF Distinct
  <1> DEFINE t == Append(syms, d)
  <1>2. /\ \A i \in DOMAIN syms : i \in DOMAIN t /\ t[i] = syms[i]
        /\ t[Len(syms) + 1] = d
        /\ \A i \in DOMAIN t : i \in DOMAIN syms \/ i = Len(syms) + 1
    BY <1>1, Added
  <1>3. \A base : MemberOf(base, d) = NoMember
    BY DEF MemberOf
  <1>4. ASSUME NEW base, NEW node PROVE Through(t, base, node) = Through(syms, base, node)
    <2>1. Through(t, base, node) =
            Through(syms, base, node) \cup
              (IF MemberOf(base, d) # NoMember /\ node \in Path(MemberOf(base, d))
               THEN {Len(syms) + 1} ELSE {})
      BY <1>1, ThroughAdded
    <2> QED BY <1>3, <2>1
  <1> HIDE DEF t
  <1>5. MembersIndexed(t, map)
    BY <1>2, <1>3, <1>4 DEF MembersIndexed
  <1> QED BY <1>5 DEF t

LEMMA MembersAdded ==
  ASSUME NEW syms, Distinct(syms), NEW d \in Declarations, NEW map,
         MembersIndexed(syms, map), d.count # 0
  PROVE  MembersIndexed(Append(syms, d),
                        indexMemberSpelling(map, IndexedSpelling(d), Len(syms) + 1))
  <1> DEFINE t == Append(syms, d)
             spelling == IndexedSpelling(d)
             m == indexMemberSpelling(map, spelling, Len(syms) + 1)
  <1>1. syms \in Seq(Declarations)
    BY DEF Distinct
  <1>2. PICK id : id = Len(syms) + 1
    OBVIOUS
  <1>3. /\ \A i \in DOMAIN syms : i \in DOMAIN t /\ t[i] = syms[i] /\ i # id
        /\ t[id] = d /\ id \in Nat \ {0}
        /\ \A i \in DOMAIN t : i \in DOMAIN syms \/ i = id
    BY <1>1, <1>2, Added
  <1>4. spelling \in Seq(Characters)
    BY IndexedSpellingIs
  <1>5. \A base : MemberOf(base, d) = parseParameterizedIndex(base, spelling)
    BY DEF MemberOf
  <1>6. /\ Bases(spelling) \subseteq Seq(Characters) \ {<<>>}
        /\ \A base \in Seq(Characters) \ {<<>>} :
             MemberOf(base, d) # NoMember => base \in Bases(spelling)
        /\ \A base \in Bases(spelling) : MemberOf(base, d) \in Numbers
    <2>1. \A base \in Bases(spelling) : MemberOf(base, d) # NoMember
      BY <1>5 DEF Bases
    <2> HIDE DEF spelling
    <2> QED BY <1>4, <1>5, <2>1, BasesAre, MemberRange
  <1>7. m = [base \in DOMAIN map \cup Bases(spelling) |->
               IF base \in Bases(spelling)
               THEN indexMemberNumber(OldIndex(map, base), MemberOf(base, d), id) ELSE map[base]]
    BY <1>2, <1>5, Zenon DEF indexMemberSpelling, Bases, OldIndex
  <1>8. \A base, node :
          Through(t, base, node) =
            Through(syms, base, node) \cup
              (IF MemberOf(base, d) # NoMember /\ node \in Path(MemberOf(base, d)) THEN {id} ELSE {})
    BY <1>1, <1>2, ThroughAdded
  <1> HIDE DEF t, spelling, m
  <1>9. DOMAIN map \subseteq Seq(Characters) \ {<<>>}
    BY DEF MembersIndexed
  <1>10. DOMAIN m = DOMAIN map \cup Bases(spelling) /\ DOMAIN m \subseteq Seq(Characters) \ {<<>>}
    BY <1>6, <1>7, <1>9
  <1>11. ASSUME NEW base \in Bases(spelling)
         PROVE  /\ MemberOf(base, d) # NoMember /\ MemberOf(base, d) \in Numbers
                /\ DOMAIN m[base] = DOMAIN OldIndex(map, base) \cup Path(MemberOf(base, d))
                /\ \A node \in DOMAIN m[base] :
                     m[base][node] = IF node \in Path(MemberOf(base, d))
                                     THEN Kept(OldIndex(map, base), node, id)
                                     ELSE OldIndex(map, base)[node]
    <2>1. m[base] = indexMemberNumber(OldIndex(map, base), MemberOf(base, d), id)
      BY <1>7
    <2>2. MemberOf(base, d) # NoMember /\ MemberOf(base, d) \in Numbers
      BY <1>5, <1>6 DEF Bases
    <2> QED BY <2>1, <2>2 DEF indexMemberNumber
  <1>12. ASSUME NEW base \in DOMAIN m, NEW node \in DOMAIN m[base]
         PROVE  Through(t, base, node) # {} /\ m[base][node] = Earliest(Through(t, base, node))
    <2>1. base \in Seq(Characters) \ {<<>>}
      BY <1>10
    <2>2. CASE base \in Bases(spelling)
      <3>1. PICK n \in Numbers : n = MemberOf(base, d) /\ n # NoMember
        BY <1>11, <2>2
      <3>2. PICK was : was = Through(syms, base, node)
        OBVIOUS
      <3>3. PICK old : old = OldIndex(map, base)
        OBVIOUS
      <3>4. /\ Held(old, node) = Earliest(was) /\ was \subseteq Nat \ {0}
            /\ node \in DOMAIN old => was # {} \/ node = <<Bits, 0>>
        BY <2>1, <3>2, <3>3, HeldIs
      <3>5. CASE node \in Path(n)
        <4>1. m[base][node] = Kept(old, node, id)
          BY <1>11, <2>2, <3>1, <3>3, <3>5
        <4>2. Kept(old, node, id) = keepEarliest(Earliest(was), id)
          BY <3>4 DEF Kept, Held
        <4>3. Earliest({id}) = id /\ id # NoSymbol /\ {id} \subseteq Nat \ {0}
          BY <1>3, EarliestUnique DEF NoSymbol
        <4>4. keepEarliest(Earliest(was), id) = Earliest(was \cup {id})
          BY <3>4, <4>3, EarliestOfBoth
        <4>5. Through(t, base, node) = was \cup {id}
          BY <1>8, <3>1, <3>2, <3>5
        <4> QED BY <4>1, <4>2, <4>4, <4>5
      <3>6. CASE node \notin Path(n)
        <4>1. node \in DOMAIN old /\ m[base][node] = old[node]
          BY <1>11, <2>2, <3>1, <3>3, <3>6
        <4>2. node # <<Bits, 0>>
          BY <3>1, <3>6, PathFacts
        <4>3. Through(t, base, node) = was
          BY <1>8, <3>1, <3>2, <3>6
        <4> QED BY <3>4, <4>1, <4>2, <4>3 DEF Held
      <3> QED BY <3>5, <3>6
    <2>3. CASE base \notin Bases(spelling)
      <3>1. base \in DOMAIN map /\ m[base] = map[base] /\ MemberOf(base, d) = NoMember
        BY <1>6, <1>7, <1>10, <2>1, <2>3
      <3>2. Through(t, base, node) = Through(syms, base, node)
        BY <1>8, <3>1
      <3> QED BY <3>1, <3>2 DEF MembersIndexed
    <2> QED BY <2>2, <2>3
  <1>13. ASSUME NEW i \in DOMAIN t, NEW base \in Seq(Characters) \ {<<>>},
                MemberOf(base, t[i]) # NoMember
         PROVE  base \in DOMAIN m /\ Path(MemberOf(base, t[i])) \subseteq DOMAIN m[base]
    <2>1. CASE i = id
      <3>1. base \in Bases(spelling) /\ t[i] = d
        BY <1>3, <1>6, <1>13, <2>1
      <3> QED BY <1>10, <1>11, <3>1
    <2>2. CASE i \in DOMAIN syms
      <3>1. t[i] = syms[i]
        BY <1>3, <2>2
      <3>2. base \in DOMAIN map /\ Path(MemberOf(base, t[i])) \subseteq DOMAIN map[base]
        BY <1>13, <2>2, <3>1 DEF MembersIndexed
      <3>3. CASE base \in Bases(spelling)
        BY <1>10, <1>11, <3>2, <3>3 DEF OldIndex
      <3>4. CASE base \notin Bases(spelling)
        BY <1>7, <1>10, <3>2, <3>4
      <3> QED BY <3>3, <3>4
    <2> QED BY <1>3, <2>1, <2>2
  <1>14. MembersIndexed(t, m)
    BY <1>10, <1>12, <1>13 DEF MembersIndexed
  <1> QED BY <1>14 DEF t, m, spelling
-----------------------------------------------------------------------------
(* The steps *)

LEMMA NewIs ==
  ASSUME IndexInv, NEW d \in Declarations
  PROVE  exactSymbol(d) = NoSymbol <=> New(symbols, d)
  <1> DEFINE same == {i \in DOMAIN symbols : SameName(symbols[i], d)}
  <1>1. Distinct(symbols)
    BY DEF IndexInv
  <1>2. exactSymbol(d) = Earliest(same)
    BY ExactIs DEF Again
  <1>3. same \subseteq Nat \ {0}
    BY <1>1, SymbolIs
  <1>4. Earliest(same) = NoSymbol <=> same = {}
    <2> HIDE DEF same
    <2> QED BY <1>3, EarliestIs
  <1>5. same = {} <=> New(symbols, d)
    BY DEF New
  <1> HIDE DEF same
  <1> QED BY <1>2, <1>4, <1>5

LEMMA InitIndexed == InitIndexes => IndexInv
  <1> SUFFICES ASSUME InitIndexes PROVE IndexInv
    OBVIOUS
  <1>1. /\ symbols = <<>> /\ ordinary_exact = <<>> /\ parameterized_exact = <<>>
        /\ member_prefixes = <<>> /\ parameterized_prefixes = [prefix \in {<<>>} |-> NoSymbol]
    BY DEF InitIndexes, Init
  <1>2. <<>> \in Seq(Declarations) /\ \A i : i \notin DOMAIN <<>>
    BY EmptySeq
  <1>3. Distinct(symbols)
    BY <1>1, <1>2 DEF Distinct
  <1>4. OrdinaryIndexed(symbols, ordinary_exact) /\ GroupsIndexed(symbols, parameterized_exact)
    BY <1>1, <1>2 DEF OrdinaryIndexed, GroupsIndexed
  <1>5. PrefixesIndexed(symbols, parameterized_prefixes)
    BY <1>1, <1>2 DEF PrefixesIndexed
  <1>6. MembersIndexed(symbols, member_prefixes)
    BY <1>1, <1>2 DEF MembersIndexed
  <1> QED BY <1>3, <1>4, <1>5, <1>6 DEF IndexInv

LEMMA AddNewIndexed ==
  ASSUME IndexInv, NEW d \in Declarations, AddNew(d)
  PROVE  IndexInv'
  <1>1. /\ Distinct(symbols) /\ OrdinaryIndexed(symbols, ordinary_exact)
        /\ GroupsIndexed(symbols, parameterized_exact)
        /\ PrefixesIndexed(symbols, parameterized_prefixes)
        /\ MembersIndexed(symbols, member_prefixes)
    BY DEF IndexInv
  <1>2. New(symbols, d)
    BY NewIs DEF AddNew
  <1>3. symbols' = Append(symbols, d) /\ indexSymbol(d, Len(symbols) + 1)
    BY DEF AddNew
  <1>4. Distinct(symbols')
    BY <1>1, <1>2, <1>3, DistinctAdded
  <1>5. CASE d.count = Ordinary
    <2>1. /\ ordinary_exact' = emplace(ordinary_exact, d.name, Len(symbols) + 1)
          /\ member_prefixes' = indexMemberSpelling(member_prefixes, d.name, Len(symbols) + 1)
          /\ parameterized_exact' = parameterized_exact
          /\ parameterized_prefixes' = parameterized_prefixes
      BY <1>3, <1>5 DEF indexSymbol
    <2>2. OrdinaryIndexed(symbols', ordinary_exact')
      BY <1>1, <1>2, <1>3, <1>5, <2>1, OrdinaryAdded
    <2>3. GroupsIndexed(symbols', parameterized_exact')
      BY <1>1, <1>3, <1>5, <2>1, GroupsKept
    <2>4. PrefixesIndexed(symbols', parameterized_prefixes')
      BY <1>1, <1>3, <1>5, <2>1, PrefixesKept
    <2>5. MembersIndexed(symbols', member_prefixes')
      <3>1. d.count # 0 /\ IndexedSpelling(d) = d.name
        BY <1>5 DEF Ordinary, IndexedSpelling
      <3> QED BY <1>1, <1>3, <2>1, <3>1, MembersAdded
    <2> QED BY <1>4, <2>2, <2>3, <2>4, <2>5 DEF IndexInv
  <1>6. CASE d.count # Ordinary
    <2>1. /\ parameterized_exact' = emplace(parameterized_exact, d.name, Len(symbols) + 1)
          /\ parameterized_prefixes' =
               indexParameterizedBase(parameterized_prefixes, d.name, Len(symbols) + 1)
          /\ member_prefixes' =
               IF d.count = 0 THEN member_prefixes
               ELSE indexMemberSpelling(member_prefixes, First(d.name), Len(symbols) + 1)
          /\ ordinary_exact' = ordinary_exact
      BY <1>3, <1>6 DEF indexSymbol
    <2>2. OrdinaryIndexed(symbols', ordinary_exact')
      BY <1>1, <1>3, <1>6, <2>1, OrdinaryKept
    <2>3. GroupsIndexed(symbols', parameterized_exact')
      BY <1>1, <1>2, <1>3, <1>6, <2>1, GroupsAdded
    <2>4. PrefixesIndexed(symbols', parameterized_prefixes')
      BY <1>1, <1>2, <1>3, <1>6, <2>1, PrefixesAdded
    <2>5. MembersIndexed(symbols', member_prefixes')
      <3>1. CASE d.count = 0
        BY <1>1, <1>3, <2>1, <3>1, MembersKept
      <3>2. CASE d.count # 0
        <4>1. IndexedSpelling(d) = First(d.name)
          BY <1>6 DEF IndexedSpelling
        <4> QED BY <1>1, <1>3, <2>1, <3>2, <4>1, MembersAdded
      <3> QED BY <3>1, <3>2
    <2> QED BY <1>4, <2>2, <2>3, <2>4, <2>5 DEF IndexInv
  <1> QED BY <1>5, <1>6

LEMMA AddAgainDeclares ==
  ASSUME IndexInv, NEW d \in Declarations, AddAgain(d)
  PROVE  Declare(d) /\ IndexInv'
  <1>1. Again(d) # NoSymbol /\ exactSymbol(d) = Again(d)
    BY ExactIs DEF AddAgain
  <1>2. /\ diagnostics' = IF redeclarable THEN diagnostics ELSE Diagnosed(Again(d), d)
        /\ redeclarable' = redeclarable /\ symbols' = symbols
    BY <1>1 DEF AddAgain
  <1>3. Declare(d)
    BY <1>1, <1>2 DEF Declare
  <1>4. IndexInv'
    BY DEF AddAgain, indexes, IndexInv
  <1> QED BY <1>3, <1>4

LEMMA AddNewDeclares ==
  ASSUME IndexInv, NEW d \in Declarations, AddNew(d)
  PROVE  Declare(d)
  <1> DEFINE meeting == {i \in DOMAIN symbols : Members(symbols[i]) \cap Members(d) # {}}
             overlap == overlappingSymbol(d)
  <1>1. Distinct(symbols)
    BY DEF IndexInv
  <1>2. New(symbols, d) /\ Again(d) = NoSymbol
    BY NewIs, ExactIs DEF AddNew
  <1>3. overlap = Overlapping(d)
    BY <1>2, OverlappingIs DEF New
  <1>4. overlap = Earliest(meeting)
    BY <1>3 DEF Overlapping
  <1>5. ASSUME overlap # NoSymbol PROVE symbolNameSetsOverlap(symbols[overlap], d)
    <2>1. meeting \subseteq Nat \ {0}
      BY <1>1, SymbolIs
    <2>2. overlap \in meeting
      <3> HIDE DEF meeting
      <3> QED BY <1>4, <1>5, <2>1, EarliestIs
    <2>3. /\ overlap \in DOMAIN symbols /\ symbols[overlap] \in Declarations
          /\ Members(symbols[overlap]) \cap Members(d) # {}
      BY <1>1, <2>2, SymbolIs
    <2> HIDE DEF overlap
    <2> QED BY <2>3, OverlapIs
  <1>6. diagnostics' = IF overlap # NoSymbol /\ symbolNameSetsOverlap(symbols[overlap], d)
                       THEN Diagnosed(overlap, d) ELSE diagnostics
    BY DEF AddNew
  <1>7. symbols' = Append(symbols, d) /\ redeclarable' = redeclarable
    BY DEF AddNew
  <1> HIDE DEF overlap
  <1>8. diagnostics' = IF Overlapping(d) = NoSymbol THEN diagnostics
                       ELSE Diagnosed(Overlapping(d), d)
    BY <1>3, <1>5, <1>6
  <1> QED BY <1>2, <1>7, <1>8 DEF Declare

LEMMA IndexStep ==
  IndexInv /\ [addSymbol]_<<vars, indexes>> => IndexInv' /\ [Next]_vars
  <1> SUFFICES ASSUME IndexInv, [addSymbol]_<<vars, indexes>> PROVE IndexInv' /\ [Next]_vars
    OBVIOUS
  <1>1. CASE addSymbol
    <2>1. PICK d \in Declarations : AddAgain(d) \/ AddNew(d)
      BY <1>1 DEF addSymbol
    <2>2. Declare(d) /\ IndexInv'
      BY <2>1, AddAgainDeclares, AddNewDeclares, AddNewIndexed
    <2> QED BY <2>1, <2>2 DEF Next
  <1>2. CASE UNCHANGED <<vars, indexes>>
    BY <1>2 DEF vars, indexes, IndexInv
  <1> QED BY <1>1, <1>2

(* The indexes hold what was declared: each exact name its symbol, each     *)
(* prefix of a group's base a node, and each trie of member numbers the     *)
(* earliest symbol at every node (lines 650 to 729).                        *)
THEOREM NamesAreIndexed == SpecIndexes => []IndexInv
  <1>1. IndexInv /\ [addSymbol]_<<vars, indexes>> => IndexInv'
    BY IndexStep
  <1> QED BY <1>1, InitIndexed, PTL DEF SpecIndexes

(* Whatever is declared, the tries decide as the sets of names do: the same *)
(* declarations are kept, and the same ones are diagnosed against the same  *)
(* earlier symbol (lines 665 to 729).                                       *)
THEOREM TriesImplementNames == SpecIndexes => ImplementsNameSpace
  <1>1. InitIndexes => Init
    BY DEF InitIndexes
  <1>2. IndexInv /\ [addSymbol]_<<vars, indexes>> => [Next]_vars
    BY IndexStep
  <1> QED BY <1>1, <1>2, NamesAreIndexed, PTL DEF SpecIndexes, ImplementsNameSpace, Spec
-----------------------------------------------------------------------------
(* What lookup() finds *)

LEMMA GroupNamesFinite ==
  ASSUME IndexInv
  PROVE  IsFiniteSet(DOMAIN parameterized_exact)
  <1>1. Distinct(symbols) /\ GroupsIndexed(symbols, parameterized_exact)
    BY DEF IndexInv
  <1>2. Len(symbols) \in Nat /\ DOMAIN symbols = 1 .. Len(symbols)
    BY <1>1, SymbolIs
  <1>3. IsFiniteSet(DOMAIN symbols)
    BY <1>2, FS_Interval
  <1> DEFINE f == [name \in DOMAIN parameterized_exact |-> parameterized_exact[name]]
  <1>4. f \in [DOMAIN parameterized_exact -> DOMAIN symbols]
    BY <1>1 DEF GroupsIndexed
  <1>5. \A a, b \in DOMAIN parameterized_exact : f[a] = f[b] => a = b
    BY <1>1 DEF GroupsIndexed
  <1>6. f \in Injection(DOMAIN parameterized_exact, DOMAIN symbols)
    BY <1>4, <1>5 DEF Injection, IsInjective
  <1> QED BY <1>3, <1>6, FS_Injection DEF ExistsInjection

LEMMA LookupIs ==
  ASSUME IndexInv, NEW name \in Seq(Characters)
  PROVE  lookup(name) = Find(name)
  <1> DEFINE named == {i \in DOMAIN symbols : symbols[i].count = Ordinary /\ symbols[i].name = name}
  <1>1. /\ Distinct(symbols) /\ OrdinaryIndexed(symbols, ordinary_exact)
        /\ GroupsIndexed(symbols, parameterized_exact)
    BY DEF IndexInv
  <1>2. /\ DOMAIN symbols \subseteq Nat \ {0} /\ NoSymbol = 0
        /\ \A i \in DOMAIN symbols : symbols[i] \in Declarations
    BY <1>1, SymbolIs DEF NoSymbol
  <1>3. Find(name) = IF named # {} THEN Earliest(named)
                     ELSE Earliest({i \in DOMAIN symbols : name \in Members(symbols[i])})
    BY DEF Find
  <1>4. CASE name \in DOMAIN ordinary_exact
    <2>1. PICK i : i = ordinary_exact[name]
      OBVIOUS
    <2>2. i \in named
      BY <1>1, <1>4, <2>1 DEF OrdinaryIndexed
    <2>3. \A j \in named : j = i
      BY <1>1, <2>2 DEF Distinct, SameName
    <2>4. named \subseteq Nat \ {0}
      BY <1>2
    <2> HIDE DEF named
    <2>5. \A j \in named : i <= j
      BY <2>2, <2>3, <2>4
    <2>6. Earliest(named) = i
      BY <2>2, <2>4, <2>5, EarliestUnique
    <2> QED BY <1>3, <1>4, <2>1, <2>2, <2>6 DEF lookup
  <1>5. CASE name \notin DOMAIN ordinary_exact
    <2>1. named = {}
      BY <1>1, <1>5 DEF OrdinaryIndexed
    <2>2. ASSUME NEW i \in DOMAIN symbols, name \in Members(symbols[i])
          PROVE  symbols[i].count # Ordinary
      <3>1. CASE symbols[i].count = Ordinary
        <4>1. Members(symbols[i]) = {symbols[i].name}
          BY <1>2, <3>1, OneMember
        <4> QED BY <2>1, <2>2, <3>1, <4>1
      <3> QED BY <3>1
    <2>3. {i \in DOMAIN symbols : name \in Members(symbols[i])} = Containing(name)
      BY <2>2 DEF Containing
    <2>4. Find(name) = Earliest(Containing(name))
      BY <1>3, <2>1, <2>3
    <2>5. CASE Cardinality(DOMAIN parameterized_exact) = 1
      <3>1. PICK n : DOMAIN parameterized_exact = {n}
        BY <2>5, GroupNamesFinite, FS_Singleton
      <3>2. PICK group : group = parameterized_exact[n]
        OBVIOUS
      <3>3. (CHOOSE m \in DOMAIN parameterized_exact : TRUE) = n
        <4>1. n \in DOMAIN parameterized_exact
          BY <3>1
        <4>2. (CHOOSE m \in DOMAIN parameterized_exact : TRUE) \in DOMAIN parameterized_exact
          BY <4>1, Zenon
        <4> QED BY <3>1, <4>2
      <3>4. lookup(name) = IF HasMember(group, name) THEN group ELSE NoSymbol
        <4> DEFINE chosen == CHOOSE m \in DOMAIN parameterized_exact : TRUE
        <4>1. lookup(name) = IF HasMember(parameterized_exact[chosen], name)
                             THEN parameterized_exact[chosen] ELSE NoSymbol
          BY <1>5, <2>5, Zenon DEF lookup
        <4>2. chosen = n
          BY <3>3
        <4> HIDE DEF chosen
        <4>3. parameterized_exact[chosen] = group
          BY <3>2, <4>2
        <4> QED BY <4>1, <4>3
      <3>5. group \in DOMAIN symbols /\ symbols[group].name = n /\ symbols[group].count # Ordinary
        BY <1>1, <3>1, <3>2 DEF GroupsIndexed
      <3>6. ASSUME NEW i \in Containing(name) PROVE i = group
        <4>1. i \in DOMAIN symbols /\ symbols[i].count # Ordinary
          BY DEF Containing
        <4>2. symbols[i].name = n
          BY <1>1, <3>1, <4>1 DEF GroupsIndexed
        <4>3. SameName(symbols[i], symbols[group])
          BY <3>5, <4>1, <4>2 DEF SameName
        <4> QED BY <1>1, <3>5, <4>1, <4>3 DEF Distinct
      <3>7. HasMember(group, name) <=> group \in Containing(name)
        BY <1>1, <3>5, HasMemberIs DEF Containing
      <3>8. Containing(name) \subseteq Nat \ {0}
        BY <1>2 DEF Containing
      <3>9. CASE HasMember(group, name)
        <4>1. \A j \in Containing(name) : group <= j
          BY <3>6, <3>7, <3>8, <3>9
        <4>2. Earliest(Containing(name)) = group
          BY <3>7, <3>8, <3>9, <4>1, EarliestUnique
        <4> QED BY <2>4, <3>4, <3>9, <4>2
      <3>10. CASE ~HasMember(group, name)
        <4>1. Containing(name) = {}
          BY <3>6, <3>7, <3>10
        <4>2. Earliest(Containing(name)) = NoSymbol
          BY <3>8, <4>1, EarliestIs
        <4> QED BY <2>4, <3>4, <3>10, <4>2
      <3> QED BY <3>9, <3>10
    <2>6. CASE Cardinality(DOMAIN parameterized_exact) # 1
      <3>1. lookup(name) = parameterizedContaining(parameterized_prefixes, name)
        BY <1>5, <2>6 DEF lookup
      <3> QED BY <2>4, <3>1, ContainingIs
    <2> QED BY <2>5, <2>6
  <1> QED BY <1>4, <1>5

(* lookup() gives what the declarations name: an ordinary name before a     *)
(* group, the earliest of several groups, and the shortcut of a scope with  *)
(* a single group gives the same (lines 325 to 352).                        *)
THEOREM LookupsAreEarliest == SpecIndexes => []LookupIsEarliest
  <1>1. IndexInv => LookupIsEarliest
    BY LookupIs, SpellingsAssumption DEF LookupIsEarliest
  <1> QED BY <1>1, NamesAreIndexed, PTL

-----------------------------------------------------------------------------
(* A scope without diagnostics *)

Apart(syms) == \A i, j \in DOMAIN syms : Members(syms[i]) \cap Members(syms[j]) # {} => i = j
Reports(syms) == [previous : DOMAIN syms, declaration : Declarations]

ReportInv ==
  /\ redeclarable \in BOOLEAN
  /\ symbols \in Seq(Declarations)
  /\ diagnostics \in Seq(Reports(symbols))
  /\ diagnostics = <<>> => Apart(symbols)

LEMMA ReportStep == ReportInv /\ [Next]_vars => ReportInv'
  <1> SUFFICES ASSUME ReportInv, [Next]_vars PROVE ReportInv'
    OBVIOUS
  <1>1. /\ redeclarable \in BOOLEAN /\ symbols \in Seq(Declarations)
        /\ diagnostics \in Seq(Reports(symbols)) /\ (diagnostics = <<>> => Apart(symbols))
    BY DEF ReportInv
  <1>2. DOMAIN symbols \subseteq Nat \ {0}
    BY <1>1, LenProperties
  <1>3. ASSUME NEW d \in Declarations, NEW S, S \subseteq DOMAIN symbols, Earliest(S) # NoSymbol
        PROVE  Diagnosed(Earliest(S), d) \in Seq(Reports(symbols)) /\ Diagnosed(Earliest(S), d) # <<>>
    <2>1. S \subseteq Nat \ {0}
      BY <1>2, <1>3
    <2>2. Earliest(S) \in DOMAIN symbols
      BY <1>3, <2>1, EarliestIs
    <2>3. [previous |-> Earliest(S), declaration |-> d] \in Reports(symbols)
      BY <2>2 DEF Reports
    <2> QED BY <1>1, <2>3, AppendProperties DEF Diagnosed
  <1>4. CASE UNCHANGED vars
    BY <1>1, <1>4 DEF vars, ReportInv
  <1>5. ASSUME NEW d \in Declarations, Declare(d) PROVE ReportInv'
    <2> DEFINE same == {i \in DOMAIN symbols : SameName(symbols[i], d)}
               meeting == {i \in DOMAIN symbols : Members(symbols[i]) \cap Members(d) # {}}
    <2>1. redeclarable' \in BOOLEAN
      BY <1>1, <1>5 DEF Declare
    <2>2. same \subseteq DOMAIN symbols /\ meeting \subseteq DOMAIN symbols
      OBVIOUS
    <2>3. Again(d) = Earliest(same) /\ Overlapping(d) = Earliest(meeting)
      BY DEF Again, Overlapping
    <2> HIDE DEF same
    <2>4. CASE Again(d) # NoSymbol
      <3>1. symbols' = symbols
        BY <1>5, <2>4 DEF Declare
      <3>2. diagnostics' = diagnostics \/ diagnostics' = Diagnosed(Again(d), d)
        BY <1>5, <2>4 DEF Declare
      <3>3. Diagnosed(Again(d), d) \in Seq(Reports(symbols)) /\ Diagnosed(Again(d), d) # <<>>
        BY <1>3, <2>2, <2>3, <2>4
      <3> QED BY <1>1, <2>1, <3>1, <3>2, <3>3 DEF ReportInv
    <2>5. CASE Again(d) = NoSymbol
      <3>1. symbols' = Append(symbols, d)
        BY <1>5, <2>5 DEF Declare
      <3>2. diagnostics' = IF Overlapping(d) = NoSymbol THEN diagnostics
                           ELSE Diagnosed(Overlapping(d), d)
        BY <1>5, <2>5 DEF Declare
      <3>3. symbols' \in Seq(Declarations)
        BY <1>1, <3>1, AppendProperties
      <3>4. Reports(symbols) \subseteq Reports(symbols')
        <4>1. DOMAIN symbols \subseteq DOMAIN symbols'
          BY <1>1, <3>1, Added
        <4> QED BY <4>1 DEF Reports
      <3>5. CASE Overlapping(d) # NoSymbol
        <4>1. diagnostics' \in Seq(Reports(symbols)) /\ diagnostics' # <<>>
          <5> HIDE DEF meeting
          <5> QED BY <1>3, <2>2, <2>3, <3>2, <3>5
        <4>2. diagnostics' \in Seq(Reports(symbols'))
          BY <3>4, <4>1, SeqMonotonic
        <4> QED BY <2>1, <3>3, <4>1, <4>2 DEF ReportInv
      <3>6. CASE Overlapping(d) = NoSymbol
        <4>1. diagnostics' = diagnostics
          BY <3>2, <3>6
        <4>2. diagnostics' \in Seq(Reports(symbols'))
          BY <1>1, <3>4, <4>1, SeqMonotonic
        <4>3. meeting = {}
          <5>1. meeting \subseteq Nat \ {0}
            BY <1>2
          <5> HIDE DEF meeting
          <5> QED BY <2>3, <3>6, <5>1, EarliestIs
        <4>4. ASSUME Apart(symbols) PROVE Apart(symbols')
          <5> DEFINE t == Append(symbols, d)
          <5>1. /\ \A i \in DOMAIN symbols : t[i] = symbols[i]
                /\ t[Len(symbols) + 1] = d
                /\ \A i \in DOMAIN t : i \in DOMAIN symbols \/ i = Len(symbols) + 1
            BY <1>1, Added
          <5> HIDE DEF t
          <5>2. ASSUME NEW i \in DOMAIN t, NEW j \in DOMAIN t, Members(t[i]) \cap Members(t[j]) # {}
                PROVE  i = j
            <6>1. CASE i \in DOMAIN symbols /\ j \in DOMAIN symbols
              BY <4>4, <5>1, <5>2, <6>1 DEF Apart
            <6>2. CASE i \in DOMAIN symbols /\ j = Len(symbols) + 1
              BY <4>3, <5>1, <5>2, <6>2
            <6>3. CASE i = Len(symbols) + 1 /\ j \in DOMAIN symbols
              BY <4>3, <5>1, <5>2, <6>3
            <6>4. CASE i = Len(symbols) + 1 /\ j = Len(symbols) + 1
              BY <6>4
            <6> QED BY <5>1, <6>1, <6>2, <6>3, <6>4
          <5>3. Apart(t)
            BY <5>2 DEF Apart
          <5> QED BY <3>1, <5>3 DEF t
        <4> QED BY <1>1, <2>1, <3>3, <4>1, <4>2, <4>4 DEF ReportInv
      <3> QED BY <3>5, <3>6
    <2> QED BY <2>4, <2>5
  <1> QED BY <1>4, <1>5 DEF Next

LEMMA ReportsInit == Init => ReportInv
  <1> SUFFICES ASSUME Init PROVE ReportInv
    OBVIOUS
  <1>1. redeclarable \in BOOLEAN /\ symbols = <<>> /\ diagnostics = <<>>
    BY DEF Init
  <1>2. \A i : i \notin DOMAIN <<>>
    OBVIOUS
  <1>3. <<>> \in Seq(Declarations) /\ <<>> \in Seq(Reports(<<>>))
    BY EmptySeq
  <1> QED BY <1>1, <1>2, <1>3 DEF ReportInv, Apart

LEMMA ReportsHold == Spec => []ReportInv
  BY ReportsInit, ReportStep, PTL DEF Spec

(* A scope without a diagnostic has no spelling that two of its symbols     *)
(* take, so that lookup() has no choice to make: no overlap of a name with  *)
(* a group or of two groups goes unreported (lines 665 to 729).             *)
THEOREM SilenceIsUnambiguous == SpecIndexes => []SilentIsUnambiguous
  <1>1. ReportInv => SilentIsUnambiguous
    BY DEF ReportInv, SilentIsUnambiguous, Apart
  <1> QED BY <1>1, TriesImplementNames, ReportsHold, PTL DEF ImplementsNameSpace

(* What the variables of a scope hold: every index names symbols that are   *)
(* there, and every diagnostic one that came before.                        *)
THEOREM ScopeIsTyped == SpecIndexes => []TypeOK
  <1>1. ASSUME IndexInv, ReportInv PROVE TypeOK
    <2>1. /\ Distinct(symbols) /\ OrdinaryIndexed(symbols, ordinary_exact)
          /\ GroupsIndexed(symbols, parameterized_exact)
          /\ PrefixesIndexed(symbols, parameterized_prefixes)
          /\ MembersIndexed(symbols, member_prefixes)
      BY <1>1 DEF IndexInv
    <2>2. \A i \in DOMAIN diagnostics : /\ diagnostics[i].previous \in DOMAIN symbols
                                        /\ diagnostics[i].declaration \in Declarations
      <3>1. diagnostics \in Seq(Reports(symbols))
        BY <1>1 DEF ReportInv
      <3>2. \A i \in DOMAIN diagnostics : diagnostics[i] \in Reports(symbols)
        BY <3>1, LenProperties, ElementOfSeq
      <3> QED BY <3>2 DEF Reports
    <2>3. \A name \in DOMAIN ordinary_exact :
            symbols[ordinary_exact[name]] = [name |-> name, count |-> Ordinary]
      <3>1. ASSUME NEW s \in Declarations PROVE s = [name |-> s.name, count |-> s.count]
        BY DEF Declarations
      <3>2. \A i \in DOMAIN symbols : symbols[i] \in Declarations
        BY <2>1, SymbolIs
      <3> QED BY <2>1, <3>1, <3>2 DEF OrdinaryIndexed
    <2>4. \A name \in DOMAIN parameterized_exact : symbols[parameterized_exact[name]].name = name
      BY <2>1 DEF GroupsIndexed
    <2>5. \A prefix \in DOMAIN parameterized_prefixes :
            parameterized_prefixes[prefix] \in DOMAIN symbols \cup {NoSymbol}
      BY <2>1 DEF PrefixesIndexed
    <2>6. ASSUME NEW base \in DOMAIN member_prefixes, NEW node \in DOMAIN member_prefixes[base]
          PROVE  member_prefixes[base][node] \in (DOMAIN symbols \cup {NoSymbol}) \ {NoSymbol}
      <3>1. Through(symbols, base, node) \subseteq Nat \ {0}
        BY <2>1, SymbolIs DEF Through
      <3>2. member_prefixes[base][node] \in Through(symbols, base, node)
        BY <2>1, <3>1, EarliestIs DEF MembersIndexed
      <3> QED BY <3>1, <3>2 DEF Through, NoSymbol
    <2> QED BY <1>1, <2>2, <2>3, <2>4, <2>5, <2>6 DEF TypeOK, ReportInv
  <1>2. IndexInv /\ ReportInv => TypeOK
    BY <1>1
  <1> QED BY <1>2, NamesAreIndexed, TriesImplementNames, ReportsHold, PTL DEF ImplementsNameSpace
=============================================================================
