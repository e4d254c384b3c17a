------------------------ MODULE ModulePipelineProofs ------------------------
(***************************************************************************)
(* Proofs about ModulePipeline, for every set of modules and whatever the   *)
(* other parts of the system compute, if they keep the assumptions there.   *)
(***************************************************************************)
EXTENDS ModulePipeline, SequenceTheorems, FiniteSetTheorems, WellFoundedInduction, TLAPS

-----------------------------------------------------------------------------
(* Sequences that are put together from pieces *)

(* A set of numbers that is not empty has a least one. *)
LEMMA LeastNumber ==
  ASSUME NEW T, T \subseteq Nat, T # {}
  PROVE  \E x \in T : \A y \in T : x <= y
  <1>1. PICK x \in T : \A y \in T : ~ (<<y, x>> \in OpToRel(<, Nat))
    BY NatLessThanWellFounded, WFMin
  <1>2. ASSUME NEW y \in T, y < x PROVE FALSE
    <2>1. <<y, x>> \in Nat \X Nat /\ <<y, x>>[1] < <<y, x>>[2]
      BY <1>2
    <2>2. <<y, x>> \in OpToRel(<, Nat)
      BY <2>1, Zenon DEF OpToRel
    <2> QED BY <1>1, <2>2
  <1>3. \A y \in T : y \in Nat /\ x \in Nat
    OBVIOUS
  <1> QED BY <1>2, <1>3

(* The pieces up to each one, put together *)
Joins(g, seqs, n) == g = [i \in 1 .. n |-> IF i = 1 THEN seqs[i] ELSE g[i - 1] \o seqs[i]]

LEMMA JoinsExist ==
  ASSUME NEW seqs, NEW n \in Nat
  PROVE  \E g : Joins(g, seqs, n)
  <1> SUFFICES ASSUME {m \in Nat : ~ \E g : Joins(g, seqs, m)} # {} PROVE FALSE
    OBVIOUS
  <1>1. PICK m \in Nat : /\ ~ \E g : Joins(g, seqs, m)
                         /\ \A k \in Nat : (~ \E g : Joins(g, seqs, k)) => m <= k
    BY LeastNumber
  <1>2. CASE m \in {0, 1}
    <2> DEFINE g == [i \in 1 .. m |-> seqs[i]]
    <2>1. Joins(g, seqs, m)
      BY <1>2 DEF Joins
    <2> QED BY <1>1, <2>1
  <1>3. CASE m > 1
    <2>1. PICK h : Joins(h, seqs, m - 1)
      <3>1. m - 1 \in Nat /\ ~ (m <= m - 1)
        BY <1>3
      <3> QED BY <3>1, <1>1
    <2> DEFINE g == [i \in 1 .. m |-> IF i < m THEN h[i] ELSE h[m - 1] \o seqs[m]]
    <2>2. ASSUME NEW i \in 1 .. m
          PROVE  g[i] = IF i = 1 THEN seqs[i] ELSE g[i - 1] \o seqs[i]
      <3>1. CASE i < m
        <4>1. i \in 1 .. m - 1 /\ g[i] = h[i]
          BY <3>1, <1>3
        <4>2. h[i] = IF i = 1 THEN seqs[i] ELSE h[i - 1] \o seqs[i]
          BY <4>1, <2>1 DEF Joins
        <4>3. i # 1 => g[i - 1] = h[i - 1]
          BY <3>1, <1>3
        <4> QED BY <4>1, <4>2, <4>3
      <3>2. CASE i = m
        <4>1. m \in 1 .. m /\ ~ (m < m) /\ m - 1 \in 1 .. m /\ m - 1 < m /\ i # 1
          BY <3>2, <1>3
        <4>2. g[m] = h[m - 1] \o seqs[m] /\ g[m - 1] = h[m - 1]
          BY <4>1
        <4> QED BY <4>1, <4>2, <3>2
      <3> QED BY <3>1, <3>2
    <2>3. Joins(g, seqs, m)
      <3> HIDE DEF g
      <3>1. g = [i \in 1 .. m |-> g[i]]
        BY DEF g
      <3> QED BY <3>1, <2>2 DEF Joins
    <2> QED BY <1>1, <2>3
  <1> QED BY <1>2, <1>3

LEMMA FlattenIsJoined ==
  ASSUME NEW seqs, NEW g, Joins(g, seqs, Len(seqs)), Len(seqs) # 0
  PROVE  \E h : Joins(h, seqs, Len(seqs)) /\ FlattenSeq(seqs) = h[Len(seqs)]
  BY Zenon DEF FlattenSeq, Joins

LEMMA FlattenUnfolds ==
  ASSUME NEW S, NEW seqs \in Seq(S), seqs # <<>>
  PROVE  \E h : Joins(h, seqs, Len(seqs)) /\ FlattenSeq(seqs) = h[Len(seqs)]
  <1>1. Len(seqs) \in Nat /\ Len(seqs) # 0
    BY EmptySeq, LenProperties
  <1>2. PICK g : Joins(g, seqs, Len(seqs))
    BY <1>1, JoinsExist
  <1> QED BY <1>1, <1>2, FlattenIsJoined

LEMMA FlattenEmpty == FlattenSeq(<<>>) = <<>>
  BY DEF FlattenSeq

(* What is put together does not depend on the pieces that come later *)
LEMMA JoinsAgree ==
  ASSUME NEW s, NEW t, NEW m \in Nat, NEW n \in Nat, m <= n, NEW g, NEW h,
         \A i \in 1 .. m : s[i] = t[i], Joins(g, s, m), Joins(h, t, n),
         NEW j \in 1 .. m
  PROVE  g[j] = h[j]
  <1> DEFINE T == {i \in 1 .. m : g[i] # h[i]}
  <1> SUFFICES ASSUME T # {} PROVE FALSE
    OBVIOUS
  <1>1. PICK i \in T : \A k \in T : i <= k
    <2>1. T \subseteq Nat
      OBVIOUS
    <2> HIDE DEF T
    <2> QED BY <2>1, LeastNumber
  <1>2. g[i] = (IF i = 1 THEN s[i] ELSE g[i - 1] \o s[i])
    BY DEF Joins
  <1>3. h[i] = (IF i = 1 THEN t[i] ELSE h[i - 1] \o t[i])
    <2>1. i \in 1 .. n
      OBVIOUS
    <2> QED BY <2>1 DEF Joins
  <1>4. i # 1 => g[i - 1] = h[i - 1]
    <2>1. i # 1 => i - 1 \in 1 .. m /\ ~ (i <= i - 1)
      OBVIOUS
    <2> QED BY <2>1, <1>1
  <1> QED BY <1>1, <1>2, <1>3, <1>4

LEMMA FlattenAppend ==
  ASSUME NEW S, NEW seqs \in Seq(Seq(S)), NEW x \in Seq(S)
  PROVE  FlattenSeq(Append(seqs, x)) = FlattenSeq(seqs) \o x
  <1> DEFINE n == Len(seqs)
             all == Append(seqs, x)
  <1>1. /\ n \in Nat /\ all \in Seq(Seq(S)) /\ all # <<>> /\ Len(all) = n + 1
        /\ \A i \in 1 .. n : all[i] = seqs[i]
        /\ all[n + 1] = x
    BY AppendProperties, LenProperties
  <1> HIDE DEF n, all
  <1>2. PICK h : Joins(h, all, n + 1) /\ FlattenSeq(all) = h[n + 1]
    <2>1. \E h : Joins(h, all, Len(all)) /\ FlattenSeq(all) = h[Len(all)]
      BY <1>1, FlattenUnfolds
    <2> QED BY <1>1, <2>1
  <1>3. h[n + 1] = IF n + 1 = 1 THEN x ELSE h[n] \o x
    <2>1. n + 1 \in 1 .. n + 1 /\ (n + 1) - 1 = n
      BY <1>1
    <2>2. h[n + 1] = IF n + 1 = 1 THEN all[n + 1] ELSE h[(n + 1) - 1] \o all[n + 1]
      BY <2>1, <1>2 DEF Joins
    <2> QED BY <2>1, <2>2, <1>1
  <1>4. CASE seqs = <<>>
    <2>1. n = 0 /\ FlattenSeq(seqs) = <<>> /\ <<>> \o x = x
      BY <1>4, FlattenEmpty, ConcatEmptySeq DEF n
    <2> QED BY <2>1, <1>2, <1>3 DEF all
  <1>5. CASE seqs # <<>>
    <2>1. PICK g : Joins(g, seqs, n) /\ FlattenSeq(seqs) = g[n]
      BY <1>5, FlattenUnfolds DEF n
    <2>2. n # 0
      BY <1>5, EmptySeq DEF n
    <2>3. g[n] = h[n]
      <3>1. n + 1 \in Nat /\ n <= n + 1 /\ \A i \in 1 .. n : seqs[i] = all[i]
        BY <1>1
      <3>2. n \in Nat /\ n \in 1 .. n /\ Joins(g, seqs, n) /\ Joins(h, all, n + 1)
        BY <1>1, <1>2, <2>1, <2>2
      <3> QED BY <3>1, <3>2, JoinsAgree
    <2> QED BY <1>1, <1>2, <1>3, <2>1, <2>2, <2>3 DEF all
  <1> QED BY <1>4, <1>5

(* Induction: a set of sequences that has the empty one and with each one   *)
(* those that it is extended to has all of them.                            *)
LEMMA SequenceInduction ==
  ASSUME NEW S, NEW G, <<>> \in G, \A s \in G \cap Seq(S), x \in S : Append(s, x) \in G
  PROVE  \A s \in Seq(S) : s \in G
  <1> DEFINE T == {n \in Nat : \E s \in Seq(S) : Len(s) = n /\ s \notin G}
  <1>1. ASSUME T # {} PROVE FALSE
    <2>1. PICK n \in T : \A k \in T : n <= k
      <3>1. T \subseteq Nat
        OBVIOUS
      <3> HIDE DEF T
      <3> QED BY <3>1, <1>1, LeastNumber
    <2>2. PICK s \in Seq(S) : Len(s) = n /\ s \notin G
      OBVIOUS
    <2>3. PICK t \in Seq(S), x \in S : s = Append(t, x)
      BY <2>2, SequenceEmptyOrAppend
    <2>4. Len(t) \in Nat /\ Len(t) + 1 = n
      BY <2>2, <2>3, AppendProperties, LenProperties
    <2>5. Len(t) \notin T
      <3>1. n \in Nat /\ ~ (n <= Len(t))
        BY <2>4
      <3> HIDE DEF T
      <3> QED BY <3>1, <2>1
    <2>6. t \in G
      BY <2>4, <2>5
    <2> QED BY <2>2, <2>3, <2>6
  <1> QED BY <1>1, LenProperties

LEMMA FlattenType ==
  ASSUME NEW S, NEW seqs \in Seq(Seq(S))
  PROVE  FlattenSeq(seqs) \in Seq(S)
  <1> DEFINE G == {s \in Seq(Seq(S)) : FlattenSeq(s) \in Seq(S)}
  <1>1. <<>> \in G
    BY FlattenEmpty, EmptySeq
  <1>2. ASSUME NEW s \in G \cap Seq(Seq(S)), NEW x \in Seq(S)
        PROVE  Append(s, x) \in G
    BY FlattenAppend, AppendProperties, ConcatProperties
  <1> HIDE DEF G
  <1>3. \A s \in Seq(Seq(S)) : s \in G
    BY <1>1, <1>2, SequenceInduction
  <1> QED BY <1>3 DEF G

(* Nothing comes of pieces if each is empty, and only then. *)
LEMMA FlattenNothing ==
  ASSUME NEW S, NEW seqs \in Seq(Seq(S))
  PROVE  FlattenSeq(seqs) = <<>> <=> \A i \in 1 .. Len(seqs) : seqs[i] = <<>>
  <1> DEFINE G == {s \in Seq(Seq(S)) :
                    FlattenSeq(s) = <<>> <=> \A i \in 1 .. Len(s) : s[i] = <<>>}
  <1>1. <<>> \in G
    BY FlattenEmpty, EmptySeq
  <1>2. ASSUME NEW s \in G \cap Seq(Seq(S)), NEW x \in Seq(S)
        PROVE  Append(s, x) \in G
    <2> DEFINE all == Append(s, x)
    <2>1. /\ all \in Seq(Seq(S)) /\ Len(s) \in Nat /\ Len(all) = Len(s) + 1
          /\ \A i \in 1 .. Len(s) : all[i] = s[i]
          /\ all[Len(s) + 1] = x
      BY AppendProperties, LenProperties
    <2>2. FlattenSeq(all) = <<>> <=> FlattenSeq(s) = <<>> /\ x = <<>>
      BY FlattenAppend, FlattenType, ConcatEqualIffEmpty
    <2> HIDE DEF all
    <2>3. (\A i \in 1 .. Len(all) : all[i] = <<>>)
            <=> (\A i \in 1 .. Len(s) : s[i] = <<>>) /\ x = <<>>
      <3>1. 1 .. Len(all) = (1 .. Len(s)) \cup {Len(s) + 1}
        BY <2>1
      <3> QED BY <3>1, <2>1
    <2> QED BY <2>1, <2>2, <2>3 DEF all
  <1> HIDE DEF G
  <1>3. \A s \in Seq(Seq(S)) : s \in G
    BY <1>1, <1>2, SequenceInduction
  <1> QED BY <1>3 DEF G

(* Of pieces of one element or none, which element comes from which piece *)
Picks(at, seqs, all) ==
  /\ at \in [1 .. Len(all) -> 1 .. Len(seqs)]
  /\ \A j \in 1 .. Len(all) : seqs[at[j]] = <<all[j]>>
  /\ \A j, k \in 1 .. Len(all) : j < k => at[j] < at[k]
  /\ \A i \in 1 .. Len(seqs) : seqs[i] = <<>> \/ \E j \in 1 .. Len(all) : at[j] = i

LEMMA PicksOneMore ==
  ASSUME NEW S, NEW s \in Seq(Seq(S)), NEW f \in Seq(S), NEW e \in S, NEW at, Picks(at, s, f)
  PROVE  \E to : Picks(to, Append(s, <<e>>), f \o <<e>>)
  <1> DEFINE t == Append(s, <<e>>)
             g == f \o <<e>>
             n == Len(f)
             to == [j \in 1 .. n + 1 |-> IF j <= n THEN at[j] ELSE Len(s) + 1]
  <1>1. /\ t \in Seq(Seq(S)) /\ Len(t) = Len(s) + 1 /\ Len(s) \in Nat
        /\ \A i \in 1 .. Len(s) : t[i] = s[i]
        /\ t[Len(s) + 1] = <<e>>
    <2>1. <<e>> \in Seq(S)
      OBVIOUS
    <2> QED BY <2>1, AppendProperties, LenProperties
  <1>2. /\ g \in Seq(S) /\ n \in Nat /\ Len(g) = n + 1 /\ g[n + 1] = e
        /\ \A j \in 1 .. n : g[j] = f[j]
    <2>1. g = Append(f, e)
      BY AppendIsConcat
    <2> QED BY <2>1, AppendProperties, LenProperties
  <1> HIDE DEF t, g, n
  <1>3. /\ at \in [1 .. n -> 1 .. Len(s)]
        /\ \A j \in 1 .. n : s[at[j]] = <<f[j]>>
        /\ \A j, k \in 1 .. n : j < k => at[j] < at[k]
        /\ \A i \in 1 .. Len(s) : s[i] = <<>> \/ \E j \in 1 .. n : at[j] = i
    BY DEF Picks, n
  <1>4. /\ \A j \in 1 .. n : j \in 1 .. n + 1 /\ to[j] = at[j]
        /\ n + 1 \in 1 .. n + 1 /\ to[n + 1] = Len(s) + 1
        /\ \A j \in 1 .. n + 1 : j \in 1 .. n \/ j = n + 1
    BY <1>2
  <1>5. to \in [1 .. n + 1 -> 1 .. Len(t)]
    BY <1>1, <1>2, <1>3, SMTT(30)
  <1> HIDE DEF to
  <1>6. \A j \in 1 .. n + 1 : t[to[j]] = <<g[j]>>
    <2>1. ASSUME NEW j \in 1 .. n PROVE t[to[j]] = <<g[j]>>
      <3>1. to[j] = at[j] /\ at[j] \in 1 .. Len(s)
        BY <1>3, <1>4
      <3>2. t[at[j]] = s[at[j]]
        BY <1>1, <3>1
      <3>3. s[at[j]] = <<f[j]>> /\ g[j] = f[j]
        BY <1>2, <1>3
      <3> QED BY <3>1, <3>2, <3>3
    <2>2. t[to[n + 1]] = <<g[n + 1]>>
      BY <1>1, <1>2, <1>4
    <2> QED BY <1>4, <2>1, <2>2, Zenon
  <1>7. ASSUME NEW j \in 1 .. n + 1, NEW k \in 1 .. n + 1, j < k PROVE to[j] < to[k]
    <2>1. j \in 1 .. n /\ to[j] = at[j] /\ at[j] \in 1 .. Len(s)
      <3>1. j \in 1 .. n
        BY <1>2, <1>7
      <3> QED BY <3>1, <1>3, <1>4
    <2>2. CASE k \in 1 .. n
      BY <2>1, <2>2, <1>3, <1>4, <1>7
    <2>3. CASE k = n + 1
      BY <2>1, <2>3, <1>1, <1>4
    <2> QED BY <2>2, <2>3, <1>4
  <1>8. ASSUME NEW i \in 1 .. Len(t), t[i] # <<>> PROVE \E j \in 1 .. n + 1 : to[j] = i
    <2>1. CASE i = Len(s) + 1
      BY <2>1, <1>4
    <2>2. CASE i # Len(s) + 1
      <3>1. i \in 1 .. Len(s) /\ s[i] # <<>>
        <4>1. i \in 1 .. Len(s)
          BY <2>2, <1>1
        <4> QED BY <4>1, <1>1, <1>8
      <3>2. PICK j \in 1 .. n : at[j] = i
        BY <3>1, <1>3
      <3> QED BY <3>2, <1>4
    <2> QED BY <2>1, <2>2
  <1>9. Picks(to, t, g)
    BY <1>2, <1>5, <1>6, <1>7, <1>8 DEF Picks
  <1> QED BY <1>9 DEF t, g

LEMMA PicksNoMore ==
  ASSUME NEW S, NEW s \in Seq(Seq(S)), NEW f \in Seq(S), NEW at, Picks(at, s, f)
  PROVE  Picks(at, Append(s, <<>>), f)
  <1> DEFINE t == Append(s, <<>>)
  <1>1. /\ t \in Seq(Seq(S)) /\ Len(t) = Len(s) + 1 /\ Len(s) \in Nat
        /\ \A i \in 1 .. Len(s) : t[i] = s[i]
        /\ t[Len(s) + 1] = <<>>
    <2>1. <<>> \in Seq(S)
      OBVIOUS
    <2> QED BY <2>1, AppendProperties, LenProperties
  <1> HIDE DEF t
  <1>2. /\ at \in [1 .. Len(f) -> 1 .. Len(s)]
        /\ \A j \in 1 .. Len(f) : s[at[j]] = <<f[j]>>
        /\ \A j, k \in 1 .. Len(f) : j < k => at[j] < at[k]
        /\ \A i \in 1 .. Len(s) : s[i] = <<>> \/ \E j \in 1 .. Len(f) : at[j] = i
    BY DEF Picks
  <1>3. 1 .. Len(s) \subseteq 1 .. Len(t) /\ 1 .. Len(t) = (1 .. Len(s)) \cup {Len(s) + 1}
    BY <1>1
  <1>4. at \in [1 .. Len(f) -> 1 .. Len(t)]
    BY <1>2, <1>3
  <1>5. \A j \in 1 .. Len(f) : t[at[j]] = <<f[j]>>
    BY <1>1, <1>2
  <1>6. \A i \in 1 .. Len(t) : t[i] = <<>> \/ \E j \in 1 .. Len(f) : at[j] = i
    BY <1>1, <1>2, <1>3
  <1>7. Picks(at, t, f)
    BY <1>2, <1>4, <1>5, <1>6 DEF Picks
  <1> QED BY <1>7 DEF t

LEMMA OnlyElement ==
  ASSUME NEW S, NEW x \in Seq(S), x # <<>>, Len(x) <= 1
  PROVE  \E e \in S : x = <<e>>
  <1>1. Len(x) = 1
    <2> DEFINE n == Len(x)
    <2>1. n \in Nat /\ n # 0 /\ n <= 1
      BY EmptySeq
    <2> HIDE DEF n
    <2>2. n = 1
      BY <2>1
    <2> QED BY <2>2 DEF n
  <1>2. x[1] \in S
    <2>1. 1 \in 1 .. Len(x)
      BY <1>1
    <2> QED BY <2>1, ElementOfSeq
  <1>3. <<x[1]>> \in Seq(S) /\ Len(<<x[1]>>) = 1 /\ <<x[1]>>[1] = x[1]
    BY <1>2
  <1>4. x = <<x[1]>>
    BY <1>1, <1>3, SeqEqual
  <1> QED BY <1>2, <1>4

LEMMA FlattenPicks ==
  ASSUME NEW S, NEW seqs \in Seq(Seq(S)), \A i \in 1 .. Len(seqs) : Len(seqs[i]) <= 1
  PROVE  \E at : Picks(at, seqs, FlattenSeq(seqs))
  <1> DEFINE G == {s \in Seq(Seq(S)) : (\A i \in 1 .. Len(s) : Len(s[i]) <= 1) =>
                                         \E at : Picks(at, s, FlattenSeq(s))}
  <1>1. <<>> \in G
    <2>1. Picks(<<>>, <<>>, <<>>)
      BY DEF Picks
    <2> QED BY <2>1, FlattenEmpty
  <1>2. ASSUME NEW s \in G \cap Seq(Seq(S)), NEW x \in Seq(S)
        PROVE  Append(s, x) \in G
    <2>1. /\ Append(s, x) \in Seq(Seq(S)) /\ Len(s) \in Nat
          /\ Len(Append(s, x)) = Len(s) + 1
          /\ \A i \in 1 .. Len(s) : Append(s, x)[i] = s[i]
          /\ Append(s, x)[Len(s) + 1] = x
      BY AppendProperties, LenProperties
    <2> SUFFICES ASSUME \A i \in 1 .. Len(Append(s, x)) : Len(Append(s, x)[i]) <= 1
                 PROVE  \E at : Picks(at, Append(s, x), FlattenSeq(Append(s, x)))
      BY <2>1
    <2>2. \A i \in 1 .. Len(s) : Len(s[i]) <= 1
      BY <2>1
    <2>3. PICK at : Picks(at, s, FlattenSeq(s))
      BY <2>2
    <2>4. FlattenSeq(s) \in Seq(S) /\ FlattenSeq(Append(s, x)) = FlattenSeq(s) \o x
      BY FlattenType, FlattenAppend
    <2>5. CASE x = <<>>
      <3>1. FlattenSeq(Append(s, x)) = FlattenSeq(s)
        BY <2>4, <2>5, ConcatEmptySeq
      <3> QED BY <2>3, <2>4, <2>5, <3>1, PicksNoMore
    <2>6. CASE x # <<>>
      <3>1. Len(x) <= 1
        <4>1. Len(s) + 1 \in 1 .. Len(Append(s, x))
          BY <2>1
        <4> QED BY <4>1, <2>1
      <3>2. PICK e \in S : x = <<e>>
        BY <3>1, <2>6, OnlyElement
      <3> QED BY <2>3, <2>4, <3>2, PicksOneMore
    <2> QED BY <2>5, <2>6
  <1> HIDE DEF G
  <1>3. \A s \in Seq(Seq(S)) : s \in G
    BY <1>1, <1>2, SequenceInduction
  <1> QED BY <1>3 DEF G

(* What is made of each element of a sequence is a sequence. *)
LEMMA MappedSeq ==
  ASSUME NEW S, NEW s \in Seq(S), NEW T, NEW g, g = [i \in DOMAIN s |-> g[i]],
         \A i \in DOMAIN s : g[i] \in T
  PROVE  g \in Seq(T) /\ Len(g) = Len(s) /\ DOMAIN g = 1 .. Len(s)
  <1>1. Len(s) \in Nat /\ DOMAIN s = 1 .. Len(s)
    BY LenProperties
  <1>2. g \in [1 .. Len(s) -> T]
    BY <1>1
  <1>3. g \in Seq(T)
    BY <1>1, <1>2, SeqDef
  <1> QED BY <1>1, <1>2, <1>3, LenProperties

LEMMA ContainsLeft ==
  ASSUME NEW S, NEW s \in Seq(S), NEW t \in Seq(S), NEW e, Contains(s, e)
  PROVE  Contains(s \o t, e)
  <1>1. PICK k \in 1 .. Len(s) : s[k] = e
    BY DEF Contains
  <1>2. /\ Len(s) \in Nat /\ Len(t) \in Nat /\ Len(s \o t) = Len(s) + Len(t)
        /\ \A j \in 1 .. Len(s) + Len(t) :
             (s \o t)[j] = IF j <= Len(s) THEN s[j] ELSE t[j - Len(s)]
    BY ConcatProperties, LenProperties
  <1>3. k \in 1 .. Len(s) + Len(t) /\ k <= Len(s)
    BY <1>1, <1>2
  <1> QED BY <1>1, <1>2, <1>3 DEF Contains

LEMMA ContainsRight ==
  ASSUME NEW S, NEW s \in Seq(S), NEW t \in Seq(S), NEW e, Contains(t, e)
  PROVE  Contains(s \o t, e)
  <1>1. PICK k \in 1 .. Len(t) : t[k] = e
    BY DEF Contains
  <1>2. /\ Len(s) \in Nat /\ Len(t) \in Nat /\ Len(s \o t) = Len(s) + Len(t)
        /\ \A j \in 1 .. Len(s) + Len(t) :
             (s \o t)[j] = IF j <= Len(s) THEN s[j] ELSE t[j - Len(s)]
    BY ConcatProperties, LenProperties
  <1>3. /\ Len(s) + k \in 1 .. Len(s) + Len(t) /\ ~ (Len(s) + k <= Len(s))
        /\ (Len(s) + k) - Len(s) = k
    BY <1>1, <1>2
  <1> QED BY <1>1, <1>2, <1>3 DEF Contains

LEMMA FlattenContains ==
  ASSUME NEW S, NEW seqs \in Seq(Seq(S)), NEW e, NEW i \in 1 .. Len(seqs), Contains(seqs[i], e)
  PROVE  Contains(FlattenSeq(seqs), e)
  <1> DEFINE G == {s \in Seq(Seq(S)) :
                    (\E k \in 1 .. Len(s) : Contains(s[k], e)) => Contains(FlattenSeq(s), e)}
  <1>1. <<>> \in G
    BY FlattenEmpty, EmptySeq
  <1>2. ASSUME NEW s \in G \cap Seq(Seq(S)), NEW x \in Seq(S)
        PROVE  Append(s, x) \in G
    <2>1. /\ Append(s, x) \in Seq(Seq(S)) /\ Len(s) \in Nat
          /\ Len(Append(s, x)) = Len(s) + 1
          /\ \A k \in 1 .. Len(s) : Append(s, x)[k] = s[k]
          /\ Append(s, x)[Len(s) + 1] = x
      BY AppendProperties, LenProperties
    <2>2. FlattenSeq(s) \in Seq(S) /\ FlattenSeq(Append(s, x)) = FlattenSeq(s) \o x
      BY FlattenType, FlattenAppend
    <2> SUFFICES ASSUME NEW k \in 1 .. Len(Append(s, x)), Contains(Append(s, x)[k], e)
                 PROVE  Contains(FlattenSeq(s) \o x, e)
      BY <2>1, <2>2
    <2>3. CASE k \in 1 .. Len(s)
      <3>1. Contains(FlattenSeq(s), e)
        BY <2>1, <2>3
      <3> QED BY <3>1, <2>2, ContainsLeft
    <2>4. CASE k = Len(s) + 1
      <3>1. Contains(x, e)
        BY <2>1, <2>4
      <3> QED BY <3>1, <2>2, ContainsRight
    <2> QED BY <2>1, <2>3, <2>4
  <1> HIDE DEF G
  <1>3. \A s \in Seq(Seq(S)) : s \in G
    BY <1>1, <1>2, SequenceInduction
  <1> QED BY <1>3 DEF G

(* The elements of a sequence at some of its indices, in order *)
Selects(at, s, chosen, all) ==
  /\ at \in [1 .. Len(all) -> 1 .. Len(s)]
  /\ \A j \in 1 .. Len(all) : at[j] \in chosen /\ all[j] = s[at[j]]
  /\ \A j, k \in 1 .. Len(all) : j < k => at[j] < at[k]
  /\ \A i \in (1 .. Len(s)) \cap chosen : \E j \in 1 .. Len(all) : at[j] = i

LEMMA SomeSelected ==
  ASSUME NEW S, NEW s \in Seq(S), NEW chosen, NEW g,
         g = [i \in DOMAIN s |-> IF i \in chosen THEN <<s[i]>> ELSE <<>>]
  PROVE  /\ FlattenSeq(g) \in Seq(S)
         /\ \E at : Selects(at, s, chosen, FlattenSeq(g))
  <1>1. Len(s) \in Nat /\ DOMAIN s = 1 .. Len(s)
    BY LenProperties
  <1>2. \A i \in DOMAIN s : s[i] \in S /\ g[i] = IF i \in chosen THEN <<s[i]>> ELSE <<>>
    BY <1>1, ElementOfSeq
  <1>3. g \in Seq(Seq(S)) /\ Len(g) = Len(s)
    <2>1. \A i \in DOMAIN s : g[i] \in Seq(S)
      BY <1>2
    <2>2. g = [i \in DOMAIN s |-> g[i]]
      OBVIOUS
    <2> QED BY ONLY <2>1, <2>2, s \in Seq(S), MappedSeq
  <1>4. FlattenSeq(g) \in Seq(S)
    BY <1>3, FlattenType
  <1>5. PICK at : Picks(at, g, FlattenSeq(g))
    <2>1. \A i \in 1 .. Len(g) : Len(g[i]) <= 1
      <3> SUFFICES ASSUME NEW i \in 1 .. Len(g) PROVE Len(g[i]) <= 1
        OBVIOUS
      <3>1. g[i] = <<s[i]>> \/ g[i] = <<>>
        BY <1>1, <1>2, <1>3
      <3>2. Len(<<s[i]>>) = 1 /\ Len(<<>>) = 0
        OBVIOUS
      <3> QED BY <3>1, <3>2
    <2> QED BY <2>1, <1>3, FlattenPicks
  <1> DEFINE all == FlattenSeq(g)
  <1> HIDE DEF all
  <1>6. Picks(at, g, all)
    BY <1>5 DEF all
  <1>7. at \in [1 .. Len(all) -> 1 .. Len(s)]
    BY <1>3, <1>6 DEF Picks
  <1>8. ASSUME NEW j \in 1 .. Len(all) PROVE at[j] \in chosen /\ all[j] = s[at[j]]
    <2>1. at[j] \in DOMAIN s /\ g[at[j]] = <<all[j]>>
      BY <1>1, <1>6, <1>7 DEF Picks
    <2>2. <<all[j]>> # <<>> /\ <<all[j]>>[1] = all[j] /\ <<s[at[j]]>>[1] = s[at[j]]
      OBVIOUS
    <2> QED BY <2>1, <2>2, <1>2
  <1>9. ASSUME NEW i \in (1 .. Len(s)) \cap chosen PROVE \E j \in 1 .. Len(all) : at[j] = i
    <2>1. g[i] = <<s[i]>> /\ <<s[i]>> # <<>> /\ i \in 1 .. Len(g)
      BY <1>1, <1>2, <1>3
    <2> QED BY <2>1, <1>6 DEF Picks
  <1>10. Selects(at, s, chosen, all)
    BY <1>6, <1>7, <1>8, <1>9 DEF Selects, Picks
  <1> QED BY <1>4, <1>10 DEF all

LEMMA FlattenSingletons ==
  ASSUME NEW S, NEW s \in Seq(S)
  PROVE  FlattenSeq([i \in DOMAIN s |-> <<s[i]>>]) = s
  <1> DEFINE Single(q) == [i \in DOMAIN q |-> <<q[i]>>]
             G == {q \in Seq(S) : FlattenSeq(Single(q)) = q}
  <1>1. <<>> \in G
    <2>1. Single(<<>>) = <<>>
      OBVIOUS
    <2> QED BY <2>1, FlattenEmpty, EmptySeq
  <1>2. ASSUME NEW q \in G \cap Seq(S), NEW x \in S
        PROVE  Append(q, x) \in G
    <2>1. /\ Append(q, x) \in Seq(S) /\ Len(q) \in Nat
          /\ DOMAIN q = 1 .. Len(q)
          /\ DOMAIN Append(q, x) = 1 .. Len(q) + 1
          /\ \A k \in 1 .. Len(q) : Append(q, x)[k] = q[k]
          /\ Append(q, x)[Len(q) + 1] = x
      BY AppendProperties, LenProperties
    <2>2. Single(q) \in Seq(Seq(S)) /\ Len(Single(q)) = Len(q) /\ <<x>> \in Seq(S)
      <3> DEFINE g == Single(q)
      <3>1. \A i \in DOMAIN q : q[i] \in S
        BY <2>1, ElementOfSeq
      <3>2. g = [i \in DOMAIN q |-> g[i]] /\ \A i \in DOMAIN q : g[i] \in Seq(S)
        BY <3>1
      <3> HIDE DEF g
      <3>3. g \in Seq(Seq(S)) /\ Len(g) = Len(q)
        BY <3>2, MappedSeq
      <3> QED BY <3>3 DEF g
    <2>3. Single(Append(q, x)) = Append(Single(q), <<x>>)
      <3>1. /\ DOMAIN Append(Single(q), <<x>>) = 1 .. Len(q) + 1
            /\ \A k \in 1 .. Len(q) : Append(Single(q), <<x>>)[k] = <<q[k]>>
            /\ Append(Single(q), <<x>>)[Len(q) + 1] = <<x>>
            /\ Append(Single(q), <<x>>) \in Seq(Seq(S))
        BY <2>1, <2>2, AppendProperties, LenProperties
      <3>2. \A k \in 1 .. Len(q) + 1 : Append(Single(q), <<x>>)[k] = <<Append(q, x)[k]>>
        BY <2>1, <3>1
      <3>3. Append(Single(q), <<x>>) = [k \in 1 .. Len(q) + 1 |-> Append(Single(q), <<x>>)[k]]
        BY <3>1
      <3> QED BY <2>1, <3>2, <3>3
    <2>4. FlattenSeq(Append(Single(q), <<x>>)) = FlattenSeq(Single(q)) \o <<x>>
      BY <2>2, FlattenAppend
    <2>5. FlattenSeq(Single(q)) = q
      OBVIOUS
    <2>6. q \o <<x>> = Append(q, x)
      BY AppendIsConcat
    <2> QED BY <2>1, <2>3, <2>4, <2>5, <2>6
  <1> HIDE DEF G
  <1>3. s \in G
    BY <1>1, <1>2, SequenceInduction
  <1> QED BY <1>3 DEF G

-----------------------------------------------------------------------------
(* What a function is made of *)

Fits(t, n, function, kinds) == n.function = function /\ n.node.kind \in kinds

(* The nodes of a function are those of the table, in its order. *)
LEMMA NodesSelected ==
  ASSUME NEW t, t.nodes \in Seq(Range(t.nodes)), NEW function, NEW kinds
  PROVE  /\ NodesOf(t, function, kinds) \in Seq(Range(t.nodes))
         /\ \E at : Selects(at, t.nodes,
                            {i \in DOMAIN t.nodes : Fits(t, t.nodes[i], function, kinds)},
                            NodesOf(t, function, kinds))
  <1> DEFINE chosen == {i \in DOMAIN t.nodes : Fits(t, t.nodes[i], function, kinds)}
             g == [i \in DOMAIN t.nodes |-> IF i \in chosen THEN <<t.nodes[i]>> ELSE <<>>]
  <1>1. NodesOf(t, function, kinds) = FlattenSeq(g)
    <2>1. g = [i \in DOMAIN t.nodes |->
                 IF t.nodes[i].function = function /\ t.nodes[i].node.kind \in kinds
                 THEN <<t.nodes[i]>> ELSE <<>>]
      BY DEF Fits
    <2> HIDE DEF g
    <2> QED BY <2>1 DEF NodesOf, Each, When
  <1> HIDE DEF chosen
  <1>2. /\ FlattenSeq(g) \in Seq(Range(t.nodes))
        /\ \E at : Selects(at, t.nodes, chosen, FlattenSeq(g))
    BY SomeSelected
  <1> QED BY <1>1, <1>2 DEF chosen

LEMMA KeptSelected ==
  ASSUME NEW N, NEW f, InstructionsOf(table, <<f>>) \in Seq(N)
  PROVE  /\ KeptIn(f) \in Seq(N)
         /\ \E at : Selects(at, InstructionsOf(table, <<f>>),
                            {i \in DOMAIN InstructionsOf(table, <<f>>) :
                               resolveInstruction(InstructionsOf(table, <<f>>)[i])}, KeptIn(f))
  <1> DEFINE s == InstructionsOf(table, <<f>>)
             chosen == {i \in DOMAIN s : resolveInstruction(s[i])}
             g == [i \in DOMAIN s |-> IF i \in chosen THEN <<s[i]>> ELSE <<>>]
  <1>1. KeptIn(f) = FlattenSeq(g)
    <2> HIDE DEF s
    <2>1. g = [i \in DOMAIN s |-> IF resolveInstruction(s[i]) THEN <<s[i]>> ELSE <<>>]
      OBVIOUS
    <2> HIDE DEF g
    <2> QED BY <2>1 DEF KeptIn, Each, When, s
  <1> HIDE DEF chosen, s
  <1>2. FlattenSeq(g) \in Seq(N) /\ \E at : Selects(at, s, chosen, FlattenSeq(g))
    BY SomeSelected DEF s
  <1> QED BY <1>1, <1>2 DEF chosen, s

(* Without a word about its instructions, a function keeps them all. *)
LEMMA AllKept ==
  ASSUME NEW N, NEW f, InstructionsOf(table, <<f>>) \in Seq(N),
         \A i \in DOMAIN InstructionsOf(table, <<f>>) :
           resolveInstruction(InstructionsOf(table, <<f>>)[i])
  PROVE  KeptIn(f) = InstructionsOf(table, <<f>>)
  <1> DEFINE s == InstructionsOf(table, <<f>>)
             g == [i \in DOMAIN s |-> IF resolveInstruction(s[i]) THEN <<s[i]>> ELSE <<>>]
  <1>1. KeptIn(f) = FlattenSeq(g)
    <2> HIDE DEF s
    <2> QED BY DEF KeptIn, Each, When, s
  <1>2. \A i \in DOMAIN s : resolveInstruction(s[i])
    OBVIOUS
  <1> HIDE DEF s
  <1>3. g = [i \in DOMAIN s |-> <<s[i]>>]
    BY <1>2
  <1>4. FlattenSeq([i \in DOMAIN s |-> <<s[i]>>]) = s
    BY FlattenSingletons DEF s
  <1> QED BY <1>1, <1>3, <1>4 DEF s

(* What was computed of a function stays while the phases go on. *)
LEMMA InstructionsStay ==
  ASSUME UNCHANGED <<module, table, header, storage, call_tables, signatures>>, NEW n
  PROVE  /\ resolveInstruction(n)' = resolveInstruction(n)
         /\ InstructionSays(n)' = InstructionSays(n)
  <1>1. resolveInstruction(n)' = resolveInstruction(n)
    BY DEF resolveInstruction
  <1> QED BY <1>1 DEF InstructionSays

LEMMA FunctionsStay ==
  ASSUME UNCHANGED <<module, table, header, storage, call_tables, signatures>>, NEW f
  PROVE  BodySays(f)' = BodySays(f) /\ FunctionRecord(f)' = FunctionRecord(f)
  <1> DEFINE s == InstructionsOf(table, <<f>>)
  <1>1. s' = s
    OBVIOUS
  <1> HIDE DEF s
  <1>2. BodySays(f)' = BodySays(f)
    <2>1. [i \in DOMAIN s |-> InstructionSays(s[i])]' = [i \in DOMAIN s |-> InstructionSays(s[i])]
      BY <1>1, InstructionsStay
    <2> QED BY <2>1 DEF BodySays, Each, s
  <1>3. KeptIn(f)' = KeptIn(f)
    <2>1. [i \in DOMAIN s |-> IF resolveInstruction(s[i]) THEN <<s[i]>> ELSE <<>>]'
            = [i \in DOMAIN s |-> IF resolveInstruction(s[i]) THEN <<s[i]>> ELSE <<>>]
      BY <1>1, InstructionsStay
    <2> QED BY <2>1 DEF KeptIn, Each, When, s
  <1>4. FunctionRecord(f)' = FunctionRecord(f)
    BY <1>3 DEF FunctionRecord, RecordFrom, ConfiguredFunction, BodyOf, LabelPositions
  <1> QED BY <1>2, <1>4

(* A field of a record that a function has itself, or that its parts have *)
LEMMA OwnField ==
  ASSUME NEW own, NEW parts, NEW field \in DOMAIN own
  PROVE  WithParts(own, parts)[field] = own[field]
  BY DEF WithParts

LEMMA PartsField ==
  ASSUME NEW own, NEW parts, NEW field \in DOMAIN parts, field \notin DOMAIN own
  PROVE  WithParts(own, parts)[field] = parts[field]
  BY DEF WithParts

LEMMA RecordFields ==
  ASSUME NEW f
  PROVE  LET own == ConfiguredFunction(f, RegionAt(module, f),
                                       PartsOf(module, table, signatures, f), KeptIn(f))
         IN /\ FunctionRecord(f).scope = <<f>>
            /\ FunctionRecord(f).region = RegionAt(module, f)
            /\ FunctionRecord(f).version = own.version
            /\ FunctionRecord(f).body = own.body
            /\ FunctionRecord(f).label_positions = own.label_positions
  <1> DEFINE own == ConfiguredFunction(f, RegionAt(module, f),
                                       PartsOf(module, table, signatures, f), KeptIn(f))
             parts == PartsOf(module, table, signatures, f)
  <1>1. /\ DOMAIN own = {"scope", "range", "region", "version", "target", "body",
                         "label_positions"}
        /\ own.scope = <<f>> /\ own.region = RegionAt(module, f)
    BY DEF ConfiguredFunction
  <1>2. FunctionRecord(f) = WithParts(own, parts)
    BY DEF FunctionRecord, RecordFrom
  <1> HIDE DEF own, parts
  <1>3. \A field \in DOMAIN own : FunctionRecord(f)[field] = own[field]
    BY <1>2, OwnField
  <1>4. /\ FunctionRecord(f).scope = own.scope
        /\ FunctionRecord(f).region = own.region
        /\ FunctionRecord(f).version = own.version
        /\ FunctionRecord(f).body = own.body
        /\ FunctionRecord(f).label_positions = own.label_positions
    BY <1>1, <1>3
  <1> QED BY <1>1, <1>4 DEF own

(* What the phases have found of a function's module *)
Index == CallIndex(Binding(module), RecordsIn(StorageOf(module, Binding(module))))
AsFound ==
  /\ module \in Modules
  /\ table = Binding(module) /\ Silent(module)
  /\ StorageOf(module, Binding(module)).said = <<>>
  /\ storage = RecordsIn(StorageOf(module, Binding(module)))
  /\ Index.said = <<>>
  /\ call_tables = Index.tables /\ signatures = Index.signatures
  /\ header = resolve_module_header(module)
IsFunction(f) == f \in 1 .. Len(module) /\ module[f].kind = "Function"

LEMMA ModuleIsSequence ==
  ASSUME module \in Modules
  PROVE  /\ module \in Seq(Range(module)) /\ Len(module) \in Nat
         /\ DOMAIN module = 1 .. Len(module)
  <1>1. module \in Seq(Range(module))
    BY ModulesAssumption
  <1> QED BY <1>1, LenProperties

LEMMA InstructionsAreNodes ==
  ASSUME AsFound, NEW f
  PROVE  InstructionsOf(table, <<f>>) \in Seq(Range(table.nodes))
  <1>1. table.nodes \in Seq(Range(table.nodes))
    BY BindingAssumption DEF AsFound
  <1> QED BY <1>1, NodesSelected DEF InstructionsOf

LEMMA FunctionsAreOfSequences ==
  ASSUME AsFound, NEW f, IsFunction(f)
  PROVE  FunctionIsOfSequences(module, Index, f)
  <1>1. StorageSaysSequences(module, StorageOf(module, Binding(module)))
    BY PhasesAssumption DEF AsFound
  <1>2. IndexSaysSequences(module, Index)
    BY <1>1 DEF StorageSaysSequences, AsFound, Index
  <1>3. f \in DOMAIN module /\ module[f].kind = "Function"
    BY ModuleIsSequence DEF AsFound, IsFunction
  <1> QED BY <1>2, <1>3 DEF IndexSaysSequences, AsFound

Instructions(f) == Range(InstructionsOf(table, <<f>>))

(* The provers do not know of a string that it is one *)
Words ==
  STRING \cup {"InvalidOperand", "MissingValidationContext", "InvisibleCallTarget",
               "ReadOnlyParameter", "ParameterQualifier", "PredicatedTransfer",
               "TransferWithoutCall", "LegacyInputSize"}

LEMMA StringsAreWords == ASSUME NEW s \in Seq(STRING) PROVE s \in Seq(Words)
  BY SeqMonotonic, STRING \subseteq Words DEF Words

LEMMA SequenceOfOne == ASSUME NEW S, NEW e \in S PROVE <<e>> \in Seq(S)
  OBVIOUS

LEMMA InstructionsSay ==
  ASSUME AsFound, NEW f, IsFunction(f), NEW n \in Instructions(f)
  PROVE  InstructionSays(n) \in Seq(Words)
  <1>1. CASE ~ resolveInstruction(n)
    <2>1. InstructionSays(n) = <<"InvalidOperand">>
      BY <1>1 DEF InstructionSays
    <2>2. <<"InvalidOperand">> \in Seq(Words)
      BY SequenceOfOne DEF Words
    <2> QED BY <2>1, <2>2
  <1>2. CASE resolveInstruction(n) /\ n.node.kind # "Call"
    BY <1>2 DEF InstructionSays
  <1>3. CASE resolveInstruction(n) /\ n.node.kind = "Call"
    <2>1. CallResolves(module, Binding(module), n, Index.tables)
      BY <1>3 DEF resolveInstruction, AsFound
    <2>2. CallSays(Binding(module), n, Index.signatures) \in Seq(STRING)
      BY <2>1, <1>3, FunctionsAreOfSequences
         DEF FunctionIsOfSequences, CallsSaySequences, Instructions, AsFound
    <2> QED BY <1>3, <2>2, StringsAreWords DEF InstructionSays, AsFound
  <1> QED BY <1>1, <1>2, <1>3

LEMMA BodiesSay ==
  ASSUME AsFound, NEW f, IsFunction(f)
  PROVE  /\ BodySays(f) \in Seq(Words)
         /\ BodySays(f) = <<>> => \A n \in Instructions(f) : resolveInstruction(n)
         /\ ~ Contains(BodySays(f), "ResolveException") =>
              \A n \in Instructions(f) : ~ Contains(InstructionSays(n), "ResolveException")
  <1> DEFINE s == InstructionsOf(table, <<f>>)
             g == [i \in DOMAIN s |-> InstructionSays(s[i])]
  <1>1. s \in Seq(Range(table.nodes))
    BY InstructionsAreNodes
  <1>2. \A i \in DOMAIN s : s[i] \in Instructions(f)
    BY DEF Instructions, Range
  <1>3. BodySays(f) = FlattenSeq(g)
    BY DEF BodySays, Each
  <1>4. \A n \in Instructions(f) : \E i \in DOMAIN s : n = s[i]
    BY DEF Instructions, Range
  <1> HIDE DEF s
  <1>5. g \in Seq(Seq(Words)) /\ Len(g) = Len(s) /\ DOMAIN s = 1 .. Len(s)
    <2>1. \A i \in DOMAIN s : g[i] \in Seq(Words)
      BY <1>2, InstructionsSay
    <2>2. g = [i \in DOMAIN s |-> g[i]]
      OBVIOUS
    <2> HIDE DEF g
    <2> QED BY <1>1, <2>1, <2>2, MappedSeq, LenProperties
  <1>6. \A n \in Instructions(f) : \E i \in 1 .. Len(g) : g[i] = InstructionSays(n)
    BY <1>4, <1>5
  <1> HIDE DEF g
  <1>7. BodySays(f) = <<>> => \A n \in Instructions(f) : InstructionSays(n) = <<>>
    BY <1>3, <1>5, <1>6, FlattenNothing
  <1>8. \A n : InstructionSays(n) = <<>> => resolveInstruction(n)
    BY DEF InstructionSays
  <1>9. ASSUME NEW n \in Instructions(f), Contains(InstructionSays(n), "ResolveException")
        PROVE  Contains(BodySays(f), "ResolveException")
    BY <1>3, <1>5, <1>6, <1>9, FlattenContains
  <1> QED BY <1>3, <1>5, <1>7, <1>8, <1>9, FlattenType

(* A record whose body, operands and parameters are sequences *)
OfSequences(r) ==
  /\ r.body \in Seq(Range(r.body))
  /\ r.parameter_declarations \in Seq(Range(r.parameter_declarations))
  /\ \A instruction \in Range(r.body) :
       instruction.operands \in Seq(Range(instruction.operands))

LEMMA KeptAreInstructions ==
  ASSUME AsFound, NEW f
  PROVE  /\ KeptIn(f) \in Seq(Range(table.nodes))
         /\ \A i \in DOMAIN KeptIn(f) :
              KeptIn(f)[i] \in Instructions(f) /\ resolveInstruction(KeptIn(f)[i])
  <1> DEFINE s == InstructionsOf(table, <<f>>)
             kept == KeptIn(f)
             chosen == {i \in DOMAIN s : resolveInstruction(s[i])}
  <1>1. s \in Seq(Range(table.nodes))
    BY InstructionsAreNodes
  <1>2. kept \in Seq(Range(table.nodes)) /\ \E at : Selects(at, s, chosen, kept)
    BY <1>1, KeptSelected
  <1>3. \A i \in DOMAIN s : s[i] \in Instructions(f)
    BY DEF Instructions, Range
  <1> HIDE DEF s, kept
  <1>4. \A i \in DOMAIN kept : kept[i] \in Instructions(f) /\ resolveInstruction(kept[i])
    BY <1>1, <1>2, <1>3, LenProperties DEF Selects
  <1> QED BY <1>2, <1>4 DEF kept

LEMMA RecordsAreOfSequences ==
  ASSUME AsFound, NEW f, IsFunction(f), ~ Contains(BodySays(f), "ResolveException")
  PROVE  OfSequences(FunctionRecord(f))
  <1> DEFINE parts == PartsOf(module, table, signatures, f)
             kept == KeptIn(f)
             body == BodyOf(parts, kept)
             own == ConfiguredFunction(f, RegionAt(module, f), parts, kept)
             resolved == {n \in Instructions(f) :
                            n.node.kind = "Call"
                              => CallResolves(module, Binding(module), n, Index.tables)}
  <1>1. \A n \in resolved : ~ Throws(module, Index, n)
    <2> SUFFICES ASSUME NEW n \in resolved, Throws(module, Index, n) PROVE FALSE
      OBVIOUS
    <2>1. n.node.kind = "Call" /\ resolveInstruction(n)
      BY DEF Throws, resolveInstruction, AsFound
    <2>2. Contains(InstructionSays(n), "ResolveException")
      BY <2>1 DEF InstructionSays, Throws, AsFound
    <2> QED BY <2>2, BodiesSay
  <1>2. OperandsAreSequences(module, Index, parts, resolved)
    BY <1>1, FunctionsAreOfSequences DEF FunctionIsOfSequences, Instructions, AsFound
  <1>3. kept \in Seq(Range(table.nodes)) /\ \A i \in DOMAIN kept : kept[i] \in resolved
    <2>1. \A n : resolveInstruction(n) /\ n.node.kind = "Call" =>
                   CallResolves(module, Binding(module), n, Index.tables)
      BY DEF resolveInstruction, AsFound
    <2> QED BY <2>1, KeptAreInstructions
  <1>4. /\ FunctionRecord(f).body = body
        /\ FunctionRecord(f).parameter_declarations = parts.parameter_declarations
    <2>1. FunctionRecord(f).body = own.body /\ own.body = body
      BY RecordFields DEF ConfiguredFunction
    <2>2. DOMAIN own = {"scope", "range", "region", "version", "target", "body",
                        "label_positions"}
      BY DEF ConfiguredFunction
    <2>3. FunctionRecord(f) = WithParts(own, parts)
      BY DEF FunctionRecord, RecordFrom
    <2> HIDE DEF own, parts
    <2>4. "parameter_declarations" \in DOMAIN parts
      BY <1>2 DEF OperandsAreSequences
    <2> QED BY <2>1, <2>2, <2>3, <2>4, PartsField
  <1>5. /\ DOMAIN body = DOMAIN kept
        /\ \A i \in DOMAIN kept :
             body[i].operands = OperandsIn(table, signatures, parts, kept[i])
    BY DEF BodyOf
  <1> HIDE DEF parts, kept, own, resolved, body
  <1>6. \A i \in DOMAIN kept : body[i].operands \in Seq(Range(body[i].operands))
    BY <1>2, <1>3, <1>5 DEF OperandsAreSequences, AsFound
  <1>7. body \in Seq(Range(body))
    <2>1. body = [i \in DOMAIN kept |-> body[i]]
      BY <1>5 DEF body, BodyOf
    <2>2. \A i \in DOMAIN kept : body[i] \in Range(body)
      BY <1>5 DEF Range
    <2> QED BY <1>3, <2>1, <2>2, MappedSeq
  <1>8. \A x \in Range(body) : x.operands \in Seq(Range(x.operands))
    BY <1>5, <1>6 DEF Range
  <1> QED BY <1>2, <1>4, <1>7, <1>8 DEF OfSequences, OperandsAreSequences

-----------------------------------------------------------------------------
(* What the checks of resolved functions say *)

(* What is said of each element of a sequence is nothing if it is nothing   *)
(* of any.                                                                  *)
LEMMA EachSays ==
  ASSUME NEW S, NEW s \in Seq(S), NEW W, NEW g, g = [i \in DOMAIN s |-> g[i]],
         \A i \in DOMAIN s : g[i] \in Seq(W)
  PROVE  /\ FlattenSeq(g) \in Seq(W)
         /\ FlattenSeq(g) = <<>> <=> \A i \in DOMAIN s : g[i] = <<>>
  <1>1. g \in Seq(Seq(W)) /\ Len(g) = Len(s) /\ DOMAIN s = 1 .. Len(s)
    BY MappedSeq, LenProperties
  <1> QED BY <1>1, FlattenType, FlattenNothing

LEMMA WhenSays ==
  ASSUME NEW c, NEW W, NEW word \in W
  PROVE  /\ When(c, word) \in Seq(W)
         /\ When(c, word) = <<>> <=> ~ c
  BY SequenceOfOne DEF When

LEMMA RolesSelected ==
  ASSUME NEW x, x.operands \in Seq(Range(x.operands)), NEW roles
  PROVE  /\ InRole(x, roles) \in Seq(Range(x.operands))
         /\ \E at : Selects(at, x.operands,
                            {i \in DOMAIN x.operands : x.operands[i].role \in roles},
                            InRole(x, roles))
  <1> DEFINE s == x.operands
             chosen == {i \in DOMAIN s : s[i].role \in roles}
             g == [i \in DOMAIN s |-> IF i \in chosen THEN <<s[i]>> ELSE <<>>]
  <1>1. InRole(x, roles) = FlattenSeq(g)
    <2>1. g = [i \in DOMAIN s |-> IF s[i].role \in roles THEN <<s[i]>> ELSE <<>>]
      OBVIOUS
    <2> HIDE DEF g
    <2> QED BY <2>1 DEF InRole, Each, When
  <1> HIDE DEF chosen
  <1>2. /\ FlattenSeq(g) \in Seq(Range(s))
        /\ \E at : Selects(at, s, chosen, FlattenSeq(g))
    BY SomeSelected
  <1> QED BY <1>1, <1>2 DEF chosen

LEMMA InRoles ==
  ASSUME NEW x, x.operands \in Seq(Range(x.operands)), NEW roles
  PROVE  /\ InRole(x, roles) \in Seq(Range(x.operands))
         /\ Range(InRole(x, roles)) = {o \in Range(x.operands) : o.role \in roles}
  <1> DEFINE s == x.operands
             all == InRole(x, roles)
  <1>1. /\ all \in Seq(Range(s))
        /\ \E at : Selects(at, s, {i \in DOMAIN s : s[i].role \in roles}, all)
    BY RolesSelected
  <1> HIDE DEF all
  <1>2. DOMAIN s = 1 .. Len(s) /\ DOMAIN all = 1 .. Len(all)
    BY <1>1, LenProperties
  <1>3. PICK at : Selects(at, s, {i \in DOMAIN s : s[i].role \in roles}, all)
    BY <1>1
  <1>4. ASSUME NEW o \in Range(all) PROVE o \in Range(s) /\ o.role \in roles
    <2>1. PICK j \in 1 .. Len(all) : all[j] = o
      BY <1>2 DEF Range
    <2>2. at[j] \in DOMAIN s /\ all[j] = s[at[j]] /\ s[at[j]].role \in roles
      BY <2>1, <1>2, <1>3 DEF Selects
    <2> QED BY <2>1, <2>2 DEF Range
  <1>5. ASSUME NEW o \in Range(s), o.role \in roles PROVE o \in Range(all)
    <2>1. PICK i \in DOMAIN s : s[i] = o
      BY DEF Range
    <2>2. PICK j \in 1 .. Len(all) : at[j] = i
      BY <2>1, <1>2, <1>3, <1>5 DEF Selects
    <2> QED BY <2>1, <2>2, <1>2, <1>3 DEF Range, Selects
  <1> QED BY <1>1, <1>4, <1>5 DEF all

LEMMA VisibilitySays ==
  ASSUME NEW t, NEW r, OfSequences(r)
  PROVE  /\ check_direct_call_visibility(t, r) \in Seq(Words)
         /\ check_direct_call_visibility(t, r) = <<>> =>
              \A x \in Range(r.body) : \A callee \in Range(x.operands) :
                callee.role = "Callee" =>
                  /\ callee.symbol \in DOMAIN t.symbols
                  /\ IsDeviceFunction(t.symbols[callee.symbol])
                  /\ hasPriorDeclaration(t, callee.symbol, x.node.at)
  <1> DEFINE callees(x) == InRole(x, {"Callee"})
             h(x) == [k \in DOMAIN callees(x) |-> CalleeSays(t, callees(x)[k], x.node.at)]
             s == r.body
             g == [i \in DOMAIN s |-> FlattenSeq(h(s[i]))]
  <1>1. check_direct_call_visibility(t, r) = FlattenSeq(g)
    BY DEF check_direct_call_visibility, Each
  <1>2. \A callee, at :
          /\ CalleeSays(t, callee, at) \in Seq(Words)
          /\ CalleeSays(t, callee, at) = <<>> =>
               /\ callee.symbol \in DOMAIN t.symbols
               /\ IsDeviceFunction(t.symbols[callee.symbol])
               /\ hasPriorDeclaration(t, callee.symbol, at)
    <2>1. "InvisibleCallTarget" \in Words
      BY DEF Words
    <2> QED BY <2>1, WhenSays DEF CalleeSays
  <1>3. ASSUME NEW x \in Range(s)
        PROVE  /\ FlattenSeq(h(x)) \in Seq(Words)
               /\ FlattenSeq(h(x)) = <<>> =>
                    \A callee \in Range(x.operands) :
                      callee.role = "Callee" => CalleeSays(t, callee, x.node.at) = <<>>
    <2> DEFINE q == h(x)
    <2>1. /\ callees(x) \in Seq(Range(x.operands))
          /\ Range(callees(x)) = {o \in Range(x.operands) : o.role \in {"Callee"}}
      BY InRoles DEF OfSequences
    <2>2. q = [k \in DOMAIN callees(x) |-> q[k]]
      OBVIOUS
    <2>3. \A k \in DOMAIN callees(x) :
            q[k] = CalleeSays(t, callees(x)[k], x.node.at) /\ q[k] \in Seq(Words)
      BY <1>2
    <2> HIDE DEF q, callees
    <2>4. FlattenSeq(q) \in Seq(Words)
          /\ (FlattenSeq(q) = <<>> <=> \A k \in DOMAIN callees(x) : q[k] = <<>>)
      BY <2>1, <2>2, <2>3, EachSays
    <2>5. ASSUME FlattenSeq(q) = <<>>, NEW callee \in Range(x.operands), callee.role = "Callee"
          PROVE  CalleeSays(t, callee, x.node.at) = <<>>
      <3>1. PICK k \in DOMAIN callees(x) : callees(x)[k] = callee
        BY <2>1, <2>5 DEF Range
      <3> QED BY <3>1, <2>3, <2>4, <2>5
    <2> QED BY <2>4, <2>5 DEF q
  <1>4. s \in Seq(Range(s)) /\ \A i \in DOMAIN s : s[i] \in Range(s)
    BY DEF OfSequences, Range
  <1>5. g = [i \in DOMAIN s |-> g[i]] /\ \A i \in DOMAIN s : g[i] = FlattenSeq(h(s[i]))
    OBVIOUS
  <1> HIDE DEF g, s, h, callees
  <1>6. FlattenSeq(g) \in Seq(Words) /\ (FlattenSeq(g) = <<>> <=> \A i \in DOMAIN s : g[i] = <<>>)
    <2>1. \A i \in DOMAIN s : g[i] \in Seq(Words)
      BY <1>3, <1>4, <1>5
    <2> QED BY <2>1, <1>4, <1>5, EachSays
  <1>7. ASSUME FlattenSeq(g) = <<>>, NEW x \in Range(s), NEW callee \in Range(x.operands),
               callee.role = "Callee"
        PROVE  CalleeSays(t, callee, x.node.at) = <<>>
    <2>1. PICK i \in DOMAIN s : s[i] = x
      BY DEF Range
    <2> QED BY <2>1, <1>3, <1>5, <1>6, <1>7
  <1> QED BY <1>1, <1>2, <1>6, <1>7 DEF s

LEMMA AddressesSelected ==
  ASSUME NEW t, NEW x, x.operands \in Seq(Range(x.operands))
  PROVE  parameter_address(t, x) \in Seq(Range(x.operands))
  <1> DEFINE s == x.operands
             chosen == {i \in DOMAIN s :
                          /\ Payload(x) \in {"Load", "Store"} /\ s[i].role = "Base"
                          /\ s[i].address # None /\ s[i].symbol \in DOMAIN t.symbols}
             g == [i \in DOMAIN s |-> IF i \in chosen THEN <<s[i]>> ELSE <<>>]
  <1>1. parameter_address(t, x) = FlattenSeq(g)
    <2>1. g = [i \in DOMAIN s |->
                 IF /\ Payload(x) \in {"Load", "Store"} /\ s[i].role = "Base"
                    /\ s[i].address # None /\ s[i].symbol \in DOMAIN t.symbols
                 THEN <<s[i]>> ELSE <<>>]
      OBVIOUS
    <2> HIDE DEF g
    <2> QED BY <2>1 DEF parameter_address, Each, When
  <1> HIDE DEF chosen
  <1>2. FlattenSeq(g) \in Seq(Range(s))
    BY SomeSelected
  <1> QED BY <1>1, <1>2

LEMMA AccessesSay ==
  ASSUME NEW t, NEW r, NEW x, x.operands \in Seq(Range(x.operands)), NEW legacy
  PROVE  /\ AccessSays(t, r, x, legacy) \in Seq(Words)
         /\ AccessSays(t, r, x, legacy) = <<>> <=>
              \A base \in Range(parameter_address(t, x)) :
                AccessTo(r, t.symbols[base.symbol], base, Payload(x) = "Store", legacy) = <<>>
  <1> DEFINE s == parameter_address(t, x)
             g == [i \in DOMAIN s |->
                     AccessTo(r, t.symbols[s[i].symbol], s[i], Payload(x) = "Store", legacy)]
  <1>1. \A symbol, base, store : AccessTo(r, symbol, base, store, legacy) \in Seq(Words)
    <2>1. "ReadOnlyParameter" \in Words /\ "ParameterQualifier" \in Words
      BY DEF Words
    <2> QED BY <2>1, WhenSays, ConcatProperties DEF AccessTo
  <1>2. AccessSays(t, r, x, legacy) = FlattenSeq(g)
    BY DEF AccessSays, Each
  <1>3. s \in Seq(Range(x.operands))
    BY AddressesSelected
  <1>4. g = [i \in DOMAIN s |-> g[i]] /\ \A i \in DOMAIN s : g[i] \in Seq(Words)
    BY <1>1
  <1>5. \A i \in DOMAIN s :
          g[i] = AccessTo(r, t.symbols[s[i].symbol], s[i], Payload(x) = "Store", legacy)
    OBVIOUS
  <1> HIDE DEF s, g
  <1>6. FlattenSeq(g) \in Seq(Words) /\ (FlattenSeq(g) = <<>> <=> \A i \in DOMAIN s : g[i] = <<>>)
    BY <1>3, <1>4, EachSays
  <1>7. (\A i \in DOMAIN s : g[i] = <<>>) <=>
          \A base \in Range(s) :
            AccessTo(r, t.symbols[base.symbol], base, Payload(x) = "Store", legacy) = <<>>
    BY <1>5 DEF Range
  <1> QED BY <1>2, <1>6, <1>7 DEF s

TransferIsSilent(body, transfers, i) ==
  transfers[i] # None => TransferSays(body, transfers, i, transfers[i][1]) = <<>>

LEMMA TransfersAreSaid ==
  ASSUME NEW body, body \in Seq(Range(body)), NEW transfers
  PROVE  /\ TransfersSay(body, transfers) \in Seq(Words)
         /\ TransfersSay(body, transfers) = <<>> =>
              \A i \in DOMAIN body : TransferIsSilent(body, transfers, i)
  <1> DEFINE g == [i \in DOMAIN body |->
                     IF transfers[i] = None THEN <<>>
                     ELSE TransferSays(body, transfers, i, transfers[i][1])]
  <1>1. \A i, transfer : TransferSays(body, transfers, i, transfer) \in Seq(Words)
    <2>1. "PredicatedTransfer" \in Words /\ "TransferWithoutCall" \in Words
      BY DEF Words
    <2> QED BY <2>1, WhenSays, SequenceOfOne DEF TransferSays
  <1>2. g = [i \in DOMAIN body |-> g[i]] /\ \A i \in DOMAIN body : g[i] \in Seq(Words)
    BY <1>1
  <1>3. \A i \in DOMAIN body : g[i] = <<>> => TransferIsSilent(body, transfers, i)
    BY DEF TransferIsSilent
  <1>4. TransfersSay(body, transfers) = FlattenSeq(g)
    BY DEF TransfersSay
  <1> HIDE DEF g
  <1>5. FlattenSeq(g) \in Seq(Words)
        /\ (FlattenSeq(g) = <<>> <=> \A i \in DOMAIN body : g[i] = <<>>)
    BY <1>2, EachSays
  <1> QED BY <1>3, <1>4, <1>5

LEMMA TransferCheckSays ==
  ASSUME NEW t, NEW r, OfSequences(r), NEW legacy
  PROVE  /\ check_call_parameter_transfers(t, r, legacy) \in Seq(Words)
         /\ check_call_parameter_transfers(t, r, legacy) = <<>> =>
              /\ \A x \in Range(r.body) : \A base \in Range(parameter_address(t, x)) :
                   AccessTo(r, t.symbols[base.symbol], base, Payload(x) = "Store", legacy) = <<>>
              /\ \A i \in DOMAIN r.body : TransferIsSilent(r.body, TransfersOf(t, r), i)
  <1> DEFINE s == r.body
             g == [i \in DOMAIN s |-> AccessSays(t, r, s[i], legacy)]
             said == TransfersSay(s, TransfersOf(t, r))
  <1>1. check_call_parameter_transfers(t, r, legacy) = FlattenSeq(g) \o said
    BY DEF check_call_parameter_transfers, Each
  <1>2. s \in Seq(Range(s)) /\ \A i \in DOMAIN s : s[i] \in Range(s)
    BY DEF OfSequences, Range
  <1>3. \A x \in Range(s) :
          /\ AccessSays(t, r, x, legacy) \in Seq(Words)
          /\ AccessSays(t, r, x, legacy) = <<>> <=>
               \A base \in Range(parameter_address(t, x)) :
                 AccessTo(r, t.symbols[base.symbol], base, Payload(x) = "Store", legacy) = <<>>
    BY AccessesSay DEF OfSequences
  <1>4. g = [i \in DOMAIN s |-> g[i]]
        /\ \A i \in DOMAIN s : g[i] = AccessSays(t, r, s[i], legacy) /\ g[i] \in Seq(Words)
    BY <1>2, <1>3
  <1>5. /\ said \in Seq(Words)
        /\ said = <<>> => \A i \in DOMAIN s : TransferIsSilent(s, TransfersOf(t, r), i)
    BY <1>2, TransfersAreSaid
  <1> HIDE DEF s, g, said
  <1>6. FlattenSeq(g) \in Seq(Words) /\ (FlattenSeq(g) = <<>> <=> \A i \in DOMAIN s : g[i] = <<>>)
    BY <1>2, <1>4, EachSays
  <1>7. /\ FlattenSeq(g) \o said \in Seq(Words)
        /\ FlattenSeq(g) \o said = <<>> <=> FlattenSeq(g) = <<>> /\ said = <<>>
    BY <1>5, <1>6, ConcatProperties, ConcatEqualIffEmpty
  <1>8. ASSUME \A i \in DOMAIN s : g[i] = <<>>, NEW x \in Range(s)
        PROVE  \A base \in Range(parameter_address(t, x)) :
                 AccessTo(r, t.symbols[base.symbol], base, Payload(x) = "Store", legacy) = <<>>
    <2>1. PICK i \in DOMAIN s : s[i] = x
      BY DEF Range
    <2>2. AccessSays(t, r, x, legacy) = <<>>
      BY <2>1, <1>4, <1>8
    <2> QED BY <2>2, <1>3
  <1> QED BY <1>1, <1>5, <1>6, <1>7, <1>8 DEF s

-----------------------------------------------------------------------------
(* The inductive invariant *)

Published == phase \in {"LegacySizes", "Visibility", "Transfers"} \/ Accepted
Resolving == phase = "Functions" \/ Published

TypeInv ==
  /\ module \in Modules
  /\ phase \in {"Declarations", "Storage", "Index", "Functions", "LegacySizes", "Visibility",
                "Transfers", "Done"}
  /\ outcome \in {"Running", "Module", "Rejected", "Exception"}
  /\ outcome = "Running" <=> phase # "Done"
  /\ diagnostics \in Seq(Words)

(* What the phases have found, each if those before it were silent *)
ArtifactsInv ==
  /\ phase \in {"Declarations", "Storage", "Index"} =>
       diagnostics = <<>> /\ functions = <<>> /\ position = 0
  /\ phase \in {"Storage", "Index"} => table = Binding(module) /\ Silent(module)
  /\ phase = "Index" => /\ StorageOf(module, Binding(module)).said = <<>>
                        /\ storage = RecordsIn(StorageOf(module, Binding(module)))
  /\ Resolving => AsFound

(* The records so far are those of the functions so far *)
HasRecord(f) == IsFunction(f) /\ f <= position
FunctionsInv ==
  Resolving =>
    /\ position \in 0 .. Len(module)
    /\ functions \in Seq(Range(functions))
    /\ \A r \in Range(functions) : \E f : HasRecord(f) /\ r = FunctionRecord(f)
    /\ \A f : HasRecord(f) => /\ FunctionRecord(f) \in Range(functions)
                              /\ ~ Contains(BodySays(f), "ResolveException")
                              /\ diagnostics = <<>> => BodySays(f) = <<>>

(* A check is silent about every function before the next begins *)
ChecksInv ==
  /\ Published => diagnostics = <<>> /\ position = Len(module)
  /\ phase \in {"Visibility", "Transfers"} \/ Accepted =>
       \A r \in Range(functions) : check_legacy_entry_input_sizes(table, r) = <<>>
  /\ phase = "Transfers" \/ Accepted =>
       \A r \in Range(functions) : check_direct_call_visibility(table, r) = <<>>
  /\ Accepted =>
       \A r \in Range(functions) : check_call_parameter_transfers(table, r, TRUE) = <<>>

PipelineInv == TypeInv /\ ArtifactsInv /\ FunctionsInv /\ ChecksInv

LEMMA EnteredInv ==
  ASSUME module \in Modules, Entered
  PROVE  PipelineInv
  <1>1. ~ Resolving /\ ~ Published /\ ~ Accepted
    BY DEF Entered, Resolving, Published, Accepted
  <1>2. <<>> \in Seq(Words)
    OBVIOUS
  <1>3. TypeInv
    BY <1>2 DEF Entered, TypeInv
  <1>4. ArtifactsInv
    BY <1>1 DEF Entered, ArtifactsInv
  <1> QED BY <1>1, <1>3, <1>4
         DEF PipelineInv, FunctionsInv, ChecksInv, Entered, Published, Accepted

LEMMA AgainInv ==
  ASSUME module' \in Modules, EnterAgain
  PROVE  PipelineInv'
  <1>1. ~ Resolving' /\ ~ Published' /\ ~ Accepted'
    BY DEF EnterAgain, Resolving, Published, Accepted
  <1>2. <<>> \in Seq(Words)
    OBVIOUS
  <1>3. TypeInv'
    BY <1>2 DEF EnterAgain, TypeInv
  <1>4. ArtifactsInv'
    BY <1>1 DEF EnterAgain, ArtifactsInv
  <1> QED BY <1>1, <1>3, <1>4
         DEF PipelineInv, FunctionsInv, ChecksInv, EnterAgain, Published, Accepted

(* A resolution that ends without a module keeps nothing. *)
LEMMA StoppedInv ==
  ASSUME TypeInv, module' = module, NEW said, said \in Seq(Words), NEW as,
         as \in {"Rejected", "Exception"}, Stop(said, as)
  PROVE  PipelineInv'
  <1>1. ~ Resolving' /\ ~ Published' /\ ~ Accepted' /\ phase' = "Done" /\ outcome' # "Running"
    BY DEF Stop, Resolving, Published, Accepted
  <1>2. TypeInv'
    BY DEF Stop, TypeInv
  <1>3. ArtifactsInv'
    BY <1>1 DEF ArtifactsInv
  <1> QED BY <1>1, <1>2, <1>3 DEF PipelineInv, FunctionsInv, ChecksInv

LEMMA ModulesSay ==
  ASSUME NEW m \in Modules
  PROVE  /\ DeclarationsSay(m, Binding(m)) \in Seq(Words)
         /\ Silent(m) => LET resolved == StorageOf(m, Binding(m))
                             index == CallIndex(Binding(m), RecordsIn(resolved))
                         IN /\ resolved.said \in Seq(Words)
                            /\ resolved.said = <<>> => index.said \in Seq(Words)
  BY PhasesAssumption, StringsAreWords DEF StorageSaysSequences, IndexSaysSequences

LEMMA CheckDeclarationsInv ==
  ASSUME PipelineInv, CheckDeclarations
  PROVE  PipelineInv'
  <1> DEFINE said == DeclarationsSay(module, Binding(module))
  <1>1. /\ module \in Modules /\ module' = module /\ phase = "Declarations"
        /\ table' = Binding(module) /\ outcome = "Running"
        /\ diagnostics = <<>> /\ functions = <<>> /\ position = 0
        /\ UNCHANGED <<functions, position>>
        /\ Unless(said, "Storage")
    BY DEF CheckDeclarations, PipelineInv, TypeInv, ArtifactsInv
  <1>2. said \in Seq(Words)
    BY <1>1, ModulesSay
  <1>3. CASE said # <<>>
    <2>1. Stop(said, "Rejected")
      BY <1>1, <1>3 DEF Unless
    <2> QED BY <1>1, <1>2, <2>1, StoppedInv DEF PipelineInv
  <1>4. CASE said = <<>>
    <2>1. phase' = "Storage" /\ diagnostics' = <<>> /\ outcome' = "Running" /\ Silent(module)'
      BY <1>1, <1>4 DEF Unless, GoOn, Silent
    <2>2. ~ Resolving' /\ ~ Published' /\ ~ Accepted'
      BY <2>1 DEF Resolving, Published, Accepted
    <2>3. TypeInv'
      BY <1>1, <2>1 DEF TypeInv, PipelineInv
    <2>4. ArtifactsInv'
      BY <1>1, <2>1, <2>2 DEF ArtifactsInv
    <2> QED BY <2>1, <2>2, <2>3, <2>4 DEF PipelineInv, FunctionsInv, ChecksInv
  <1> QED BY <1>3, <1>4

LEMMA ResolveStorageInv ==
  ASSUME PipelineInv, ResolveStorage
  PROVE  PipelineInv'
  <1> DEFINE resolved == StorageOf(module, Binding(module))
  <1>1. /\ module \in Modules /\ module' = module /\ phase = "Storage"
        /\ table = Binding(module) /\ table' = table /\ Silent(module) /\ outcome = "Running"
        /\ diagnostics = <<>> /\ functions = <<>> /\ position = 0
        /\ UNCHANGED <<functions, position>>
        /\ storage' = RecordsIn(resolved) /\ Unless(resolved.said, "Index")
    BY DEF ResolveStorage, Stored, PipelineInv, TypeInv, ArtifactsInv
  <1>2. resolved.said \in Seq(Words)
    BY <1>1, ModulesSay
  <1>3. CASE resolved.said # <<>>
    <2>1. Stop(resolved.said, "Rejected")
      BY <1>1, <1>3 DEF Unless
    <2> QED BY <1>1, <1>2, <2>1, StoppedInv DEF PipelineInv
  <1>4. CASE resolved.said = <<>>
    <2>1. phase' = "Index" /\ diagnostics' = <<>> /\ outcome' = "Running" /\ Silent(module)'
      BY <1>1, <1>4 DEF Unless, GoOn, Silent
    <2>2. ~ Resolving' /\ ~ Published' /\ ~ Accepted'
      BY <2>1 DEF Resolving, Published, Accepted
    <2>3. TypeInv'
      BY <1>1, <2>1 DEF TypeInv, PipelineInv
    <2>4. ArtifactsInv'
      BY <1>1, <1>4, <2>1, <2>2 DEF ArtifactsInv
    <2> QED BY <2>1, <2>2, <2>3, <2>4 DEF PipelineInv, FunctionsInv, ChecksInv
  <1> QED BY <1>3, <1>4

LEMMA IndexCallsInv ==
  ASSUME PipelineInv, IndexCalls
  PROVE  PipelineInv'
  <1>1. /\ module \in Modules /\ module' = module /\ phase = "Index"
        /\ table = Binding(module) /\ table' = table /\ Silent(module) /\ outcome = "Running"
        /\ diagnostics = <<>> /\ functions = <<>> /\ position = 0
        /\ UNCHANGED <<functions, position, storage>>
        /\ StorageOf(module, Binding(module)).said = <<>>
        /\ storage = RecordsIn(StorageOf(module, Binding(module)))
        /\ header' = resolve_module_header(module)
        /\ call_tables' = Index.tables /\ signatures' = Index.signatures
        /\ Unless(Index.said, "Functions")
    BY DEF IndexCalls, CallsIndexed, Index, PipelineInv, TypeInv, ArtifactsInv
  <1>2. Index.said \in Seq(Words)
    BY <1>1, ModulesSay DEF Index
  <1>3. CASE Index.said # <<>>
    <2>1. Stop(Index.said, "Rejected")
      BY <1>1, <1>3 DEF Unless
    <2> QED BY <1>1, <1>2, <2>1, StoppedInv DEF PipelineInv
  <1>4. CASE Index.said = <<>>
    <2>1. phase' = "Functions" /\ diagnostics' = <<>> /\ outcome' = "Running"
      BY <1>1, <1>4 DEF Unless, GoOn
    <2>2. ~ Published' /\ ~ Accepted' /\ Resolving'
      BY <2>1 DEF Resolving, Published, Accepted
    <2>3. TypeInv'
      BY <1>1, <2>1 DEF TypeInv, PipelineInv
    <2>4. AsFound'
      <3>1. Silent(module)' /\ Index' = Index /\ resolve_module_header(module)' = header'
        BY <1>1 DEF Silent, Index
      <3> QED BY <1>1, <1>4, <3>1 DEF AsFound
    <2>5. ArtifactsInv'
      BY <2>1, <2>2, <2>4 DEF ArtifactsInv
    <2>6. FunctionsInv'
      <3>1. functions' = <<>> /\ position' = 0 /\ Range(functions') = {}
        BY <1>1 DEF Range
      <3>2. \A f : ~ HasRecord(f)'
        BY <3>1 DEF HasRecord, IsFunction
      <3>3. position' \in 0 .. Len(module')
        BY <1>1, <3>1, ModuleIsSequence
      <3>4. <<>> \in Seq(Range(functions'))
        OBVIOUS
      <3> QED BY <3>1, <3>2, <3>3, <3>4 DEF FunctionsInv
    <2> QED BY <2>1, <2>2, <2>3, <2>5, <2>6 DEF PipelineInv, ChecksInv
  <1> QED BY <1>3, <1>4

LEMMA AsFoundStays ==
  ASSUME AsFound, UNCHANGED <<module, table, header, storage, call_tables, signatures>>
  PROVE  AsFound'
  <1>1. Silent(module)' /\ Index' = Index /\ resolve_module_header(module)' = header
    BY DEF Silent, Index, AsFound
  <1> QED BY <1>1 DEF AsFound

ResolvedOnly == UNCHANGED <<module, table, header, storage, call_tables, signatures>>

LEMMA SkippedItem ==
  ASSUME PipelineInv, phase = "Functions", position < Len(module), position' = position + 1,
         ResolvedOnly, UNCHANGED <<phase, functions, diagnostics, outcome>>,
         module[position'].kind # "Function"
  PROVE  PipelineInv'
  <1>1. AsFound /\ ~ Published /\ outcome = "Running"
    BY DEF PipelineInv, ArtifactsInv, TypeInv, Resolving, Published, Accepted
  <1>2. AsFound' /\ Resolving' /\ ~ Published' /\ ~ Accepted'
    BY <1>1, AsFoundStays DEF ResolvedOnly, Resolving, Published, Accepted
  <1>3. TypeInv'
    BY DEF PipelineInv, TypeInv, ResolvedOnly
  <1>4. ArtifactsInv'
    BY <1>2 DEF ArtifactsInv
  <1>5. Len(module) \in Nat /\ position \in 0 .. Len(module)
    BY <1>1, ModuleIsSequence DEF AsFound, PipelineInv, FunctionsInv, Resolving
  <1>6. \A f : HasRecord(f)' <=> HasRecord(f)
    BY <1>5 DEF HasRecord, IsFunction, ResolvedOnly
  <1>7. FunctionsInv'
    BY <1>5, <1>6, FunctionsStay
       DEF PipelineInv, FunctionsInv, Resolving, ResolvedOnly
  <1> QED BY <1>2, <1>3, <1>4, <1>7 DEF PipelineInv, ChecksInv

LEMMA ResolvedItem ==
  ASSUME PipelineInv, phase = "Functions", position < Len(module), position' = position + 1,
         ResolvedOnly, module[position'].kind = "Function", UNCHANGED <<phase, outcome>>,
         functions' = Append(functions, FunctionRecord(position')),
         diagnostics' = diagnostics \o BodySays(position'),
         ~ Contains(BodySays(position'), "ResolveException")
  PROVE  PipelineInv'
  <1> DEFINE last == position'
             said == BodySays(last)
             record == FunctionRecord(last)
  <1>1. AsFound /\ ~ Published /\ outcome = "Running"
    BY DEF PipelineInv, ArtifactsInv, TypeInv, Resolving, Published, Accepted
  <1>2. AsFound' /\ Resolving' /\ ~ Published' /\ ~ Accepted'
    BY <1>1, AsFoundStays DEF ResolvedOnly, Resolving, Published, Accepted
  <1>3. Len(module) \in Nat /\ position \in 0 .. Len(module)
    BY <1>1, ModuleIsSequence DEF AsFound, PipelineInv, FunctionsInv, Resolving
  <1>4. IsFunction(last) /\ last \in 1 .. Len(module) /\ last = position + 1
    BY <1>3 DEF IsFunction
  <1> HIDE DEF last
  <1>5. said \in Seq(Words) /\ diagnostics \in Seq(Words)
    BY <1>1, <1>4, BodiesSay DEF PipelineInv, TypeInv
  <1>6. TypeInv'
    <2>1. diagnostics' \in Seq(Words)
      BY <1>5, ConcatProperties DEF last
    <2> QED BY <2>1 DEF PipelineInv, TypeInv, ResolvedOnly
  <1>7. ArtifactsInv'
    BY <1>2 DEF ArtifactsInv
  <1>8. \A f : HasRecord(f)' <=> HasRecord(f) \/ f = last
    BY <1>3, <1>4 DEF HasRecord, IsFunction, ResolvedOnly, last
  <1>9. /\ functions \in Seq(Range(functions))
        /\ functions' \in Seq(Range(functions) \cup {record})
        /\ Range(functions') = Range(functions) \cup {record}
    <2>1. functions \in Seq(Range(functions))
      BY DEF PipelineInv, FunctionsInv, Resolving
    <2>2. functions \in Seq(Range(functions) \cup {record})
      BY <2>1, SeqMonotonic
    <2>3. /\ functions' \in Seq(Range(functions) \cup {record})
          /\ Len(functions) \in Nat
          /\ Len(functions') = Len(functions) + 1
          /\ \A i \in 1 .. Len(functions) : functions'[i] = functions[i]
          /\ functions'[Len(functions) + 1] = record
      BY <2>2, AppendProperties, LenProperties DEF last
    <2>4. /\ DOMAIN functions = 1 .. Len(functions)
          /\ DOMAIN functions' = (1 .. Len(functions)) \cup {Len(functions) + 1}
      <3>1. DOMAIN functions = 1 .. Len(functions) /\ DOMAIN functions' = 1 .. Len(functions')
        BY <2>1, <2>3, LenProperties
      <3> QED BY <3>1, <2>3
    <2>5. Range(functions') = Range(functions) \cup {record}
      BY <2>3, <2>4 DEF Range
    <2> QED BY <2>1, <2>3, <2>5
  <1>10. \A f : FunctionRecord(f)' = FunctionRecord(f) /\ BodySays(f)' = BodySays(f)
    BY FunctionsStay DEF ResolvedOnly
  <1>11. diagnostics' = <<>> => diagnostics = <<>> /\ said = <<>>
    <2>1. diagnostics' = diagnostics \o said
      BY DEF last
    <2>2. diagnostics \o said = <<>> <=> diagnostics = <<>> /\ said = <<>>
      <3> HIDE DEF said
      <3> QED BY <1>5, ConcatEqualIffEmpty
    <2> QED BY <2>1, <2>2
  <1>12. FunctionsInv'
    <2>1. position' \in 0 .. Len(module')
      BY <1>3, <1>4 DEF ResolvedOnly, last
    <2>2. functions' \in Seq(Range(functions'))
      BY <1>9
    <2>3. \A r \in Range(functions') : \E f : HasRecord(f)' /\ r = FunctionRecord(f)'
      BY <1>8, <1>9, <1>10 DEF PipelineInv, FunctionsInv, Resolving
    <2>4. \A f : HasRecord(f) =>
            /\ FunctionRecord(f) \in Range(functions)
            /\ ~ Contains(BodySays(f), "ResolveException")
            /\ diagnostics = <<>> => BodySays(f) = <<>>
      BY DEF PipelineInv, FunctionsInv, Resolving
    <2>5. ASSUME NEW f, HasRecord(f)'
          PROVE  /\ FunctionRecord(f)' \in Range(functions')
                 /\ ~ Contains(BodySays(f), "ResolveException")'
                 /\ diagnostics' = <<>> => BodySays(f)' = <<>>
      <3>1. HasRecord(f) \/ f = last
        BY <2>5, <1>8
      <3>2. Contains(BodySays(f), "ResolveException")' <=> Contains(BodySays(f), "ResolveException")
        BY <1>10 DEF Contains
      <3> QED BY <3>1, <3>2, <2>4, <1>9, <1>10, <1>11 DEF last
    <2> QED BY <2>1, <2>2, <2>3, <2>5 DEF FunctionsInv
  <1> QED BY <1>2, <1>6, <1>7, <1>12 DEF PipelineInv, ChecksInv

LEMMA ResolveFunctionInv ==
  ASSUME PipelineInv, ResolveFunction
  PROVE  PipelineInv'
  <1>1. /\ phase = "Functions" /\ position < Len(module) /\ position' = position + 1
        /\ ResolvedOnly /\ outcome = "Running"
    BY DEF ResolveFunction, ResolvedOnly, PipelineInv, TypeInv
  <1>2. CASE module[position'].kind # "Function"
    BY <1>1, <1>2, SkippedItem DEF ResolveFunction
  <1>3. CASE module[position'].kind = "Function" /\ LacksVersion(position')
    <2>1. Stop(<<"MissingValidationContext">>, "Rejected")
      BY <1>3 DEF ResolveFunction
    <2>2. <<"MissingValidationContext">> \in Seq(Words)
      BY SequenceOfOne DEF Words
    <2> QED BY <1>1, <2>1, <2>2, StoppedInv DEF PipelineInv, ResolvedOnly
  <1>4. CASE module[position'].kind = "Function" /\ ~ LacksVersion(position')
    <2>1. Resolved(position', BodySays(position'))
      BY <1>4 DEF ResolveFunction
    <2>2. CASE Contains(BodySays(position'), "ResolveException")
      <3>1. Stop(diagnostics, "Exception") /\ diagnostics \in Seq(Words)
        BY <2>1, <2>2 DEF Resolved, PipelineInv, TypeInv
      <3> QED BY <1>1, <3>1, StoppedInv DEF PipelineInv, ResolvedOnly
    <2>3. CASE ~ Contains(BodySays(position'), "ResolveException")
      BY <1>1, <1>4, <2>1, <2>3, ResolvedItem DEF Resolved
    <2> QED BY <2>2, <2>3
  <1> QED BY <1>2, <1>3, <1>4

LEMMA RecordsAreFunctions ==
  ASSUME PipelineInv, Resolving, NEW r \in Range(functions)
  PROVE  \E f : HasRecord(f) /\ r = FunctionRecord(f) /\ OfSequences(r)
  <1>1. PICK f : HasRecord(f) /\ r = FunctionRecord(f)
    BY DEF PipelineInv, FunctionsInv
  <1>2. ~ Contains(BodySays(f), "ResolveException") /\ IsFunction(f)
    BY <1>1 DEF PipelineInv, FunctionsInv, HasRecord
  <1>3. AsFound
    BY DEF PipelineInv, ArtifactsInv
  <1> QED BY <1>1, <1>2, <1>3, RecordsAreOfSequences

(* A check of all functions is silent if it is silent about each. *)
LEMMA FunctionsSay ==
  ASSUME PipelineInv, Resolving, NEW g, g = [i \in DOMAIN functions |-> g[i]],
         \A i \in DOMAIN functions : g[i] \in Seq(Words)
  PROVE  /\ FlattenSeq(g) \in Seq(Words)
         /\ FlattenSeq(g) = <<>> <=> \A i \in DOMAIN functions : g[i] = <<>>
  <1>1. functions \in Seq(Range(functions))
    BY DEF PipelineInv, FunctionsInv
  <1> QED BY <1>1, EachSays

SizesSay == Each(functions, LAMBDA f : check_legacy_entry_input_sizes(table, f))
VisibilitiesSay == Each(functions, LAMBDA f : check_direct_call_visibility(table, f))
TransfersAllSay == Each(functions, LAMBDA f : check_call_parameter_transfers(table, f, TRUE))

LEMMA ChecksSay ==
  ASSUME PipelineInv, Resolving
  PROVE  /\ /\ SizesSay \in Seq(Words)
            /\ SizesSay = <<>> =>
                 \A r \in Range(functions) : check_legacy_entry_input_sizes(table, r) = <<>>
         /\ /\ VisibilitiesSay \in Seq(Words)
            /\ VisibilitiesSay = <<>> =>
                 \A r \in Range(functions) : check_direct_call_visibility(table, r) = <<>>
         /\ /\ TransfersAllSay \in Seq(Words)
            /\ TransfersAllSay = <<>> =>
                 \A r \in Range(functions) : check_call_parameter_transfers(table, r, TRUE) = <<>>
  <1>1. \A i \in DOMAIN functions : functions[i] \in Range(functions)
    BY DEF Range
  <1>2. \A r \in Range(functions) : OfSequences(r)
    BY RecordsAreFunctions
  <1>3. /\ SizesSay \in Seq(Words)
        /\ SizesSay = <<>> =>
             \A r \in Range(functions) : check_legacy_entry_input_sizes(table, r) = <<>>
    <2> DEFINE g == [i \in DOMAIN functions |-> check_legacy_entry_input_sizes(table, functions[i])]
    <2>1. \A r : check_legacy_entry_input_sizes(table, r) \in Seq(Words)
      <3>1. "LegacyInputSize" \in Words
        BY DEF Words
      <3> QED BY <3>1, WhenSays DEF check_legacy_entry_input_sizes
    <2>2. g = [i \in DOMAIN functions |-> g[i]]
      OBVIOUS
    <2>3. \A i \in DOMAIN functions :
            g[i] = check_legacy_entry_input_sizes(table, functions[i]) /\ g[i] \in Seq(Words)
      BY <2>1
    <2>4. SizesSay = FlattenSeq(g)
      BY DEF SizesSay, Each
    <2> HIDE DEF g
    <2>5. FlattenSeq(g) \in Seq(Words)
          /\ (FlattenSeq(g) = <<>> <=> \A i \in DOMAIN functions : g[i] = <<>>)
      BY <2>2, <2>3, FunctionsSay
    <2> QED BY <2>3, <2>4, <2>5 DEF Range
  <1>4. /\ VisibilitiesSay \in Seq(Words)
        /\ VisibilitiesSay = <<>> =>
             \A r \in Range(functions) : check_direct_call_visibility(table, r) = <<>>
    <2> DEFINE g == [i \in DOMAIN functions |-> check_direct_call_visibility(table, functions[i])]
    <2>1. \A r \in Range(functions) : check_direct_call_visibility(table, r) \in Seq(Words)
      BY <1>2, VisibilitySays
    <2>2. g = [i \in DOMAIN functions |-> g[i]]
      OBVIOUS
    <2>3. \A i \in DOMAIN functions :
            g[i] = check_direct_call_visibility(table, functions[i]) /\ g[i] \in Seq(Words)
      BY <1>1, <2>1
    <2>4. VisibilitiesSay = FlattenSeq(g)
      BY DEF VisibilitiesSay, Each
    <2> HIDE DEF g
    <2>5. FlattenSeq(g) \in Seq(Words)
          /\ (FlattenSeq(g) = <<>> <=> \A i \in DOMAIN functions : g[i] = <<>>)
      BY <2>2, <2>3, FunctionsSay
    <2> QED BY <2>3, <2>4, <2>5 DEF Range
  <1>5. /\ TransfersAllSay \in Seq(Words)
        /\ TransfersAllSay = <<>> =>
             \A r \in Range(functions) : check_call_parameter_transfers(table, r, TRUE) = <<>>
    <2> DEFINE g == [i \in DOMAIN functions |->
                       check_call_parameter_transfers(table, functions[i], TRUE)]
    <2>1. \A r \in Range(functions) : check_call_parameter_transfers(table, r, TRUE) \in Seq(Words)
      BY <1>2, TransferCheckSays
    <2>2. g = [i \in DOMAIN functions |-> g[i]]
      OBVIOUS
    <2>3. \A i \in DOMAIN functions :
            g[i] = check_call_parameter_transfers(table, functions[i], TRUE) /\ g[i] \in Seq(Words)
      BY <1>1, <2>1
    <2>4. TransfersAllSay = FlattenSeq(g)
      BY DEF TransfersAllSay, Each
    <2> HIDE DEF g
    <2>5. FlattenSeq(g) \in Seq(Words)
          /\ (FlattenSeq(g) = <<>> <=> \A i \in DOMAIN functions : g[i] = <<>>)
      BY <2>2, <2>3, FunctionsSay
    <2> QED BY <2>3, <2>4, <2>5 DEF Range
  <1> QED BY <1>3, <1>4, <1>5

(* What the records are does not change when a check ends. *)
LEMMA CheckedFunctions ==
  ASSUME PipelineInv, Resolving, UNCHANGED Artifacts, Resolving', diagnostics' = diagnostics
  PROVE  AsFound' /\ FunctionsInv'
  <1>1. ResolvedOnly /\ UNCHANGED <<functions, position>>
    BY DEF Artifacts, ResolvedOnly
  <1>2. AsFound'
    BY <1>1, AsFoundStays DEF PipelineInv, ArtifactsInv, ResolvedOnly
  <1>3. \A f : /\ FunctionRecord(f)' = FunctionRecord(f)
               /\ BodySays(f)' = BodySays(f)
               /\ HasRecord(f)' <=> HasRecord(f)
    BY <1>1, FunctionsStay DEF ResolvedOnly, HasRecord, IsFunction
  <1>4. FunctionsInv'
    BY <1>1, <1>3 DEF PipelineInv, FunctionsInv, ResolvedOnly
  <1> QED BY <1>2, <1>4

LEMMA PublishInv ==
  ASSUME PipelineInv, Publish
  PROVE  PipelineInv'
  <1>1. /\ phase = "Functions" /\ Resolving /\ UNCHANGED Artifacts /\ position = Len(module)
        /\ Unless(diagnostics, "LegacySizes") /\ outcome = "Running" /\ diagnostics \in Seq(Words)
        /\ module' = module
    BY DEF Publish, Artifacts, Resolving, PipelineInv, TypeInv
  <1>2. CASE diagnostics # <<>>
    <2>1. Stop(diagnostics, "Rejected")
      BY <1>1, <1>2 DEF Unless
    <2> QED BY <1>1, <2>1, StoppedInv DEF PipelineInv
  <1>3. CASE diagnostics = <<>>
    <2>1. phase' = "LegacySizes" /\ diagnostics' = diagnostics /\ outcome' = "Running"
      BY <1>1, <1>3 DEF Unless, GoOn
    <2>2. Resolving' /\ ~ Accepted'
      BY <2>1 DEF Resolving, Published, Accepted
    <2>3. AsFound' /\ FunctionsInv'
      BY <1>1, <2>1, <2>2, CheckedFunctions
    <2>4. TypeInv'
      BY <1>1, <2>1 DEF PipelineInv, TypeInv
    <2>5. ArtifactsInv'
      BY <2>1, <2>3 DEF ArtifactsInv
    <2>6. ChecksInv'
      BY <1>1, <1>3, <2>1, <2>2 DEF ChecksInv, Artifacts
    <2> QED BY <2>3, <2>4, <2>5, <2>6 DEF PipelineInv
  <1> QED BY <1>2, <1>3

LEMMA CheckLegacySizesInv ==
  ASSUME PipelineInv, CheckLegacySizes
  PROVE  PipelineInv' /\ SizesSay \in Seq(Words)
  <1>1. /\ phase = "LegacySizes" /\ Resolving /\ Published /\ UNCHANGED Artifacts
        /\ Unless(SizesSay, "Visibility") /\ outcome = "Running" /\ module' = module
    BY DEF CheckLegacySizes, Artifacts, Resolving, Published, PipelineInv, TypeInv, SizesSay
  <1>2. /\ SizesSay \in Seq(Words)
        /\ SizesSay = <<>> =>
             \A r \in Range(functions) : check_legacy_entry_input_sizes(table, r) = <<>>
    BY <1>1, ChecksSay
  <1>3. CASE SizesSay # <<>>
    <2>1. Stop(SizesSay, "Rejected")
      BY <1>1, <1>3 DEF Unless
    <2> QED BY <1>1, <1>2, <2>1, StoppedInv DEF PipelineInv
  <1>4. CASE SizesSay = <<>>
    <2>1. phase' = "Visibility" /\ diagnostics' = diagnostics /\ outcome' = "Running"
      BY <1>1, <1>4 DEF Unless, GoOn
    <2>2. Resolving' /\ ~ Accepted'
      BY <2>1 DEF Resolving, Published, Accepted
    <2>3. AsFound' /\ FunctionsInv'
      BY <1>1, <2>1, <2>2, CheckedFunctions
    <2>4. TypeInv'
      BY <1>1, <2>1 DEF PipelineInv, TypeInv
    <2>5. ArtifactsInv'
      BY <2>1, <2>3 DEF ArtifactsInv
    <2>6. ChecksInv'
      BY <1>1, <1>2, <1>4, <2>1, <2>2 DEF PipelineInv, ChecksInv, Artifacts
    <2> QED BY <1>2, <2>3, <2>4, <2>5, <2>6 DEF PipelineInv
  <1> QED BY <1>3, <1>4

LEMMA CheckVisibilityInv ==
  ASSUME PipelineInv, CheckVisibility
  PROVE  PipelineInv' /\ VisibilitiesSay \in Seq(Words)
  <1>1. /\ phase = "Visibility" /\ Resolving /\ Published /\ UNCHANGED Artifacts
        /\ Unless(VisibilitiesSay, "Transfers") /\ outcome = "Running" /\ module' = module
    BY DEF CheckVisibility, Artifacts, Resolving, Published, PipelineInv, TypeInv, VisibilitiesSay
  <1>2. /\ VisibilitiesSay \in Seq(Words)
        /\ VisibilitiesSay = <<>> =>
             \A r \in Range(functions) : check_direct_call_visibility(table, r) = <<>>
    BY <1>1, ChecksSay
  <1>3. CASE VisibilitiesSay # <<>>
    <2>1. Stop(VisibilitiesSay, "Rejected")
      BY <1>1, <1>3 DEF Unless
    <2> QED BY <1>1, <1>2, <2>1, StoppedInv DEF PipelineInv
  <1>4. CASE VisibilitiesSay = <<>>
    <2>1. phase' = "Transfers" /\ diagnostics' = diagnostics /\ outcome' = "Running"
      BY <1>1, <1>4 DEF Unless, GoOn
    <2>2. Resolving' /\ ~ Accepted'
      BY <2>1 DEF Resolving, Published, Accepted
    <2>3. AsFound' /\ FunctionsInv'
      BY <1>1, <2>1, <2>2, CheckedFunctions
    <2>4. TypeInv'
      BY <1>1, <2>1 DEF PipelineInv, TypeInv
    <2>5. ArtifactsInv'
      BY <2>1, <2>3 DEF ArtifactsInv
    <2>6. ChecksInv'
      BY <1>1, <1>2, <1>4, <2>1, <2>2 DEF PipelineInv, ChecksInv, Artifacts
    <2> QED BY <1>2, <2>3, <2>4, <2>5, <2>6 DEF PipelineInv
  <1> QED BY <1>3, <1>4

LEMMA CheckTransfersInv ==
  ASSUME PipelineInv, CheckTransfers
  PROVE  PipelineInv' /\ TransfersAllSay \in Seq(Words)
  <1>1. /\ phase = "Transfers" /\ Resolving /\ Published /\ UNCHANGED Artifacts
        /\ Finish(TransfersAllSay) /\ outcome = "Running" /\ module' = module
    BY DEF CheckTransfers, Artifacts, Resolving, Published, PipelineInv, TypeInv, TransfersAllSay
  <1>2. /\ TransfersAllSay \in Seq(Words)
        /\ TransfersAllSay = <<>> =>
             \A r \in Range(functions) : check_call_parameter_transfers(table, r, TRUE) = <<>>
    BY <1>1, ChecksSay
  <1>3. CASE TransfersAllSay # <<>>
    <2>1. Stop(TransfersAllSay, "Rejected")
      BY <1>1, <1>3 DEF Finish
    <2> QED BY <1>1, <1>2, <2>1, StoppedInv DEF PipelineInv
  <1>4. CASE TransfersAllSay = <<>>
    <2>1. phase' = "Done" /\ diagnostics' = <<>> /\ outcome' = "Module" /\ diagnostics = <<>>
      BY <1>1, <1>4 DEF Finish, Stop, PipelineInv, ChecksInv
    <2>2. Resolving' /\ Accepted' /\ Published'
      BY <2>1 DEF Resolving, Published, Accepted
    <2>3. AsFound' /\ FunctionsInv'
      BY <1>1, <2>1, <2>2, CheckedFunctions
    <2>4. TypeInv'
      BY <1>1, <2>1 DEF PipelineInv, TypeInv
    <2>5. ArtifactsInv'
      BY <2>1, <2>3 DEF ArtifactsInv
    <2>6. ChecksInv'
      BY <1>1, <1>2, <1>4, <2>1, <2>2 DEF PipelineInv, ChecksInv, Artifacts
    <2> QED BY <1>2, <2>3, <2>4, <2>5, <2>6 DEF PipelineInv
  <1> QED BY <1>3, <1>4

LEMMA StutterInv ==
  ASSUME PipelineInv, UNCHANGED vars
  PROVE  PipelineInv'
  <1>1. ResolvedOnly /\ UNCHANGED <<phase, position, functions, diagnostics, outcome>>
    BY DEF vars, ResolvedOnly
  <1>2. /\ Resolving' <=> Resolving
        /\ Published' <=> Published
        /\ Accepted' <=> Accepted
    BY <1>1 DEF Resolving, Published, Accepted
  <1>3. TypeInv'
    BY <1>1 DEF PipelineInv, TypeInv, ResolvedOnly
  <1>4. ArtifactsInv'
    BY <1>1, <1>2, AsFoundStays DEF PipelineInv, ArtifactsInv, ResolvedOnly, Silent
  <1>5. FunctionsInv'
    <2>1. \A f : /\ FunctionRecord(f)' = FunctionRecord(f)
                 /\ BodySays(f)' = BodySays(f)
                 /\ HasRecord(f)' <=> HasRecord(f)
      BY <1>1, FunctionsStay DEF ResolvedOnly, HasRecord, IsFunction
    <2> QED BY <1>1, <1>2, <2>1 DEF PipelineInv, FunctionsInv, ResolvedOnly
  <1>6. ChecksInv'
    BY <1>1, <1>2 DEF PipelineInv, ChecksInv, ResolvedOnly
  <1> QED BY <1>3, <1>4, <1>5, <1>6 DEF PipelineInv

LEMMA ResolveInv ==
  ASSUME PipelineInv, Resolve
  PROVE  PipelineInv'
  BY CheckDeclarationsInv, ResolveStorageInv, IndexCallsInv, ResolveFunctionInv, PublishInv,
     CheckLegacySizesInv, CheckVisibilityInv, CheckTransfersInv
  DEF Resolve

(* Every phase builds on what the phases before it have found, the records  *)
(* are those of the functions so far, and a module is returned only if      *)
(* nothing was said by any phase or of any function.                        *)
THEOREM PipelineIsSound == ResolutionSpec => []PipelineInv
  <1>1. ResolutionInit => PipelineInv
    BY EnteredInv DEF ResolutionInit
  <1>2. PipelineInv /\ [ResolutionNext]_vars => PipelineInv'
    <2>1. ASSUME PipelineInv, ResolveAgain(Modules) PROVE PipelineInv'
      BY <2>1, AgainInv DEF ResolveAgain
    <2> QED BY <2>1, ResolveInv, StutterInv DEF ResolutionNext
  <1> QED BY <1>1, <1>2, PTL DEF ResolutionSpec

-----------------------------------------------------------------------------
(* The pipeline implements Resolution *)

LEMMA NothingIsPrefix ==
  ASSUME NEW S, NEW s \in Seq(S)
  PROVE  IsPrefix(<<>>, s)
  <1>1. Len(s) \in Nat /\ Len(<<>>) = 0
    BY LenProperties
  <1>2. SubSeq(<<>>, 1, 0) = SubSeq(s, 1, 0)
    OBVIOUS
  <1> QED BY <1>1, <1>2 DEF IsPrefix

LEMMA PrefixOfConcat ==
  ASSUME NEW S, NEW s \in Seq(S), NEW t \in Seq(S)
  PROVE  /\ IsPrefix(s, s \o t)
         /\ t # <<>> => IsStrictPrefix(s, s \o t)
  <1>1. /\ Len(s) \in Nat /\ Len(t) \in Nat /\ s \o t \in Seq(S) /\ Len(s \o t) = Len(s) + Len(t)
        /\ \A i \in 1 .. Len(s) + Len(t) :
             (s \o t)[i] = IF i <= Len(s) THEN s[i] ELSE t[i - Len(s)]
    BY ConcatProperties, LenProperties
  <1>2. \A i \in 1 .. Len(s) : s[i] \in S /\ (s \o t)[i] = s[i]
    BY <1>1, ElementOfSeq
  <1> DEFINE a == SubSeq(s, 1, Len(s))
             b == SubSeq(s \o t, 1, Len(s))
  <1>3. a \in Seq(S) /\ Len(a) = Len(s) /\ \A i \in 1 .. Len(s) : a[i] = s[i]
    <2>1. \A i \in 1 .. Len(s) : s[i] \in S
      BY <1>2
    <2> QED BY <2>1, <1>1, SubSeqProperties
  <1>4. b \in Seq(S) /\ Len(b) = Len(s) /\ \A i \in 1 .. Len(s) : b[i] = (s \o t)[i]
    <2>1. \A i \in 1 .. Len(s) : (s \o t)[i] \in S
      BY <1>2
    <2> QED BY <2>1, <1>1, SubSeqProperties
  <1>5. a = b
    <2> HIDE DEF a, b
    <2> QED BY <1>2, <1>3, <1>4, SeqEqual
  <1>6. IsPrefix(s, s \o t)
    BY <1>1, <1>5 DEF IsPrefix
  <1>7. t # <<>> => s # s \o t
    BY ConcatEqualIffEmpty
  <1> QED BY <1>6, <1>7 DEF IsStrictPrefix

LEMMA StoppedIsRejected ==
  ASSUME diagnostics = <<>>, outcome = "Running", NEW said \in Seq(Words), said # <<>>,
         Stop(said, "Rejected")
  PROVE  Promise!Next
  <1>1. IsPrefix(<<>>, said)
    BY NothingIsPrefix
  <1>2. Promise!Reject
    BY <1>1 DEF Stop, Promise!Reject, IsPrefix, Promise!IsPrefix
  <1> QED BY <1>2 DEF Promise!Next

LEMMA FunctionIsPromised ==
  ASSUME PipelineInv, ResolveFunction
  PROVE  Promise!Next \/ UNCHANGED <<diagnostics, outcome>>
  <1> DEFINE said == BodySays(position')
  <1>1. outcome = "Running" /\ diagnostics \in Seq(Words) /\ AsFound
    BY DEF ResolveFunction, PipelineInv, TypeInv, ArtifactsInv, Resolving
  <1>2. CASE module[position'].kind # "Function"
    BY <1>2 DEF ResolveFunction
  <1>3. CASE module[position'].kind = "Function" /\ LacksVersion(position')
    <2>1. Stop(<<"MissingValidationContext">>, "Rejected")
      BY <1>3 DEF ResolveFunction
    <2>2. Promise!LacksContext
      BY <1>1, <2>1 DEF Stop, Promise!LacksContext
    <2> QED BY <2>2 DEF Promise!Next
  <1>4. CASE module[position'].kind = "Function" /\ ~ LacksVersion(position')
    <2>1. Resolved(position', said)
      BY <1>4 DEF ResolveFunction
    <2>2. CASE Contains(said, "ResolveException")
      <3>1. Promise!Throw
        BY <1>1, <2>1, <2>2 DEF Resolved, Stop, Promise!Throw
      <3> QED BY <3>1 DEF Promise!Next
    <2>3. CASE ~ Contains(said, "ResolveException")
      <3>1. diagnostics' = diagnostics \o said /\ outcome' = outcome
        BY <2>1, <2>3 DEF Resolved
      <3>2. said \in Seq(Words)
        <4>1. Len(module) \in Nat /\ position \in 0 .. Len(module)
              /\ position < Len(module) /\ position' = position + 1
          BY <1>1, ModuleIsSequence
             DEF AsFound, ResolveFunction, PipelineInv, FunctionsInv, Resolving
        <4>2. IsFunction(position')
          BY <4>1, <1>4 DEF IsFunction
        <4> QED BY <4>2, <1>1, BodiesSay
      <3> HIDE DEF said
      <3>3. CASE said = <<>>
        <4>1. diagnostics \o said = diagnostics
          BY <3>3, <1>1, ConcatEmptySeq
        <4> QED BY <4>1, <3>1
      <3>4. CASE said # <<>>
        <4>1. IsStrictPrefix(diagnostics, diagnostics \o said)
          BY <3>2, <3>4, <1>1, PrefixOfConcat
        <4>2. Promise!Say
          BY <4>1, <3>1, <1>1
             DEF Promise!Say, IsStrictPrefix, Promise!IsStrictPrefix, IsPrefix, Promise!IsPrefix
        <4> QED BY <4>2 DEF Promise!Next
      <3> QED BY <3>3, <3>4
    <2> QED BY <2>2, <2>3
  <1> QED BY <1>2, <1>3, <1>4

LEMMA PublishIsPromised ==
  ASSUME PipelineInv, Publish
  PROVE  Promise!Next \/ UNCHANGED <<diagnostics, outcome>>
  <1>1. outcome = "Running" /\ diagnostics \in Seq(Words) /\ Unless(diagnostics, "LegacySizes")
    BY DEF Publish, PipelineInv, TypeInv
  <1>2. CASE diagnostics = <<>>
    BY <1>1, <1>2 DEF Unless, GoOn
  <1>3. CASE diagnostics # <<>>
    <2>1. diagnostics' = diagnostics /\ outcome' = "Rejected"
      BY <1>1, <1>3 DEF Unless, Stop
    <2>2. IsPrefix(diagnostics, diagnostics)
      BY DEF IsPrefix
    <2>3. Promise!Reject
      BY <2>1, <2>2, <1>1, <1>3 DEF Promise!Reject, IsPrefix, Promise!IsPrefix
    <2> QED BY <2>3 DEF Promise!Next
  <1> QED BY <1>2, <1>3

(* Of the phases that come before the functions and after them *)
LEMMA PhaseIsPromised ==
  ASSUME diagnostics = <<>>, outcome = "Running", NEW said \in Seq(Words), NEW next,
         Unless(said, next)
  PROVE  Promise!Next \/ UNCHANGED <<diagnostics, outcome>>
  <1>1. CASE said = <<>>
    BY <1>1 DEF Unless, GoOn
  <1>2. CASE said # <<>>
    <2>1. Stop(said, "Rejected")
      BY <1>2 DEF Unless
    <2> QED BY <1>2, <2>1, StoppedIsRejected
  <1> QED BY <1>1, <1>2

LEMMA EarlyIsPromised ==
  ASSUME PipelineInv, CheckDeclarations \/ ResolveStorage \/ IndexCalls
  PROVE  Promise!Next \/ UNCHANGED <<diagnostics, outcome>>
  <1>1. module \in Modules /\ diagnostics = <<>> /\ outcome = "Running"
    BY DEF CheckDeclarations, ResolveStorage, IndexCalls, PipelineInv, TypeInv, ArtifactsInv
  <1>2. CASE CheckDeclarations
    <2>1. Unless(DeclarationsSay(module, Binding(module)), "Storage")
      BY <1>2 DEF CheckDeclarations
    <2>2. DeclarationsSay(module, Binding(module)) \in Seq(Words)
      BY <1>1, ModulesSay
    <2> QED BY <1>1, <2>1, <2>2, PhaseIsPromised
  <1>3. CASE ResolveStorage
    <2> DEFINE said == StorageOf(module, Binding(module)).said
    <2>1. Unless(said, "Index") /\ Silent(module)
      BY <1>3 DEF ResolveStorage, Stored, PipelineInv, ArtifactsInv
    <2>2. said \in Seq(Words)
      BY <1>1, <2>1, ModulesSay
    <2> QED BY <1>1, <2>1, <2>2, PhaseIsPromised
  <1>4. CASE IndexCalls
    <2>1. Unless(Index.said, "Functions") /\ Silent(module)
          /\ StorageOf(module, Binding(module)).said = <<>>
      BY <1>4 DEF IndexCalls, CallsIndexed, Index, PipelineInv, ArtifactsInv
    <2>2. Index.said \in Seq(Words)
      BY <1>1, <2>1, ModulesSay DEF Index
    <2> QED BY <1>1, <2>1, <2>2, PhaseIsPromised
  <1> QED BY <1>2, <1>3, <1>4

LEMMA CheckIsPromised ==
  ASSUME PipelineInv, CheckLegacySizes \/ CheckVisibility \/ CheckTransfers
  PROVE  Promise!Next \/ UNCHANGED <<diagnostics, outcome>>
  <1>1. diagnostics = <<>> /\ outcome = "Running"
    BY DEF CheckLegacySizes, CheckVisibility, CheckTransfers, PipelineInv, TypeInv, ChecksInv,
           Published
  <1>2. CASE CheckLegacySizes
    <2>1. Unless(SizesSay, "Visibility")
      BY <1>2 DEF CheckLegacySizes, SizesSay
    <2> QED BY <1>1, <1>2, <2>1, CheckLegacySizesInv, PhaseIsPromised
  <1>3. CASE CheckVisibility
    <2>1. Unless(VisibilitiesSay, "Transfers")
      BY <1>3 DEF CheckVisibility, VisibilitiesSay
    <2> QED BY <1>1, <1>3, <2>1, CheckVisibilityInv, PhaseIsPromised
  <1>4. CASE CheckTransfers
    <2>1. Finish(TransfersAllSay)
      BY <1>4 DEF CheckTransfers, TransfersAllSay
    <2>2. CASE TransfersAllSay = <<>>
      <3>1. Promise!Accept
        BY <1>1, <2>1, <2>2 DEF Finish, Stop, Promise!Accept
      <3> QED BY <3>1 DEF Promise!Next
    <2>3. CASE TransfersAllSay # <<>>
      <3>1. Stop(TransfersAllSay, "Rejected")
        BY <2>1, <2>3 DEF Finish
      <3> QED BY <1>1, <1>4, <2>3, <3>1, CheckTransfersInv, StoppedIsRejected
    <2> QED BY <2>2, <2>3
  <1> QED BY <1>2, <1>3, <1>4

LEMMA AgainIsPromised ==
  ASSUME ResolveAgain(Modules)
  PROVE  Promise!Next
  <1>1. Promise!CallAgain
    BY DEF ResolveAgain, EnterAgain, Promise!CallAgain
  <1> QED BY <1>1 DEF Promise!Next

(* The pipeline implements Resolution, whatever its phases compute: a step  *)
(* of it is a step of Resolution or changes nothing that its caller sees.   *)
THEOREM PipelineKeepsPromise == ResolutionSpec => KeepsPromise
  <1>1. ResolutionInit => Promise!Init
    BY DEF ResolutionInit, Entered, Promise!Init
  <1>2. PipelineInv /\ [ResolutionNext]_vars => [Promise!Next]_<<diagnostics, outcome>>
    <2>1. ASSUME PipelineInv, Resolve
          PROVE  Promise!Next \/ UNCHANGED <<diagnostics, outcome>>
      BY <2>1, EarlyIsPromised, FunctionIsPromised, PublishIsPromised, CheckIsPromised DEF Resolve
    <2>2. ASSUME UNCHANGED vars PROVE UNCHANGED <<diagnostics, outcome>>
      BY <2>2 DEF vars
    <2> QED BY <2>1, <2>2, AgainIsPromised DEF ResolutionNext
  <1> QED BY <1>1, <1>2, PipelineIsSound, PTL DEF ResolutionSpec, KeepsPromise, Promise!Spec

-----------------------------------------------------------------------------
(* Nothing is dropped *)

LEMMA InitialSegment ==
  ASSUME NEW n \in Nat, NEW at, \A k \in 1 .. n : at[k] \in Nat,
         \A j, k \in 1 .. n : j < k => at[j] < at[k], NEW p \in Nat
  PROVE  \E m \in 0 .. n : \A k \in 1 .. n : at[k] < p <=> k <= m
  <1> DEFINE T == {k \in 1 .. n : at[k] >= p}
  <1>1. CASE T = {}
    <2>1. \A k \in 1 .. n : at[k] < p
      BY <1>1
    <2> QED BY <2>1
  <1>2. CASE T # {}
    <2>1. PICK x \in T : \A y \in T : x <= y
      <3>1. T \subseteq Nat
        OBVIOUS
      <3> HIDE DEF T
      <3> QED BY <3>1, <1>2, LeastNumber
    <2>2. x \in 1 .. n /\ at[x] >= p
      OBVIOUS
    <2>3. ASSUME NEW k \in 1 .. n PROVE at[k] < p <=> k <= x - 1
      <3>1. CASE k < x
        <4>1. k \notin T
          BY <2>1, <3>1
        <4> QED BY <4>1, <3>1, <2>2
      <3>2. CASE k >= x
        <4>1. at[k] >= at[x]
          BY <3>2, <2>2
        <4>2. at[k] \in Nat /\ at[x] \in Nat /\ ~ (k <= x - 1)
          BY <3>2, <2>2
        <4> QED BY <4>1, <4>2, <2>2
      <3> QED BY <3>1, <3>2, <2>2
    <2>4. x - 1 \in 0 .. n
      BY <2>2
    <2> QED BY <2>3, <2>4
  <1> QED BY <1>1, <1>2

(* In the order of the source: what stands before a place that is a node's  *)
(* comes first, and as many as stand before it.                             *)
LEMMA CountedBefore ==
  ASSUME AsFound, NEW at, NEW chosen, NEW all, Selects(at, table.nodes, chosen, all),
         all \in Seq(Range(table.nodes)),
         NEW p \in DOMAIN table.nodes, p \notin chosen, NEW j \in DOMAIN all
  PROVE  LET offset == Cardinality({k \in DOMAIN all :
                                      IsStrictlyBefore(all[k].at, table.nodes[p].at)})
         IN j > offset <=> IsStrictlyBefore(table.nodes[p].at, all[j].at)
  <1> DEFINE nodes == table.nodes
             n == Len(all)
  <1>1. /\ nodes \in Seq(Range(nodes)) /\ DOMAIN nodes = 1 .. Len(nodes) /\ Len(nodes) \in Nat
        /\ \A i, k \in DOMAIN nodes : i < k <=> IsStrictlyBefore(nodes[i].at, nodes[k].at)
    <2>1. nodes \in Seq(Range(nodes))
      BY BindingAssumption DEF AsFound
    <2>2. \A i, k \in DOMAIN nodes : i < k <=> IsStrictlyBefore(nodes[i].at, nodes[k].at)
      BY BindingAssumption DEF AsFound
    <2> QED BY <2>1, <2>2, LenProperties
  <1>2. n \in Nat /\ DOMAIN all = 1 .. n
    BY LenProperties
  <1> HIDE DEF n
  <1>3. /\ \A k \in 1 .. n : at[k] \in DOMAIN nodes /\ at[k] \in Nat
                             /\ at[k] \in chosen /\ all[k] = nodes[at[k]]
        /\ \A i, k \in 1 .. n : i < k => at[i] < at[k]
    <2>1. /\ at \in [1 .. n -> 1 .. Len(nodes)]
          /\ \A k \in 1 .. n : at[k] \in chosen /\ all[k] = nodes[at[k]]
          /\ \A i, k \in 1 .. n : i < k => at[i] < at[k]
      BY DEF Selects, n
    <2>2. \A k \in 1 .. n : at[k] \in 1 .. Len(nodes)
      BY <2>1
    <2> HIDE DEF nodes
    <2> QED BY <2>1, <2>2, <1>1
  <1>4. PICK m \in 0 .. n : \A k \in 1 .. n : at[k] < p <=> k <= m
    <2>1. p \in Nat
      BY <1>1
    <2>2. \A k \in 1 .. n : at[k] \in Nat
      BY <1>3
    <2>3. \A i, k \in 1 .. n : i < k => at[i] < at[k]
      BY <1>3
    <2> QED BY <2>1, <2>2, <2>3, <1>2, InitialSegment
  <1>5. {k \in DOMAIN all : IsStrictlyBefore(all[k].at, nodes[p].at)} = 1 .. m
    <2>1. ASSUME NEW k \in 1 .. n
          PROVE  IsStrictlyBefore(all[k].at, nodes[p].at) <=> k \in 1 .. m
      <3>1. all[k] = nodes[at[k]] /\ at[k] \in DOMAIN nodes /\ p \in DOMAIN nodes
        BY <1>3
      <3>2. IsStrictlyBefore(nodes[at[k]].at, nodes[p].at) <=> at[k] < p
        BY <3>1, <1>1
      <3> QED BY <3>1, <3>2, <1>2, <1>4
    <2>2. 1 .. m \subseteq 1 .. n
      BY <1>2
    <2> QED BY <2>1, <2>2, <1>2
  <1>6. Cardinality(1 .. m) = m
    <2>1. m \in Nat
      BY <1>2
    <2> QED BY <2>1, FS_Interval
  <1>7. j > m <=> p < at[j]
    <2>1. j \in 1 .. n /\ at[j] \in Nat /\ p \in Nat /\ at[j] # p /\ m \in Nat
      BY <1>1, <1>2, <1>3
    <2>2. at[j] < p <=> j <= m
      BY <2>1, <1>4
    <2> QED BY <2>1, <2>2
  <1>8. IsStrictlyBefore(nodes[p].at, all[j].at) <=> p < at[j]
    BY <1>1, <1>2, <1>3
  <1> QED BY <1>5, <1>6, <1>7, <1>8

LEMMA LabelsAreFound ==
  ASSUME AsFound, NEW n \in Range(table.nodes), n.node.kind = "Label"
  PROVE  table.symbols[NameIn(table, n.function, n.node.name)].at = n.at
  BY BindingAssumption DEF AsFound

LEMMA LabelsArePlaced ==
  ASSUME AsFound, NEW f, NEW kept, kept = InstructionsOf(table, <<f>>),
         NEW l \in Range(LabelPositions(NodesOf(table, <<f>>, {"Label"}), kept)),
         NEW j \in DOMAIN kept
  PROVE  j > l.instruction_offset
           <=> IsStrictlyBefore(table.symbols[l.symbol].at, kept[j].at)
  <1> DEFINE labels == NodesOf(table, <<f>>, {"Label"})
             nodes == table.nodes
             instructions == {i \in DOMAIN nodes : Fits(table, nodes[i], <<f>>, InstructionKinds)}
             written == {i \in DOMAIN nodes : Fits(table, nodes[i], <<f>>, {"Label"})}
  <1>1. nodes \in Seq(Range(nodes)) /\ DOMAIN nodes = 1 .. Len(nodes)
    <2>1. nodes \in Seq(Range(nodes))
      BY BindingAssumption DEF AsFound
    <2> QED BY <2>1, LenProperties
  <1>2. kept \in Seq(Range(nodes)) /\ \E at : Selects(at, nodes, instructions, kept)
    BY <1>1, NodesSelected DEF InstructionsOf
  <1>3. labels \in Seq(Range(nodes)) /\ \E to : Selects(to, nodes, written, labels)
    BY <1>1, NodesSelected
  <1>4. PICK i \in DOMAIN labels :
          /\ l.symbol = NameIn(table, labels[i].function, labels[i].node.name)
          /\ l.instruction_offset =
               Cardinality({k \in DOMAIN kept : IsStrictlyBefore(kept[k].at, labels[i].at)})
    <2>1. l \in Range(LabelPositions(labels, kept))
      OBVIOUS
    <2> HIDE DEF labels
    <2>2. PICK i \in DOMAIN LabelPositions(labels, kept) : l = LabelPositions(labels, kept)[i]
      BY <2>1 DEF Range
    <2> QED BY <2>2 DEF LabelPositions
  <1> HIDE DEF labels
  <1>5. PICK p \in written : labels[i] = nodes[p]
    <2>1. DOMAIN labels = 1 .. Len(labels)
      BY <1>3, LenProperties
    <2> QED BY <2>1, <1>3 DEF Selects
  <1>6. p \in DOMAIN nodes /\ p \notin instructions /\ nodes[p].node.kind = "Label"
    BY DEF Fits, InstructionKinds
  <1>7. table.symbols[l.symbol].at = nodes[p].at
    <2>1. nodes[p] \in Range(nodes)
      BY <1>6 DEF Range
    <2> QED BY <2>1, <1>4, <1>5, <1>6, LabelsAreFound
  <1> HIDE DEF instructions, written
  <1>8. PICK at : Selects(at, nodes, instructions, kept)
    BY <1>2
  <1>9. LET offset == Cardinality({k \in DOMAIN kept : IsStrictlyBefore(kept[k].at, nodes[p].at)})
        IN j > offset <=> IsStrictlyBefore(nodes[p].at, kept[j].at)
    BY <1>2, <1>6, <1>8, CountedBefore
  <1> QED BY <1>4, <1>5, <1>7, <1>9

LEMMA FunctionIsWhole ==
  ASSUME AsFound, NEW f, IsFunction(f), BodySays(f) = <<>>
  PROVE  LET r == FunctionRecord(f)
         IN /\ [i \in DOMAIN r.body |-> r.body[i].node] = InstructionsOf(table, r.scope)
            /\ \A n \in Range(NodesOf(table, r.scope, {"Label"})) :
                 \E l \in Range(r.label_positions) : table.symbols[l.symbol].at = n.at
            /\ \A l \in Range(r.label_positions) : \A i \in DOMAIN r.body :
                 i > l.instruction_offset
                   <=> IsStrictlyBefore(table.symbols[l.symbol].at, r.body[i].node.at)
  <1> DEFINE r == FunctionRecord(f)
             kept == InstructionsOf(table, <<f>>)
             labels == NodesOf(table, <<f>>, {"Label"})
  <1>1. kept \in Seq(Range(table.nodes)) /\ DOMAIN kept = 1 .. Len(kept)
    BY InstructionsAreNodes, LenProperties
  <1>2. KeptIn(f) = kept
    <2>1. \A i \in DOMAIN kept : resolveInstruction(kept[i])
      BY BodiesSay DEF Instructions, Range
    <2> QED BY <2>1, <1>1, AllKept
  <1>3. /\ r.scope = <<f>>
        /\ DOMAIN r.body = DOMAIN kept
        /\ \A i \in DOMAIN kept : r.body[i].node = kept[i]
        /\ r.label_positions = LabelPositions(labels, kept)
    <2> DEFINE parts == PartsOf(module, table, signatures, f)
               own == ConfiguredFunction(f, RegionAt(module, f), parts, KeptIn(f))
    <2>1. r.scope = <<f>> /\ r.body = own.body /\ r.label_positions = own.label_positions
      BY RecordFields
    <2>2. own.body = BodyOf(parts, kept) /\ own.label_positions = LabelPositions(labels, kept)
      BY <1>2 DEF ConfiguredFunction
    <2> HIDE DEF own, parts, kept
    <2>3. /\ DOMAIN BodyOf(parts, kept) = DOMAIN kept
          /\ \A i \in DOMAIN kept : BodyOf(parts, kept)[i].node = kept[i]
      BY DEF BodyOf
    <2> QED BY <2>1, <2>2, <2>3
  <1>4. kept = [i \in DOMAIN kept |-> kept[i]]
    <2> HIDE DEF kept
    <2> QED BY <1>1
  <1>5. table.nodes \in Seq(Range(table.nodes))
    BY BindingAssumption DEF AsFound
  <1>6. ASSUME NEW n \in Range(labels)
        PROVE  \E l \in Range(r.label_positions) : table.symbols[l.symbol].at = n.at
    <2>1. PICK i \in DOMAIN labels : labels[i] = n
      BY DEF Range
    <2>2. n \in Range(table.nodes) /\ n.node.kind = "Label"
      <3>1. /\ labels \in Seq(Range(table.nodes))
            /\ \E to : Selects(to, table.nodes, {k \in DOMAIN table.nodes :
                         Fits(table, table.nodes[k], <<f>>, {"Label"})}, labels)
        BY <1>5, NodesSelected
      <3> HIDE DEF labels
      <3>2. i \in 1 .. Len(labels)
        BY <3>1, LenProperties
      <3> QED BY <2>1, <3>1, <3>2, ElementOfSeq DEF Selects, Fits
    <2>3. table.symbols[LabelPositions(labels, kept)[i].symbol].at = n.at
      BY <2>1, <2>2, LabelsAreFound DEF LabelPositions
    <2>4. LabelPositions(labels, kept)[i] \in Range(r.label_positions)
      BY <1>3 DEF LabelPositions, Range
    <2> QED BY <2>3, <2>4
  <1>7. ASSUME NEW l \in Range(r.label_positions), NEW i \in DOMAIN r.body
        PROVE  i > l.instruction_offset
                 <=> IsStrictlyBefore(table.symbols[l.symbol].at, r.body[i].node.at)
    BY <1>3, LabelsArePlaced
  <1> HIDE DEF kept, labels
  <1>8. [i \in DOMAIN r.body |-> r.body[i].node] = kept
    BY <1>3, <1>4
  <1> QED BY <1>3, <1>6, <1>7, <1>8 DEF kept, labels

(* No instruction and no label of a returned module is lost, and none has   *)
(* moved past another.                                                      *)
THEOREM NothingIsDropped == ResolutionSpec => []NothingDropped
  <1>1. ASSUME PipelineInv, Accepted PROVE NothingDropped
    <2>1. /\ AsFound /\ position = Len(module) /\ diagnostics = <<>> /\ Resolving
      BY <1>1 DEF PipelineInv, ArtifactsInv, ChecksInv, Resolving, Published
    <2>2. ASSUME NEW i \in DOMAIN module, module[i].kind = "Function"
          PROVE  \E r \in Range(functions) : r.scope = <<i>>
      <3>1. HasRecord(i)
        BY <2>1, <2>2, ModuleIsSequence DEF HasRecord, IsFunction, AsFound
      <3>2. FunctionRecord(i) \in Range(functions)
        BY <1>1, <2>1, <3>1 DEF PipelineInv, FunctionsInv
      <3> QED BY <3>2, RecordFields
    <2>3. ASSUME NEW r \in Range(functions)
          PROVE  \E f : IsFunction(f) /\ BodySays(f) = <<>> /\ r = FunctionRecord(f)
      BY <1>1, <2>1 DEF PipelineInv, FunctionsInv, HasRecord
    <2>4. ASSUME NEW r \in Range(functions)
          PROVE  /\ [i \in DOMAIN r.body |-> r.body[i].node] = InstructionsOf(table, r.scope)
                 /\ \A n \in Range(NodesOf(table, r.scope, {"Label"})) :
                      \E l \in Range(r.label_positions) : table.symbols[l.symbol].at = n.at
                 /\ \A l \in Range(r.label_positions) : \A i \in DOMAIN r.body :
                      i > l.instruction_offset
                        <=> IsStrictlyBefore(table.symbols[l.symbol].at, r.body[i].node.at)
      <3>1. PICK f : IsFunction(f) /\ BodySays(f) = <<>> /\ r = FunctionRecord(f)
        BY <2>3
      <3> QED BY <3>1, <2>1, FunctionIsWhole
    <2> QED BY <2>2, <2>4 DEF NothingDropped
  <1>2. PipelineInv => NothingDropped
    BY <1>1 DEF NothingDropped
  <1> QED BY <1>2, PipelineIsSound, PTL

-----------------------------------------------------------------------------
(* One configuration *)

HeaderFields == {"version", "address_size", "explicit_size", "texture_mode", "invalid", "regions"}

LEMMA ModesCounted ==
  ASSUME NEW h, DOMAIN h = HeaderFields, h.invalid \in Nat, NEW modes, Len(modes) \in Nat,
         modes # <<>> => Len(modes) # 0
  PROVE  LET g == WithMode(h, modes)
         IN /\ DOMAIN g = HeaderFields /\ g.invalid \in Nat /\ g.invalid >= h.invalid
            /\ g.regions = h.regions /\ g.version = h.version
  BY DEF WithMode, HeaderFields

LEMMA ModesAreSequence ==
  ASSUME NEW targets, targets \in Seq(Range(targets))
  PROVE  ModesOf(targets) \in Seq(Range(targets))
  <1> DEFINE chosen == {i \in DOMAIN targets : targets[i] \in TextureModes}
             g == [i \in DOMAIN targets |-> IF i \in chosen THEN <<targets[i]>> ELSE <<>>]
  <1>1. ModesOf(targets) = FlattenSeq(g)
    <2>1. g = [i \in DOMAIN targets |->
                 IF targets[i] \in TextureModes THEN <<targets[i]>> ELSE <<>>]
      OBVIOUS
    <2> HIDE DEF g
    <2> QED BY <2>1 DEF ModesOf, Each, When
  <1> HIDE DEF chosen
  <1>2. FlattenSeq(g) \in Seq(Range(targets))
    BY SomeSelected
  <1> QED BY <1>1, <1>2

(* What an item changes of the header so far *)
LEMMA ItemCounted ==
  ASSUME NEW h, DOMAIN h = HeaderFields, h.invalid \in Nat, NEW item,
         item.kind = "Target" => item.targets \in Seq(Range(item.targets))
  PROVE  LET g == OfItem(h, item)
         IN /\ DOMAIN g = HeaderFields /\ g.invalid \in Nat /\ g.invalid >= h.invalid
            /\ item.kind # "Target" => g.regions = h.regions
            /\ item.kind = "Target" => g.regions = Append(h.regions, [targets |-> item.targets])
            /\ item.kind # "Version" => g.version = h.version
            /\ item.kind = "Version" /\ g.invalid = h.invalid =>
                 h.version = None /\ item.value # None /\ g.version = item.value
  <1>1. CASE item.kind = "Version"
    BY <1>1 DEF OfItem, OfVersion, HeaderFields
  <1>2. CASE item.kind = "AddressSize"
    BY <1>2 DEF OfItem, OfAddressSize, WithAddressSize, HeaderFields
  <1>3. CASE item.kind = "Target"
    <2> DEFINE modes == ModesOf(item.targets)
               k == WithTargets(h, item.targets)
               g == WithMode(k, modes)
    <2>1. modes \in Seq(Range(item.targets))
      BY <1>3, ModesAreSequence
    <2>2. Len(modes) \in Nat /\ (modes # <<>> => Len(modes) # 0)
      BY <2>1, EmptySeq, LenProperties
    <2>3. /\ DOMAIN k = HeaderFields /\ k.invalid \in Nat /\ k.invalid >= h.invalid
          /\ k.regions = Append(h.regions, [targets |-> item.targets]) /\ k.version = h.version
      BY DEF WithTargets, HeaderFields
    <2>4. OfItem(h, item) = g
      BY <1>3 DEF OfItem, OfTarget
    <2> HIDE DEF modes, k
    <2>5. /\ DOMAIN g = HeaderFields /\ g.invalid \in Nat /\ g.invalid >= k.invalid
          /\ g.regions = k.regions /\ g.version = k.version
      BY <2>2, <2>3, ModesCounted
    <2> QED BY <1>3, <2>3, <2>4, <2>5
  <1>4. CASE item.kind \notin {"Version", "AddressSize", "Target"}
    BY <1>4 DEF OfItem
  <1> QED BY <1>1, <1>2, <1>3, <1>4

(* The header after each item *)
Headers(g, m, n) == g = [i \in 0 .. n |-> IF i = 0 THEN EmptyHeader ELSE OfItem(g[i - 1], m[i])]

LEMMA HeadersExist ==
  ASSUME NEW m, NEW n \in Nat
  PROVE  \E g : Headers(g, m, n)
  <1> SUFFICES ASSUME {k \in Nat : ~ \E g : Headers(g, m, k)} # {} PROVE FALSE
    OBVIOUS
  <1>1. PICK k \in Nat : /\ ~ \E g : Headers(g, m, k)
                         /\ \A j \in Nat : (~ \E g : Headers(g, m, j)) => k <= j
    BY LeastNumber
  <1>2. CASE k = 0
    <2> DEFINE g == [i \in 0 .. 0 |-> EmptyHeader]
    <2>1. Headers(g, m, 0)
      BY DEF Headers
    <2> QED BY <1>1, <1>2, <2>1
  <1>3. CASE k > 0
    <2>1. PICK h : Headers(h, m, k - 1)
      <3>1. k - 1 \in Nat /\ ~ (k <= k - 1)
        BY <1>3
      <3> QED BY <3>1, <1>1
    <2> DEFINE g == [i \in 0 .. k |-> IF i < k THEN h[i] ELSE OfItem(h[k - 1], m[k])]
    <2>2. ASSUME NEW i \in 0 .. k
          PROVE  g[i] = IF i = 0 THEN EmptyHeader ELSE OfItem(g[i - 1], m[i])
      <3>1. CASE i < k
        <4>1. i \in 0 .. k - 1 /\ g[i] = h[i]
          BY <3>1, <1>3
        <4>2. h[i] = IF i = 0 THEN EmptyHeader ELSE OfItem(h[i - 1], m[i])
          BY <4>1, <2>1 DEF Headers
        <4>3. i # 0 => g[i - 1] = h[i - 1]
          BY <3>1, <1>3
        <4> QED BY <4>1, <4>2, <4>3
      <3>2. CASE i = k
        <4>1. k \in 0 .. k /\ ~ (k < k) /\ k - 1 \in 0 .. k /\ k - 1 < k /\ i # 0
          BY <3>2, <1>3
        <4>2. g[k] = OfItem(h[k - 1], m[k]) /\ g[k - 1] = h[k - 1]
          BY <4>1
        <4> QED BY <4>1, <4>2, <3>2
      <3> QED BY <3>1, <3>2
    <2>3. Headers(g, m, k)
      <3> HIDE DEF g
      <3>1. g = [i \in 0 .. k |-> g[i]]
        BY DEF g
      <3> QED BY <3>1, <2>2 DEF Headers
    <2> QED BY <1>1, <2>3
  <1> QED BY <1>2, <1>3

LEMMA HeaderIsLast ==
  ASSUME NEW m, NEW g, Headers(g, m, Len(m))
  PROVE  \E h : Headers(h, m, Len(m)) /\ AfterItems(m) = h[Len(m)]
  BY Zenon DEF AfterItems, Headers

LEMMA DirectivesGrow ==
  ASSUME NEW m, NEW k \in Nat, NEW kind
  PROVE  /\ DirectivesUpTo(m, k, kind) \subseteq 1 .. k
         /\ IsFiniteSet(DirectivesUpTo(m, k, kind))
         /\ DirectivesUpTo(m, k + 1, kind) =
              IF m[k + 1].kind = kind THEN DirectivesUpTo(m, k, kind) \cup {k + 1}
              ELSE DirectivesUpTo(m, k, kind)
  <1>1. DirectivesUpTo(m, k, kind) \subseteq 1 .. k
    BY DEF DirectivesUpTo
  <1>2. IsFiniteSet(DirectivesUpTo(m, k, kind))
    <2>1. IsFiniteSet(1 .. k)
      BY FS_Interval
    <2> QED BY <1>1, <2>1, FS_Subset
  <1>3. 1 .. k + 1 = (1 .. k) \cup {k + 1}
    OBVIOUS
  <1> QED BY <1>1, <1>2, <1>3 DEF DirectivesUpTo

LEMMA DirectivesAtStart == ASSUME NEW m, NEW kind PROVE DirectivesUpTo(m, 0, kind) = {}
  BY DEF DirectivesUpTo

LEMMA RegionsGrow ==
  ASSUME NEW m, NEW k \in Nat
  PROVE  /\ RegionAt(m, k) \in Nat /\ RegionAt(m, k) >= 1
         /\ RegionAt(m, k + 1) =
              IF m[k + 1].kind = "Target" THEN RegionAt(m, k) + 1 ELSE RegionAt(m, k)
  <1> DEFINE D == DirectivesUpTo(m, k, "Target")
  <1>1. /\ D \subseteq 1 .. k /\ IsFiniteSet(D)
        /\ DirectivesUpTo(m, k + 1, "Target")
             = IF m[k + 1].kind = "Target" THEN D \cup {k + 1} ELSE D
    BY DirectivesGrow
  <1> HIDE DEF D
  <1>2. Cardinality(D) \in Nat /\ k + 1 \notin D
    BY <1>1, FS_CardinalityType
  <1>3. Cardinality(D \cup {k + 1}) = Cardinality(D) + 1
    BY <1>1, <1>2, FS_AddElement
  <1> QED BY <1>1, <1>2, <1>3 DEF RegionAt, D

LEMMA GreatestIs ==
  ASSUME NEW k \in Nat, NEW D, D \subseteq 1 .. k
  PROVE  Max(D \cup {k + 1}) = k + 1
  <1> DEFINE S == D \cup {k + 1}
             P(x) == \A y \in S : x >= y
  <1>1. k + 1 \in S /\ P(k + 1)
    OBVIOUS
  <1>2. \A x \in S : P(x) => x = k + 1
    OBVIOUS
  <1> QED BY <1>1, <1>2 DEF Max

LEMMA LeastIs ==
  ASSUME NEW k \in Nat
  PROVE  Min({k + 1}) = k + 1
  <1>1. \A x \in {k + 1} : x = k + 1
    OBVIOUS
  <1>2. (k + 1) =< (k + 1)
    OBVIOUS
  <1> QED BY <1>1, <1>2 DEF Min

TargetsAt(m, k) ==
  IF DirectivesUpTo(m, k, "Target") = {} THEN <<>>
  ELSE m[Max(DirectivesUpTo(m, k, "Target"))].targets
VersionAt(m, k) ==
  IF DirectivesUpTo(m, k, "Version") = {} THEN None
  ELSE m[Min(DirectivesUpTo(m, k, "Version"))].value

(* The header after k items: a region for each target, and the version if   *)
(* no directive was invalid                                                 *)
HeaderSoFar(h, m, k) ==
  /\ DOMAIN h = HeaderFields /\ h.invalid \in Nat
  /\ h.regions \in Seq(Range(h.regions)) /\ Len(h.regions) = RegionAt(m, k)
  /\ \A j \in 0 .. k : /\ RegionAt(m, j) \in 1 .. Len(h.regions)
                       /\ h.regions[RegionAt(m, j)].targets = TargetsAt(m, j)
  /\ h.invalid = 0 => /\ h.version = VersionAt(m, k)
                      /\ DirectivesUpTo(m, k, "Version") # {} => h.version # None

LEMMA HeaderAtStart == ASSUME NEW m PROVE HeaderSoFar(EmptyHeader, m, 0)
  <1>1. RegionAt(m, 0) = 1
    BY DirectivesAtStart, FS_EmptySet DEF RegionAt
  <1> DEFINE region == [targets |-> <<>>]
  <1>2. EmptyHeader.regions = <<region>> /\ DOMAIN EmptyHeader = HeaderFields
        /\ EmptyHeader.invalid = 0 /\ EmptyHeader.version = None
    BY DEF EmptyHeader, HeaderFields
  <1>3. <<region>> \in Seq({region}) /\ Range(<<region>>) = {region} /\ Len(<<region>>) = 1
        /\ <<region>>[1].targets = <<>>
    BY DEF Range
  <1> HIDE DEF region
  <1>4. TargetsAt(m, 0) = <<>> /\ VersionAt(m, 0) = None
    BY DirectivesAtStart DEF TargetsAt, VersionAt
  <1>5. \A j \in 0 .. 0 : j = 0
    OBVIOUS
  <1> QED BY <1>1, <1>2, <1>3, <1>4, <1>5, DirectivesAtStart DEF HeaderSoFar

LEMMA VersionGrows ==
  ASSUME NEW m, NEW k \in Nat, NEW h, HeaderSoFar(h, m, k), NEW g,
         m[k + 1].kind # "Version" => g.version = h.version,
         m[k + 1].kind = "Version" /\ g.invalid = h.invalid =>
           h.version = None /\ m[k + 1].value # None /\ g.version = m[k + 1].value,
         h.invalid = 0, g.invalid = 0
  PROVE  /\ g.version = VersionAt(m, k + 1)
         /\ DirectivesUpTo(m, k + 1, "Version") # {} => g.version # None
  <1> DEFINE D == DirectivesUpTo(m, k, "Version")
             E == DirectivesUpTo(m, k + 1, "Version")
  <1>1. E = IF m[k + 1].kind = "Version" THEN D \cup {k + 1} ELSE D
    BY DirectivesGrow
  <1>2. h.version = VersionAt(m, k) /\ (D # {} => h.version # None)
    BY DEF HeaderSoFar
  <1> HIDE DEF D, E
  <1>3. CASE m[k + 1].kind # "Version"
    BY <1>1, <1>2, <1>3 DEF VersionAt, D, E
  <1>4. CASE m[k + 1].kind = "Version"
    <2>1. h.version = None /\ m[k + 1].value # None /\ g.version = m[k + 1].value
      BY <1>4
    <2>2. D = {} /\ E = {k + 1}
      BY <1>1, <1>2, <1>4, <2>1
    <2> QED BY <2>1, <2>2, LeastIs DEF VersionAt, E
  <1> QED BY <1>3, <1>4

LEMMA RegionsExtended ==
  ASSUME NEW m, NEW k \in Nat, NEW h, HeaderSoFar(h, m, k), NEW regions,
         m[k + 1].kind # "Target" => regions = h.regions,
         m[k + 1].kind = "Target" => regions = Append(h.regions, [targets |-> m[k + 1].targets])
  PROVE  /\ regions \in Seq(Range(regions)) /\ Len(regions) = RegionAt(m, k + 1)
         /\ \A j \in 0 .. k + 1 : /\ RegionAt(m, j) \in 1 .. Len(regions)
                                  /\ regions[RegionAt(m, j)].targets = TargetsAt(m, j)
  <1> DEFINE r == RegionAt(m, k)
             s == h.regions
             D == DirectivesUpTo(m, k, "Target")
             E == DirectivesUpTo(m, k + 1, "Target")
  <1>1. /\ s \in Seq(Range(s)) /\ Len(s) = r
        /\ \A j \in 0 .. k :
             RegionAt(m, j) \in 1 .. r /\ s[RegionAt(m, j)].targets = TargetsAt(m, j)
    BY DEF HeaderSoFar
  <1>2. r \in Nat /\ RegionAt(m, k + 1) = IF m[k + 1].kind = "Target" THEN r + 1 ELSE r
    BY RegionsGrow
  <1>3. D \subseteq 1 .. k /\ E = IF m[k + 1].kind = "Target" THEN D \cup {k + 1} ELSE D
    BY DirectivesGrow
  <1> HIDE DEF r, s, D, E
  <1>4. \A j \in 0 .. k + 1 : j \in 0 .. k \/ j = k + 1
    OBVIOUS
  <1>5. CASE m[k + 1].kind # "Target"
    <2>1. regions = s /\ RegionAt(m, k + 1) = r /\ E = D
      BY <1>2, <1>3, <1>5 DEF s
    <2>2. TargetsAt(m, k + 1) = TargetsAt(m, k) /\ k \in 0 .. k /\ RegionAt(m, k) = r
      BY <2>1 DEF TargetsAt, D, E, r
    <2> QED BY <1>1, <1>4, <2>1, <2>2
  <1>6. CASE m[k + 1].kind = "Target"
    <2> DEFINE new == [targets |-> m[k + 1].targets]
    <2>1. s \in Seq(Range(s) \cup {new})
      BY <1>1, SeqMonotonic
    <2> HIDE DEF new
    <2>2. /\ regions = Append(s, new) /\ new.targets = m[k + 1].targets
      BY <1>6 DEF new, s
    <2>3. /\ regions \in Seq(Range(s) \cup {new}) /\ Len(regions) = r + 1
          /\ \A i \in 1 .. r : regions[i] = s[i]
          /\ regions[r + 1] = new
      BY <1>1, <2>1, <2>2, AppendProperties, LenProperties
    <2>4. regions \in Seq(Range(regions))
      <3>1. DOMAIN regions = 1 .. Len(regions) /\ Len(regions) \in Nat
        BY <2>3, LenProperties
      <3>2. \A i \in 1 .. Len(regions) : regions[i] \in Range(regions)
        BY <3>1 DEF Range
      <3>3. regions = [i \in DOMAIN regions |-> regions[i]]
        BY <2>3
      <3> QED BY <2>3, <3>1, <3>2, <3>3, MappedSeq
    <2>5. TargetsAt(m, k + 1) = m[k + 1].targets
      <3>1. E = D \cup {k + 1} /\ E # {}
        BY <1>3, <1>6
      <3>2. Max(E) = k + 1
        BY <3>1, <1>3, GreatestIs
      <3> QED BY <3>1, <3>2 DEF TargetsAt, E
    <2>6. ASSUME NEW j \in 0 .. k
          PROVE  RegionAt(m, j) \in 1 .. r + 1 /\ regions[RegionAt(m, j)].targets = TargetsAt(m, j)
      BY <1>1, <1>2, <2>3
    <2>7. RegionAt(m, k + 1) = r + 1 /\ r + 1 \in 1 .. r + 1
      BY <1>2, <1>6
    <2> QED BY <1>4, <2>2, <2>3, <2>4, <2>5, <2>6, <2>7
  <1> QED BY <1>5, <1>6

LEMMA HeaderGrows ==
  ASSUME NEW m, NEW k \in Nat, NEW h, HeaderSoFar(h, m, k),
         m[k + 1].kind = "Target" => m[k + 1].targets \in Seq(Range(m[k + 1].targets))
  PROVE  HeaderSoFar(OfItem(h, m[k + 1]), m, k + 1)
  <1> DEFINE item == m[k + 1]
             g == OfItem(h, item)
  <1>1. DOMAIN h = HeaderFields /\ h.invalid \in Nat
    BY DEF HeaderSoFar
  <1>2. /\ DOMAIN g = HeaderFields /\ g.invalid \in Nat /\ g.invalid >= h.invalid
        /\ item.kind # "Target" => g.regions = h.regions
        /\ item.kind = "Target" => g.regions = Append(h.regions, [targets |-> item.targets])
        /\ item.kind # "Version" => g.version = h.version
        /\ item.kind = "Version" /\ g.invalid = h.invalid =>
             h.version = None /\ item.value # None /\ g.version = item.value
    BY <1>1, ItemCounted
  <1> HIDE DEF g
  <1>3. g.invalid = 0 => h.invalid = 0
    BY <1>1, <1>2
  <1>4. g.invalid = 0 => /\ g.version = VersionAt(m, k + 1)
                         /\ DirectivesUpTo(m, k + 1, "Version") # {} => g.version # None
    BY <1>2, <1>3, VersionGrows
  <1>5. /\ g.regions \in Seq(Range(g.regions)) /\ Len(g.regions) = RegionAt(m, k + 1)
        /\ \A j \in 0 .. k + 1 : /\ RegionAt(m, j) \in 1 .. Len(g.regions)
                                 /\ g.regions[RegionAt(m, j)].targets = TargetsAt(m, j)
    <2> DEFINE regions == g.regions
    <2>1. /\ m[k + 1].kind # "Target" => regions = h.regions
          /\ m[k + 1].kind = "Target" => regions = Append(h.regions, [targets |-> m[k + 1].targets])
      BY <1>2
    <2> HIDE DEF regions
    <2>2. /\ regions \in Seq(Range(regions)) /\ Len(regions) = RegionAt(m, k + 1)
          /\ \A j \in 0 .. k + 1 : /\ RegionAt(m, j) \in 1 .. Len(regions)
                                   /\ regions[RegionAt(m, j)].targets = TargetsAt(m, j)
      BY <2>1, RegionsExtended, ZenonT(60)
    <2> QED BY <2>2 DEF regions
  <1>6. HeaderSoFar(g, m, k + 1)
    BY <1>2, <1>4, <1>5 DEF HeaderSoFar
  <1> QED BY <1>6 DEF g

LEMMA HeaderIsSoFar ==
  ASSUME NEW m, Len(m) \in Nat,
         \A i \in 1 .. Len(m) : m[i].kind = "Target" => m[i].targets \in Seq(Range(m[i].targets))
  PROVE  HeaderSoFar(AfterItems(m), m, Len(m))
  <1> DEFINE n == Len(m)
  <1>1. PICK h : Headers(h, m, n) /\ AfterItems(m) = h[n]
    <2>1. \E g : Headers(g, m, Len(m))
      BY HeadersExist
    <2> QED BY <2>1, HeaderIsLast
  <1>2. n \in Nat /\ \A i \in 0 .. n : h[i] = IF i = 0 THEN EmptyHeader ELSE OfItem(h[i - 1], m[i])
    BY <1>1 DEF Headers
  <1> HIDE DEF n
  <1> DEFINE T == {i \in 0 .. n : ~ HeaderSoFar(h[i], m, i)}
  <1>3. ASSUME T # {} PROVE FALSE
    <2>1. PICK i \in T : \A j \in T : i <= j
      <3>1. T \subseteq Nat
        OBVIOUS
      <3> HIDE DEF T
      <3> QED BY <3>1, <1>3, LeastNumber
    <2>2. i \in 0 .. n /\ ~ HeaderSoFar(h[i], m, i)
      OBVIOUS
    <2>3. i # 0
      <3>1. h[0] = EmptyHeader
        BY <1>2
      <3> QED BY <2>2, <3>1, HeaderAtStart
    <2> DEFINE k == i - 1
    <2>4. k \in Nat /\ k \in 0 .. n /\ k + 1 = i /\ ~ (i <= k) /\ i \in 1 .. n
      BY <2>2, <2>3, <1>2
    <2>5. HeaderSoFar(h[k], m, k)
      <3>1. k \notin T
        <4> HIDE DEF T, k
        <4> QED BY <2>1, <2>4
      <3> QED BY <3>1, <2>4
    <2>6. h[i] = OfItem(h[k], m[i])
      BY <2>2, <2>3, <1>2
    <2> HIDE DEF k
    <2>7. m[k + 1].kind = "Target" => m[k + 1].targets \in Seq(Range(m[k + 1].targets))
      BY <2>4 DEF n
    <2>8. HeaderSoFar(OfItem(h[k], m[k + 1]), m, k + 1)
      BY <2>4, <2>5, <2>7, HeaderGrows
    <2> QED BY <2>2, <2>4, <2>6, <2>8
  <1>4. HeaderSoFar(h[n], m, n)
    <2>1. n \in 0 .. n
      BY <1>2
    <2> QED BY <2>1, <1>3
  <1> QED BY <1>1, <1>4 DEF n

(* The rules of declarations and the header go by one version and, for each *)
(* function, by one target, unless a directive is invalid.                  *)
THEOREM ConfigurationIsOne == ResolutionSpec => []OneConfiguration
  <1>1. ASSUME PipelineInv, Accepted, header.invalid = 0, NEW r \in Range(functions)
        PROVE  /\ r.version = modulePtxVersion(module)
               /\ header.regions[r.region].targets = TargetsAt(module, r.scope[1])
               /\ ActiveTarget(module, r.scope[1]) # None =>
                    LET profile == find_target_profile(TargetsAt(module, r.scope[1])[1])
                    IN /\ profile # None
                       /\ profile[1].architecture = ActiveTarget(module, r.scope[1])[1]
    <2> DEFINE h == AfterItems(module)
    <2>1. Resolving /\ AsFound
      BY <1>1 DEF PipelineInv, ArtifactsInv, Resolving, Published
    <2>2. PICK f : IsFunction(f) /\ r = FunctionRecord(f)
      BY <1>1, <2>1 DEF PipelineInv, FunctionsInv, HasRecord
    <2>3. /\ module \in Seq(Range(module)) /\ Len(module) \in Nat
          /\ \A i \in 1 .. Len(module) :
               module[i].kind = "Target" => module[i].targets \in Seq(Range(module[i].targets))
      <3>1. module \in Modules /\ module \in Seq(Range(module)) /\ Len(module) \in Nat
            /\ DOMAIN module = 1 .. Len(module)
        BY <2>1, ModuleIsSequence DEF AsFound
      <3>2. \A i \in 1 .. Len(module) : module[i] \in Range(module)
        BY <3>1 DEF Range
      <3> QED BY <3>1, <3>2, ModulesAssumption
    <2>4. HeaderSoFar(h, module, Len(module))
      BY <2>3, HeaderIsSoFar
    <2>5. header = Configured(h, module)
      BY <2>1 DEF AsFound, resolve_module_header
    <2> HIDE DEF h
    <2>6. /\ header.invalid = h.invalid
          /\ header.regions = [i \in DOMAIN h.regions |-> SourceRegion(h, h.regions[i].targets)]
      BY <2>5 DEF Configured
    <2>7. /\ h.version = VersionAt(module, Len(module))
          /\ RegionAt(module, f) \in DOMAIN h.regions
          /\ h.regions[RegionAt(module, f)].targets = TargetsAt(module, f)
      <3>1. f \in 0 .. Len(module)
        BY <2>2, <2>3 DEF IsFunction
      <3>2. DOMAIN h.regions = 1 .. Len(h.regions)
        BY <2>4, LenProperties DEF HeaderSoFar
      <3> QED BY <3>1, <3>2, <2>4, <2>6, <1>1 DEF HeaderSoFar
    <2>8. /\ header.regions[RegionAt(module, f)].version = h.version
          /\ header.regions[RegionAt(module, f)].targets = TargetsAt(module, f)
      BY <2>6, <2>7 DEF SourceRegion
    <2>9. /\ r.scope = <<f>> /\ r.region = RegionAt(module, f)
          /\ r.version = header.regions[RegionAt(module, f)].version
      BY <2>2, RecordFields DEF ConfiguredFunction
    <2>10. r.version = modulePtxVersion(module)
      BY <2>7, <2>8, <2>9 DEF VersionAt, modulePtxVersion
    <2>11. ASSUME ActiveTarget(module, f) # None
           PROVE  LET profile == find_target_profile(TargetsAt(module, f)[1])
                  IN profile # None /\ profile[1].architecture = ActiveTarget(module, f)[1]
      <3> DEFINE D == DirectivesUpTo(module, f, "Target")
                 directive == module[Max(D)]
                 profile == find_target_profile(directive.targets[1])
      <3>1. D # {} /\ ActiveTarget(module, f) = targetSmVersion(directive)
        BY <2>11 DEF ActiveTarget
      <3>2. TargetsAt(module, f) = directive.targets
        BY <3>1 DEF TargetsAt
      <3> HIDE DEF directive
      <3>3. targetSmVersion(directive) = ArchitectureOf(profile)
        BY <3>1, <2>11 DEF targetSmVersion
      <3> HIDE DEF profile
      <3>4. profile # None /\ ArchitectureOf(profile) = Some(profile[1].architecture)
        BY <3>1, <3>3, <2>11 DEF ArchitectureOf
      <3>5. ActiveTarget(module, f)[1] = profile[1].architecture
        BY <3>1, <3>3, <3>4 DEF Some
      <3> QED BY <3>2, <3>4, <3>5 DEF profile
    <2> QED BY <2>8, <2>9, <2>10, <2>11
  <1>2. PipelineInv => OneConfiguration
    BY <1>1 DEF OneConfiguration, TargetsAt
  <1> QED BY <1>2, PipelineIsSound, PTL

-----------------------------------------------------------------------------
(* The protocol of .param objects *)

LEMMA GreatestNumber ==
  ASSUME NEW n \in Nat, NEW T, T \subseteq 0 .. n, T # {}
  PROVE  \E x \in T : \A y \in T : y <= x
  <1> DEFINE U == {n - y : y \in T}
  <1>1. PICK u \in U : \A v \in U : u <= v
    <2>1. \A y \in T : y \in Nat /\ n - y \in Nat /\ n - y \in U
      OBVIOUS
    <2>2. U \subseteq Nat /\ U # {}
      BY <2>1
    <2> HIDE DEF U
    <2> QED BY <2>2, LeastNumber
  <1>2. PICK x \in T : u = n - x
    OBVIOUS
  <1>3. ASSUME NEW y \in T PROVE y <= x
    <2>1. u <= n - y
      BY <1>1
    <2>2. x \in Nat /\ y \in Nat
      <3>1. x \in 0 .. n /\ y \in 0 .. n
        BY Zenon
      <3> HIDE DEF U
      <3> QED BY <3>1
    <2> QED BY <2>1, <2>2, <1>2
  <1> QED BY <1>3

StoresAt(transfers, k) == transfers[k] # None /\ transfers[k][1].store
LoadsAt(transfers, k) == transfers[k] # None /\ ~ transfers[k][1].store

LEMMA AfterStoresIs ==
  ASSUME NEW transfers, Len(transfers) \in Nat, NEW i \in 1 .. Len(transfers),
         StoresAt(transfers, i)
  PROVE  /\ AfterStores(transfers, i) \in i + 1 .. Len(transfers) + 1
         /\ \A k \in i .. AfterStores(transfers, i) - 1 : StoresAt(transfers, k)
  <1> DEFINE n == Len(transfers)
             T == {j \in i + 1 .. n + 1 : j = n + 1 \/ ~ StoresAt(transfers, j)}
             Found(j) == /\ \A k \in i .. j - 1 : transfers[k] # None /\ transfers[k][1].store
                         /\ j = n + 1 \/ transfers[j] = None \/ ~ transfers[j][1].store
  <1>1. PICK j \in T : \A l \in T : j <= l
    <2>1. T \subseteq Nat /\ n + 1 \in T
      OBVIOUS
    <2> HIDE DEF T
    <2> QED BY <2>1, LeastNumber
  <1>2. j \in i + 1 .. n + 1 /\ (j = n + 1 \/ ~ StoresAt(transfers, j))
    OBVIOUS
  <1>3. ASSUME NEW k \in i .. j - 1 PROVE StoresAt(transfers, k)
    <2>1. CASE k = i
      BY <2>1
    <2>2. CASE k # i
      <3>1. k \in i + 1 .. n + 1 /\ k # n + 1 /\ ~ (j <= k)
        BY <2>2, <1>2
      <3>2. k \notin T
        <4> HIDE DEF T
        <4> QED BY <3>1, <1>1
      <3> QED BY <3>1, <3>2
    <2> QED BY <2>1, <2>2
  <1>4. Found(j)
    BY <1>2, <1>3 DEF StoresAt
  <1>5. AfterStores(transfers, i) \in i + 1 .. n + 1 /\ Found(AfterStores(transfers, i))
    <2>1. AfterStores(transfers, i) = CHOOSE l \in i + 1 .. n + 1 : Found(l)
      BY DEF AfterStores
    <2> HIDE DEF Found
    <2> QED BY <2>1, <1>2, <1>4
  <1> QED BY <1>5 DEF StoresAt

LEMMA BeforeLoadsIs ==
  ASSUME NEW transfers, Len(transfers) \in Nat, NEW i \in 1 .. Len(transfers),
         LoadsAt(transfers, i)
  PROVE  /\ BeforeLoads(transfers, i) \in 0 .. i - 1
         /\ \A k \in BeforeLoads(transfers, i) + 1 .. i : LoadsAt(transfers, k)
  <1> DEFINE T == {j \in 0 .. i - 1 : j = 0 \/ ~ LoadsAt(transfers, j)}
             Found(j) == /\ \A k \in j + 1 .. i : transfers[k] # None /\ ~ transfers[k][1].store
                         /\ j = 0 \/ transfers[j] = None \/ transfers[j][1].store
  <1>1. PICK j \in T : \A l \in T : l <= j
    <2>1. T \subseteq 0 .. i - 1 /\ 0 \in T /\ i - 1 \in Nat
      OBVIOUS
    <2> HIDE DEF T
    <2> QED BY <2>1, GreatestNumber
  <1>2. j \in 0 .. i - 1 /\ (j = 0 \/ ~ LoadsAt(transfers, j))
    OBVIOUS
  <1>3. ASSUME NEW k \in j + 1 .. i PROVE LoadsAt(transfers, k)
    <2>1. CASE k = i
      BY <2>1
    <2>2. CASE k # i
      <3>1. k \in 0 .. i - 1 /\ k # 0 /\ ~ (k <= j)
        BY <2>2, <1>2
      <3>2. k \notin T
        <4> HIDE DEF T
        <4> QED BY <3>1, <1>1
      <3> QED BY <3>1, <3>2
    <2> QED BY <2>1, <2>2
  <1>4. Found(j)
    BY <1>2, <1>3 DEF LoadsAt
  <1>5. BeforeLoads(transfers, i) \in 0 .. i - 1 /\ Found(BeforeLoads(transfers, i))
    <2>1. BeforeLoads(transfers, i) = CHOOSE l \in 0 .. i - 1 : Found(l)
      BY DEF BeforeLoads
    <2> HIDE DEF Found
    <2> QED BY <2>1, <1>2, <1>4
  <1> QED BY <1>5 DEF LoadsAt

(* The call at c has the object among its arguments, or among its results   *)
CallTakes(body, c, transfer) ==
  /\ Payload(body[c]) = "Call"
  /\ \E x \in Range(body[c].operands) :
       /\ x.role = (IF transfer.store THEN "Input" ELSE "Return")
       /\ x.parameter # None /\ ObjectOf(x) = transfer.object

(* A transfer is not predicated; a store is followed by nothing but stores  *)
(* up to the call that takes its object, a load is preceded by nothing but  *)
(* loads down to the call that gave its object.                             *)
Protected(body, transfers) ==
  \A i \in DOMAIN body :
    transfers[i] # None =>
      /\ \A x \in Range(body[i].operands) : x.role # "Guard"
      /\ transfers[i][1].store =>
           \E c \in i + 1 .. Len(body) : /\ \A k \in i .. c - 1 : StoresAt(transfers, k)
                                         /\ CallTakes(body, c, transfers[i][1])
      /\ ~ transfers[i][1].store =>
           \E c \in 1 .. i - 1 : /\ \A k \in c + 1 .. i : LoadsAt(transfers, k)
                                 /\ CallTakes(body, c, transfers[i][1])

LEMMA SilentIsProtected ==
  ASSUME NEW body, body \in Seq(Range(body)), NEW transfers, Len(transfers) = Len(body),
         \A x \in Range(body) : x.operands \in Seq(Range(x.operands)),
         \A i \in DOMAIN body : TransferIsSilent(body, transfers, i)
  PROVE  Protected(body, transfers)
  <1>1. /\ Len(body) \in Nat /\ DOMAIN body = 1 .. Len(body)
        /\ \A i \in DOMAIN body : body[i] \in Range(body)
    <2>1. \A i \in DOMAIN body : body[i] \in Range(body)
      BY DEF Range
    <2> QED BY <2>1, LenProperties
  <1>2. \A i \in DOMAIN body : \A roles :
          Range(InRole(body[i], roles)) = {o \in Range(body[i].operands) : o.role \in roles}
    BY <1>1, InRoles
  <1> SUFFICES ASSUME NEW i \in DOMAIN body, transfers[i] # None
               PROVE  /\ \A x \in Range(body[i].operands) : x.role # "Guard"
                      /\ transfers[i][1].store =>
                           \E c \in i + 1 .. Len(body) :
                             /\ \A k \in i .. c - 1 : StoresAt(transfers, k)
                             /\ CallTakes(body, c, transfers[i][1])
                      /\ ~ transfers[i][1].store =>
                           \E c \in 1 .. i - 1 : /\ \A k \in c + 1 .. i : LoadsAt(transfers, k)
                                                 /\ CallTakes(body, c, transfers[i][1])
    BY DEF Protected
  <1> DEFINE transfer == transfers[i][1]
             at == IF transfer.store THEN AfterStores(transfers, i) ELSE BeforeLoads(transfers, i)
  <1>3. InRole(body[i], {"Guard"}) = <<>> /\ HasCallAt(body, at, transfer)
    <2>1. TransferSays(body, transfers, i, transfer) = <<>>
      BY DEF TransferIsSilent
    <2>2. "TransferWithoutCall" \in Words /\ <<"PredicatedTransfer">> # <<>>
      BY DEF Words
    <2>3. When(~ HasCallAt(body, at, transfer), "TransferWithoutCall") = <<>>
            <=> HasCallAt(body, at, transfer)
      BY <2>2, WhenSays
    <2> HIDE DEF transfer
    <2> QED BY <2>1, <2>2, <2>3 DEF TransferSays
  <1>4. ASSUME NEW x \in Range(body[i].operands) PROVE x.role # "Guard"
    <2>1. Range(InRole(body[i], {"Guard"})) = {}
      BY <1>3 DEF Range
    <2>2. {o \in Range(body[i].operands) : o.role \in {"Guard"}} = {}
      BY <2>1, <1>2
    <2>3. x \notin {o \in Range(body[i].operands) : o.role \in {"Guard"}}
      BY <2>2
    <2> QED BY <2>3
  <1>5. at \in DOMAIN body /\ CallTakes(body, at, transfer)
    <2> HIDE DEF at
    <2>1. /\ at \in DOMAIN body /\ Payload(body[at]) = "Call"
          /\ transfer.object \in CallObjects(body[at], TransferredBy(transfer.store))
      BY <1>3 DEF HasCallAt
    <2>2. PICK x \in Range(InRole(body[at], {TransferredBy(transfer.store)})) :
            x.parameter # None /\ transfer.object = ObjectOf(x)
      BY <2>1 DEF CallObjects
    <2>3. x \in Range(body[at].operands) /\ x.role = TransferredBy(transfer.store)
      BY <2>1, <2>2, <1>2
    <2> QED BY <2>1, <2>2, <2>3 DEF CallTakes, TransferredBy
  <1>6. ASSUME transfer.store
        PROVE  \E c \in i + 1 .. Len(body) : /\ \A k \in i .. c - 1 : StoresAt(transfers, k)
                                             /\ CallTakes(body, c, transfer)
    <2>1. /\ AfterStores(transfers, i) \in i + 1 .. Len(body) + 1
          /\ \A k \in i .. AfterStores(transfers, i) - 1 : StoresAt(transfers, k)
      BY <1>1, <1>6, AfterStoresIs DEF StoresAt
    <2>2. at = AfterStores(transfers, i) /\ at \in 1 .. Len(body)
      BY <1>1, <1>5, <1>6
    <2>3. at \in i + 1 .. Len(body)
      <3> HIDE DEF at
      <3> QED BY <2>1, <2>2, <1>1
    <2> QED BY <2>1, <2>2, <2>3, <1>5
  <1>7. ASSUME ~ transfer.store
        PROVE  \E c \in 1 .. i - 1 : /\ \A k \in c + 1 .. i : LoadsAt(transfers, k)
                                     /\ CallTakes(body, c, transfer)
    <2>1. /\ BeforeLoads(transfers, i) \in 0 .. i - 1
          /\ \A k \in BeforeLoads(transfers, i) + 1 .. i : LoadsAt(transfers, k)
      BY <1>1, <1>7, BeforeLoadsIs DEF LoadsAt
    <2>2. at = BeforeLoads(transfers, i) /\ at \in 1 .. Len(body)
      BY <1>1, <1>5, <1>7
    <2>3. at \in 1 .. i - 1
      <3> HIDE DEF at
      <3> QED BY <2>1, <2>2, <1>1
    <2> QED BY <2>1, <2>2, <2>3, <1>5
  <1> QED BY <1>4, <1>6, <1>7

-----------------------------------------------------------------------------
(* The sum of the inputs of a kernel *)

(* The values of a recursion over 1 .. n *)
Chain(g, a, F, n) == g = [i \in 0 .. n |-> IF i = 0 THEN a ELSE F[<<g[i - 1], i>>]]

LEMMA ChainsExist ==
  ASSUME NEW a, NEW F, NEW n \in Nat
  PROVE  \E g : Chain(g, a, F, n)
  <1> SUFFICES ASSUME {k \in Nat : ~ \E g : Chain(g, a, F, k)} # {} PROVE FALSE
    OBVIOUS
  <1>1. PICK k \in Nat : /\ ~ \E g : Chain(g, a, F, k)
                         /\ \A j \in Nat : (~ \E g : Chain(g, a, F, j)) => k <= j
    BY LeastNumber
  <1>2. CASE k = 0
    <2> DEFINE g == [i \in 0 .. 0 |-> a]
    <2>1. Chain(g, a, F, 0)
      BY DEF Chain
    <2> QED BY <1>1, <1>2, <2>1
  <1>3. CASE k > 0
    <2>1. PICK h : Chain(h, a, F, k - 1)
      <3>1. k - 1 \in Nat /\ ~ (k <= k - 1)
        BY <1>3
      <3> QED BY <3>1, <1>1
    <2> DEFINE g == [i \in 0 .. k |-> IF i < k THEN h[i] ELSE F[<<h[k - 1], k>>]]
    <2>2. ASSUME NEW i \in 0 .. k
          PROVE  g[i] = IF i = 0 THEN a ELSE F[<<g[i - 1], i>>]
      <3>1. CASE i < k
        <4>1. i \in 0 .. k - 1 /\ g[i] = h[i]
          BY <3>1, <1>3
        <4>2. h[i] = IF i = 0 THEN a ELSE F[<<h[i - 1], i>>]
          BY <4>1, <2>1 DEF Chain
        <4>3. i # 0 => g[i - 1] = h[i - 1]
          BY <3>1, <1>3
        <4> QED BY <4>1, <4>2, <4>3
      <3>2. CASE i = k
        <4>1. k \in 0 .. k /\ ~ (k < k) /\ k - 1 \in 0 .. k /\ k - 1 < k /\ i # 0
          BY <3>2, <1>3
        <4>2. g[k] = F[<<h[k - 1], k>>] /\ g[k - 1] = h[k - 1]
          BY <4>1
        <4> QED BY <4>1, <4>2, <3>2
      <3> QED BY <3>1, <3>2
    <2>3. Chain(g, a, F, k)
      <3> HIDE DEF g
      <3>1. g = [i \in 0 .. k |-> g[i]]
        BY DEF g
      <3> QED BY <3>1, <2>2 DEF Chain
    <2> QED BY <1>1, <2>3
  <1> QED BY <1>2, <1>3

(* The extent of an input is a number, if it is known, and so is how often  *)
(* the input counts.                                                        *)
Counted(inputs) ==
  \A i \in 1 .. Len(inputs) :
    /\ inputs[i].copies \in Nat
    /\ inputs[i].extent = None \/ \E e \in Nat : inputs[i].extent = Some(e)

(* The same sum in numbers of any size *)
BytesOf(input) == IF input.extent = None THEN 0 ELSE input.extent[1] * input.copies
ExactSum(inputs) ==
  LET sum[i \in 0 .. Len(inputs)] == IF i = 0 THEN 0 ELSE sum[i - 1] + BytesOf(inputs[i])
  IN sum[Len(inputs)]

(* An input that has no size or counts not at all *)
Unsized(inputs) == \E i \in 1 .. Len(inputs) : inputs[i].extent = None \/ inputs[i].copies = 0

LEMMA QuotientBounds ==
  ASSUME NEW e \in Nat, NEW c \in Nat, c # 0, NEW w \in Nat
  PROVE  e > w \div c <=> e * c > w
  <1> DEFINE q == w \div c
             r == w % c
  <1>1. q \in Nat /\ r \in Nat /\ r < c /\ w = q * c + r
    BY Z3
  <1> HIDE DEF q, r
  <1>2. CASE e > q
    <2>1. (e - q - 1) * c >= 0
      BY <1>1, <1>2, Z3
    <2>2. e * c = (e - q - 1) * c + q * c + c
      BY <1>1, <1>2, Z3
    <2>3. e * c \in Int /\ q * c \in Int /\ (e - q - 1) * c \in Int
      BY <1>1
    <2> QED BY <1>1, <1>2, <2>1, <2>2, <2>3 DEF q
  <1>3. CASE ~ (e > q)
    <2>1. (q - e) * c >= 0
      BY <1>1, <1>3, Z3
    <2>2. q * c = (q - e) * c + e * c
      BY <1>1, <1>3, Z3
    <2>3. e * c \in Int /\ q * c \in Int /\ (q - e) * c \in Int
      BY <1>1
    <2> QED BY <1>1, <1>3, <2>1, <2>2, <2>3 DEF q
  <1> QED BY <1>2, <1>3

LEMMA SmallIsNotWrapped ==
  ASSUME Word \in Nat, NEW n \in Nat, n < Word
  PROVE  Wrapped(n) = n
  <1> DEFINE w == Word
  <1>1. w \in Nat /\ n < w
    OBVIOUS
  <1>2. Wrapped(n) = n % w
    BY DEF Wrapped
  <1> HIDE DEF w
  <1> QED BY <1>1, <1>2, Z3

(* The sum so far, against the exact sum so far *)
SumMeets(sum, total, unsized) ==
  /\ sum = None <=> unsized \/ total > LegacyCeiling
  /\ sum # None => sum = Some(total)

LEMMA BytesAreCounted ==
  ASSUME NEW input, input.copies \in Nat,
         input.extent = None \/ \E e \in Nat : input.extent = Some(e)
  PROVE  BytesOf(input) \in Nat
  <1>1. CASE input.extent = None
    BY <1>1 DEF BytesOf
  <1>2. ASSUME NEW e \in Nat, input.extent = Some(e) PROVE BytesOf(input) \in Nat
    <2>1. input.extent[1] = e /\ input.extent # None
      BY <1>2 DEF Some, None
    <2>2. BytesOf(input) = e * input.copies
      BY <2>1 DEF BytesOf
    <2> QED BY <2>2
  <1> QED BY <1>1, <1>2

LEMMA InputIsExact ==
  ASSUME Word \in Nat, Word > LegacyCeiling, NEW input, input.copies \in Nat,
         input.extent = None \/ \E e \in Nat : input.extent = Some(e),
         NEW sum, NEW total \in Nat, NEW unsized \in BOOLEAN, SumMeets(sum, total, unsized)
  PROVE  SumMeets(WithInput(sum, input), total + BytesOf(input),
                  unsized \/ input.extent = None \/ input.copies = 0)
  <1> DEFINE all == total + BytesOf(input)
             refused == unsized \/ input.extent = None \/ input.copies = 0
  <1>1. BytesOf(input) \in Nat /\ all \in Nat /\ LegacyCeiling \in Nat
    BY BytesAreCounted DEF LegacyCeiling
  <1>2. CASE sum = None
    <2>1. WithInput(sum, input) = None
      BY <1>2 DEF WithInput
    <2>2. unsized \/ total > LegacyCeiling
      BY <1>2 DEF SumMeets
    <2>3. refused \/ all > LegacyCeiling
      BY <2>2, <1>1
    <2> QED BY <2>1, <2>3 DEF SumMeets
  <1>3. CASE sum # None /\ (input.extent = None \/ input.copies = 0)
    <2>1. WithInput(sum, input) = None
      BY <1>3 DEF WithInput
    <2> QED BY <1>3, <2>1 DEF SumMeets
  <1>4. CASE sum # None /\ input.extent # None /\ input.copies # 0
    <2>1. PICK e \in Nat : input.extent = Some(e)
      BY <1>4
    <2> DEFINE c == input.copies
               exact == e * c
               bytes == Wrapped(exact)
    <2>2. /\ c \in Nat /\ exact \in Nat /\ input.extent[1] = e /\ BytesOf(input) = exact
          /\ all = total + exact
      <3>1. input.extent[1] = e /\ input.extent # None
        BY <2>1 DEF Some, None
      <3>2. BytesOf(input) = exact
        BY <3>1 DEF BytesOf
      <3> QED BY <3>1, <3>2
    <2>3. sum = Some(total) /\ sum[1] = total /\ ~ unsized /\ total <= LegacyCeiling
      <3>1. sum = Some(total) /\ ~ unsized /\ ~ (total > LegacyCeiling)
        BY <1>4 DEF SumMeets
      <3> QED BY <3>1, <1>1 DEF Some
    <2>4. WithInput(sum, input) =
            IF \/ e > (Word - 1) \div c \/ total > Word - 1 - bytes
               \/ Wrapped(total + bytes) > LegacyCeiling
            THEN None ELSE Some(Wrapped(total + bytes))
      <3> HIDE DEF c
      <3>1. bytes = Wrapped(input.extent[1] * c)
        BY <2>2
      <3> HIDE DEF bytes
      <3> QED BY <1>4, <2>2, <2>3, <3>1 DEF WithInput, c
    <2>5. ~ refused
      BY <1>4, <2>3
    <2>6. Word - 1 \in Nat
      BY <1>1
    <2>7. e > (Word - 1) \div c <=> exact > Word - 1
      BY <1>4, <2>6, QuotientBounds
    <2>8. exact <= Word - 1 => bytes = exact
      BY <2>2, <2>6, SmallIsNotWrapped
    <2>9. total + exact <= Word - 1 => Wrapped(total + exact) = total + exact
      BY <2>2, <2>6, SmallIsNotWrapped
    <2> HIDE DEF all, refused, exact, bytes, c
    <2>10. Some(all) # None
      BY DEF Some, None
    <2>11. CASE exact > Word - 1
      <3>1. WithInput(sum, input) = None /\ all > LegacyCeiling
        BY <2>2, <2>4, <2>7, <2>11, <1>1
      <3> QED BY <3>1 DEF SumMeets, all, refused
    <2>12. CASE ~ (exact > Word - 1)
      <3>1. bytes = exact
        BY <2>2, <2>8, <2>12, <2>6
      <3>2. CASE total > Word - 1 - exact
        <4>1. WithInput(sum, input) = None /\ all > LegacyCeiling
          BY <2>2, <2>4, <3>1, <3>2, <1>1
        <4> QED BY <4>1 DEF SumMeets, all, refused
      <3>3. CASE ~ (total > Word - 1 - exact)
        <4>1. Wrapped(total + exact) = all
          BY <2>2, <2>9, <3>3, <1>1
        <4>2. WithInput(sum, input) = IF all > LegacyCeiling THEN None ELSE Some(all)
          BY <2>4, <2>7, <2>12, <3>1, <3>3, <4>1
        <4> QED BY <4>2, <2>5, <2>10 DEF SumMeets, all, refused
      <3> QED BY <3>2, <3>3
    <2> QED BY <2>11, <2>12
  <1> QED BY <1>2, <1>3, <1>4

LEMMA ChainsStay ==
  ASSUME NEW V, NEW a \in V, NEW n \in Nat, NEW F \in [V \X (1 .. n) -> V]
  PROVE  \E g \in [0 .. n -> V] : Chain(g, a, F, n)
  <1>1. PICK g : Chain(g, a, F, n)
    BY ChainsExist
  <1>2. \A i \in 0 .. n : g[i] = IF i = 0 THEN a ELSE F[<<g[i - 1], i>>]
    BY <1>1 DEF Chain
  <1> DEFINE T == {i \in 0 .. n : g[i] \notin V}
  <1>3. T = {}
    <2> SUFFICES ASSUME T # {} PROVE FALSE
      OBVIOUS
    <2>1. T \subseteq Nat
      OBVIOUS
    <2> HIDE DEF T
    <2>2. PICK i \in T : \A j \in T : i <= j
      BY <2>1, LeastNumber
    <2>3. i \in 0 .. n /\ g[i] \notin V
      BY <2>2 DEF T
    <2>4. i # 0
      BY <2>3, <1>2
    <2>5. i - 1 \in 0 .. n /\ i \in 1 .. n /\ i - 1 \notin T
      BY <2>1, <2>2, <2>3, <2>4
    <2>6. g[i - 1] \in V
      BY <2>5 DEF T
    <2>7. g[i] = F[<<g[i - 1], i>>]
      BY <2>3, <2>4, <1>2
    <2>8. <<g[i - 1], i>> \in V \X (1 .. n)
      BY <2>5, <2>6
    <2> QED BY <2>3, <2>7, <2>8
  <1>4. g = [i \in 0 .. n |-> g[i]]
    BY <1>1 DEF Chain
  <1>5. g \in [0 .. n -> V]
    BY <1>3, <1>4
  <1> QED BY <1>1, <1>5

(* The sums so far *)
Sums(g, inputs) ==
  g = [i \in 0 .. Len(inputs) |-> IF i = 0 THEN Some(0) ELSE WithInput(g[i - 1], inputs[i])]
ExactSums(g, inputs) ==
  g = [i \in 0 .. Len(inputs) |-> IF i = 0 THEN 0 ELSE g[i - 1] + BytesOf(inputs[i])]

LEMMA WrappedIsNumber ==
  ASSUME Word \in Nat, Word > 0, NEW n \in Nat
  PROVE  Wrapped(n) \in Nat
  <1> DEFINE w == Word
  <1>1. w \in Nat /\ w > 0 /\ Wrapped(n) = n % w
    BY DEF Wrapped
  <1> HIDE DEF w
  <1> QED BY <1>1

LEMMA SumsExist ==
  ASSUME Word \in Nat, Word > LegacyCeiling, NEW S, NEW inputs \in Seq(S), Counted(inputs)
  PROVE  \E g : Sums(g, inputs)
  <1> DEFINE n == Len(inputs)
             V == {None} \cup {Some(k) : k \in Nat}
             F == [p \in V \X (1 .. n) |-> WithInput(p[1], inputs[p[2]])]
  <1>1. n \in Nat
    BY LenProperties
  <1>2. ASSUME NEW v \in V, NEW i \in 1 .. n PROVE WithInput(v, inputs[i]) \in V
    <2>1. CASE v = None \/ inputs[i].extent = None
      BY <2>1 DEF WithInput
    <2>2. CASE v # None /\ inputs[i].extent # None
      <3>1. PICK k \in Nat : v = Some(k)
        BY <2>2
      <3>2. PICK e \in Nat : inputs[i].extent = Some(e)
        BY <2>2 DEF Counted
      <3> DEFINE c == inputs[i].copies
                 bytes == Wrapped(inputs[i].extent[1] * c)
                 x == v[1] + bytes
      <3>3. c \in Nat /\ v[1] = k /\ inputs[i].extent[1] = e
        BY <3>1, <3>2 DEF Counted, Some
      <3>4. e * c \in Nat /\ Word > 0
        BY <3>3 DEF LegacyCeiling
      <3>5. bytes \in Nat
        BY <3>3, <3>4, WrappedIsNumber
      <3>6. WithInput(v, inputs[i]) \in {None, Some(Wrapped(x))}
        BY DEF WithInput
      <3> HIDE DEF bytes
      <3>7. x \in Nat
        BY <3>3, <3>5
      <3> HIDE DEF x
      <3>8. Wrapped(x) \in Nat
        BY <3>4, <3>7, WrappedIsNumber
      <3> QED BY <3>6, <3>8
    <2> QED BY <2>1, <2>2
  <1> HIDE DEF V
  <1>3. ASSUME NEW v \in V, NEW i \in 1 .. n
        PROVE  F[<<v, i>>] = WithInput(v, inputs[i]) /\ F[<<v, i>>] \in V
    <2>1. <<v, i>> \in V \X (1 .. n)
      OBVIOUS
    <2> QED BY <2>1, <1>2
  <1>4. F \in [V \X (1 .. n) -> V]
    <2>1. ASSUME NEW p \in V \X (1 .. n) PROVE WithInput(p[1], inputs[p[2]]) \in V
      <3>1. p[1] \in V /\ p[2] \in 1 .. n
        OBVIOUS
      <3> QED BY <3>1, <1>2
    <2> QED BY <2>1
  <1>5. Some(0) \in V
    BY DEF V
  <1> HIDE DEF F
  <1>6. PICK g \in [0 .. n -> V] : Chain(g, Some(0), F, n)
    BY <1>1, <1>4, <1>5, ChainsStay
  <1>7. ASSUME NEW i \in 0 .. n
        PROVE  g[i] = IF i = 0 THEN Some(0) ELSE WithInput(g[i - 1], inputs[i])
    <2>1. g[i] = IF i = 0 THEN Some(0) ELSE F[<<g[i - 1], i>>]
      BY <1>6 DEF Chain
    <2>2. ASSUME i # 0 PROVE F[<<g[i - 1], i>>] = WithInput(g[i - 1], inputs[i])
      <3>1. i - 1 \in 0 .. n /\ i \in 1 .. n
        BY <1>1, <2>2
      <3>2. g[i - 1] \in V
        BY <3>1, <1>6
      <3> QED BY <3>1, <3>2, <1>3
    <2> QED BY <2>1, <2>2
  <1>8. g = [i \in 0 .. n |-> g[i]]
    BY <1>6
  <1>9. Sums(g, inputs)
    BY <1>7, <1>8 DEF Sums
  <1> QED BY <1>9

LEMMA ExactSumsExist ==
  ASSUME NEW S, NEW inputs \in Seq(S), Counted(inputs)
  PROVE  \E g \in [0 .. Len(inputs) -> Nat] : ExactSums(g, inputs)
  <1> DEFINE n == Len(inputs)
             F == [p \in Nat \X (1 .. n) |-> p[1] + BytesOf(inputs[p[2]])]
  <1>1. n \in Nat
    BY LenProperties
  <1>2. \A i \in 1 .. n : BytesOf(inputs[i]) \in Nat
    BY BytesAreCounted DEF Counted
  <1>3. ASSUME NEW v \in Nat, NEW i \in 1 .. n PROVE F[<<v, i>>] = v + BytesOf(inputs[i])
    <2>1. <<v, i>> \in Nat \X (1 .. n)
      OBVIOUS
    <2> QED BY <2>1
  <1>4. F \in [Nat \X (1 .. n) -> Nat]
    <2>1. ASSUME NEW p \in Nat \X (1 .. n) PROVE p[1] + BytesOf(inputs[p[2]]) \in Nat
      <3>1. p[1] \in Nat /\ p[2] \in 1 .. n
        OBVIOUS
      <3> QED BY <3>1, <1>2
    <2> QED BY <2>1
  <1> HIDE DEF F
  <1>5. PICK g \in [0 .. n -> Nat] : Chain(g, 0, F, n)
    BY <1>1, <1>4, ChainsStay
  <1>6. ASSUME NEW i \in 0 .. n
        PROVE  g[i] = IF i = 0 THEN 0 ELSE g[i - 1] + BytesOf(inputs[i])
    <2>1. g[i] = IF i = 0 THEN 0 ELSE F[<<g[i - 1], i>>]
      BY <1>5 DEF Chain
    <2>2. ASSUME i # 0 PROVE F[<<g[i - 1], i>>] = g[i - 1] + BytesOf(inputs[i])
      <3>1. i - 1 \in 0 .. n /\ i \in 1 .. n
        BY <1>1, <2>2
      <3>2. g[i - 1] \in Nat
        BY <3>1, <1>5
      <3> QED BY <3>1, <3>2, <1>3
    <2> QED BY <2>1, <2>2
  <1>7. g = [i \in 0 .. n |-> g[i]]
    BY <1>5
  <1>8. ExactSums(g, inputs)
    BY <1>6, <1>7 DEF ExactSums
  <1> QED BY <1>8

LEMMA SumIsLast ==
  ASSUME NEW inputs, NEW g, Sums(g, inputs)
  PROVE  \E h : Sums(h, inputs) /\ SumOfInputs(inputs) = h[Len(inputs)]
  BY Zenon DEF SumOfInputs, Sums

LEMMA ExactSumIsLast ==
  ASSUME NEW inputs, NEW g, ExactSums(g, inputs)
  PROVE  \E h : ExactSums(h, inputs) /\ ExactSum(inputs) = h[Len(inputs)]
  BY Zenon DEF ExactSum, ExactSums

(* Whatever the width of an integer value, the inputs of a kernel are       *)
(* accepted exactly if each has a size, none counts zero times, and their   *)
(* sum, in numbers of any size, is not over the limit of the first          *)
(* versions: no product and no sum of check_legacy_entry_input_sizes() has  *)
(* wrapped around when it is compared.                                      *)
THEOREM LegacySumIsExact ==
  ASSUME Word \in Nat, Word > LegacyCeiling, NEW S, NEW inputs \in Seq(S), Counted(inputs)
  PROVE  /\ SumMeets(SumOfInputs(inputs), ExactSum(inputs), Unsized(inputs))
         /\ ExactSum(inputs) \in Nat
  <1> DEFINE n == Len(inputs)
             UnsizedTo(i) == \E j \in 1 .. i : inputs[j].extent = None \/ inputs[j].copies = 0
  <1>1. n \in Nat
    BY LenProperties
  <1>2. PICK g : Sums(g, inputs) /\ SumOfInputs(inputs) = g[n]
    BY SumsExist, SumIsLast
  <1>3. PICK x : ExactSums(x, inputs) /\ ExactSum(inputs) = x[n]
    BY ExactSumsExist, ExactSumIsLast
  <1>4. \A i \in 0 .. n : /\ g[i] = IF i = 0 THEN Some(0) ELSE WithInput(g[i - 1], inputs[i])
                          /\ x[i] = IF i = 0 THEN 0 ELSE x[i - 1] + BytesOf(inputs[i])
    BY <1>2, <1>3 DEF Sums, ExactSums
  <1> DEFINE T == {i \in 0 .. n : ~ (x[i] \in Nat /\ SumMeets(g[i], x[i], UnsizedTo(i)))}
  <1>5. T = {}
    <2> SUFFICES ASSUME T # {} PROVE FALSE
      OBVIOUS
    <2> HIDE DEF UnsizedTo
    <2>1. T \subseteq Nat
      <3>1. T \subseteq 0 .. n
        BY Zenon DEF T
      <3> HIDE DEF T
      <3> QED BY <3>1, SMT
    <2> HIDE DEF T
    <2>2. PICK i \in T : \A j \in T : i <= j
      BY <2>1, LeastNumber
    <2>3. i \in 0 .. n /\ ~ (x[i] \in Nat /\ SumMeets(g[i], x[i], UnsizedTo(i)))
      BY <2>2, Zenon DEF T
    <2> USE DEF UnsizedTo
    <2>4. CASE i = 0
      <3>1. g[i] = Some(0) /\ x[i] = 0 /\ ~ UnsizedTo(i)
        BY <2>3, <2>4, <1>4
      <3> HIDE DEF UnsizedTo
      <3>2. SumMeets(g[i], x[i], UnsizedTo(i))
        BY <3>1, SMTT(30) DEF SumMeets, Some, None, LegacyCeiling
      <3> QED BY <2>3, <3>1, <3>2
    <2>5. CASE i # 0
      <3>1. i - 1 \in 0 .. n /\ i \in 1 .. n /\ i - 1 \notin T
        BY <2>1, <2>2, <2>3, <2>5
      <3>2. x[i - 1] \in Nat /\ SumMeets(g[i - 1], x[i - 1], UnsizedTo(i - 1))
        BY <3>1 DEF T
      <3>3. g[i] = WithInput(g[i - 1], inputs[i]) /\ x[i] = x[i - 1] + BytesOf(inputs[i])
        BY <2>3, <2>5, <1>4
      <3>4. /\ inputs[i].copies \in Nat
            /\ inputs[i].extent = None \/ \E e \in Nat : inputs[i].extent = Some(e)
        BY <3>1 DEF Counted
      <3>5. UnsizedTo(i) <=> UnsizedTo(i - 1) \/ inputs[i].extent = None \/ inputs[i].copies = 0
        <4>1. 1 .. i = (1 .. i - 1) \cup {i}
          BY <3>1
        <4> QED BY <4>1
      <3>6. UnsizedTo(i - 1) \in BOOLEAN
        OBVIOUS
      <3> HIDE DEF UnsizedTo
      <3>7. SumMeets(g[i], x[i],
                     UnsizedTo(i - 1) \/ inputs[i].extent = None \/ inputs[i].copies = 0)
        BY <3>2, <3>3, <3>4, <3>6, InputIsExact
      <3>8. x[i] \in Nat
        BY <3>2, <3>3, <3>4, BytesAreCounted
      <3>9. SumMeets(g[i], x[i], UnsizedTo(i))
        BY <3>5, <3>7 DEF SumMeets
      <3> QED BY <2>3, <3>8, <3>9
    <2> QED BY <2>4, <2>5
  <1>6. n \in 0 .. n
    BY <1>1
  <1>7. SumMeets(g[n], x[n], UnsizedTo(n))
    BY <1>5, <1>6
  <1>8. UnsizedTo(n) <=> Unsized(inputs)
    BY DEF Unsized
  <1> HIDE DEF UnsizedTo
  <1> QED BY <1>2, <1>3, <1>5, <1>6, <1>7, <1>8 DEF SumMeets

-----------------------------------------------------------------------------
(* What a returned module keeps of the checks *)

(* A function is declared before it is called by its name, and is no kernel. *)
CalleesAreVisible(t, r) ==
  \A x \in Range(r.body) : \A callee \in Range(x.operands) :
    callee.role = "Callee" =>
      /\ callee.symbol \in DOMAIN t.symbols
      /\ IsDeviceFunction(t.symbols[callee.symbol])
      /\ hasPriorDeclaration(t, callee.symbol, x.node.at)

(* No input of an early kernel is stored to, and an address of a .param     *)
(* object is qualified as the object is declared.                           *)
AccessesAreAllowed(t, r) ==
  \A x \in Range(r.body) : \A base \in Range(parameter_address(t, x)) :
    /\ Payload(x) = "Store" => ~ HasRole(r, base.symbol, "LegacyEntryInput")
    /\ base.address[1].qualifier = "Entry" => IsEntryInput(r, t.symbols[base.symbol], base.symbol)
    /\ base.address[1].qualifier = "Function" /\ r.is_entry =>
         IsLocalObject(r, t.symbols[base.symbol], base.symbol)

(* The inputs of a kernel fit, if their extents are numbers *)
InputsFit(t, r) ==
  Counted(LegacyInputs(t, r)) =>
    ~ Unsized(LegacyInputs(t, r)) /\ ExactSum(LegacyInputs(t, r)) <= LegacyCeiling

LEMMA InputsAreSequence ==
  ASSUME NEW t, NEW r, OfSequences(r)
  PROVE  \E S : LegacyInputs(t, r) \in Seq(S)
  <1> DEFINE s == r.parameter_declarations
             input(record) == [extent |-> record.byte_extent, copies |-> Copies(t, record.symbol)]
             S == {input(record) : record \in Range(s)}
             g == [i \in DOMAIN s |->
                     IF s[i].role = "LegacyEntryInput" THEN <<input(s[i])>> ELSE <<>>]
  <1>1. LegacyInputs(t, r) = FlattenSeq(g)
    BY DEF LegacyInputs, Each, When
  <1>2. s \in Seq(Range(s))
    BY DEF OfSequences
  <1>3. ASSUME NEW i \in DOMAIN s PROVE g[i] \in Seq(S)
    <2>1. input(s[i]) \in S
      BY DEF Range
    <2> HIDE DEF S, input
    <2>2. <<input(s[i])>> \in Seq(S) /\ <<>> \in Seq(S)
      BY <2>1
    <2> QED BY <2>2
  <1>4. g = [i \in DOMAIN s |-> g[i]]
    OBVIOUS
  <1> HIDE DEF g, S, s
  <1>5. FlattenSeq(g) \in Seq(S)
    BY <1>2, <1>3, <1>4, EachSays
  <1> QED BY <1>1, <1>5

LEMMA AcceptedIsChecked ==
  ASSUME PipelineInv, Accepted, Word \in Nat, Word > LegacyCeiling, NEW r \in Range(functions)
  PROVE  /\ CalleesAreVisible(table, r)
         /\ AccessesAreAllowed(table, r)
         /\ Protected(r.body, TransfersOf(table, r))
         /\ InputsFit(table, r)
  <1>1. Resolving /\ Published
    BY DEF Resolving, Published
  <1>2. OfSequences(r)
    BY <1>1, RecordsAreFunctions
  <1>3. /\ check_legacy_entry_input_sizes(table, r) = <<>>
        /\ check_direct_call_visibility(table, r) = <<>>
        /\ check_call_parameter_transfers(table, r, TRUE) = <<>>
    BY DEF PipelineInv, ChecksInv
  <1>4. CalleesAreVisible(table, r)
    BY <1>2, <1>3, VisibilitySays DEF CalleesAreVisible
  <1>5. /\ \A x \in Range(r.body) : \A base \in Range(parameter_address(table, x)) :
             AccessTo(r, table.symbols[base.symbol], base, Payload(x) = "Store", TRUE) = <<>>
        /\ \A i \in DOMAIN r.body : TransferIsSilent(r.body, TransfersOf(table, r), i)
    BY <1>2, <1>3, TransferCheckSays
  <1>6. AccessesAreAllowed(table, r)
    <2> SUFFICES ASSUME NEW x \in Range(r.body), NEW base \in Range(parameter_address(table, x))
                 PROVE  /\ Payload(x) = "Store" => ~ HasRole(r, base.symbol, "LegacyEntryInput")
                        /\ base.address[1].qualifier = "Entry" =>
                             IsEntryInput(r, table.symbols[base.symbol], base.symbol)
                        /\ base.address[1].qualifier = "Function" /\ r.is_entry =>
                             IsLocalObject(r, table.symbols[base.symbol], base.symbol)
      BY DEF AccessesAreAllowed
    <2> DEFINE symbol == table.symbols[base.symbol]
               written ==
                 TRUE /\ Payload(x) = "Store" /\ HasRole(r, base.symbol, "LegacyEntryInput")
               misread == \/ /\ base.address[1].qualifier = "Entry"
                             /\ ~ IsEntryInput(r, symbol, base.symbol)
                          \/ /\ base.address[1].qualifier = "Function" /\ r.is_entry
                             /\ ~ IsLocalObject(r, symbol, base.symbol)
    <2>1. When(written, "ReadOnlyParameter") \o When(misread, "ParameterQualifier") = <<>>
      BY <1>5 DEF AccessTo
    <2>2. "ReadOnlyParameter" \in Words /\ "ParameterQualifier" \in Words
      BY DEF Words
    <2> HIDE DEF written, misread
    <2>3. /\ When(written, "ReadOnlyParameter") \in Seq(Words)
          /\ When(written, "ReadOnlyParameter") = <<>> <=> ~ written
          /\ When(misread, "ParameterQualifier") \in Seq(Words)
          /\ When(misread, "ParameterQualifier") = <<>> <=> ~ misread
      BY <2>2, WhenSays
    <2>4. ~ written /\ ~ misread
      BY <2>1, <2>3, ConcatEqualIffEmpty
    <2> QED BY <2>4, Zenon DEF written, misread
  <1>7. Protected(r.body, TransfersOf(table, r))
    <2> DEFINE body == r.body
               transfers == TransfersOf(table, r)
    <2>1. body \in Seq(Range(body)) /\ \A x \in Range(body) : x.operands \in Seq(Range(x.operands))
      BY <1>2 DEF OfSequences
    <2>2. transfers = [i \in DOMAIN body |-> parameter_transfer(table, r, body[i])]
      BY DEF TransfersOf
    <2> DEFINE T == {parameter_transfer(table, r, x) : x \in Range(body)}
    <2>3. \A i \in DOMAIN body : transfers[i] \in T
      BY <2>2 DEF Range
    <2>4. transfers = [i \in DOMAIN body |-> transfers[i]]
      BY <2>2
    <2> HIDE DEF T, transfers
    <2>5. Len(transfers) = Len(body)
      BY <2>1, <2>3, <2>4, MappedSeq
    <2>6. \A i \in DOMAIN body : TransferIsSilent(body, transfers, i)
      BY <1>5 DEF transfers
    <2> QED BY <2>1, <2>5, <2>6, SilentIsProtected DEF transfers
  <1>8. InputsFit(table, r)
    <2> SUFFICES ASSUME Counted(LegacyInputs(table, r))
                 PROVE  /\ ~ Unsized(LegacyInputs(table, r))
                        /\ ExactSum(LegacyInputs(table, r)) <= LegacyCeiling
      BY DEF InputsFit
    <2> DEFINE inputs == LegacyInputs(table, r)
    <2>1. PICK S : inputs \in Seq(S)
      BY <1>2, InputsAreSequence
    <2>2. SumOfInputs(inputs) # None
      <3>1. "LegacyInputSize" \in Words
        BY DEF Words
      <3> QED BY <3>1, <1>3, WhenSays DEF check_legacy_entry_input_sizes
    <2> HIDE DEF inputs
    <2>3. /\ SumMeets(SumOfInputs(inputs), ExactSum(inputs), Unsized(inputs))
          /\ ExactSum(inputs) \in Nat
      BY <2>1, LegacySumIsExact DEF inputs
    <2> QED BY <2>2, <2>3 DEF SumMeets, inputs, LegacyCeiling
  <1> QED BY <1>4, <1>6, <1>7, <1>8

(* In every module that resolveModuleOnly() returns: a callee is declared   *)
(* before it is called; no early kernel writes its inputs and addresses are *)
(* qualified as declared; a .param object is stored right before the call   *)
(* that takes it, loaded right after the call that gave it, and neither     *)
(* under a predicate; and the inputs of an early kernel have an exact sum   *)
(* within the limit.  All that is published was checked, although the checks *)
(* run only after all functions are resolved.                               *)
THEOREM PublishedIsChecked ==
  ASSUME Word \in Nat, Word > LegacyCeiling
  PROVE  ResolutionSpec =>
           [](Accepted => \A r \in Range(functions) :
                /\ CalleesAreVisible(table, r)
                /\ AccessesAreAllowed(table, r)
                /\ Protected(r.body, TransfersOf(table, r))
                /\ InputsFit(table, r))
  <1> DEFINE Kept == Accepted => \A r \in Range(functions) :
                       /\ CalleesAreVisible(table, r)
                       /\ AccessesAreAllowed(table, r)
                       /\ Protected(r.body, TransfersOf(table, r))
                       /\ InputsFit(table, r)
  <1>1. PipelineInv => Kept
    BY AcceptedIsChecked
  <1> HIDE DEF Kept
  <1>2. ResolutionSpec => []Kept
    BY <1>1, PipelineIsSound, PTL
  <1> QED BY <1>2 DEF Kept
=============================================================================
