----------------------------- MODULE LexerProofs -----------------------------
(***************************************************************************)
(* Proofs about the lexer, for every source and every sequence of calls:   *)
(*   - its trivia and tokens, errors included, are the source again;       *)
(*   - each token is delivered once, whatever peek(), consume() and next() *)
(*     do to the cache;                                                    *)
(*   - the end of the input comes once and stays;                          *)
(*   - positions are those of the whole source.                            *)
(***************************************************************************)
EXTENDS Lexer, SequenceTheorems, FiniteSetTheorems, WellFoundedInduction, TLAPS

(* A set of lengths up to a bound has a longest. *)
LEMMA MaxIsGreatest ==
  ASSUME NEW n \in Nat, NEW S, S \subseteq 0 .. n, S # {}
  PROVE  Max(S) \in S /\ \A x \in S : Max(S) >= x
  <1> DEFINE T == {n - x : x \in S}
  <1>1. \A x \in S : x \in Nat /\ n - x \in Nat
    OBVIOUS
  <1>2. T \subseteq Nat /\ T # {}
    BY <1>1, Zenon
  <1>3. PICK t \in T : \A u \in T : ~ (<<u, t>> \in OpToRel(<, Nat))
    <2> HIDE DEF T
    <2> QED BY <1>2, NatLessThanWellFounded, WFMin
  <1>4. \A u \in T : t <= u
    <2> HIDE DEF T
    <2> SUFFICES ASSUME NEW u \in T, u < t PROVE FALSE
      BY <1>2
    <2>1. <<u, t>> \in Nat \X Nat /\ <<u, t>>[1] < <<u, t>>[2]
      BY <1>2
    <2>2. <<u, t>> \in OpToRel(<, Nat)
      BY <2>1 DEF OpToRel
    <2> QED BY <1>3, <2>2
  <1>5. PICK x \in S : t = n - x
    BY <1>3, Zenon
  <1>6. \A y \in S : x >= y
    <2> SUFFICES ASSUME NEW y \in S PROVE x >= y
      OBVIOUS
    <2>1. n - y \in T
      BY Zenon
    <2> HIDE DEF T
    <2>2. n - x <= n - y
      BY <1>4, <1>5, <2>1
    <2> QED BY <1>1, <2>2
  <1> HIDE DEF T
  <1> QED BY <1>6 DEF Max

LEMMA RunsFit ==
  ASSUME NEW text \in Seq(Classes), NEW from \in Nat, NEW kinds
  PROVE  Runs(text, from, kinds) \subseteq from .. Len(text)
  BY DEF Runs

(* What a rule matches is not empty and does not pass the end of the text. *)
LEMMA RulesFit ==
  ASSUME NEW text \in Seq(Classes), text # <<>>, NEW r \in DOMAIN Rules(text)
  PROVE  Rules(text)[r] \subseteq 1 .. Len(text)
  <1>1. Len(text) \in Nat /\ Len(text) >= 1
    OBVIOUS
  <1>2. Whitespace(text) \subseteq 1 .. Len(text)
    BY <1>1, RunsFit DEF Whitespace
  <1>3. Word(text) \subseteq 1 .. Len(text)
    BY <1>1, RunsFit DEF Word
  <1>4. LineComment(text) \subseteq 1 .. Len(text)
    BY <1>1, RunsFit DEF LineComment
  <1>5. CommentOpen(text) \subseteq 1 .. Len(text)
    BY <1>1 DEF CommentOpen, StartsWith
  <1>6. String(text) \subseteq 1 .. Len(text)
    BY <1>1 DEF String
  <1>7. Operator(text) \subseteq 1 .. Len(text)
    BY <1>1 DEF Operator
  <1> QED BY <1>2, <1>3, <1>4, <1>5, <1>6, <1>7 DEF Rules

(* The longest match is one of a rule's, or one character of no rule. *)
LEMMA LongestFits ==
  ASSUME NEW text \in Seq(Classes), text # <<>>
  PROVE  /\ Longest(text).length \in 1 .. Len(text)
         /\ Longest(text).rule = "CommentOpen" => StartsWith(text, <<"slash", "star">>)
  <1> DEFINE rules == Rules(text)
             lengths == UNION {rules[r] : r \in DOMAIN rules}
             chosen == CHOOSE r \in DOMAIN rules : Max(lengths) \in rules[r]
  <1>1. Len(text) \in Nat /\ Len(text) >= 1
    OBVIOUS
  <1>2. lengths \subseteq 1 .. Len(text)
    BY RulesFit
  <1>3. CASE lengths = {}
    BY <1>1, <1>3 DEF Longest
  <1>4. CASE lengths # {}
    <2>1. Longest(text) = [rule |-> chosen, length |-> Max(lengths)]
      BY <1>4 DEF Longest
    <2>2. Max(lengths) \in lengths
      <3> HIDE DEF lengths
      <3>1. lengths \subseteq 0 .. Len(text)
        BY <1>1, <1>2
      <3> QED BY <1>1, <1>4, <3>1, MaxIsGreatest
    <2>3. \E r \in DOMAIN rules : Max(lengths) \in rules[r]
      BY <2>2
    <2>4. chosen \in DOMAIN rules /\ Max(lengths) \in rules[chosen]
      <3> HIDE DEF rules, lengths
      <3> QED BY <2>3
    <2>5. rules["CommentOpen"] = CommentOpen(text)
      BY DEF Rules
    <2> HIDE DEF chosen, lengths, rules
    <2>6. chosen = "CommentOpen" => StartsWith(text, <<"slash", "star">>)
      BY <2>4, <2>5 DEF CommentOpen
    <2>7. Longest(text).rule = chosen /\ Longest(text).length = Max(lengths)
      BY <2>1
    <2>8. Max(lengths) \in 1 .. Len(text)
      BY <1>2, <2>2
    <2> QED BY <2>6, <2>7, <2>8
  <1> QED BY <1>3, <1>4

-----------------------------------------------------------------------------
LexInv ==
  /\ source \in Seq(Classes) /\ offset \in 0 .. Len(source)
  /\ comment \in Seq(Classes) /\ written \in Seq(Classes)
  /\ condition \in {"INITIAL", "BLOCK_COMMENT"}
  /\ Lossless

LEMMA InitInv == Init => LexInv
  <1> SUFFICES ASSUME Init PROVE LexInv
    OBVIOUS
  <1>1. source \in Seq(Classes)
    BY TextsAssumption DEF Init
  <1>2. offset = 0 /\ condition = "INITIAL" /\ comment = <<>> /\ written = <<>>
    BY DEF Init
  <1>3. SubSeq(source, 1, 0) = <<>> /\ <<>> \o <<>> = <<>> /\ <<>> \in Seq(Classes)
    OBVIOUS
  <1>4. 0 \in 0 .. Len(source)
    BY <1>1
  <1> QED BY <1>1, <1>2, <1>3, <1>4 DEF LexInv, Lossless

(* What is left of the source, as long as something is left *)
LEMMA RestFacts ==
  ASSUME LexInv, offset < Len(source)
  PROVE  /\ Rest \in Seq(Classes) /\ Len(Rest) = Len(source) - offset /\ Rest # <<>>
  <1>1. /\ Len(source) \in Nat /\ offset \in Nat
        /\ \A i \in offset + 1 .. Len(source) : source[i] \in Classes
    BY DEF LexInv
  <1>2. Rest \in Seq(Classes) /\ Len(Rest) = Len(source) - (offset + 1) + 1
    BY <1>1, SubSeqProperties DEF Rest
  <1> QED BY <1>1, <1>2

(* The next characters extend what has been scanned. *)
LEMMA PieceExtends ==
  ASSUME LexInv, offset < Len(source), NEW n \in 1 .. Len(Rest)
  PROVE  /\ SubSeq(Rest, 1, n) \in Seq(Classes)
         /\ offset + n \in 0 .. Len(source)
         /\ SubSeq(source, 1, offset) \o SubSeq(Rest, 1, n) = SubSeq(source, 1, offset + n)
  <1>1. /\ source \in Seq(Classes) /\ Len(source) \in Nat /\ offset \in Nat
        /\ Rest \in Seq(Classes) /\ Len(Rest) = Len(source) - offset
    BY RestFacts DEF LexInv
  <1>2. SubSeq(Rest, 1, n) = SubSeq(source, offset + 1, offset + n)
    <2>1. /\ offset + 1 \in 1 .. Len(source) /\ Len(source) \in 1 .. Len(source)
          /\ 1 \in 1 .. Len(source) - (offset + 1) + 1
          /\ n \in 1 .. Len(source) - (offset + 1) + 1
      BY <1>1
    <2>2. SubSeq(SubSeq(source, offset + 1, Len(source)), 1, n)
            = SubSeq(source, offset + 1 + 1 - 1, offset + 1 + n - 1)
      BY <1>1, <2>1, SubSeqOfSubSeq
    <2>3. offset + 1 + 1 - 1 = offset + 1 /\ offset + 1 + n - 1 = offset + n
      BY <1>1
    <2> QED BY <2>2, <2>3 DEF Rest
  <1>3. SubSeq(source, 1, offset) \o SubSeq(source, offset + 1, offset + n)
          = SubSeq(source, 1, offset + n)
    <2>1. /\ 1 \in 1 .. Len(source) + 1 /\ offset \in 1 - 1 .. Len(source)
          /\ offset + n \in offset .. Len(source)
      BY <1>1
    <2> QED BY <1>1, <2>1, ConcatAdjacentSubSeq
  <1>4. SubSeq(Rest, 1, n) \in Seq(Classes)
    <2>1. \A i \in 1 .. n : Rest[i] \in Classes
      BY <1>1
    <2> QED BY <2>1, SubSeqProperties
  <1> QED BY <1>1, <1>2, <1>3, <1>4

LEMMA CommentLengthFits ==
  ASSUME LexInv, offset < Len(source)
  PROVE  CommentLength \in 1 .. Len(Rest)
  BY RestFacts DEF CommentLength, StartsWith, LexInv

LEMMA Associative ==
  ASSUME NEW s \in Seq(Classes), NEW t \in Seq(Classes), NEW u \in Seq(Classes)
  PROVE  s \o (t \o u) = (s \o t) \o u
  <1>1. (s \o t) \o u = s \o (t \o u)
    BY ConcatAssociative
  <1> QED BY <1>1

LEMMA ScanLexemeInv ==
  ASSUME LexInv, ScanLexeme PROVE LexInv'
  <1> DEFINE n == Longest(Rest).length
             text == SubSeq(Rest, 1, n)
  <1>1. condition = "INITIAL" /\ offset < Len(source)
    BY DEF ScanLexeme, Scanning
  <1>2. n \in 1 .. Len(Rest)
    BY <1>1, RestFacts, LongestFits
  <1>3. /\ source' = source /\ offset' = offset + n /\ condition' = condition
        /\ comment' = comment /\ written' = written \o text
    BY DEF ScanLexeme, Match, AddTrivia, Complete, Lexeme
  <1>4. written = SubSeq(source, 1, offset)
    BY <1>1 DEF LexInv, Lossless
  <1> HIDE DEF n
  <1>5. /\ text \in Seq(Classes) /\ offset + n \in 0 .. Len(source)
        /\ written \o text = SubSeq(source, 1, offset + n)
    BY <1>1, <1>2, <1>4, PieceExtends
  <1> HIDE DEF text
  <1>6. written \o text \in Seq(Classes) /\ (written \o text) \o <<>> = written \o text
    BY <1>5 DEF LexInv
  <1> QED BY <1>1, <1>3, <1>5, <1>6 DEF LexInv, Lossless

LEMMA ScanOpenInv ==
  ASSUME LexInv, ScanOpen PROVE LexInv'
  <1> DEFINE start == <<"slash", "star">>
  <1>1. condition = "INITIAL" /\ offset < Len(source)
    BY DEF ScanOpen, Scanning
  <1>2. StartsWith(Rest, start)
    BY <1>1, RestFacts, LongestFits DEF ScanOpen
  <1>3. 2 \in 1 .. Len(Rest) /\ SubSeq(Rest, 1, 2) = start
    BY <1>1, <1>2, RestFacts DEF StartsWith, LexInv
  <1>4. /\ source' = source /\ offset' = offset + 2 /\ condition' = "BLOCK_COMMENT"
        /\ comment' = start /\ written' = written
    BY DEF ScanOpen, Match, CommentStart
  <1>5. written = SubSeq(source, 1, offset)
    BY <1>1 DEF LexInv, Lossless
  <1>6. /\ start \in Seq(Classes) /\ offset + 2 \in 0 .. Len(source)
        /\ written \o start = SubSeq(source, 1, offset + 2)
    BY <1>1, <1>3, <1>5, PieceExtends
  <1> HIDE DEF start
  <1> QED BY <1>4, <1>6 DEF LexInv, Lossless

LEMMA ScanCommentInv ==
  ASSUME LexInv, ScanComment PROVE LexInv'
  <1> DEFINE n == CommentLength
             text == SubSeq(Rest, 1, n)
  <1>1. condition = "BLOCK_COMMENT" /\ offset < Len(source)
    BY DEF ScanComment, Scanning
  <1>2. n \in 1 .. Len(Rest)
    BY <1>1, CommentLengthFits
  <1>3. /\ source' = source /\ offset' = offset + n /\ comment' = comment \o text
        /\ \/ condition' = "INITIAL" /\ written' = written \o comment'
           \/ condition' = "BLOCK_COMMENT" /\ written' = written
    BY <1>1 DEF ScanComment, Match, AddTrivia, Lexeme
  <1>4. written \o comment = SubSeq(source, 1, offset)
    BY <1>1 DEF LexInv, Lossless
  <1> HIDE DEF n
  <1>5. /\ text \in Seq(Classes) /\ offset + n \in 0 .. Len(source)
        /\ SubSeq(source, 1, offset) \o text = SubSeq(source, 1, offset + n)
    BY <1>1, <1>2, PieceExtends
  <1> HIDE DEF text
  <1>6. written \o (comment \o text) = SubSeq(source, 1, offset + n)
    <2>1. written \o (comment \o text) = (written \o comment) \o text
      <3>1. written \in Seq(Classes) /\ comment \in Seq(Classes)
        BY DEF LexInv
      <3> QED BY <1>5, <3>1, Associative
    <2> QED BY <1>4, <1>5, <2>1
  <1>7. comment \o text \in Seq(Classes) /\ written \o (comment \o text) \in Seq(Classes)
    BY <1>5 DEF LexInv
  <1>8. (written \o (comment \o text)) \o <<>> = written \o (comment \o text)
    BY <1>7
  <1>9. CASE condition' = "INITIAL" /\ written' = written \o comment'
    BY <1>3, <1>5, <1>6, <1>7, <1>8, <1>9 DEF LexInv, Lossless
  <1>10. CASE condition' = "BLOCK_COMMENT" /\ written' = written
    BY <1>3, <1>5, <1>6, <1>7, <1>10 DEF LexInv, Lossless
  <1> QED BY <1>3, <1>9, <1>10

LEMMA ScanUnterminatedInv ==
  ASSUME LexInv, ScanUnterminated PROVE LexInv'
  <1>1. /\ condition = "BLOCK_COMMENT" /\ condition' = "INITIAL"
        /\ source' = source /\ offset' = offset /\ comment' = comment
        /\ written' = written \o comment
    BY DEF ScanUnterminated, Scanning, Complete, Lexeme, ConditionAfterError
  <1>2. written \o comment \in Seq(Classes) /\ (written \o comment) \o <<>> = written \o comment
    BY DEF LexInv
  <1> QED BY <1>1, <1>2 DEF LexInv, Lossless

LEMMA ScanEofInv ==
  ASSUME LexInv, ScanEof PROVE LexInv'
  <1>1. /\ source' = source /\ offset' = offset /\ comment' = comment
        /\ condition' = condition /\ written' = written \o <<>>
    BY DEF ScanEof, scanner, Complete, Lexeme
  <1>2. written \o <<>> = written
    BY DEF LexInv
  <1> QED BY <1>1, <1>2 DEF LexInv, Lossless

LEMMA StepInv == LexInv /\ [Next]_vars => LexInv'
  <1> SUFFICES ASSUME LexInv, [Next]_vars PROVE LexInv'
    OBVIOUS
  <1>1. CASE CallNext \/ CallPeek \/ CallConsume \/ Stopped \/ UNCHANGED vars
    BY <1>1 DEF CallNext, CallPeek, CallConsume, Stopped, Scan, scanner, vars, LexInv, Lossless
  <1> QED BY <1>1, ScanLexemeInv, ScanOpenInv, ScanCommentInv, ScanUnterminatedInv, ScanEofInv
          DEF Next

(* The texts of the trivia and the tokens, errors included, are the source *)
(* as far as it has been scanned, for every source and sequence of calls.  *)
THEOREM LexerIsLossless == Spec => []Lossless
  <1>1. LexInv => Lossless
    BY DEF LexInv
  <1> QED BY <1>1, InitInv, StepInv, PTL DEF Spec
-----------------------------------------------------------------------------
(* Delivery: the one token of the cache is neither lost nor handed out twice *)

Waiting == {cache[i] : i \in 1 .. Len(cache)}

DeliveryInv ==
  /\ scanned \in Nat /\ call \in {"none", "next", "peek", "consume"}
  /\ cache = <<>> \/ \E k \in 1 .. scanned : cache = <<k>> /\ k \notin delivered
  /\ call \in {"peek", "consume"} => cache = <<>>
  /\ delivered \cup Waiting = 1 .. scanned

LEMMA WaitingIs ==
  /\ cache = <<>> => Waiting = {}
  /\ \A k : cache = <<k>> => Waiting = {k}
  BY DEF Waiting

LEMMA WaitingWillBe ==
  /\ cache' = <<>> => Waiting' = {}
  /\ \A k : cache' = <<k>> => Waiting' = {k}
  BY DEF Waiting

(* The end of next(), whatever the token *)
LEMMA CompleteDelivers ==
  ASSUME DeliveryInv, NEW lexeme, Complete(lexeme), call # "none"
  PROVE  DeliveryInv'
  <1>1. scanned' = scanned + 1 /\ call' = "none"
    BY DEF Complete
  <1>2. scanned + 1 \in 1 .. scanned' /\ scanned + 1 \notin 1 .. scanned /\ scanned' \in Nat
    BY <1>1 DEF DeliveryInv
  <1>3. 1 .. scanned' = (1 .. scanned) \cup {scanned + 1}
    BY <1>1 DEF DeliveryInv
  <1>4. delivered \subseteq 1 .. scanned
    BY DEF DeliveryInv
  <1>5. CASE call = "peek"
    <2>1. cache = <<>> /\ cache' = <<scanned + 1>> /\ delivered' = delivered
      BY <1>5 DEF Complete, DeliveryInv
    <2>2. Waiting = {} /\ Waiting' = {scanned + 1}
      BY <2>1, WaitingIs, WaitingWillBe
    <2>3. delivered = 1 .. scanned
      BY <2>2 DEF DeliveryInv
    <2>4. delivered' \cup Waiting' = 1 .. scanned'
      BY <1>3, <2>1, <2>2, <2>3
    <2>5. scanned + 1 \notin delivered'
      BY <1>2, <1>4, <2>1
    <2> QED BY <1>1, <1>2, <2>1, <2>4, <2>5 DEF DeliveryInv
  <1>6. CASE call # "peek"
    <2>1. cache' = cache /\ delivered' = delivered \cup {scanned + 1}
      BY <1>6 DEF Complete
    <2>2. Waiting' = Waiting
      BY <2>1 DEF Waiting
    <2>3. delivered' \cup Waiting' = 1 .. scanned'
      BY <1>3, <2>1, <2>2 DEF DeliveryInv
    <2>4. cache' = <<>> \/ \E k \in 1 .. scanned' : cache' = <<k>> /\ k \notin delivered'
      <3>1. CASE cache = <<>>
        BY <3>1, <2>1
      <3>2. CASE \E k \in 1 .. scanned : cache = <<k>> /\ k \notin delivered
        <4>1. PICK k \in 1 .. scanned : cache = <<k>> /\ k \notin delivered
          BY <3>2
        <4>2. k \in 1 .. scanned' /\ k \notin delivered'
          BY <4>1, <1>2, <1>3, <2>1
        <4> QED BY <2>1, <4>1, <4>2
      <3> QED BY <3>1, <3>2 DEF DeliveryInv
    <2> QED BY <1>1, <1>2, <2>3, <2>4 DEF DeliveryInv
  <1> QED BY <1>5, <1>6

LEMMA DeliveryStep == DeliveryInv /\ [Next]_vars => DeliveryInv'
  <1> SUFFICES ASSUME DeliveryInv, [Next]_vars PROVE DeliveryInv'
    OBVIOUS
  <1>1. CASE UNCHANGED <<cache, delivered, scanned, call>>
    BY <1>1 DEF DeliveryInv, Waiting
  <1>2. CASE CallNext \/ CallPeek \/ (CallConsume /\ cache = <<>>)
    <2>1. UNCHANGED <<cache, delivered, scanned>> /\ call' \in {"next", "peek", "consume"}
      BY <1>2 DEF CallNext, CallPeek, CallConsume, Scan
    <2>2. call' \in {"peek", "consume"} => cache = <<>>
      BY <1>2 DEF CallNext, CallPeek, CallConsume, Scan
    <2> QED BY <2>1, <2>2 DEF DeliveryInv, Waiting
  <1>3. CASE CallConsume /\ cache # <<>>
    <2>1. PICK k \in 1 .. scanned : cache = <<k>> /\ k \notin delivered
      BY <1>3 DEF DeliveryInv
    <2>2. /\ cache' = <<>> /\ delivered' = delivered \cup {k}
          /\ scanned' = scanned /\ call' = call /\ call = "none"
      BY <1>3, <2>1 DEF CallConsume, CacheAfterConsume, Idle
    <2>3. Waiting = {k} /\ Waiting' = {}
      BY <2>1, <2>2, WaitingIs, WaitingWillBe
    <2>4. delivered' \cup Waiting' = 1 .. scanned'
      BY <2>2, <2>3 DEF DeliveryInv
    <2> QED BY <2>2, <2>4 DEF DeliveryInv
  <1>4. CASE ScanLexeme
    <2>1. call # "none" /\ ((UNCHANGED <<cache, delivered, scanned, call>>)
            \/ \E lexeme : Complete(lexeme))
      BY <1>4 DEF ScanLexeme, AddTrivia, client, Scanning
    <2> QED BY <2>1, <1>1, CompleteDelivers
  <1>5. CASE ScanUnterminated \/ ScanEof
    <2>1. call # "none" /\ \E lexeme : Complete(lexeme)
      BY <1>5 DEF ScanUnterminated, ScanEof, Scanning
    <2> QED BY <2>1, CompleteDelivers
  <1>6. CASE ScanOpen \/ ScanComment
    BY <1>6, <1>1 DEF ScanOpen, ScanComment, AddTrivia, client
  <1>7. CASE Stopped \/ UNCHANGED vars
    BY <1>7, <1>1 DEF Stopped, vars
  <1> QED BY <1>2, <1>3, <1>4, <1>5, <1>6, <1>7 DEF Next

(* Each token scanned is delivered once or waits in the cache, for every    *)
(* source and every interleaving of peek(), consume() and next().           *)
THEOREM TokensAreDeliveredOnce == Spec => []DeliveredOnce
  <1>1. Init => DeliveryInv
    <2> SUFFICES ASSUME Init PROVE DeliveryInv
      OBVIOUS
    <2>1. /\ cache = <<>> /\ delivered = {} /\ scanned = 0 /\ call = "none"
          /\ Waiting = {} /\ 1 .. 0 = {}
      BY WaitingIs DEF Init
    <2> QED BY <2>1 DEF DeliveryInv
  <1>2. DeliveryInv => DeliveredOnce
    <2> SUFFICES ASSUME DeliveryInv PROVE DeliveredOnce
      OBVIOUS
    <2>1. \A i \in 1 .. Len(cache) : cache[i] \notin delivered
      BY DEF DeliveryInv
    <2> QED BY <2>1 DEF DeliveryInv, DeliveredOnce, Waiting
  <1> QED BY <1>1, <1>2, DeliveryStep, PTL DEF Spec
-----------------------------------------------------------------------------
(* The end of the input *)

RuleNames == {"Whitespace", "LineComment", "CommentOpen", "Word", "String", "Operator"}

LEMMA LongestRule ==
  ASSUME NEW text \in Seq(Classes), text # <<>>
  PROVE  /\ Longest(text).rule \in RuleNames \cup {"Error"}
         /\ Longest(text).rule = "Error" => Longest(text).length = 1
  <1> DEFINE rules == Rules(text)
             lengths == UNION {rules[r] : r \in DOMAIN rules}
             chosen == CHOOSE r \in DOMAIN rules : Max(lengths) \in rules[r]
  <1>1. CASE lengths = {}
    BY <1>1 DEF Longest
  <1>2. CASE lengths # {}
    <2>1. Longest(text) = [rule |-> chosen, length |-> Max(lengths)]
      BY <1>2 DEF Longest
    <2>2. Max(lengths) \in lengths
      <3>1. lengths \subseteq 0 .. Len(text) /\ Len(text) \in Nat
        BY RulesFit
      <3> HIDE DEF lengths
      <3> QED BY <1>2, <3>1, MaxIsGreatest
    <2>3. \E r \in DOMAIN rules : Max(lengths) \in rules[r]
      BY <2>2
    <2>4. chosen \in DOMAIN rules
      <3> HIDE DEF rules, lengths
      <3> QED BY <2>3
    <2>5. DOMAIN rules = RuleNames
      BY DEF Rules, RuleNames
    <2> HIDE DEF chosen, rules, lengths
    <2>6. chosen \in RuleNames /\ chosen # "Error"
      BY <2>4, <2>5 DEF RuleNames
    <2> QED BY <2>1, <2>6
  <1> QED BY <1>1, <1>2

(* A token behind which the source is exhausted *)
Ends(token) ==
  \/ token.kind = "Eof"
  \/ token.kind = "Error" /\ StartsWith(token.text, <<"slash", "star">>)

EndInv ==
  /\ scanned \in Nat
  /\ condition = "BLOCK_COMMENT" => StartsWith(comment, <<"slash", "star">>)
  /\ latest.token.kind = "Error" => scanned > 0
  /\ scanned > 0 /\ Ends(latest.token)
       => offset = Len(source) /\ condition = "INITIAL" /\ trivia = <<>>
  /\ scanned > 0 /\ latest.token.kind = "Eof"
       => latest.token = Lexeme("Eof", <<>>, at, at)

(* What a step that scans a token may do, as EofIsFinal has it *)
EndStep ==
  scanned' > scanned =>
    /\ latest'.token.kind = "Eof" <=> latest'.token.text = <<>>
    /\ scanned > 0 /\ latest.token.kind = "Eof"
         => latest' = [token |-> latest.token, trivia |-> <<>>]
    /\ latest.token.kind = "Error" /\ StartsWith(latest.token.text, <<"slash", "star">>)
         => latest'.token.kind = "Eof"

LEMMA NothingBehindTheEnd ==
  ASSUME EndInv, ~ (offset = Len(source) /\ condition = "INITIAL" /\ trivia = <<>>)
  PROVE  /\ ~ (scanned > 0 /\ Ends(latest.token))
         /\ ~ (scanned > 0 /\ latest.token.kind = "Eof")
         /\ ~ (latest.token.kind = "Error" /\ StartsWith(latest.token.text, <<"slash", "star">>))
  BY DEF EndInv, Ends

LEMMA ScanLexemeEnds ==
  ASSUME LexInv, EndInv, ScanLexeme PROVE EndInv' /\ EndStep
  <1> DEFINE rule == Longest(Rest).rule
             n == Longest(Rest).length
             text == SubSeq(Rest, 1, n)
             lexeme == Lexeme(rule, text, at, at')
  <1>1. condition = "INITIAL" /\ offset < Len(source) /\ offset # Len(source)
    BY DEF ScanLexeme, Scanning, LexInv
  <1>2. n \in 1 .. Len(Rest) /\ rule \in RuleNames \cup {"Error"} /\ (rule = "Error" => n = 1)
    BY <1>1, RestFacts, LongestFits, LongestRule
  <1>3. /\ condition' = condition /\ comment' = comment
        /\ rule # "CommentOpen"
        /\ AddTrivia(lexeme) \/ Complete(lexeme)
    BY DEF ScanLexeme
  <1>4. /\ text \in Seq(Classes) /\ Len(text) = n
    <2>1. Rest \in Seq(Classes)
      BY <1>1, RestFacts
    <2> HIDE DEF n
    <2> QED BY <1>2, <2>1
  <1> HIDE DEF rule, n, text
  <1>5. /\ rule # "Eof" /\ text # <<>>
        /\ ~ (rule = "Error" /\ StartsWith(text, <<"slash", "star">>))
    BY <1>2, <1>4 DEF RuleNames, StartsWith
  <1>6. /\ ~ (scanned > 0 /\ Ends(latest.token))
        /\ ~ (scanned > 0 /\ latest.token.kind = "Eof")
        /\ ~ (latest.token.kind = "Error" /\ StartsWith(latest.token.text, <<"slash", "star">>))
    BY <1>1, NothingBehindTheEnd
  <1>7. condition' = "BLOCK_COMMENT" => StartsWith(comment', <<"slash", "star">>)
    BY <1>1, <1>3
  <1>8. CASE AddTrivia(lexeme)
    <2>1. latest' = latest /\ scanned' = scanned
      BY <1>8 DEF AddTrivia
    <2> QED BY <1>6, <1>7, <2>1 DEF EndInv, EndStep, Ends
  <1>9. CASE Complete(lexeme)
    <2>1. latest'.token = lexeme /\ scanned' = scanned + 1
      BY <1>9 DEF Complete
    <2>2. lexeme.kind = rule /\ lexeme.text = text
      BY DEF Lexeme
    <2>3. ~ Ends(latest'.token) /\ latest'.token.kind # "Eof"
      BY <1>5, <2>1, <2>2 DEF Ends
    <2>4. scanned' \in Nat /\ scanned' > 0
      BY <2>1 DEF EndInv
    <2>5. EndInv'
      BY <1>7, <2>3, <2>4 DEF EndInv, Ends
    <2>6. EndStep
      BY <1>5, <1>6, <2>1, <2>2 DEF EndStep
    <2> QED BY <2>5, <2>6
  <1> QED BY <1>3, <1>8, <1>9

LEMMA StartsWithTwo ==
  ASSUME NEW s \in Seq(Classes), NEW c \in Classes, NEW d \in Classes
  PROVE  StartsWith(s, <<c, d>>) <=> Len(s) >= 2 /\ s[1] = c /\ s[2] = d
  <1> DEFINE start == <<c, d>>
             piece == SubSeq(s, 1, 2)
  <1>1. start \in Seq(Classes) /\ Len(start) = 2 /\ start[1] = c /\ start[2] = d
    OBVIOUS
  <1>2. ASSUME Len(s) >= 2
        PROVE  piece = start <=> s[1] = c /\ s[2] = d
    <2>1. \A i \in 1 .. 2 : s[i] \in Classes
      BY <1>2
    <2>2. /\ piece \in Seq(Classes) /\ Len(piece) = 2
          /\ piece[1] = s[1] /\ piece[2] = s[2]
      <3> HIDE DEF piece
      <3>1. /\ SubSeq(s, 1, 2) \in Seq(Classes) /\ Len(SubSeq(s, 1, 2)) = IF 1 <= 2 THEN 2 - 1 + 1 ELSE 0
            /\ \A i \in 1 .. 2 - 1 + 1 : SubSeq(s, 1, 2)[i] = s[1 + i - 1]
        BY <2>1, SubSeqProperties
      <3> QED BY <3>1 DEF piece
    <2> HIDE DEF piece, start
    <2>3. piece = start <=> \A i \in 1 .. Len(piece) : piece[i] = start[i]
      BY <1>1, <2>2, SeqEqual
    <2> QED BY <1>1, <2>2, <2>3
  <1> QED BY <1>1, <1>2 DEF StartsWith

LEMMA StartIs ==
  ASSUME NEW s \in Seq(Classes)
  PROVE  /\ StartsWith(s, <<"slash", "star">>) <=> Len(s) >= 2 /\ s[1] = "slash" /\ s[2] = "star"
         /\ StartsWith(s, <<"slash", "slash">>) <=> Len(s) >= 2 /\ s[1] = "slash" /\ s[2] = "slash"
         /\ StartsWith(s, <<"star", "slash">>) <=> Len(s) >= 2 /\ s[1] = "star" /\ s[2] = "slash"
         /\ StartsWith(s, <<"cr", "lf">>) <=> Len(s) >= 2 /\ s[1] = "cr" /\ s[2] = "lf"
  <1>1. "slash" \in Classes /\ "star" \in Classes /\ "cr" \in Classes /\ "lf" \in Classes
    BY DEF Classes
  <1> QED BY <1>1, StartsWithTwo

LEMMA PrefixStays ==
  ASSUME NEW s \in Seq(Classes), NEW t \in Seq(Classes), StartsWith(s, <<"slash", "star">>)
  PROVE  StartsWith(s \o t, <<"slash", "star">>)
  <1> DEFINE u == s \o t
  <1>1. /\ Len(s) \in Nat /\ Len(t) \in Nat /\ Len(s) >= 2 /\ s[1] = "slash" /\ s[2] = "star"
        /\ Len(u) = Len(s) + Len(t) /\ u \in Seq(Classes)
        /\ \A i \in 1 .. Len(s) : u[i] = s[i]
    BY ConcatProperties, StartIs
  <1> HIDE DEF u
  <1>2. Len(u) >= 2 /\ u[1] = "slash" /\ u[2] = "star"
    BY <1>1
  <1>3. StartsWith(u, <<"slash", "star">>)
    BY <1>1, <1>2, StartIs
  <1> QED BY <1>3 DEF u

LEMMA ScanCommentEnds ==
  ASSUME LexInv, EndInv, ScanOpen \/ ScanComment PROVE EndInv' /\ EndStep
  <1>1. offset < Len(source) /\ offset # Len(source)
    BY DEF ScanOpen, ScanComment, LexInv
  <1>2. latest' = latest /\ scanned' = scanned
    BY DEF ScanOpen, ScanComment, AddTrivia
  <1>3. /\ ~ (scanned > 0 /\ Ends(latest.token))
        /\ ~ (scanned > 0 /\ latest.token.kind = "Eof")
    BY <1>1, NothingBehindTheEnd
  <1>4. condition' = "BLOCK_COMMENT" => StartsWith(comment', <<"slash", "star">>)
    <2>1. CASE ScanOpen
      <3>1. comment' = <<"slash", "star">>
        BY <2>1 DEF ScanOpen, CommentStart
      <3> DEFINE c == comment'
      <3>2. c \in Seq(Classes) /\ Len(c) = 2 /\ c[1] = "slash" /\ c[2] = "star"
        BY <3>1 DEF Classes
      <3> HIDE DEF c
      <3>3. StartsWith(c, <<"slash", "star">>)
        BY SMTT(30), <3>2, StartIs
      <3> QED BY <3>3 DEF c
    <2>2. CASE ScanComment
      <3> DEFINE text == SubSeq(Rest, 1, CommentLength)
      <3>1. comment' = comment \o text /\ condition = "BLOCK_COMMENT"
        BY <2>2 DEF ScanComment, Scanning
      <3>2. text \in Seq(Classes)
        BY <1>1, CommentLengthFits, PieceExtends
      <3> QED BY <3>1, <3>2, PrefixStays DEF EndInv, LexInv
    <2> QED BY <2>1, <2>2
  <1> QED BY <1>2, <1>3, <1>4 DEF EndInv, EndStep, Ends

LEMMA ScanLastEnds ==
  ASSUME LexInv, EndInv, ScanUnterminated \/ ScanEof PROVE EndInv' /\ EndStep
  <1>1. /\ offset' = offset /\ source' = source /\ at' = at /\ offset = Len(source)
        /\ condition' = "INITIAL" /\ trivia' = <<>> /\ scanned' = scanned + 1
        /\ scanned' \in Nat /\ scanned' > 0
    BY DEF ScanUnterminated, ScanEof, Complete, scanner, ConditionAfterError, Scanning, EndInv
  <1>2. CASE ScanUnterminated
    <2>1. condition = "BLOCK_COMMENT" /\ latest'.token = Lexeme("Error", comment, opened, at)
      BY <1>2 DEF ScanUnterminated, Scanning, Complete
    <2>2. latest'.token.kind = "Error" /\ latest'.token.text = comment /\ comment # <<>>
      BY <2>1 DEF Lexeme, EndInv, StartsWith
    <2>3. ~ (scanned > 0 /\ Ends(latest.token))
      BY <2>1 DEF EndInv
    <2>4. EndStep
      BY <2>2, <2>3 DEF EndStep, EndInv, Ends
    <2>5. EndInv'
      BY <1>1, <2>2 DEF EndInv
    <2> QED BY <2>4, <2>5
  <1>3. CASE ScanEof
    <2>1. condition = "INITIAL" /\ latest' = [token |-> Lexeme("Eof", <<>>, at, at), trivia |-> trivia]
      BY <1>3 DEF ScanEof, Scanning, Complete
    <2>2. latest'.token = Lexeme("Eof", <<>>, at', at') /\ latest'.token.kind = "Eof"
          /\ latest'.token.text = <<>>
      BY <1>1, <2>1 DEF Lexeme
    <2>3. EndInv'
      BY <1>1, <2>2 DEF EndInv
    <2>4. scanned > 0 /\ latest.token.kind = "Eof"
            => latest' = [token |-> latest.token, trivia |-> <<>>]
      BY <2>1 DEF EndInv, Ends
    <2> QED BY <2>2, <2>3, <2>4 DEF EndStep
  <1> QED BY <1>2, <1>3

LEMMA EndsStep == LexInv /\ EndInv /\ [Next]_vars => EndInv' /\ EndStep
  <1> SUFFICES ASSUME LexInv, EndInv, [Next]_vars PROVE EndInv' /\ EndStep
    OBVIOUS
  <1>1. CASE CallNext \/ CallPeek \/ CallConsume \/ Stopped \/ UNCHANGED vars
    <2>1. UNCHANGED <<source, offset, condition, at, comment, trivia, latest, scanned>>
      BY <1>1 DEF CallNext, CallPeek, CallConsume, Stopped, Scan, scanner, vars
    <2> QED BY <2>1 DEF EndInv, EndStep
  <1> QED BY <1>1, ScanLexemeEnds, ScanCommentEnds, ScanLastEnds DEF Next

(* What ends a caller's loop comes and stays, for every source: only Eof is *)
(* empty, after it there is only Eof again, and a block comment left open   *)
(* gives one error with the Eof behind it.                                  *)
THEOREM EofEndsTheTokens == Spec => EofIsFinal
  <1>1. Init => LexInv /\ EndInv
    <2> SUFFICES ASSUME Init PROVE EndInv
      BY InitInv
    <2>1. scanned = 0 /\ condition = "INITIAL" /\ latest.token.kind = "Eof"
      BY DEF Init, NoToken, Lexeme
    <2> QED BY <2>1 DEF EndInv
  <1>2. EndStep => [ scanned' > scanned =>
        /\ latest'.token.kind = "Eof" <=> latest'.token.text = <<>>
        /\ scanned > 0 /\ latest.token.kind = "Eof"
             => latest' = [token |-> latest.token, trivia |-> <<>>]
        /\ latest.token.kind = "Error" /\ StartsWith(latest.token.text, <<"slash", "star">>)
             => latest'.token.kind = "Eof" ]_vars
    BY DEF EndStep
  <1> QED BY <1>1, <1>2, StepInv, EndsStep, PTL DEF Spec, EofIsFinal
-----------------------------------------------------------------------------
(* Positions: ptx_advance_position over one lexeme after another is the same *)
(* as over the whole text, if no lexeme ends between the two characters of a *)
(* CRLF.                                                                     *)

Places == [line : Int, column : Int]

EndChars(text) == {i \in 1 .. Len(text) : text[i] \in {"cr", "lf"}}
LineEnds(text) == {i \in EndChars(text) : IsLineEnd(text, i)}

Shifted(S, n) == {i + n : i \in S}

LEMMA EndCharsFinite ==
  ASSUME NEW text \in Seq(Classes)
  PROVE  /\ IsFiniteSet(EndChars(text)) /\ IsFiniteSet(LineEnds(text))
         /\ Cardinality(LineEnds(text)) \in Nat
         /\ EndChars(text) \subseteq 1 .. Len(text)
  <1>1. Len(text) \in Int /\ EndChars(text) \subseteq 1 .. Len(text)
        /\ LineEnds(text) \subseteq 1 .. Len(text)
    BY DEF EndChars, LineEnds
  <1>2. IsFiniteSet(1 .. Len(text))
    BY <1>1, FS_Interval
  <1> QED BY <1>1, <1>2, FS_Subset, FS_CardinalityType

LEMMA AdvanceIs ==
  ASSUME NEW from \in Places, NEW text \in Seq(Classes)
  PROVE  /\ Advance(from, text) \in Places
         /\ Advance(from, text).line = from.line + Cardinality(LineEnds(text))
         /\ EndChars(text) = {} => Advance(from, text).column = from.column + Len(text)
         /\ EndChars(text) # {}
              => Advance(from, text).column = Len(text) - Max(EndChars(text)) + 1
         /\ EndChars(text) # {} => Max(EndChars(text)) \in EndChars(text)
  <1> DEFINE column == IF EndChars(text) = {} THEN from.column + Len(text)
                       ELSE Len(text) - Max(EndChars(text)) + 1
  <1>1. Advance(from, text) = [line |-> from.line + Cardinality(LineEnds(text)), column |-> column]
    BY DEF Advance, EndChars, LineEnds
  <1>2. from.line \in Int /\ from.column \in Int /\ Len(text) \in Nat
    BY DEF Places
  <1>3. EndChars(text) # {} => Max(EndChars(text)) \in EndChars(text)
    <2>1. EndChars(text) \subseteq 0 .. Len(text)
      BY <1>2, EndCharsFinite
    <2> QED BY <1>2, <2>1, MaxIsGreatest
  <1>4. column \in Int
    BY <1>2, <1>3, EndCharsFinite
  <1>5. from.line + Cardinality(LineEnds(text)) \in Int
    BY <1>2, EndCharsFinite
  <1> HIDE DEF column
  <1>6. /\ Advance(from, text) \in Places
        /\ Advance(from, text).line = from.line + Cardinality(LineEnds(text))
        /\ Advance(from, text).column = column
    BY <1>1, <1>4, <1>5 DEF Places
  <1> QED BY <1>3, <1>6 DEF column

LEMMA ShiftedCardinality ==
  ASSUME NEW S, IsFiniteSet(S), S \subseteq Int, NEW n \in Int
  PROVE  IsFiniteSet(Shifted(S, n)) /\ Cardinality(Shifted(S, n)) = Cardinality(S)
  <1> DEFINE T == Shifted(S, n)
             f == [i \in S |-> i + n]
  <1>1. f \in [S -> T]
    BY DEF Shifted
  <1>2. \A i, j \in S : f[i] = f[j] => i = j
    OBVIOUS
  <1>3. \A y \in T : \E i \in S : f[i] = y
    BY DEF Shifted
  <1> HIDE DEF f, T
  <1>4. f \in Bijection(S, T)
    BY <1>1, <1>2, <1>3 DEF Bijection, Injection, Surjection, IsInjective
  <1>5. ExistsBijection(S, T)
    BY <1>4 DEF ExistsBijection
  <1> QED BY <1>5, FS_Bijection DEF T

(* No CRLF lies across the border of the two texts. *)
Apart(s, t) ==
  ~ (s # <<>> /\ t # <<>> /\ s[Len(s)] = "cr" /\ t[1] = "lf")

LEMMA EndsOfConcat ==
  ASSUME NEW s \in Seq(Classes), NEW t \in Seq(Classes), Apart(s, t)
  PROVE  /\ EndChars(s \o t) = EndChars(s) \cup Shifted(EndChars(t), Len(s))
         /\ LineEnds(s \o t) = LineEnds(s) \cup Shifted(LineEnds(t), Len(s))
  <1> DEFINE u == s \o t
             m == Len(s)
             n == Len(t)
  <1>1. /\ m \in Nat /\ n \in Nat /\ Len(u) = m + n
        /\ \A i \in 1 .. m : u[i] = s[i]
        /\ \A i \in 1 .. n : u[i + m] = t[i]
    <2>1. /\ m \in Nat /\ n \in Nat /\ Len(u) = m + n
          /\ \A i \in 1 .. m + n : u[i] = IF i <= m THEN s[i] ELSE t[i - m]
      BY ConcatProperties
    <2> HIDE DEF u, m, n
    <2>2. ASSUME NEW i \in 1 .. n PROVE u[i + m] = t[i]
      <3>1. i + m \in 1 .. m + n /\ ~ (i + m <= m) /\ i + m - m = i
        BY <2>1
      <3> QED BY <2>1, <3>1
    <2> QED BY <2>1, <2>2
  <1>2. (s # <<>> <=> m > 0) /\ (t # <<>> <=> n > 0)
    OBVIOUS
  <1>3. ~ (m > 0 /\ n > 0 /\ s[m] = "cr" /\ t[1] = "lf")
    BY <1>2 DEF Apart
  <1> HIDE DEF u, m, n
  <1>4. \A i \in 1 .. m : IsLineEnd(u, i) <=> IsLineEnd(s, i)
    BY <1>1 DEF IsLineEnd
  <1>5. \A i \in 1 .. n : \A k \in 1 .. m + n : k = i + m => (IsLineEnd(u, k) <=> IsLineEnd(t, i))
    <2> SUFFICES ASSUME NEW i \in 1 .. n, NEW k \in 1 .. m + n, k = i + m
                 PROVE  IsLineEnd(u, k) <=> IsLineEnd(t, i)
      OBVIOUS
    <2>1. u[k] = t[i]
      BY <1>1
    <2>2. CASE i = 1
      <3>1. CASE m = 0
        BY <1>1, <2>1, <2>2, <3>1 DEF IsLineEnd
      <3>2. CASE m > 0
        <4>1. k - 1 \in 1 .. m /\ k - 1 = m /\ k # 1 /\ n > 0
          BY <1>1, <2>2, <3>2
        <4>2. u[k - 1] = s[m]
          BY <1>1, <4>1
        <4> QED BY <1>3, <2>1, <2>2, <3>2, <4>1, <4>2 DEF IsLineEnd
      <3> QED BY <1>1, <3>1, <3>2
    <2>3. CASE i # 1
      <3>1. i - 1 \in 1 .. n /\ k - 1 = (i - 1) + m /\ k # 1
        BY <1>1, <2>3
      <3>2. u[k - 1] = t[i - 1]
        BY <1>1, <3>1
      <3>3. IsLineEnd(u, k) <=> u[k] = "cr" \/ (u[k] = "lf" /\ u[k - 1] # "cr")
        BY <3>1, Zenon DEF IsLineEnd
      <3>4. IsLineEnd(t, i) <=> t[i] = "cr" \/ (t[i] = "lf" /\ t[i - 1] # "cr")
        BY <2>3, Zenon DEF IsLineEnd
      <3> QED BY <2>1, <3>2, <3>3, <3>4
    <2> QED BY <2>2, <2>3
  <1>6. /\ \A i \in 1 .. m + n : i \in 1 .. m \/ (i - m \in 1 .. n /\ i = (i - m) + m)
        /\ \A i \in 1 .. m : i \in 1 .. m + n
        /\ \A i \in 1 .. n : i + m \in 1 .. m + n
    BY <1>1
  <1>7. EndChars(u) = EndChars(s) \cup Shifted(EndChars(t), m)
    <2>1. ASSUME NEW i \in EndChars(u) PROVE i \in EndChars(s) \cup Shifted(EndChars(t), m)
      <3>1. i \in 1 .. m + n /\ u[i] \in {"cr", "lf"}
        BY <1>1 DEF EndChars
      <3>2. CASE i \in 1 .. m
        BY <1>1, <3>1, <3>2 DEF EndChars, m
      <3>3. CASE i - m \in 1 .. n /\ i = (i - m) + m
        <4>1. t[i - m] \in {"cr", "lf"}
          BY <1>1, <3>1, <3>3
        <4>2. i - m \in EndChars(t)
          BY <3>3, <4>1 DEF EndChars, n
        <4> QED BY <3>3, <4>2 DEF Shifted
      <3> QED BY <1>6, <3>1, <3>2, <3>3
    <2>2. ASSUME NEW i PROVE i \in EndChars(s) => i \in EndChars(u)
      BY <1>1, <1>6 DEF EndChars, m
    <2>3. ASSUME NEW i \in EndChars(t) PROVE i + m \in EndChars(u)
      BY <1>1, <1>6 DEF EndChars, n
    <2>4. Shifted(EndChars(t), m) \subseteq EndChars(u)
      BY <2>3 DEF Shifted
    <2> QED BY <2>1, <2>2, <2>4
  <1>8. LineEnds(u) = LineEnds(s) \cup Shifted(LineEnds(t), m)
    <2>0. EndChars(s) \subseteq 1 .. m /\ EndChars(t) \subseteq 1 .. n
      BY DEF EndChars, m, n
    <2>1. ASSUME NEW i \in LineEnds(u) PROVE i \in LineEnds(s) \cup Shifted(LineEnds(t), m)
      <3>1. i \in EndChars(u) /\ IsLineEnd(u, i)
        BY DEF LineEnds
      <3>2. CASE i \in EndChars(s)
        BY <1>4, <2>0, <3>1, <3>2 DEF LineEnds
      <3>3. CASE i \in Shifted(EndChars(t), m)
        <4>1. PICK j \in EndChars(t) : i = j + m
          BY <3>3 DEF Shifted
        <4>2. IsLineEnd(t, j)
          BY <1>5, <1>6, <2>0, <3>1, <4>1
        <4> QED BY <4>1, <4>2 DEF LineEnds, Shifted
      <3> QED BY <1>7, <3>1, <3>2, <3>3
    <2>2. ASSUME NEW i \in LineEnds(s) PROVE i \in LineEnds(u)
      BY <1>4, <1>7, <2>0 DEF LineEnds
    <2>3. ASSUME NEW i \in LineEnds(t) PROVE i + m \in LineEnds(u)
      <3>1. i \in EndChars(t) /\ IsLineEnd(t, i)
        BY DEF LineEnds
      <3>2. i + m \in EndChars(u)
        BY <1>7, <3>1 DEF Shifted
      <3>3. IsLineEnd(u, i + m)
        BY <1>5, <1>6, <2>0, <3>1
      <3> QED BY <3>2, <3>3 DEF LineEnds
    <2>4. Shifted(LineEnds(t), m) \subseteq LineEnds(u)
      BY <2>3 DEF Shifted
    <2> QED BY <2>1, <2>2, <2>4
  <1> QED BY <1>7, <1>8 DEF u, m

LEMMA AdvanceConcat ==
  ASSUME NEW from \in Places, NEW s \in Seq(Classes), NEW t \in Seq(Classes), Apart(s, t)
  PROVE  Advance(Advance(from, s), t) = Advance(from, s \o t)
  <1> DEFINE u == s \o t
             mid == Advance(from, s)
  <1>1. /\ u \in Seq(Classes) /\ Len(u) = Len(s) + Len(t)
        /\ Len(s) \in Nat /\ Len(t) \in Nat
    BY ConcatProperties
  <1>2. /\ EndChars(u) = EndChars(s) \cup Shifted(EndChars(t), Len(s))
        /\ LineEnds(u) = LineEnds(s) \cup Shifted(LineEnds(t), Len(s))
    BY EndsOfConcat
  <1>3. /\ mid \in Places /\ mid.line = from.line + Cardinality(LineEnds(s))
        /\ from.line \in Int /\ from.column \in Int
    BY AdvanceIs DEF Places
  <1> HIDE DEF u
  <1>4. Cardinality(LineEnds(u)) = Cardinality(LineEnds(s)) + Cardinality(LineEnds(t))
    <2>1. LineEnds(s) \subseteq 1 .. Len(s) /\ LineEnds(t) \subseteq 1 .. Len(t)
      BY DEF LineEnds, EndChars
    <2>2. /\ IsFiniteSet(Shifted(LineEnds(t), Len(s)))
          /\ Cardinality(Shifted(LineEnds(t), Len(s))) = Cardinality(LineEnds(t))
      <3>1. LineEnds(t) \subseteq Int /\ Len(s) \in Int /\ IsFiniteSet(LineEnds(t))
        BY <1>1, <2>1, EndCharsFinite
      <3> QED BY <3>1, ShiftedCardinality
    <2>3. LineEnds(s) \cap Shifted(LineEnds(t), Len(s)) = {}
      BY <1>1, <2>1 DEF Shifted
    <2>4. Cardinality(LineEnds(u)) = Cardinality(LineEnds(s))
            + Cardinality(Shifted(LineEnds(t), Len(s))) - Cardinality({})
      BY <1>2, <2>2, <2>3, EndCharsFinite, FS_Union
    <2> QED BY <2>2, <2>4, EndCharsFinite, FS_EmptySet
  <1>5. Advance(mid, t).line = Advance(from, u).line
    <2>1. /\ Advance(mid, t).line = mid.line + Cardinality(LineEnds(t))
          /\ Advance(from, u).line = from.line + Cardinality(LineEnds(u))
      BY <1>1, <1>3, AdvanceIs
    <2> HIDE DEF mid
    <2> QED BY <1>3, <1>4, <2>1, EndCharsFinite
  <1>6. Advance(mid, t).column = Advance(from, u).column
    <2>1. EndChars(s) \subseteq 1 .. Len(s) /\ EndChars(t) \subseteq 1 .. Len(t)
          /\ EndChars(u) \subseteq 0 .. Len(u) /\ EndChars(u) \subseteq 1 .. Len(u)
      BY <1>1, EndCharsFinite
    <2>2. EndChars(t) \subseteq 0 .. Len(t) /\ EndChars(s) \subseteq 0 .. Len(s)
      BY <1>1, <2>1
    <2>3. CASE EndChars(t) # {}
      <3> DEFINE a == Max(EndChars(t))
                 b == Max(EndChars(u))
      <3>1. EndChars(u) # {} /\ a + Len(s) \in EndChars(u) /\ a \in EndChars(t)
            /\ \A x \in EndChars(t) : a >= x
        <4>1. a \in EndChars(t) /\ \A x \in EndChars(t) : a >= x
          BY <1>1, <2>2, <2>3, MaxIsGreatest
        <4> HIDE DEF a
        <4>2. a + Len(s) \in Shifted(EndChars(t), Len(s))
          BY <4>1 DEF Shifted
        <4> QED BY <1>2, <4>1, <4>2
      <3>2. b \in EndChars(u) /\ \A x \in EndChars(u) : b >= x
        BY SMTT(30), <1>1, <2>1, <3>1, MaxIsGreatest
      <3> HIDE DEF a, b
      <3>3. b = a + Len(s)
        <4>1. b >= a + Len(s)
          BY <3>1, <3>2
        <4>2. \A x \in EndChars(u) : x <= a + Len(s)
          BY <1>1, <1>2, <2>1, <3>1 DEF Shifted
        <4>3. a \in Int /\ b \in Int
          BY <1>1, <2>1, <3>1, <3>2
        <4> QED BY <1>1, <3>2, <4>1, <4>2, <4>3
      <3>4. /\ Advance(mid, t).column = Len(t) - a + 1
            /\ Advance(from, u).column = Len(u) - b + 1
        BY <1>1, <1>3, <2>3, <3>1, AdvanceIs DEF a, b
      <3>5. a \in Int
        BY <1>1, <2>1, <3>1
      <3> QED BY <1>1, <3>3, <3>4, <3>5
    <2>4. CASE EndChars(t) = {}
      <3>1. EndChars(u) = EndChars(s)
        BY <1>2, <2>4 DEF Shifted
      <3>2. Advance(mid, t).column = mid.column + Len(t)
        BY <1>3, <2>4, AdvanceIs
      <3>3. CASE EndChars(s) = {}
        <4>1. mid.column = from.column + Len(s)
              /\ Advance(from, u).column = from.column + Len(u)
          BY <1>1, <3>1, <3>3, AdvanceIs
        <4> HIDE DEF mid
        <4> QED BY <1>1, <1>3, <3>2, <4>1
      <3>4. CASE EndChars(s) # {}
        <4> DEFINE a == Max(EndChars(s))
        <4>1. /\ mid.column = Len(s) - a + 1
              /\ Advance(from, u).column = Len(u) - a + 1
              /\ a \in EndChars(s)
          BY <1>1, <3>1, <3>4, AdvanceIs
        <4>2. a \in Int
          <5> HIDE DEF a
          <5> QED BY <1>1, <2>1, <4>1
        <4> HIDE DEF mid, a
        <4> QED BY <1>1, <3>2, <4>1, <4>2
      <3> QED BY <3>3, <3>4
    <2> QED BY <2>3, <2>4
  <1>7. Advance(mid, t) \in Places /\ Advance(from, u) \in Places
    BY <1>1, <1>3, AdvanceIs
  <1>8. \A p, q \in Places : p.line = q.line /\ p.column = q.column => p = q
    BY DEF Places
  <1> HIDE DEF mid
  <1>9. Advance(mid, t) = Advance(from, u)
    BY <1>5, <1>6, <1>7, <1>8
  <1> QED BY <1>9 DEF mid, u
(* Where the rules may end: never between the characters of a CRLF *)
LEMMA LongestKeepsCrLf ==
  ASSUME NEW text \in Seq(Classes), text # <<>>, Longest(text).length < Len(text)
  PROVE  ~ (text[Longest(text).length] = "cr" /\ text[Longest(text).length + 1] = "lf")
  <1> DEFINE n == Longest(text).length
             rules == Rules(text)
             lengths == UNION {rules[r] : r \in DOMAIN rules}
  <1>1. n \in 1 .. Len(text) /\ Len(text) \in Nat /\ n < Len(text)
    BY LongestFits
  <1>2. SUFFICES ASSUME text[n] = "cr", text[n + 1] = "lf" PROVE FALSE
    OBVIOUS
  <1>3. lengths \subseteq 0 .. Len(text)
    BY <1>1, RulesFit
  <1>4. Whitespace(text) \subseteq lengths
    <2>1. rules["Whitespace"] = Whitespace(text) /\ "Whitespace" \in DOMAIN rules
      BY DEF Rules
    <2> HIDE DEF rules
    <2> QED BY <2>1
  <1>5. \A k \in 1 .. Len(text) :
          (\A i \in 1 .. k : text[i] \in {"space", "cr", "lf"}) => k \in Whitespace(text)
    BY <1>1 DEF Whitespace, Runs
  <1>6. CASE lengths = {}
    <2>1. n = 1
      BY <1>6 DEF Longest
    <2> HIDE DEF n
    <2>2. 1 \in Whitespace(text)
      BY <1>1, <1>2, <1>5, <2>1
    <2> QED BY <1>4, <1>6, <2>2
  <1>7. CASE lengths # {}
    <2>1. n = Max(lengths)
      BY <1>7 DEF Longest
    <2>2. n \in lengths /\ \A x \in lengths : n >= x
      <3> HIDE DEF lengths, n
      <3> QED BY <1>1, <1>3, <1>7, <2>1, MaxIsGreatest
    <2> HIDE DEF n
    <2>3. n \in Whitespace(text) \cup LineComment(text) \cup CommentOpen(text)
               \cup Word(text) \cup String(text) \cup Operator(text)
      BY <2>2 DEF Rules
    <2> HIDE DEF lengths, rules
    <2>4. n \in Whitespace(text)
      <3>1. n \notin LineComment(text)
        <4> SUFFICES ASSUME n \in LineComment(text) PROVE FALSE
          OBVIOUS
        <4>1. StartsWith(text, <<"slash", "slash">>) /\ n \in Runs(text, 2, Classes \ {"cr", "lf"})
          BY DEF LineComment
        <4>2. n >= 2 /\ \A i \in 3 .. n : text[i] \in Classes \ {"cr", "lf"}
          BY <4>1 DEF Runs
        <4>3. n = 2
          BY <1>1, <1>2, <4>2
        <4>6. text[2] = "slash"
          BY <4>1, StartIs
        <4> QED BY <1>2, <4>3, <4>6
      <3>2. n \notin CommentOpen(text)
        <4> SUFFICES ASSUME n \in CommentOpen(text) PROVE FALSE
          OBVIOUS
        <4>1. StartsWith(text, <<"slash", "star">>) /\ n = 2
          BY DEF CommentOpen
        <4>2. text[2] = "star"
          BY <4>1, StartIs
        <4> QED BY <1>2, <4>1, <4>2
      <3>3. n \notin Word(text)
        BY <1>1, <1>2 DEF Word, Runs
      <3>4. n \notin String(text)
        BY <1>2 DEF String
      <3>5. n \notin Operator(text)
        BY <1>2 DEF Operator
      <3> QED BY <2>3, <3>1, <3>2, <3>3, <3>4, <3>5
    <2>5. n + 1 \in Whitespace(text)
      <3>1. \A i \in 1 .. n : text[i] \in {"space", "cr", "lf"}
        BY <1>1, <2>4 DEF Whitespace, Runs
      <3>2. \A i \in 1 .. n + 1 : text[i] \in {"space", "cr", "lf"}
        BY <1>1, <1>2, <3>1
      <3> QED BY <1>1, <1>5, <3>2
    <2> QED BY <1>1, <1>4, <2>2, <2>5
  <1> QED BY <1>6, <1>7

(* Of a block comment, CR and LF are one match. *)
LEMMA CommentKeepsCrLf ==
  ASSUME LexInv, offset < Len(source), CommentLength < Len(Rest)
  PROVE  ~ (Rest[CommentLength] = "cr" /\ Rest[CommentLength + 1] = "lf")
  <1>1. Rest \in Seq(Classes) /\ CommentLength \in {1, 2} /\ Len(Rest) \in Nat
    BY RestFacts DEF CommentLength
  <1>2. /\ StartsWith(Rest, <<"star", "slash">>) <=> Len(Rest) >= 2 /\ Rest[1] = "star" /\ Rest[2] = "slash"
        /\ StartsWith(Rest, <<"cr", "lf">>) <=> Len(Rest) >= 2 /\ Rest[1] = "cr" /\ Rest[2] = "lf"
    BY <1>1, StartIs
  <1>3. CASE CommentLength = 1
    BY <1>1, <1>2, <1>3 DEF CommentLength
  <1>4. CASE CommentLength = 2
    <2>1. Rest[2] # "cr"
      BY <1>2, <1>4 DEF CommentLength
    <2> QED BY <1>4, <2>1
  <1> QED BY <1>1, <1>3, <1>4
(* The scanner stands between lexemes, and where the whole text has it. *)
Kinds == RuleNames \cup {"Error", "Eof", "BlockComment"}
Lexemes == [kind : Kinds, text : Seq(Classes), start : Places, end : Places]

AtInv ==
  /\ at = Advance(Origin, SubSeq(source, 1, offset))
  /\ ~ (offset \in 1 .. Len(source) - 1 /\ source[offset] = "cr" /\ source[offset + 1] = "lf")

(* The trivia found so far adjoin, up to the position of what comes next. *)
AdjoinInv ==
  /\ trivia \in Seq(Lexemes) /\ opened \in Places
  /\ Contiguous(trivia)
  /\ trivia # <<>> => trivia[Len(trivia)].end = IF condition = "BLOCK_COMMENT" THEN opened ELSE at
  /\ Contiguous(Append(latest.trivia, latest.token))

LEMMA AtIsPlace == AtInv /\ LexInv => at \in Places
  <1> SUFFICES ASSUME AtInv, LexInv PROVE at \in Places
    OBVIOUS
  <1>1. \A i \in 1 .. offset : source[i] \in Classes
    BY DEF LexInv
  <1>2. SubSeq(source, 1, offset) \in Seq(Classes)
    <2>1. offset \in Int
      BY DEF LexInv
    <2> QED BY <1>1, <2>1, SubSeqProperties
  <1>3. Origin \in Places
    BY DEF Origin, Places
  <1> QED BY <1>2, <1>3, AdvanceIs DEF AtInv

LEMMA AtWillBePlace == (AtInv /\ LexInv)' => (at \in Places)'
  BY AtIsPlace, PTL

LEMMA MatchAt ==
  ASSUME LexInv, AtInv, offset < Len(source), NEW n \in 1 .. Len(Rest), Match(n),
         ~ (n < Len(Rest) /\ Rest[n] = "cr" /\ Rest[n + 1] = "lf")
  PROVE  AtInv'
  <1> DEFINE s == SubSeq(source, 1, offset)
             t == SubSeq(Rest, 1, n)
  <1>1. /\ source \in Seq(Classes) /\ Len(source) \in Nat /\ offset \in Nat
        /\ Rest \in Seq(Classes) /\ Len(Rest) = Len(source) - offset
        /\ n \in Nat /\ n >= 1 /\ n <= Len(Rest)
    BY RestFacts DEF LexInv
  <1>2. offset' = offset + n /\ at' = Advance(at, t) /\ source' = source
    BY DEF Match
  <1>3. /\ t \in Seq(Classes) /\ s \o t = SubSeq(source, 1, offset + n)
    BY PieceExtends
  <1>4. /\ s \in Seq(Classes) /\ Len(s) = offset
        /\ \A i \in 1 .. offset : s[i] = source[i]
    <2>1. \A i \in 1 .. offset : source[i] \in Classes
      BY <1>1
    <2>2. /\ s \in Seq(Classes) /\ Len(s) = IF 1 <= offset THEN offset - 1 + 1 ELSE 0
          /\ \A i \in 1 .. offset - 1 + 1 : s[i] = source[1 + i - 1]
      BY <1>1, <2>1, SubSeqProperties
    <2> HIDE DEF s
    <2> QED BY <1>1, <2>2
  <1>5. \A i \in 1 .. Len(source) - offset : Rest[i] = source[offset + i]
    <2>1. \A i \in offset + 1 .. Len(source) : source[i] \in Classes
      BY <1>1
    <2>2. \A i \in 1 .. Len(source) - (offset + 1) + 1 :
            SubSeq(source, offset + 1, Len(source))[i] = source[(offset + 1) + i - 1]
      BY <1>1, <2>1, SubSeqProperties
    <2>3. \A i \in 1 .. Len(source) - offset : Rest[i] = source[(offset + 1) + i - 1]
      BY <1>1, <2>2 DEF Rest
    <2> QED BY <1>1, <2>3
  <1>6. t[1] = source[offset + 1]
    <2>1. \A i \in 1 .. n : Rest[i] \in Classes
      BY <1>1
    <2>2. \A i \in 1 .. n - 1 + 1 : t[i] = Rest[1 + i - 1]
      BY <1>1, <2>1, SubSeqProperties
    <2> HIDE DEF t
    <2>3. t[1] = Rest[1]
      BY <1>1, <2>2
    <2> QED BY <1>1, <1>5, <2>3
  <1>7. Apart(s, t)
    <2> HIDE DEF s, t
    <2>1. s # <<>> => offset \in 1 .. Len(source) - 1 /\ s[Len(s)] = source[offset]
      BY <1>1, <1>4
    <2> QED BY <1>6, <2>1 DEF Apart, AtInv
  <1>8. at' = Advance(Origin, SubSeq(source', 1, offset'))
    <2>1. Origin \in Places
      BY DEF Origin, Places
    <2>2. at = Advance(Origin, s)
      BY DEF AtInv
    <2> HIDE DEF s, t
    <2>3. Advance(Advance(Origin, s), t) = Advance(Origin, s \o t)
      BY <1>3, <1>4, <1>7, <2>1, AdvanceConcat
    <2> QED BY <1>2, <1>3, <2>2, <2>3
  <1>9. ~ (offset + n \in 1 .. Len(source) - 1 /\ source[offset + n] = "cr" /\ source[offset + n + 1] = "lf")
    <2> SUFFICES ASSUME offset + n \in 1 .. Len(source) - 1 PROVE ~ (source[offset + n] = "cr" /\ source[offset + n + 1] = "lf")
      OBVIOUS
    <2>1. n < Len(Rest) /\ n + 1 \in 1 .. Len(source) - offset /\ n \in 1 .. Len(source) - offset
      BY <1>1
    <2>2. Rest[n] = source[offset + n] /\ Rest[n + 1] = source[offset + (n + 1)]
      BY <1>5, <2>1
    <2>3. offset + (n + 1) = offset + n + 1
      BY <1>1
    <2> QED BY <2>1, <2>2, <2>3
  <1> HIDE DEF s, t
  <1> QED BY <1>2, <1>8, <1>9 DEF AtInv

(* A longer trivia adjoins if its last lexeme starts where the others end. *)
LEMMA ContiguousAppend ==
  ASSUME NEW s \in Seq(Lexemes), NEW lexeme \in Lexemes, Contiguous(s),
         s # <<>> => s[Len(s)].end = lexeme.start
  PROVE  /\ Append(s, lexeme) \in Seq(Lexemes) /\ Append(s, lexeme) # <<>>
         /\ Append(s, lexeme)[Len(Append(s, lexeme))] = lexeme
         /\ Contiguous(Append(s, lexeme))
  <1> DEFINE t == Append(s, lexeme)
  <1>1. /\ t \in Seq(Lexemes) /\ Len(t) = Len(s) + 1 /\ Len(s) \in Nat
        /\ \A i \in 1 .. Len(s) : t[i] = s[i]
        /\ t[Len(s) + 1] = lexeme
    BY AppendProperties
  <1> HIDE DEF t
  <1>2. ASSUME NEW i \in 1 .. Len(t) - 1 PROVE t[i].end = t[i + 1].start
    <2>1. CASE i = Len(s)
      <3>1. s # <<>>
        BY <1>1, <2>1
      <3> QED BY <1>1, <2>1, <3>1
    <2>2. CASE i # Len(s)
      <3>1. i \in 1 .. Len(s) - 1 /\ i \in 1 .. Len(s) /\ i + 1 \in 1 .. Len(s)
        BY <1>1, <2>2
      <3> QED BY <1>1, <3>1 DEF Contiguous
    <2> QED BY <2>1, <2>2
  <1>3. Contiguous(t) /\ t # <<>> /\ t[Len(t)] = lexeme
    BY <1>1, <1>2 DEF Contiguous
  <1> QED BY <1>1, <1>3 DEF t
LEMMA EmptyContiguous ==
  /\ <<>> \in Seq(Lexemes) /\ Contiguous(<<>>)
  /\ \A x : Contiguous(Append(<<>>, x))
  <1>1. Contiguous(<<>>) /\ <<>> \in Seq(Lexemes)
    BY DEF Contiguous
  <1>2. ASSUME NEW x PROVE Contiguous(Append(<<>>, x))
    <2>1. Append(<<>>, x) = <<x>> /\ Len(<<x>>) = 1
      OBVIOUS
    <2>2. 1 .. 1 - 1 = {}
      OBVIOUS
    <2> QED BY <2>1, <2>2 DEF Contiguous
  <1> QED BY <1>1, <1>2

(* Where the next lexeme starts: at the position, or where its comment was opened *)
Begin == IF condition = "BLOCK_COMMENT" THEN opened ELSE at

LEMMA LexemeAdjoins ==
  ASSUME AdjoinInv, NEW kind \in Kinds, NEW text \in Seq(Classes), NEW end \in Places,
         Begin \in Places
  PROVE  LET lexeme == Lexeme(kind, text, Begin, end)
             longer == Append(trivia, lexeme)
         IN /\ longer \in Seq(Lexemes) /\ longer # <<>>
            /\ longer[Len(longer)].end = end
            /\ Contiguous(longer)
  <1> DEFINE lexeme == Lexeme(kind, text, Begin, end)
  <1>1. lexeme \in Lexemes /\ lexeme.start = Begin /\ lexeme.end = end
    BY DEF Lexeme, Lexemes
  <1>2. trivia \in Seq(Lexemes) /\ Contiguous(trivia) /\ (trivia # <<>> => trivia[Len(trivia)].end = Begin)
    BY DEF AdjoinInv, Begin
  <1> HIDE DEF lexeme
  <1>3. /\ Append(trivia, lexeme) \in Seq(Lexemes) /\ Append(trivia, lexeme) # <<>>
        /\ Append(trivia, lexeme)[Len(Append(trivia, lexeme))] = lexeme
        /\ Contiguous(Append(trivia, lexeme))
    BY <1>1, <1>2, ContiguousAppend
  <1> QED BY <1>1, <1>3 DEF lexeme

(* The two ways in which a lexeme leaves the scanner *)
LEMMA AddAdjoins ==
  ASSUME AdjoinInv, NEW kind \in Kinds, NEW text \in Seq(Classes), Begin \in Places, at' \in Places,
         AddTrivia(Lexeme(kind, text, Begin, at')), opened' = opened, condition' = "INITIAL"
  PROVE  AdjoinInv'
  <1> DEFINE longer == Append(trivia, Lexeme(kind, text, Begin, at'))
  <1>1. longer \in Seq(Lexemes) /\ longer # <<>> /\ longer[Len(longer)].end = at' /\ Contiguous(longer)
    BY LexemeAdjoins
  <1>2. trivia' = longer /\ latest' = latest
    BY DEF AddTrivia
  <1> HIDE DEF longer
  <1> QED BY <1>1, <1>2 DEF AdjoinInv, Contiguous

LEMMA CompleteAdjoins ==
  ASSUME AdjoinInv, NEW kind \in Kinds, NEW text \in Seq(Classes), NEW end \in Places, Begin \in Places,
         Complete(Lexeme(kind, text, Begin, end)), opened' = opened
  PROVE  AdjoinInv'
  <1> DEFINE lexeme == Lexeme(kind, text, Begin, end)
  <1>1. Contiguous(Append(trivia, lexeme))
    BY LexemeAdjoins
  <1>2. trivia' = <<>> /\ latest'.token = lexeme /\ latest'.trivia = trivia
    BY DEF Complete
  <1> HIDE DEF lexeme
  <1>3. opened' \in Places
    BY DEF AdjoinInv
  <1> QED BY <1>1, <1>2, <1>3, EmptyContiguous DEF AdjoinInv, Contiguous

PositionInv == LexInv /\ AtInv /\ AdjoinInv

LEMMA ScanLexemePositions ==
  ASSUME PositionInv, ScanLexeme PROVE AtInv' /\ AdjoinInv'
  <1> DEFINE rule == Longest(Rest).rule
             n == Longest(Rest).length
             text == SubSeq(Rest, 1, n)
  <1>1. LexInv /\ AtInv /\ AdjoinInv /\ condition = "INITIAL" /\ offset < Len(source)
    BY DEF PositionInv, ScanLexeme, Scanning
  <1>2. Rest \in Seq(Classes) /\ Rest # <<>>
    BY <1>1, RestFacts
  <1>3. /\ n \in 1 .. Len(Rest) /\ rule \in Kinds
        /\ ~ (n < Len(Rest) /\ Rest[n] = "cr" /\ Rest[n + 1] = "lf")
    BY <1>2, LongestFits, LongestRule, LongestKeepsCrLf DEF Kinds
  <1>4. /\ Match(n) /\ condition' = condition /\ opened' = opened
        /\ AddTrivia(Lexeme(rule, text, at, at')) \/ Complete(Lexeme(rule, text, at, at'))
    BY DEF ScanLexeme
  <1> HIDE DEF rule, n
  <1>5. AtInv'
    BY <1>1, <1>3, <1>4, MatchAt
  <1>6. at \in Places /\ at' \in Places
    BY <1>1, <1>5, ScanLexemeInv, AtIsPlace, AtWillBePlace
  <1>7. Begin = at /\ Begin \in Places
    BY <1>1, <1>6 DEF Begin
  <1>8. text \in Seq(Classes)
    BY <1>1, <1>3, PieceExtends
  <1> HIDE DEF text
  <1>9. CASE AddTrivia(Lexeme(rule, text, at, at'))
    BY <1>1, <1>3, <1>4, <1>5, <1>6, <1>7, <1>8, <1>9, AddAdjoins
  <1>10. CASE Complete(Lexeme(rule, text, at, at'))
    BY <1>1, <1>3, <1>4, <1>5, <1>6, <1>7, <1>8, <1>10, CompleteAdjoins
  <1> QED BY <1>4, <1>9, <1>10

LEMMA ScanOpenPositions ==
  ASSUME PositionInv, ScanOpen PROVE AtInv' /\ AdjoinInv'
  <1>1. LexInv /\ AtInv /\ AdjoinInv /\ condition = "INITIAL" /\ offset < Len(source)
    BY DEF PositionInv, ScanOpen, Scanning
  <1>2. Rest \in Seq(Classes) /\ Rest # <<>>
    BY <1>1, RestFacts
  <1>3. Len(Rest) >= 2 /\ Rest[2] = "star" /\ 2 \in 1 .. Len(Rest)
    <2>1. StartsWith(Rest, <<"slash", "star">>)
      BY <1>2, LongestFits DEF ScanOpen
    <2> QED BY <1>2, <2>1, StartIs
  <1>4. /\ Match(2) /\ condition' = "BLOCK_COMMENT" /\ opened' = at
        /\ trivia' = trivia /\ latest' = latest
    BY DEF ScanOpen
  <1>5. AtInv'
    BY <1>1, <1>3, <1>4, MatchAt
  <1>6. at \in Places
    BY <1>1, AtIsPlace
  <1>7. trivia # <<>> => trivia[Len(trivia)].end = at
    BY <1>1 DEF AdjoinInv
  <1> QED BY <1>1, <1>4, <1>5, <1>6, <1>7 DEF AdjoinInv, Contiguous

LEMMA ScanCommentPositions ==
  ASSUME PositionInv, ScanComment PROVE AtInv' /\ AdjoinInv'
  <1> DEFINE n == CommentLength
             text == comment \o SubSeq(Rest, 1, n)
  <1>1. LexInv /\ AtInv /\ AdjoinInv /\ condition = "BLOCK_COMMENT" /\ offset < Len(source)
    BY DEF PositionInv, ScanComment, Scanning
  <1>2. n \in 1 .. Len(Rest) /\ ~ (n < Len(Rest) /\ Rest[n] = "cr" /\ Rest[n + 1] = "lf")
    BY <1>1, CommentLengthFits, CommentKeepsCrLf
  <1>3. /\ Match(n) /\ opened' = opened
        /\ \/ AddTrivia(Lexeme("BlockComment", text, opened, at')) /\ condition' = "INITIAL"
           \/ UNCHANGED <<trivia, latest, condition>>
    BY DEF ScanComment
  <1>4. text \in Seq(Classes)
    <2>1. SubSeq(Rest, 1, n) \in Seq(Classes) /\ comment \in Seq(Classes)
      <3> HIDE DEF n
      <3> QED BY <1>1, <1>2, PieceExtends DEF LexInv
    <2> QED BY <2>1, ConcatProperties
  <1> HIDE DEF n, text
  <1>5. AtInv'
    BY <1>1, <1>2, <1>3, MatchAt
  <1>6. at' \in Places
    BY <1>1, <1>5, ScanCommentInv, AtWillBePlace
  <1>7. Begin = opened /\ Begin \in Places /\ "BlockComment" \in Kinds
    BY <1>1 DEF Begin, AdjoinInv, Kinds
  <1>8. CASE AddTrivia(Lexeme("BlockComment", text, opened, at')) /\ condition' = "INITIAL"
    BY <1>1, <1>3, <1>4, <1>5, <1>6, <1>7, <1>8, AddAdjoins
  <1>9. CASE UNCHANGED <<trivia, latest, condition>>
    BY <1>1, <1>3, <1>5, <1>9 DEF AdjoinInv, Contiguous
  <1> QED BY <1>3, <1>8, <1>9

LEMMA ScanLastPositions ==
  ASSUME PositionInv, ScanUnterminated \/ ScanEof PROVE AtInv' /\ AdjoinInv'
  <1>1. LexInv /\ AtInv /\ AdjoinInv /\ at \in Places
    BY AtIsPlace DEF PositionInv
  <1>2. source' = source /\ offset' = offset /\ at' = at /\ opened' = opened
    BY DEF ScanUnterminated, ScanEof, scanner
  <1>3. AtInv'
    BY <1>1, <1>2 DEF AtInv
  <1>4. Begin \in Places
    BY <1>1 DEF Begin, AdjoinInv
  <1>5. CASE ScanUnterminated
    <2>1. Complete(Lexeme("Error", comment, opened, at)) /\ condition = "BLOCK_COMMENT"
      BY <1>5 DEF ScanUnterminated, Scanning
    <2>2. Begin = opened /\ comment \in Seq(Classes) /\ "Error" \in Kinds
      BY <1>1, <2>1 DEF Begin, LexInv, Kinds
    <2> QED BY <1>1, <1>2, <1>3, <1>4, <2>1, <2>2, CompleteAdjoins
  <1>6. CASE ScanEof
    <2>1. Complete(Lexeme("Eof", <<>>, at, at)) /\ condition = "INITIAL"
      BY <1>6 DEF ScanEof, Scanning
    <2>2. Begin = at /\ <<>> \in Seq(Classes) /\ "Eof" \in Kinds
      BY <2>1 DEF Begin, Kinds
    <2> QED BY <1>1, <1>2, <1>3, <1>4, <2>1, <2>2, CompleteAdjoins
  <1> QED BY <1>5, <1>6

LEMMA PositionsStep == PositionInv /\ [Next]_vars => PositionInv'
  <1> SUFFICES ASSUME PositionInv, [Next]_vars PROVE PositionInv'
    OBVIOUS
  <1>1. LexInv'
    BY StepInv DEF PositionInv
  <1>2. CASE CallNext \/ CallPeek \/ CallConsume \/ Stopped \/ UNCHANGED vars
    <2>1. UNCHANGED <<source, offset, condition, at, opened, trivia, latest>>
      BY <1>2 DEF CallNext, CallPeek, CallConsume, Stopped, Scan, scanner, vars
    <2> QED BY <1>1, <2>1 DEF PositionInv, AtInv, AdjoinInv, Contiguous
  <1>3. CASE ScanLexeme
    BY <1>1, <1>3, ScanLexemePositions DEF PositionInv
  <1>4. CASE ScanOpen
    BY <1>1, <1>4, ScanOpenPositions DEF PositionInv
  <1>5. CASE ScanComment
    BY <1>1, <1>5, ScanCommentPositions DEF PositionInv
  <1>6. CASE ScanUnterminated \/ ScanEof
    BY <1>1, <1>6, ScanLastPositions DEF PositionInv
  <1> QED BY <1>2, <1>3, <1>4, <1>5, <1>6 DEF Next

LEMMA PositionsInit == Init => PositionInv
  <1> SUFFICES ASSUME Init PROVE PositionInv
    OBVIOUS
  <1>1. LexInv
    BY InitInv
  <1>2. Origin \in Places
    BY DEF Origin, Places
  <1>3. SubSeq(source, 1, 0) = <<>> /\ <<>> \in Seq(Classes)
    OBVIOUS
  <1>4. Advance(Origin, <<>>) = Origin
    <2>1. EndChars(<<>>) = {} /\ LineEnds(<<>>) = {} /\ Len(<<>>) = 0
      BY DEF EndChars, LineEnds
    <2>2. /\ Advance(Origin, <<>>) \in Places
          /\ Advance(Origin, <<>>).line = Origin.line + Cardinality(LineEnds(<<>>))
          /\ Advance(Origin, <<>>).column = Origin.column + Len(<<>>)
      BY <1>2, <1>3, <2>1, AdvanceIs
    <2>3. Cardinality(LineEnds(<<>>)) = 0
      BY <2>1, FS_EmptySet
    <2>4. /\ Advance(Origin, <<>>).line = Origin.line
          /\ Advance(Origin, <<>>).column = Origin.column
      BY <1>2, <2>1, <2>2, <2>3 DEF Places
    <2>5. \A p, q \in Places : p.line = q.line /\ p.column = q.column => p = q
      BY DEF Places
    <2> QED BY <1>2, <2>2, <2>4, <2>5
  <1>5. /\ offset = 0 /\ at = Origin /\ opened = Origin /\ trivia = <<>>
        /\ latest.trivia = <<>> /\ 0 \notin 1 .. Len(source) - 1
    BY <1>1 DEF Init, LexInv
  <1>6. AtInv
    BY <1>3, <1>4, <1>5 DEF AtInv
  <1>7. AdjoinInv
    BY <1>2, <1>5, EmptyContiguous DEF AdjoinInv
  <1> QED BY <1>1, <1>6, <1>7 DEF PositionInv

(* Lines and columns are those of the whole source, whatever the lexemes,   *)
(* and the ranges of a token and its trivia adjoin: for every source, CR,   *)
(* LF and CRLF mixed at will.                                               *)
THEOREM PositionsAreTheSource == Spec => []PositionsMatchSource
  <1>1. PositionInv => PositionsMatchSource
    BY DEF PositionInv, AtInv, AdjoinInv, PositionsMatchSource
  <1> QED BY <1>1, PositionsInit, PositionsStep, PTL DEF Spec
=============================================================================
