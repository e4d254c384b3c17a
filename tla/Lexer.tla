-------------------------------- MODULE Lexer --------------------------------
(***************************************************************************)
(* The lexer (submod/lexer/src/ptx_lexer.l, ptx_lexer.cpp): the scanner    *)
(* with its start condition, its side buffer for block comments and its    *)
(* source position, and PtxLexer with its one-token cache on top of it.    *)
(*                                                                         *)
(* Characters are abstracted to the classes that decide where a lexeme     *)
(* ends when comments, strings and line ends are at stake.  "word" stands  *)
(* for the characters of names, numbers and dotted names, whose rules all  *)
(* match a run of them; `/` and `*` stand for every operator.              *)
(***************************************************************************)
EXTENDS Integers, Sequences, FiniteSets, FiniteSetsExt

CONSTANTS
  Texts,      \* the sources that are scanned
  MaxTokens   \* bound: the scanner is asked for no more tokens than this

Classes == {"space", "cr", "lf", "slash", "star", "quote", "backslash", "word"}

ASSUME TextsAssumption == Texts \subseteq Seq(Classes)
ASSUME BoundsAssumption == MaxTokens \in Nat

VARIABLES
  source,     \* the text
  offset,     \* how much of it has been scanned
  condition,  \* the start condition, INITIAL or BLOCK_COMMENT
  at,         \* PtxLexerExtra::pos, the position behind it
  comment,    \* block_comment_text
  opened,     \* block_comment_start
  trivia,     \* leading_trivia of the next() that runs
  call,       \* the operation that runs, or "none"
  cache,      \* peek_ and has_peek_: a sequence of at most one token
  \* history variables
  latest,     \* the token that was scanned last
  written,    \* the texts of all trivia and tokens scanned, in order
  scanned,    \* how many tokens have been scanned
  delivered   \* the numbers of those that consume() or next() have returned

scanner == <<offset, condition, at, comment, opened>>
client == <<call, cache, delivered>>
vars == <<source, offset, condition, at, comment, opened, trivia, call, cache,
          latest, written, scanned, delivered>>

-----------------------------------------------------------------------------
(* ptx_advance_position *)

IsLineEnd(text, i) ==
  text[i] = "cr" \/ (text[i] = "lf" /\ (i = 1 \/ text[i - 1] # "cr"))

(* The column starts anew behind either character of a line end. *)
Advance(from, text) ==
  LET ends == {i \in 1 .. Len(text) : text[i] \in {"cr", "lf"}}
  IN [line |-> from.line + Cardinality({i \in ends : IsLineEnd(text, i)}),
      column |-> IF ends = {} THEN from.column + Len(text) ELSE Len(text) - Max(ends) + 1]

Origin == [line |-> 1, column |-> 1]

-----------------------------------------------------------------------------
(* The rules of INITIAL, each as the set of lengths that it can match next *)

Rest == SubSeq(source, offset + 1, Len(source))

Runs(text, from, kinds) ==
  {n \in from .. Len(text) : \A i \in from + 1 .. n : text[i] \in kinds}

StartsWith(text, prefix) ==
  Len(text) >= Len(prefix) /\ SubSeq(text, 1, Len(prefix)) = prefix

WhitespaceOne(text) == IF text[1] \in {"space", "cr", "lf"} THEN {1} ELSE {}
Whitespace(text) == Runs(text, 0, {"space", "cr", "lf"}) \ {0}

LineComment(text) ==
  IF StartsWith(text, <<"slash", "slash">>) THEN Runs(text, 2, Classes \ {"cr", "lf"}) ELSE {}

CommentOpen(text) == IF StartsWith(text, <<"slash", "star">>) THEN {2} ELSE {}

Word(text) == Runs(text, 0, {"word"}) \ {0}

(* A character behind an odd number of backslashes is escaped. *)
Escaped(text, i) ==
  \E n \in 1 .. i - 2 : /\ n % 2 = 1
                        /\ \A k \in i - n .. i - 1 : text[k] = "backslash"
                        /\ text[i - n - 1] # "backslash"

String(text) ==
  {n \in 2 .. Len(text) :
     /\ text[1] = "quote" /\ text[n] = "quote" /\ ~Escaped(text, n)
     /\ \A i \in 2 .. n - 1 :
          IF Escaped(text, i) THEN text[i] # "lf" ELSE text[i] \notin {"quote", "cr", "lf"}}

Operator(text) == IF text[1] \in {"slash", "star"} THEN {1} ELSE {}

Rules(text) ==
  [Whitespace |-> Whitespace(text), LineComment |-> LineComment(text),
   CommentOpen |-> CommentOpen(text), Word |-> Word(text), String |-> String(text),
   Operator |-> Operator(text)]

(* The longest match wins; the rule for any other character is the last. *)
Longest(text) ==
  LET rules == Rules(text)
      lengths == UNION {rules[r] : r \in DOMAIN rules}
  IN IF lengths = {} THEN [rule |-> "Error", length |-> 1]
     ELSE [rule |-> CHOOSE r \in DOMAIN rules : Max(lengths) \in rules[r],
           length |-> Max(lengths)]

(* The rules of BLOCK_COMMENT *)
CommentLength ==
  IF StartsWith(Rest, <<"star", "slash">>) \/ StartsWith(Rest, <<"cr", "lf">>) THEN 2 ELSE 1

-----------------------------------------------------------------------------
Lexeme(kind, text, start, end) == [kind |-> kind, text |-> text, start |-> start, end |-> end]

NoToken == Lexeme("Eof", <<>>, Origin, Origin)

Init ==
  /\ source \in Texts
  /\ offset = 0 /\ condition = "INITIAL" /\ at = Origin
  /\ comment = <<>> /\ opened = Origin /\ trivia = <<>>
  /\ call = "none" /\ cache = <<>>
  /\ latest = [token |-> NoToken, trivia |-> <<>>]
  /\ written = <<>> /\ scanned = 0 /\ delivered = {}

(* YY_USER_ACTION on a match of this length *)
Match(length) ==
  /\ offset' = offset + length
  /\ at' = Advance(at, SubSeq(Rest, 1, length))
  /\ UNCHANGED source

(* next() appends the lexeme to the trivia of the token to come. *)
AddTrivia(lexeme) ==
  /\ trivia' = Append(trivia, lexeme)
  /\ written' = written \o lexeme.text
  /\ UNCHANGED <<client, latest, scanned>>

(* next() returns a token: to peek(), to consume() or to its own caller. *)
Complete(lexeme) ==
  /\ latest' = [token |-> lexeme, trivia |-> trivia]
  /\ trivia' = <<>>
  /\ written' = written \o lexeme.text
  /\ scanned' = scanned + 1
  /\ call' = "none"
  /\ IF call = "peek" THEN cache' = <<scanned + 1>> /\ UNCHANGED delivered
     ELSE delivered' = delivered \cup {scanned + 1} /\ UNCHANGED cache

IsTriviaWhitespace(kind) == kind \in {"Whitespace", "BlockComment"}
IsTrivia(kind) == kind \in {"Whitespace", "LineComment", "BlockComment"}

Scanning(start) == call # "none" /\ condition = start

-----------------------------------------------------------------------------
(* A match in INITIAL other than the start of a block comment *)
ScanLexeme ==
  LET match == Longest(Rest)
      lexeme == Lexeme(match.rule, SubSeq(Rest, 1, match.length), at, at')
  IN /\ Scanning("INITIAL") /\ offset < Len(source)
     /\ match.rule # "CommentOpen"
     /\ Match(match.length)
     /\ IF IsTrivia(match.rule) THEN AddTrivia(lexeme) ELSE Complete(lexeme)
     /\ UNCHANGED <<condition, comment, opened>>

CommentStartDropped == <<>>
CommentStartAppends == comment \o <<"slash", "star">>
CommentStart == <<"slash", "star">>

ScanOpen ==
  /\ Scanning("INITIAL") /\ offset < Len(source)
  /\ Longest(Rest).rule = "CommentOpen"
  /\ Match(2)
  /\ condition' = "BLOCK_COMMENT" /\ comment' = CommentStart /\ opened' = at
  /\ UNCHANGED <<trivia, client, latest, written, scanned>>

ScanComment ==
  LET text == SubSeq(Rest, 1, CommentLength)
  IN /\ Scanning("BLOCK_COMMENT") /\ offset < Len(source)
     /\ Match(CommentLength)
     /\ comment' = comment \o text
     /\ \/ /\ text = <<"star", "slash">>
           /\ AddTrivia(Lexeme("BlockComment", comment', opened, at'))
           /\ condition' = "INITIAL"
        \/ /\ text # <<"star", "slash">>
           /\ UNCHANGED <<trivia, client, latest, written, scanned, condition>>
     /\ UNCHANGED opened

ConditionAfterErrorStays == "BLOCK_COMMENT"
ConditionAfterError == "INITIAL"

(* The end of the input inside a block comment: the error comes once. *)
ScanUnterminated ==
  /\ Scanning("BLOCK_COMMENT") /\ offset = Len(source)
  /\ Complete(Lexeme("Error", comment, opened, at))
  /\ condition' = ConditionAfterError
  /\ UNCHANGED <<source, offset, at, comment, opened>>

ScanEof ==
  /\ Scanning("INITIAL") /\ offset = Len(source)
  /\ Complete(Lexeme("Eof", <<>>, at, at))
  /\ UNCHANGED <<source, scanner>>

-----------------------------------------------------------------------------
Scan(operation) ==
  /\ scanned < MaxTokens
  /\ call' = operation
  /\ UNCHANGED <<source, scanner, trivia, cache, latest, written, scanned, delivered>>

Idle == call = "none"

(* next() reads behind the cache. *)
CallNext == Idle /\ Scan("next")

CallPeek == Idle /\ cache = <<>> /\ Scan("peek")

CacheAfterConsumeStays == cache
CacheAfterConsume == <<>>

CallConsume ==
  /\ Idle
  /\ \/ /\ cache # <<>>
        /\ delivered' = delivered \cup {cache[1]}
        /\ cache' = CacheAfterConsume
        /\ UNCHANGED <<source, scanner, trivia, call, latest, written, scanned>>
     \/ cache = <<>> /\ Scan("consume")

Stopped == Idle /\ scanned = MaxTokens /\ UNCHANGED vars

Next ==
  \/ CallNext \/ CallPeek \/ CallConsume
  \/ ScanLexeme \/ ScanOpen \/ ScanComment \/ ScanUnterminated \/ ScanEof
  \/ Stopped

Spec == Init /\ [][Next]_vars

-----------------------------------------------------------------------------
TriviaKinds == {"Whitespace", "LineComment", "BlockComment"}

TypeOK ==
  /\ offset \in 0 .. Len(source) /\ condition \in {"INITIAL", "BLOCK_COMMENT"}
  /\ call \in {"none", "next", "peek", "consume"}
  /\ \A i \in 1 .. Len(trivia) : trivia[i].kind \in TriviaKinds
  /\ latest.token.kind \notin TriviaKinds
  /\ Len(cache) <= 1

(* The lexemes are the source: no character is dropped or repeated, not    *)
(* even by the side buffer of block comments, by an error or at the end.   *)
Lossless ==
  written \o (IF condition = "BLOCK_COMMENT" THEN comment ELSE <<>>) = SubSeq(source, 1, offset)

(* The trivia and the token make up an unbroken range of positions. *)
Contiguous(lexemes) ==
  \A i \in 1 .. Len(lexemes) - 1 : lexemes[i].end = lexemes[i + 1].start

(* Positions count lines as the whole source does, whatever the lexemes    *)
(* between which a CR, an LF or a CRLF falls, and the ranges of a token    *)
(* and its trivia adjoin.                                                  *)
PositionsMatchSource ==
  /\ at = Advance(Origin, SubSeq(source, 1, offset))
  /\ Contiguous(Append(latest.trivia, latest.token))

(* Each token that was scanned is delivered once, or waits in the cache:   *)
(* also next() between peek() and consume() loses none.                    *)
DeliveredOnce ==
  /\ delivered \cup {cache[i] : i \in 1 .. Len(cache)} = 1 .. scanned
  /\ Idle => \A i \in 1 .. Len(cache) : cache[i] \notin delivered

(* Only Eof takes nothing from the source, and what ends a caller's loop   *)
(* does come: after Eof there is nothing else, and an Error that is a block *)
(* comment left open is followed by Eof.                                    *)
EofIsFinal ==
  [][ scanned' > scanned =>
        /\ latest'.token.kind = "Eof" <=> latest'.token.text = <<>>
        /\ scanned > 0 /\ latest.token.kind = "Eof"
             => latest' = [token |-> latest.token, trivia |-> <<>>]
        /\ latest.token.kind = "Error" /\ StartsWith(latest.token.text, <<"slash", "star">>)
             => latest'.token.kind = "Eof" ]_vars
=============================================================================
