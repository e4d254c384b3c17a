----------------------------- MODULE TokenCursor -----------------------------
(***************************************************************************)
(* The token cursor of PtxCstParser (submod/cst/src/                       *)
(* ptx_cst_parser_detail.hpp): the owned buffer tokens_ and the two cached *)
(* ids peeked_ and buffered_next_.  The lexer delivers its tokens in order *)
(* and repeats Eof.  The parser may call the three operations in any       *)
(* order; the bound MaxLexed ends the runs, not the code.                  *)
(***************************************************************************)
EXTENDS Integers, Sequences

CONSTANTS
  Kinds,      \* the token kinds other than Eof
  MaxSource,  \* bound: no input has more tokens than this
  MaxLexed    \* bound: no more tokens than this are lexed

ASSUME KindsAssumption == Kinds \subseteq STRING /\ "Eof" \notin Kinds
ASSUME CursorBoundsAssumption == MaxSource \in Nat /\ MaxLexed \in Nat

VARIABLES
  source,          \* the tokens that the lexer has to deliver
  tokens_,         \* those it has delivered, with id Len - 1 for the last
  peeked_,         \* id of the lookahead token, or missing
  buffered_next_,  \* id of its successor, or missing
  answer           \* the token that the last call returned

cursor_state == <<source, tokens_, peeked_, buffered_next_, answer>>

(* std::nullopt *)
missing == -1

token(tokens, id) == [id |-> id, kind |-> tokens[id + 1]]

(* lexer_.consume() after so many tokens *)
LexedShort(count) == IF count + 1 < Len(source) THEN source[count + 1] ELSE "Eof"
Lexed(count) == IF count < Len(source) THEN source[count + 1] ELSE "Eof"

Inputs == UNION { [1 .. n -> Kinds] : n \in 0 .. MaxSource }

CursorInit ==
  /\ source \in Inputs
  /\ tokens_ = <<>> /\ peeked_ = missing /\ buffered_next_ = missing
  /\ answer = [id |-> 0, kind |-> "none"]

(* The state that peek() leaves: the buffer, the lookahead, its successor *)
PeekedStale ==
  IF peeked_ # missing THEN <<tokens_, peeked_, buffered_next_>>
  ELSE IF buffered_next_ # missing THEN <<tokens_, buffered_next_, buffered_next_>>
  ELSE <<Append(tokens_, Lexed(Len(tokens_))), Len(tokens_), missing>>

PeekedLexes ==
  IF peeked_ # missing THEN <<tokens_, peeked_, buffered_next_>>
  ELSE <<Append(tokens_, Lexed(Len(tokens_))), Len(tokens_), missing>>

Peeked ==
  IF peeked_ # missing THEN <<tokens_, peeked_, buffered_next_>>
  ELSE IF buffered_next_ # missing THEN <<tokens_, buffered_next_, missing>>
  ELSE <<Append(tokens_, Lexed(Len(tokens_))), Len(tokens_), missing>>

peek ==
  /\ tokens_' = Peeked[1] /\ peeked_' = Peeked[2] /\ buffered_next_' = Peeked[3]
  /\ answer' = token(tokens_', peeked_')
  /\ UNCHANGED source

peekNext ==
  /\ peeked_' = Peeked[2]
  /\ \/ /\ Peeked[3] # missing
        /\ tokens_' = Peeked[1] /\ buffered_next_' = Peeked[3]
     \/ /\ Peeked[3] = missing
        /\ tokens_' = Append(Peeked[1], Lexed(Len(Peeked[1])))
        /\ buffered_next_' = Len(Peeked[1])
  /\ answer' = token(tokens_', buffered_next_')
  /\ UNCHANGED source

consume ==
  /\ tokens_' = Peeked[1] /\ peeked_' = missing /\ buffered_next_' = Peeked[3]
  /\ answer' = token(tokens_', Peeked[2])
  /\ UNCHANGED source

Bounded == Len(tokens_) + 2 <= MaxLexed

CursorNext ==
  \/ Bounded /\ peek
  \/ Bounded /\ peekNext
  \/ Bounded /\ consume
  \/ ~Bounded /\ UNCHANGED cursor_state

CursorSpec == CursorInit /\ [][CursorNext]_cursor_state

-----------------------------------------------------------------------------
(* How many tokens the parser has consumed *)
place ==
  IF peeked_ # missing THEN peeked_
  ELSE IF buffered_next_ # missing THEN buffered_next_
  ELSE Len(tokens_)

Stream == INSTANCE TokenStream

(* Whatever the order of the calls, the caches deliver every token of the  *)
(* source once and in order, a lookahead is the token consumed next, and   *)
(* ids stay the places in the source.                                      *)
ImplementsStream == Stream!Spec

(* The buffer holds the source as far as it has been lexed. *)
CursorTypeOK ==
  /\ source \in Seq(Kinds) /\ tokens_ \in Seq(Kinds \cup {"Eof"})
  /\ \A i \in 1 .. Len(tokens_) : tokens_[i] = Stream!TokenAt(source, i - 1).kind
  /\ peeked_ \in Nat \cup {missing} /\ buffered_next_ \in Nat \cup {missing}

(* The lexer is never read further ahead than the lookahead: what is lexed *)
(* and not consumed is the last one or two tokens of the buffer, and the   *)
(* caches hold exactly those.                                              *)
LookaheadHeld ==
  /\ (peeked_ # missing /\ buffered_next_ # missing) => peeked_ = Len(tokens_) - 2
  /\ (peeked_ # missing /\ buffered_next_ = missing) => peeked_ = Len(tokens_) - 1
  /\ buffered_next_ # missing => buffered_next_ = Len(tokens_) - 1
=============================================================================
