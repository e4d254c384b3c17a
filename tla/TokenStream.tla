----------------------------- MODULE TokenStream -----------------------------
(***************************************************************************)
(* What the parser expects of its token cursor (submod/cst/src/            *)
(* ptx_cst_parser_detail.hpp): a source of tokens that ends in endlessly   *)
(* many Eof, read in order and with a lookahead of two.  The id of a token *)
(* is its place in the source, so a CstTokenRange is a span of the source. *)
(***************************************************************************)
EXTENDS Naturals, Sequences

CONSTANT Kinds   \* the token kinds other than Eof

VARIABLES
  source,   \* the tokens of the input
  place,    \* how many have been consumed
  answer    \* the token that the last call returned

(* The token with this id; ids count from 0. *)
TokenAt(tokens, id) ==
  [id |-> id, kind |-> IF id < Len(tokens) THEN tokens[id + 1] ELSE "Eof"]

Init == source \in Seq(Kinds) /\ place = 0 /\ answer = [id |-> 0, kind |-> "none"]

Peek == answer' = TokenAt(source, place) /\ UNCHANGED <<source, place>>

PeekNext == answer' = TokenAt(source, place + 1) /\ UNCHANGED <<source, place>>

Consume == answer' = TokenAt(source, place) /\ place' = place + 1 /\ UNCHANGED source

Next == Peek \/ PeekNext \/ Consume

Spec == Init /\ [][Next]_<<source, place, answer>>
=============================================================================
