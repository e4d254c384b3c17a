------------------------------- MODULE MCLexer -------------------------------
(* Finite instances of Lexer for TLC. *)
EXTENDS Lexer

TextsOver(characters, lengths) == UNION {[1 .. n -> characters] : n \in lengths}

(* "space" behaves as "lf" does within a run of whitespace. *)
TextClasses == Classes \ {"space"}

(* Enough for two block comments, one after the other *)
CommentClasses == {"cr", "lf", "slash", "star", "word"}

AllTexts == UNION {TextsOver(TextClasses, 0 .. 5), TextsOver(CommentClasses, {6})}
=============================================================================
