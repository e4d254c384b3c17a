---------------------------- MODULE MCCstParser ----------------------------
(* Finite instances of CstParser for TLC. *)
EXTENDS CstParser

(* The kinds of bodies, blocks and the items that fail inside them *)
BodyKinds == {"DotEntry", "Ident", "LBrace", "RBrace", "Semicolon", "Comma", "Colon", "Int",
              "DotLoc", "DotWeak", "AtAtDwarf", "DotSection", "DotIdent", "Space"}

(* With the kinds of guards, headers, strings and other boundaries *)
MoreKinds == BodyKinds \cup {"At", "LParen", "RParen", "String", "Qualifier", "DotFunc",
                             "DotPragma"}

(* Every kind, for inputs of fewer tokens *)
AllKinds == TokenKinds
=============================================================================
