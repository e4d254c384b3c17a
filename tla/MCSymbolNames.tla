--------------------------- MODULE MCSymbolNames ---------------------------
(* A finite instance of SymbolNames for TLC: member numbers of 4 bits. *)
EXTENDS SymbolNames

Declared == {<<"r">>, <<"r", "1">>, <<"r", "1", "0">>, <<"r", "1", "2">>, <<"r", "0", "1">>}

Asked == Declared \cup {Append(name, d) : name \in Declared, d \in {"0", "1", "9"}}
         \cup {<<"s", "0">>}

Written == Digits \cup {"r", "s"}
=============================================================================
