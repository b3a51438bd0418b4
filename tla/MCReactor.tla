----------------------------- MODULE MCReactor -----------------------------
(* The reactor for TLC: answers of up to MaxSteps strings and pieces in two *)
(* texts that begin with three bytes and move as they grow, among regions   *)
(* of 16 bytes; a string with a character of every kind.                    *)
EXTENDS Reactor

MCNames == <<1, 2>>
MCBodySizes == {4}
MCStrings == {<<"quote", "newline", "x", "control">>}
MCPieces == {<<":">>}
\* It fits with its NUL, and no more.
MCErrorText == <<"{", "e", "r", "r", "o", "r", "}">>
=============================================================================
