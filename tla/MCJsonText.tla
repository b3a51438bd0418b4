----------------------------- MODULE MCJsonText -----------------------------
(* JSON texts for TLC: the alphabets of the runs. *)
EXTENDS JsonText

\* Brackets, a string that is key or value, an integer, and 1e2.
PlainAlphabet ==
    {OpenObject, CloseObject, OpenArray, CloseArray, Str("a"), Num(1), Numeral(Decimal(1, 1, 2))}
=============================================================================
