--------------------------- MODULE MCPasswordGen ---------------------------
(* Three categories, one of them with nothing but ambiguous characters, and *)
(* lengths on both sides of both limits and of the number of categories.    *)
EXTENDS PasswordGen, TLC

CONSTANTS upper, digits, symbols, A, I, zero, plus

MCCategories == {upper, digits, symbols}
MCCharsOf == (upper :> {A, I}) @@ (digits :> {zero}) @@ (symbols :> {plus})
MCAmbiguous == {I, zero}
=============================================================================
