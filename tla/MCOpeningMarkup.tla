--------------------------- MODULE MCOpeningMarkup ---------------------------
(***************************************************************************)
(* Every markup of up to Bound characters after the "<".  "e" stands for *)
(* the words true and false.                                               *)
(***************************************************************************)
EXTENDS OpeningMarkup

MCChars == {"letter", "exp", "colon", "digit", "point", "minus", "blank",
            "slash", "equals", "dquote", "squote", "bracket"}
MCBoolWords == {<<"exp">>}
=============================================================================
