------------------------- MODULE MCInlineTagMutation -------------------------
(* All texts of up to three of seven tokens, some longer ones in which styles   *)
(* nest, cross, repeat, are not closed, and lie around breaks and entities.*)
EXTENDS InlineTagMutation

LOCAL INSTANCE SequencesExt

Char(c) == [k |-> "text", n |-> c, d |-> <<>>, ok |-> TRUE, s |-> ""]

B == TagOf("open", "b")
B_ == TagOf("close", "b")
I == TagOf("open", "i")
I_ == TagOf("close", "i")
P == TagOf("open", "p")
P_ == TagOf("close", "p")
Br == TagOf("self", "br")
X == Char("x")
Y == Char("y")
Amp == Char("&")
Num == Char("#")
Lt == Char("lt")
Semi == Char(";")

MCStyles == <<"b", "i">>

Alphabet == {B, B_, I, I_, P, Br, X}

MCSources ==
  SeqOf(Alphabet, 3) \cup
  {<<B, X, X, B_, X>>,
   <<B, X, I, X, I_, B_, X>>,
   <<B, X, I, X, B_, X, I_>>,
   <<I, B, X, B_, I_, X, Br, Y>>,
   <<B, B, X, B_, X, B_, X>>,
   <<X, B_, X, I, X>>,
   <<P, X, Br, B, X, P_, X, B_>>,
   <<X, Amp, Lt, Semi, B, Amp, Num, X, Semi, X, B_>>,
   <<Amp, B, Lt, B_, Semi>>,
   <<Amp, Semi, X, B, Amp, Lt, X, Semi>>,
   <<Amp, Num, B, X, Semi, X>>,
   <<B, X, Y, X, B_>>,
   <<TagOf("self", "b"), X, TagOf("skip", ""), X>>,
   <<TagOf("xmldecl", ""), B, X, TagOf("mixed", ""), X, I, X>>,
   <<B, X, TagOf("broken", ""), X, I, X, B_, TagOf("doctype", ""), X>>}

MCRequests ==
  [name : {"b", "i"}, first : {-1, 1, 2}, last : {2, 9}, active : BOOLEAN]
    \cup {[name |-> "u", first |-> 0, last |-> 1, active |-> TRUE]}

-----------------------------------------------------------------------------
(* The example of docs/inline_tag_mutation.md: in <bold>Alpha Beta</bold>  *)
(* the text from source offset 8, behind "Al", to source offset 17, one    *)
(* character into the closing tag, becomes italic.                         *)
Bold       == TagOf("open", "bold")
BoldEnd    == TagOf("close", "bold")
Italic     == TagOf("open", "italic")
ItalicEnd  == TagOf("close", "italic")
Al   == <<Char("A"), Char("l")>>
Pha  == <<Char("p"), Char("h"), Char("a")>>
Beta == <<[Char(" ") EXCEPT !.k = "space"], Char("B"), Char("e"), Char("t"), Char("a")>>

DocStyles  == <<"bold", "italic", "underline">>
DocSource  == <<Bold>> \o Al \o Pha \o Beta \o <<BoldEnd>>
DocSources == {DocSource}
DocRequests ==
  {[name |-> "italic", first |-> LogicalOffset(DocSource, 3),
    last |-> LogicalOffsetInside(DocSource, 11, 1), active |-> TRUE]}

(* What it is said to become: a text in which " Beta" is not bold any more.*)
DocResult ==
  <<Bold>> \o Al \o <<Italic>> \o Pha \o <<ItalicEnd, BoldEnd, Italic>> \o Beta
    \o <<ItalicEnd>>

(* The example of docs/inline_tag_mutation.md:21-26 is what the class does.*)
(* It is not: the bold of " Beta" is kept.                                 *)
DocumentedExample == result.Valid => source = DocResult
=============================================================================
