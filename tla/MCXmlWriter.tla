----------------------------- MODULE MCXmlWriter -----------------------------
(***************************************************************************)
(* Every sequence of calls that writes up to six items, with limits each *)
(* of which some sequence reaches, and documents a Reader meets elsewhere. *)
(***************************************************************************)
EXTENDS XmlWriter

(* p:b and q:b have prefixes, which xmlns:p and xmlns:q declare; "-" is no *)
(* name, and nine c's are longer than the limit on texts and names.        *)
MCPrefix == [n \in {"a", "p:b", "q:b", "xmlns:p", "xmlns:q", "ccccccccc", "-"} |->
               CASE n = "p:b" -> "p" [] n = "q:b" -> "q"
                 [] n \in {"xmlns:p", "xmlns:q"} -> "xmlns" [] OTHER -> ""]
MCLocalName == [n \in DOMAIN MCPrefix |->
                  CASE n \in {"p:b", "q:b"} -> "b" [] n = "xmlns:p" -> "p"
                    [] n = "xmlns:q" -> "q" [] OTHER -> n]
MCNameSize == [n \in DOMAIN MCPrefix |->
                 CASE n \in {"p:b", "q:b"} -> 3 [] n \in {"xmlns:p", "xmlns:q"} -> 7
                   [] n = "ccccccccc" -> 9 [] OTHER -> 1]
MCValidNames == DOMAIN MCPrefix \ {"-"}
MCTagNames == {"a", "p:b", "ccccccccc", "-"}

(* "x" as it is, "<" as &lt;, and a control character.                     *)
MCCharSize == [c \in {"x", "lt", "ctrl"} |-> IF c = "lt" THEN 4 ELSE 1]
MCBadChars == {"ctrl"}

MCLimits == [input_bytes |-> 90, output_bytes |-> 96, text_bytes |-> 8,
             attributes |-> 3, depth |-> 2, events |-> 5]

(* The name of a CDATA section is within the first limits, that of a text  *)
(* is not within the last.                                                 *)
MCOtherLimits == {[MCLimits EXCEPT !.text_bytes = n] : n \in {14, 8, 4}}

X3 == <<"x", "lt", "x">>
X9 == X3 \o X3 \o X3
MCTexts == {<<>>, X3, X9, <<"ctrl">>}

Attr(name, value) == [name |-> name, value |-> value]
Xmlns(name, value) == <<Attr(name, <<value>>)>>

(* Declarations of p, the last two refused; attributes that are one if p   *)
(* is declared as q is; and lists that the calls refuse.                   *)
MCBadUris == {Attr("xmlns:p", <<"ctrl">>)}
MCAttributes ==
  {<<>>, Xmlns("xmlns:p", "x"), Xmlns("xmlns:p", "lt"),
   <<Attr("xmlns:p", <<>>)>>,
   <<Attr("xmlns:q", <<"x">>), Attr("p:b", <<>>), Attr("q:b", <<>>)>>,
   <<Attr("-", <<>>)>>, <<Attr("a", <<>>), Attr("a", <<>>)>>,
   [i \in 1..4 |-> Attr("a", <<>>)]}

Tag(kind, name) == Item(kind, name, <<>>, <<>>)
Chars(kind, text) == Item(kind, "", text, <<>>)
A == Tag("start", "a")
Z == Tag("end", "a")
X == Chars("text", <<"x">>)
Comment == Item("comment", "", <<"x">>, <<>>)

MCDocuments ==
  {<<>>, <<A, Z>>, <<A, X, Comment, X, X, Z>>, <<Tag("empty", "a")>>,
   <<A, Tag("empty", "a"), X, Z>>, <<A, Chars("cdata", <<"x">>), X, Z>>,
   <<Tag("doctype", "a"), A, Z>>, <<Tag("doctype", "-"), A, Z>>,
   <<A, X>>, <<A, Z, A, Z>>, <<A, X, Tag("bad", ""), Z>>, <<X, A, Z>>,
   <<A, A, Tag("empty", "a"), Z, Z>>, <<A, Z, Item("pi", "a", <<"x">>, <<>>)>>,
   <<A, Chars("text", X9), Z>>, <<A, Tag("end", "p:b")>>,
   <<Item("start", "a", <<>>, [i \in 1..4 |-> Attr("a", <<>>)]), Z>>,
   <<Tag("empty", "p:b")>>, <<Item("empty", "p:b", <<>>, Xmlns("xmlns:p", "x"))>>,
   <<Item("empty", "a", <<>>, Xmlns("xmlns:p", "ctrl"))>>,
   <<A, Item("start", "a", <<>>, Xmlns("xmlns:p", "x")), Z, Tag("empty", "p:b"), Z>>}
=============================================================================
