------------------------------ MODULE MCReading ------------------------------
(* Three sets of texts: all short ones over two names, which the slots do  *)
(* not read; all balanced ones over three names; and declared, spelled and *)
(* broken texts for the slots.                                             *)
EXTENDS Reading

CONSTANT MaxTokens

Tok(kind, name) == [k |-> kind, n |-> name, d |-> <<>>, ok |-> TRUE, s |-> ""]
Spelled(kind, name, spelling) == [Tok(kind, name) EXCEPT !.s = spelling]

UpTo(set, n) == UNION {[1..i -> set] : i \in 0..n}

Pairs(names) == {Tok(kind, name) : kind \in {"open", "close"}, name \in names}

ShortTexts ==
  UpTo(Pairs({"p", "b"}) \cup {Tok("self", "p"), Tok("skip", ""), Tok("broken", "")}, MaxTokens)
    \cup UpTo(Pairs({"p", "b"}), MaxTokens + 2)

(* Some with attributes that InlineProperties refuses, some with text.     *)
Refusing ==
  {Tok("open", "p"), Tok("close", "p"),
   [Tok("open", "p") EXCEPT !.ok = FALSE], [Tok("self", "p") EXCEPT !.ok = FALSE]}

Crossing == {Tok("open", "p"), Tok("close", "p"), Tok("open", "b"), Tok("close", "b"), Tok("text", "")}

TreeTexts ==
  {t \in UpTo(Pairs({"p", "b", "i"}), MaxTokens + 2) \cup UpTo(Refusing, 4)
       \cup [1..(MaxTokens + 2) -> Crossing] :
     M!Balanced(t)}

Xml   == Tok("xmldecl", "")
Mixed == Tok("mixed", "")
Bom   == Spelled("text", "", "bom")
Blank == Tok("space", "")

Prefixes ==
  {<<>>, <<Xml>>, <<Mixed>>, <<Bom, Xml>>, <<Blank, Bom, Xml>>, <<Bom, Blank, Xml, Blank, Mixed>>,
   <<Xml, Xml, Xml>>, <<Xml, Bom, Mixed>>, <<Xml, Tok("doctype", "")>>,
   <<Spelled("xmldecl", "", "empty")>>, <<Xml, Spelled("xmldecl", "", "empty")>>}

Openings ==
  {<<>>, <<Tok("open", "p")>>, <<Spelled("open", "p", "gt")>>, <<Spelled("open", ":p", "colon")>>,
   <<Tok("self", "p")>>, <<Spelled("self", "p", "spaced")>>}

Contents ==
  {<<>>, <<Tok("text", ""), Blank>>, <<Tok("close", "p"), Tok("open", "p")>>,
   <<Tok("open", "b"), Blank, Tok("close", "b")>>, <<Mixed>>}

Endings ==
  {<<>>, <<Tok("close", "p")>>, <<Tok("close", "p"), Blank>>, <<Spelled("close", "p", "spaced")>>,
   <<Spelled("close", "p", "junk")>>, <<Spelled("close", ":p", "colon")>>,
   <<Tok("close", "p"), Tok("skip", "")>>}

Bodies == {o \o c \o e : o \in Openings, c \in Contents, e \in Endings}

New == [caller |-> "ParseXml", html |-> <<>>, error |-> ""]

Objects ==
  {[caller |-> c, html |-> h, error |-> e] :
     c \in {"ParseXml", "ConvertXml"}, h \in {<<>>, <<OpenPiece(1), ClosePiece(1)>>},
     e \in {"", "exception"}}
  \ {[caller |-> c, html |-> <<OpenPiece(1), ClosePiece(1)>>, error |-> "exception"] :
       c \in {"ParseXml", "ConvertXml"}}

MCReadings ==
  {[text |-> t, call |-> NoSlot, object |-> New] : t \in ShortTexts \cup TreeTexts}
    \cup {[text |-> p \o b, call |-> "ReadXml", object |-> New] : p \in Prefixes, b \in Bodies}
    \cup {[text |-> p \o b, call |-> c, object |-> New] :
            p \in {<<>>, <<Bom, Xml>>, <<Mixed>>}, b \in Bodies, c \in S!Calls}
    \cup {[text |-> p \o b, call |-> NoSlot, object |-> o] :
            p \in {<<>>, <<Xml>>}, b \in Bodies, o \in Objects}
=============================================================================
