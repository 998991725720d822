---------------------------- MODULE MCDeleteBlock ----------------------------
(* Deletions from documents with nested, crossing, empty and repeated      *)
(* blocks, blanks and declarations between them, and a prefix in front.    *)
EXTENDS DeleteBlock

Tok(kind, name) == [k |-> kind, n |-> name, d |-> <<>>, ok |-> TRUE, s |-> ""]

Open(name) == Tok("open", name)
End(name)  == Tok("close", name)
Self(name) == Tok("self", name)
Text       == Tok("text", "x")
Blank      == Tok("space", "")
Declares   == Tok("xmldecl", "")
P          == <<Open("p"), Text, End("p")>>
Bold       == [Open("b") EXCEPT !.d = <<"block">>]

MCTexts ==
  {<<>>,
   <<Text>>,
   <<Open("p"), Text>>,
   <<[Self("hr") EXCEPT !.ok = FALSE]>>,
   P,
   P \o P \o <<Self("hr")>>,
   <<Self("b")>> \o P \o <<Text>>,
   <<Declares, Blank>> \o P \o <<Blank, Self("hr"), Self("hr")>>,
   P \o <<Declares>> \o P \o P,
   <<Blank, Tok("doctype", ""), Open("div"), Blank>> \o P \o <<Blank>> \o P \o <<End("div"), Text>>,
   <<Open("p"), Open("b"), Text, End("p"), Text, End("b"), Self("hr")>>,
   <<Open("div"), Open("p"), End("div"), End("p")>> \o P,
   <<Bold, Open("p"), Bold, End("p"), End("b"), Text, End("b"), Blank,
     Self("hr"), Self("b")>>}
=============================================================================
