------------------------- MODULE MCBlockRangeTracker -------------------------
(* The tracker over texts that keep, move, duplicate, nest, cross and lose *)
(* blocks, with and without a prefix, and over texts that do not parse.    *)
EXTENDS BlockRangeTracker

CONSTANTS BlockNames, BlockDisplays

M == INSTANCE Markup

Tok(kind, name) == [k |-> kind, n |-> name, d |-> <<>>, ok |-> TRUE, s |-> ""]

Open(name) == Tok("open", name)
End(name)  == Tok("close", name)
P(text)    == <<Open("p"), Tok("text", text), End("p")>>
Decl       == <<Tok("xmldecl", ""), Tok("space", "")>>

MCTexts ==
  {<<>>,                                                \* no tag
   P("x") \o <<Open("p")>>,                             \* not balanced
   P("x"),
   P("x") \o P("x"),
   P("y") \o P("x"),
   Decl \o P("x") \o <<Open("i"), End("i")>> \o P("y"),
   <<Open("div")>> \o P("x") \o <<End("div")>>,
   <<Open("div"), Open("p"), End("div"), End("p")>>}

MCDivided ==
  [t \in MCTexts |->
     IF M!Parses(t)
       THEN [ok |-> TRUE, prefix |-> M!Lead(t),
             blocks |->
               [i \in 1..Len(M!BlockElements(M!BodyOf(t))) |->
                  LET e == M!BlockElements(M!BodyOf(t))[i]
                  IN  [tag_name |-> e.tag_name, raw |-> e.raw,
                       value |-> e.value, raw_begin |-> e.raw_begin,
                       raw_end |-> e.raw_end]]]
       ELSE [ok |-> FALSE, prefix |-> 0, blocks |-> <<>>]]

(* Lists that DivideBlock made of a text, or of the body of one.           *)
MCSupplied == {MCDivided[P("y") \o P("x")].blocks,
               MCDivided[P("x") \o P("x")].blocks}

MCElements ==
  UNION {{MCDivided[t].blocks[i] : i \in DOMAIN MCDivided[t].blocks} :
           t \in MCTexts}
=============================================================================
