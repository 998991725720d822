------------------------------- MODULE Markup -------------------------------
(***************************************************************************)
(* The documents iiXml works on, and what its parsing stack computes for   *)
(* them, stated declaratively.                                             *)
(*                                                                         *)
(* A document is a sequence of tokens, all of the same width: offset i of  *)
(* the code is the boundary after the i-th token, so the half-open range   *)
(* [begin, end) of the code is SubSeq(doc, begin + 1, end) here.  What a   *)
(* token is made of is left out; what the code decides from it is kept:    *)
(*                                                                         *)
(*   k   "open", "close", "self" (a tag), "text", "space" (ASCII blanks),  *)
(*       "skip" (a terminated comment or CDATA section), "xmldecl"         *)
(*       (<?xml ...?>), "doctype" (<!DOCTYPE ...>), "mixed" (<!Doctype     *)
(*       ...> with a name), or "broken" (an unterminated construct, a      *)
(*       bare "<", a tag without a valid name)                             *)
(*   n   the tag name, or what tells a text from another text              *)
(*   d   the display values its attributes declare, in attribute order     *)
(*   ok  whether InlineProperties accepts its attributes                   *)
(*   s   the rest of its spelling, where a reader depends on it (GetFile)  *)
(*                                                                         *)
(* The step-by-step algorithms are modelled by OpenTag, TagHierarchy and   *)
(* InputValidator and checked against the definitions of this module; the  *)
(* modules of the block editors then use these definitions.                *)
(***************************************************************************)
EXTENDS Naturals, Sequences, FiniteSets, Positions

Sets == INSTANCE FiniteSetsExt

CONSTANTS BlockNames,    \* tag names DivideBlock::IsBlockTag lists
          BlockDisplays  \* display values IsBlockDisplayValue accepts

(* The tokens of documents whose tags have the given names.                *)
Token(names) == [k : STRING, n : names \cup {""}, d : Seq(STRING), ok : BOOLEAN,
                 s : STRING]

TagKinds == {"open", "close", "self"}

Starts(token) == token.k \in {"open", "self"}

(* Tokens the scanner of tags passes over, and those it refuses.  A        *)
(* <!DOCTYPE> met by the scanner is neither skipped (only the spelling     *)
(* <!Doctype is) nor a tag with a valid name.                              *)
Passed(token)  == token.k \in {"text", "space", "skip", "xmldecl", "mixed"}
Refused(token) == token.k \in {"broken", "doctype"}

-----------------------------------------------------------------------------
(* Tags nest per name only: closing a tag closes the most recent open tag  *)
(* of its name, whatever other tags were opened in between.                *)

Opened(doc, name, i) ==
  Cardinality({j \in 1..i : doc[j].k = "open" /\ doc[j].n = name})

Closed(doc, name, i) ==
  Cardinality({j \in 1..i : doc[j].k = "close" /\ doc[j].n = name})

NamesOf(doc) == {doc[i].n : i \in {j \in DOMAIN doc : doc[j].k \in TagKinds}}

Balanced(doc) ==
  /\ \A i \in DOMAIN doc : ~Refused(doc[i])
  /\ \A name \in NamesOf(doc) :
       /\ \A i \in DOMAIN doc : Closed(doc, name, i) <= Opened(doc, name, i)
       /\ Closed(doc, name, Len(doc)) = Opened(doc, name, Len(doc))

(* The token that closes the tag opened by token i of a balanced document. *)
ClosingOf(doc, i) ==
  LET name == doc[i].n
      Inside(j) == Opened(doc, name, j) - Opened(doc, name, i - 1)
      Left(j)   == Closed(doc, name, j) - Closed(doc, name, i - 1)
  IN  Sets!Min({j \in (i + 1)..Len(doc) :
             doc[j].k = "close" /\ doc[j].n = name /\ Inside(j) = Left(j)})

(* The OpenTagRange of the tag that starts at token i.                     *)
TagAt(doc, i) ==
  LET last == IF doc[i].k = "self" THEN i ELSE ClosingOf(doc, i)
  IN  [TagName    |-> doc[i].n,
       RawBegin   |-> i - 1,
       ValueBegin |-> i,
       ValueEnd   |-> IF doc[i].k = "self" THEN i ELSE last - 1,
       RawEnd     |-> last]

StartsOf(doc) == {i \in DOMAIN doc : Starts(doc[i])}

(* What ParseOpenTags returns for a balanced document, in document order.  *)
Tags(doc) ==
  [r \in 1..Cardinality(StartsOf(doc)) |-> TagAt(doc, Nth(r, StartsOf(doc)))]

-----------------------------------------------------------------------------
(* Leading blanks and declarations are cut off before the body is parsed.  *)

Lead(doc) ==
  Sets!Max({i \in 0..Len(doc) :
              \A j \in 1..i : doc[j].k \in {"space", "xmldecl", "doctype"}})

PrefixOf(doc) == SubSeq(doc, 1, Lead(doc))
BodyOf(doc)   == SubSeq(doc, Lead(doc) + 1, Len(doc))

(* GetTagInfo::Parse accepts a text whose normalized form has at least one *)
(* tag, is balanced, and whose tags all have acceptable attributes.        *)
Parses(text) ==
  LET doc == BodyOf(text)
  IN  /\ Balanced(doc)
      /\ \E i \in DOMAIN doc : Starts(doc[i])
      /\ \A i \in DOMAIN doc : Starts(doc[i]) => doc[i].ok

IsBlock(token) ==
  IF token.d = <<>> THEN token.n \in BlockNames
                    ELSE token.d[Len(token.d)] \in BlockDisplays

(* The DivideBlock::ElementInfo of a tag.  Its offsets are relative to the *)
(* normalized text, not to the text that was passed in.                    *)
ElementOf(doc, tag) ==
  [tag_name    |-> tag.TagName,
   raw         |-> SubSeq(doc, tag.RawBegin + 1, tag.RawEnd),
   value       |-> SubSeq(doc, tag.ValueBegin + 1, tag.ValueEnd),
   raw_begin   |-> tag.RawBegin,
   value_begin |-> tag.ValueBegin,
   value_end   |-> tag.ValueEnd,
   raw_end     |-> tag.RawEnd]

BlockStarts(doc) == {i \in StartsOf(doc) : IsBlock(doc[i])}

(* DivideBlock::GetBlockElements() for a text that parses.                 *)
BlockElements(text) ==
  LET doc    == BodyOf(text)
      starts == BlockStarts(doc)
  IN  [b \in 1..Cardinality(starts) |-> ElementOf(doc, TagAt(doc, Nth(b, starts)))]
=============================================================================
