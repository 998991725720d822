------------------------------- MODULE GetHTML -------------------------------
(***************************************************************************)
(* GetHTML, which renders the tree of a text as HTML, called through its   *)
(* slot ParseXml or by iiXmlToHTML::ConvertXml.                            *)
(* The scanner below it is taken to have enough memory; rendering and      *)
(* copying may throw.                                                      *)
(*                                                                         *)
(* A piece of HTML is the opening or the closing tag of a node, or the     *)
(* escaped text of the token at a position of the document.                *)
(***************************************************************************)
EXTENDS TagParser

Seqs == INSTANCE SequencesExt

VARIABLES
  caller,     \* the slot that was called
  phase,      \* "waiting", "parsing", "returned" or "done"
  html,       \* html_ and error_ of GetHTML
  error,
  converted,  \* html_ and error_ of iiXmlToHTML
  told        \* the signal it was answered with, or ""

htmlVars == <<caller, phase, html, error, converted, told>>

(* NormalizeParserInput, which cuts off blanks and declarations.           *)
NormalizeParserInput(tokens) == M!BodyOf(tokens)

Nothing == [html |-> <<>>, error |-> ""]

OpenPiece(node)  == [k |-> "open", at |-> node]
ClosePiece(node) == [k |-> "close", at |-> node]
TextPiece(at)    == [k |-> "text", at |-> at]

EscapeText(begin, end) ==
  IF begin >= end THEN <<>>
  ELSE [j \in 1..(end - begin) |-> TextPiece(begin + j)]

AtChild(child) == ranges[child].RawBegin

(* RenderNode, for all nodes; a child comes after its parent.              *)
AfterChild(child) == ranges[child].RawEnd

RenderNode ==
  LET render[node \in 1..Len(ranges)] ==
        LET below == children[node]
            Cursor(c) == IF c = 0 THEN ranges[node].ValueBegin ELSE AfterChild(below[c])
            Between(c) == EscapeText(Cursor(c - 1), ranges[below[c]].RawBegin)
            Behind(c) == EscapeText(Cursor(c), ranges[node].ValueEnd)
        IN  <<OpenPiece(node)>>
              \o Seqs!FlattenSeq([c \in 1..Len(below) |-> Between(c) \o render[below[c]]])
              \o Behind(Len(below)) \o <<ClosePiece(node)>>
  IN  render

RenderedRoots == Seqs!FlattenSeq([r \in 1..Len(roots) |-> RenderNode[roots[r]]])

(* An object that was used before holds the HTML or the error of that call.*)
BeginParse ==
  /\ phase = "waiting"
  /\ html' = <<>>
  /\ error' = ""
  /\ converted' = IF caller = "ConvertXml" THEN Nothing ELSE converted
  /\ phase' = "parsing"
  /\ UNCHANGED <<caller, told>>

ParseStep == phase = "parsing" /\ ParseAllNext /\ UNCHANGED htmlVars

Return(pieces, reason) ==
  /\ phase = "parsing"
  /\ html' = pieces
  /\ error' = reason
  /\ phase' = "returned"
  /\ UNCHANGED <<caller, converted, told>>

ParserRejectedInput == RejectedAll /\ Return(html, "rejected input")
NoTag    == ParsedAll /\ roots = <<>> /\ Return(html, "returned no tag")
Rendered == ParsedAll /\ roots # <<>> /\ Return(html \o RenderedRoots, error)

(* An allocation fails while the nodes are rendered.                       *)
RenderingThrows == ParsedAll /\ Return(<<>>, "exception")

AnswerParse ==
  /\ phase = "returned"
  /\ caller = "ParseXml"
  /\ told' = IF error = "" THEN "Parsed" ELSE "ParseFailed"
  /\ phase' = "done"
  /\ UNCHANGED <<caller, html, error, converted>>

(* The result is copied, which may throw as well.                          *)
AnswerConvert ==
  /\ phase = "returned"
  /\ caller = "ConvertXml"
  /\ \/ error = "" /\ converted' = [html |-> html, error |-> ""]
     \/ error # "" /\ converted' = [Nothing EXCEPT !.error = error]
     \/ converted' = [Nothing EXCEPT !.error = "exception"]
  /\ told' = IF converted'.error = "" THEN "Converted" ELSE "ConvertFailed"
  /\ phase' = "done"
  /\ UNCHANGED <<caller, html, error>>

HtmlStep ==
  \/ BeginParse \/ ParserRejectedInput \/ NoTag \/ Rendered \/ RenderingThrows
  \/ AnswerParse \/ AnswerConvert

HtmlNext ==
  \/ ParseStep
  \/ HtmlStep /\ UNCHANGED <<vars, treeVars>>

-----------------------------------------------------------------------------
Places(pieces, piece) == {p \in DOMAIN pieces : pieces[p] = piece}

(* The nodes are opened and closed once, in document order, and no two of  *)
(* them cross; there is no other tag.                                      *)
NestsTags(pieces, nodes) ==
  /\ \A p \in DOMAIN pieces :
       \/ pieces[p].k = "text"
       \/ /\ \E i \in nodes : pieces[p] \in {OpenPiece(i), ClosePiece(i)}
          /\ Places(pieces, pieces[p]) = {p}
  /\ \A i \in nodes :
       \E p \in Places(pieces, OpenPiece(i)), q \in Places(pieces, ClosePiece(i)) : p < q
  /\ \A i, j \in nodes :
       i < j => \A p \in Places(pieces, OpenPiece(i)), q \in Places(pieces, ClosePiece(i)),
                   r \in Places(pieces, OpenPiece(j)), s \in Places(pieces, ClosePiece(j)) :
                  p < r /\ (s < q \/ q < r)

(* Crossing tags are untangled.                                            *)
HtmlNests(pieces) == NestsTags(pieces, 1..Len(ranges))

Cross(i, j) ==
  /\ ranges[i].RawBegin < ranges[j].RawBegin
  /\ ranges[j].RawBegin < ranges[i].RawEnd
  /\ ranges[i].RawEnd < ranges[j].RawEnd

InsideTag(at) ==
  \E i \in 1..Len(ranges) : ranges[i].ValueBegin < at /\ at <= ranges[i].ValueEnd

TextPositions == {at \in DOMAIN doc : doc[at].k \notin M!TagKinds /\ InsideTag(at)}

NoneCross == \A i, j \in 1..Len(ranges) : ~Cross(i, j)

TextInOrder(pieces) ==
  \A p \in DOMAIN pieces :
    pieces[p].k = "text" =>
      /\ pieces[p].at \in TextPositions
      /\ \A q \in DOMAIN pieces :
           p < q /\ pieces[q].k = "text" => pieces[p].at < pieces[q].at

(* No text inside a tag is lost, and nothing but crossing tags makes text  *)
(* appear twice or a tag appear as text.                                   *)
HtmlKeepsText(pieces) ==
  /\ \A at \in TextPositions : Places(pieces, TextPiece(at)) # {}
  /\ NoneCross => TextInOrder(pieces)

(* The HTML of a call is the well nested HTML of its text, with its text,  *)
(* or there is none and an error, also when the object held the HTML or    *)
(* the error of an earlier call; the signal tells which.                   *)
Shows(object) ==
  \/ object.error # "" /\ object.html = <<>>
  \/ /\ object.error = "" /\ object.html # <<>>
     /\ HtmlNests(object.html) /\ HtmlKeepsText(object.html)

HtmlShowsTree ==
  phase = "done" =>
    LET object == IF caller = "ConvertXml" THEN converted
                                           ELSE [html |-> html, error |-> error]
    IN  /\ Shows(object)
        /\ told \in {"Parsed", "Converted"} <=> object.error = ""
        /\ M!Parses(doc) /\ object.error # "" => object.error = "exception"
=============================================================================
