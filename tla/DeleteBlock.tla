----------------------------- MODULE DeleteBlock -----------------------------
(***************************************************************************)
(* DeleteBlock: a document from which blocks are deleted one by one.  A    *)
(* deletion cuts the range of a block out of the body and divides what is  *)
(* left again; when that does not parse, everything is rolled back.        *)
(*                                                                         *)
(* Every call is one step: nothing runs between its statements, and its    *)
(* signal is the last thing it does.  Memory is assumed to suffice: Parse  *)
(* clears everything when it does not, Delete handles no exception.        *)
(***************************************************************************)
EXTENDS Integers, Markup

CONSTANTS TagNames,  \* names of the tags in the documents
          Texts      \* the documents that are passed to Parse

ASSUME TextsAssumption == Texts \subseteq Seq(Token(TagNames \cup {"x"}))

VARIABLES
  prefix,          \* prefix_, cut off by SplitParserInput
  body,            \* body_
  html,            \* html_
  blocks,          \* blocks_
  deleted_blocks,  \* deleted_blocks_
  last_error,      \* what error_ reports, "none" when it is empty
  logged_from      \* the body when deleted_blocks was last empty; the code
                   \* has no such variable, only properties use it

vars == <<prefix, body, html, blocks, deleted_blocks, last_error, logged_from>>

Init ==
  /\ prefix = <<>> /\ body = <<>> /\ html = <<>>
  /\ blocks = <<>> /\ deleted_blocks = <<>>
  /\ last_error = "none"
  /\ logged_from = <<>>

Clear ==
  /\ prefix' = <<>> /\ body' = <<>> /\ html' = <<>>
  /\ blocks' = <<>> /\ deleted_blocks' = <<>>
  /\ logged_from' = <<>>

-----------------------------------------------------------------------------
LoadKeepingLog(t) ==
  /\ prefix' = PrefixOf(t)
  /\ body' = BodyOf(t)
  /\ html' = t
  /\ blocks' = BlockElements(BodyOf(t))
  /\ UNCHANGED deleted_blocks
  /\ last_error' = "none"
  /\ logged_from' = BodyOf(t)

Load(t) ==
  /\ prefix' = PrefixOf(t)
  /\ body' = BodyOf(t)
  /\ html' = t
  /\ blocks' = BlockElements(BodyOf(t))
  /\ deleted_blocks' = <<>>
  /\ last_error' = "none"
  /\ logged_from' = BodyOf(t)

(* Parse(html), also through the slot ParseHtml: a document that does not  *)
(* parse, or an exception on the way, leaves nothing of the previous one.  *)
Parse(t) ==
  \/ /\ Parses(BodyOf(t))
     /\ Load(t)
  \/ /\ ~Parses(BodyOf(t))
     /\ Clear
     /\ last_error' = "not parsed"
  \/ /\ Clear
     /\ last_error' = "exception"

ParseNull == Clear /\ last_error' = "null"

(* body_.erase(raw_begin, raw_end - raw_begin)                             *)
EraseOneShort(text, e) == SubSeq(text, 1, e.raw_begin)
                            \o SubSeq(text, e.raw_end, Len(text))

Erase(text, e) == SubSeq(text, 1, e.raw_begin)
                    \o SubSeq(text, e.raw_end + 1, Len(text))

Refuse(reason) ==
  /\ last_error' = reason
  /\ UNCHANGED <<prefix, body, html, blocks, deleted_blocks, logged_from>>

(* RefreshHTMLText and the good case of RefreshBlocks.                     *)
HtmlOf(rest) == prefix \o rest

Refreshed(rest) == BlockElements(rest)

(* RefreshBlocks clears the block list before Delete puts it back.         *)
RollBackWithoutBlocks ==
  /\ last_error' = "rolled back"
  /\ blocks' = <<>>
  /\ UNCHANGED <<prefix, body, html, deleted_blocks, logged_from>>

RollBack == Refuse("rolled back")

(* Delete(index), also through the slot DeleteBlockAt, which turns a       *)
(* negative index away like one past the end.                              *)
Deletable(index) ==
  /\ index \in 0..(Len(blocks) - 1)
  /\ blocks[index + 1].raw_begin <= blocks[index + 1].raw_end
  /\ blocks[index + 1].raw_end <= Len(body)

Delete(index) ==
  \/ /\ ~Deletable(index)
     /\ Refuse("out of range")
  \/ /\ Deletable(index)
     /\ LET deleted == blocks[index + 1]
            rest    == Erase(body, deleted)
        IN  \/ /\ Parses(rest)
               /\ body' = rest
               /\ html' = HtmlOf(rest)
               /\ deleted_blocks' = Append(deleted_blocks, deleted)
               /\ blocks' = Refreshed(rest)
               /\ last_error' = "none"
               /\ UNCHANGED <<prefix, logged_from>>
            \/ /\ ~Parses(rest)
               /\ RollBack

ClearDeletedBlocks ==
  /\ deleted_blocks' = <<>>
  /\ last_error' = "none"
  /\ logged_from' = body
  /\ UNCHANGED <<prefix, body, html, blocks>>

(* The indices a caller tries: those of blocks and one on either side.     *)
Indices == (-1)..Len(blocks)

Next ==
  \/ \E t \in Texts : Parse(t)
  \/ ParseNull
  \/ \E index \in Indices : Delete(index)
  \/ ClearDeletedBlocks

Spec == Init /\ [][Next]_vars

-----------------------------------------------------------------------------
Loaded == body # <<>>

(* Whatever was deleted or rolled back, the blocks a caller can name next  *)
(* are those of the document as it is now, and the document parses, as it  *)
(* would have to for another module to take it over: no deletion can take  *)
(* its last tag, or one half of a pair of tags.                            *)
BlocksFitDocument ==
  IF Loaded THEN blocks = BlockElements(body) /\ Parses(html) ELSE blocks = <<>>

(* The list of deleted blocks is a log of what was done: applied to the    *)
(* body as it was when the list was empty, it gives the body as it is.     *)
Replayed[n \in 0..Len(deleted_blocks)] ==
  IF n = 0 THEN logged_from ELSE Erase(Replayed[n - 1], deleted_blocks[n])

LogReplays == Replayed[Len(deleted_blocks)] = body

(* A deletion takes out the text of the block that was listed: putting it  *)
(* back where the record of the deletion says it was gives the old body.   *)
Deletes == Len(deleted_blocks') > Len(deleted_blocks)

PutBack(e, text) ==
  SubSeq(text, 1, e.raw_begin) \o e.raw
    \o SubSeq(text, e.raw_begin + 1, Len(text))

DeletesListedBlock ==
  [][Deletes => PutBack(deleted_blocks'[Len(deleted_blocks')], body') = body]_vars

(* It does, as long as no blanks or declarations have come to stand at the *)
(* start of the body.                                                      *)
DeletesListedBlockAtStart ==
  [][Deletes /\ Lead(body) = 0 =>
       PutBack(deleted_blocks'[Len(deleted_blocks')], body') = body]_vars
=============================================================================
