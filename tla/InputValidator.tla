--------------------------- MODULE InputValidator ---------------------------
(***************************************************************************)
(* InputValidator::HasValidTagClosure, one token of the input per step.    *)
(* It walks over the input like OpenTag::ParseOpenTags does, but keeps     *)
(* only a vector with the names of the open tags, closed through           *)
(* OpenTag::CloseOpenTag, and wants at least one element.                  *)
(***************************************************************************)
EXTENDS Naturals, Sequences, FiniteSets

CONSTANTS BlockNames, BlockDisplays

M == INSTANCE Markup

VARIABLES
  doc,          \* input
  index,        \* tokens already passed
  open_tags,    \* names of the open tags, the oldest first
  saw_element,
  verdict       \* "running", "valid" or "invalid"

vars == <<doc, index, open_tags, saw_element, verdict>>

(* The caller provides doc.                                                *)
Init ==
  /\ index = 0
  /\ open_tags = <<>>
  /\ saw_element = FALSE
  /\ verdict = "running"

Scanning == verdict = "running" /\ index < Len(doc)
token == doc[index + 1]

(* OpenTag::CloseOpenTag: the position of the tag that a closing tag of    *)
(* the given name erases from the vector, searched from its back.          *)
MatchesOf(name) == {i \in DOMAIN open_tags : open_tags[i] = name}

IsOldest(i, name) ==
  i \in MatchesOf(name) /\ \A j \in MatchesOf(name) : i <= j

IsMostRecent(i, name) ==
  i \in MatchesOf(name) /\ \A j \in MatchesOf(name) : j <= i

Erase(seq, i) == SubSeq(seq, 1, i - 1) \o SubSeq(seq, i + 1, Len(seq))

Pass ==
  /\ Scanning
  /\ M!Passed(token)
  /\ index' = index + 1
  /\ UNCHANGED <<doc, open_tags, saw_element, verdict>>

Reject ==
  /\ Scanning
  /\ \/ M!Refused(token)
     \/ token.k = "close" /\ MatchesOf(token.n) = {}
  /\ verdict' = "invalid"
  /\ UNCHANGED <<doc, index, open_tags, saw_element>>

Close ==
  /\ Scanning
  /\ token.k = "close"
  /\ \E i \in DOMAIN open_tags :
       IsMostRecent(i, token.n) /\ open_tags' = Erase(open_tags, i)
  /\ index' = index + 1
  /\ UNCHANGED <<doc, saw_element, verdict>>

Element ==
  /\ Scanning
  /\ M!Starts(token)
  /\ saw_element' = TRUE
  /\ open_tags' = IF token.k = "self" THEN open_tags
                                      ELSE Append(open_tags, token.n)
  /\ index' = index + 1
  /\ UNCHANGED <<doc, verdict>>

Finish ==
  /\ verdict = "running"
  /\ index = Len(doc)
  /\ verdict' = IF saw_element /\ open_tags = <<>> THEN "valid" ELSE "invalid"
  /\ UNCHANGED <<doc, index, open_tags, saw_element>>

Next == Pass \/ Reject \/ Close \/ Element \/ Finish

Steps == Init /\ [][Next]_vars

(* It runs to its end in the calling thread.                               *)
Spec == Steps /\ WF_vars(Next)
=============================================================================
