------------------------------- MODULE OpenTag -------------------------------
(***************************************************************************)
(* OpenTag::ParseOpenTags, one token of the input per step.                *)
(*                                                                         *)
(* active_tags is the std::list of tags that are still open.  Its entries  *)
(* are identified by their sequence number, which is what an iterator into *)
(* the list stands for; active_tags_by_name keeps, for each tag name, the  *)
(* stack of the iterators of that name.  The list is only appended to and  *)
(* erased from through those iterators, so it is kept as a set of entries. *)
(***************************************************************************)
EXTENDS Naturals, Sequences, FiniteSets, TLC

CONSTANTS TagNames,  \* tag names that occur in documents
          BlockNames, BlockDisplays

M == INSTANCE Markup

VARIABLES
  doc,                  \* input
  index,                \* tokens already passed
  sequence,             \* number given to the next tag
  active_tags,
  active_tags_by_name,
  parsed_tags,          \* vector of ranges with their sequence numbers
  status                \* "running", "nullopt" or "parsed"

vars == <<doc, index, sequence, active_tags, active_tags_by_name,
          parsed_tags, status>>

(* The texts there are: tags have a tag name.                              *)
Documents ==
  {d \in Seq(M!Token(TagNames)) :
     \A i \in DOMAIN d : d[i].k \in M!TagKinds => d[i].n \in TagNames}

(* The caller provides doc.                                                *)
Init ==
  /\ index = 0
  /\ sequence = 0
  /\ active_tags = {}
  /\ active_tags_by_name = [name \in TagNames |-> <<>>]
  /\ parsed_tags = <<>>
  /\ status = "running"

Scanning == status = "running" /\ index < Len(doc)
token == doc[index + 1]

(* The end of a skipped construct taken for its beginning.                 *)
PassInPlace ==
  /\ Scanning
  /\ M!Passed(token)
  /\ UNCHANGED vars

(* Text, a terminated comment, CDATA section or processing instruction.    *)
Pass ==
  /\ Scanning
  /\ M!Passed(token)
  /\ index' = index + 1
  /\ UNCHANGED <<doc, sequence, active_tags, active_tags_by_name,
                 parsed_tags, status>>

(* An unterminated construct, a markup that is too short, a name that is   *)
(* not one, or a closing tag whose name is not open.                       *)
Reject ==
  /\ Scanning
  /\ \/ M!Refused(token)
     \/ token.k = "close" /\ active_tags_by_name[token.n] = <<>>
  /\ status' = "nullopt"
  /\ UNCHANGED <<doc, index, sequence, active_tags, active_tags_by_name,
                 parsed_tags>>

OldestEntry(name) ==
  CHOOSE entry \in active_tags :
    entry.Sequence = active_tags_by_name[name][1]

Entry(name) ==
  LET stack == active_tags_by_name[name]
  IN  CHOOSE entry \in active_tags : entry.Sequence = stack[Len(stack)]

IteratorKept(name) == active_tags_by_name

IteratorPopped(name) ==
  [active_tags_by_name EXCEPT ![name] = SubSeq(@, 1, Len(@) - 1)]

Close ==
  /\ Scanning
  /\ token.k = "close"
  /\ active_tags_by_name[token.n] # <<>>
  /\ LET closed == Entry(token.n)
     IN  /\ active_tags' = active_tags \ {closed}
         /\ parsed_tags' =
              Append(parsed_tags,
                     [Sequence |-> closed.Sequence,
                      Range    |-> [TagName    |-> closed.Name,
                                    RawBegin   |-> closed.OpenBegin,
                                    ValueBegin |-> closed.ValueBegin,
                                    ValueEnd   |-> index,
                                    RawEnd     |-> index + 1]])
  /\ active_tags_by_name' = IteratorPopped(token.n)
  /\ index' = index + 1
  /\ UNCHANGED <<doc, sequence, status>>

SelfClose ==
  /\ Scanning
  /\ token.k = "self"
  /\ parsed_tags' =
       Append(parsed_tags,
              [Sequence |-> sequence,
               Range    |-> [TagName    |-> token.n,
                             RawBegin   |-> index,
                             ValueBegin |-> index + 1,
                             ValueEnd   |-> index + 1,
                             RawEnd     |-> index + 1]])
  /\ sequence' = sequence + 1
  /\ index' = index + 1
  /\ UNCHANGED <<doc, active_tags, active_tags_by_name, status>>

Open ==
  /\ Scanning
  /\ token.k = "open"
  /\ active_tags' = active_tags \cup {[Name       |-> token.n,
                                       OpenBegin  |-> index,
                                       ValueBegin |-> index + 1,
                                       Sequence   |-> sequence]}
  /\ active_tags_by_name' =
       [active_tags_by_name EXCEPT ![token.n] = Append(@, sequence)]
  /\ sequence' = sequence + 1
  /\ index' = index + 1
  /\ UNCHANGED <<doc, parsed_tags, status>>

LeftOpen == active_tags # {}

InClosingOrder(tags) == tags

Before(tags, i) == {j \in DOMAIN tags : tags[j].Sequence < tags[i].Sequence}

(* std::sort by sequence number: no two tags have the same.                *)
InSequence(tags) ==
  [r \in DOMAIN tags |->
     tags[CHOOSE i \in DOMAIN tags : Cardinality(Before(tags, i)) = r - 1]]

(* The end of the input: tags left open are an error, otherwise the ranges *)
(* are sorted by sequence number.                                          *)
Finish ==
  /\ status = "running"
  /\ index = Len(doc)
  /\ IF LeftOpen
       THEN status' = "nullopt" /\ UNCHANGED parsed_tags
       ELSE /\ status' = "parsed"
            /\ parsed_tags' = InSequence(parsed_tags)
  /\ UNCHANGED <<doc, index, sequence, active_tags, active_tags_by_name>>

Next == Pass \/ Reject \/ Close \/ SelfClose \/ Open \/ Finish

(* The scanner on its own, for a text it is given.                         *)
Spec == doc \in Documents /\ Init /\ [][Next]_vars

-----------------------------------------------------------------------------
(* The per-name index and the list of open tags describe the same tags: no *)
(* iterator of the index is dangling or stale, none is missing, and every  *)
(* stack has its most recently opened tag on top.                          *)
StackOfName(name) ==
  LET stack == active_tags_by_name[name]
  IN  /\ \A i, j \in 1..Len(stack) : i < j => stack[i] < stack[j]
      /\ \A i \in 1..Len(stack) :
           \E e \in active_tags : e.Name = name /\ e.Sequence = stack[i]
      /\ \A e \in active_tags :
           e.Name = name => \E i \in 1..Len(stack) : stack[i] = e.Sequence

DistinctEntries ==
  /\ \A e \in active_tags : e.Sequence < sequence
  /\ \A e, f \in active_tags : e.Sequence = f.Sequence => e = f

IndexMatchesList ==
  DistinctEntries /\ \A name \in TagNames : StackOfName(name)

(* Tags that cross are closed by name: a closing tag takes away one tag,   *)
(* of its own name, and the most recent one of that name.                  *)
ClosesMostRecent ==
  [][\A e \in active_tags \ active_tags' :
       /\ e.Name = token.n
       /\ \A f \in active_tags :
            /\ f # e => f \in active_tags'
            /\ f.Name = e.Name => f.Sequence <= e.Sequence]_vars

(* A document is parsed exactly when each name nests properly on its own,  *)
(* and the ranges that are returned, in the order they are returned in,    *)
(* are those of its tags, although tags are pushed when they close and may *)
(* cross.                                                                  *)
ParsedIsDeclared ==
  /\ status = "parsed" => M!Balanced(doc)
  /\ status = "nullopt" => ~M!Balanced(doc)
  /\ status = "parsed" =>
       [r \in 1..Len(parsed_tags) |-> parsed_tags[r].Range] = M!Tags(doc)

(* The loop reaches the end of every input or rejects it.                  *)
Termination == <>(status # "running")

-----------------------------------------------------------------------------
(* InputValidator::HasValidTagClosure decides on the same documents with a *)
(* vector of names instead of a list and an index.  The parser takes the   *)
(* same steps: its list, read in opening order, is the validator's vector, *)
(* and it parses a document with a tag exactly when the validator accepts. *)
OpenNumbers == M!Ascending({e.Sequence : e \in active_tags})

NameOf(number) == (CHOOSE e \in active_tags : e.Sequence = number).Name

OpenNames == [i \in 1..Len(OpenNumbers) |-> NameOf(OpenNumbers[i])]

Verdict ==
  CASE status = "running" -> "running"
    [] status = "parsed" /\ sequence > 0 -> "valid"
    [] OTHER -> "invalid"

Validator == INSTANCE InputValidator
  WITH open_tags <- OpenNames, saw_element <- (sequence > 0),
       verdict <- Verdict

AgreesWithValidator == Validator!Spec
=============================================================================
