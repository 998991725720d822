-------------------------- MODULE BlockRangeTracker --------------------------
(***************************************************************************)
(* BlockRangeTracker: the block list of an HTML text, each block with a    *)
(* tracking id that Update() tries to keep when the text changes.          *)
(*                                                                         *)
(* What DivideBlock finds in a text is a constant function, so that this   *)
(* module does not depend on how texts are parsed; MCBlockRangeTracker     *)
(* gives it the meaning it has in module Markup.                           *)
(*                                                                         *)
(* A call runs to its end before the next one starts, but the loop of      *)
(* BuildTrackedBlocks is modelled iteration by iteration: it hands out ids *)
(* from next_id_ while an exception (std::bad_alloc) may end it anywhere.  *)
(***************************************************************************)
EXTENDS Naturals, Sequences, FiniteSets

CONSTANTS
  Elements,   \* the ElementInfo records that occur; a block list only holds
              \* blocks, so is_block and the display fields are left out
  Texts,      \* the html texts that are passed in, each a sequence
  Divided,    \* what SplitParserInput and DivideBlock make of each text
  Supplied,   \* block lists a caller hands to SetBlocks
  MaxId       \* bound on next_id_, for the model checker

ASSUME ElementsAssumption ==
  \A e \in Elements : e.raw_begin \in Nat /\ e.raw_end \in Nat

(* The value of a block is what its raw text has between its first and its *)
(* last tag.                                                               *)
ASSUME ValueAssumption ==
  \A e, f \in Elements :
    e.tag_name = f.tag_name /\ e.raw = f.raw => e.value = f.value

(* Texts are divided into a prefix and a body with blocks; ok is FALSE for *)
(* a text DivideBlock rejects.                                             *)
ASSUME DividedAssumption ==
  Divided \in [Texts -> [ok : BOOLEAN, prefix : Nat, blocks : Seq(Elements)]]

(* The raw text of a block is the slice of the body its range names.       *)
ASSUME SliceAssumption ==
  \A t \in Texts : \A i \in 1..Len(Divided[t].blocks) :
    LET e == Divided[t].blocks[i]
    IN  e.raw = SubSeq(t, Divided[t].prefix + e.raw_begin + 1,
                          Divided[t].prefix + e.raw_end)

(* A block list handed to SetBlocks comes from a DivideBlock, too.         *)
ASSUME SuppliedAssumption == Supplied \subseteq Seq(Elements)

ASSUME MaxIdAssumption == MaxId \in Nat \ {0}

VARIABLES
  html,            \* html_, <<>> when cleared
  tracked_blocks,
  last_error,      \* what error_ reports, "none" when it is empty
  next_id,
  pc,              \* "idle", or "build" inside BuildTrackedBlocks
  job,             \* arguments of the running call
  tracked,         \* the local vector BuildTrackedBlocks fills
  used,            \* old positions whose id was taken over
  first_id         \* next_id when the running call started to build; the
                   \* code has no such variable, only properties use it

vars == <<html, tracked_blocks, last_error, next_id, pc, job, tracked, used,
          first_id>>

NoJob == [text |-> <<>>, blocks |-> <<>>, offset |-> 0, preserve |-> FALSE,
          catches |-> TRUE]

Init ==
  /\ html = <<>>
  /\ tracked_blocks = <<>>
  /\ last_error = "none"
  /\ next_id = 1
  /\ pc = "idle"
  /\ job = NoJob
  /\ tracked = <<>>
  /\ used = {}
  /\ first_id = 1

-----------------------------------------------------------------------------
(* The entry points.                                                       *)

Clear == html' = <<>> /\ tracked_blocks' = <<>>

EnterBuild(arguments) ==
  /\ pc' = "build"
  /\ job' = arguments
  /\ tracked' = <<>>
  /\ used' = {}
  /\ first_id' = next_id'

StayIdle == UNCHANGED <<pc, job, tracked, used, first_id>>

DivideJob(t, preserve_ids) ==
  [text |-> t, blocks |-> Divided[t].blocks, offset |-> Divided[t].prefix,
   preserve |-> preserve_ids, catches |-> TRUE]

(* Parse(html), also through the slot ParseHtml: everything is cleared and *)
(* ids start again before the text is looked at.                           *)
Parse(t) ==
  /\ pc = "idle"
  /\ Clear
  /\ next_id' = 1
  /\ \/ /\ Divided[t].ok
        /\ last_error' = "none"
        /\ EnterBuild(DivideJob(t, FALSE))
     \/ /\ ~Divided[t].ok
        /\ last_error' = "rejected"
        /\ StayIdle

ParseNull ==
  /\ pc = "idle"
  /\ Clear
  /\ next_id' = 1
  /\ last_error' = "null"
  /\ StayIdle

(* Update(html), also through the slot UpdateHtml.                         *)
Update(t) ==
  /\ pc = "idle"
  /\ \/ /\ Divided[t].ok
        /\ UNCHANGED <<last_error, next_id>>
        /\ EnterBuild(DivideJob(t, TRUE))
     \/ /\ ~Divided[t].ok
        /\ last_error' = "rejected"
        /\ UNCHANGED next_id
        /\ StayIdle
  /\ UNCHANGED <<html, tracked_blocks>>

UpdateNull ==
  /\ pc = "idle"
  /\ last_error' = "null"
  /\ UNCHANGED <<html, tracked_blocks, next_id>>
  /\ StayIdle

SuppliedJob(blocks) ==
  [text |-> <<>>, blocks |-> blocks, offset |-> 0, preserve |-> FALSE,
   catches |-> FALSE]

SetBlocks(blocks) ==
  /\ pc = "idle"
  /\ Clear
  /\ last_error' = "none"
  /\ next_id' = 1
  /\ EnterBuild(SuppliedJob(blocks))

-----------------------------------------------------------------------------
(* BuildTrackedBlocks.                                                     *)

Element == job.blocks[Len(tracked) + 1]
RawBeginInBody == Element.raw_begin
RawBegin == job.offset + Element.raw_begin
RawEnd == job.offset + Element.raw_end

SameRange(i) ==
  /\ tracked_blocks[i].raw_begin = RawBegin
  /\ tracked_blocks[i].raw_end = RawEnd
  /\ tracked_blocks[i].element.tag_name = Element.tag_name
  /\ tracked_blocks[i].element.raw = Element.raw

SameTagName(i) == tracked_blocks[i].element.tag_name = Element.tag_name

SameContent(i) ==
  /\ tracked_blocks[i].element.tag_name = Element.tag_name
  /\ tracked_blocks[i].element.raw = Element.raw
  /\ tracked_blocks[i].element.value = Element.value

(* FindPreservedBlock: the first unused old block at the same place with   *)
(* the same text, and failing that the first with the same text anywhere.  *)
UsedOrNot == DOMAIN tracked_blocks
Unused == DOMAIN tracked_blocks \ used
AtSameRange == {i \in Unused : SameRange(i)}
WithSameContent == {i \in Unused : SameContent(i)}
Candidates == IF AtSameRange # {} THEN AtSameRange ELSE WithSameContent

TrackedOneBefore(id) ==
  [id |-> id, source_index |-> Len(tracked) - 1, element |-> Element,
   raw_begin |-> RawBegin, raw_end |-> RawEnd]

TrackedBlock(id) ==
  [id |-> id, source_index |-> Len(tracked), element |-> Element,
   raw_begin |-> RawBegin, raw_end |-> RawEnd]

Building == pc = "build" /\ Len(tracked) < Len(job.blocks)

(* One iteration that takes over the id of an old block; the new id is     *)
(* used up all the same.                                                   *)
Preserve ==
  /\ Building
  /\ next_id < MaxId
  /\ job.preserve
  /\ \E i \in Candidates :
       /\ \A j \in Candidates : i <= j
       /\ tracked' = Append(tracked, TrackedBlock(tracked_blocks[i].id))
       /\ used' = used \cup {i}
  /\ next_id' = next_id + 1
  /\ UNCHANGED <<html, tracked_blocks, last_error, pc, job, first_id>>

(* One iteration that gives the block a new id.                            *)
Assign ==
  /\ Building
  /\ next_id < MaxId
  /\ job.preserve => Candidates = {}
  /\ tracked' = Append(tracked, TrackedBlock(next_id))
  /\ next_id' = next_id + 1
  /\ UNCHANGED <<html, tracked_blocks, last_error, pc, job, used, first_id>>

Return ==
  /\ pc' = "idle"
  /\ job' = NoJob
  /\ tracked' = <<>>
  /\ used' = {}
  /\ first_id' = 1

(* The loop is over: BuildFromHtml or SetBlocks stores the result.         *)
Commit ==
  /\ pc = "build"
  /\ Len(tracked) = Len(job.blocks)
  /\ html' = job.text
  /\ tracked_blocks' = tracked
  /\ last_error' = "none"
  /\ UNCHANGED next_id
  /\ Return

ThrowWithText ==
  /\ pc = "build"
  /\ html' = job.text
  /\ last_error' = IF job.catches THEN "exception" ELSE last_error
  /\ UNCHANGED <<tracked_blocks, next_id>>
  /\ Return

(* An exception inside the loop or while the text is copied.  BuildFromHtml*)
(* catches it and sets the error; SetBlocks lets it out and sets none.     *)
Throw ==
  /\ pc = "build"
  /\ last_error' = IF job.catches THEN "exception" ELSE last_error
  /\ UNCHANGED <<html, tracked_blocks, next_id>>
  /\ Return

Next ==
  \/ \E t \in Texts : Parse(t) \/ Update(t)
  \/ ParseNull \/ UpdateNull
  \/ \E blocks \in Supplied : SetBlocks(blocks)
  \/ Preserve \/ Assign \/ Commit \/ Throw

Spec == Init /\ [][Next]_vars

-----------------------------------------------------------------------------
TrackedBlocks == [id : Nat \ {0}, source_index : Nat, element : Elements,
                  raw_begin : Nat, raw_end : Nat]

Jobs == [text : Texts \cup {<<>>}, blocks : Seq(Elements), offset : Nat,
         preserve : BOOLEAN, catches : BOOLEAN]

(* The types of the variables.                                             *)
TypeOK ==
  /\ html \in Texts \cup {<<>>}
  /\ tracked_blocks \in Seq(TrackedBlocks)
  /\ last_error \in {"none", "null", "rejected", "exception"}
  /\ next_id \in 1..MaxId
  /\ pc \in {"idle", "build"}
  /\ job \in Jobs
  /\ tracked \in Seq(TrackedBlocks)
  /\ used \in SUBSET Nat
  /\ first_id \in 1..MaxId

(* GetBlockById() finds at most one block for an id, and no block has an   *)
(* id that is still to be handed out.                                      *)
IdsDistinct ==
  /\ \A i, j \in 1..Len(tracked_blocks) :
       tracked_blocks[i].id = tracked_blocks[j].id => i = j
  /\ \A i \in 1..Len(tracked_blocks) : tracked_blocks[i].id < next_id

(* A block of the text that is stored is where the tracker says it is: its *)
(* absolute range, XML declaration and DOCTYPE included, holds its raw     *)
(* text.  It holds after failed and interrupted calls too.                 *)
RangesCoverText ==
  html # <<>> =>
    \A i \in 1..Len(tracked_blocks) :
       SubSeq(html, tracked_blocks[i].raw_begin + 1, tracked_blocks[i].raw_end)
         = tracked_blocks[i].element.raw

(* Every block of the stored text is tracked, in the order of DivideBlock. *)
AllBlocksTracked ==
  html # <<>> =>
    /\ Len(tracked_blocks) = Len(Divided[html].blocks)
    /\ \A i \in 1..Len(tracked_blocks) :
         /\ tracked_blocks[i].element = Divided[html].blocks[i]
         /\ tracked_blocks[i].source_index = i - 1

-----------------------------------------------------------------------------
(* The tracker keeps the promises of StableIds, the abstract view of the   *)
(* ids of the blocks and of what they hold.                                *)
ContentOf(element) ==
  [tag_name |-> element.tag_name, raw |-> element.raw, value |-> element.value]

IdsOf(blocks) == {blocks[i].id : i \in 1..Len(blocks)}

Naming(blocks) ==
  [id \in IdsOf(blocks) |->
     ContentOf(blocks[CHOOSE i \in 1..Len(blocks) : blocks[i].id = id].element)]

Live == Naming(tracked_blocks)

Spent == 1..((IF pc = "build" THEN first_id ELSE next_id) - 1)

Abstract == INSTANCE StableIds
  WITH Contents <- {ContentOf(e) : e \in Elements},
       live <- Live, spent <- Spent

IdsAreStable == Abstract!Spec

=============================================================================
