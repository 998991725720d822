------------------------- MODULE BlockHTMLSerializer -------------------------
(***************************************************************************)
(* BlockHTMLSerializer: writes blocks, and groups of combined blocks, as   *)
(* one text.  The units are sorted by range and a unit is skipped when it  *)
(* ends no later than what was written before it.                          *)
(*                                                                         *)
(* The text of a block is a sequence of positions of the document it is    *)
(* from, so that what is written tells which parts of the document were    *)
(* repeated, lost or moved.                                                *)
(***************************************************************************)
EXTENDS Integers, Functions, BlockGroups

CONSTANTS
  ListsToWrite,   \* lists of blocks that are passed in
  CombinedLists,  \* lists of combined blocks that are passed in
  Merges          \* pairs of such lists that are passed in together

ASSUME ListsAssumption ==
  /\ ListsToWrite \subseteq Seq(Blocks)
  /\ CombinedLists \subseteq Seq(CombinedBlocks)
  /\ Merges \subseteq ListsToWrite \X CombinedLists

VARIABLES
  html,         \* html_
  write_error,  \* what error_ reports, "none" when it is empty
  input         \* what html was made of; only properties use it

writerVars == <<html, write_error, input>>

NoInput == [blocks |-> <<>>, combined |-> <<>>]

InitWriter == html = <<>> /\ write_error = "none" /\ input = NoInput

-----------------------------------------------------------------------------
Unit(b) == [raw_begin |-> b.raw_begin, raw_end |-> b.raw_end, raw |-> b.raw]

Reversed(b) == b.raw_begin > b.raw_end

Before(u, v) ==
  \/ u.raw_begin < v.raw_begin
  \/ u.raw_begin = v.raw_begin /\ u.raw_end > v.raw_end

AsListed(units) == {units}

(* std::sort leaves the order of units with the same range open.           *)
Sortings(units) ==
  {[i \in DOMAIN units |-> units[p[i]]] :
     p \in {q \in Bijection(DOMAIN units, DOMAIN units) :
              \A i, j \in DOMAIN units :
                 i < j => ~Before(units[q[j]], units[q[i]])}}

(* furthestEnd; there is none before the first unit is written.            *)
NoEnd == -1

WriteUnitAtEnd(written, unit) ==
  IF unit.raw_end < written.furthestEnd THEN written
  ELSE [html |-> written.html \o unit.raw, furthestEnd |-> unit.raw_end]

WriteUnit(written, unit) ==
  IF unit.raw_end <= written.furthestEnd THEN written
  ELSE [html |-> written.html \o unit.raw, furthestEnd |-> unit.raw_end]

(* What the loop has written after each unit.                              *)
Loop(s) ==
  LET written[k \in 0..Len(s)] ==
        IF k = 0 THEN [html |-> <<>>, furthestEnd |-> NoEnd]
        ELSE WriteUnit(written[k - 1], s[k])
  IN  written

SerializeNonOverlappingUnits(units) ==
  {Loop(s)[Len(s)].html : s \in Sortings(units)}

-----------------------------------------------------------------------------
SetHTML(text) == html' = text /\ write_error' = "none"

SetError(reason) == html' = <<>> /\ write_error' = reason

SerializeBlocks(blocks) ==
  /\ input' = [blocks |-> blocks, combined |-> <<>>]
  /\ \/ /\ \E i \in DOMAIN blocks : Reversed(blocks[i])
        /\ SetError("reversed block")
     \/ /\ \A i \in DOMAIN blocks : ~Reversed(blocks[i])
        /\ \E text \in SerializeNonOverlappingUnits(
                         [i \in DOMAIN blocks |-> Unit(blocks[i])]) :
             SetHTML(text)

SerializeCombinedBlocks(combined) ==
  /\ input' = [blocks |-> <<>>, combined |-> combined]
  /\ \/ /\ \E i \in DOMAIN combined : Reversed(combined[i])
        /\ SetError("reversed group")
     \/ /\ \A i \in DOMAIN combined : ~Reversed(combined[i])
        /\ \E text \in SerializeNonOverlappingUnits(
                         [i \in DOMAIN combined |-> Unit(combined[i])]) :
             SetHTML(text)

(* Positions in blocks, counted from 0, that a group claims.               *)
CombinedIndexes(combined) ==
  UNION {Range(combined[i].source_indexes) : i \in DOMAIN combined}

MergedUnitsFromOne(blocks, combined) ==
  LET kept == Ascending({i \in 1..Len(blocks) : i \notin CombinedIndexes(combined)})
  IN  [k \in DOMAIN kept |-> Unit(blocks[kept[k]])]
        \o [i \in DOMAIN combined |-> Unit(combined[i])]

Kept(blocks, combined) ==
  {i \in 1..Len(blocks) : (i - 1) \notin CombinedIndexes(combined)}

MergedUnits(blocks, combined) ==
  LET kept == Ascending(Kept(blocks, combined))
  IN  [k \in DOMAIN kept |-> Unit(blocks[kept[k]])]
        \o [i \in DOMAIN combined |-> Unit(combined[i])]

FitsBlocks(group, blocks) ==
  \A k \in DOMAIN group.source_indexes :
     group.source_indexes[k] < Len(blocks)

SerializeMergedBlocks(blocks, combined) ==
  /\ input' = [blocks |-> blocks, combined |-> combined]
  /\ \/ /\ \E i \in DOMAIN blocks : Reversed(blocks[i])
        /\ SetError("reversed block")
     \/ /\ \A i \in DOMAIN blocks : ~Reversed(blocks[i])
        /\ \E i \in DOMAIN combined :
             /\ \A j \in 1..(i - 1) :
                  ~Reversed(combined[j]) /\ FitsBlocks(combined[j], blocks)
             /\ \/ /\ Reversed(combined[i])
                   /\ SetError("reversed group")
                \/ /\ ~Reversed(combined[i])
                   /\ ~FitsBlocks(combined[i], blocks)
                   /\ SetError("no such block")
     \/ /\ \A i \in DOMAIN blocks : ~Reversed(blocks[i])
        /\ \A i \in DOMAIN combined :
             ~Reversed(combined[i]) /\ FitsBlocks(combined[i], blocks)
        /\ \E text \in SerializeNonOverlappingUnits(
                         MergedUnits(blocks, combined)) :
             SetHTML(text)

Clear == html' = <<>> /\ write_error' = "none" /\ input' = NoInput

NextWriter ==
  \/ \E blocks \in ListsToWrite : SerializeBlocks(blocks)
  \/ \E combined \in CombinedLists : SerializeCombinedBlocks(combined)
  \/ \E merge \in Merges : SerializeMergedBlocks(merge[1], merge[2])
  \/ Clear

SpecWriter == InitWriter /\ [][NextWriter]_writerVars

-----------------------------------------------------------------------------
Written == write_error = "none"

Units == MergedUnits(input.blocks, input.combined)

Within(u, v) == v.raw_begin <= u.raw_begin /\ u.raw_end <= v.raw_end

(* The texts of the units that lie in no earlier one, in sorted order.     *)
Outermost(s, k) == \A j \in 1..(k - 1) : ~Within(s[k], s[j])

OutermostText(s) ==
  LET text[k \in 0..Len(s)] ==
        IF k = 0 THEN <<>>
        ELSE IF Outermost(s, k) THEN text[k - 1] \o s[k].raw ELSE text[k - 1]
  IN  text

(* Keeping one end is enough to decide containment: what is written is, in *)
(* sorted order, the units that lie in no earlier one.  A call that fails  *)
(* writes nothing and leaves no text of an earlier call behind.            *)
EndDecidesContainment ==
  IF ~Written THEN html = <<>>
  ELSE \E s \in Sortings(Units) : html = OutermostText(s)[Len(s)]

(* Documents whose blocks nest, with groups that were made of them.        *)
OfText(b) ==
  /\ b.raw_begin <= b.raw_end
  /\ b.raw = [n \in 1..(b.raw_end - b.raw_begin) |-> b.raw_begin + n - 1]

GroupOf(group, blocks) ==
  /\ group.source_indexes # <<>> /\ FitsBlocks(group, blocks)
  /\ group = Group(blocks, group.source_indexes)

WellFormed ==
  /\ \A i \in DOMAIN input.blocks : OfText(input.blocks[i])
  /\ Laminar(input.blocks)
  /\ \A i \in DOMAIN input.combined : GroupOf(input.combined[i], input.blocks)

(* Outside of the ranges of the groups, every part of the document that is *)
(* in a block is written once, in the order of the document, and nothing   *)
(* else is.                                                                *)
OutsideGroupsOnce ==
  Written /\ WellFormed =>
    LET inside == Covered(input.combined)
    IN  /\ \A k, l \in DOMAIN html :
             k < l /\ html[k] \notin inside /\ html[l] \notin inside
               => html[k] < html[l]
        /\ Range(html) \ inside = Covered(input.blocks) \ inside

(* Groups of separate blocks that leave no other block out between them,   *)
(* and that no block straddles, do not change what is written.             *)
Seamless(group) ==
  /\ OfDocument(group.elements) /\ Apart(group.elements)
  /\ Covered(input.blocks) \cap Span(group) = Covered(group.elements)
  /\ \A i \in DOMAIN input.blocks :
       Disjoint(input.blocks[i], group) \/ Nested(input.blocks[i], group)

SeamlessMergeKeepsText ==
  /\ Written /\ WellFormed
  /\ Laminar(input.combined)
  /\ \A i \in DOMAIN input.combined : Seamless(input.combined[i])
  => html = Ascending(Covered(input.blocks))

(* Applying the groups to the blocks replaces the combined blocks and no   *)
(* others: every part of the document that is in a block is written.       *)
EveryBlockWritten ==
  Written /\ WellFormed => Covered(input.blocks) \subseteq Range(html)

=============================================================================
