----------------------------- MODULE BlockGroups -----------------------------
(***************************************************************************)
(* Groups of blocks: what CombineBlock and FlattenBlock make of several    *)
(* blocks of a document.  The text of a block is a sequence of positions   *)
(* of its document, [raw_begin, raw_end) the range it was found at.        *)
(***************************************************************************)
EXTENDS Naturals, Sequences, FiniteSets, Positions

Seqs == INSTANCE SequencesExt
Sets == INSTANCE FiniteSetsExt

Blocks == [raw_begin : Nat, raw_end : Nat, raw : Seq(Nat),
           value : Seq(Nat), value_begin : Nat, value_end : Nat]

CombinedBlocks ==
  [raw_begin : Nat, raw_end : Nat, raw : Seq(Nat), source_indexes : Seq(Nat),
   elements : Seq(Blocks), value : Seq(Nat), value_begin : Nat,
   value_end : Nat]

(* A block of a document whose first and last token are its tags; or one   *)
(* tag, for a block that closes itself.                                    *)
BlockAt(begin, end) ==
  [raw_begin   |-> begin,
   raw_end     |-> end,
   raw         |-> [i \in 1..(end - begin) |-> begin + i - 1],
   value       |-> IF end > begin + 1
                     THEN [i \in 1..(end - begin - 2) |-> begin + i] ELSE <<>>,
   value_begin |-> begin + 1,
   value_end   |-> IF end > begin + 1 THEN end - 1 ELSE end]

(* One group of the blocks at the given positions, counted from 0.  There  *)
(* is at least one.                                                        *)
Group(blocks, indexes) ==
  LET elements == [k \in DOMAIN indexes |-> blocks[indexes[k] + 1]]
      Positions == DOMAIN indexes
  IN  [raw_begin   |-> Sets!Min({elements[k].raw_begin : k \in Positions}),
       raw_end     |-> Sets!Max({elements[k].raw_end   : k \in Positions}),
       raw         |-> Seqs!FlattenSeq([k \in Positions |-> elements[k].raw]),
       source_indexes |-> indexes,
       elements       |-> elements,
       value       |-> Seqs!FlattenSeq([k \in Positions |-> elements[k].value]),
       value_begin |-> Sets!Min({elements[k].value_begin : k \in Positions}),
       value_end   |-> Sets!Max({elements[k].value_end   : k \in Positions})]

-----------------------------------------------------------------------------
(* How ranges lie to each other.                                           *)

Span(b) == b.raw_begin..(b.raw_end - 1)

Covered(list) == UNION {Span(list[i]) : i \in DOMAIN list}

Disjoint(b, c) == Span(b) \cap Span(c) = {}

Nested(b, c) == Span(b) \subseteq Span(c) \/ Span(c) \subseteq Span(b)

(* No two blocks cross.                                                    *)
Laminar(list) ==
  \A i, j \in DOMAIN list : Disjoint(list[i], list[j]) \/ Nested(list[i], list[j])

Apart(list) == \A i, j \in DOMAIN list : i # j => Disjoint(list[i], list[j])

(* The blocks of a document come in its order and have their raw text.     *)
OfDocument(list) ==
  /\ \A i \in 1..Len(list) :
       /\ list[i].raw_begin < list[i].raw_end
       /\ list[i].raw = [n \in 1..(list[i].raw_end - list[i].raw_begin) |->
                          list[i].raw_begin + n - 1]
  /\ \A i, j \in 1..Len(list) : i < j => list[i].raw_begin < list[j].raw_begin

(* The group was made of these blocks.                                     *)
MadeOf(group, blocks) ==
  \A k \in DOMAIN group.source_indexes :
    LET i == group.source_indexes[k] + 1
    IN  i \in DOMAIN blocks /\ group.elements[k] = blocks[i]
=============================================================================
