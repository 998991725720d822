---------------------------- MODULE CallsProofs -----------------------------
(***************************************************************************)
(* Theorems about objects that answer each call from what earlier calls    *)
(* left, for every sequence of calls: BlockRangeTracker, for all texts,    *)
(* block lists and MaxId; and the native package's Writer, with the Reader *)
(* that reads its output back.                                             *)
(***************************************************************************)
EXTENDS BlockRangeTracker, XmlWriter, PositionsProofs

-----------------------------------------------------------------------------
LEMMA Constants ==
  /\ MaxId \in Nat /\ 1 \in 1..MaxId
  /\ \A e \in Elements : e.raw_begin \in Nat /\ e.raw_end \in Nat
  /\ \A t \in Texts : /\ Divided[t].ok \in BOOLEAN
                      /\ Divided[t].prefix \in Nat
                      /\ Divided[t].blocks \in Seq(Elements)
  /\ \A blocks \in Supplied : blocks \in Seq(Elements)
  /\ NoJob \in Jobs
  /\ \A t \in Texts : \A b \in BOOLEAN : DivideJob(t, b) \in Jobs
BY MaxIdAssumption, ElementsAssumption, DividedAssumption, SuppliedAssumption
   DEF NoJob, Jobs, DivideJob

LEMMA TrackedTypes ==
  ASSUME TypeOK
  PROVE  /\ Len(tracked_blocks) \in Nat /\ Len(tracked) \in Nat
         /\ \A i \in 1..Len(tracked_blocks) :
              /\ tracked_blocks[i].id \in Nat \ {0}
              /\ tracked_blocks[i].element \in Elements
         /\ \A i \in 1..Len(tracked) :
              /\ tracked[i].id \in Nat \ {0}
              /\ tracked[i].element \in Elements
         /\ job.text \in Texts \cup {<<>>}
         /\ job.blocks \in Seq(Elements)
         /\ job.offset \in Nat
<1>1. Len(tracked_blocks) \in Nat /\ Len(tracked) \in Nat
  BY DEF TypeOK
<1>2. \A b \in TrackedBlocks : b.id \in Nat \ {0} /\ b.element \in Elements
  BY DEF TrackedBlocks
<1>3. \A i \in 1..Len(tracked_blocks) : tracked_blocks[i] \in TrackedBlocks
  BY DEF TypeOK
<1>4. \A i \in 1..Len(tracked) : tracked[i] \in TrackedBlocks
  BY DEF TypeOK
<1>5. /\ job.text \in Texts \cup {<<>>}
      /\ job.blocks \in Seq(Elements)
      /\ job.offset \in Nat
  BY DEF TypeOK, Jobs
<1>. QED
  BY <1>1, <1>2, <1>3, <1>4, <1>5

-----------------------------------------------------------------------------
(* The block of one iteration of BuildTrackedBlocks.                       *)

LEMMA IterationTypes ==
  ASSUME TypeOK, Building, NEW id \in Nat \ {0}
  PROVE  /\ Element \in Elements
         /\ TrackedBlock(id) \in TrackedBlocks
         /\ TrackedBlock(id).id = id
         /\ TrackedBlock(id).element = job.blocks[Len(tracked) + 1]
         /\ TrackedBlock(id).source_index = Len(tracked)
         /\ TrackedBlock(id).raw_begin
              = job.offset + job.blocks[Len(tracked) + 1].raw_begin
         /\ TrackedBlock(id).raw_end
              = job.offset + job.blocks[Len(tracked) + 1].raw_end
<1>1. Len(tracked) \in Nat /\ Len(tracked) + 1 \in 1..Len(job.blocks)
  BY DEF TypeOK, Building
<1>2. Element \in Elements
  BY <1>1 DEF TypeOK, Element, Jobs
<1>3. RawBegin \in Nat /\ RawEnd \in Nat
  BY <1>2, Constants DEF RawBegin, RawEnd, TypeOK, Jobs
<1>. QED
  BY <1>1, <1>2, <1>3 DEF TrackedBlock, TrackedBlocks, Element, RawBegin, RawEnd, TypeOK

(* A step of the loop appends one block, with the id of an old block that  *)
(* was not taken over yet or with the id that is next.                     *)
LEMMA IterationShape ==
  ASSUME TypeOK, Preserve \/ Assign
  PROVE  /\ Building
         /\ next_id < MaxId
         /\ next_id' = next_id + 1
         /\ UNCHANGED <<html, tracked_blocks, last_error, pc, job, first_id>>
         /\ \E id \in Nat \ {0} :
              /\ tracked' = Append(tracked, TrackedBlock(id))
              /\ \/ id = next_id /\ used' = used
                 \/ \E i \in 1..Len(tracked_blocks) :
                      /\ i \notin used
                      /\ id = tracked_blocks[i].id
                      /\ used' = used \cup {i}
<1>1. CASE Assign
  BY <1>1 DEF Assign, TypeOK
<1>2. CASE Preserve
  <2>1. PICK i \in Candidates :
               /\ tracked' = Append(tracked, TrackedBlock(tracked_blocks[i].id))
               /\ used' = used \cup {i}
    BY <1>2 DEF Preserve
  <2>2. i \in 1..Len(tracked_blocks) /\ i \notin used
    BY DEF Candidates, AtSameRange, WithSameContent, Unused, TypeOK
  <2>3. tracked_blocks[i].id \in Nat \ {0}
    BY <2>2, TrackedTypes
  <2>. QED
    BY <1>2, <2>1, <2>2, <2>3 DEF Preserve
<1>. QED
  BY <1>1, <1>2

-----------------------------------------------------------------------------
(* Type correctness.                                                       *)

LEMMA InitTypeOK == Init => TypeOK
BY Constants DEF Init, TypeOK

LEMMA NextTypeOK == TypeOK /\ [Next]_vars => TypeOK'
<1>. SUFFICES ASSUME TypeOK, [Next]_vars PROVE TypeOK'
  OBVIOUS
<1>0. 1 \in 1..MaxId /\ NoJob \in Jobs
  BY Constants
<1>1. ASSUME NEW t \in Texts, Parse(t) PROVE TypeOK'
  <2>1. DivideJob(t, FALSE) \in Jobs
    BY Constants
  <2>2. /\ Clear /\ next_id' = 1
        /\ \/ last_error' = "none" /\ \E j \in Jobs : EnterBuild(j)
           \/ last_error' = "rejected" /\ StayIdle
    BY <1>1, <2>1 DEF Parse
  <2>3. CASE last_error' = "none" /\ \E j \in Jobs : EnterBuild(j)
    BY <1>0, <2>2, <2>3 DEF TypeOK, Clear, EnterBuild
  <2>4. CASE last_error' = "rejected" /\ StayIdle
    BY <1>0, <2>2, <2>4 DEF TypeOK, Clear, StayIdle
  <2>. QED
    BY <2>2, <2>3, <2>4
<1>2. ASSUME NEW t \in Texts, Update(t) PROVE TypeOK'
  <2>1. DivideJob(t, TRUE) \in Jobs
    BY Constants
  <2>2. /\ UNCHANGED <<html, tracked_blocks, next_id>>
        /\ \/ last_error' = last_error /\ \E j \in Jobs : EnterBuild(j)
           \/ last_error' = "rejected" /\ StayIdle
    BY <1>2, <2>1 DEF Update
  <2>3. CASE last_error' = last_error /\ \E j \in Jobs : EnterBuild(j)
    BY <2>2, <2>3 DEF TypeOK, EnterBuild
  <2>4. CASE last_error' = "rejected" /\ StayIdle
    BY <2>2, <2>4 DEF TypeOK, StayIdle
  <2>. QED
    BY <2>2, <2>3, <2>4
<1>3. CASE ParseNull
  BY <1>0, <1>3 DEF TypeOK, ParseNull, Clear, StayIdle
<1>4. CASE UpdateNull
  BY <1>4 DEF TypeOK, UpdateNull, StayIdle
<1>5. ASSUME NEW blocks \in Supplied, SetBlocks(blocks) PROVE TypeOK'
  <2>1. SuppliedJob(blocks) \in Jobs
    BY Constants DEF SuppliedJob, Jobs
  <2>. QED
    BY <1>0, <1>5, <2>1 DEF TypeOK, SetBlocks, Clear, EnterBuild
<1>6. CASE Preserve \/ Assign
  <2>1. PICK id \in Nat \ {0} :
          /\ tracked' = Append(tracked, TrackedBlock(id))
          /\ \/ used' = used
             \/ \E i \in 1..Len(tracked_blocks) : used' = used \cup {i}
    BY <1>6, IterationShape
  <2>2. tracked' \in Seq(TrackedBlocks)
    BY <1>6, <2>1, IterationShape, IterationTypes DEF TypeOK
  <2>3. used' \in SUBSET Nat
    <3>1. used \in SUBSET Nat
      BY DEF TypeOK
    <3>2. used' = used \/ \E i \in Nat : used' = used \cup {i}
      BY <2>1, TrackedTypes
    <3>. QED
      BY <3>1, <3>2
  <2>4. next_id' \in 1..MaxId
    BY <1>6, Constants, IterationShape DEF TypeOK
  <2>. QED
    BY <1>6, <2>2, <2>3, <2>4, IterationShape DEF TypeOK
<1>7. CASE Commit
  BY <1>0, <1>7, TrackedTypes DEF TypeOK, Commit, Return
<1>8. CASE Throw
  BY <1>0, <1>8 DEF TypeOK, Throw, Return
<1>9. CASE UNCHANGED vars
  BY <1>9 DEF TypeOK, vars
<1>. QED
  BY <1>1, <1>2, <1>3, <1>4, <1>5, <1>6, <1>7, <1>8, <1>9 DEF Next

(* The variables keep their types.                                         *)
THEOREM TypeCorrect == Spec => []TypeOK
BY InitTypeOK, NextTypeOK, PTL DEF Spec

-----------------------------------------------------------------------------
(* The inductive invariant.  IdsDistinct and AllBlocksTracked speak of the *)
(* list that is stored; a call replaces it by the local list tracked, so   *)
(* the same has to be known of that list while it grows:                   *)
(*   - the ids below first_id in it were taken over from old blocks whose  *)
(*     position is in used, the others were handed out by this call;       *)
(*   - its k-th block is the k-th block of the text being built.           *)

Follows(list, elements, offset) ==
  \A k \in 1..Len(list) :
     /\ list[k].element = elements[k]
     /\ list[k].source_index = k - 1
     /\ list[k].raw_begin = offset + elements[k].raw_begin
     /\ list[k].raw_end = offset + elements[k].raw_end

NewIds ==
  /\ first_id <= next_id
  /\ \A i \in 1..Len(tracked_blocks) : tracked_blocks[i].id < first_id
  /\ \A k, l \in 1..Len(tracked) : tracked[k].id = tracked[l].id => k = l
  /\ \A k \in 1..Len(tracked) : tracked[k].id < next_id
  /\ \A k \in 1..Len(tracked) :
       tracked[k].id < first_id =>
         \E i \in 1..Len(tracked_blocks) :
            i \in used /\ tracked[k].id = tracked_blocks[i].id

NewBlocks ==
  /\ Len(tracked) <= Len(job.blocks)
  /\ Follows(tracked, job.blocks, job.offset)
  /\ job.text # <<>> => /\ job.blocks = Divided[job.text].blocks
                        /\ job.offset = Divided[job.text].prefix

StoredBlocks ==
  html # <<>> =>
    /\ Len(tracked_blocks) = Len(Divided[html].blocks)
    /\ Follows(tracked_blocks, Divided[html].blocks, Divided[html].prefix)

IInv ==
  /\ TypeOK
  /\ IdsDistinct
  /\ pc = "build" => NewIds
  /\ pc = "build" => NewBlocks
  /\ StoredBlocks

-----------------------------------------------------------------------------
LEMMA Appended ==
  ASSUME NEW S, NEW list \in Seq(S), NEW x \in S
  PROVE  /\ Len(list) \in Nat
         /\ Len(Append(list, x)) = Len(list) + 1
         /\ \A k \in 1..(Len(list) + 1) :
              Append(list, x)[k] = IF k = Len(list) + 1 THEN x ELSE list[k]
OBVIOUS

LEMMA InitIInv == Init => IInv
<1>. SUFFICES ASSUME Init PROVE IInv
  OBVIOUS
<1>1. TypeOK
  BY InitTypeOK
<1>2. IdsDistinct
  BY DEF Init, IdsDistinct
<1>. QED
  BY <1>1, <1>2 DEF Init, IInv, StoredBlocks

(* A call that starts to build a list finds the invariant of the loop.     *)
LEMMA EnterIInv ==
  ASSUME NEW j \in Jobs, EnterBuild(j), TypeOK', IdsDistinct',
         j.text # <<>> => /\ j.blocks = Divided[j.text].blocks
                          /\ j.offset = Divided[j.text].prefix
  PROVE  NewIds' /\ NewBlocks'
<1>1. tracked' = <<>> /\ Len(tracked') = 0 /\ job' = j /\ first_id' = next_id'
  BY DEF EnterBuild
<1>2. next_id' \in Nat /\ Len(j.blocks) \in Nat
  BY MaxIdAssumption DEF TypeOK, Jobs
<1>3. NewIds'
  BY <1>1, <1>2 DEF NewIds, IdsDistinct
<1>4. NewBlocks'
  BY <1>1, <1>2 DEF NewBlocks, Follows
<1>. QED
  BY <1>3, <1>4

(* An iteration takes over an id that no block of the new list has yet, or *)
(* hands out one above all of them.                                        *)
LEMMA IterationIds ==
  ASSUME IInv, Preserve \/ Assign
  PROVE  NewIds'
<1>. DEFINE n == Len(tracked)
<1>1. TypeOK /\ IdsDistinct /\ NewIds /\ Building
  BY IterationShape DEF IInv, Building
<1>2. /\ next_id \in Nat /\ first_id \in Nat /\ n \in Nat
      /\ tracked \in Seq(TrackedBlocks)
  BY <1>1, MaxIdAssumption DEF TypeOK
<1>3. next_id' = next_id + 1 /\ first_id' = first_id
      /\ tracked_blocks' = tracked_blocks
  BY <1>1, IterationShape
<1>4. PICK id \in Nat \ {0} :
        /\ tracked' = Append(tracked, TrackedBlock(id))
        /\ \/ id = next_id /\ used' = used
           \/ \E i \in 1..Len(tracked_blocks) :
                /\ i \notin used
                /\ id = tracked_blocks[i].id
                /\ used' = used \cup {i}
  BY <1>1, IterationShape
<1>5. /\ Len(tracked') = n + 1
      /\ \A k \in 1..(n + 1) :
           tracked'[k].id = IF k = n + 1 THEN id ELSE tracked[k].id
  BY <1>1, <1>2, <1>4, Appended, IterationTypes
<1>6. \A k \in 1..n : tracked[k].id \in Nat
  BY <1>1, TrackedTypes
<1>7. used \subseteq used'
  BY <1>4
<1>8. id < next_id + 1
  BY <1>1, <1>2, <1>4 DEF IdsDistinct
<1>9. \A k \in 1..n : tracked[k].id # id
  <2>1. CASE id = next_id
    BY <1>1, <1>2, <1>6, <2>1 DEF NewIds
  <2>2. ASSUME NEW i \in 1..Len(tracked_blocks), i \notin used,
               id = tracked_blocks[i].id
        PROVE  \A k \in 1..n : tracked[k].id # id
    BY <1>1, <2>2 DEF NewIds, IdsDistinct
  <2>. QED
    BY <1>4, <2>1, <2>2
<1>10. id < first_id =>
         \E i \in 1..Len(tracked_blocks) :
            i \in used' /\ id = tracked_blocks[i].id
  BY <1>1, <1>2, <1>4 DEF NewIds
<1>11. \A k, l \in 1..(n + 1) : tracked'[k].id = tracked'[l].id => k = l
  <2>1. \A k, l \in 1..n : tracked[k].id = tracked[l].id => k = l
    BY <1>1 DEF NewIds
  <2>2. \A k \in 1..(n + 1) : k = n + 1 \/ k \in 1..n
    BY <1>2
  <2>. QED
    BY <1>2, <1>5, <1>9, <2>1, <2>2
<1>12. \A k \in 1..(n + 1) : tracked'[k].id < next_id + 1
  BY <1>1, <1>2, <1>5, <1>6, <1>8 DEF NewIds
<1>13. \A k \in 1..(n + 1) :
         tracked'[k].id < first_id =>
           \E i \in 1..Len(tracked_blocks) :
              i \in used' /\ tracked'[k].id = tracked_blocks[i].id
  BY <1>1, <1>2, <1>5, <1>7, <1>10 DEF NewIds
<1>. QED
  BY <1>1, <1>2, <1>3, <1>5, <1>11, <1>12, <1>13 DEF NewIds

(* An iteration appends the next block of the text.                        *)
LEMMA IterationBlocks ==
  ASSUME IInv, Preserve \/ Assign
  PROVE  NewBlocks'
<1>. DEFINE n == Len(tracked)
<1>1. TypeOK /\ NewBlocks /\ Building
  BY IterationShape DEF IInv, Building
<1>2. n \in Nat /\ tracked \in Seq(TrackedBlocks) /\ n + 1 <= Len(job.blocks)
  BY <1>1 DEF TypeOK, Building, Jobs
<1>3. job' = job
  BY <1>1, IterationShape
<1>4. PICK id \in Nat \ {0} : tracked' = Append(tracked, TrackedBlock(id))
  BY <1>1, IterationShape
<1>5. /\ Len(tracked') = n + 1
      /\ \A k \in 1..(n + 1) :
           tracked'[k] = IF k = n + 1 THEN TrackedBlock(id) ELSE tracked[k]
  BY <1>1, <1>2, <1>4, Appended, IterationTypes
<1>6. Follows(tracked', job.blocks, job.offset)
  <2>. SUFFICES ASSUME NEW k \in 1..(n + 1)
                PROVE  /\ tracked'[k].element = job.blocks[k]
                       /\ tracked'[k].source_index = k - 1
                       /\ tracked'[k].raw_begin
                            = job.offset + job.blocks[k].raw_begin
                       /\ tracked'[k].raw_end
                            = job.offset + job.blocks[k].raw_end
    BY <1>5 DEF Follows
  <2>1. CASE k = n + 1
    BY <1>1, <1>2, <1>5, <2>1, IterationTypes
  <2>2. CASE k \in 1..n
    <3>1. tracked'[k] = tracked[k]
      BY <1>2, <1>5, <2>2
    <3>. QED
      BY <1>1, <2>2, <3>1 DEF NewBlocks, Follows
  <2>. QED
    BY <1>2, <2>1, <2>2
<1>. QED
  BY <1>1, <1>2, <1>3, <1>5, <1>6 DEF NewBlocks

LEMMA NextIInv == IInv /\ [Next]_vars => IInv'
<1>. SUFFICES ASSUME IInv, [Next]_vars PROVE IInv'
  OBVIOUS
<1>0. TypeOK /\ IdsDistinct /\ StoredBlocks /\ TypeOK'
  BY NextTypeOK DEF IInv
<1>c. Clear /\ next_id' = 1 => IdsDistinct' /\ StoredBlocks'
  BY DEF Clear, IdsDistinct, StoredBlocks
<1>u. UNCHANGED <<html, tracked_blocks, next_id>> => IdsDistinct' /\ StoredBlocks'
  BY <1>0 DEF IdsDistinct, StoredBlocks
<1>i. IdsDistinct' /\ StoredBlocks' /\ pc' = "idle" => IInv'
  BY <1>0 DEF IInv
<1>b. IdsDistinct' /\ StoredBlocks' /\ NewIds' /\ NewBlocks' => IInv'
  BY <1>0 DEF IInv
<1>s. IdsDistinct' /\ StoredBlocks' /\ StayIdle /\ pc = "idle" => IInv'
  BY <1>i DEF StayIdle
<1>1. ASSUME NEW t \in Texts, Parse(t) PROVE IInv'
  <2>1. IdsDistinct' /\ StoredBlocks' /\ pc = "idle"
    BY <1>1, <1>c DEF Parse
  <2>2. CASE EnterBuild(DivideJob(t, FALSE))
    <3>1. DivideJob(t, FALSE) \in Jobs
      BY Constants
    <3>. QED
      BY <1>0, <1>b, <2>1, <2>2, <3>1, EnterIInv DEF DivideJob
  <2>. QED
    BY <1>1, <1>s, <2>1, <2>2 DEF Parse
<1>2. ASSUME NEW t \in Texts, Update(t) PROVE IInv'
  <2>1. IdsDistinct' /\ StoredBlocks' /\ pc = "idle"
    BY <1>2, <1>u DEF Update
  <2>2. CASE EnterBuild(DivideJob(t, TRUE))
    <3>1. DivideJob(t, TRUE) \in Jobs
      BY Constants
    <3>. QED
      BY <1>0, <1>b, <2>1, <2>2, <3>1, EnterIInv DEF DivideJob
  <2>. QED
    BY <1>2, <1>s, <2>1, <2>2 DEF Update
<1>3. CASE ParseNull
  BY <1>3, <1>c, <1>s DEF ParseNull
<1>4. CASE UpdateNull
  BY <1>4, <1>u, <1>s DEF UpdateNull
<1>5. ASSUME NEW blocks \in Supplied, SetBlocks(blocks) PROVE IInv'
  <2>1. IdsDistinct' /\ StoredBlocks'
    BY <1>5, <1>c DEF SetBlocks
  <2>2. SuppliedJob(blocks) \in Jobs /\ SuppliedJob(blocks).text = <<>>
    BY Constants DEF SuppliedJob, Jobs
  <2>3. EnterBuild(SuppliedJob(blocks))
    BY <1>5 DEF SetBlocks
  <2>. QED
    BY <1>0, <1>b, <2>1, <2>2, <2>3, EnterIInv
<1>6. CASE Preserve \/ Assign
  <2>1. NewIds' /\ NewBlocks'
    BY <1>6, IterationIds, IterationBlocks
  <2>2. UNCHANGED <<html, tracked_blocks>> /\ next_id' = next_id + 1
    BY <1>0, <1>6, IterationShape
  <2>3. StoredBlocks'
    BY <1>0, <2>2 DEF StoredBlocks
  <2>4. IdsDistinct'
    <3>1. next_id \in Nat
      BY <1>0, MaxIdAssumption DEF TypeOK
    <3>2. \A i \in 1..Len(tracked_blocks) : tracked_blocks[i].id \in Nat
      BY <1>0, TrackedTypes
    <3>3. \A i \in 1..Len(tracked_blocks) : tracked_blocks[i].id < next_id + 1
      <4>1. \A i \in 1..Len(tracked_blocks) : tracked_blocks[i].id < next_id
        BY <1>0 DEF IdsDistinct
      <4>. QED
        BY <3>1, <3>2, <4>1
    <3>4. \A i, j \in 1..Len(tracked_blocks) :
            tracked_blocks[i].id = tracked_blocks[j].id => i = j
      BY <1>0 DEF IdsDistinct
    <3>. QED
      BY <2>2, <3>3, <3>4 DEF IdsDistinct
  <2>. QED
    BY <1>b, <2>1, <2>3, <2>4
<1>7. CASE Commit
  <2>1. NewIds /\ NewBlocks
    BY <1>7 DEF Commit, IInv
  <2>2. IdsDistinct'
    BY <1>7, <2>1 DEF Commit, NewIds, IdsDistinct
  <2>3. StoredBlocks'
    BY <1>7, <2>1 DEF Commit, NewBlocks, StoredBlocks
  <2>. QED
    BY <1>7, <1>i, <2>2, <2>3 DEF Commit, Return
<1>8. CASE Throw
  BY <1>8, <1>u, <1>i DEF Throw, Return
<1>9. CASE UNCHANGED vars
  BY <1>9 DEF vars, IInv, TypeOK, IdsDistinct, NewIds, NewBlocks, StoredBlocks
<1>. QED
  BY <1>1, <1>2, <1>3, <1>4, <1>5, <1>6, <1>7, <1>8, <1>9 DEF Next

-----------------------------------------------------------------------------
LEMMA IInvImplies == IInv => RangesCoverText /\ AllBlocksTracked
<1>. SUFFICES ASSUME IInv, html # <<>> PROVE RangesCoverText /\ AllBlocksTracked
  BY DEF RangesCoverText, AllBlocksTracked
<1>1. /\ html \in Texts
      /\ Len(tracked_blocks) = Len(Divided[html].blocks)
      /\ Follows(tracked_blocks, Divided[html].blocks, Divided[html].prefix)
  BY DEF IInv, TypeOK, StoredBlocks
<1>2. AllBlocksTracked
  BY <1>1 DEF AllBlocksTracked, Follows
<1>3. RangesCoverText
  BY <1>1, SliceAssumption DEF RangesCoverText, Follows
<1>. QED
  BY <1>2, <1>3

LEMMA Invariance == Spec => []IInv
BY InitIInv, NextIInv, PTL DEF Spec

(* GetBlockById() finds at most one block, whatever mix of parses, updates *)
(* and interrupted calls came before.                                      *)
THEOREM IdsStayDistinct == Spec => []IdsDistinct
<1>1. IInv => IdsDistinct
  BY DEF IInv
<1>. QED
  BY <1>1, Invariance, PTL

(* The absolute ranges fit the stored text, also when the last Update      *)
(* failed or was interrupted.                                              *)
THEOREM RangesFitText == Spec => []RangesCoverText
BY IInvImplies, Invariance, PTL

(* The stored blocks are those of the stored text.                         *)
THEOREM BlocksFitText == Spec => []AllBlocksTracked
BY IInvImplies, Invariance, PTL

-----------------------------------------------------------------------------
(* The refinement of StableIds.  The list that is being built and the list *)
(* it replaces are matched:                                                *)
(*   - the ids below first_id were taken over from the old blocks in used, *)
(*     each from a block with the same content;                            *)
(*   - a new block with the content of an old block that is not in used    *)
(*     has such an id, because FindPreservedBlock would have found the old *)
(*     block otherwise.                                                    *)
(* So for one content either all its old blocks are in used, or all its    *)
(* new blocks have an old id.  Parse and SetBlocks do not look for old     *)
(* blocks; they have cleared them.                                         *)

Content(list, k) == ContentOf(list[k].element)

Matched ==
  /\ ~job.preserve => tracked_blocks = <<>>
  /\ used \subseteq 1..Len(tracked_blocks)
  /\ \A i \in used : \E k \in 1..Len(tracked) :
       tracked[k].id = tracked_blocks[i].id /\ Content(tracked, k) = Content(tracked_blocks, i)
  /\ \A k \in 1..Len(tracked) :
       tracked[k].id < first_id =>
         \E i \in used : /\ tracked[k].id = tracked_blocks[i].id
                        /\ Content(tracked, k) = Content(tracked_blocks, i)
  /\ \A k \in 1..Len(tracked), i \in 1..Len(tracked_blocks) :
       Content(tracked, k) = Content(tracked_blocks, i) /\ i \notin used
         => tracked[k].id < first_id

MatchInv == IInv /\ (pc = "build" => Matched)

LEMMA EnterMatched ==
  ASSUME NEW j, EnterBuild(j), ~j.preserve => tracked_blocks' = <<>>
  PROVE  Matched'
<1>1. tracked' = <<>> /\ Len(tracked') = 0 /\ used' = {} /\ job' = j
  BY DEF EnterBuild
<1>2. 1..Len(tracked') = {}
  BY <1>1
<1>. QED
  BY <1>1, <1>2 DEF Matched

(* What both kinds of iteration do to the matching, given what the block   *)
(* that is appended is matched with.                                       *)
LEMMA AppendMatched ==
  ASSUME TypeOK, Matched, Preserve \/ Assign, NEW id \in Nat \ {0}, NEW taken,
         tracked' = Append(tracked, TrackedBlock(id)),
         used' = used \cup taken,
         taken \subseteq 1..Len(tracked_blocks),
         \A i \in taken : /\ tracked_blocks[i].id = id
                          /\ Content(tracked_blocks, i) = ContentOf(Element),
         id < first_id => taken # {},
         \A i \in 1..Len(tracked_blocks) :
            i \notin used /\ Content(tracked_blocks, i) = ContentOf(Element)
              => id < first_id
  PROVE  Matched'
<1>. DEFINE n == Len(tracked)
<1>1. Building /\ UNCHANGED <<tracked_blocks, job, first_id>>
  BY IterationShape
<1>2. n \in Nat /\ tracked \in Seq(TrackedBlocks)
  BY DEF TypeOK
<1>3. /\ Len(tracked') = n + 1
      /\ \A k \in 1..n : tracked'[k] = tracked[k]
      /\ tracked'[n + 1].id = id
      /\ tracked'[n + 1].element = Element
  BY <1>1, <1>2, Appended, IterationTypes DEF Element
<1>4. \A k \in 1..n : /\ Content(tracked', k) = Content(tracked, k)
                     /\ k \in 1..(n + 1)
  BY <1>2, <1>3 DEF Content
<1>5. Content(tracked', n + 1) = ContentOf(Element) /\ n + 1 \in 1..(n + 1)
  BY <1>2, <1>3 DEF Content
<1>7. \A k \in 1..(n + 1) : k = n + 1 \/ k \in 1..n
  BY <1>2
<1>8. \A i \in used' : \E k \in 1..(n + 1) :
        /\ tracked'[k].id = tracked_blocks[i].id
        /\ Content(tracked', k) = Content(tracked_blocks, i)
  BY <1>3, <1>4, <1>5 DEF Matched
<1>9. \A k \in 1..(n + 1) :
        tracked'[k].id < first_id =>
          \E i \in used' : /\ tracked'[k].id = tracked_blocks[i].id
                          /\ Content(tracked', k) = Content(tracked_blocks, i)
  <2>1. ASSUME NEW k \in 1..n, tracked'[k].id < first_id
        PROVE  \E i \in used' :
                 /\ tracked'[k].id = tracked_blocks[i].id
                 /\ Content(tracked', k) = Content(tracked_blocks, i)
    BY <1>3, <1>4, <2>1 DEF Matched
  <2>2. ASSUME id < first_id
        PROVE  \E i \in used' :
                 /\ tracked'[n + 1].id = tracked_blocks[i].id
                 /\ Content(tracked', n + 1) = Content(tracked_blocks, i)
    BY <1>3, <1>5, <2>2
  <2>. QED
    BY <1>3, <1>7, <2>1, <2>2
<1>10. \A k \in 1..(n + 1), i \in 1..Len(tracked_blocks) :
         Content(tracked', k) = Content(tracked_blocks, i) /\ i \notin used'
           => tracked'[k].id < first_id
  BY <1>3, <1>4, <1>5, <1>7 DEF Matched
<1>11. /\ ~job.preserve => tracked_blocks = <<>>
       /\ used' \subseteq 1..Len(tracked_blocks)
  BY DEF Matched
<1>. QED
  BY <1>1, <1>3, <1>8, <1>9, <1>10, <1>11 DEF Matched

(* FindPreservedBlock returns a block with the content that is looked for, *)
(* by its first criterion too: the same raw text has the same value.       *)
LEMMA CandidatesFacts ==
  ASSUME TypeOK, Building
  PROVE  /\ \A i \in Candidates :
              /\ i \in 1..Len(tracked_blocks)
              /\ i \notin used
              /\ Content(tracked_blocks, i) = ContentOf(Element)
         /\ Candidates = {} =>
              \A i \in 1..Len(tracked_blocks) :
                 i \in used \/ Content(tracked_blocks, i) # ContentOf(Element)
<1>1. \A i \in 1..Len(tracked_blocks) : tracked_blocks[i].element \in Elements
  BY TrackedTypes
<1>2. Element \in Elements
  BY IterationTypes
<1>3. DOMAIN tracked_blocks = 1..Len(tracked_blocks)
  BY DEF TypeOK
<1>4. \A i \in 1..Len(tracked_blocks) :
        Content(tracked_blocks, i) = ContentOf(Element) <=> SameContent(i)
  BY DEF Content, ContentOf, SameContent
<1>5. \A i \in 1..Len(tracked_blocks) : SameRange(i) => SameContent(i)
  BY <1>1, <1>2, ValueAssumption DEF SameRange, SameContent
<1>. QED
  BY <1>3, <1>4, <1>5 DEF Candidates, AtSameRange, WithSameContent, Unused

LEMMA PreserveMatched ==
  ASSUME MatchInv, Preserve
  PROVE  Matched'
<1>1. TypeOK /\ IdsDistinct /\ NewIds /\ Matched /\ Building
  BY DEF MatchInv, IInv, Preserve, Building
<1>2. PICK i \in Candidates :
        /\ tracked' = Append(tracked, TrackedBlock(tracked_blocks[i].id))
        /\ used' = used \cup {i}
  BY DEF Preserve
<1>3. /\ i \in 1..Len(tracked_blocks)
      /\ Content(tracked_blocks, i) = ContentOf(Element)
  BY <1>1, <1>2, CandidatesFacts
<1>4. PICK id \in Nat \ {0} : id = tracked_blocks[i].id
  BY <1>1, <1>3, TrackedTypes
<1>5. id < first_id
  BY <1>1, <1>3, <1>4 DEF NewIds
<1>6. PICK taken : taken = {i}
  OBVIOUS
<1>7. /\ taken \subseteq 1..Len(tracked_blocks)
      /\ \A j \in taken : /\ tracked_blocks[j].id = id
                          /\ Content(tracked_blocks, j) = ContentOf(Element)
      /\ id < first_id => taken # {}
      /\ tracked' = Append(tracked, TrackedBlock(id))
      /\ used' = used \cup taken
  BY <1>2, <1>3, <1>4, <1>6
<1>. QED
  BY <1>1, <1>5, <1>7, AppendMatched

LEMMA AssignMatched ==
  ASSUME MatchInv, Assign
  PROVE  Matched'
<1>1. TypeOK /\ NewIds /\ Matched /\ Building
  BY DEF MatchInv, IInv, Assign, Building
<1>2. /\ tracked' = Append(tracked, TrackedBlock(next_id))
      /\ used' = used \cup {}
      /\ job.preserve => Candidates = {}
  BY DEF Assign
<1>3. PICK id \in Nat \ {0} : id = next_id
  BY <1>1, MaxIdAssumption DEF TypeOK
<1>4. first_id \in Nat /\ ~(id < first_id)
  BY <1>1, <1>3, MaxIdAssumption DEF TypeOK, NewIds
<1>5. \A i \in 1..Len(tracked_blocks) :
        i \in used \/ Content(tracked_blocks, i) # ContentOf(Element)
  <2>1. CASE job.preserve
    BY <1>1, <1>2, <2>1, CandidatesFacts
  <2>2. CASE ~job.preserve
    <3>1. Len(tracked_blocks) = 0
      BY <1>1, <2>2 DEF Matched
    <3>. QED
      BY <3>1
  <2>. QED
    BY <2>1, <2>2
<1>6. PICK taken : taken = {}
  OBVIOUS
<1>7. /\ taken \subseteq 1..Len(tracked_blocks)
      /\ \A i \in taken : /\ tracked_blocks[i].id = id
                          /\ Content(tracked_blocks, i) = ContentOf(Element)
      /\ id < first_id => taken # {}
      /\ tracked' = Append(tracked, TrackedBlock(id))
      /\ used' = used \cup taken
  BY <1>2, <1>3, <1>4, <1>6
<1>. QED
  BY <1>1, <1>5, <1>7, AppendMatched

LEMMA NextMatchInv == MatchInv /\ [Next]_vars => MatchInv'
<1>. SUFFICES ASSUME MatchInv, [Next]_vars PROVE MatchInv'
  OBVIOUS
<1>0. IInv'
  BY NextIInv DEF MatchInv
<1>i. pc' = "idle" => MatchInv'
  BY <1>0 DEF MatchInv
<1>b. Matched' => MatchInv'
  BY <1>0 DEF MatchInv
<1>s. StayIdle /\ pc = "idle" => MatchInv'
  BY <1>i DEF StayIdle
<1>1. ASSUME NEW t \in Texts, Parse(t) PROVE MatchInv'
  <2>1. CASE EnterBuild(DivideJob(t, FALSE))
    BY <1>1, <1>b, <2>1, EnterMatched DEF Parse, Clear
  <2>. QED
    BY <1>1, <1>s, <2>1 DEF Parse
<1>2. ASSUME NEW t \in Texts, Update(t) PROVE MatchInv'
  <2>1. CASE EnterBuild(DivideJob(t, TRUE))
    <3>1. DivideJob(t, TRUE).preserve
      BY DEF DivideJob
    <3>. QED
      BY <1>b, <2>1, <3>1, EnterMatched
  <2>. QED
    BY <1>2, <1>s, <2>1 DEF Update
<1>3. CASE ParseNull
  BY <1>3, <1>s DEF ParseNull
<1>4. CASE UpdateNull
  BY <1>4, <1>s DEF UpdateNull
<1>5. ASSUME NEW blocks \in Supplied, SetBlocks(blocks) PROVE MatchInv'
  BY <1>5, <1>b, EnterMatched DEF SetBlocks, Clear
<1>6. CASE Preserve
  BY <1>6, <1>b, PreserveMatched
<1>7. CASE Assign
  BY <1>7, <1>b, AssignMatched
<1>8. CASE Commit
  BY <1>8, <1>i DEF Commit, Return
<1>9. CASE Throw
  BY <1>9, <1>i DEF Throw, Return
<1>10. CASE UNCHANGED vars
  <2>1. pc = "build" => Matched'
    BY <1>10 DEF vars, MatchInv, Matched
  <2>. QED
    BY <1>0, <1>10, <2>1 DEF MatchInv, vars
<1>. QED
  BY <1>1, <1>2, <1>3, <1>4, <1>5, <1>6, <1>7, <1>8, <1>9, <1>10 DEF Next

-----------------------------------------------------------------------------
LEMMA InitMatchInv == Init => MatchInv
BY InitIInv DEF MatchInv, Init

(* The naming of a list of blocks with distinct ids.                       *)
LEMMA NamingFacts ==
  ASSUME NEW list,
         \A i, j \in 1..Len(list) : list[i].id = list[j].id => i = j
  PROVE  /\ DOMAIN Naming(list) = IdsOf(list)
         /\ \A i \in 1..Len(list) : /\ list[i].id \in IdsOf(list)
                                   /\ Naming(list)[list[i].id] = Content(list, i)
         /\ \A id \in IdsOf(list) : \E i \in 1..Len(list) : list[i].id = id
<1>1. DOMAIN Naming(list) = IdsOf(list)
  BY DEF Naming
<1>2. \A id \in IdsOf(list) : \E i \in 1..Len(list) : list[i].id = id
  BY DEF IdsOf
<1>3. ASSUME NEW i \in 1..Len(list)
      PROVE  /\ list[i].id \in IdsOf(list)
             /\ Naming(list)[list[i].id] = Content(list, i)
  <2>1. list[i].id \in IdsOf(list)
    BY DEF IdsOf
  <2>2. (CHOOSE j \in 1..Len(list) : list[j].id = list[i].id) = i
    OBVIOUS
  <2>. QED
    BY <2>1, <2>2 DEF Naming, Content
<1>. QED
  BY <1>1, <1>2, <1>3

LEMMA EmptyNaming == Naming(<<>>) = [id \in {} |-> {}]
<1>1. IdsOf(<<>>) = {}
  BY DEF IdsOf
<1>. QED
  BY <1>1 DEF Naming

(* Of two finite sets one of which is part of the other, the smaller is    *)
(* their intersection.                                                     *)
LEMMA SmallerIsCommon ==
  ASSUME NEW A, NEW B, IsFiniteSet(A), IsFiniteSet(B),
         A \subseteq B \/ B \subseteq A
  PROVE  Abstract!Cardinality(A \cap B)
           = Abstract!Sets!Min({Abstract!Cardinality(A),
                                Abstract!Cardinality(B)})
<1>1. \A S : Abstract!Cardinality(S) = Cardinality(S)
  BY DEF Abstract!Cardinality, Cardinality
<1>2. PICK a \in Nat : a = Cardinality(A)
  BY FS_CardinalityType
<1>3. PICK b \in Nat : b = Cardinality(B)
  BY FS_CardinalityType
<1>4. PICK c \in Nat : /\ c = Cardinality(A \cap B)
                       /\ (c = a /\ a <= b) \/ (c = b /\ b <= a)
  <2>1. CASE A \subseteq B
    <3>1. A \cap B = A /\ A \in SUBSET B
      BY <2>1
    <3>. QED
      BY <1>2, <1>3, <3>1, FS_Subset
  <2>2. CASE B \subseteq A
    <3>1. A \cap B = B /\ B \in SUBSET A
      BY <2>2
    <3>. QED
      BY <1>2, <1>3, <3>1, FS_Subset
  <2>. QED
    BY <2>1, <2>2
<1>5. Abstract!Sets!Min({a, b}) = c
  BY <1>4 DEF Abstract!Sets!Min
<1>. QED
  BY <1>1, <1>2, <1>3, <1>4, <1>5

(* The two lists at the end of a call, as Revise sees them.                *)
LEMMA CommitRevises ==
  ASSUME MatchInv, Commit
  PROVE  Abstract!Revise(Live')
<1>. DEFINE old == Naming(tracked_blocks)
            new == Naming(tracked)
<1>1. TypeOK /\ IdsDistinct /\ NewIds /\ Matched
  BY DEF MatchInv, IInv, Commit
<1>2. /\ Live = old /\ Live' = new
      /\ Spent = 1..(first_id - 1) /\ Spent' = 1..(next_id - 1)
  BY DEF Live, Spent, Commit, Return
<1>3. next_id \in Nat /\ first_id \in Nat /\ first_id <= next_id
  BY <1>1, MaxIdAssumption DEF TypeOK, NewIds
<1>4. /\ DOMAIN old = IdsOf(tracked_blocks)
      /\ \A i \in 1..Len(tracked_blocks) :
           /\ tracked_blocks[i].id \in DOMAIN old
           /\ old[tracked_blocks[i].id] = Content(tracked_blocks, i)
      /\ \A id \in DOMAIN old :
           \E i \in 1..Len(tracked_blocks) : tracked_blocks[i].id = id
  BY <1>1, NamingFacts DEF IdsDistinct
<1>5. /\ DOMAIN new = IdsOf(tracked)
      /\ \A k \in 1..Len(tracked) :
           /\ tracked[k].id \in DOMAIN new
           /\ new[tracked[k].id] = Content(tracked, k)
      /\ \A id \in DOMAIN new :
           \E k \in 1..Len(tracked) : tracked[k].id = id
  BY <1>1, NamingFacts DEF NewIds
<1>6. /\ \A id \in DOMAIN old : id \in Nat \ {0} /\ id < first_id
      /\ \A id \in DOMAIN new : id \in Nat \ {0} /\ id < next_id
  BY <1>1, <1>4, <1>5, TrackedTypes DEF NewIds
<1>7. ASSUME NEW id \in DOMAIN new
      PROVE  IF id \in DOMAIN old THEN new[id] = old[id]
             ELSE id \notin 1..(first_id - 1)
  <2>1. PICK k \in 1..Len(tracked) : tracked[k].id = id
    BY <1>5
  <2>2. CASE id < first_id
    <3>1. PICK i \in 1..Len(tracked_blocks) :
            /\ id = tracked_blocks[i].id
            /\ Content(tracked, k) = Content(tracked_blocks, i)
      BY <1>1, <2>1, <2>2 DEF Matched
    <3>. QED
      BY <1>4, <1>5, <2>1, <3>1
  <2>3. CASE ~(id < first_id)
    BY <1>3, <1>6, <2>3
  <2>. QED
    BY <2>2, <2>3
<1>8. ASSUME NEW c
      PROVE  \/ Abstract!Holding(new, c) \subseteq Abstract!Holding(old, c)
             \/ Abstract!Holding(old, c) \subseteq Abstract!Holding(new, c)
  <2>1. CASE \E i \in 1..Len(tracked_blocks) :
               i \notin used /\ Content(tracked_blocks, i) = c
    <3>1. ASSUME NEW id \in DOMAIN new, new[id] = c
          PROVE  id \in DOMAIN old /\ old[id] = c
      <4>1. PICK k \in 1..Len(tracked) : tracked[k].id = id
        BY <1>5
      <4>2. id < first_id
        BY <1>1, <1>5, <2>1, <3>1, <4>1 DEF Matched
      <4>3. PICK i \in 1..Len(tracked_blocks) :
              /\ id = tracked_blocks[i].id
              /\ Content(tracked, k) = Content(tracked_blocks, i)
        BY <1>1, <4>1, <4>2 DEF Matched
      <4>. QED
        BY <1>4, <1>5, <3>1, <4>1, <4>3
    <3>. QED
      BY <3>1 DEF Abstract!Holding
  <2>2. CASE \A i \in 1..Len(tracked_blocks) :
               Content(tracked_blocks, i) = c => i \in used
    <3>1. ASSUME NEW id \in DOMAIN old, old[id] = c
          PROVE  id \in DOMAIN new /\ new[id] = c
      <4>1. PICK i \in 1..Len(tracked_blocks) : tracked_blocks[i].id = id
        BY <1>4
      <4>2. i \in used
        BY <1>4, <2>2, <3>1, <4>1
      <4>3. PICK k \in 1..Len(tracked) :
              /\ tracked[k].id = id
              /\ Content(tracked, k) = Content(tracked_blocks, i)
        BY <1>1, <4>1, <4>2 DEF Matched
      <4>. QED
        BY <1>4, <1>5, <3>1, <4>1, <4>3
    <3>. QED
      BY <3>1 DEF Abstract!Holding
  <2>. QED
    BY <2>1, <2>2
<1>9. ASSUME NEW c
      PROVE  /\ IsFiniteSet(Abstract!Holding(new, c))
             /\ IsFiniteSet(Abstract!Holding(old, c))
  <2>1. IsFiniteSet(0..next_id)
    BY <1>3, FS_Interval
  <2>2. /\ Abstract!Holding(new, c) \in SUBSET (0..next_id)
        /\ Abstract!Holding(old, c) \in SUBSET (0..next_id)
    BY <1>3, <1>6 DEF Abstract!Holding
  <2>. QED
    BY <2>1, <2>2, FS_Subset
<1>10. \A c : Abstract!Cardinality(Abstract!Holding(new, c) \cap
                                   Abstract!Holding(old, c))
               = Abstract!Sets!Min(
                   {Abstract!Cardinality(Abstract!Holding(new, c)),
                    Abstract!Cardinality(Abstract!Holding(old, c))})
  BY <1>8, <1>9, SmallerIsCommon
<1>11. /\ 1..(first_id - 1) \subseteq 1..(next_id - 1)
       /\ DOMAIN new \subseteq 1..(next_id - 1)
  BY <1>3, <1>6
<1>. HIDE DEF old, new
<1>. QED
  BY <1>2, <1>7, <1>10, <1>11 DEF Abstract!Revise

LEMMA InitAbstract == Init => Abstract!Init
BY EmptyNaming DEF Init, Abstract!Init, Live, Spent

(* Every step is a step of StableIds or invisible to it.                   *)
LEMMA StepAbstract ==
  MatchInv /\ [Next]_vars => [Abstract!Next]_(Abstract!vars)
<1>. SUFFICES ASSUME MatchInv, [Next]_vars
              PROVE  Abstract!Next \/ UNCHANGED <<Live, Spent>>
  BY DEF Abstract!vars
<1>0. next_id \in Nat /\ first_id \in Nat
  BY MaxIdAssumption DEF MatchInv, IInv, TypeOK
<1>l. tracked_blocks' = tracked_blocks => Live' = Live
  BY DEF Live
<1>r. ASSUME tracked_blocks' = <<>>, next_id' = 1,
             pc' = "build" => first_id' = next_id'
      PROVE  Abstract!Next
  <2>1. Live' = [id \in {} |-> {}]
    BY <1>r, EmptyNaming DEF Live
  <2>2. Spent' = {}
    BY <1>r DEF Spent
  <2>. QED
    BY <2>1, <2>2 DEF Abstract!Next, Abstract!Reset
<1>u. ASSUME tracked_blocks' = tracked_blocks, next_id' = next_id, pc = "idle",
             pc' = "build" => first_id' = next_id'
      PROVE  UNCHANGED <<Live, Spent>>
  BY <1>l, <1>u DEF Spent
<1>1. ASSUME NEW t \in Texts, Parse(t) PROVE Abstract!Next
  BY <1>1, <1>r DEF Parse, Clear, EnterBuild, StayIdle
<1>2. ASSUME NEW t \in Texts, Update(t) PROVE UNCHANGED <<Live, Spent>>
  BY <1>2, <1>u DEF Update, EnterBuild, StayIdle
<1>3. CASE ParseNull
  BY <1>3, <1>r DEF ParseNull, Clear, StayIdle
<1>4. CASE UpdateNull
  BY <1>4, <1>u DEF UpdateNull, StayIdle
<1>5. ASSUME NEW blocks \in Supplied, SetBlocks(blocks) PROVE Abstract!Next
  BY <1>5, <1>r DEF SetBlocks, Clear, EnterBuild
<1>6. CASE Preserve \/ Assign
  <2>1. UNCHANGED <<tracked_blocks, first_id, pc>> /\ pc = "build"
    BY <1>6, IterationShape DEF Building, MatchInv, IInv
  <2>. QED
    BY <1>l, <2>1 DEF Spent
<1>7. CASE Commit
  <2>1. Abstract!Revise(Live')
    BY <1>7, CommitRevises
  <2>. QED
    BY <2>1 DEF Abstract!Next, Abstract!ReviseStep
<1>8. CASE Throw
  <2>1. NewIds /\ pc = "build"
    BY <1>8 DEF MatchInv, IInv, Throw
  <2>2. Live' = Live
    BY <1>8, <1>l DEF Throw
  <2>3. Spent = 1..(first_id - 1) /\ Spent' = 1..(next_id - 1)
    BY <1>8 DEF Spent, Throw, Return
  <2>4. Spent \subseteq Spent'
    BY <1>0, <2>1, <2>3 DEF NewIds
  <2>. QED
    BY <2>2, <2>4 DEF Abstract!Next, Abstract!Waste
<1>9. CASE UNCHANGED vars
  BY <1>9 DEF vars, Live, Spent
<1>. QED
  BY <1>1, <1>2, <1>3, <1>4, <1>5, <1>6, <1>7, <1>8, <1>9 DEF Next

(* The tracker implements StableIds: an id that survives an Update denotes *)
(* a block with the same tag, raw text and value, an id that was dropped   *)
(* or wasted never comes back before the next reset, and no id is dropped  *)
(* while a block with its content gets a new one.                          *)
THEOREM IdsStayStable == Spec => IdsAreStable
<1>1. Init => MatchInv /\ Abstract!Init
  BY InitMatchInv, InitAbstract
<1>2. MatchInv /\ [Next]_vars => MatchInv'
  BY NextMatchInv
<1>3. MatchInv /\ [Next]_vars => [Abstract!Next]_(Abstract!vars)
  BY StepAbstract
<1>. QED
  BY <1>1, <1>2, <1>3, PTL DEF Spec, IdsAreStable, Abstract!Spec

-----------------------------------------------------------------------------
(* Sums.                                                                   *)
SumOf(f, sum, n) ==
  sum = [i \in 0..n |-> IF i = 0 THEN 0 ELSE sum[i - 1] + f[i]]

Sums(a, f, n) == a[0] = 0 /\ \A i \in 1..n : a[i] = a[i - 1] + f[i]

LEMMA TotalIs ==
  ASSUME NEW n \in Nat, NEW f \in [1..n -> Nat]
  PROVE  \E sum \in [0..n -> Nat] : Sums(sum, f, n) /\ Total(f) = sum[n]
  <1>1. PICK step : step = [i \in 1..n |-> [x \in Nat |-> x + f[i]]]
    OBVIOUS
  <1>2. step \in [1..n -> [Nat -> Nat]]
    BY <1>1
  <1>3. PICK g : Rounds(g, Nat, 0, step, n)
    BY <1>2, RoundsExist
  <1>4. /\ g \in [0..n -> Nat] /\ g[0] = 0
        /\ \A i \in 1..n : g[i] = step[i][g[i - 1]]
    BY <1>3 DEF Rounds
  <1>5. ASSUME NEW i \in 0..n PROVE g[i] = IF i = 0 THEN 0 ELSE g[i - 1] + f[i]
    <2>1. CASE i = 0
      BY <1>4, <2>1
    <2>2. CASE i # 0
      <3>1. i \in 1..n /\ i - 1 \in 0..n /\ g[i - 1] \in Nat
        BY <1>4, <2>2
      <3> QED
        BY <1>1, <1>4, <2>2, <3>1
    <2> QED
      BY <2>1, <2>2
  <1>6. SumOf(f, g, n)
    BY <1>4, <1>5 DEF SumOf
  <1>7. PICK h : h = CHOOSE s : SumOf(f, s, n)
    OBVIOUS
  <1>8. SumOf(f, h, n)
    BY <1>6, <1>7
  <1>9. f \in Seq(Nat) /\ Len(f) = n
    OBVIOUS
  <1>10. Total(f) = h[n]
    BY <1>7, <1>9, Zenon DEF Total, SumOf
  <1>11. \A i \in 0..n : h[i] = IF i = 0 THEN 0 ELSE h[i - 1] + f[i]
    BY <1>8 DEF SumOf
  <1>12. h[0] = 0 /\ \A i \in 1..n : h[i] = h[i - 1] + f[i]
    <2>1. 0 \in 0..n
      OBVIOUS
    <2>2. \A i \in 1..n : i \in 0..n /\ i # 0
      OBVIOUS
    <2> QED
      BY <1>11, <2>1, <2>2
  <1>13. h \in [0..n -> Nat]
    <2> DEFINE S == {i \in 0..n : h[i] \in Nat}
    <2>1. 0 \in S
      BY <1>12
    <2>2. ASSUME NEW i \in 1..n, i - 1 \in S PROVE i \in S
      BY <1>12, <2>2
    <2>3. 0..n \subseteq S
      <3> HIDE DEF S
      <3> QED
        BY <2>1, <2>2, CountUp
    <2> QED
      BY <1>8, <2>3 DEF SumOf
  <1> QED
    BY <1>10, <1>12, <1>13 DEF Sums

(* Two sums that begin alike.                                              *)
Alike(f, g, n) == \A i \in 1..n : f[i] = g[i]

LEMMA SumsAgree ==
  ASSUME NEW n \in Nat, NEW a, NEW b, NEW f, NEW g,
         Sums(a, f, n), Sums(b, g, n), Alike(f, g, n)
  PROVE  \A i \in 0..n : a[i] = b[i]
  <1> DEFINE S == {i \in 0..n : a[i] = b[i]}
  <1>1. 0 \in S
    BY DEF Sums
  <1>2. ASSUME NEW i \in 1..n, i - 1 \in S PROVE i \in S
    BY <1>2 DEF Sums, Alike
  <1>3. 0..n \subseteq S
    <2> HIDE DEF S
    <2> QED
      BY <1>1, <1>2, CountUp
  <1> QED
    BY <1>3

(* The sum of a sequence, and of one with an element more.                 *)
LEMMA TotalFacts ==
  ASSUME NEW f \in Seq(Nat)
  PROVE  /\ Total(f) \in Nat
         /\ \A x \in Nat : Total(Append(f, x)) = Total(f) + x
         /\ f = <<>> => Total(f) = 0
  <1>1. PICK n \in Nat : n = Len(f)
    OBVIOUS
  <1>2. f \in [1..n -> Nat]
    BY <1>1
  <1>a. n \in 0..n
    OBVIOUS
  <1>3. PICK a \in [0..n -> Nat] : Sums(a, f, n) /\ Total(f) = a[n]
    BY <1>2, TotalIs
  <1>4. ASSUME NEW x \in Nat PROVE Total(Append(f, x)) = Total(f) + x
    <2>1. PICK m \in Nat : m = n + 1
      OBVIOUS
    <2>2. PICK g : g = Append(f, x)
      OBVIOUS
    <2>3. /\ g \in Seq(Nat) /\ Len(g) = m /\ g[m] = x
          /\ \A i \in 1..n : g[i] = f[i]
      BY <1>1, <2>1, <2>2
    <2>4. g \in [1..m -> Nat]
      BY <2>3
    <2>5. PICK b \in [0..m -> Nat] : Sums(b, g, m) /\ Total(g) = b[m]
      BY <2>4, TotalIs
    <2>6. Sums(b, g, n)
      BY <2>1, <2>5 DEF Sums
    <2>7. a[n] = b[n]
      <3>0. Alike(f, g, n)
        BY <2>3 DEF Alike
      <3>1. \A i \in 0..n : a[i] = b[i]
        BY <1>3, <2>6, <3>0, SumsAgree
      <3> QED
        BY <1>a, <3>1
    <2>8. m \in 1..m /\ m - 1 = n
      BY <2>1
    <2>9. b[m] = b[n] + g[m]
      BY <2>5, <2>8 DEF Sums
    <2> QED
      BY <1>3, <2>2, <2>3, <2>5, <2>7, <2>9
  <1> QED
    BY <1>a, <1>1, <1>3, <1>4 DEF Sums

-----------------------------------------------------------------------------
(* What libxml2 makes of the items, one at a time.                         *)
ReadsOf(items, read, n) ==
  read = [i \in 0..n |-> IF i = 0 THEN <<>> ELSE AddNode(read[i - 1], items[i])]

LEMMA ItemTypes ==
  ASSUME NEW x \in Items
  PROVE  /\ x.k \in ItemKinds /\ x.n \in DOMAIN NameSize \cup {""}
         /\ x.t \in Seq(DOMAIN CharSize) /\ x.a \in AttributeLists
  BY DEF Items

(* The three things an item can do to the nodes before it: nothing, make   *)
(* the last of them longer, or follow them.                                *)
Dropped(x) == x.k = "decl" \/ (x.k = "text" /\ x.t = <<>>)
Joins(P, x) == x.k = "text" /\ x.t # <<>> /\ P # <<>> /\ P[Len(P)].k = "text"

LEMMA AddNodeCases ==
  ASSUME NEW P \in Seq(Items), NEW x \in Items
  PROVE  /\ Dropped(x) => AddNode(P, x) = P
         /\ Joins(P, x) => AddNode(P, x) = [P EXCEPT ![Len(P)].t = @ \o x.t]
         /\ ~Dropped(x) /\ ~Joins(P, x) => AddNode(P, x) = Append(P, x)
         /\ ~(Dropped(x) /\ Joins(P, x))
  BY DEF AddNode, Dropped, Joins

Extended(P, Q, n, x) ==
  /\ Q \in Seq(Items) /\ Len(Q) = n /\ n \in 1..n
  /\ \A i \in 1..n : /\ P[i].k = Q[i].k /\ P[i].n = Q[i].n /\ P[i].a = Q[i].a
                     /\ i # n => P[i] = Q[i]
  /\ Q[n].t = P[n].t \o x.t

LEMMA JoinedNode ==
  ASSUME NEW P \in Seq(Items), NEW x \in Items, Joins(P, x),
         NEW n \in Nat, n = Len(P), NEW Q, Q = AddNode(P, x)
  PROVE  Extended(P, Q, n, x)
  <1>1. n \in 1..n
    BY DEF Joins
  <1>2. PICK y : y = P[n]
    OBVIOUS
  <1>3. y \in Items /\ P[n] \in Items
    BY <1>1, <1>2
  <1>4. PICK z : z = [y EXCEPT !.t = @ \o x.t]
    OBVIOUS
  <1>5. z \in Items /\ z.k = y.k /\ z.n = y.n /\ z.a = y.a /\ z.t = y.t \o x.t
    <2>1. y.t \in Seq(DOMAIN CharSize) /\ x.t \in Seq(DOMAIN CharSize)
      BY <1>3, ItemTypes
    <2>2. y.t \o x.t \in Seq(DOMAIN CharSize)
      BY <2>1
    <2> QED
      BY <1>3, <1>4, <2>2 DEF Items
  <1>6. Q = [P EXCEPT ![n] = z]
    BY <1>2, <1>4, AddNodeCases
  <1>7. Q \in Seq(Items) /\ Len(Q) = n /\ \A i \in 1..n : Q[i] = IF i = n THEN z ELSE P[i]
    BY <1>1, <1>5, <1>6
  <1> QED
    BY <1>1, <1>2, <1>5, <1>7 DEF Extended

LEMMA AddNodeType ==
  ASSUME NEW P \in Seq(Items), NEW x \in Items
  PROVE  AddNode(P, x) \in Seq(Items)
  <1>1. CASE Joins(P, x)
    <2>1. PICK n \in Nat : n = Len(P)
      OBVIOUS
    <2>2. PICK Q : Q = AddNode(P, x)
      OBVIOUS
    <2> QED
      BY <1>1, <2>1, <2>2, JoinedNode DEF Extended
  <1>2. CASE ~Joins(P, x)
    <2>1. Append(P, x) \in Seq(Items)
      OBVIOUS
    <2>2. AddNode(P, x) = P \/ AddNode(P, x) = Append(P, x)
      BY <1>2, AddNodeCases
    <2> QED
      BY <2>1, <2>2
  <1> QED
    BY <1>1, <1>2

InTurn(a, items, n) == a[0] = <<>> /\ \A i \in 1..n : a[i] = AddNode(a[i - 1], items[i])

LEMMA NodesIs ==
  ASSUME NEW items \in Seq(Items), NEW n \in Nat, n = Len(items)
  PROVE  \E read \in [0..n -> Seq(Items)] : InTurn(read, items, n) /\ Nodes(items) = read[n]
  <1>z. PICK D : D = Seq(Items)
    OBVIOUS
  <1>y. /\ <<>> \in D
        /\ \A i \in 1..n : items[i] \in Items
    BY <1>z
  <1>0. \A P \in D, i \in 1..n : AddNode(P, items[i]) \in D
    BY <1>z, <1>y, AddNodeType
  <1>1. PICK step : step = [i \in 1..n |-> [P \in D |-> AddNode(P, items[i])]]
    OBVIOUS
  <1>2. step \in [1..n -> [D -> D]]
    BY <1>0, <1>1
  <1>3. PICK g : Rounds(g, D, <<>>, step, n)
    BY <1>y, <1>2, RoundsExist
  <1>4. /\ g \in [0..n -> D] /\ g[0] = <<>>
        /\ \A i \in 1..n : g[i] = step[i][g[i - 1]]
    BY <1>3 DEF Rounds
  <1>5. ASSUME NEW i \in 0..n PROVE g[i] = IF i = 0 THEN <<>> ELSE AddNode(g[i - 1], items[i])
    <2>1. CASE i = 0
      BY <1>4, <2>1
    <2>2. CASE i # 0
      <3>1. i \in 1..n /\ i - 1 \in 0..n /\ g[i - 1] \in D
        BY <1>4, <2>2
      <3> QED
        BY <1>1, <1>4, <2>2, <3>1
    <2> QED
      BY <2>1, <2>2
  <1>6. ReadsOf(items, g, n)
    BY <1>4, <1>5 DEF ReadsOf
  <1>7. PICK h : h = CHOOSE s : ReadsOf(items, s, n)
    OBVIOUS
  <1>8. ReadsOf(items, h, n)
    BY <1>6, <1>7
  <1>10. Nodes(items) = h[n]
    BY <1>7, Zenon DEF Nodes, ReadsOf
  <1>11. \A i \in 0..n : h[i] = IF i = 0 THEN <<>> ELSE AddNode(h[i - 1], items[i])
    BY <1>8 DEF ReadsOf
  <1>12. h[0] = <<>> /\ \A i \in 1..n : h[i] = AddNode(h[i - 1], items[i])
    <2>1. 0 \in 0..n
      OBVIOUS
    <2>2. \A i \in 1..n : i \in 0..n /\ i # 0
      OBVIOUS
    <2> QED
      BY <1>11, <2>1, <2>2
  <1>13. h \in [0..n -> D]
    <2> DEFINE S == {i \in 0..n : h[i] \in D}
    <2>1. 0 \in S
      BY <1>y, <1>12
    <2>2. ASSUME NEW i \in 1..n, i - 1 \in S PROVE i \in S
      BY <1>0, <1>12, <2>2
    <2>3. 0..n \subseteq S
      <3> HIDE DEF S
      <3> QED
        BY <2>1, <2>2, CountUp
    <2> QED
      BY <1>8, <2>3 DEF ReadsOf
  <1> QED
    BY <1>z, <1>10, <1>12, <1>13 DEF InTurn

LEMMA NodesFacts ==
  ASSUME NEW items \in Seq(Items)
  PROVE  /\ Nodes(items) \in Seq(Items)
         /\ \A x \in Items : Nodes(Append(items, x)) = AddNode(Nodes(items), x)
         /\ items = <<>> => Nodes(items) = <<>>
  <1>1. PICK n \in Nat : n = Len(items)
    OBVIOUS
  <1>a. n \in 0..n
    OBVIOUS
  <1>2. PICK a \in [0..n -> Seq(Items)] : InTurn(a, items, n) /\ Nodes(items) = a[n]
    BY <1>1, NodesIs
  <1>3. ASSUME NEW x \in Items PROVE Nodes(Append(items, x)) = AddNode(Nodes(items), x)
    <2>1. PICK m \in Nat : m = n + 1
      OBVIOUS
    <2>2. PICK g : g = Append(items, x)
      OBVIOUS
    <2>3. /\ g \in Seq(Items) /\ Len(g) = m /\ g[m] = x
          /\ \A i \in 1..n : g[i] = items[i]
      BY <1>1, <2>1, <2>2
    <2>4. PICK b \in [0..m -> Seq(Items)] : InTurn(b, g, m) /\ Nodes(g) = b[m]
      BY <2>3, NodesIs
    <2>5. \A i \in 1..n : b[i] = AddNode(b[i - 1], g[i])
      BY <2>1, <2>4 DEF InTurn
    <2> DEFINE S == {i \in 0..n : a[i] = b[i]}
    <2>6. 0 \in S
      BY <1>2, <2>4 DEF InTurn
    <2>7. ASSUME NEW i \in 1..n, i - 1 \in S PROVE i \in S
      <3>1. items[i] = g[i] /\ a[i] = AddNode(a[i - 1], items[i])
        BY <1>2, <2>3 DEF InTurn
      <3>2. b[i] = AddNode(b[i - 1], g[i]) /\ a[i - 1] = b[i - 1]
        BY <2>5, <2>7
      <3> QED
        BY <3>1, <3>2
    <2>8. 0..n \subseteq S
      <3> HIDE DEF S
      <3> QED
        BY <2>6, <2>7, CountUp
    <2>9. a[n] = b[n]
      BY <1>a, <2>8
    <2>10. m \in 1..m /\ m - 1 = n
      BY <2>1
    <2>11. b[m] = AddNode(b[n], g[m])
      BY <2>4, <2>10 DEF InTurn
    <2> QED
      BY <1>2, <2>2, <2>3, <2>4, <2>9, <2>11
  <1> QED
    BY <1>a, <1>1, <1>2, <1>3 DEF InTurn
-----------------------------------------------------------------------------
(* The elements open after a node, and the tag of each.                    *)
LEMMA CountedOneByOne ==
  ASSUME NEW K \in SUBSET Nat, NEW i \in Nat \ {0}, NEW j \in Nat, i = j + 1
  PROVE  /\ Cardinality(K \cap 1..j) \in Nat
         /\ Cardinality(K \cap 1..i)
              = Cardinality(K \cap 1..j) + (IF i \in K THEN 1 ELSE 0)
  <1>1. IsFiniteSet(1..j)
    BY FS_Interval
  <1>2. IsFiniteSet(K \cap 1..j) /\ Cardinality(K \cap 1..j) \in Nat
    BY <1>1, FS_Subset, FS_CardinalityType
  <1>3. CASE i \in K
    <2>1. K \cap 1..i = (K \cap 1..j) \cup {i} /\ i \notin K \cap 1..j
      BY <1>3
    <2> QED
      BY <1>2, <1>3, <2>1, FS_AddElement
  <1>4. CASE i \notin K
    <2>1. K \cap 1..i = K \cap 1..j
      BY <1>4
    <2> QED
      BY <1>2, <1>4, <2>1
  <1> QED
    BY <1>3, <1>4

Step(node) == IF node.k = "start" THEN 1 ELSE IF node.k = "end" THEN 0 - 1 ELSE 0

OpenType(P, n) == \A i \in 0..n : OpenAt(P, i) \in Int
OpenSteps(P, n) == \A i \in 1..n : OpenAt(P, i) = OpenAt(P, i - 1) + Step(P[i])

LEMMA OpenFacts ==
  ASSUME NEW P, NEW n \in Nat
  PROVE  OpenType(P, n) /\ OpenAt(P, 0) = 0 /\ OpenSteps(P, n)
  <1> DEFINE K(kind) == {j \in 1..n : P[j].k = kind}
  <1>1. \A kind \in {"start", "end"} : K(kind) \in SUBSET Nat
    OBVIOUS
  <1>2. ASSUME NEW i \in 0..n, NEW kind \in {"start", "end"}
        PROVE  {j \in 1..i : P[j].k = kind} = K(kind) \cap 1..i
    <2>1. \A j \in 1..i : j \in 1..n
      OBVIOUS
    <2> QED
      BY <2>1
  <1> HIDE DEF K
  <1>3. \A i \in 0..n : OpenAt(P, i) = Cardinality(K("start") \cap 1..i) - Cardinality(K("end") \cap 1..i)
    BY <1>2 DEF OpenAt
  <1>4. \A i \in 0..n, kind \in {"start", "end"} : Cardinality(K(kind) \cap 1..i) \in Nat
    <2>1. ASSUME NEW i \in 0..n, NEW kind \in {"start", "end"}
          PROVE  Cardinality(K(kind) \cap 1..i) \in Nat
      <3>1. PICK m \in Nat \ {0} : m = i + 1
        OBVIOUS
      <3>2. PICK W : W = K(kind)
        OBVIOUS
      <3>3. W \in SUBSET Nat
        BY <1>1, <3>2
      <3> QED
        BY <3>1, <3>2, <3>3, CountedOneByOne
    <2> QED
      BY <2>1
  <1>5. OpenType(P, n)
    <2>1. ASSUME NEW i \in 0..n PROVE OpenAt(P, i) \in Int
      <3>1. PICK s \in Nat : s = Cardinality(K("start") \cap 1..i)
        BY <1>4
      <3>2. PICK e \in Nat : e = Cardinality(K("end") \cap 1..i)
        BY <1>4
      <3>3. OpenAt(P, i) = s - e
        BY <1>3, <3>1, <3>2
      <3> QED
        BY <3>3
    <2> QED
      BY <2>1 DEF OpenType
  <1>6. OpenAt(P, 0) = 0
    <2>1. 1..0 = {}
      OBVIOUS
    <2>2. K("start") \cap 1..0 = {} /\ K("end") \cap 1..0 = {}
      BY <2>1
    <2>3. 0 \in 0..n
      OBVIOUS
    <2> QED
      BY <1>3, <2>2, <2>3, FS_EmptySet
  <1>7. ASSUME NEW i \in 1..n PROVE OpenAt(P, i) = OpenAt(P, i - 1) + Step(P[i])
    <2>1. PICK j \in Nat : j = i - 1 /\ i = j + 1 /\ j \in 0..n
      OBVIOUS
    <2>2. i \in Nat \ {0} /\ i \in 0..n
      OBVIOUS
    <2>3. \A kind \in {"start", "end"} :
            Cardinality(K(kind) \cap 1..i)
              = Cardinality(K(kind) \cap 1..j) + (IF i \in K(kind) THEN 1 ELSE 0)
      BY <1>1, <2>1, <2>2, CountedOneByOne
    <2>4. \A kind \in {"start", "end"} : i \in K(kind) <=> P[i].k = kind
      BY DEF K
    <2>5. PICK s \in Nat : s = Cardinality(K("start") \cap 1..j)
      BY <1>4, <2>1
    <2>6. PICK e \in Nat : e = Cardinality(K("end") \cap 1..j)
      BY <1>4, <2>1
    <2>7. OpenAt(P, j) = s - e
      BY <1>3, <2>1, <2>5, <2>6
    <2>8. OpenAt(P, i) = (s + (IF P[i].k = "start" THEN 1 ELSE 0))
                           - (e + (IF P[i].k = "end" THEN 1 ELSE 0))
      BY <1>3, <2>2, <2>3, <2>4, <2>5, <2>6
    <2>9. ~(P[i].k = "start" /\ P[i].k = "end")
      OBVIOUS
    <2> QED
      BY <2>1, <2>7, <2>8, <2>9 DEF Step
  <1> QED
    BY <1>5, <1>6, <1>7 DEF OpenSteps

(* Nodes that differ in their texts only.                                  *)
Skeleton(P, Q, n) == \A j \in 1..n : P[j].k = Q[j].k /\ P[j].n = Q[j].n

LEMMA SkeletonOpen ==
  ASSUME NEW P, NEW Q, NEW n \in Nat, Skeleton(P, Q, n)
  PROVE  \A i \in 0..n : OpenAt(P, i) = OpenAt(Q, i)
  <1>1. ASSUME NEW i \in 0..n PROVE OpenAt(P, i) = OpenAt(Q, i)
    <2>1. \A j \in 1..i : P[j].k = Q[j].k
      BY DEF Skeleton
    <2>2. {j \in 1..i : P[j].k = "start"} = {j \in 1..i : Q[j].k = "start"}
      BY <2>1
    <2>3. {j \in 1..i : P[j].k = "end"} = {j \in 1..i : Q[j].k = "end"}
      BY <2>1
    <2> QED
      BY <2>2, <2>3 DEF OpenAt
  <1> QED
    BY <1>1

(* Node m is the last start tag in the first i nodes that opened depth d.  *)
Opened(P, i, d, m) ==
  /\ m \in 1..i /\ P[m].k = "start" /\ OpenAt(P, m) = d
  /\ \A j \in 1..i : P[j].k = "start" /\ OpenAt(P, j) = d => j <= m

LEMMA OpenedInnermost ==
  ASSUME NEW P, NEW i \in Nat, NEW m, Opened(P, i, OpenAt(P, i), m)
  PROVE  Innermost(P, i) = P[m]
  <1>1. PICK S : S = {j \in 1..i : P[j].k = "start" /\ OpenAt(P, j) = OpenAt(P, i)}
    OBVIOUS
  <1>2. m \in S /\ S \subseteq 1..i /\ \A j \in S : m >= j
    BY <1>1 DEF Opened
  <1>3. \A k \in S : (\A j \in S : k >= j) => k = m
    BY <1>2
  <1>4. Sets!Max(S) = m
    BY <1>2, <1>3 DEF Sets!Max
  <1> QED
    BY <1>1, <1>4 DEF Innermost

LEMMA SkeletonOpened ==
  ASSUME NEW P, NEW Q, NEW n \in Nat, Skeleton(P, Q, n), NEW i \in 0..n, NEW d, NEW m,
         Opened(P, i, d, m)
  PROVE  Opened(Q, i, d, m) /\ Q[m].n = P[m].n
  <1>1. \A j \in 0..n : OpenAt(P, j) = OpenAt(Q, j)
    BY SkeletonOpen
  <1>2. \A j \in 1..i : j \in 0..n /\ j \in 1..n
    OBVIOUS
  <1>3. \A j \in 1..i : P[j].k = Q[j].k /\ P[j].n = Q[j].n /\ OpenAt(P, j) = OpenAt(Q, j)
    BY <1>1, <1>2 DEF Skeleton
  <1> QED
    BY <1>3 DEF Opened

(* Node i has a place in a document after the nodes before it.             *)
Seen(P, i) == \E j \in 1..i : P[j].k \in {"start", "empty"}

Placed(P, i) ==
  /\ P[i].k \in {"start", "empty"} => OpenAt(P, i - 1) > 0 \/ ~Seen(P, i - 1)
  /\ P[i].k = "end" =>
       /\ OpenAt(P, i - 1) > 0
       /\ \E m : Opened(P, i - 1, OpenAt(P, i - 1), m) /\ P[m].n = P[i].n
  /\ P[i].k \in {"text", "cdata"} => OpenAt(P, i - 1) > 0
  /\ P[i].k = "doctype" => ~Seen(P, i - 1) /\ \A j \in 1..i - 1 : P[j].k # "doctype"
  /\ P[i].k \notin {"empty", "pi", "bad"}

(* What it says is allowed in one.                                         *)
Sound(P, i) ==
  /\ ~BadCharacters(P[i])
  /\ P[i].k = "start" => NamesAreBound(P, i)

LEMMA PlacedIsLegal ==
  ASSUME NEW P, NEW n \in Nat, NEW i \in 1..n, Placed(P, i)
  PROVE  Legal(P, i) <=> Sound(P, i)
  <1>1. PICK p \in Nat : p = i - 1
    OBVIOUS
  <1>2. CASE P[i].k \in {"start", "empty"}
    BY <1>1, <1>2 DEF Placed, Legal, Sound, Seen
  <1>3. CASE P[i].k = "end"
    <2>1. PICK m : Opened(P, p, OpenAt(P, p), m) /\ P[m].n = P[i].n
      BY <1>1, <1>3 DEF Placed
    <2>2. Innermost(P, p) = P[m]
      BY <2>1, OpenedInnermost
    <2> QED
      BY <1>1, <1>3, <2>1, <2>2 DEF Placed, Legal, Sound
  <1>4. CASE P[i].k \in {"text", "cdata"}
    BY <1>1, <1>4 DEF Placed, Legal, Sound
  <1>5. CASE P[i].k = "doctype"
    BY <1>1, <1>5 DEF Placed, Legal, Sound, Seen
  <1>6. CASE P[i].k \notin {"start", "empty", "end", "text", "cdata", "doctype"}
    BY <1>6 DEF Placed, Legal, Sound
  <1> QED
    BY <1>2, <1>3, <1>4, <1>5, <1>6

LEMMA SkeletonPlaced ==
  ASSUME NEW P, NEW Q, NEW n \in Nat, Skeleton(P, Q, n), NEW i \in 1..n, Placed(P, i)
  PROVE  Placed(Q, i)
  <1>1. PICK p \in Nat : p = i - 1 /\ p \in 0..n /\ i \in 1..n
    OBVIOUS
  <1>2. OpenAt(P, p) = OpenAt(Q, p)
    BY <1>1, SkeletonOpen
  <1>3. \A j \in 1..p : j \in 1..n
    BY <1>1
  <1>4. /\ P[i].k = Q[i].k /\ P[i].n = Q[i].n
        /\ \A j \in 1..p : P[j].k = Q[j].k
    BY <1>1, <1>3 DEF Skeleton
  <1>5. Seen(P, p) <=> Seen(Q, p)
    BY <1>4 DEF Seen
  <1>6. \A m : Opened(P, p, OpenAt(P, p), m) =>
                 Opened(Q, p, OpenAt(Q, p), m) /\ Q[m].n = P[m].n
    <2>1. PICK d : d = OpenAt(P, p)
      OBVIOUS
    <2>2. ASSUME NEW m, Opened(P, p, d, m) PROVE Opened(Q, p, d, m) /\ Q[m].n = P[m].n
      BY <1>1, <2>2, SkeletonOpened
    <2> QED
      BY <1>2, <2>1, <2>2
  <1> QED
    BY <1>1, <1>2, <1>4, <1>5, <1>6 DEF Placed
-----------------------------------------------------------------------------
(* The nodes written so far are the beginning of a document, and the stack *)
(* names the tags open at their end.                                       *)
Well(P, n, open, e, started, declared) ==
  /\ \A i \in 1..n : Placed(P, i)
  /\ OpenAt(P, n) = e
  /\ \A d \in 1..e : \E m : Opened(P, n, d, m) /\ P[m].n = open[d]
  /\ started <=> Seen(P, n)
  /\ declared = "" => \A j \in 1..n : P[j].k # "doctype"

(* Q is P with one node more.                                              *)
Longer(P, Q, n, x) == (\A i \in 1..n : Q[i] = P[i]) /\ Q[n + 1] = x

LEMMA LongerFacts ==
  ASSUME NEW P, NEW Q, NEW n \in Nat, NEW x, Longer(P, Q, n, x), NEW r \in Nat, r = n + 1
  PROVE  /\ Skeleton(P, Q, n)
         /\ \A i \in 0..n : OpenAt(Q, i) = OpenAt(P, i) /\ OpenAt(P, i) \in Int
         /\ OpenAt(Q, r) = OpenAt(P, n) + Step(x)
         /\ Q[r] = x
  <1>1. Skeleton(P, Q, n)
    BY DEF Longer, Skeleton
  <1>2. \A i \in 0..n : OpenAt(P, i) = OpenAt(Q, i)
    BY <1>1, SkeletonOpen
  <1>3. OpenType(P, n) /\ OpenSteps(Q, r)
    BY OpenFacts
  <1>4. r \in 1..r /\ r - 1 = n /\ n \in 0..n
    OBVIOUS
  <1>5. Q[r] = x
    BY DEF Longer
  <1>6. OpenAt(Q, r) = OpenAt(Q, n) + Step(Q[r])
    BY <1>3, <1>4 DEF OpenSteps
  <1> QED
    BY <1>1, <1>2, <1>3, <1>4, <1>5, <1>6 DEF OpenType

LEMMA LongerPlaced ==
  ASSUME NEW P, NEW Q, NEW n \in Nat, NEW x, Longer(P, Q, n, x),
         NEW r \in Nat, r = n + 1, \A i \in 1..n : Placed(P, i), Placed(Q, r)
  PROVE  \A i \in 1..r : Placed(Q, i)
  <1>1. Skeleton(P, Q, n)
    BY LongerFacts
  <1>2. \A i \in 1..n : Placed(Q, i)
    BY <1>1, SkeletonPlaced
  <1>3. \A i \in 1..r : i \in 1..n \/ i = r
    OBVIOUS
  <1> QED
    BY <1>2, <1>3

(* A tag opened before stays the last of its depth unless another opens it.*)
LEMMA LongerOpened ==
  ASSUME NEW P, NEW Q, NEW n \in Nat, NEW x, Longer(P, Q, n, x),
         NEW r \in Nat, r = n + 1, NEW d, NEW m, Opened(P, n, d, m),
         x.k = "start" => d # OpenAt(Q, r)
  PROVE  Opened(Q, r, d, m) /\ Q[m].n = P[m].n
  <1>1. Skeleton(P, Q, n) /\ Q[r] = x
    BY LongerFacts
  <1>2. Opened(Q, n, d, m) /\ Q[m].n = P[m].n
    <2>1. n \in 0..n
      OBVIOUS
    <2> QED
      BY <1>1, <2>1, SkeletonOpened
  <1>3. \A i \in 1..r : i \in 1..n \/ i = r
    OBVIOUS
  <1>4. ~(Q[r].k = "start" /\ OpenAt(Q, r) = d)
    BY <1>1
  <1>5. m \in 1..r
    BY <1>2 DEF Opened
  <1> QED
    BY <1>2, <1>3, <1>4, <1>5 DEF Opened

LEMMA LongerSeen ==
  ASSUME NEW P, NEW Q, NEW n \in Nat, NEW x, Longer(P, Q, n, x), NEW r \in Nat, r = n + 1
  PROVE  Seen(Q, n) = Seen(P, n) /\ (Seen(Q, r) <=> Seen(P, n) \/ x.k \in {"start", "empty"})
  <1>1. Q[r] = x /\ \A i \in 1..n : Q[i] = P[i]
    BY DEF Longer
  <1>2. \A i \in 1..r : i \in 1..n \/ i = r
    OBVIOUS
  <1>3. r \in 1..r /\ \A i \in 1..n : i \in 1..r
    OBVIOUS
  <1> QED
    BY <1>1, <1>2, <1>3 DEF Seen

(* A start tag, where there may be one: it is pushed onto the stack.       *)
Pushed(open, e, more, f, x) ==
  /\ f = e + 1 /\ more[f] = x.n
  /\ \A d \in 1..e : more[d] = open[d]

RootIsFirst(e, started) == e = 0 => ~started

LEMMA WellStart ==
  ASSUME NEW P, NEW Q, NEW n \in Nat, NEW x, Longer(P, Q, n, x), NEW r \in Nat, r = n + 1,
         NEW open, NEW e \in Nat, NEW started, NEW declared,
         Well(P, n, open, e, started, declared),
         x.k = "start", RootIsFirst(e, started),
         NEW more, NEW f \in Nat, Pushed(open, e, more, f, x)
  PROVE  Well(Q, r, more, f, TRUE, declared)
  <1>0. f = e + 1 /\ more[f] = x.n /\ \A d \in 1..e : more[d] = open[d]
    BY DEF Pushed
  <1>1. /\ Skeleton(P, Q, n) /\ Q[r] = x
        /\ \A i \in 0..n : OpenAt(Q, i) = OpenAt(P, i)
        /\ OpenAt(Q, r) = OpenAt(P, n) + Step(x)
    BY LongerFacts
  <1>2. n \in 0..n /\ r - 1 = n /\ r \in 1..r
    OBVIOUS
  <1>3. OpenAt(P, n) = e /\ OpenAt(Q, n) = e /\ OpenAt(Q, r) = f
    BY <1>0, <1>1, <1>2 DEF Well, Step
  <1>4. Seen(Q, n) = Seen(P, n) /\ Seen(Q, r)
    BY LongerSeen
  <1>5. Placed(Q, r)
    <2>0. started <=> Seen(Q, n)
      BY <1>4, Zenon DEF Well
    <2>1. e > 0 \/ ~Seen(Q, n)
      BY <2>0 DEF RootIsFirst
    <2> QED
      BY <1>1, <1>2, <1>3, <2>1 DEF Placed
  <1>6. \A i \in 1..r : Placed(Q, i)
    BY <1>5, LongerPlaced DEF Well
  <1>7. ASSUME NEW d \in 1..f PROVE \E m : Opened(Q, r, d, m) /\ Q[m].n = more[d]
    <2>1. CASE d = f
      <3>1. Opened(Q, r, d, r)
        BY <1>1, <1>2, <1>3, <2>1 DEF Opened
      <3> QED
        BY <1>0, <1>1, <2>1, <3>1
    <2>2. CASE d # f
      <3>1. d \in 1..e
        BY <1>0, <2>2
      <3>2. PICK m : Opened(P, n, d, m) /\ P[m].n = open[d]
        BY <3>1 DEF Well
      <3>3. Opened(Q, r, d, m) /\ Q[m].n = P[m].n
        BY <1>3, <2>2, <3>2, LongerOpened
      <3> QED
        BY <1>0, <3>1, <3>2, <3>3
    <2> QED
      BY <2>1, <2>2
  <1>8. declared = "" => \A j \in 1..r : Q[j].k # "doctype"
    <2>1. \A i \in 1..r : i \in 1..n \/ i = r
      OBVIOUS
    <2> QED
      BY <2>1 DEF Well, Longer
  <1> QED
    BY <1>3, <1>4, <1>6, <1>7, <1>8 DEF Well

(* The end tag of the innermost open tag: it is taken off the stack.       *)
Popped(open, e, less, f, x) ==
  /\ e = f + 1 /\ x.n = open[e]
  /\ \A d \in 1..f : less[d] = open[d]

LEMMA WellEnd ==
  ASSUME NEW P, NEW Q, NEW n \in Nat, NEW x, Longer(P, Q, n, x), NEW r \in Nat, r = n + 1,
         NEW open, NEW e \in Nat, NEW started, NEW declared,
         Well(P, n, open, e, started, declared),
         x.k = "end", NEW less, NEW f \in Nat, Popped(open, e, less, f, x)
  PROVE  Well(Q, r, less, f, started, declared)
  <1>0. e = f + 1 /\ x.n = open[e] /\ \A d \in 1..f : less[d] = open[d]
    BY DEF Popped
  <1>1. /\ Skeleton(P, Q, n) /\ Q[r] = x
        /\ \A i \in 0..n : OpenAt(Q, i) = OpenAt(P, i)
        /\ OpenAt(Q, r) = OpenAt(P, n) + Step(x)
    BY LongerFacts
  <1>2. n \in 0..n /\ r - 1 = n /\ r \in 1..r
    OBVIOUS
  <1>a. OpenAt(P, n) = e /\ Step(x) = 0 - 1
    BY DEF Well, Step
  <1>3. OpenAt(P, n) = e /\ OpenAt(Q, n) = e /\ OpenAt(Q, r) = f
    BY <1>a, <1>0, <1>1, <1>2
  <1>4. Seen(Q, r) = Seen(P, n)
    <2>1. Seen(Q, r) <=> Seen(P, n) \/ x.k \in {"start", "empty"}
      BY LongerSeen
    <2> QED
      BY <2>1 DEF Seen
  <1>5. Placed(Q, r)
    <2>0. e \in 1..e
      BY <1>0
    <2>1. PICK m : Opened(P, n, e, m) /\ P[m].n = open[e]
      BY <2>0 DEF Well
    <2>2. Opened(Q, n, e, m) /\ Q[m].n = P[m].n
      BY <1>1, <1>2, <2>1, SkeletonOpened
    <2> QED
      BY <1>0, <1>1, <1>2, <1>3, <2>1, <2>2 DEF Placed
  <1>6. \A i \in 1..r : Placed(Q, i)
    BY <1>5, LongerPlaced DEF Well
  <1>7. ASSUME NEW d \in 1..f PROVE \E m : Opened(Q, r, d, m) /\ Q[m].n = less[d]
    <2>1. d \in 1..e
      BY <1>0
    <2>2. PICK m : Opened(P, n, d, m) /\ P[m].n = open[d]
      BY <2>1 DEF Well
    <2>3. Opened(Q, r, d, m) /\ Q[m].n = P[m].n
      BY <2>2, LongerOpened
    <2> QED
      BY <1>0, <2>2, <2>3
  <1>8. declared = "" => \A j \in 1..r : Q[j].k # "doctype"
    <2>1. \A i \in 1..r : i \in 1..n \/ i = r
      OBVIOUS
    <2> QED
      BY <2>1 DEF Well, Longer
  <1> QED
    BY <1>3, <1>4, <1>6, <1>7, <1>8 DEF Well

(* A text in an element, or a DOCTYPE in front of the root.                *)
MayFollow(x, e, started, declared, named) ==
  \/ x.k = "text" /\ e > 0 /\ named = declared
  \/ x.k = "doctype" /\ ~started /\ declared = "" /\ named # ""

LEMMA WellOther ==
  ASSUME NEW P, NEW Q, NEW n \in Nat, NEW x, Longer(P, Q, n, x), NEW r \in Nat, r = n + 1,
         NEW open, NEW e \in Nat, NEW started, NEW declared,
         Well(P, n, open, e, started, declared), NEW named,
         MayFollow(x, e, started, declared, named)
  PROVE  Well(Q, r, open, e, started, named)
  <1>0. x.k \in {"text", "doctype"}
    BY DEF MayFollow
  <1>1. /\ Skeleton(P, Q, n) /\ Q[r] = x
        /\ \A i \in 0..n : OpenAt(Q, i) = OpenAt(P, i)
        /\ OpenAt(Q, r) = OpenAt(P, n) + Step(x)
    BY LongerFacts
  <1>2. n \in 0..n /\ r - 1 = n /\ r \in 1..r
    OBVIOUS
  <1>a. OpenAt(P, n) = e /\ Step(x) = 0
    BY <1>0 DEF Well, Step
  <1>3. OpenAt(P, n) = e /\ OpenAt(Q, n) = e /\ OpenAt(Q, r) = e
    BY <1>a, <1>1, <1>2
  <1>4. Seen(Q, n) = Seen(P, n) /\ Seen(Q, r) = Seen(P, n)
    <2>1. Seen(Q, n) = Seen(P, n) /\ (Seen(Q, r) <=> Seen(P, n) \/ x.k \in {"start", "empty"})
      BY LongerSeen
    <2> QED
      BY <1>0, <2>1 DEF Seen
  <1>5. Placed(Q, r)
    <2>1. x.k = "doctype" => \A j \in 1..n : Q[j].k # "doctype"
      BY DEF Well, Longer, MayFollow
    <2> QED
      BY <1>1, <1>2, <1>3, <1>4, <2>1 DEF Placed, Well, MayFollow
  <1>6. \A i \in 1..r : Placed(Q, i)
    BY <1>5, LongerPlaced DEF Well
  <1>7. ASSUME NEW d \in 1..e PROVE \E m : Opened(Q, r, d, m) /\ Q[m].n = open[d]
    <2>2. PICK m : Opened(P, n, d, m) /\ P[m].n = open[d]
      BY DEF Well
    <2>3. Opened(Q, r, d, m) /\ Q[m].n = P[m].n
      BY <1>0, <2>2, LongerOpened
    <2> QED
      BY <2>2, <2>3
  <1>8. named = "" => \A j \in 1..r : Q[j].k # "doctype"
    <2>1. \A i \in 1..r : i \in 1..n \/ i = r
      OBVIOUS
    <2> QED
      BY <2>1 DEF Well, Longer, MayFollow
  <1> QED
    BY <1>3, <1>4, <1>6, <1>7, <1>8 DEF Well

(* Nodes with the same skeleton.                                           *)
LEMMA WellSkeleton ==
  ASSUME NEW P, NEW Q, NEW n \in Nat, Skeleton(P, Q, n),
         NEW open, NEW e \in Nat, NEW started, NEW declared,
         Well(P, n, open, e, started, declared)
  PROVE  Well(Q, n, open, e, started, declared)
  <1>1. n \in 0..n
    OBVIOUS
  <1>2. OpenAt(Q, n) = e
    BY <1>1, SkeletonOpen DEF Well
  <1>3. \A i \in 1..n : Placed(Q, i)
    BY SkeletonPlaced DEF Well
  <1>4. ASSUME NEW d \in 1..e PROVE \E m : Opened(Q, n, d, m) /\ Q[m].n = open[d]
    <2>2. PICK m : Opened(P, n, d, m) /\ P[m].n = open[d]
      BY DEF Well
    <2>3. Opened(Q, n, d, m) /\ Q[m].n = P[m].n
      BY <1>1, <2>2, SkeletonOpened
    <2> QED
      BY <2>2, <2>3
  <1>5. \A i \in 1..n : P[i].k = Q[i].k
    BY DEF Skeleton
  <1> QED
    BY <1>2, <1>3, <1>4, <1>5 DEF Well, Seen
-----------------------------------------------------------------------------
(* The items the calls write.                                              *)
ShortNames == {n \in ValidNames : NameSize[n] <= Limits.text_bytes}

ShortAttribute(b) ==
  NameSize[b.name] <= Limits.text_bytes /\ Len(b.value) <= Limits.text_bytes

Writable ==
  {x \in Items :
     /\ x.k \in {"decl", "doctype", "start", "end", "text"}
     /\ x.k \in {"doctype", "start", "end"} => x.n \in ShortNames
     /\ x.k \in {"decl", "text"} => x.n = ""
     /\ x.k # "text" => x.t = <<>>
     /\ Len(x.t) <= Limits.text_bytes
     /\ Len(x.a) <= Limits.attributes
     /\ \A b \in Range(x.a) : ShortAttribute(b)}

WriterTypeOK ==
  /\ output \in Seq(Writable)
  /\ file \in Seq(Writable)
  /\ stack \in Seq(ShortNames)
  /\ dtd \in ShortNames \cup {""}
  /\ root \in BOOLEAN
  /\ finished \in BOOLEAN

LEMMA LimitTypes ==
  /\ Limits.input_bytes \in Nat /\ Limits.output_bytes \in Nat
  /\ Limits.text_bytes \in Nat /\ Limits.attributes \in Nat
  /\ Limits.depth \in Nat /\ Limits.events \in Nat
  <1>1. PICK l : l = Limits
    OBVIOUS
  <1>2. l \in [input_bytes : Nat, output_bytes : Nat, text_bytes : Nat,
               attributes : Nat, depth : Nat, events : Nat]
    BY <1>1, LimitsAssumption DEF AllLimits
  <1> QED
    BY <1>1, <1>2

LEMMA ItemFields ==
  ASSUME NEW k, NEW n, NEW t, NEW a, NEW x, x = Item(k, n, t, a)
  PROVE  x.k = k /\ x.n = n /\ x.t = t /\ x.a = a
  BY DEF Item

LEMMA ItemIs ==
  ASSUME NEW k \in ItemKinds, NEW n \in DOMAIN NameSize \cup {""},
         NEW t \in Seq(DOMAIN CharSize), NEW a \in AttributeLists
  PROVE  Item(k, n, t, a) \in Items
  <1>1. PICK T : T = Seq(DOMAIN CharSize)
    OBVIOUS
  <1>2. PICK N : N = DOMAIN NameSize \cup {""}
    OBVIOUS
  <1>3. t \in T /\ n \in N
    BY <1>1, <1>2
  <1> QED
    BY <1>1, <1>2, <1>3 DEF Items, Item

LEMMA EmptyAttributes == <<>> \in AttributeLists /\ Range(<<>>) = {} /\ Len(<<>>) = 0
  <1>1. <<>> \in AttributeLists
    BY DEF AttributeLists
  <1>2. DOMAIN <<>> = {}
    OBVIOUS
  <1> QED
    BY <1>1, <1>2 DEF Range

LEMMA TagIsWritable ==
  ASSUME NEW k \in {"doctype", "start", "end"}, NEW n \in ShortNames,
         NEW a \in AttributeLists, Len(a) <= Limits.attributes,
         \A b \in Range(a) : ShortAttribute(b)
  PROVE  Item(k, n, <<>>, a) \in Writable
  <1>1. PICK x : x = Item(k, n, <<>>, a)
    OBVIOUS
  <1>2. x.k = k /\ x.n = n /\ x.t = <<>> /\ x.a = a
    BY <1>1, ItemFields
  <1>3. k \in ItemKinds /\ k # "text" /\ k # "decl"
    BY DEF ItemKinds
  <1>4. n \in DOMAIN NameSize \cup {""}
    BY LimitsAssumption DEF ShortNames
  <1>5. x \in Items
    <2>1. <<>> \in Seq(DOMAIN CharSize)
      OBVIOUS
    <2> QED
      BY <1>1, <1>3, <1>4, <2>1, ItemIs
  <1>6. Len(<<>>) <= Limits.text_bytes
    BY LimitTypes
  <1> QED
    BY <1>1, <1>2, <1>3, <1>5, <1>6 DEF Writable

LEMMA TextIsWritable ==
  ASSUME NEW t \in Seq(DOMAIN CharSize), Len(t) <= Limits.text_bytes
  PROVE  Item("text", "", t, <<>>) \in Writable
  <1>1. PICK x : x = Item("text", "", t, <<>>)
    OBVIOUS
  <1>2. x.k = "text" /\ x.n = "" /\ x.t = t /\ x.a = <<>>
    BY <1>1 DEF Item
  <1>5. x \in Items
    <2>1. "text" \in ItemKinds
      BY DEF ItemKinds
    <2> QED
      BY <1>1, <2>1, EmptyAttributes, ItemIs
  <1>6. Len(<<>>) <= Limits.attributes
    BY LimitTypes
  <1> QED
    BY <1>1, <1>2, <1>5, <1>6, EmptyAttributes DEF Writable

LEMMA DeclarationIsWritable == Declaration \in Writable /\ Declaration.k = "decl"
  <1>1. PICK x : x = Declaration
    OBVIOUS
  <1>2. x.k = "decl" /\ x.n = "" /\ x.t = <<>> /\ x.a = <<>>
    BY <1>1 DEF Declaration, Item
  <1>3. x \in Items
    <2>1. "decl" \in ItemKinds /\ <<>> \in Seq(DOMAIN CharSize)
      BY DEF ItemKinds
    <2> QED
      BY <1>1, <2>1, EmptyAttributes, ItemIs DEF Declaration
  <1>4. Len(<<>>) <= Limits.attributes /\ Len(<<>>) <= Limits.text_bytes
    BY LimitTypes
  <1> QED
    BY <1>1, <1>2, <1>3, <1>4, EmptyAttributes DEF Writable

(* What a call does to the state when it fails, and when it writes x.      *)
Unwritten == UNCHANGED <<output, dtd, stack, root, finished, file>>

Wrote(x) ==
  /\ x \in Writable /\ ~finished
  /\ output' = Append(output, x)
  /\ ~(Bytes(output) > Limits.output_bytes)
  /\ ~(ItemSize(x) > Limits.output_bytes - Bytes(output))
  /\ finished' = finished /\ file' = file

WroteDoctype(x) ==
  /\ x.k = "doctype" /\ ~root /\ dtd = "" /\ dtd' = x.n
  /\ stack' = stack /\ root' = root

WroteStart(x) ==
  /\ x.k = "start" /\ (stack = <<>> => ~root) /\ ~(Len(stack) >= Limits.depth)
  /\ stack' = Append(stack, x.n) /\ root' = TRUE /\ dtd' = dtd

WroteText(x) ==
  /\ x.k = "text" /\ stack # <<>>
  /\ stack' = stack /\ root' = root /\ dtd' = dtd

WroteEnd(x) ==
  /\ x.k = "end" /\ stack # <<>> /\ x.n = stack[Len(stack)]
  /\ stack' = SubSeq(stack, 1, Len(stack) - 1) /\ root' = root /\ dtd' = dtd

WroteOne(x) == WroteDoctype(x) \/ WroteStart(x) \/ WroteText(x) \/ WroteEnd(x)

Finished ==
  /\ ~finished /\ root /\ stack = <<>> /\ ReadsToEnd(output, ReadBackLimits)
  /\ finished' = TRUE /\ file' = output /\ output' = <<>>
  /\ UNCHANGED <<dtd, stack, root>>

Refused ==
  /\ Unwritten /\ result' = "refused"
  /\ ~finished /\ root /\ stack = <<>> /\ ~ReadsToEnd(output, ReadBackLimits)

LEMMA WrittenItem ==
  ASSUME NEW x \in Writable, AppendError(x) = "none", Written(x)
  PROVE  Wrote(x) /\ result' = "ok"
  <1>1. ~finished
    BY DEF AppendError
  <1>2. /\ ~(Bytes(output) > Limits.output_bytes)
        /\ ~(ItemSize(x) > Limits.output_bytes - Bytes(output))
    BY <1>1 DEF AppendError
  <1> QED
    BY <1>1, <1>2 DEF Written, Wrote

LEMMA ListTypes ==
  ASSUME NEW a \in AttributeLists, NEW i \in 1..Len(a)
  PROVE  a[i].name \in DOMAIN NameSize /\ a[i].value \in Seq(DOMAIN CharSize)
  <1>1. PICK A : A = [name : DOMAIN NameSize, value : Seq(DOMAIN CharSize)]
    OBVIOUS
  <1>2. a \in Seq(A)
    BY <1>1 DEF AttributeLists
  <1>3. PICK b : b = a[i]
    OBVIOUS
  <1>4. b \in A
    BY <1>2, <1>3
  <1> QED
    BY <1>1, <1>3, <1>4

LEMMA NoAttributeFails ==
  ASSUME NEW tag, NEW a \in AttributeLists, AttributesError(tag, a) = "none"
  PROVE  \A b \in Range(a) : ShortAttribute(b)
  <1> DEFINE failing == {i \in DOMAIN a : AttributeError(tag, a, i) # "none"}
  <1>1. PICK n \in Nat : n = Len(a) /\ DOMAIN a = 1..n
    BY DEF AttributeLists
  <1>2. failing = {}
    <2> SUFFICES ASSUME failing # {} PROVE FALSE
      OBVIOUS
    <2>1. failing \in SUBSET Nat /\ failing \subseteq DOMAIN a
      BY <1>1
    <2>2. PICK m \in failing : \A k \in failing : m <= k
      <3> HIDE DEF failing
      <3> QED
        BY <2>1, LeastNat
    <2>3. \A k \in failing : (\A j \in failing : k <= j) => k = m
      BY <1>1, <2>2
    <2>4. Sets!Min(failing) = m
      <3> HIDE DEF failing
      <3> QED
        BY <2>2, <2>3 DEF Sets!Min
    <2>5. AttributeError(tag, a, m) # "none"
      BY <2>2
    <2>6. AttributesError(tag, a) = AttributeError(tag, a, m)
      BY <2>4 DEF AttributesError
    <2> QED
      BY <2>5, <2>6
  <1>3. ASSUME NEW i \in 1..n PROVE ShortAttribute(a[i])
    <2>1. AttributeError(tag, a, i) = "none"
      BY <1>1, <1>2
    <2>2. EscapeError(a[i].value) = "none"
      BY <2>1 DEF AttributeError
    <2>3. ~(Len(a[i].value) > Limits.text_bytes)
      BY <2>2 DEF EscapeError
    <2>4. ~(NameSize[a[i].name] > Limits.text_bytes)
      BY <2>1, <2>2 DEF AttributeError
    <2>5. a[i].name \in DOMAIN NameSize /\ a[i].value \in Seq(DOMAIN CharSize)
      BY <1>1, ListTypes
    <2>6. NameSize[a[i].name] \in Nat /\ Len(a[i].value) \in Nat
      <3>1. PICK name : name = a[i].name
        OBVIOUS
      <3>2. NameSize[name] \in Nat
        BY <2>5, <3>1, LimitsAssumption
      <3> QED
        BY <2>5, <3>1, <3>2
    <2> QED
      BY <2>3, <2>4, <2>6, LimitTypes DEF ShortAttribute
  <1> QED
    BY <1>1, <1>3 DEF Range
(* What the calls do, and that only finish() refuses a document.           *)
Writes(x) == Wrote(x) /\ WroteOne(x) /\ result' # "refused"

Called ==
  \/ Unwritten /\ result' # "refused"
  \/ Refused
  \/ Finished /\ result' # "refused"
  \/ \E x \in Writable : Writes(x)

LEMMA Codes ==
  /\ \A x : AppendError(x) # "refused"
  /\ \A t : EscapeError(t) # "refused"
  /\ \A tag, a, i : AttributeError(tag, a, i) # "refused"
  <1>1. \A x : AppendError(x) # "refused"
    BY DEF AppendError
  <1>2. \A t : EscapeError(t) # "refused"
    BY DEF EscapeError
  <1>3. \A tag, a, i : AttributeError(tag, a, i) # "refused"
    BY <1>2 DEF AttributeError
  <1> QED
    BY <1>1, <1>2, <1>3

LEMMA FailIs == ASSUME NEW code, code # "refused", Fail(code) PROVE Called
  BY DEF Fail, Called, Unwritten

LEMMA CallDoctype ==
  ASSUME WriterTypeOK, NEW name \in DOMAIN NameSize, Doctype(name)
  PROVE  Called
  <1>1. PICK x : x = Item("doctype", name, <<>>, <<>>)
    OBVIOUS
  <1>2. CASE root \/ dtd # "" \/ name \notin ValidNames
    BY <1>2, FailIs DEF Doctype
  <1>3. CASE ~(root \/ dtd # "" \/ name \notin ValidNames) /\ NameSize[name] > Limits.text_bytes
    BY <1>3, FailIs DEF Doctype
  <1>4. CASE /\ ~(root \/ dtd # "" \/ name \notin ValidNames)
             /\ ~(NameSize[name] > Limits.text_bytes) /\ AppendError(x) # "none"
    <2>1. Fail(AppendError(x))
      BY <1>1, <1>4 DEF Doctype
    <2> QED
      BY <2>1, Codes, FailIs
  <1>5. CASE /\ ~(root \/ dtd # "" \/ name \notin ValidNames)
             /\ ~(NameSize[name] > Limits.text_bytes) /\ AppendError(x) = "none"
    <2>1. NameSize[name] \in Nat
      BY LimitsAssumption
    <2>2. name \in ShortNames
      <3>1. name \in ValidNames /\ ~(NameSize[name] > Limits.text_bytes)
        BY <1>5
      <3> QED
        BY <2>1, <3>1, LimitTypes DEF ShortNames
    <2>3. x \in Writable
      <3>1. Len(<<>>) <= Limits.attributes
        BY LimitTypes
      <3> QED
        BY <1>1, <2>2, <3>1, EmptyAttributes, TagIsWritable
    <2>4. Written(x) /\ dtd' = name /\ UNCHANGED <<stack, root>>
      BY <1>1, <1>5 DEF Doctype
    <2>5. x.k = "doctype" /\ x.n = name
      BY <1>1 DEF Item
    <2>6. WroteDoctype(x)
      BY <1>5, <2>4, <2>5 DEF WroteDoctype
    <2>7. Wrote(x) /\ result' = "ok"
      BY <1>5, <2>3, <2>4, WrittenItem
    <2> QED
      BY <2>3, <2>6, <2>7 DEF Called, Writes, WroteOne
  <1> QED
    BY <1>2, <1>3, <1>4, <1>5

LEMMA CallStart ==
  ASSUME WriterTypeOK, NEW tag \in DOMAIN NameSize, NEW a \in Attributes, Start(tag, a)
  PROVE  Called
  <1>1. PICK x : x = Item("start", tag, <<>>, a)
    OBVIOUS
  <1>2. CASE StartError(tag, a) # "none"
    <2>1. AttributesError(tag, a) # "refused"
      BY Codes DEF AttributesError
    <2>2. StartError(tag, a) # "refused"
      BY <2>1, Codes DEF StartError
    <2> QED
      BY <1>2, <2>2, FailIs DEF Start
  <1>3. CASE StartError(tag, a) = "none"
    <2>1. /\ tag \in ValidNames /\ ~(NameSize[tag] > Limits.text_bytes)
          /\ ~DeepEnough /\ ~(Len(a) > Limits.attributes) /\ ~MisplacedRoot(tag)
          /\ AttributesError(tag, a) = "none" /\ AppendError(x) = "none"
      BY <1>1, <1>3 DEF StartError
    <2>2. a \in AttributeLists /\ Len(a) \in Nat
      <3>1. a \in AttributeLists
        BY CallsAssumption
      <3> QED
        BY <3>1 DEF AttributeLists
    <2>3. NameSize[tag] \in Nat
      BY LimitsAssumption
    <2>4. tag \in ShortNames
      BY <2>1, <2>3, LimitTypes DEF ShortNames
    <2>5. x \in Writable
      <3>1. \A b \in Range(a) : ShortAttribute(b)
        BY <2>1, <2>2, NoAttributeFails
      <3>2. Len(a) <= Limits.attributes
        BY <2>1, <2>2, LimitTypes
      <3> QED
        BY <1>1, <2>2, <2>4, <3>1, <3>2, TagIsWritable
    <2>6. /\ Written(x) /\ root' = TRUE /\ stack' = Append(stack, tag) /\ dtd' = dtd
      BY <1>1, <1>3 DEF Start
    <2>7. x.k = "start" /\ x.n = tag
      BY <1>1 DEF Item
    <2>8. WroteStart(x)
      BY <2>1, <2>6, <2>7 DEF WroteStart, DeepEnough, MisplacedRoot
    <2>9. Wrote(x) /\ result' = "ok"
      BY <2>1, <2>5, <2>6, WrittenItem
    <2> QED
      BY <2>5, <2>8, <2>9 DEF Called, Writes, WroteOne
  <1> QED
    BY <1>2, <1>3

LEMMA CallText ==
  ASSUME WriterTypeOK, NEW t \in Values, Text(t)
  PROVE  Called
  <1>1. PICK x : x = Item("text", "", t, <<>>)
    OBVIOUS
  <1>2. CASE stack = <<>>
    BY <1>2, FailIs DEF Text
  <1>3. CASE stack # <<>> /\ EscapeError(t) # "none"
    BY <1>3, FailIs, Codes DEF Text
  <1>4. CASE stack # <<>> /\ EscapeError(t) = "none" /\ AppendError(x) # "none"
    <2>1. Fail(AppendError(x))
      BY <1>1, <1>4 DEF Text
    <2> QED
      BY <2>1, Codes, FailIs
  <1>5. CASE stack # <<>> /\ EscapeError(t) = "none" /\ AppendError(x) = "none"
    <2>1. t \in Seq(DOMAIN CharSize) /\ Len(t) \in Nat
      BY CallsAssumption
    <2>2. ~(Len(t) > Limits.text_bytes)
      BY <1>5 DEF EscapeError
    <2>3. Len(t) <= Limits.text_bytes
      BY <2>1, <2>2, LimitTypes
    <2>4. x \in Writable
      BY <1>1, <2>1, <2>3, TextIsWritable
    <2>5. Written(x) /\ UNCHANGED <<dtd, stack, root>>
      BY <1>1, <1>5 DEF Text
    <2>6. x.k = "text"
      BY <1>1 DEF Item
    <2>7. WroteText(x)
      BY <1>5, <2>5, <2>6 DEF WroteText
    <2>8. Wrote(x) /\ result' = "ok"
      BY <1>5, <2>4, <2>5, WrittenItem
    <2> QED
      BY <2>4, <2>7, <2>8 DEF Called, Writes, WroteOne
  <1> QED
    BY <1>2, <1>3, <1>4, <1>5

LEMMA CallEnd == ASSUME WriterTypeOK, End PROVE Called
  <1>1. PICK x : x = Item("end", stack[Len(stack)], <<>>, <<>>)
    OBVIOUS
  <1>2. CASE stack = <<>>
    BY <1>2, FailIs DEF End
  <1>3. CASE stack # <<>> /\ AppendError(x) # "none"
    <2>1. Fail(AppendError(x))
      BY <1>1, <1>3 DEF End
    <2> QED
      BY <2>1, Codes, FailIs
  <1>4. CASE stack # <<>> /\ AppendError(x) = "none"
    <2>1. stack[Len(stack)] \in ShortNames
      <3>1. PICK T : T = ShortNames
        OBVIOUS
      <3>2. stack \in Seq(T)
        BY <3>1 DEF WriterTypeOK
      <3> QED
        BY <1>4, <3>1, <3>2
    <2>2. x \in Writable
      <3>1. Len(<<>>) <= Limits.attributes
        BY LimitTypes
      <3> QED
        BY <1>1, <2>1, <3>1, EmptyAttributes, TagIsWritable
    <2>3. Written(x) /\ stack' = SubSeq(stack, 1, Len(stack) - 1) /\ UNCHANGED <<dtd, root>>
      BY <1>1, <1>4 DEF End
    <2>4. x.k = "end" /\ x.n = stack[Len(stack)]
      BY <1>1 DEF Item
    <2>5. WroteEnd(x)
      BY <1>4, <2>3, <2>4 DEF WroteEnd
    <2>6. Wrote(x) /\ result' = "ok"
      BY <1>4, <2>2, <2>3, WrittenItem
    <2> QED
      BY <2>2, <2>5, <2>6 DEF Called, Writes, WroteOne
  <1> QED
    BY <1>2, <1>3, <1>4

LEMMA CallFinish == ASSUME WriterTypeOK, Finish PROVE Called
  <1>1. CASE finished \/ ~root \/ stack # <<>>
    BY <1>1, FailIs DEF Finish
  <1>2. CASE ~(finished \/ ~root \/ stack # <<>>) /\ ~ReadsToEnd(output, ReadBackLimits)
    <2>1. Fail("refused")
      BY <1>2 DEF Finish
    <2> QED
      BY <1>2, <2>1 DEF Fail, Refused, Unwritten, Called
  <1>3. CASE ~(finished \/ ~root \/ stack # <<>>) /\ ReadsToEnd(output, ReadBackLimits)
    BY <1>3 DEF Finish, Finished, Called
  <1> QED
    BY <1>1, <1>2, <1>3

LEMMA CallsDo == WriterTypeOK /\ WriterNext => Called
  <1>1. \A name \in TagNames : name \in DOMAIN NameSize
    BY CallsAssumption
  <1> QED
    BY <1>1, CallDoctype, CallStart, CallText, CallEnd, CallFinish DEF WriterNext
-----------------------------------------------------------------------------
(* The size of what is written.                                            *)
LEMMA EscapedNat ==
  ASSUME NEW t \in Seq(DOMAIN CharSize)
  PROVE  EscapedSize(t) \in Nat
  <1>1. PICK f : f = [i \in 1..Len(t) |-> CharSize[t[i]]]
    OBVIOUS
  <1>2. \A i \in 1..Len(t) : t[i] \in DOMAIN CharSize
    OBVIOUS
  <1>3. \A i \in 1..Len(t) : f[i] \in Nat
    BY <1>1, <1>2, LimitsAssumption
  <1>4. f \in Seq(Nat)
    BY <1>1, <1>3
  <1> QED
    BY <1>1, <1>4, TotalFacts DEF EscapedSize

LEMMA AttributesNat ==
  ASSUME NEW a \in AttributeLists
  PROVE  AttributesSize(a) \in Nat
  <1>0. PICK n \in Nat : n = Len(a)
    BY DEF AttributeLists
  <1>1. PICK f : f = [i \in 1..n |-> AttributeSize(a[i])]
    OBVIOUS
  <1>2. ASSUME NEW i \in 1..n PROVE AttributeSize(a[i]) \in Nat
    <2>1. a[i].name \in DOMAIN NameSize /\ a[i].value \in Seq(DOMAIN CharSize)
      BY <1>0, ListTypes
    <2>2. PICK name : name = a[i].name
      OBVIOUS
    <2>3. NameSize[name] \in Nat
      BY <2>1, <2>2, LimitsAssumption
    <2>4. EscapedSize(a[i].value) \in Nat
      BY <2>1, EscapedNat
    <2> QED
      BY <2>2, <2>3, <2>4 DEF AttributeSize
  <1>4. f \in Seq(Nat)
    BY <1>1, <1>2
  <1> QED
    BY <1>0, <1>1, <1>4, TotalFacts DEF AttributesSize

LEMMA WritableFields ==
  ASSUME NEW x \in Writable
  PROVE  /\ x \in Items /\ x.t \in Seq(DOMAIN CharSize) /\ x.a \in AttributeLists
         /\ x.k \in {"decl", "doctype", "start", "end", "text"}
         /\ x.k \in {"doctype", "start", "end"} => x.n \in ShortNames
         /\ x.k \in {"decl", "text"} => x.n = ""
         /\ x.k # "text" => x.t = <<>>
         /\ Len(x.t) <= Limits.text_bytes /\ Len(x.a) <= Limits.attributes
         /\ \A b \in Range(x.a) : ShortAttribute(b)
  <1>1. x \in Items
    BY DEF Writable
  <1> QED
    BY <1>1, ItemTypes DEF Writable

LEMMA SizeNat ==
  ASSUME NEW x \in Writable
  PROVE  ItemSize(x) \in Nat
  <1>1. x.k \in {"doctype", "start", "end"} => NameSize[x.n] \in Nat
    <2>1. PICK name : name = x.n
      OBVIOUS
    <2>2. x.k \in {"doctype", "start", "end"} => name \in DOMAIN NameSize
      BY <2>1, WritableFields, LimitsAssumption DEF ShortNames
    <2> QED
      BY <2>1, <2>2, LimitsAssumption
  <1>2. AttributesSize(x.a) \in Nat /\ EscapedSize(x.t) \in Nat
    BY WritableFields, AttributesNat, EscapedNat
  <1>3. x.k \in {"decl", "doctype", "start", "end", "text"}
    BY WritableFields
  <1> QED
    BY <1>1, <1>2, <1>3 DEF ItemSize

LEMMA BytesFacts ==
  ASSUME NEW items \in Seq(Writable)
  PROVE  /\ Bytes(items) \in Nat
         /\ \A x \in Writable : Bytes(Append(items, x)) = Bytes(items) + ItemSize(x)
  <1>1. PICK n \in Nat : n = Len(items)
    OBVIOUS
  <1>2. PICK f : f = [i \in 1..n |-> ItemSize(items[i])]
    OBVIOUS
  <1>3. \A i \in 1..n : items[i] \in Writable
    BY <1>1
  <1>4. f \in Seq(Nat) /\ Len(f) = n /\ \A i \in 1..n : f[i] = ItemSize(items[i])
    BY <1>2, <1>3, SizeNat
  <1>5. Bytes(items) = Total(f)
    BY <1>1, <1>2 DEF Bytes
  <1>6. ASSUME NEW x \in Writable PROVE Bytes(Append(items, x)) = Bytes(items) + ItemSize(x)
    <2>1. PICK m \in Nat : m = n + 1
      OBVIOUS
    <2>2. PICK more : more = Append(items, x)
      OBVIOUS
    <2>3. /\ Len(more) = m /\ more[m] = x
          /\ \A i \in 1..n : more[i] = items[i]
      BY <1>1, <2>1, <2>2
    <2>4. PICK g : g = [i \in 1..m |-> ItemSize(more[i])]
      OBVIOUS
    <2>5. ItemSize(x) \in Nat
      BY SizeNat
    <2>6. PICK h : h = Append(f, ItemSize(x))
      OBVIOUS
    <2>7. /\ h \in Seq(Nat) /\ Len(h) = m /\ h[m] = ItemSize(x)
          /\ \A i \in 1..n : h[i] = f[i]
      BY <1>4, <2>1, <2>5, <2>6
    <2>8. \A i \in 1..m : g[i] = h[i]
      <3>1. ASSUME NEW i \in 1..m PROVE g[i] = h[i]
        <4>1. CASE i = m
          BY <2>3, <2>4, <2>7, <4>1
        <4>2. CASE i # m
          <5>1. i \in 1..n
            BY <2>1, <4>2
          <5> QED
            BY <1>4, <2>3, <2>4, <2>7, <5>1
        <4> QED
          BY <4>1, <4>2
      <3> QED
        BY <3>1
    <2>9. g = h
      <3>1. h = [i \in 1..m |-> h[i]]
        BY <2>7
      <3> QED
        BY <2>4, <2>8, <3>1
    <2>10. Bytes(more) = Total(g)
      BY <2>3, <2>4 DEF Bytes
    <2> QED
      BY <1>4, <1>5, <2>2, <2>5, <2>6, <2>9, <2>10, TotalFacts
  <1> QED
    BY <1>4, <1>5, <1>6, TotalFacts

-----------------------------------------------------------------------------
(* The state of the writer.                                                *)
NextCases == \/ Called /\ reader = "none" /\ UNCHANGED readerVars
             \/ Unwritten /\ result' = result

LEMMA NextDoes == WriterTypeOK /\ [NativeNext]_nativeVars => NextCases
  <1> SUFFICES ASSUME WriterTypeOK, [NativeNext]_nativeVars PROVE NextCases
    OBVIOUS
  <1>1. CASE reader = "none" /\ WriterNext /\ UNCHANGED readerVars
    BY <1>1, CallsDo DEF NextCases
  <1>2. CASE UNCHANGED writerVars
    BY <1>2 DEF writerVars, NextCases, Unwritten
  <1> QED
    BY <1>1, <1>2 DEF NativeNext, nativeVars

LEMMA TypeStep == WriterTypeOK /\ [NativeNext]_nativeVars => WriterTypeOK'
  <1> SUFFICES ASSUME WriterTypeOK, [NativeNext]_nativeVars PROVE WriterTypeOK'
    OBVIOUS
  <1>1. CASE Unwritten
    BY <1>1 DEF WriterTypeOK, Unwritten
  <1>2. CASE Finished
    <2>1. /\ file' = output /\ output' = <<>> /\ finished' = TRUE
          /\ dtd' = dtd /\ stack' = stack /\ root' = root
      BY <1>2 DEF Finished
    <2>2. <<>> \in Seq(Writable)
      OBVIOUS
    <2> QED
      BY <2>1, <2>2 DEF WriterTypeOK
  <1>3. ASSUME NEW x \in Writable, Writes(x) PROVE WriterTypeOK'
    <2>0. /\ output \in Seq(Writable) /\ file \in Seq(Writable)
          /\ dtd \in ShortNames \cup {""} /\ root \in BOOLEAN /\ finished \in BOOLEAN
      BY DEF WriterTypeOK
    <2>1. output' = Append(output, x) /\ finished' = finished /\ file' = file
      BY <1>3 DEF Writes, Wrote
    <2>2. output' \in Seq(Writable)
      <3>1. PICK T : T = Writable
        OBVIOUS
      <3>2. output \in Seq(T) /\ x \in T
        BY <2>0, <3>1
      <3> QED
        BY <2>1, <3>1, <3>2
    <2>3. x.k \in {"doctype", "start", "end"} => x.n \in ShortNames
      BY WritableFields
    <2>4. stack' \in Seq(ShortNames)
      <3>1. PICK T : T = ShortNames
        OBVIOUS
      <3>2. stack \in Seq(T) /\ (x.k \in {"doctype", "start", "end"} => x.n \in T)
        BY <2>3, <3>1 DEF WriterTypeOK
      <3>3. CASE WroteDoctype(x) \/ WroteText(x)
        BY <3>1, <3>2, <3>3 DEF WroteDoctype, WroteText
      <3>4. CASE WroteStart(x)
        <4>1. stack' = Append(stack, x.n) /\ x.n \in T
          BY <3>2, <3>4 DEF WroteStart
        <4> QED
          BY <3>1, <3>2, <4>1
      <3>5. CASE WroteEnd(x)
        <4>1. stack' = SubSeq(stack, 1, Len(stack) - 1) /\ stack # <<>>
          BY <3>5 DEF WroteEnd
        <4> QED
          BY <3>1, <3>2, <4>1
      <3> QED
        BY <1>3, <3>3, <3>4, <3>5 DEF Writes, WroteOne
    <2>5. dtd' \in ShortNames \cup {""} /\ root' \in BOOLEAN
      BY <1>3, <2>0, <2>3 DEF Writes, WroteOne, WroteDoctype, WroteStart, WroteText, WroteEnd
    <2> QED
      BY <2>0, <2>1, <2>2, <2>4, <2>5 DEF WriterTypeOK
  <1> QED
    BY <1>1, <1>2, <1>3, NextDoes DEF NextCases, Called, Refused
LEMMA WritableSeq == ASSUME NEW s \in Seq(Writable) PROVE s \in Seq(Items)
  <1>1. \A i \in 1..Len(s) : s[i] \in Items
    <2>1. \A i \in 1..Len(s) : s[i] \in Writable
      OBVIOUS
    <2> QED
      BY <2>1 DEF Writable
  <1> QED
    BY <1>1

(* Until finish() hands it out, the output is the beginning of a document  *)
(* that the stack can close, and it is no longer than its limit allows.    *)
Begun ==
  /\ Well(Nodes(output), Len(Nodes(output)), stack, Len(stack), root, dtd)
  /\ Bytes(output) > Limits.output_bytes => output = <<Declaration>>

WriterInv == WriterTypeOK /\ (~finished => Begun)

LEMMA FollowingNode ==
  ASSUME NEW P \in Seq(Items), NEW x \in Items, ~Dropped(x), ~Joins(P, x),
         NEW n \in Nat, n = Len(P), NEW Q, Q = AddNode(P, x)
  PROVE  Longer(P, Q, n, x) /\ Len(Q) = n + 1
  <1>1. Q = Append(P, x)
    BY AddNodeCases
  <1> QED
    BY <1>1 DEF Longer

LEMMA StackFacts ==
  ASSUME WriterTypeOK
  PROVE  /\ stack \in Seq(ShortNames) /\ Len(stack) \in Nat
         /\ Len(stack) = 0 <=> stack = <<>>
         /\ stack # <<>> => Len(stack) > 0
  <1>1. PICK T : T = ShortNames
    OBVIOUS
  <1>2. PICK s : s = stack
    OBVIOUS
  <1>3. s \in Seq(T)
    BY <1>1, <1>2 DEF WriterTypeOK
  <1> QED
    BY <1>1, <1>2, <1>3

LEMMA BegunStep ==
  ASSUME WriterTypeOK, Begun, NEW x \in Writable, Writes(x)
  PROVE  Begun'
  <1>1. PICK P : P = Nodes(output)
    OBVIOUS
  <1>2. output \in Seq(Items) /\ x \in Items
    BY WritableSeq, WritableFields DEF WriterTypeOK
  <1>3. P \in Seq(Items)
    BY <1>1, <1>2, NodesFacts
  <1>4. PICK n \in Nat : n = Len(P)
    BY <1>3
  <1>5. PICK e \in Nat : e = Len(stack)
    BY StackFacts
  <1>6. output' = Append(output, x)
    BY DEF Writes, Wrote
  <1>7. PICK Q : Q = Nodes(output')
    OBVIOUS
  <1>8. Q = AddNode(P, x)
    BY <1>1, <1>2, <1>6, <1>7, NodesFacts
  <1>9. PICK open : open = stack
    OBVIOUS
  <1>a. PICK started : started = root
    OBVIOUS
  <1>b. PICK declared : declared = dtd
    OBVIOUS
  <1>10. Well(P, n, open, e, started, declared)
    BY <1>1, <1>4, <1>5, <1>9, <1>a, <1>b DEF Begun
  <1>11. PICK r \in Nat : r = n + 1
    OBVIOUS
  <1>12. x.k \notin {"text", "decl"} => ~Dropped(x) /\ ~Joins(P, x)
    BY DEF Dropped, Joins
  <1>13. ~Dropped(x) /\ ~Joins(P, x) => Longer(P, Q, n, x) /\ Len(Q) = r
    BY <1>2, <1>3, <1>4, <1>8, <1>11, FollowingNode
  <1>14. Begun' <=> /\ Well(Q, Len(Q), stack', Len(stack'), root', dtd')
                    /\ Bytes(output') > Limits.output_bytes => output' = <<Declaration>>
    BY <1>7 DEF Begun
  <1>15. ~(Bytes(output') > Limits.output_bytes)
    <2>1. PICK b \in Nat : b = Bytes(output)
      BY BytesFacts DEF WriterTypeOK
    <2>2. PICK size \in Nat : size = ItemSize(x)
      BY SizeNat
    <2>3. Bytes(output') = b + size
      BY <1>6, <2>1, <2>2, BytesFacts DEF WriterTypeOK
    <2>4. ~(b > Limits.output_bytes) /\ ~(size > Limits.output_bytes - b)
      BY <2>1, <2>2 DEF Writes, Wrote
    <2> QED
      BY <2>3, <2>4, LimitTypes
  <1>16. CASE WroteDoctype(x)
    <2>1. Longer(P, Q, n, x) /\ Len(Q) = r
      BY <1>12, <1>13, <1>16 DEF WroteDoctype
    <2>2. x.n # ""
      <3>1. x.n \in ShortNames
        BY <1>16, WritableFields DEF WroteDoctype
      <3> QED
        BY <3>1, LimitsAssumption DEF ShortNames
    <2>3. /\ x.k = "doctype" /\ ~started /\ declared = ""
          /\ stack' = open /\ root' = started /\ dtd' = x.n
      BY <1>9, <1>a, <1>b, <1>16 DEF WroteDoctype
    <2>4. PICK named : named = x.n
      OBVIOUS
    <2>5. MayFollow(x, e, started, declared, named)
      BY <2>2, <2>3, <2>4 DEF MayFollow
    <2>6. Well(Q, r, open, e, started, named)
      BY <1>10, <1>11, <2>1, <2>5, WellOther
    <2> QED
      BY <1>5, <1>9, <1>14, <1>15, <2>1, <2>3, <2>4, <2>6
  <1>17. CASE WroteText(x)
    <2>1. /\ x.k = "text" /\ e > 0
          /\ stack' = open /\ root' = started /\ dtd' = declared
      <3>1. stack # <<>> => e > 0
        BY <1>5, StackFacts
      <3> QED
        BY <1>9, <1>a, <1>b, <1>17, <3>1 DEF WroteText
    <2>2. CASE Dropped(x)
      <3>1. Q = P
        BY <1>2, <1>3, <1>8, <2>2, AddNodeCases
      <3> QED
        BY <1>4, <1>5, <1>9, <1>10, <1>14, <1>15, <2>1, <3>1
    <2>3. CASE Joins(P, x)
      <3>1. Len(Q) = n /\ Skeleton(P, Q, n)
        <4>1. Extended(P, Q, n, x)
          BY <1>2, <1>3, <1>4, <1>8, <2>3, JoinedNode
        <4> QED
          BY <4>1 DEF Skeleton, Extended
      <3>2. Well(Q, n, open, e, started, declared)
        BY <1>10, <3>1, WellSkeleton
      <3> QED
        BY <1>5, <1>9, <1>14, <1>15, <2>1, <3>1, <3>2
    <2>4. CASE ~Dropped(x) /\ ~Joins(P, x)
      <3>1. Longer(P, Q, n, x) /\ Len(Q) = r
        BY <1>13, <2>4
      <3>2. MayFollow(x, e, started, declared, declared)
        BY <2>1 DEF MayFollow
      <3>3. Well(Q, r, open, e, started, declared)
        BY <1>10, <1>11, <3>1, <3>2, WellOther
      <3> QED
        BY <1>5, <1>9, <1>14, <1>15, <2>1, <3>1, <3>3
    <2> QED
      BY <2>2, <2>3, <2>4
  <1>18. CASE WroteStart(x)
    <2>1. Longer(P, Q, n, x) /\ Len(Q) = r
      BY <1>12, <1>13, <1>18 DEF WroteStart
    <2>a. RootIsFirst(e, started)
      <3>1. e = 0 => stack = <<>>
        BY <1>5, StackFacts
      <3> QED
        BY <1>a, <1>18, <3>1 DEF WroteStart, RootIsFirst
    <2>2. /\ x.k = "start"
          /\ stack' = Append(open, x.n) /\ root' = TRUE /\ dtd' = declared
      BY <1>9, <1>b, <1>18 DEF WroteStart
    <2>3. PICK more : more = stack'
      OBVIOUS
    <2>4. PICK f \in Nat : f = e + 1
      OBVIOUS
    <2>5. Pushed(open, e, more, f, x) /\ Len(more) = f
      <3>1. PICK T : T = ShortNames
        OBVIOUS
      <3>2. open \in Seq(T) /\ x.n \in T
        BY <1>9, <2>2, <3>1, WritableFields DEF WriterTypeOK
      <3> QED
        BY <1>5, <1>9, <2>2, <2>3, <2>4, <3>2 DEF Pushed
    <2>6. Well(Q, r, more, f, TRUE, declared)
      BY <1>10, <1>11, <2>a, <2>1, <2>2, <2>5, WellStart
    <2> QED
      BY <1>14, <1>15, <2>1, <2>2, <2>3, <2>5, <2>6
  <1>19. CASE WroteEnd(x)
    <2>1. Longer(P, Q, n, x) /\ Len(Q) = r
      BY <1>12, <1>13, <1>19 DEF WroteEnd
    <2>2. /\ x.k = "end" /\ e # 0 /\ x.n = open[e]
          /\ stack' = SubSeq(open, 1, e - 1) /\ root' = started /\ dtd' = declared
      <3>1. e = 0 => stack = <<>>
        BY <1>5, StackFacts
      <3> QED
        BY <1>5, <1>9, <1>a, <1>b, <1>19, <3>1 DEF WroteEnd
    <2>3. PICK less : less = stack'
      OBVIOUS
    <2>4. PICK f \in Nat : e = f + 1 /\ f = e - 1
      BY <2>2
    <2>5. Popped(open, e, less, f, x) /\ Len(less) = f
      <3>1. PICK T : T = ShortNames
        OBVIOUS
      <3>2. open \in Seq(T)
        BY <1>9, <3>1 DEF WriterTypeOK
      <3> QED
        BY <1>5, <1>9, <2>2, <2>3, <2>4, <3>2 DEF Popped
    <2>6. Well(Q, r, less, f, started, declared)
      BY <1>10, <1>11, <2>1, <2>2, <2>5, WellEnd
    <2> QED
      BY <1>14, <1>15, <2>1, <2>2, <2>3, <2>5, <2>6
  <1> QED
    BY <1>16, <1>17, <1>18, <1>19 DEF Writes, WroteOne

LEMMA WriterInvStep == WriterInv /\ [NativeNext]_nativeVars => WriterInv'
  <1> SUFFICES ASSUME WriterInv, [NativeNext]_nativeVars PROVE WriterInv'
    OBVIOUS
  <1>0. WriterTypeOK /\ WriterTypeOK'
    BY TypeStep DEF WriterInv
  <1>1. CASE Unwritten
    BY <1>0, <1>1 DEF WriterInv, Begun, Unwritten
  <1>2. CASE Finished
    BY <1>0, <1>2 DEF WriterInv, Finished
  <1>3. ASSUME NEW x \in Writable, Writes(x) PROVE WriterInv'
    <2>1. Begun
      BY <1>3 DEF WriterInv, Writes, Wrote
    <2> QED
      BY <1>0, <1>3, <2>1, BegunStep DEF WriterInv
  <1> QED
    BY <1>0, <1>1, <1>2, <1>3, NextDoes DEF NextCases, Called, Refused

LEMMA NodesOfDeclaration == Nodes(<<Declaration>>) = <<>>
  <1>1. <<>> \in Seq(Items) /\ Declaration \in Items
    <2>1. <<>> \in Seq(Items)
      OBVIOUS
    <2> QED
      BY <2>1, DeclarationIsWritable, WritableFields
  <1>2. <<Declaration>> = Append(<<>>, Declaration)
    <2>1. \A y : <<y>> = Append(<<>>, y)
      OBVIOUS
    <2> QED
      BY <2>1
  <1>3. Nodes(<<Declaration>>) = AddNode(Nodes(<<>>), Declaration) /\ Nodes(<<>>) = <<>>
    BY <1>1, <1>2, NodesFacts
  <1>4. Dropped(Declaration)
    BY DeclarationIsWritable DEF Dropped
  <1> QED
    BY <1>1, <1>3, <1>4, AddNodeCases

LEMMA InitWriterInv ==
 NativeInit => WriterInv
  <1> SUFFICES ASSUME NativeInit PROVE WriterInv
    OBVIOUS
  <1>1. /\ output = <<Declaration>> /\ dtd = "" /\ stack = <<>> /\ root = FALSE
        /\ finished = FALSE /\ file = <<>>
    BY DEF NativeInit
  <1>2. WriterTypeOK
    <2>1. <<Declaration>> \in Seq(Writable)
      BY DeclarationIsWritable
    <2>2. <<>> \in Seq(Writable) /\ <<>> \in Seq(ShortNames)
      OBVIOUS
    <2> QED
      BY <1>1, <2>1, <2>2 DEF WriterTypeOK
  <1>3. Nodes(output) = <<>>
    BY <1>1, NodesOfDeclaration
  <1>4. OpenAt(<<>>, 0) = 0
    BY OpenFacts
  <1>5. Well(<<>>, 0, <<>>, 0, FALSE, "")
    BY <1>4 DEF Well, Seen
  <1> QED
    BY <1>1, <1>2, <1>3, <1>5 DEF WriterInv, Begun
-----------------------------------------------------------------------------
(* What is left to write when the output is closed.                        *)
OneByOne(part, b, n) == \A k \in 1..n : part[k] = Append(part[k - 1], b[k])

LEMMA ConcatOneByOne ==
  ASSUME NEW A, NEW a \in Seq(A), NEW b \in Seq(A), NEW n \in Nat, n = Len(b)
  PROVE  \E part \in [0..n -> Seq(A)] :
           part[0] = a /\ part[n] = a \o b /\ OneByOne(part, b, n)
  <1>1. PICK part : part = [k \in 0..n |-> a \o SubSeq(b, 1, k)]
    OBVIOUS
  <1>2. \A k \in 0..n : SubSeq(b, 1, k) \in Seq(A)
    OBVIOUS
  <1>3. part \in [0..n -> Seq(A)]
    BY <1>1, <1>2, ConcatProperties
  <1>4. part[0] = a
    <2>1. SubSeq(b, 1, 0) = <<>>
      BY SubSeqEmpty
    <2>2. 0 \in 0..n
      OBVIOUS
    <2>3. a \o <<>> = a
      BY ConcatEmptySeq
    <2> QED
      BY <1>1, <2>1, <2>2, <2>3
  <1>5. part[n] = a \o b
    <2>1. SubSeq(b, 1, n) = b
      BY SubSeqFull
    <2> QED
      BY <1>1, <2>1
  <1>6. ASSUME NEW k \in 1..n PROVE part[k] = Append(part[k - 1], b[k])
    <2>1. PICK j \in 0..n : j = k - 1 /\ k \in 0..n /\ 1 \in 1..Len(b) /\ k \in 1..Len(b)
      OBVIOUS
    <2>2. SubSeq(b, 1, k) = SubSeq(b, 1, j) \o <<b[k]>>
      BY <2>1, SubSeqRecursiveSecond
    <2>3. PICK s \in Seq(A) : s = SubSeq(b, 1, j)
      BY <1>2, <2>1
    <2>4. PICK x \in A : x = b[k]
      OBVIOUS
    <2>5. <<x>> \in Seq(A)
      OBVIOUS
    <2>6. a \o (s \o <<x>>) = (a \o s) \o <<x>>
      BY <2>5, ConcatAssociative
    <2>7. a \o s \in Seq(A)
      BY ConcatProperties
    <2>8. \A t \in Seq(A) : t \o <<x>> = Append(t, x)
      OBVIOUS
    <2>9. part[k] = a \o (s \o <<x>>) /\ part[j] = a \o s
      BY <1>1, <2>1, <2>2, <2>3, <2>4
    <2> QED
      BY <2>1, <2>4, <2>6, <2>7, <2>8, <2>9
  <1> QED
    BY <1>3, <1>4, <1>5, <1>6 DEF OneByOne

LEMMA ClosingFacts ==
  ASSUME WriterTypeOK, NEW e \in Nat, e = Len(stack), NEW ends, ends = Closing
  PROVE  /\ ends \in Seq(Writable) /\ Len(ends) = e
         /\ \A i \in 1..e : /\ ends[i] = Item("end", stack[e + 1 - i], <<>>, <<>>)
                            /\ ends[i] \in Writable
  <1>1. ends = [i \in 1..e |-> Item("end", stack[e + 1 - i], <<>>, <<>>)]
    BY DEF Closing
  <1>2. ASSUME NEW i \in 1..e PROVE Item("end", stack[e + 1 - i], <<>>, <<>>) \in Writable
    <2>1. PICK T : T = ShortNames
      OBVIOUS
    <2>2. stack \in Seq(T)
      BY <2>1, StackFacts
    <2>3. PICK d \in 1..e : d = e + 1 - i
      OBVIOUS
    <2>4. stack[d] \in ShortNames
      BY <2>1, <2>2, <2>3
    <2>5. Len(<<>>) <= Limits.attributes
      BY LimitTypes
    <2> QED
      BY <2>3, <2>4, <2>5, EmptyAttributes, TagIsWritable
  <1>3. PICK T : T = Writable
    OBVIOUS
  <1>4. \A i \in 1..e : ends[i] \in T
    BY <1>1, <1>2, <1>3
  <1>5. ends \in Seq(T) /\ Len(ends) = e
    BY <1>1, <1>4
  <1> QED
    BY <1>1, <1>3, <1>4, <1>5

LEMMA ClosedWell ==
  ASSUME WriterTypeOK, Begun, NEW Q, Q = Nodes(output \o Closing)
  PROVE  /\ Q \in Seq(Items) /\ Len(Q) \in Nat
         /\ Well(Q, Len(Q), stack, 0, root, dtd)
  <1>1. PICK e \in Nat : e = Len(stack)
    BY StackFacts
  <1>2. PICK ends : ends = Closing
    OBVIOUS
  <1>3. /\ ends \in Seq(Writable) /\ Len(ends) = e
        /\ \A i \in 1..e : /\ ends[i] = Item("end", stack[e + 1 - i], <<>>, <<>>)
                           /\ ends[i] \in Writable
    BY <1>1, <1>2, ClosingFacts
  <1>4. ends \in Seq(Items) /\ output \in Seq(Items)
    BY <1>3, WritableSeq DEF WriterTypeOK
  <1>5. PICK part \in [0..e -> Seq(Items)] :
          part[0] = output /\ part[e] = output \o ends /\ OneByOne(part, ends, e)
    BY <1>3, <1>4, ConcatOneByOne
  <1>6. PICK open : open = stack
    OBVIOUS
  <1>7. PICK started : started = root
    OBVIOUS
  <1>8. PICK declared : declared = dtd
    OBVIOUS
  <1> DEFINE Fits(k) == Well(Nodes(part[k]), Len(Nodes(part[k])), open, e - k, started, declared)
             S == {k \in 0..e : Fits(k)}
  <1>9. \A k \in 0..e : Nodes(part[k]) \in Seq(Items)
    BY <1>5, NodesFacts
  <1>10. 0 \in S
    <2>1. e - 0 = e
      OBVIOUS
    <2> QED
      BY <1>1, <1>5, <1>6, <1>7, <1>8, <2>1 DEF Begun
  <1>11. ASSUME NEW k \in 1..e, k - 1 \in S PROVE k \in S
    <2>1. PICK j \in 0..e : j = k - 1
      OBVIOUS
    <2>2. PICK x : x = ends[k]
      OBVIOUS
    <2>3. x \in Writable /\ x.k = "end" /\ x.n = stack[e + 1 - k]
      BY <1>3, <2>2 DEF Item
    <2>4. x \in Items
      BY <2>3, WritableFields
    <2>5. part[k] = Append(part[j], x)
      BY <1>5, <2>1, <2>2 DEF OneByOne
    <2>6. PICK P : P = Nodes(part[j])
      OBVIOUS
    <2>7. P \in Seq(Items)
      BY <1>9, <2>6
    <2>8. PICK R : R = Nodes(part[k])
      OBVIOUS
    <2>9. R = AddNode(P, x)
      <3>1. part[j] \in Seq(Items)
        BY <1>5
      <3> QED
        BY <2>4, <2>5, <2>6, <2>8, <3>1, NodesFacts
    <2>10. PICK n \in Nat : n = Len(P)
      BY <2>7
    <2>11. PICK r \in Nat : r = n + 1
      OBVIOUS
    <2>12. Longer(P, R, n, x) /\ Len(R) = r
      <3>1. ~Dropped(x) /\ ~Joins(P, x)
        BY <2>3 DEF Dropped, Joins
      <3> QED
        BY <2>4, <2>7, <2>9, <2>10, <2>11, <3>1, FollowingNode
    <2>13. PICK d \in Nat : d = e - j
      BY <2>1
    <2>14. PICK f \in Nat : f = e - k /\ d = f + 1 /\ d = e + 1 - k
      BY <2>1, <2>13
    <2>15. Well(P, n, open, d, started, declared)
      BY <1>11, <2>1, <2>6, <2>10, <2>13
    <2>16. Popped(open, d, open, f, x)
      BY <1>6, <2>3, <2>14 DEF Popped
    <2>17. Well(R, r, open, f, started, declared)
      BY <2>3, <2>11, <2>12, <2>15, <2>16, WellEnd
    <2> QED
      BY <2>8, <2>12, <2>14, <2>17
  <1>12. 0..e \subseteq S
    <2> HIDE DEF S
    <2> QED
      BY <1>10, <1>11, CountUp
  <1>13. e \in 0..e /\ e - e = 0
    OBVIOUS
  <1>14. Fits(e)
    BY <1>12, <1>13
  <1>15. Q = Nodes(part[e])
    BY <1>2, <1>5
  <1>16. Q \in Seq(Items)
    BY <1>9, <1>13, <1>15
  <1> QED
    BY <1>6, <1>7, <1>8, <1>13, <1>14, <1>15, <1>16

LEMMA InvCanBeClosed == WriterInv => OutputCanBeClosed
  <1> SUFFICES ASSUME WriterInv, ~finished PROVE OutputCanBeClosed
    BY DEF OutputCanBeClosed
  <1>1. WriterTypeOK /\ Begun
    BY DEF WriterInv
  <1>2. PICK Q : Q = Nodes(output \o Closing)
    OBVIOUS
  <1>3. PICK n \in Nat : n = Len(Q) /\ DOMAIN Q = 1..n
    BY <1>1, <1>2, ClosedWell
  <1>4. Well(Q, n, stack, 0, root, dtd)
    BY <1>1, <1>2, <1>3, ClosedWell
  <1>5. root <=> Complete(Q)
    BY <1>3, <1>4 DEF Well, Complete, Seen
  <1>6. ASSUME NEW i \in 1..n
        PROVE  \/ Legal(Q, i)
               \/ Q[i].k = "start" /\ ~NamesAreBound(Q, i)
               \/ BadCharacters(Q[i])
    <2>1. Legal(Q, i) <=> Sound(Q, i)
      BY <1>4, PlacedIsLegal DEF Well
    <2> QED
      BY <2>1 DEF Sound
  <1> QED
    BY <1>1, <1>2, <1>3, <1>5, <1>6 DEF OutputCanBeClosed, Begun

(* Whatever calls failed before, the output is the beginning of a document *)
(* that the end tags of the stack complete, within its limit, with nothing *)
(* wrong in it but the names and characters no call looks at.              *)
THEOREM OutputCanAlwaysBeClosed == NativeSpec => []OutputCanBeClosed
  <1>1. NativeSpec => []WriterInv
    BY InitWriterInv, WriterInvStep, PTL DEF NativeSpec
  <1> QED
    BY <1>1, InvCanBeClosed, PTL

(* The end of a document and an error are final: next() answers the same   *)
(* again, and reports nothing more.                                        *)
THEOREM OutcomeIsAlwaysFinal == NativeSpec => OutcomeIsFinal
  <1>1. [NativeNext]_nativeVars => [reader \notin {"none", "open"} => UNCHANGED <<reader, reported>>]_nativeVars
    BY DEF NativeNext, nativeVars, OpenOutput, OpenOther, ReaderNext, NextAgain, NextMalformed,
           NextNode, NextEnd, readerVars
  <1> QED
    BY <1>1, PTL DEF NativeSpec, OutcomeIsFinal
-----------------------------------------------------------------------------
(* Reading the file that was handed out.                                   *)
LEMMA ReadBackIs ==
  /\ ReadBackLimits.input_bytes = Limits.output_bytes
  /\ ReadBackLimits.text_bytes = Limits.text_bytes
  /\ ReadBackLimits.attributes = Limits.attributes
  /\ ReadBackLimits.depth = Limits.depth
  /\ ReadBackLimits.events = Limits.events
  <1>1. PICK l : l = Limits
    OBVIOUS
  <1>2. l \in [input_bytes : Nat, output_bytes : Nat, text_bytes : Nat,
               attributes : Nat, depth : Nat, events : Nat]
    BY <1>1, LimitsAssumption DEF AllLimits
  <1>3. PICK b : b = Limits.output_bytes
    OBVIOUS
  <1>4. ReadBackLimits = [l EXCEPT !.input_bytes = b]
    BY <1>1, <1>3 DEF ReadBackLimits
  <1> QED
    BY <1>1, <1>2, <1>3, <1>4

LEMMA SameNodeError ==
  ASSUME NEW P, NEW i
  PROVE  NodeError(P, i, ReadBackLimits) = NodeError(P, i, Limits)
  BY ReadBackIs DEF NodeError, TooLong

(* A document finish() accepts is opened by a Reader, or is longer than    *)
(* the Reader's input may be.                                              *)
LEMMA AcceptedOpens ==
  ASSUME NEW items, OpenError(items, ReadBackLimits) = "none"
  PROVE  \/ OpenError(items, Limits) = "none"
         \/ /\ OpenError(items, Limits) = "limit_exceeded"
            /\ Bytes(items) > Limits.input_bytes
  BY DEF OpenError, DoctypeCheck

LEMMA WholeIsLegal ==
  ASSUME NEW P, NEW n \in Nat, n = Len(P), DOMAIN P = 1..n, WellFormed(P)
  PROVE  LegalPrefix(P) = n
  <1>1. PICK S : S = {i \in 0..n : \A j \in 1..i : Legal(P, j)}
    OBVIOUS
  <1>2. n \in S /\ S \subseteq 0..n
    BY <1>1 DEF WellFormed
  <1>3. \A k \in S : (\A j \in S : k >= j) => k = n
    BY <1>2
  <1>4. \A j \in S : n >= j
    BY <1>2
  <1>5. Sets!Max(S) = n
    BY <1>2, <1>3, <1>4 DEF Sets!Max
  <1> QED
    BY <1>1, <1>5 DEF LegalPrefix

(* What is known of the Reader once the file is out.                       *)
ReadsFile ==
  /\ output = <<>>
  /\ ReadsToEnd(file, ReadBackLimits)
  /\ reader # "none" =>
       /\ doc = file /\ limits = Limits /\ position \in Nat
       /\ \/ reader \in {"open", "ended"}
          \/ reader = "limit_exceeded" /\ Bytes(file) > Limits.input_bytes

FileInv == WriterTypeOK /\ (finished => ReadsFile)

LEMMA ReaderStep ==
  ASSUME FileInv, finished, UNCHANGED writerVars, OpenOutput \/ OpenOther \/ ReaderNext
  PROVE  ReadsFile'
  <1>1. PICK P : P = Nodes(file)
    OBVIOUS
  <1>2. /\ output = <<>> /\ OpenError(file, ReadBackLimits) = "none" /\ WellFormed(P)
        /\ \A i \in DOMAIN P : NodeError(P, i, ReadBackLimits) = "none"
    BY <1>1 DEF FileInv, ReadsFile, ReadsToEnd
  <1>3. P \in Seq(Items)
    BY <1>1, WritableSeq, NodesFacts DEF FileInv, WriterTypeOK
  <1>4. PICK n \in Nat : n = Len(P) /\ DOMAIN P = 1..n
    BY <1>3
  <1>5. output' = output /\ file' = file
    BY DEF writerVars
  <1>6. ReadsToEnd(file', ReadBackLimits) /\ output' = <<>>
    BY <1>5 DEF FileInv, ReadsFile
  <1>7. CASE OpenOutput
    <2>1. /\ doc' = file /\ limits' = Limits /\ position' = 0
          /\ reader' = IF OpenError(file, Limits) = "none" THEN "open" ELSE OpenError(file, Limits)
      BY <1>7 DEF OpenOutput, Open
    <2>2. \/ reader' = "open"
          \/ reader' = "limit_exceeded" /\ Bytes(file) > Limits.input_bytes
      BY <1>2, <2>1, AcceptedOpens
    <2> QED
      BY <1>5, <1>6, <2>1, <2>2 DEF ReadsFile
  <1>8. CASE OpenOther
    <2>1. PICK y : y = Declaration
      OBVIOUS
    <2>2. <<y>> # <<>>
      OBVIOUS
    <2> QED
      BY <1>2, <1>8, <2>1, <2>2 DEF OpenOther
  <1>9. CASE ReaderNext
    <2>0. reader # "none" => /\ doc = file /\ limits = Limits /\ position \in Nat
                             /\ \/ reader \in {"open", "ended"}
                                \/ reader = "limit_exceeded" /\ Bytes(file) > Limits.input_bytes
      BY DEF FileInv, ReadsFile
    <2>1. CASE NextAgain
      BY <1>5, <1>6, <2>0, <2>1 DEF NextAgain, readerVars, ReadsFile
    <2>2. CASE NextMalformed
      BY <1>1, <1>2, <2>0, <2>2 DEF NextMalformed
    <2>3. CASE NextNode
      <3>1. /\ reader = "open" /\ Nodes(doc) = P /\ doc' = file /\ position \in Nat
            /\ limits = Limits /\ limits' = Limits
        BY <1>1, <2>0, <2>3 DEF NextNode
      <3>2. position < n /\ position' = position + 1
        BY <1>2, <1>4, <2>3, <3>1, WholeIsLegal DEF NextNode
      <3>3. PICK p \in Nat : p = position
        BY <3>1
      <3>4. PICK q \in 1..n : q = position'
        BY <3>2, <3>3
      <3>5. NodeError(P, q, Limits) = "none"
        BY <1>2, <1>4, SameNodeError
      <3>6. reader' = reader
        BY <2>3, <3>1, <3>4, <3>5 DEF NextNode
      <3> QED
        BY <1>5, <1>6, <3>1, <3>4, <3>6 DEF ReadsFile

    <2>4. CASE NextEnd
      <3>1. /\ doc' = doc /\ limits' = limits /\ position' = position
            /\ reader' = "ended" /\ reader = "open"
        BY <2>4 DEF NextEnd
      <3> QED
        BY <1>5, <1>6, <2>0, <3>1 DEF ReadsFile
    <2> QED
      BY <1>9, <2>1, <2>2, <2>3, <2>4 DEF ReaderNext
  <1> QED
    BY <1>7, <1>8, <1>9

LEMMA FileInvStep == FileInv /\ [NativeNext]_nativeVars => FileInv'
  <1> SUFFICES ASSUME FileInv, [NativeNext]_nativeVars PROVE FileInv'
    OBVIOUS
  <1>0. WriterTypeOK /\ WriterTypeOK' /\ finished \in BOOLEAN
    BY TypeStep DEF FileInv, WriterTypeOK
  <1>1. CASE Called /\ reader = "none" /\ UNCHANGED readerVars
    <2>1. reader' = "none"
      BY <1>1 DEF readerVars
    <2>2. CASE Unwritten
      BY <1>0, <1>1, <2>1, <2>2 DEF Unwritten, FileInv, ReadsFile
    <2>3. CASE Finished
      BY <1>0, <1>1, <2>1, <2>3 DEF Finished, FileInv, ReadsFile
    <2>4. ASSUME NEW x \in Writable, Writes(x) PROVE FileInv'
      <3>1. finished' = FALSE
        BY <1>0, <2>4 DEF Writes, Wrote
      <3> QED
        BY <1>0, <3>1 DEF FileInv
    <2> QED
      BY <1>1, <2>2, <2>3, <2>4 DEF Called, Refused
  <1>2. CASE (OpenOutput \/ OpenOther \/ ReaderNext) /\ UNCHANGED writerVars
    <2>1. finished' = finished
      BY <1>2 DEF writerVars
    <2> QED
      BY <1>0, <1>2, <2>1, ReaderStep DEF FileInv
  <1>3. CASE UNCHANGED nativeVars
    BY <1>0, <1>3 DEF nativeVars, writerVars, readerVars, FileInv, ReadsFile
  <1>4. reader = "none" /\ WriterNext /\ UNCHANGED readerVars
          => Called /\ reader = "none" /\ UNCHANGED readerVars
    BY <1>0, CallsDo
  <1> QED
    BY <1>1, <1>2, <1>3, <1>4 DEF NativeNext

LEMMA InitFileInv == NativeInit => FileInv
  BY InitWriterInv DEF WriterInv, FileInv, NativeInit

(* A file handed out can be read by a Reader with the same limits, unless  *)
(* its input limit is below the writer's output limit: finish() has read   *)
(* all of it back, with limits that differ in the size of the input only.  *)
THEOREM OwnFileAlwaysReads == NativeSpec => []OwnFileReads
  <1>1. FileInv => OwnFileReads
    BY DEF FileInv, ReadsFile, OwnFileReads
  <1> QED
    BY <1>1, InitFileInv, FileInvStep, PTL DEF NativeSpec
-----------------------------------------------------------------------------
(* What finish() refuses.  The properties of the items that matter to the  *)
(* reader are those of the nodes; each is followed through one more item.  *)
Grows(items, N, x, its, M) ==
  /\ N \in Nat /\ M = N + 1 /\ x \in Writable /\ x.k # "decl"
  /\ items \in Seq(Writable) /\ Len(items) = N /\ DOMAIN items = 1..N
  /\ its \in Seq(Writable) /\ Len(its) = M /\ DOMAIN its = 1..M
  /\ its[M] = x /\ \A i \in 1..N : its[i] = items[i] /\ items[i] \in Writable

Ignored(P, n, x, Q, r)   == Dropped(x) /\ Q = P /\ r = n
Prolonged(P, n, x, Q, r) == /\ x.k = "text" /\ x.t # <<>> /\ n > 0 /\ P[n].k = "text"
                            /\ r = n /\ Extended(P, Q, n, x)
Followed(P, n, x, Q, r)  == /\ ~Dropped(x) /\ r = n + 1 /\ Longer(P, Q, n, x)
                            /\ n > 0 /\ x.k = "text" => P[n].k # "text"

NodesGrow(P, n, x, Q, r) ==
  /\ P \in Seq(Items) /\ n \in Nat /\ n = Len(P)
  /\ Q \in Seq(Items) /\ r \in Nat /\ r = Len(Q)
  /\ Ignored(P, n, x, Q, r) \/ Prolonged(P, n, x, Q, r) \/ Followed(P, n, x, Q, r)

LEMMA GrowsIs ==
  ASSUME NEW items \in Seq(Writable), NEW x \in Writable, x.k # "decl",
         NEW N \in Nat, N = Len(items), NEW M \in Nat, M = N + 1,
         NEW its, its = Append(items, x)
  PROVE  Grows(items, N, x, its, M)
  <1>1. PICK T : T = Writable
    OBVIOUS
  <1>2. items \in Seq(T) /\ x \in T
    BY <1>1
  <1>3. /\ its \in Seq(T) /\ Len(its) = M /\ DOMAIN its = 1..M /\ its[M] = x
        /\ DOMAIN items = 1..N
        /\ \A i \in 1..N : its[i] = items[i] /\ items[i] \in T
    BY <1>2
  <1> QED
    BY <1>1, <1>3 DEF Grows

LEMMA NodesGrowIs ==
  ASSUME NEW P \in Seq(Items), NEW x \in Items, NEW n \in Nat, n = Len(P),
         NEW Q, Q = AddNode(P, x), NEW r, r = Len(Q)
  PROVE  NodesGrow(P, n, x, Q, r)
  <1>1. Q \in Seq(Items)
    BY AddNodeType
  <1>2. r \in Nat
    BY <1>1
  <1>a. n > 0 <=> P # <<>>
    OBVIOUS
  <1>3. CASE Dropped(x)
    BY <1>1, <1>2, <1>3, AddNodeCases DEF NodesGrow, Ignored
  <1>4. CASE Joins(P, x)
    <2>1. Extended(P, Q, n, x)
      BY <1>4, JoinedNode
    <2>2. r = n
      BY <2>1 DEF Extended
    <2> QED
      BY <1>1, <1>2, <1>a, <1>4, <2>1, <2>2 DEF NodesGrow, Prolonged, Joins
  <1>5. CASE ~Dropped(x) /\ ~Joins(P, x)
    <2>1. Longer(P, Q, n, x) /\ r = n + 1
      BY <1>5, FollowingNode
    <2> QED
      BY <1>1, <1>2, <1>a, <1>5, <2>1 DEF NodesGrow, Followed, Dropped, Joins
  <1> QED
    BY <1>3, <1>4, <1>5

(* Characters no call looks at.                                            *)
BadAlike(items, N, P, n) ==
  (\E i \in 1..N : BadCharacters(items[i])) <=> (\E i \in 1..n : BadCharacters(P[i]))

LEMMA NoCharacter == Range(<<>>) = {}
  <1>1. DOMAIN <<>> = {}
    OBVIOUS
  <1> QED
    BY <1>1 DEF Range

LEMMA BadGrows ==
  ASSUME NEW items, NEW N, NEW x, NEW its, NEW M, Grows(items, N, x, its, M),
         NEW P, NEW n, NEW Q, NEW r, NodesGrow(P, n, x, Q, r),
         BadAlike(items, N, P, n)
  PROVE  BadAlike(its, M, Q, r)
  <1>0. n \in Nat /\ N \in Nat /\ M = N + 1
    BY DEF Grows, NodesGrow
  <1>1. (\E i \in 1..M : BadCharacters(its[i])) <=> (\E i \in 1..N : BadCharacters(items[i])) \/ BadCharacters(x)
    <2>1. \A i \in 1..M : i = M \/ i \in 1..N
      BY <1>0
    <2>2. M \in 1..M /\ \A i \in 1..N : i \in 1..M
      BY <1>0
    <2>3. its[M] = x /\ \A i \in 1..N : its[i] = items[i]
      BY DEF Grows
    <2> QED
      BY <2>1, <2>2, <2>3
  <1>2. /\ x.k \in {"doctype", "start", "end", "text"} /\ (x.k # "text" => x.t = <<>>)
        /\ x.t \in Seq(DOMAIN CharSize)
    BY WritableFields DEF Grows
  <1>3. CASE Ignored(P, n, x, Q, r)
    <2>1. ~BadCharacters(x)
      BY <1>2, <1>3, NoCharacter DEF Ignored, Dropped, BadCharacters
    <2> QED
      BY <1>1, <1>3, <2>1 DEF Ignored, BadAlike
  <1>4. CASE Prolonged(P, n, x, Q, r)
    <2>1. /\ \A i \in 1..n : i # n => P[i] = Q[i]
          /\ Q[n].k = "text" /\ P[n].k = "text" /\ Q[n].t = P[n].t \o x.t
          /\ n \in 1..n /\ x.k = "text" /\ r = n
      BY <1>4 DEF Prolonged, Extended
    <2>2. P[n].t \in Seq(DOMAIN CharSize)
      <3>1. PICK y : y = P[n]
        OBVIOUS
      <3>2. y \in Items
        BY <2>1, <3>1 DEF NodesGrow
      <3> QED
        BY <3>1, <3>2, ItemTypes
    <2>3. Range(Q[n].t) = Range(P[n].t) \cup Range(x.t)
      BY <1>2, <2>1, <2>2, ConcatRange
    <2>4. BadCharacters(Q[n]) <=> BadCharacters(P[n]) \/ BadCharacters(x)
      BY <2>1, <2>3 DEF BadCharacters
    <2>5. (\E i \in 1..n : BadCharacters(Q[i])) <=> (\E i \in 1..n : BadCharacters(P[i])) \/ BadCharacters(x)
      BY <2>1, <2>4
    <2> QED
      BY <1>1, <2>1, <2>5 DEF BadAlike
  <1>5. CASE Followed(P, n, x, Q, r)
    <2>1. r = n + 1 /\ Q[r] = x /\ \A i \in 1..n : Q[i] = P[i]
      BY <1>5 DEF Followed, Longer
    <2>3. r \in 1..r /\ (\A i \in 1..r : i = r \/ i \in 1..n) /\ \A i \in 1..n : i \in 1..r
      BY <1>0, <2>1
    <2>4. (\E i \in 1..r : BadCharacters(Q[i])) <=> (\E i \in 1..n : BadCharacters(P[i])) \/ BadCharacters(x)
      BY <2>1, <2>3
    <2> QED
      BY <1>1, <2>4 DEF BadAlike
  <1> QED
    BY <1>3, <1>4, <1>5 DEF NodesGrow

(* Texts, whatever they hold.                                              *)
TextAlike(items, N, P, n) ==
  (\E i \in 1..N : items[i].k = "text" /\ items[i].t # <<>>) <=> (\E i \in 1..n : P[i].k = "text")

LEMMA TextGrows ==
  ASSUME NEW items, NEW N, NEW x, NEW its, NEW M, Grows(items, N, x, its, M),
         NEW P, NEW n, NEW Q, NEW r, NodesGrow(P, n, x, Q, r),
         TextAlike(items, N, P, n)
  PROVE  TextAlike(its, M, Q, r)
  <1>0. n \in Nat /\ N \in Nat /\ M = N + 1
    BY DEF Grows, NodesGrow
  <1> DEFINE Any(y) == y.k = "text" /\ y.t # <<>>
  <1>1. (\E i \in 1..M : Any(its[i])) <=> (\E i \in 1..N : Any(items[i])) \/ Any(x)
    <2>1. \A i \in 1..M : i = M \/ i \in 1..N
      BY <1>0
    <2>2. M \in 1..M /\ \A i \in 1..N : i \in 1..M
      BY <1>0
    <2>3. its[M] = x /\ \A i \in 1..N : its[i] = items[i]
      BY DEF Grows
    <2> QED
      BY <2>1, <2>2, <2>3
  <1>2. CASE Ignored(P, n, x, Q, r)
    <2>1. ~Any(x) /\ Q = P /\ r = n
      BY <1>2 DEF Ignored, Dropped
    <2> QED
      BY <1>1, <2>1 DEF TextAlike
  <1>3. CASE Prolonged(P, n, x, Q, r)
    <2>1. Any(x) /\ P[n].k = "text" /\ n \in 1..n /\ r = n /\ \A i \in 1..n : P[i].k = Q[i].k
      BY <1>0, <1>3 DEF Prolonged, Extended
    <2> QED
      BY <1>1, <2>1 DEF TextAlike
  <1>4. CASE Followed(P, n, x, Q, r)
    <2>1. r = n + 1 /\ Q[r] = x /\ \A i \in 1..n : Q[i] = P[i]
      BY <1>4 DEF Followed, Longer
    <2>2. Any(x) <=> x.k = "text"
      BY <1>4 DEF Followed, Dropped
    <2>3. r \in 1..r /\ (\A i \in 1..r : i = r \/ i \in 1..n) /\ \A i \in 1..n : i \in 1..r
      BY <1>0, <2>1
    <2>4. (\E i \in 1..r : Q[i].k = "text") <=> (\E i \in 1..n : P[i].k = "text") \/ x.k = "text"
      BY <2>1, <2>3
    <2> QED
      BY <1>1, <2>2, <2>4 DEF TextAlike
  <1> QED
    BY <1>2, <1>3, <1>4 DEF NodesGrow

(* Texts as deep as an element may be.                                     *)
TextAt(items, i) == items[i].k = "text" /\ items[i].t # <<>> /\ OpenAt(items, i) >= Limits.depth
NodeAt(P, i) == P[i].k = "text" /\ OpenAt(P, i) >= Limits.depth

DeepAlike(items, N, P, n) ==
  /\ OpenAt(items, N) = OpenAt(P, n)
  /\ (\E i \in 1..N : TextAt(items, i)) <=> (\E i \in 1..n : NodeAt(P, i))

LEMMA DeepGrows ==
  ASSUME NEW items, NEW N, NEW x, NEW its, NEW M, Grows(items, N, x, its, M),
         NEW P, NEW n, NEW Q, NEW r, NodesGrow(P, n, x, Q, r),
         DeepAlike(items, N, P, n)
  PROVE  DeepAlike(its, M, Q, r)
  <1>0. n \in Nat /\ N \in Nat /\ M \in Nat /\ M = N + 1
    BY DEF Grows, NodesGrow
  <1>1. Longer(items, its, N, x)
    BY DEF Grows, Longer
  <1>2. /\ \A i \in 0..N : OpenAt(its, i) = OpenAt(items, i)
        /\ OpenAt(its, M) = OpenAt(items, N) + Step(x)
        /\ its[M] = x /\ \A i \in 1..N : its[i] = items[i]
    BY <1>0, <1>1, LongerFacts DEF Longer
  <1>3. OpenAt(P, n) \in Int /\ OpenAt(items, N) = OpenAt(P, n)
    <2>1. OpenType(P, n) /\ n \in 0..n
      BY <1>0, OpenFacts
    <2> QED
      BY <2>1 DEF OpenType, DeepAlike
  <1>4. (\E i \in 1..M : TextAt(its, i)) <=> (\E i \in 1..N : TextAt(items, i)) \/ TextAt(its, M)
    <2>1. \A i \in 1..M : i = M \/ i \in 1..N
      BY <1>0
    <2>2. M \in 1..M /\ \A i \in 1..N : i \in 1..M /\ i \in 0..N
      BY <1>0
    <2>3. \A i \in 1..N : TextAt(its, i) <=> TextAt(items, i)
      BY <1>2, <2>2 DEF TextAt
    <2> QED
      BY <2>1, <2>2, <2>3
  <1>5. x.k = "text" \/ x.k = "decl" => Step(x) = 0
    BY DEF Step
  <1>6. CASE Ignored(P, n, x, Q, r)
    <2>1. ~TextAt(its, M) /\ OpenAt(its, M) = OpenAt(P, n)
      BY <1>2, <1>3, <1>5, <1>6 DEF Ignored, Dropped, TextAt
    <2> QED
      BY <1>4, <1>6, <2>1 DEF Ignored, DeepAlike
  <1>7. CASE Prolonged(P, n, x, Q, r)
    <2>1. x.k = "text" /\ n \in 1..n /\ P[n].k = "text" /\ r = n /\ Skeleton(P, Q, n)
      BY <1>7 DEF Prolonged, Extended, Skeleton
    <2>2. \A i \in 0..n : OpenAt(P, i) = OpenAt(Q, i)
      BY <1>0, <2>1, SkeletonOpen
    <2>3. \A i \in 1..n : i \in 0..n /\ P[i].k = Q[i].k
      BY <1>0, <2>1 DEF Skeleton
    <2>4. \A i \in 1..n : NodeAt(P, i) <=> NodeAt(Q, i)
      BY <2>2, <2>3 DEF NodeAt
    <2>5. OpenAt(its, M) = OpenAt(P, n)
      BY <1>2, <1>3, <1>5, <2>1
    <2>6. TextAt(its, M) => NodeAt(P, n)
      BY <1>2, <2>1, <2>5 DEF TextAt, NodeAt
    <2>7. OpenAt(its, M) = OpenAt(Q, r)
      BY <1>0, <2>1, <2>2, <2>5
    <2> QED
      BY <1>4, <2>1, <2>4, <2>6, <2>7 DEF DeepAlike
  <1>8. CASE Followed(P, n, x, Q, r)
    <2>0. Longer(P, Q, n, x)
      BY <1>8 DEF Followed
    <2>1. r \in Nat /\ r = n + 1 /\ n \in Nat
      BY <1>8 DEF Followed, NodesGrow
    <2>2. /\ \A i \in 0..n : OpenAt(Q, i) = OpenAt(P, i)
          /\ OpenAt(Q, r) = OpenAt(P, n) + Step(x)
          /\ Q[r] = x /\ \A i \in 1..n : Q[i] = P[i]
      <3>1. /\ Skeleton(P, Q, n)
            /\ \A i \in 0..n : OpenAt(Q, i) = OpenAt(P, i) /\ OpenAt(P, i) \in Int
            /\ OpenAt(Q, r) = OpenAt(P, n) + Step(x)
            /\ Q[r] = x
        BY <2>0, <2>1, LongerFacts
      <3> QED
        BY <2>0, <2>1, <3>1 DEF Longer


    <2>3. \A i \in 1..n : NodeAt(P, i) <=> NodeAt(Q, i)
      <3>1. \A i \in 1..n : i \in 0..n
        OBVIOUS
      <3> QED
        BY <2>2, <3>1 DEF NodeAt
    <2>4. OpenAt(its, M) = OpenAt(Q, r)
      BY <1>2, <1>3, <2>2
    <2>5. TextAt(its, M) <=> NodeAt(Q, r)
      BY <1>2, <1>8, <2>2, <2>4 DEF TextAt, NodeAt, Followed, Dropped
    <2>6. r \in 1..r /\ (\A i \in 1..r : i = r \/ i \in 1..n) /\ \A i \in 1..n : i \in 1..r
      BY <1>0, <2>1
    <2>7. (\E i \in 1..r : NodeAt(Q, i)) <=> (\E i \in 1..n : NodeAt(P, i)) \/ NodeAt(Q, r)
      BY <2>3, <2>6
    <2> QED
      BY <1>4, <2>4, <2>5, <2>7 DEF DeepAlike
  <1> QED
    BY <1>6, <1>7, <1>8 DEF NodesGrow
(* Texts that touch, and the one the nodes end with.                       *)
Chars(items, i, j) == Total([k \in 1..j - i + 1 |-> Len(items[i + k - 1].t)])

LensFrom(items, i, m) == [k \in 1..m |-> Len(items[i + k - 1].t)]

LeftFrom(items, N, i, m) ==
  /\ items \in Seq(Writable) /\ N \in Nat /\ N = Len(items)
  /\ i \in 1..N + 1 /\ m \in Nat /\ m = N - i + 1

LEMMA CharsAre ==
  ASSUME NEW items, NEW N, NEW i, NEW m, LeftFrom(items, N, i, m),
         NEW f, f = LensFrom(items, i, m)
  PROVE  f \in Seq(Nat) /\ Len(f) = m /\ Chars(items, i, N) = Total(f)
  <1>0. /\ items \in Seq(Writable) /\ N \in Nat /\ N = Len(items)
        /\ i \in 1..N + 1 /\ m \in Nat /\ m = N - i + 1
    BY DEF LeftFrom
  <1>1. ASSUME NEW k \in 1..m PROVE Len(items[i + k - 1].t) \in Nat
    <2>1. PICK p \in 1..N : p = i + k - 1
      BY <1>0
    <2>2. PICK y : y = items[p]
      OBVIOUS
    <2>3. y \in Writable
      BY <1>0, <2>2
    <2>4. y.t \in Seq(DOMAIN CharSize)
      BY <2>3, WritableFields
    <2>5. Len(y.t) \in Nat
      BY <2>4
    <2> QED
      BY <2>1, <2>2, <2>5
  <1>2. f \in Seq(Nat) /\ Len(f) = m
    BY <1>0, <1>1 DEF LensFrom
  <1> QED
    BY <1>0, <1>2 DEF Chars, LensFrom

CharsGrow(items, N, x, its, M) ==
  /\ \A i \in 1..M : /\ Chars(items, i, N) \in Nat
                     /\ Chars(its, i, M) = Chars(items, i, N) + Len(x.t)
  /\ \A i \in 1..N, j \in 1..N : Chars(its, i, j) = Chars(items, i, j)
  /\ Chars(its, M + 1, M) = 0
  /\ Len(x.t) \in Nat /\ Len(x.t) <= Limits.text_bytes

LEMMA CharsFacts ==
  ASSUME NEW items, NEW N, NEW x, NEW its, NEW M, Grows(items, N, x, its, M)
  PROVE  CharsGrow(items, N, x, its, M)
  <1>0. /\ N \in Nat /\ M \in Nat /\ M = N + 1 /\ items \in Seq(Writable) /\ its \in Seq(Writable)
        /\ Len(items) = N /\ Len(its) = M /\ its[M] = x
        /\ \A i \in 1..N : its[i] = items[i]
    BY DEF Grows
  <1>1. Len(x.t) \in Nat /\ Len(x.t) <= Limits.text_bytes
    <2>1. x.t \in Seq(DOMAIN CharSize) /\ Len(x.t) <= Limits.text_bytes
      BY WritableFields DEF Grows
    <2> QED
      BY <2>1
  <1>2. ASSUME NEW i \in 1..M
        PROVE  /\ Chars(items, i, N) \in Nat
               /\ Chars(its, i, M) = Chars(items, i, N) + Len(x.t)
    <2>1. PICK m \in Nat : m = N - i + 1
      BY <1>0
    <2>2. PICK f : f = LensFrom(items, i, m)
      OBVIOUS
    <2>a. PICK p \in Nat : p = m + 1
      OBVIOUS
    <2>3. PICK g : g = LensFrom(its, i, p)
      OBVIOUS
    <2>4. f \in Seq(Nat) /\ Len(f) = m /\ Chars(items, i, N) = Total(f)
      <3>1. LeftFrom(items, N, i, m)
        BY <1>0, <2>1 DEF LeftFrom
      <3> QED
        BY <2>2, <3>1, CharsAre
    <2>5. Chars(its, i, M) = Total(g)
      <3>1. LeftFrom(its, M, i, p)
        BY <1>0, <2>1, <2>a DEF LeftFrom
      <3> QED
        BY <2>3, <3>1, CharsAre
    <2>6. PICK s \in Nat : s = Len(x.t)
      BY <1>1
    <2>7. PICK h : h = Append(f, s)
      OBVIOUS
    <2>8. /\ h \in Seq(Nat) /\ Len(h) = p /\ h[p] = s
          /\ \A k \in 1..m : h[k] = f[k]
      BY <2>a, <2>4, <2>6, <2>7
    <2>9. ASSUME NEW k \in 1..p PROVE g[k] = h[k]
      <3>1. CASE k = p
        <4>1. i + k - 1 = M
          BY <1>0, <2>1, <2>a, <3>1
        <4> QED
          BY <1>0, <2>3, <2>6, <2>8, <3>1, <4>1 DEF LensFrom
      <3>2. CASE k # p
        <4>1. k \in 1..m /\ i + k - 1 \in 1..N
          BY <1>0, <2>1, <2>a, <3>2
        <4> QED
          BY <1>0, <2>2, <2>3, <2>8, <4>1 DEF LensFrom
      <3> QED
        BY <3>1, <3>2
    <2>10. g = h
      <3>1. h = [k \in 1..p |-> h[k]]
        BY <2>8
      <3>2. g = [k \in 1..p |-> g[k]]
        BY <2>3 DEF LensFrom
      <3> QED
        BY <2>9, <3>1, <3>2
    <2> QED
      BY <2>4, <2>5, <2>6, <2>7, <2>10, TotalFacts
  <1>3. ASSUME NEW i \in 1..N, NEW j \in 1..N PROVE Chars(its, i, j) = Chars(items, i, j)
    <2>1. \A k \in 1..j - i + 1 : i + k - 1 \in 1..N
      BY <1>0
    <2>2. \A k \in 1..j - i + 1 : Len(its[i + k - 1].t) = Len(items[i + k - 1].t)
      BY <1>0, <2>1
    <2>3. [k \in 1..j - i + 1 |-> Len(its[i + k - 1].t)]
            = [k \in 1..j - i + 1 |-> Len(items[i + k - 1].t)]
      BY <2>2
    <2> QED
      BY <2>3 DEF Chars
  <1>4. Chars(its, M + 1, M) = 0
    <2>0. PICK p \in 1..M + 1 : p = M + 1
      BY <1>0
    <2>a. PICK z \in Nat : z = 0
      OBVIOUS
    <2>1. PICK f : f = LensFrom(its, p, z)
      OBVIOUS
    <2>2. LeftFrom(its, M, p, z)
      BY <1>0, <2>0, <2>a DEF LeftFrom
    <2>b. f \in Seq(Nat) /\ Len(f) = z /\ Chars(its, p, M) = Total(f)
      BY <2>1, <2>2, CharsAre

    <2>3. f \in Seq(Nat) /\ Len(f) = 0 /\ Chars(its, M + 1, M) = Total(f)
      BY <2>0, <2>a, <2>b

    <2>4. f = <<>>
      BY <2>3
    <2> QED
      BY <2>3, <2>4, TotalFacts
  <1> QED
    BY <1>1, <1>2, <1>3, <1>4 DEF CharsGrow

(* The items end with texts from item b on, of c characters.               *)
TailRun(items, N, P, n, b, c) ==
  /\ b \in Nat /\ 2 <= b /\ b <= N + 1 /\ c \in Nat
  /\ items[b - 1].k # "text" /\ \A i \in b..N : items[i].k = "text"
  /\ Chars(items, b, N) = c /\ \A i \in b..N + 1 : Chars(items, i, N) <= c
  /\ c > 0 <=> \E i \in b..N : items[i].t # <<>>
  /\ c > 0 => n > 0 /\ P[n].k = "text" /\ Len(P[n].t) = c
  /\ c = 0 /\ n > 0 => P[n].k # "text"

LEMMA TailText ==
  ASSUME NEW items, NEW N, NEW x, NEW its, NEW M, Grows(items, N, x, its, M),
         NEW P, NEW n, NEW Q, NEW r, NodesGrow(P, n, x, Q, r),
         NEW b, NEW c, TailRun(items, N, P, n, b, c), x.k = "text",
         NEW d, d = c + Len(x.t)
  PROVE  TailRun(its, M, Q, r, b, d)
  <1>0. /\ N \in Nat /\ M \in Nat /\ M = N + 1 /\ n \in Nat
        /\ its[M] = x /\ \A i \in 1..N : its[i] = items[i]
    BY DEF Grows, NodesGrow
  <1>1. /\ b \in Nat /\ 2 <= b /\ b <= N + 1 /\ c \in Nat
        /\ items[b - 1].k # "text" /\ \A i \in b..N : items[i].k = "text"
        /\ Chars(items, b, N) = c /\ \A i \in b..N + 1 : Chars(items, i, N) <= c
        /\ c > 0 <=> \E i \in b..N : items[i].t # <<>>
    BY DEF TailRun
  <1>2. /\ \A i \in 1..M : /\ Chars(items, i, N) \in Nat
                           /\ Chars(its, i, M) = Chars(items, i, N) + Len(x.t)
        /\ Chars(its, M + 1, M) = 0 /\ Len(x.t) \in Nat
    BY CharsFacts DEF CharsGrow
  <1>3. PICK s \in Nat : s = Len(x.t) /\ d = c + s
    BY <1>2
  <1>a. s = 0 <=> x.t = <<>>
    <2>1. x.t \in Seq(DOMAIN CharSize)
      BY WritableFields DEF Grows
    <2> QED
      BY <1>3, <2>1
  <1>4. d \in Nat /\ b <= M + 1 /\ b - 1 \in 1..N /\ b \in 1..M
    BY <1>0, <1>1, <1>3
  <1>5. its[b - 1].k # "text" /\ \A i \in b..M : its[i].k = "text"
    <2>1. \A i \in b..M : i = M \/ (i \in b..N /\ i \in 1..N)
      BY <1>0, <1>1
    <2> QED
      BY <1>0, <1>1, <1>4, <2>1
  <1>6. Chars(its, b, M) = d /\ \A i \in b..M + 1 : Chars(its, i, M) <= d
    <2>1. ASSUME NEW i \in b..M + 1 PROVE Chars(its, i, M) <= d
      <3>1. CASE i = M + 1
        BY <1>2, <1>4, <3>1
      <3>2. CASE i # M + 1
        <4>1. i \in b..N + 1 /\ i \in 1..M
          BY <1>0, <1>1, <3>2
        <4>2. PICK p \in Nat : p = Chars(items, i, N) /\ p <= c
          BY <1>1, <1>2, <4>1
        <4> QED
          BY <1>1, <1>2, <1>3, <4>1, <4>2
      <3> QED
        BY <3>1, <3>2
    <2> QED
      BY <1>1, <1>2, <1>3, <1>4, <2>1
  <1>7. d > 0 <=> \E i \in b..M : its[i].t # <<>>
    <2>1. \A i \in b..M : i = M \/ (i \in b..N /\ i \in 1..N)
      BY <1>0, <1>1
    <2>2. M \in b..M /\ \A i \in b..N : i \in b..M /\ i \in 1..N
      BY <1>0, <1>1
    <2>3. (\E i \in b..M : its[i].t # <<>>) <=> x.t # <<>> \/ \E i \in b..N : items[i].t # <<>>
      BY <1>0, <2>1, <2>2
    <2>4. d > 0 <=> s > 0 \/ c > 0
      BY <1>1, <1>3
    <2> QED
      BY <1>1, <1>3, <1>a, <2>3, <2>4
  <1>8. /\ d > 0 => r > 0 /\ Q[r].k = "text" /\ Len(Q[r].t) = d
        /\ d = 0 /\ r > 0 => Q[r].k # "text"
    <2>0. /\ c > 0 => n > 0 /\ P[n].k = "text" /\ Len(P[n].t) = c
          /\ c = 0 /\ n > 0 => P[n].k # "text"
      BY DEF TailRun
    <2>1. CASE Ignored(P, n, x, Q, r)
      <3>1. s = 0 /\ Q = P /\ r = n
        BY <1>a, <2>1 DEF Ignored, Dropped
      <3> QED
        BY <1>1, <1>3, <2>0, <3>1
    <2>2. CASE Prolonged(P, n, x, Q, r)
      <3>1. /\ x.t # <<>> /\ n > 0 /\ n \in 1..n /\ P[n].k = "text" /\ r = n
            /\ Q[n].k = P[n].k /\ Q[n].t = P[n].t \o x.t
        BY <2>2 DEF Prolonged, Extended
      <3>2. c > 0 /\ Len(P[n].t) = c
        BY <1>1, <2>0, <3>1
      <3>3. Len(Q[n].t) = c + s
        <4>1. PICK y : y = P[n]
          OBVIOUS
        <4>2. y \in Items
          BY <3>1, <4>1 DEF NodesGrow
        <4>3. PICK T : T = DOMAIN CharSize
          OBVIOUS
        <4>4. y.t \in Seq(T) /\ x.t \in Seq(T)
          BY <4>2, <4>3, ItemTypes, WritableFields DEF Grows
        <4>5. Len(y.t \o x.t) = Len(y.t) + Len(x.t)
          BY <4>4
        <4> QED
          BY <1>3, <3>1, <3>2, <4>1, <4>5
      <3> QED
        BY <1>1, <1>3, <3>1, <3>2, <3>3
    <2>3. CASE Followed(P, n, x, Q, r)
      <3>1. s > 0 /\ r = n + 1 /\ Q[r] = x /\ (n > 0 => P[n].k # "text")
        BY <1>3, <1>a, <2>3 DEF Followed, Dropped, Longer
      <3>2. c = 0
        BY <1>1, <2>0, <3>1
      <3> QED
        BY <1>0, <1>3, <3>1, <3>2
    <2> QED
      BY <2>1, <2>2, <2>3 DEF NodesGrow
  <1> QED
    BY <1>1, <1>4, <1>5, <1>6, <1>7, <1>8 DEF TailRun

LEMMA TailMark ==
  ASSUME NEW items, NEW N, NEW x, NEW its, NEW M, Grows(items, N, x, its, M),
         NEW P, NEW n, NEW Q, NEW r, NodesGrow(P, n, x, Q, r),
         N > 0, x.k # "text", NEW b, b = M + 1
  PROVE  TailRun(its, M, Q, r, b, 0) /\ Followed(P, n, x, Q, r)
  <1>0. /\ N \in Nat /\ M \in Nat /\ M = N + 1 /\ n \in Nat /\ its[M] = x /\ x.k # "decl"
    BY DEF Grows, NodesGrow
  <1>1. Chars(its, b, M) = 0
    BY CharsFacts DEF CharsGrow
  <1>2. /\ b \in Nat /\ 2 <= b /\ b <= M + 1 /\ b - 1 = M
        /\ (\A i \in b..M : FALSE) /\ \A i \in b..M + 1 : i = b
    BY <1>0
  <1>3. Followed(P, n, x, Q, r)
    BY <1>0 DEF NodesGrow, Ignored, Dropped, Prolonged
  <1>4. r = n + 1 /\ Q[r] = x
    BY <1>3 DEF Followed, Longer
  <1> QED
    BY <1>0, <1>1, <1>2, <1>3, <1>4 DEF TailRun
(* Texts too long when they touch, and the nodes they make.                *)
LongPair(items, i, j) == Touching(items, i, j) /\ Chars(items, i, j) > Limits.text_bytes
LongNode(P, i) == Len(P[i].t) > Limits.text_bytes

LongAlike(items, N, P, n) ==
  (\E i \in 1..N, j \in 1..N : LongPair(items, i, j)) <=> (\E i \in 1..n : LongNode(P, i))

LEMMA SamePairs ==
  ASSUME NEW items, NEW N, NEW x, NEW its, NEW M, Grows(items, N, x, its, M),
         NEW i \in 1..N, NEW j \in 1..N
  PROVE  LongPair(its, i, j) <=> LongPair(items, i, j)
  <1>0. N \in Nat /\ \A k \in 1..N : its[k] = items[k]
    BY DEF Grows
  <1>1. \A k \in i..j : k \in 1..N
    BY <1>0
  <1>2. Touching(its, i, j) <=> Touching(items, i, j)
    BY <1>0, <1>1 DEF Touching
  <1>3. Chars(its, i, j) = Chars(items, i, j)
    BY CharsFacts DEF CharsGrow
  <1> QED
    BY <1>2, <1>3 DEF LongPair

LEMMA LongTextGrows ==
  ASSUME NEW items, NEW N, NEW x, NEW its, NEW M, Grows(items, N, x, its, M),
         NEW P, NEW n, NEW Q, NEW r, NodesGrow(P, n, x, Q, r),
         NEW b, NEW c, TailRun(items, N, P, n, b, c), x.k = "text",
         LongAlike(items, N, P, n)
  PROVE  LongAlike(its, M, Q, r)
  <1>0. /\ N \in Nat /\ M \in Nat /\ M = N + 1 /\ n \in Nat
        /\ its[M] = x /\ \A i \in 1..N : its[i] = items[i]
    BY DEF Grows, NodesGrow
  <1>1. PICK s \in Nat : s = Len(x.t) /\ s <= Limits.text_bytes
    BY CharsFacts DEF CharsGrow
  <1>2. PICK d : d = c + s
    OBVIOUS
  <1>3. TailRun(its, M, Q, r, b, d)
    BY <1>1, <1>2, TailText
  <1>4. /\ b \in Nat /\ 2 <= b /\ b <= N + 1 /\ c \in Nat /\ d \in Nat
        /\ items[b - 1].k # "text" /\ \A i \in b..M : its[i].k = "text"
        /\ Chars(its, b, M) = d /\ \A i \in b..M + 1 : Chars(its, i, M) <= d
        /\ c > 0 <=> \E i \in b..N : items[i].t # <<>>
    BY <1>3 DEF TailRun
  <1>5. PICK bound \in Nat : bound = Limits.text_bytes
    BY LimitTypes
  <1>6. (\E i \in 1..M, j \in 1..M : LongPair(its, i, j))
          <=> d > bound \/ \E i \in 1..N, j \in 1..N : LongPair(items, i, j)
    <2>1. ASSUME NEW i \in 1..N, NEW j \in 1..N, LongPair(items, i, j)
          PROVE  i \in 1..M /\ j \in 1..M /\ LongPair(its, i, j)
      BY <1>0, <2>1, SamePairs
    <2>2. ASSUME d > bound PROVE b \in 1..M /\ M \in 1..M /\ LongPair(its, b, M)
      <3>1. c > 0
        BY <1>1, <1>2, <1>4, <1>5, <2>2
      <3>2. b < M
        BY <1>0, <1>4, <3>1
      <3>3. Touching(its, b, M)
        BY <1>4, <3>2 DEF Touching
      <3> QED
        BY <1>0, <1>4, <1>5, <2>2, <3>2, <3>3 DEF LongPair
    <2>3. ASSUME NEW i \in 1..M, NEW j \in 1..M, LongPair(its, i, j)
          PROVE  d > bound \/ (i \in 1..N /\ j \in 1..N /\ LongPair(items, i, j))
      <3>0. i < j /\ \A k \in i..j : its[k].k = "text"
        BY <2>3 DEF LongPair, Touching
      <3>1. CASE j # M
        <4>1. i \in 1..N /\ j \in 1..N
          BY <1>0, <3>0, <3>1
        <4> QED
          BY <2>3, <4>1, SamePairs
      <3>2. CASE j = M
        <4>1. i >= b
          <5>1. its[b - 1].k # "text" /\ b - 1 \in 1..N
            BY <1>0, <1>4
          <5>2. b - 1 \notin i..M
            BY <3>0, <3>2, <5>1
          <5> QED
            BY <1>0, <1>4, <5>1, <5>2
        <4>2. i \in b..M + 1 /\ i \in 1..M
          BY <1>0, <1>4, <4>1
        <4>3. Chars(its, i, M) <= d /\ Chars(its, i, M) > bound
          BY <1>4, <1>5, <2>3, <3>2, <4>2 DEF LongPair
        <4>4. Chars(its, i, M) \in Nat
          <5>1. PICK p \in Nat : p = Chars(items, i, N)
            BY <4>2, CharsFacts DEF CharsGrow
          <5>2. Chars(its, i, M) = p + s
            BY <1>1, <4>2, <5>1, CharsFacts DEF CharsGrow
          <5> QED
            BY <5>2
        <4>5. PICK p \in Nat : p = Chars(its, i, M)
          BY <4>4
        <4> QED
          BY <1>4, <4>3, <4>5
      <3> QED
        BY <3>1, <3>2
    <2> QED
      BY <2>1, <2>2, <2>3
  <1>7. (\E i \in 1..r : LongNode(Q, i)) <=> d > bound \/ \E i \in 1..n : LongNode(P, i)
    <2>0. /\ c > 0 => n > 0 /\ P[n].k = "text" /\ Len(P[n].t) = c
          /\ c = 0 /\ n > 0 => P[n].k # "text"
          /\ d > 0 => r > 0 /\ Q[r].k = "text" /\ Len(Q[r].t) = d
      BY <1>3 DEF TailRun
    <2>1. CASE Ignored(P, n, x, Q, r)
      <3>1. s = 0 /\ Q = P /\ r = n
        BY <1>1, <2>1, WritableFields DEF Ignored, Dropped, Grows
      <3>2. d > bound => n \in 1..n /\ LongNode(P, n)
        BY <1>0, <1>2, <1>4, <1>5, <2>0, <3>1 DEF LongNode
      <3> QED
        BY <3>1, <3>2
    <2>2. CASE Prolonged(P, n, x, Q, r)
      <3>1. /\ n > 0 /\ n \in 1..n /\ P[n].k = "text" /\ r = n
            /\ \A i \in 1..n : i # n => P[i] = Q[i]
        BY <2>2 DEF Prolonged, Extended
      <3>2. c > 0 /\ Len(P[n].t) = c /\ Len(Q[n].t) = d
        BY <1>2, <1>4, <2>0, <3>1
      <3>3. (LongNode(Q, n) <=> d > bound) /\ (LongNode(P, n) <=> c > bound)
        BY <1>5, <3>2 DEF LongNode
      <3>4. c > bound => d > bound
        BY <1>2, <1>4, <1>5
      <3>5. \A i \in 1..n : i # n => (LongNode(P, i) <=> LongNode(Q, i))
        BY <3>1 DEF LongNode
      <3> QED
        BY <3>1, <3>3, <3>4, <3>5
    <2>3. CASE Followed(P, n, x, Q, r)
      <3>1. /\ r = n + 1 /\ Q[r] = x /\ (n > 0 => P[n].k # "text")
            /\ \A i \in 1..n : Q[i] = P[i]
        BY <2>3 DEF Followed, Longer
      <3>2. c = 0
        BY <1>4, <2>0, <3>1
      <3>3. ~LongNode(Q, r) /\ ~(d > bound)
        BY <1>1, <1>2, <1>5, <3>1, <3>2 DEF LongNode
      <3>4. (\A i \in 1..r : i = r \/ i \in 1..n) /\ \A i \in 1..n : i \in 1..r
        BY <1>0, <3>1
      <3>5. \A i \in 1..n : LongNode(P, i) <=> LongNode(Q, i)
        BY <3>1 DEF LongNode
      <3> QED
        BY <3>3, <3>4, <3>5
    <2> QED
      BY <2>1, <2>2, <2>3 DEF NodesGrow
  <1> QED
    BY <1>6, <1>7 DEF LongAlike

LEMMA LongMarkGrows ==
  ASSUME NEW items, NEW N, NEW x, NEW its, NEW M, Grows(items, N, x, its, M),
         NEW P, NEW n, NEW Q, NEW r, NodesGrow(P, n, x, Q, r),
         N > 0, x.k # "text", LongAlike(items, N, P, n)
  PROVE  LongAlike(its, M, Q, r)
  <1>0. N \in Nat /\ M \in Nat /\ M = N + 1 /\ n \in Nat /\ its[M] = x
    BY DEF Grows, NodesGrow
  <1>1. (\E i \in 1..M, j \in 1..M : LongPair(its, i, j))
          <=> \E i \in 1..N, j \in 1..N : LongPair(items, i, j)
    <2>1. ASSUME NEW i \in 1..N, NEW j \in 1..N, LongPair(items, i, j)
          PROVE  i \in 1..M /\ j \in 1..M /\ LongPair(its, i, j)
      BY <1>0, <2>1, SamePairs
    <2>3. ASSUME NEW i \in 1..M, NEW j \in 1..M, LongPair(its, i, j)
          PROVE  i \in 1..N /\ j \in 1..N /\ LongPair(items, i, j)
      <3>0. i < j /\ \A k \in i..j : its[k].k = "text"
        BY <2>3 DEF LongPair, Touching
      <3>1. j \in i..j
        BY <3>0
      <3>2. j # M
        BY <1>0, <3>0, <3>1
      <3>3. i \in 1..N /\ j \in 1..N
        BY <1>0, <3>0, <3>2
      <3> QED
        BY <2>3, <3>3, SamePairs
    <2> QED
      BY <2>1, <2>3
  <1>2. Followed(P, n, x, Q, r)
    BY TailMark
  <1>3. r = n + 1 /\ Q[r] = x /\ \A i \in 1..n : Q[i] = P[i]
    BY <1>2 DEF Followed, Longer
  <1>4. ~LongNode(Q, r)
    <2>1. PICK bound \in Nat : bound = Limits.text_bytes
      BY LimitTypes
    <2>2. x.t = <<>> /\ Len(<<>>) = 0
      BY WritableFields DEF Grows
    <2> QED
      BY <1>3, <2>1, <2>2 DEF LongNode

  <1>5. (\A i \in 1..r : i = r \/ i \in 1..n) /\ \A i \in 1..n : i \in 1..r
    BY <1>0, <1>3
  <1>6. \A i \in 1..n : LongNode(P, i) <=> LongNode(Q, i)
    BY <1>3 DEF LongNode
  <1>7. (\E i \in 1..r : LongNode(Q, i)) <=> \E i \in 1..n : LongNode(P, i)
    BY <1>4, <1>5, <1>6
  <1> QED
    BY <1>1, <1>7 DEF LongAlike
(* The events: one for each tag and one for each run of texts.             *)
MarkKinds == {"doctype", "start", "end"}
MarksIn(items, N) == {i \in 1..N : items[i].k \in MarkKinds}

CountAlike(items, N, n) ==
  Cardinality(MarksIn(items, N)) + Cardinality(TextRuns(items)) = n

LEMMA CountTypes ==
  ASSUME NEW items, NEW N \in Nat, DOMAIN items = 1..N
  PROVE  /\ IsFiniteSet(MarksIn(items, N)) /\ Cardinality(MarksIn(items, N)) \in Nat
         /\ IsFiniteSet(TextRuns(items)) /\ Cardinality(TextRuns(items)) \in Nat
         /\ MarksIn(items, N) \subseteq 1..N /\ TextRuns(items) \subseteq 1..N
  <1>1. IsFiniteSet(1..N)
    BY FS_Interval
  <1>2. MarksIn(items, N) \subseteq 1..N /\ TextRuns(items) \subseteq 1..N
    BY DEF MarksIn, TextRuns, TextsIn
  <1> QED
    BY <1>1, <1>2, FS_Subset, FS_CardinalityType

LEMMA SameRuns ==
  ASSUME NEW items, NEW N, NEW x, NEW its, NEW M, Grows(items, N, x, its, M),
         NEW i \in 1..N
  PROVE  i \in TextRuns(its) <=> i \in TextRuns(items)
  <1>0. /\ N \in Nat /\ M = N + 1 /\ \A k \in 1..N : its[k] = items[k]
        /\ DOMAIN items = 1..N /\ DOMAIN its = 1..M
    BY DEF Grows
  <1>1. \A j \in 1..N : j \in 1..M /\ (j \in TextsIn(its) <=> j \in TextsIn(items))
    BY <1>0 DEF TextsIn
  <1>2. \A j \in TextsIn(its) : j = M \/ j \in 1..N
    BY <1>0 DEF TextsIn
  <1>3. \A j \in TextsIn(items) : j \in 1..N
    BY <1>0 DEF TextsIn
  <1>4. ~Touching(its, M, i)
    BY <1>0 DEF Touching
  <1>5. ASSUME NEW j \in 1..N PROVE Touching(its, j, i) <=> Touching(items, j, i)
    <2>1. \A k \in j..i : k \in 1..N
      BY <1>0
    <2> QED
      BY <1>0, <2>1 DEF Touching
  <1> QED
    BY <1>1, <1>2, <1>3, <1>4, <1>5 DEF TextRuns

LEMMA CountTextGrows ==
  ASSUME NEW items, NEW N, NEW x, NEW its, NEW M, Grows(items, N, x, its, M),
         NEW P, NEW n, NEW Q, NEW r, NodesGrow(P, n, x, Q, r),
         NEW b, NEW c, TailRun(items, N, P, n, b, c), x.k = "text",
         CountAlike(items, N, n)
  PROVE  CountAlike(its, M, r)
  <1>0. /\ N \in Nat /\ M \in Nat /\ M = N + 1 /\ n \in Nat
        /\ its[M] = x /\ (\A i \in 1..N : its[i] = items[i])
        /\ DOMAIN items = 1..N /\ DOMAIN its = 1..M
    BY DEF Grows, NodesGrow
  <1>1. /\ b \in Nat /\ 2 <= b /\ b <= N + 1 /\ c \in Nat
        /\ items[b - 1].k # "text" /\ \A i \in b..N : items[i].k = "text"
        /\ c > 0 <=> \E i \in b..N : items[i].t # <<>>
        /\ c > 0 => n > 0 /\ P[n].k = "text" /\ Len(P[n].t) = c
        /\ c = 0 /\ n > 0 => P[n].k # "text"
    BY DEF TailRun
  <1>2. MarksIn(its, M) = MarksIn(items, N)
    <2>1. \A i \in 1..M : i = M \/ i \in 1..N
      BY <1>0
    <2>2. \A i \in 1..N : i \in 1..M
      BY <1>0
    <2> QED
      BY <1>0, <2>1, <2>2 DEF MarksIn, MarkKinds
  <1>3. M \in TextRuns(its) <=> x.t # <<>> /\ c = 0
    <2>1. M \in TextsIn(its) <=> x.t # <<>>
      BY <1>0 DEF TextsIn
    <2>2. ASSUME NEW j \in TextsIn(its), Touching(its, j, M) PROVE c > 0
      <3>1. /\ j \in 1..M /\ j < M /\ its[j].t # <<>>
            /\ \A k \in j..M : its[k].k = "text"
        BY <1>0, <2>2 DEF TextsIn, Touching
      <3>2. j \in 1..N
        BY <1>0, <3>1
      <3>3. b - 1 \in 1..N /\ its[b - 1].k # "text"
        BY <1>0, <1>1
      <3>4. b - 1 \notin j..M
        BY <3>1, <3>3
      <3>5. j \in b..N
        BY <1>0, <1>1, <3>2, <3>3, <3>4
      <3> QED
        BY <1>0, <1>1, <3>1, <3>2, <3>5
    <2>3. ASSUME c > 0 PROVE \E j \in TextsIn(its) : Touching(its, j, M)
      <3>1. PICK j \in b..N : items[j].t # <<>>
        BY <1>1, <2>3
      <3>2. j \in 1..N /\ j \in 1..M /\ j < M
        BY <1>0, <1>1
      <3>3. \A k \in j..M : k = M \/ (k \in b..N /\ k \in 1..N)
        BY <1>0, <1>1
      <3>4. Touching(its, j, M)
        BY <1>0, <1>1, <3>2, <3>3 DEF Touching
      <3>5. j \in TextsIn(its)
        BY <1>0, <1>1, <3>1, <3>2 DEF TextsIn
      <3> QED
        BY <3>4, <3>5
    <2>4. c = 0 <=> ~(c > 0)
      BY <1>1
    <2> QED
      BY <2>1, <2>2, <2>3, <2>4 DEF TextRuns
  <1>4. TextRuns(its) = IF x.t # <<>> /\ c = 0 THEN TextRuns(items) \cup {M} ELSE TextRuns(items)
    <2>1. TextRuns(its) \subseteq 1..M /\ TextRuns(items) \subseteq 1..N
      BY <1>0, CountTypes
    <2>2. \A i \in 1..M : i = M \/ i \in 1..N
      BY <1>0
    <2>3. \A i \in 1..N : i \in TextRuns(its) <=> i \in TextRuns(items)
      BY SameRuns
    <2> QED
      BY <1>3, <2>1, <2>2, <2>3
  <1>5. M \notin TextRuns(items)
    <2>1. TextRuns(items) \subseteq 1..N /\ M \notin 1..N
      BY <1>0, CountTypes
    <2> QED
      BY <2>1
  <1>6. r = IF x.t # <<>> /\ c = 0 THEN n + 1 ELSE n
    <2>1. CASE Ignored(P, n, x, Q, r)
      BY <2>1 DEF Ignored, Dropped, Grows
    <2>2. CASE Prolonged(P, n, x, Q, r)
      BY <1>1, <2>2 DEF Prolonged
    <2>3. CASE Followed(P, n, x, Q, r)
      BY <1>1, <2>3 DEF Followed, Dropped
    <2> QED
      BY <2>1, <2>2, <2>3 DEF NodesGrow
  <1>7. PICK runs : runs = TextRuns(items)
    OBVIOUS
  <1>8. PICK m \in Nat : m = Cardinality(MarksIn(items, N))
    BY <1>0, CountTypes
  <1>9. IsFiniteSet(runs) /\ Cardinality(runs) \in Nat /\ M \notin runs
    BY <1>0, <1>5, <1>7, CountTypes
  <1>10. Cardinality(runs \cup {M}) = Cardinality(runs) + 1
    BY <1>9, FS_AddElement
  <1>11. m + Cardinality(runs) = n
    BY <1>7, <1>8 DEF CountAlike
  <1>12. CASE x.t # <<>> /\ c = 0
    <2>1. TextRuns(its) = runs \cup {M} /\ r = n + 1
      BY <1>4, <1>6, <1>7, <1>12
    <2> QED
      BY <1>2, <1>8, <1>9, <1>10, <1>11, <2>1 DEF CountAlike
  <1>13. CASE ~(x.t # <<>> /\ c = 0)
    <2>1. TextRuns(its) = runs /\ r = n
      BY <1>4, <1>6, <1>7, <1>13
    <2> QED
      BY <1>2, <1>8, <1>11, <2>1 DEF CountAlike
  <1> QED
    BY <1>12, <1>13

LEMMA CountMarkGrows ==
  ASSUME NEW items, NEW N, NEW x, NEW its, NEW M, Grows(items, N, x, its, M),
         NEW P, NEW n, NEW Q, NEW r, NodesGrow(P, n, x, Q, r),
         N > 0, x.k # "text", CountAlike(items, N, n)
  PROVE  CountAlike(its, M, r)
  <1>0. /\ N \in Nat /\ M \in Nat /\ M = N + 1 /\ n \in Nat
        /\ its[M] = x /\ (\A i \in 1..N : its[i] = items[i])
        /\ DOMAIN items = 1..N /\ DOMAIN its = 1..M /\ x \in Writable /\ x.k # "decl"
    BY DEF Grows, NodesGrow
  <1>c. x.k \in MarkKinds
    BY <1>0, WritableFields DEF MarkKinds
  <1>1. r = n + 1
    <2>1. Followed(P, n, x, Q, r)
      BY TailMark
    <2> QED
      BY <2>1 DEF Followed
  <1>a. \A i \in 1..M : i = M \/ i \in 1..N
    BY <1>0
  <1>b. M \in 1..M /\ \A i \in 1..N : i \in 1..M
    BY <1>0
  <1>2. MarksIn(its, M) = MarksIn(items, N) \cup {M}
    BY <1>0, <1>a, <1>b, <1>c DEF MarksIn

  <1>3. TextRuns(its) = TextRuns(items)
    <2>1. TextRuns(its) \subseteq 1..M /\ TextRuns(items) \subseteq 1..N
      BY <1>0, CountTypes
    <2>2. M \notin TextRuns(its)
      BY <1>0 DEF TextRuns, TextsIn
    <2>3. \A i \in 1..N : i \in TextRuns(its) <=> i \in TextRuns(items)
      BY SameRuns
    <2> QED
      BY <1>a, <2>1, <2>2, <2>3
  <1>4. PICK marks : marks = MarksIn(items, N)
    OBVIOUS
  <1>5. IsFiniteSet(marks) /\ Cardinality(marks) \in Nat /\ M \notin marks
    <2>1. marks \subseteq 1..N /\ M \notin 1..N
      BY <1>0, <1>4, CountTypes
    <2> QED
      BY <1>0, <1>4, <2>1, CountTypes
  <1>6. Cardinality(marks \cup {M}) = Cardinality(marks) + 1
    BY <1>5, FS_AddElement
  <1>7. PICK m \in Nat : m = Cardinality(TextRuns(items))
    BY <1>0, CountTypes
  <1>8. Cardinality(marks) + m = n
    BY <1>4, <1>7 DEF CountAlike
  <1> QED
    BY <1>1, <1>2, <1>3, <1>4, <1>5, <1>6, <1>7, <1>8 DEF CountAlike

(* What the calls have checked of each node.                               *)
Checked(y) ==
  /\ y.k \in {"doctype", "start", "end", "text"}
  /\ y.k \in MarkKinds => y.n \in ShortNames
  /\ y.k = "text" => y.n = ""
  /\ Len(y.a) <= Limits.attributes
  /\ \A b \in Range(y.a) : ShortAttribute(b)

NodesChecked(P, n) == \A i \in 1..n : Checked(P[i])

LEMMA CheckedGrows ==
  ASSUME NEW items, NEW N, NEW x, NEW its, NEW M, Grows(items, N, x, its, M),
         NEW P, NEW n, NEW Q, NEW r, NodesGrow(P, n, x, Q, r), NodesChecked(P, n)
  PROVE  NodesChecked(Q, r)
  <1>1. CASE Ignored(P, n, x, Q, r)
    BY <1>1 DEF Ignored, NodesChecked
  <1>2. CASE Prolonged(P, n, x, Q, r)
    <2>1. r = n /\ \A i \in 1..n : P[i].k = Q[i].k /\ P[i].n = Q[i].n /\ P[i].a = Q[i].a
      BY <1>2 DEF Prolonged, Extended
    <2> QED
      BY <2>1 DEF NodesChecked, Checked
  <1>3. CASE Followed(P, n, x, Q, r)
    <2>1. r = n + 1 /\ Q[r] = x /\ \A i \in 1..n : Q[i] = P[i]
      BY <1>3 DEF Followed, Longer
    <2>2. Checked(x)
      BY WritableFields DEF Grows, Checked, MarkKinds
    <2>3. n \in Nat
      BY DEF NodesGrow
    <2>4. \A i \in 1..r : i = r \/ i \in 1..n
      BY <2>1, <2>3
    <2> QED
      BY <2>1, <2>2, <2>4 DEF NodesChecked
  <1> QED
    BY <1>1, <1>2, <1>3 DEF NodesGrow
(* All of it.                                                              *)
Mirrors(items, N, P, n) ==
  /\ BadAlike(items, N, P, n) /\ TextAlike(items, N, P, n)
  /\ DeepAlike(items, N, P, n) /\ LongAlike(items, N, P, n)
  /\ CountAlike(items, N, n) /\ NodesChecked(P, n)
  /\ N > 0 /\ \E b, c : TailRun(items, N, P, n, b, c)

LEMMA MirrorsGrow ==
  ASSUME NEW items, NEW N, NEW x, NEW its, NEW M, Grows(items, N, x, its, M),
         NEW P, NEW n, NEW Q, NEW r, NodesGrow(P, n, x, Q, r), Mirrors(items, N, P, n)
  PROVE  Mirrors(its, M, Q, r)
  <1>1. /\ BadAlike(items, N, P, n) /\ TextAlike(items, N, P, n)
        /\ DeepAlike(items, N, P, n) /\ LongAlike(items, N, P, n)
        /\ CountAlike(items, N, n) /\ NodesChecked(P, n) /\ N > 0
    BY DEF Mirrors
  <1>2. /\ BadAlike(its, M, Q, r) /\ TextAlike(its, M, Q, r)
        /\ DeepAlike(its, M, Q, r) /\ NodesChecked(Q, r)
    BY <1>1, BadGrows, TextGrows, DeepGrows, CheckedGrows
  <1>3. M > 0
    BY <1>1 DEF Grows
  <1>4. PICK b, c : TailRun(items, N, P, n, b, c)
    BY DEF Mirrors
  <1>5. CASE x.k = "text"
    <2>1. LongAlike(its, M, Q, r) /\ CountAlike(its, M, r)
      BY <1>1, <1>4, <1>5, LongTextGrows, CountTextGrows
    <2>2. PICK d : d = c + Len(x.t)
      OBVIOUS
    <2>3. TailRun(its, M, Q, r, b, d)
      BY <1>4, <1>5, <2>2, TailText
    <2> QED
      BY <1>2, <1>3, <2>1, <2>3 DEF Mirrors
  <1>6. CASE x.k # "text"
    <2>1. LongAlike(its, M, Q, r) /\ CountAlike(its, M, r)
      BY <1>1, <1>6, LongMarkGrows, CountMarkGrows
    <2>2. PICK d : d = M + 1
      OBVIOUS
    <2>3. TailRun(its, M, Q, r, d, 0)
      BY <1>1, <1>6, <2>2, TailMark
    <2> QED
      BY <1>2, <1>3, <2>1, <2>3 DEF Mirrors
  <1> QED
    BY <1>5, <1>6

(* The markup is nowhere too deep: the writer counted its open elements.   *)
Shallow(P, n) ==
  \A i \in 1..n : /\ P[i].k \in {"start", "end"} => Depth(P, i) < Limits.depth
                  /\ P[i].k = "doctype" => Depth(P, i) = 0

StaysShallow(e, x) ==
  /\ x.k = "start" => e < Limits.depth
  /\ x.k = "end" => e <= Limits.depth
  /\ x.k = "doctype" => e = 0

LEMMA SkeletonShallow ==
  ASSUME NEW P, NEW Q, NEW n \in Nat, Skeleton(P, Q, n), Shallow(P, n)
  PROVE  Shallow(Q, n)
  <1>1. \A i \in 0..n : OpenAt(P, i) = OpenAt(Q, i)
    BY SkeletonOpen
  <1>2. \A i \in 1..n : i \in 0..n /\ P[i].k = Q[i].k
    BY DEF Skeleton
  <1>3. \A i \in 1..n : Depth(P, i) = Depth(Q, i)
    BY <1>1, <1>2 DEF Depth
  <1> QED
    BY <1>2, <1>3 DEF Shallow

LEMMA ShallowGrows ==
  ASSUME NEW x \in Writable, NEW P, NEW n, NEW Q, NEW r, NodesGrow(P, n, x, Q, r),
         Shallow(P, n), NEW e \in Nat, e = OpenAt(P, n), StaysShallow(e, x)
  PROVE  Shallow(Q, r)
  <1>0. n \in Nat /\ r \in Nat
    BY DEF NodesGrow
  <1>1. CASE Ignored(P, n, x, Q, r)
    BY <1>1 DEF Ignored
  <1>2. CASE Prolonged(P, n, x, Q, r)
    <2>1. r = n /\ Skeleton(P, Q, n)
      BY <1>2 DEF Prolonged, Extended, Skeleton
    <2> QED
      BY <1>0, <2>1, SkeletonShallow
  <1>3. CASE Followed(P, n, x, Q, r)
    <2>1. Longer(P, Q, n, x)
      BY <1>3 DEF Followed
    <2>2. r = n + 1
      BY <1>3 DEF Followed
    <2>3. /\ Skeleton(P, Q, n)
          /\ \A i \in 0..n : OpenAt(Q, i) = OpenAt(P, i) /\ OpenAt(P, i) \in Int
          /\ OpenAt(Q, r) = OpenAt(P, n) + Step(x)
          /\ Q[r] = x
      BY <1>0, <2>1, <2>2, LongerFacts
    <2>4. Shallow(Q, n)
      BY <1>0, <2>3, SkeletonShallow
    <2>5. PICK depth \in Nat : depth = Limits.depth
      BY LimitTypes
    <2>6. x.k = "start" => Depth(Q, r) < Limits.depth
      BY <2>3, <2>5 DEF Depth, Step, StaysShallow
    <2>7. x.k = "end" => Depth(Q, r) < Limits.depth
      BY <2>3, <2>5 DEF Depth, Step, StaysShallow
    <2>8. x.k = "doctype" => Depth(Q, r) = 0
      BY <2>3 DEF Depth, Step, StaysShallow
    <2>9. \A i \in 1..r : i = r \/ i \in 1..n
      BY <1>0, <2>2
    <2> QED
      BY <2>3, <2>4, <2>6, <2>7, <2>8, <2>9 DEF Shallow
  <1> QED
    BY <1>1, <1>2, <1>3 DEF NodesGrow

Weighed ==
  /\ Mirrors(output, Len(output), Nodes(output), Len(Nodes(output)))
  /\ Shallow(Nodes(output), Len(Nodes(output)))
  /\ Len(stack) <= Limits.depth /\ (root => Limits.depth > 0)

LEMMA WeighedStep ==
  ASSUME WriterTypeOK, Begun, Weighed, NEW x \in Writable, Writes(x)
  PROVE  Weighed'
  <1>1. PICK items : items = output
    OBVIOUS
  <1>2. PICK P : P = Nodes(output)
    OBVIOUS
  <1>3. items \in Seq(Writable) /\ items \in Seq(Items) /\ x \in Items
    BY <1>1, WritableSeq, WritableFields DEF WriterTypeOK
  <1>4. P \in Seq(Items)
    BY <1>1, <1>2, <1>3, NodesFacts
  <1>5. PICK N \in Nat : N = Len(items)
    BY <1>3
  <1>6. PICK n \in Nat : n = Len(P)
    BY <1>4
  <1>7. PICK M \in Nat : M = N + 1
    OBVIOUS
  <1>8. PICK its : its = output'
    OBVIOUS
  <1>9. its = Append(items, x)
    BY <1>1, <1>8 DEF Writes, Wrote
  <1>10. PICK Q : Q = Nodes(its)
    OBVIOUS
  <1>11. Q = AddNode(P, x)
    BY <1>1, <1>2, <1>3, <1>9, <1>10, NodesFacts
  <1>12. PICK r : r = Len(Q)
    OBVIOUS
  <1>13. x.k # "decl"
    BY DEF Writes, WroteOne, WroteDoctype, WroteStart, WroteText, WroteEnd
  <1>14. Grows(items, N, x, its, M)
    BY <1>3, <1>5, <1>7, <1>9, <1>13, GrowsIs
  <1>15. NodesGrow(P, n, x, Q, r)
    BY <1>3, <1>4, <1>6, <1>11, <1>12, NodesGrowIs
  <1>16. Mirrors(its, M, Q, r)
    <2>1. Mirrors(items, N, P, n)
      BY <1>1, <1>2, <1>5, <1>6 DEF Weighed
    <2> QED
      BY <1>14, <1>15, <2>1, MirrorsGrow
  <1>17. PICK e \in Nat : e = Len(stack)
    BY StackFacts
  <1>18. PICK depth \in Nat : depth = Limits.depth
    BY LimitTypes
  <1>19. Well(P, n, stack, e, root, dtd) /\ e <= depth
    BY <1>2, <1>6, <1>17, <1>18 DEF Begun, Weighed
  <1>20. ~root => e = 0
    <2>1. ASSUME ~root, e # 0 PROVE FALSE
      <3>1. 1 \in 1..e
        BY <2>1
      <3>2. PICK m : Opened(P, n, 1, m)
        BY <1>19, <3>1 DEF Well
      <3>3. Seen(P, n)
        BY <3>2 DEF Opened, Seen
      <3> QED
        BY <1>19, <2>1, <3>3 DEF Well
    <2> QED
      BY <2>1
  <1>21. StaysShallow(e, x)
    <2>1. CASE WroteDoctype(x)
      BY <1>20, <2>1 DEF WroteDoctype, StaysShallow
    <2>2. CASE WroteStart(x)
      BY <1>17, <1>18, <2>2 DEF WroteStart, StaysShallow
    <2>3. CASE WroteText(x)
      BY <2>3 DEF WroteText, StaysShallow
    <2>4. CASE WroteEnd(x)
      BY <1>18, <1>19, <2>4 DEF WroteEnd, StaysShallow
    <2> QED
      BY <2>1, <2>2, <2>3, <2>4 DEF Writes, WroteOne
  <1>22. Shallow(Q, r)
    <2>1. Shallow(P, n) /\ e = OpenAt(P, n)
      BY <1>2, <1>6, <1>19 DEF Weighed, Well
    <2> QED
      BY <1>15, <1>21, <2>1, ShallowGrows
  <1>23. Len(stack') <= Limits.depth /\ (root' => Limits.depth > 0)
    <2>0. root => depth > 0
      BY <1>18 DEF Weighed
    <2>1. CASE WroteDoctype(x) \/ WroteText(x)
      <3>1. stack' = stack /\ root' = root
        BY <2>1 DEF WroteDoctype, WroteText
      <3>2. Len(stack') = e
        BY <1>17, <3>1
      <3> QED
        BY <1>18, <1>19, <2>0, <3>1, <3>2
    <2>2. CASE WroteStart(x)
      <3>1. stack' = Append(stack, x.n) /\ e < depth
        BY <1>17, <1>18, <2>2 DEF WroteStart
      <3>2. Len(stack') = e + 1
        <4>1. PICK T : T = ShortNames
          OBVIOUS
        <4>2. PICK open : open = stack
          OBVIOUS
        <4>3. open \in Seq(T) /\ x.n \in T
          BY <2>2, <4>1, <4>2, StackFacts, WritableFields DEF WroteStart
        <4> QED
          BY <1>17, <3>1, <4>2, <4>3
      <3> QED
        BY <1>18, <3>1, <3>2
    <2>3. CASE WroteEnd(x)
      <3>1. stack' = SubSeq(stack, 1, e - 1) /\ e # 0 /\ root' = root
        BY <1>17, <2>3, StackFacts DEF WroteEnd
      <3>2. Len(stack') = e - 1
        <4>1. PICK T : T = ShortNames
          OBVIOUS
        <4>2. PICK open : open = stack
          OBVIOUS
        <4>3. open \in Seq(T)
          BY <4>1, <4>2, StackFacts
        <4> QED
          BY <1>17, <3>1, <4>2, <4>3
      <3> QED
        BY <1>18, <1>19, <2>0, <3>1, <3>2
    <2> QED
      BY <2>1, <2>2, <2>3 DEF Writes, WroteOne
  <1>24. Len(its) = M
    BY <1>14 DEF Grows
  <1> QED
    BY <1>8, <1>10, <1>12, <1>16, <1>22, <1>23, <1>24 DEF Weighed
LEMMA InitWeighed == NativeInit => Weighed
  <1> SUFFICES ASSUME NativeInit PROVE Weighed
    OBVIOUS
  <1>1. output = <<Declaration>> /\ stack = <<>> /\ root = FALSE
    BY DEF NativeInit
  <1>2. PICK y : y = Declaration
    OBVIOUS
  <1>3. PICK items : items = <<y>>
    OBVIOUS
  <1>4. y \in Writable /\ y.k = "decl" /\ y.t = <<>>
    BY <1>2, DeclarationIsWritable, WritableFields
  <1>5. Len(items) = 1 /\ items[1] = y /\ DOMAIN items = 1..1 /\ \A i \in 1..1 : i = 1
    BY <1>3
  <1>6. Nodes(output) = <<>> /\ Len(<<>>) = 0 /\ output = items
    BY <1>1, <1>2, <1>3, NodesOfDeclaration
  <1>7. PICK P : P = <<>>
    OBVIOUS
  <1>8. \A i \in 1..0 : FALSE
    OBVIOUS
  <1>9. BadAlike(items, 1, P, 0) /\ TextAlike(items, 1, P, 0)
    <2>1. ~BadCharacters(y)
      BY <1>4, NoCharacter DEF BadCharacters
    <2> QED
      BY <1>4, <1>5, <1>8, <2>1 DEF BadAlike, TextAlike
  <1>10. DeepAlike(items, 1, P, 0)
    <2>1. OpenAt(P, 0) = 0
      BY OpenFacts
    <2>2. OpenAt(items, 0) = 0 /\ OpenSteps(items, 1)
      BY OpenFacts
    <2>3. OpenAt(items, 1) = OpenAt(items, 0) + Step(y)
      <3>1. 1 \in 1..1 /\ 1 - 1 = 0
        OBVIOUS
      <3> QED
        BY <1>5, <2>2, <3>1 DEF OpenSteps
    <2>4. Step(y) = 0
      BY <1>4 DEF Step
    <2>5. ~TextAt(items, 1)
      BY <1>4, <1>5 DEF TextAt
    <2> QED
      BY <1>5, <1>8, <2>1, <2>2, <2>3, <2>4, <2>5 DEF DeepAlike
  <1>11. LongAlike(items, 1, P, 0)
    <2>1. ~Touching(items, 1, 1)
      BY DEF Touching
    <2> QED
      BY <1>5, <1>8, <2>1 DEF LongAlike, LongPair
  <1>12. CountAlike(items, 1, 0)
    <2>1. MarksIn(items, 1) = {} /\ TextRuns(items) = {}
      BY <1>4, <1>5 DEF MarksIn, MarkKinds, TextRuns, TextsIn
    <2>2. Cardinality({}) = 0
      BY FS_EmptySet
    <2> QED
      BY <2>1, <2>2 DEF CountAlike
  <1>13. NodesChecked(P, 0) /\ Shallow(P, 0)
    BY <1>8 DEF NodesChecked, Shallow
  <1>14. TailRun(items, 1, P, 0, 2, 0)
    <2>1. Chars(items, 2, 1) = 0
      <3>1. PICK f : f = LensFrom(items, 2, 0)
        OBVIOUS
      <3>2. items \in Seq(Writable)
        BY <1>3, <1>4
      <3>3. LeftFrom(items, 1, 2, 0)
        BY <1>5, <3>2 DEF LeftFrom
      <3>4. f \in Seq(Nat) /\ Len(f) = 0 /\ Chars(items, 2, 1) = Total(f)
        BY <3>1, <3>3, CharsAre
      <3>5. f = <<>>
        BY <3>4
      <3> QED
        BY <3>4, <3>5, TotalFacts
    <2>2. /\ 2 - 1 = 1 /\ (\A i \in 2..1 : FALSE) /\ \A i \in 2..1 + 1 : i = 2
      OBVIOUS
    <2> QED
      BY <1>4, <1>5, <2>1, <2>2 DEF TailRun
  <1>15. Mirrors(items, 1, P, 0)
    BY <1>9, <1>10, <1>11, <1>12, <1>13, <1>14 DEF Mirrors
  <1>16. Len(stack) <= Limits.depth
    BY <1>1, LimitTypes
  <1> QED
    BY <1>1, <1>5, <1>6, <1>7, <1>13, <1>15, <1>16 DEF Weighed

(* A text, where the limit is below the size of the name "#text".          *)
NamelessNode(P, i) == P[i].k = "text" /\ Limits.text_bytes < TextNameSize

(* What Refusable says of the items, said of the nodes.                    *)
LEMMA RefusableNodes ==
  ASSUME NEW items, NEW N \in Nat, DOMAIN items = 1..N,
         NEW P, P = Nodes(items), NEW n \in Nat, DOMAIN P = 1..n, Mirrors(items, N, P, n)
  PROVE  Refusable(items)
           <=> \/ n > Limits.events
               \/ \E i \in 1..n :
                    NodeAt(P, i) \/ LongNode(P, i) \/ NamelessNode(P, i) \/ ~Sound(P, i)
  <1>1. DeepText(items) <=> \E i \in 1..n : NodeAt(P, i)
    <2>1. ASSUME NEW i \in 1..N PROVE OpenBy(items, i) = OpenAt(items, i)
      <3>1. {j \in StartsIn(items) : j <= i} = {j \in 1..i : items[j].k = "start"}
        BY DEF StartsIn
      <3>2. {j \in EndsIn(items) : j <= i} = {j \in 1..i : items[j].k = "end"}
        BY DEF EndsIn
      <3> QED
        BY <3>1, <3>2 DEF OpenBy, OpenAt
    <2>2. DeepText(items) <=> \E i \in 1..N : TextAt(items, i)
      BY <2>1 DEF DeepText, TextsIn, TextAt
    <2> QED
      BY <2>2 DEF Mirrors, DeepAlike
  <1>2. LongText(items) <=> \E i \in 1..n : LongNode(P, i)
    <2>1. LongText(items) <=> \E i \in 1..N, j \in 1..N : LongPair(items, i, j)
      BY DEF LongText, LongPair, Chars
    <2> QED
      BY <2>1 DEF Mirrors, LongAlike
  <1>3. ManyEvents(items) <=> n > Limits.events
    <2>1. {i \in DOMAIN items : items[i].k \in {"doctype", "start", "end"}} = MarksIn(items, N)
      BY DEF MarksIn, MarkKinds
    <2> QED
      BY <2>1 DEF Mirrors, CountAlike, ManyEvents
  <1>4. BadContent(items) <=> \E i \in 1..n : ~Sound(P, i)
    <2>1. BadContent(items) <=> \/ \E i \in 1..N : BadCharacters(items[i])
                                \/ \E i \in 1..n : P[i].k = "start" /\ ~NamesAreBound(P, i)
      BY DEF BadContent
    <2>2. (\E i \in 1..N : BadCharacters(items[i])) <=> (\E i \in 1..n : BadCharacters(P[i]))
      BY DEF Mirrors, BadAlike
    <2> QED
      BY <2>1, <2>2 DEF Sound
  <1>5. UnnamableText(items) <=> \E i \in 1..n : NamelessNode(P, i)
    <2>1. TextsIn(items) # {} <=> \E i \in 1..N : items[i].k = "text" /\ items[i].t # <<>>
      BY DEF TextsIn
    <2>2. TextsIn(items) # {} <=> \E i \in 1..n : P[i].k = "text"
      BY <2>1 DEF Mirrors, TextAlike
    <2> QED
      BY <2>2 DEF UnnamableText, NamelessNode
  <1> QED
    BY <1>1, <1>2, <1>3, <1>4, <1>5 DEF Refusable

(* The reader stops at a node for its number, its depth or its length, as  *)
(* the calls have checked all else.                                        *)
LEMMA NodeErrorIs ==
  ASSUME NEW P, NEW n \in Nat, NEW i \in 1..n, P[i] \in Items, NodesChecked(P, n), Shallow(P, n),
         Limits.depth > 0
  PROVE  NodeError(P, i, ReadBackLimits) = "none"
           <=> /\ ~(i > Limits.events) /\ ~NodeAt(P, i)
               /\ ~LongNode(P, i) /\ ~NamelessNode(P, i)
  <1>1. PICK y : y = P[i]
    OBVIOUS
  <1>2. Checked(y) /\ y \in Items
    BY <1>1 DEF NodesChecked
  <1>3. TooLong(NodeNameSize(y), Limits) <=> NamelessNode(P, i)
    <2>1. CASE y.k = "text"
      <3>1. NodeNameSize(y) = 5 /\ TextNameSize = 5
        BY <2>1 DEF NodeNameSize, TextNameSize
      <3> QED
        BY <1>1, <2>1, <3>1, LimitTypes DEF TooLong, NamelessNode
    <2>2. CASE y.k # "text"
      <3>1. y.n \in ShortNames
        BY <1>2, <2>2 DEF Checked, MarkKinds
      <3>2. PICK name : name = y.n
        OBVIOUS
      <3>3. name \in DOMAIN NameSize /\ NameSize[name] <= Limits.text_bytes
        BY <3>1, <3>2, LimitsAssumption DEF ShortNames
      <3>4. NameSize[name] \in Nat
        BY <3>3, LimitsAssumption
      <3>5. ~TooLong(NameSize[name], Limits)
        BY <3>3, <3>4, LimitTypes DEF TooLong
      <3>6. NodeNameSize(y) = NameSize[name]
        BY <1>2, <2>2, <3>2 DEF NodeNameSize, Checked
      <3> QED
        BY <1>1, <2>2, <3>5, <3>6 DEF NamelessNode
    <2> QED
      BY <2>1, <2>2
  <1>4. ~(Len(y.a) > Limits.attributes)
    <2>1. Len(y.a) \in Nat
      <3>1. PICK a : a = y.a
        OBVIOUS
      <3>2. a \in AttributeLists
        BY <1>2, <3>1, ItemTypes
      <3> QED
        BY <3>1, <3>2 DEF AttributeLists
    <2>2. Len(y.a) <= Limits.attributes
      BY <1>2 DEF Checked
    <2> QED
      BY <2>1, <2>2, LimitTypes
  <1>5. ASSUME NEW b \in Range(y.a)
        PROVE  ~(TooLong(NameSize[b.name], Limits) \/ TooLong(Len(b.value), Limits))
    <2>1. ShortAttribute(b)
      BY <1>2 DEF Checked
    <2>2. PICK a : a = y.a
      OBVIOUS
    <2>3. a \in AttributeLists
      BY <1>2, <2>2, ItemTypes
    <2>4. PICK k \in 1..Len(a) : b = a[k]
      BY <2>2, <2>3 DEF Range, AttributeLists
    <2>5. b.name \in DOMAIN NameSize /\ b.value \in Seq(DOMAIN CharSize)
      BY <2>3, <2>4, ListTypes
    <2>6. PICK name : name = b.name
      OBVIOUS
    <2>7. NameSize[name] \in Nat
      BY <2>5, <2>6, LimitsAssumption
    <2>8. Len(b.value) \in Nat
      BY <2>5
    <2> QED
      BY <2>1, <2>6, <2>7, <2>8, LimitTypes DEF TooLong, ShortAttribute

  <1>6. Depth(P, i) >= Limits.depth <=> NodeAt(P, i)
    <2>1. PICK d \in Int : d = Depth(P, i)
      <3>1. PICK o \in Int : o = OpenAt(P, i)
        <4>1. i \in 0..n /\ OpenType(P, n)
          BY OpenFacts
        <4> QED
          BY <4>1 DEF OpenType
      <3> QED
        BY <3>1 DEF Depth
    <2>2. PICK depth \in Nat : depth = Limits.depth /\ depth > 0
      BY LimitTypes
    <2>3. CASE y.k = "text"
      BY <1>1, <2>3 DEF NodeAt, Depth
    <2>4. CASE y.k # "text"
      <3>1. y.k \in {"start", "end"} \/ y.k = "doctype"
        BY <1>2, <2>4 DEF Checked
      <3>2. d < depth
        BY <1>1, <2>1, <2>2, <3>1 DEF Shallow
      <3> QED
        BY <1>1, <2>1, <2>2, <2>4, <3>2 DEF NodeAt
    <2> QED
      BY <2>3, <2>4
  <1>7. TooLong(Len(y.t), Limits) <=> LongNode(P, i)
    BY <1>1 DEF TooLong, LongNode
  <1>8. NodeError(P, i, Limits) = "none"
          <=> /\ ~(i > Limits.events) /\ ~NodeAt(P, i)
              /\ ~LongNode(P, i) /\ ~NamelessNode(P, i)
    BY <1>1, <1>3, <1>4, <1>5, <1>6, <1>7 DEF NodeError
  <1> QED
    BY <1>8, SameNodeError
(* What finish() answers to a closed document.                             *)
LEMMA Verdict ==
  ASSUME WriterTypeOK, Begun, Weighed, root, stack = <<>>
  PROVE  ReadsToEnd(output, ReadBackLimits) <=> ~Refusable(output)
  <1>1. PICK items : items = output
    OBVIOUS
  <1>2. PICK P : P = Nodes(items)
    OBVIOUS
  <1>3. items \in Seq(Writable) /\ items \in Seq(Items)
    BY <1>1, WritableSeq DEF WriterTypeOK
  <1>4. PICK N \in Nat : N = Len(items) /\ DOMAIN items = 1..N
    BY <1>3
  <1>5. P \in Seq(Items)
    BY <1>2, <1>3, NodesFacts
  <1>6. PICK n \in Nat : n = Len(P) /\ DOMAIN P = 1..n
    BY <1>5
  <1>7. /\ Mirrors(items, N, P, n) /\ Shallow(P, n) /\ Limits.depth > 0
        /\ Well(P, n, stack, 0, root, dtd)
    <2>1. Len(stack) = 0
      OBVIOUS
    <2> QED
      BY <1>1, <1>2, <1>4, <1>6, <2>1 DEF Weighed, Begun
  <1>8. N > 0 /\ NodesChecked(P, n)
    BY <1>7 DEF Mirrors
  <1>9. PICK k \in 1..n : P[k].k \in {"start", "empty"}
    BY <1>7 DEF Well, Seen
  <1>10. OpenError(items, ReadBackLimits) = "none"
    <2>1. items # <<>>
      BY <1>4, <1>8
    <2>2. ~(Bytes(items) > Limits.output_bytes)
      <3>1. items # <<Declaration>>
        BY <1>2, <1>6, <1>9, NodesOfDeclaration
      <3> QED
        BY <1>1, <3>1 DEF Begun
    <2>3. ASSUME NEW i \in 1..N, items[i].k = "doctype" PROVE items[i].n \in ValidNames
      <3>1. PICK x : x = items[i]
        OBVIOUS
      <3>2. x \in Writable
        BY <1>3, <1>4, <3>1
      <3>3. x.n \in ShortNames
        BY <2>3, <3>1, <3>2, WritableFields
      <3> QED
        BY <3>1, <3>3 DEF ShortNames
    <2>4. DoctypeCheck(items) = "none"
      BY <1>4, <2>3 DEF DoctypeCheck
    <2> QED
      BY <2>1, <2>2, <2>4, ReadBackIs DEF OpenError
  <1>11. WellFormed(P) <=> \A i \in 1..n : Sound(P, i)
    <2>1. \A i \in 1..n : Legal(P, i) <=> Sound(P, i)
      BY <1>7, PlacedIsLegal DEF Well
    <2>2. Complete(P)
      BY <1>6, <1>7, <1>9 DEF Complete, Well
    <2> QED
      BY <1>6, <2>1, <2>2 DEF WellFormed
  <1>12. (\A i \in 1..n : NodeError(P, i, ReadBackLimits) = "none")
           <=> /\ ~(n > Limits.events)
               /\ \A i \in 1..n : ~NodeAt(P, i) /\ ~LongNode(P, i) /\ ~NamelessNode(P, i)
    <2>1. \A i \in 1..n : P[i] \in Items
      BY <1>5, <1>6
    <2>2. \A i \in 1..n : NodeError(P, i, ReadBackLimits) = "none"
                            <=> /\ ~(i > Limits.events) /\ ~NodeAt(P, i)
                                /\ ~LongNode(P, i) /\ ~NamelessNode(P, i)
      BY <1>7, <1>8, <2>1, NodeErrorIs
    <2>3. PICK events \in Nat : events = Limits.events
      BY LimitTypes
    <2>4. (\A i \in 1..n : ~(i > events)) <=> ~(n > events)
      <3>1. n \in 1..n
        BY <1>9
      <3> QED
        BY <3>1
    <2> QED
      BY <2>2, <2>3, <2>4
  <1>13. ReadsToEnd(items, ReadBackLimits)
           <=> /\ \A i \in 1..n : Sound(P, i)
               /\ \A i \in 1..n : NodeError(P, i, ReadBackLimits) = "none"
    BY <1>2, <1>6, <1>10, <1>11 DEF ReadsToEnd
  <1>14. Refusable(items)
           <=> \/ n > Limits.events
               \/ \E i \in 1..n :
                    NodeAt(P, i) \/ LongNode(P, i) \/ NamelessNode(P, i) \/ ~Sound(P, i)
    BY <1>2, <1>4, <1>6, <1>7, RefusableNodes
  <1> QED
    BY <1>1, <1>12, <1>13, <1>14

VerdictInv ==
  /\ WriterInv
  /\ ~finished => Weighed
  /\ result = "refused" => /\ ~finished /\ root /\ stack = <<>>
                           /\ ~ReadsToEnd(output, ReadBackLimits)
  /\ finished => ~Refusable(file)

LEMMA VerdictInvStep == VerdictInv /\ [NativeNext]_nativeVars => VerdictInv'
  <1> SUFFICES ASSUME VerdictInv, [NativeNext]_nativeVars PROVE VerdictInv'
    OBVIOUS
  <1>1. WriterTypeOK /\ WriterInv /\ WriterInv' /\ finished \in BOOLEAN
    BY WriterInvStep DEF VerdictInv, WriterInv, WriterTypeOK
  <1>2. CASE Unwritten /\ result' # "refused"
    BY <1>1, <1>2 DEF VerdictInv, Weighed, Unwritten
  <1>3. CASE Unwritten /\ result' = result
    BY <1>1, <1>3 DEF VerdictInv, Weighed, Unwritten
  <1>4. CASE Refused
    BY <1>1, <1>4 DEF VerdictInv, Weighed, Refused, Unwritten
  <1>5. CASE Finished /\ result' # "refused"
    <2>1. /\ ~finished /\ root /\ stack = <<>> /\ ReadsToEnd(output, ReadBackLimits)
          /\ finished' = TRUE /\ file' = output
      BY <1>5 DEF Finished
    <2>2. ~Refusable(output)
      BY <1>1, <2>1, Verdict DEF VerdictInv, WriterInv
    <2>3. ~Refusable(file')
      BY <2>1, <2>2
    <2> QED
      BY <1>1, <1>5, <2>1, <2>3 DEF VerdictInv
  <1>6. ASSUME NEW x \in Writable, Writes(x) PROVE VerdictInv'
    <2>1. ~finished /\ finished' = finished /\ result' # "refused"
      BY <1>6 DEF Writes, Wrote
    <2>2. Weighed'
      BY <1>1, <1>6, <2>1, WeighedStep DEF VerdictInv, WriterInv
    <2> QED
      BY <1>1, <2>1, <2>2 DEF VerdictInv
  <1> QED
    BY <1>1, <1>2, <1>3, <1>4, <1>5, <1>6, NextDoes DEF NextCases, Called

LEMMA InitVerdictInv == NativeInit => VerdictInv
  BY InitWriterInv, InitWeighed DEF VerdictInv, NativeInit

(* finish() refuses a document whose calls all succeeded for a text that   *)
(* is too deep, or too long with those it touches, or cannot be called     *)
(* "#text" within the limit on names, for the number of its events, for a  *)
(* prefix, namespace or pair of attributes that is wrong where it is, or   *)
(* for a character XML does not allow, and never hands such a document out.*)
THEOREM RefusalAlwaysExplained == NativeSpec => []FinishRefusal
  <1>1. VerdictInv => FinishRefusal
    <2> SUFFICES ASSUME VerdictInv, result = "refused" PROVE Refusable(output)
      BY DEF VerdictInv, FinishRefusal
    <2>1. ~finished /\ root /\ stack = <<>> /\ ~ReadsToEnd(output, ReadBackLimits)
      BY DEF VerdictInv
    <2> QED
      BY <2>1, Verdict DEF VerdictInv, WriterInv
  <1> QED
    BY <1>1, InitVerdictInv, VerdictInvStep, PTL DEF NativeSpec
-----------------------------------------------------------------------------
(* What the pieces of a document tell, one after the other.                *)
ToldOf(pieces, told, n) ==
  told = [i \in 0..n |-> IF i = 0 THEN <<>> ELSE told[i - 1] \o pieces[i]]

Tells(h, pieces, n) == h[0] = <<>> /\ \A i \in 1..n : h[i] = h[i - 1] \o pieces[i]

LEMMA StoryIs ==
  ASSUME NEW D, NEW n \in Nat, NEW pieces \in [1..n -> Seq(D)]
  PROVE  \E told \in [0..n -> Seq(D)] : Tells(told, pieces, n) /\ Story(pieces) = told[n]
  <1>z. PICK W : W = Seq(D)
    OBVIOUS
  <1>y. <<>> \in W /\ (\A s \in W, t \in W : s \o t \in W) /\ \A i \in 1..n : pieces[i] \in W
    BY <1>z
  <1>1. PICK step : step = [i \in 1..n |-> [s \in W |-> s \o pieces[i]]]
    OBVIOUS
  <1>2. step \in [1..n -> [W -> W]]
    BY <1>y, <1>1
  <1>3. PICK g : Rounds(g, W, <<>>, step, n)
    BY <1>y, <1>2, RoundsExist
  <1>4. /\ g \in [0..n -> W] /\ g[0] = <<>>
        /\ \A i \in 1..n : g[i] = step[i][g[i - 1]]
    BY <1>3 DEF Rounds
  <1>5. ASSUME NEW i \in 0..n PROVE g[i] = IF i = 0 THEN <<>> ELSE g[i - 1] \o pieces[i]
    <2>1. CASE i = 0
      BY <1>4, <2>1
    <2>2. CASE i # 0
      <3>1. i \in 1..n /\ i - 1 \in 0..n /\ g[i - 1] \in W
        BY <1>4, <2>2
      <3> QED
        BY <1>1, <1>4, <2>2, <3>1
    <2> QED
      BY <2>1, <2>2
  <1>6. ToldOf(pieces, g, n)
    BY <1>4, <1>5 DEF ToldOf
  <1>7. PICK h : h = CHOOSE s : ToldOf(pieces, s, n)
    OBVIOUS
  <1>8. ToldOf(pieces, h, n)
    BY <1>6, <1>7
  <1>9. Len(pieces) = n
    OBVIOUS
  <1>10. Story(pieces) = h[n]
    BY <1>7, <1>9, Zenon DEF Story, ToldOf
  <1>11. \A i \in 0..n : h[i] = IF i = 0 THEN <<>> ELSE h[i - 1] \o pieces[i]
    BY <1>8 DEF ToldOf
  <1>12. h[0] = <<>> /\ \A i \in 1..n : h[i] = h[i - 1] \o pieces[i]
    <2>1. 0 \in 0..n
      OBVIOUS
    <2>2. \A i \in 1..n : i \in 0..n /\ i # 0
      OBVIOUS
    <2> QED
      BY <1>11, <2>1, <2>2
  <1>13. h \in [0..n -> W]
    <2> DEFINE S == {i \in 0..n : h[i] \in W}
    <2>1. 0 \in S
      BY <1>y, <1>12
    <2>2. ASSUME NEW i \in 1..n, i - 1 \in S PROVE i \in S
      <3>1. h[i - 1] \in W /\ pieces[i] \in W /\ i \in 0..n
        BY <1>y, <2>2
      <3>2. h[i - 1] \o pieces[i] \in W
        BY <1>y, <3>1, Zenon
      <3>3. h[i] \in W
        BY <1>12, <3>2, Zenon
      <3> QED
        BY <3>1, <3>3
    <2>3. 0..n \subseteq S
      <3> HIDE DEF S
      <3> QED
        BY <2>1, <2>2, CountUp
    <2> QED
      BY <1>8, <2>3 DEF ToldOf
  <1> QED
    BY <1>z, <1>10, <1>12, <1>13 DEF Tells

(* Pieces that begin alike tell the same so far.                           *)
LEMMA StoriesAgree ==
  ASSUME NEW n \in Nat, NEW a, NEW b, NEW f, NEW g,
         Tells(a, f, n), Tells(b, g, n), Alike(f, g, n)
  PROVE  a[n] = b[n]
  <1> DEFINE S == {i \in 0..n : a[i] = b[i]}
  <1>1. 0 \in S
    BY DEF Tells
  <1>2. ASSUME NEW i \in 1..n, i - 1 \in S PROVE i \in S
    <2>1. a[i] = a[i - 1] \o f[i] /\ b[i] = b[i - 1] \o g[i]
      BY Zenon DEF Tells
    <2>2. f[i] = g[i] /\ a[i - 1] = b[i - 1] /\ i \in 0..n
      BY <1>2 DEF Alike
    <2>3. a[i] = b[i]
      BY <2>1, <2>2, Zenon
    <2> QED
      BY <2>2, <2>3
  <1>3. 0..n \subseteq S
    <2> HIDE DEF S
    <2> QED
      BY <1>1, <1>2, CountUp
  <1>4. n \in S
    BY <1>3
  <1> QED
    BY <1>4

(* A beginning of the pieces tells a beginning of the story.               *)
Beginning(s, t) == Len(s) <= Len(t) /\ s = SubSeq(t, 1, Len(s))

LEMMA BeginningFacts ==
  ASSUME NEW D, NEW s \in Seq(D), NEW t \in Seq(D), NEW u \in Seq(D)
  PROVE  Beginning(s, s) /\ (Beginning(s, t) => Beginning(s, t \o u))
  <1>1. Beginning(s, s)
    BY DEF Beginning
  <1>2. ASSUME Beginning(s, t) PROVE Beginning(s, t \o u)
    <2>1. PICK k \in Nat : k = Len(s)
      OBVIOUS
    <2>2. PICK m \in Nat : m = Len(t)
      OBVIOUS
    <2>3. k <= m /\ s = SubSeq(t, 1, k)
      BY <1>2, <2>1, <2>2 DEF Beginning
    <2>4. PICK v : v = t \o u
      OBVIOUS
    <2>5. v \in Seq(D) /\ Len(v) >= m /\ \A i \in 1..m : v[i] = t[i]
      BY <2>2, <2>4
    <2>6. s = SubSeq(v, 1, k)
      <3>1. SubSeq(v, 1, k) = [i \in 1..k |-> v[i]]
        BY <2>3, <2>5
      <3>2. SubSeq(t, 1, k) = [i \in 1..k |-> t[i]]
        BY <2>2, <2>3
      <3>3. \A i \in 1..k : v[i] = t[i]
        BY <2>3, <2>5
      <3> QED
        BY <2>3, <3>1, <3>2, <3>3
    <2> QED
      BY <2>1, <2>3, <2>4, <2>5, <2>6 DEF Beginning
  <1> QED
    BY <1>1, <1>2

LEMMA StoryBegins ==
  ASSUME NEW D, NEW n \in Nat, NEW told \in [0..n -> Seq(D)], NEW pieces \in [1..n -> Seq(D)],
         Tells(told, pieces, n), NEW k \in 0..n
  PROVE  Beginning(told[k], told[n])
  <1>z. PICK W : W = Seq(D)
    OBVIOUS
  <1> DEFINE S == {i \in 0..n : i >= k => Beginning(told[k], told[i])}
  <1>1. 0 \in S
    <2>1. told[k] \in Seq(D)
      OBVIOUS
    <2>2. Beginning(told[k], told[k])
      BY <2>1, BeginningFacts
    <2>3. 0 >= k => k = 0
      OBVIOUS
    <2> QED
      BY <2>2, <2>3
  <1>2. ASSUME NEW i \in 1..n, i - 1 \in S PROVE i \in S
    <2>1. told[k] \in Seq(D) /\ told[i] \in Seq(D) /\ told[i - 1] \in Seq(D) /\ pieces[i] \in Seq(D)
      OBVIOUS
    <2>2. CASE i = k
      BY <2>1, <2>2, BeginningFacts
    <2>3. CASE i < k
      BY <2>3
    <2>4. CASE i > k
      <3>1. Beginning(told[k], told[i - 1])
        BY <1>2, <2>4
      <3>2. Beginning(told[k], told[i - 1] \o pieces[i])
        BY <2>1, <3>1, BeginningFacts
      <3>3. told[i] = told[i - 1] \o pieces[i]
        BY DEF Tells
      <3>4. Beginning(told[k], told[i])
        BY <3>2, <3>3, Zenon
      <3> QED
        BY <3>4

    <2> QED
      BY <2>2, <2>3, <2>4
  <1>3. 0..n \subseteq S
    <2> HIDE DEF S
    <2> QED
      BY <1>1, <1>2, CountUp
  <1>4. n \in S /\ n >= k
    BY <1>3
  <1> QED
    BY <1>4
-----------------------------------------------------------------------------
(* Whatever libxml2 joins or leaves out, the nodes tell what the items do. *)
Tellings ==
  [kind : ItemKinds \cup {"start_element", "end_element", "processing_instruction", "character"},
   name : DOMAIN NameSize \cup {"", "#text", "#cdata-section", "#comment"},
   value : Seq(DOMAIN CharSize), attributes : AttributeLists, empty : BOOLEAN]

LEMMA CharactersFacts ==
  ASSUME NEW s \in Seq(DOMAIN CharSize)
  PROVE  /\ Characters(s) \in Seq(Tellings)
         /\ s = <<>> => Characters(s) = <<>>
         /\ \A t \in Seq(DOMAIN CharSize) : Characters(s \o t) = Characters(s) \o Characters(t)
  <1>1. ASSUME NEW c \in DOMAIN CharSize PROVE Told("character", "", <<c>>, <<>>, FALSE) \in Tellings
    <2>1. <<c>> \in Seq(DOMAIN CharSize) /\ <<>> \in AttributeLists
      BY EmptyAttributes
    <2> QED
      BY <2>1 DEF Told, Tellings
  <1>2. ASSUME NEW u \in Seq(DOMAIN CharSize), NEW n \in Nat, n = Len(u)
        PROVE  /\ Characters(u) \in Seq(Tellings) /\ Len(Characters(u)) = n
               /\ \A i \in 1..n : Characters(u)[i] = Told("character", "", <<u[i]>>, <<>>, FALSE)
    <2>1. PICK f : f = [i \in 1..n |-> Told("character", "", <<u[i]>>, <<>>, FALSE)]
      OBVIOUS
    <2>2. \A i \in 1..n : u[i] \in DOMAIN CharSize
      BY <1>2
    <2>3. \A i \in 1..n : f[i] \in Tellings
      BY <1>1, <2>1, <2>2
    <2>4. f = Characters(u)
      BY <1>2, <2>1 DEF Characters
    <2>5. f \in Seq(Tellings) /\ Len(f) = n
      <3>1. PICK T : T = Tellings
        OBVIOUS
      <3>2. \A i \in 1..n : f[i] \in T
        BY <2>3, <3>1
      <3>3. f = [i \in 1..n |-> f[i]]
        BY <2>1
      <3>4. f \in Seq(T) /\ Len(f) = n
        BY <3>2, <3>3
      <3> QED
        BY <3>1, <3>4
    <2> QED
      BY <2>1, <2>4, <2>5
  <1>3. PICK n \in Nat : n = Len(s)
    OBVIOUS
  <1>4. s = <<>> => Characters(s) = <<>>
    <2>1. PICK f : f = Characters(s)
      OBVIOUS
    <2>2. PICK T : T = Tellings
      OBVIOUS
    <2>3. f \in Seq(T) /\ Len(f) = n
      BY <1>2, <1>3, <2>1, <2>2
    <2> QED
      BY <1>3, <2>1, <2>3
  <1>5. ASSUME NEW t \in Seq(DOMAIN CharSize)
        PROVE  Characters(s \o t) = Characters(s) \o Characters(t)
    <2>1. PICK m \in Nat : m = Len(t)
      OBVIOUS
    <2>2. PICK u : u = s \o t
      OBVIOUS
    <2>3. PICK l \in Nat : l = n + m
      OBVIOUS
    <2>4. /\ u \in Seq(DOMAIN CharSize) /\ Len(u) = l
          /\ \A i \in 1..l : u[i] = IF i <= n THEN s[i] ELSE t[i - n]
      BY <1>3, <2>1, <2>2, <2>3
    <2>5. PICK a : a = Characters(s)
      OBVIOUS
    <2>6. PICK b : b = Characters(t)
      OBVIOUS
    <2>7. PICK c : c = Characters(u)
      OBVIOUS
    <2>8. PICK T : T = Tellings
      OBVIOUS
    <2>9. a \in Seq(T) /\ Len(a) = n /\ b \in Seq(T) /\ Len(b) = m /\ c \in Seq(T) /\ Len(c) = l
      BY <1>2, <1>3, <2>1, <2>4, <2>5, <2>6, <2>7, <2>8
    <2>10. /\ \A i \in 1..n : a[i] = Told("character", "", <<s[i]>>, <<>>, FALSE)
           /\ \A i \in 1..m : b[i] = Told("character", "", <<t[i]>>, <<>>, FALSE)
           /\ \A i \in 1..l : c[i] = Told("character", "", <<u[i]>>, <<>>, FALSE)
      BY <1>2, <1>3, <2>1, <2>4, <2>5, <2>6, <2>7
    <2>11. \A i \in 1..l : c[i] = IF i <= n THEN a[i] ELSE b[i - n]
      <3>1. ASSUME NEW i \in 1..l PROVE c[i] = IF i <= n THEN a[i] ELSE b[i - n]
        <4>1. CASE i <= n
          <5>1. i \in 1..n /\ u[i] = s[i]
            BY <2>4, <4>1
          <5> QED
            BY <2>10, <4>1, <5>1
        <4>2. CASE ~(i <= n)
          <5>1. i - n \in 1..m /\ u[i] = t[i - n]
            BY <2>3, <2>4, <4>2
          <5> QED
            BY <2>10, <4>2, <5>1
        <4> QED
          BY <4>1, <4>2
      <3> QED
        BY <3>1
    <2>12. c = a \o b
      <3>1. PICK d : d = a \o b
        OBVIOUS
      <3>2. /\ d \in Seq(T) /\ Len(d) = l
            /\ \A i \in 1..l : d[i] = IF i <= n THEN a[i] ELSE b[i - n]
        BY <2>3, <2>9, <3>1, ConcatProperties
      <3>3. \A i \in 1..l : c[i] = d[i]
        BY <2>11, <3>2
      <3> QED
        BY <2>9, <3>1, <3>2, <3>3
    <2> QED
      BY <2>2, <2>5, <2>6, <2>7, <2>12
  <1> QED
    BY <1>2, <1>3, <1>4, <1>5

LEMMA PieceFacts ==
  ASSUME NEW x \in Items
  PROVE  /\ PieceOf(x) \in Seq(Tellings)
         /\ x.k \in {"text", "cdata"} => PieceOf(x) = Characters(x.t)
         /\ Dropped(x) => PieceOf(x) = <<>>
  <1>0. /\ x.k \in ItemKinds /\ x.n \in DOMAIN NameSize \cup {""}
        /\ x.t \in Seq(DOMAIN CharSize) /\ x.a \in AttributeLists
    BY ItemTypes
  <1>1. CASE x.k = "decl"
    <2>1. PieceOf(x) = <<>>
      BY <1>1 DEF PieceOf
    <2>2. <<>> \in Seq(Tellings)
      OBVIOUS
    <2> QED
      BY <1>1, <2>1, <2>2
  <1>2. CASE x.k \in {"text", "cdata"}
    <2>1. PieceOf(x) = Characters(x.t)
      BY <1>2 DEF PieceOf
    <2>2. Dropped(x) => x.t = <<>>
      BY <1>2 DEF Dropped
    <2> QED
      BY <1>0, <2>1, <2>2, CharactersFacts
  <1>3. CASE x.k \notin {"decl", "text", "cdata"}
    <2>1. PieceOf(x) = <<MarkOf(x)>>
      BY <1>3 DEF PieceOf
    <2>2. MarkOf(x) \in Tellings
      <3>1. NodeName(x) \in DOMAIN NameSize \cup {"", "#text", "#cdata-section", "#comment"}
        BY <1>0 DEF NodeName
      <3> QED
        BY <1>0, <3>1 DEF MarkOf, Told, Tellings
    <2>3. <<MarkOf(x)>> \in Seq(Tellings)
      <3>1. PICK T : T = Tellings
        OBVIOUS
      <3>2. PICK y : y = MarkOf(x)
        OBVIOUS
      <3> QED
        BY <2>2, <3>1, <3>2
    <2> QED
      BY <1>3, <2>1, <2>3 DEF Dropped
  <1>4. <<>> \in Seq(Tellings)
    OBVIOUS
  <1> QED
    BY <1>1, <1>2, <1>3, <1>4 DEF PieceOf

Narrates(h, items, n) == h[0] = <<>> /\ \A i \in 1..n : h[i] = h[i - 1] \o PieceOf(items[i])

LEMMA StoryOfIs ==
  ASSUME NEW items \in Seq(Items), NEW n \in Nat, n = Len(items)
  PROVE  \E told \in [0..n -> Seq(Tellings)] :
           Narrates(told, items, n) /\ StoryOf(items) = told[n]
  <1>1. PICK pieces : pieces = [i \in 1..n |-> PieceOf(items[i])]
    OBVIOUS
  <1>2. \A i \in 1..n : items[i] \in Items
    OBVIOUS
  <1>3. \A i \in 1..n : pieces[i] \in Seq(Tellings)
    BY <1>1, <1>2, PieceFacts
  <1>4. pieces \in [1..n -> Seq(Tellings)]
    BY <1>1, <1>3
  <1>5. PICK told \in [0..n -> Seq(Tellings)] : Tells(told, pieces, n) /\ Story(pieces) = told[n]
    BY <1>4, StoryIs
  <1>6. StoryOf(items) = told[n]
    BY <1>1, <1>5 DEF StoryOf
  <1>7. \A i \in 1..n : pieces[i] = PieceOf(items[i])
    BY <1>1
  <1>8. \A i \in 1..n : told[i] = told[i - 1] \o pieces[i]
    BY <1>5 DEF Tells
  <1>9. \A i \in 1..n : told[i] = told[i - 1] \o PieceOf(items[i])
    BY <1>7, <1>8
  <1>10. told[0] = <<>>
    BY <1>5 DEF Tells
  <1> QED
    BY <1>6, <1>9, <1>10 DEF Narrates

LEMMA NarrationsAgree ==
  ASSUME NEW n \in Nat, NEW a, NEW b, NEW f, NEW g,
         Narrates(a, f, n), Narrates(b, g, n), Alike(f, g, n)
  PROVE  a[n] = b[n]
  <1>1. PICK p : p = [i \in 1..n |-> PieceOf(f[i])]
    OBVIOUS
  <1>2. \A i \in 1..n : p[i] = PieceOf(f[i]) /\ p[i] = PieceOf(g[i])
    BY <1>1 DEF Alike
  <1>3. Tells(a, p, n) /\ Tells(b, p, n)
    <2>1. \A i \in 1..n : a[i] = a[i - 1] \o PieceOf(f[i])
      BY Zenon DEF Narrates
    <2>2. \A i \in 1..n : b[i] = b[i - 1] \o PieceOf(g[i])
      BY Zenon DEF Narrates
    <2>3. \A i \in 1..n : a[i] = a[i - 1] \o p[i]
      BY <1>2, <2>1, Zenon
    <2>4. \A i \in 1..n : b[i] = b[i - 1] \o p[i]
      BY <1>2, <2>2, Zenon
    <2>5. a[0] = <<>> /\ b[0] = <<>>
      BY DEF Narrates
    <2> QED
      BY <2>3, <2>4, <2>5, Zenon DEF Tells
  <1>4. Alike(p, p, n)
    BY DEF Alike
  <1> QED
    BY <1>3, <1>4, StoriesAgree, Zenon

LEMMA StoryAppend ==
  ASSUME NEW items \in Seq(Items), NEW x \in Items
  PROVE  /\ StoryOf(items) \in Seq(Tellings)
         /\ StoryOf(Append(items, x)) = StoryOf(items) \o PieceOf(x)
  <1>1. PICK n \in Nat : n = Len(items)
    OBVIOUS
  <1>a. n \in 0..n
    OBVIOUS
  <1>2. PICK a \in [0..n -> Seq(Tellings)] : Narrates(a, items, n) /\ StoryOf(items) = a[n]
    BY <1>1, StoryOfIs
  <1>3. PICK m \in Nat : m = n + 1
    OBVIOUS
  <1>4. PICK g : g = Append(items, x)
    OBVIOUS
  <1>5. /\ g \in Seq(Items) /\ Len(g) = m /\ g[m] = x
        /\ \A i \in 1..n : items[i] = g[i]
    BY <1>1, <1>3, <1>4
  <1>6. PICK b \in [0..m -> Seq(Tellings)] : Narrates(b, g, m) /\ StoryOf(g) = b[m]
    BY <1>5, StoryOfIs
  <1>7. Narrates(b, g, n)
    <2>1. \A i \in 1..n : i \in 1..m
      BY <1>3
    <2>2. \A i \in 1..m : b[i] = b[i - 1] \o PieceOf(g[i])
      BY <1>6, Zenon DEF Narrates
    <2> QED
      BY <1>6, <2>1, <2>2, Zenon DEF Narrates
  <1>8. Alike(items, g, n)
    BY <1>5 DEF Alike
  <1>9. a[n] = b[n]
    <2>1. Narrates(a, items, n)
      BY <1>2
    <2> QED
      BY <1>7, <1>8, <2>1, NarrationsAgree, Zenon



  <1>10.
 b[m] = b[n] \o PieceOf(g[m])
    <2>1. m \in 1..m /\ m - 1 = n
      BY <1>3
    <2>2. b[m] = b[m - 1] \o PieceOf(g[m])
      BY <1>6, <2>1, Zenon DEF Narrates
    <2> QED
      BY <2>1, <2>2
  <1>11. StoryOf(g) = StoryOf(items) \o PieceOf(x)
    BY <1>2, <1>5, <1>6, <1>9, <1>10, Zenon
  <1> QED
    BY <1>a, <1>2, <1>4, <1>11
LEMMA Regroup ==
  ASSUME NEW T, NEW r \in Seq(T), NEW s \in Seq(T), NEW t \in Seq(T)
  PROVE  r \o (s \o t) = (r \o s) \o t /\ r \o <<>> = r
  OBVIOUS

LEMMA StoryAdd ==
  ASSUME NEW P \in Seq(Items), NEW x \in Items
  PROVE  StoryOf(AddNode(P, x)) = StoryOf(P) \o PieceOf(x)
  <1>z. PICK T : T = Tellings
    OBVIOUS
  <1>y. PieceOf(x) \in Seq(T) /\ StoryOf(P) \in Seq(T)
    BY <1>z, PieceFacts, StoryAppend
  <1>1. CASE Dropped(x)
    <2>1. AddNode(P, x) = P /\ PieceOf(x) = <<>>
      BY <1>1, AddNodeCases, PieceFacts
    <2>2. StoryOf(P) \o <<>> = StoryOf(P)
      BY <1>y, Regroup
    <2> QED
      BY <2>1, <2>2, Zenon
  <1>2. CASE ~Dropped(x) /\ ~Joins(P, x)
    <2>1. AddNode(P, x) = Append(P, x)
      BY <1>2, AddNodeCases
    <2> QED
      BY <2>1, StoryAppend
  <1>3. CASE Joins(P, x)
    <2>1. PICK n \in Nat : n = Len(P)
      OBVIOUS
    <2>2. PICK Q : Q = AddNode(P, x)
      OBVIOUS
    <2>3. Extended(P, Q, n, x)
      BY <1>3, <2>1, <2>2, JoinedNode
    <2>4. /\ Q \in Seq(Items) /\ Len(Q) = n /\ n \in 1..n
          /\ \A i \in 1..n : P[i].k = Q[i].k /\ (i # n => P[i] = Q[i])
          /\ Q[n].t = P[n].t \o x.t
      BY <2>3 DEF Extended
    <2>5. PICK a \in [0..n -> Seq(Tellings)] : Narrates(a, P, n) /\ StoryOf(P) = a[n]
      BY <2>1, StoryOfIs
    <2>6. PICK b \in [0..n -> Seq(Tellings)] : Narrates(b, Q, n) /\ StoryOf(Q) = b[n]
      BY <2>4, StoryOfIs
    <2>7. PICK m \in Nat : m = n - 1 /\ m \in 0..n /\ \A i \in 1..m : i \in 1..n /\ i # n
      BY <2>4
    <2>8. Narrates(a, P, m) /\ Narrates(b, Q, m)
      BY <2>5, <2>6, <2>7, Zenon DEF Narrates
    <2>9. Alike(P, Q, m)
      BY <2>4, <2>7 DEF Alike
    <2>10. a[m] = b[m]
      BY <2>8, <2>9, NarrationsAgree, Zenon
    <2>11. a[n] = a[m] \o PieceOf(P[n]) /\ b[n] = b[m] \o PieceOf(Q[n])
      <3>1. a[n] = a[n - 1] \o PieceOf(P[n])
        BY <2>4, <2>5, Zenon DEF Narrates
      <3>2. b[n] = b[n - 1] \o PieceOf(Q[n])
        BY <2>4, <2>6, Zenon DEF Narrates
      <3> QED
        BY <2>7, <3>1, <3>2
    <2>12. P[n] \in Items /\ Q[n] \in Items
      BY <2>1, <2>4
    <2>13. P[n].k = "text" /\ Q[n].k = "text" /\ x.k = "text"
      BY <1>3, <2>1, <2>4 DEF Joins
    <2>14. /\ PieceOf(P[n]) = Characters(P[n].t) /\ PieceOf(Q[n]) = Characters(Q[n].t)
           /\ PieceOf(x) = Characters(x.t)
      BY <2>12, <2>13, PieceFacts
    <2>15. P[n].t \in Seq(DOMAIN CharSize) /\ x.t \in Seq(DOMAIN CharSize)
      BY <2>12, ItemTypes
    <2>16. Characters(Q[n].t) = Characters(P[n].t) \o Characters(x.t)
      BY <2>4, <2>15, CharactersFacts
    <2>17. /\ Characters(P[n].t) \in Seq(T) /\ Characters(x.t) \in Seq(T)
           /\ a[m] \in Seq(T)
      BY <1>z, <2>5, <2>7, <2>15, CharactersFacts
    <2>18. a[m] \o (Characters(P[n].t) \o Characters(x.t))
             = (a[m] \o Characters(P[n].t)) \o Characters(x.t)
      BY <2>17, Regroup
    <2> QED
      BY <2>2, <2>5, <2>6, <2>10, <2>11, <2>14, <2>16, <2>18, Zenon
  <1> QED
    BY <1>1, <1>2, <1>3

LEMMA NodesTellItems ==
  ASSUME NEW items \in Seq(Items)
  PROVE  StoryOf(Nodes(items)) = StoryOf(items)
  <1>1. PICK n \in Nat : n = Len(items)
    OBVIOUS
  <1>2. PICK a \in [0..n -> Seq(Items)] : InTurn(a, items, n) /\ Nodes(items) = a[n]
    BY <1>1, NodesIs
  <1>3. PICK told \in [0..n -> Seq(Tellings)] : Narrates(told, items, n) /\ StoryOf(items) = told[n]
    BY <1>1, StoryOfIs
  <1> DEFINE S == {i \in 0..n : StoryOf(a[i]) = told[i]}
  <1>4. 0 \in S
    <2>1. PICK e \in Seq(Items) : e = <<>> /\ Len(e) = 0
      <3>1. PICK W : W = Items
        OBVIOUS
      <3>2. <<>> \in Seq(W) /\ Len(<<>>) = 0
        OBVIOUS
      <3> QED
        BY <3>1, <3>2

    <2>2. PICK h \in [0..0 -> Seq(Tellings)] : Narrates(h, e, 0) /\ StoryOf(e) = h[0]
      BY <2>1, StoryOfIs
    <2>3. h[0] = <<>> /\ told[0] = <<>> /\ a[0] = <<>>
      BY <1>2, <1>3, <2>2, Zenon DEF Narrates, InTurn
    <2>4. 0 \in 0..n
      OBVIOUS
    <2>5. StoryOf(a[0]) = told[0]
      BY <2>1, <2>2, <2>3, Zenon
    <2> QED
      BY <2>4, <2>5
  <1>5. ASSUME NEW i \in 1..n, i - 1 \in S PROVE i \in S
    <2>1. a[i - 1] \in Seq(Items) /\ items[i] \in Items /\ i \in 0..n
      BY <1>1
    <2>2. a[i] = AddNode(a[i - 1], items[i])
      BY <1>2, Zenon DEF InTurn
    <2>3. told[i] = told[i - 1] \o PieceOf(items[i])
      BY <1>3, Zenon DEF Narrates
    <2>4. StoryOf(a[i - 1]) = told[i - 1]
      BY <1>5
    <2>5. StoryOf(AddNode(a[i - 1], items[i])) = StoryOf(a[i - 1]) \o PieceOf(items[i])
      BY <2>1, StoryAdd
    <2>6. StoryOf(a[i]) = told[i]
      BY <2>2, <2>3, <2>4, <2>5, Zenon
    <2> QED
      BY <2>1, <2>6
  <1>6. 0..n \subseteq S
    <2> HIDE DEF S
    <2> QED
      BY <1>4, <1>5, CountUp
  <1>7. n \in S
    BY <1>6
  <1> QED
    BY <1>2, <1>3, <1>7
(* A declaration is no node.                                               *)
Undeclared(P, n) == \A i \in 1..n : P[i].k # "decl"

LEMMA UndeclaredAdd ==
  ASSUME NEW P \in Seq(Items), NEW x \in Items, Undeclared(P, Len(P))
  PROVE  Undeclared(AddNode(P, x), Len(AddNode(P, x)))
  <1>1. PICK n \in Nat : n = Len(P)
    OBVIOUS
  <1>2. PICK Q : Q = AddNode(P, x)
    OBVIOUS
  <1>3. CASE Dropped(x)
    <2>1. Q = P
      BY <1>2, <1>3, AddNodeCases
    <2> QED
      BY <1>2, <2>1
  <1>4. CASE Joins(P, x)
    <2>0. Extended(P, Q, n, x)
      BY <1>1, <1>2, <1>4, JoinedNode
    <2>1. Len(Q) = n /\ \A i \in 1..n : P[i].k = Q[i].k
      BY <2>0 DEF Extended
    <2> QED

      BY <1>1, <1>2, <2>1 DEF Undeclared
  <1>5. CASE ~Dropped(x) /\ ~Joins(P, x)
    <2>1. Q = Append(P, x)
      BY <1>2, <1>5, AddNodeCases
    <2>2. Len(Q) = n + 1 /\ \A i \in 1..(n + 1) : Q[i] = IF i <= n THEN P[i] ELSE x
      BY <1>1, <2>1
    <2>3. x.k # "decl"
      BY <1>5 DEF Dropped
    <2>4. ASSUME NEW i \in 1..(n + 1) PROVE Q[i].k # "decl"
      <3>1. CASE i <= n
        <4>1. i \in 1..n
          BY <3>1
        <4> QED
          BY <1>1, <2>2, <3>1, <4>1 DEF Undeclared
      <3>2. CASE ~(i <= n)
        BY <2>2, <2>3, <3>2
      <3> QED
        BY <3>1, <3>2
    <2> QED
      BY <1>2, <2>2, <2>4 DEF Undeclared
  <1> QED
    BY <1>3, <1>4, <1>5

LEMMA NodesUndeclared ==
  ASSUME NEW items \in Seq(Items)
  PROVE  Undeclared(Nodes(items), Len(Nodes(items)))
  <1>1. PICK n \in Nat : n = Len(items)
    OBVIOUS
  <1>2. PICK a \in [0..n -> Seq(Items)] : InTurn(a, items, n) /\ Nodes(items) = a[n]
    BY <1>1, NodesIs
  <1> DEFINE S == {i \in 0..n : Undeclared(a[i], Len(a[i]))}
  <1>3. 0 \in S
    <2>1. a[0] = <<>>
      BY <1>2 DEF InTurn
    <2>2. Undeclared(<<>>, Len(<<>>))
      BY DEF Undeclared
    <2> QED
      BY <2>1, <2>2
  <1>4. ASSUME NEW i \in 1..n, i - 1 \in S PROVE i \in S
    <2>1. a[i - 1] \in Seq(Items) /\ items[i] \in Items /\ i \in 0..n
      BY <1>1
    <2>2. a[i] = AddNode(a[i - 1], items[i])
      BY <1>2, Zenon DEF InTurn
    <2>3. PICK P \in Seq(Items) : P = a[i - 1]
      BY <2>1
    <2>4. Undeclared(P, Len(P))
      BY <1>4, <2>3
    <2>5. Undeclared(AddNode(P, items[i]), Len(AddNode(P, items[i])))
      BY <2>1, <2>4, UndeclaredAdd
    <2> QED
      BY <2>1, <2>2, <2>3, <2>5
  <1>5. 0..n \subseteq S
    <2> HIDE DEF S
    <2> QED
      BY <1>3, <1>4, CountUp
  <1>6. n \in S
    BY <1>5
  <1> QED
    BY <1>2, <1>6

(* An event tells what its node does.                                      *)
LEMMA EventTellsNode ==
  ASSUME NEW P, NEW i, P[i] \in Items, P[i].k # "decl"
  PROVE  EventPiece(Event(P, i)) = PieceOf(P[i])
  <1>1. PICK x \in Items : x = P[i]
    OBVIOUS
  <1>2. PICK e : e = Event(P, i)
    OBVIOUS
  <1>3. /\ e.kind = KindOf(x) /\ e.name = NodeName(x) /\ e.value = x.t
        /\ e.attributes = x.a /\ e.empty = (x.k = "empty")
    BY <1>1, <1>2 DEF Event
  <1>4. x.k \in ItemKinds /\ x.k # "decl"
    BY <1>1, ItemTypes
  <1>5. CASE x.k \in {"text", "cdata"}
    <2>1. e.kind = "text"
      BY <1>3, <1>5 DEF KindOf
    <2>2. EventPiece(e) = Characters(x.t)
      BY <1>3, <2>1 DEF EventPiece
    <2>3. PieceOf(x) = Characters(x.t)
      BY <1>5, PieceFacts
    <2> QED
      BY <1>1, <1>2, <2>2, <2>3
  <1>6. CASE x.k \notin {"text", "cdata"}
    <2>1. PieceOf(x) = <<MarkOf(x)>>
      BY <1>4, <1>6 DEF PieceOf
    <2>2. KindOf(x) # "text"
      BY <1>4, <1>6 DEF KindOf, ItemKinds
    <2>3. EventPiece(e) = <<Told(KindOf(x), NodeName(x), x.t, x.a, x.k = "empty")>>
      BY <1>3, <2>2, Zenon DEF EventPiece
    <2>4. MarkOf(x) = Told(KindOf(x), NodeName(x), x.t, x.a, x.k = "empty")
      BY <1>4, <1>6 DEF MarkOf, KindOf
    <2> QED
      BY <1>1, <1>2, <2>1, <2>3, <2>4
  <1> QED
    BY <1>5, <1>6
-----------------------------------------------------------------------------
(* The events reported are those of the first n nodes; while the reader is *)
(* open, it has passed just these.                                         *)
Reports(P, n) ==
  /\ n \in 0..Len(P)
  /\ reported = [i \in 1..n |-> Event(P, i)]
  /\ reader = "open" => position = n
  /\ reader = "ended" => n = Len(P)

ReportInv ==
  /\ WriterTypeOK
  /\ doc \in Seq(Items)
  /\ \E n \in Nat : Reports(Nodes(doc), n)

LEMMA LegalLength ==
  ASSUME NEW P, NEW n \in Nat, n = Len(P)
  PROVE  LegalPrefix(P) \in 0..n
  <1>1. PICK S : S = {i \in 0..n : \A j \in 1..i : Legal(P, j)}
    OBVIOUS
  <1>2. 0 \in S /\ S \subseteq 0..n
    BY <1>1
  <1>3. PICK R : R = {d \in 0..n : n - d \in S}
    OBVIOUS
  <1>4. R \in SUBSET Nat /\ n \in R
    BY <1>2, <1>3
  <1>5. PICK d \in R : \A e \in R : d <= e
    BY <1>4, LeastNat
  <1>6. n - d \in S /\ d \in 0..n
    BY <1>3
  <1>7. \A k \in S : n - d >= k
    <2>1. ASSUME NEW k \in S PROVE n - d >= k
      <3>1. k \in 0..n /\ n - k \in 0..n /\ n - (n - k) = k
        BY <1>2
      <3>2. n - k \in R
        BY <1>3, <3>1
      <3> QED
        BY <1>5, <1>6, <3>1, <3>2
    <2> QED
      BY <2>1
  <1>8. Sets!Max(S) \in S
    BY <1>6, <1>7 DEF Sets!Max
  <1> QED
    BY <1>1, <1>2, <1>8 DEF LegalPrefix

LEMMA OpensOrFails ==
  ASSUME NEW items, NEW given
  PROVE  OpenError(items, given) \notin {"open", "ended"}
  BY DEF OpenError, DoctypeCheck

LEMMA OpensEmpty ==
  ASSUME NEW items \in Seq(Items), NEW given, Open(items, given), WriterTypeOK'
  PROVE  ReportInv'
  <1>1. doc' = items /\ reported' = <<>> /\ position' = 0 /\ reader' # "ended"
    BY OpensOrFails DEF Open
  <1>2. PICK P : P = Nodes(items)
    OBVIOUS
  <1>3. 0 \in 0..Len(P)
    BY <1>2, NodesFacts
  <1>4. reported' = [i \in 1..0 |-> Event(P, i)]
    BY <1>1
  <1>5. doc' \in Seq(Items)
    BY <1>1
  <1>6. Reports(P, 0)'
    BY <1>1, <1>3, <1>4 DEF Reports
  <1>7. Nodes(doc') = P
    BY <1>1, <1>2
  <1> QED
    BY <1>5, <1>6, <1>7 DEF ReportInv, Reports

LEMMA ReportStep ==
  ASSUME ReportInv, ReaderNext, WriterTypeOK'
  PROVE  ReportInv'
  <1>1. PICK P : P = Nodes(doc)
    OBVIOUS
  <1>2. PICK n \in Nat : Reports(P, n)
    BY <1>1 DEF ReportInv
  <1>3. /\ n \in 0..Len(P) /\ reported = [i \in 1..n |-> Event(P, i)]
        /\ reader = "open" => position = n
        /\ reader = "ended" => n = Len(P)
    BY <1>2 DEF Reports
  <1>4. P \in Seq(Items) /\ doc \in Seq(Items)
    BY <1>1, NodesFacts DEF ReportInv
  <1>5. doc' = doc
    BY DEF ReaderNext, NextAgain, NextMalformed, NextNode, NextEnd, readerVars
  <1>6. ASSUME NEW m \in Nat, m \in 0..Len(P), reported' = [i \in 1..m |-> Event(P, i)],
               reader' = "open" => position' = m, reader' = "ended" => m = Len(P)
        PROVE  ReportInv'
    <2>1. Reports(P, m)'
      BY <1>6 DEF Reports
    <2>2. doc' \in Seq(Items) /\ Nodes(doc') = P
      BY <1>1, <1>4, <1>5
    <2> QED
      BY <2>1, <2>2 DEF ReportInv, Reports
  <1>7. CASE NextAgain
    <2>1. reported' = reported /\ reader' = reader /\ position' = position
      BY <1>7 DEF NextAgain, readerVars
    <2> QED
      BY <1>3, <1>6, <2>1
  <1>8. CASE NextMalformed
    <2>1. reported' = reported /\ reader' = "syntax"
      BY <1>8 DEF NextMalformed
    <2> QED
      BY <1>3, <1>6, <2>1
  <1>9. CASE NextEnd
    <2>1. reported' = reported /\ reader' = "ended" /\ position = Len(P) /\ reader = "open"
      BY <1>1, <1>9 DEF NextEnd
    <2> QED
      BY <1>3, <1>6, <2>1
  <1>10. CASE NextNode
    <2>1. reader = "open" /\ position < LegalPrefix(P) /\ position' = position + 1
      BY <1>1, <1>10 DEF NextNode
    <2>2. PICK l \in Nat : l = Len(P)
      BY <1>4
    <2>3. LegalPrefix(P) \in 0..l
      BY <2>2, LegalLength
    <2>4. PICK m \in Nat : m = n + 1 /\ m = position' /\ m \in 0..l
      BY <1>3, <2>1, <2>3
    <2>5. PICK found : found = NodeError(P, m, limits)
      OBVIOUS
    <2>6. found \notin {"open", "ended"}
      BY <2>5 DEF NodeError
    <2>7. CASE found = "none"
      <3>1. reported' = Append(reported, Event(P, m)) /\ reader' = reader
        BY <1>1, <1>10, <2>4, <2>5, <2>7 DEF NextNode
      <3>2. PICK f : f = [i \in 1..m |-> Event(P, i)]
        OBVIOUS
      <3>3. Append(reported, Event(P, m)) = f
        <4>1. PICK v : v = Event(P, m)
          OBVIOUS
        <4>2. PICK r : r = reported
          OBVIOUS
        <4>3. f[m] = v /\ (\A i \in 1..n : f[i] = r[i]) /\ f = [i \in 1..m |-> f[i]]
          BY <1>3, <2>4, <3>2, <4>1, <4>2
        <4>4. r = [i \in 1..n |-> r[i]]
          BY <1>3, <4>2
        <4>5. PICK U : U = {r[i] : i \in 1..n} \cup {v}
          OBVIOUS
        <4>6. r \in Seq(U) /\ Len(r) = n /\ v \in U
          BY <4>4, <4>5
        <4>7. PICK g : g = Append(r, v)
          OBVIOUS
        <4>8. g \in Seq(U) /\ Len(g) = m /\ \A i \in 1..m : g[i] = IF i <= n THEN r[i] ELSE v
          BY <2>4, <4>6, <4>7
        <4>9. \A i \in 1..m : g[i] = f[i]
          <5>1. ASSUME NEW i \in 1..m PROVE g[i] = f[i]
            <6>1. CASE i = m
              BY <2>4, <4>3, <4>8, <6>1
            <6>2. CASE i # m
              <7>1. i \in 1..n /\ i <= n
                BY <2>4, <6>2
              <7> QED
                BY <4>3, <4>8, <7>1
            <6> QED
              BY <6>1, <6>2
          <5> QED
            BY <5>1
        <4>10. g = [i \in 1..m |-> g[i]]
          BY <4>8
        <4>11. g = f
          BY <4>3, <4>9, <4>10
        <4> QED
          BY <4>1, <4>2, <4>7, <4>11
      <3> QED
        BY <1>6, <2>1, <2>2, <2>4, <3>1, <3>2, <3>3
    <2>8. CASE found # "none"
      <3>1. reported' = reported /\ reader' = found
        BY <1>1, <1>10, <2>4, <2>5, <2>8 DEF NextNode
      <3> QED
        BY <1>3, <1>6, <2>6, <3>1
    <2> QED
      BY <2>7, <2>8
  <1> QED
    BY <1>7, <1>8, <1>9, <1>10 DEF ReaderNext

LEMMA ReportInvStep == ReportInv /\ [NativeNext]_nativeVars => ReportInv'
  <1> SUFFICES ASSUME ReportInv, [NativeNext]_nativeVars PROVE ReportInv'
    OBVIOUS
  <1>1. WriterTypeOK /\ WriterTypeOK'
    BY TypeStep DEF ReportInv
  <1>2. CASE UNCHANGED readerVars
    <2>1. reported' = reported /\ reader' = reader /\ position' = position /\ doc' = doc
      BY <1>2 DEF readerVars
    <2> QED
      BY <1>1, <2>1 DEF ReportInv, Reports
  <1>3. CASE OpenOutput
    <2>1. Open(file, Limits) /\ file \in Seq(Items)
      BY <1>1, <1>3, WritableSeq DEF OpenOutput, WriterTypeOK
    <2> QED
      BY <1>1, <2>1, OpensEmpty
  <1>4. CASE OpenOther
    <2>1. PICK d \in Documents, given \in OtherLimits : Open(d, given)
      BY <1>4 DEF OpenOther
    <2>2. d \in Seq(Items)
      BY CallsAssumption
    <2> QED
      BY <1>1, <2>1, <2>2, OpensEmpty
  <1>5. CASE ReaderNext
    BY <1>1, <1>5, ReportStep
  <1> QED
    BY <1>2, <1>3, <1>4, <1>5 DEF NativeNext, nativeVars

LEMMA InitReportInv == NativeInit => ReportInv
  <1> SUFFICES ASSUME NativeInit PROVE ReportInv
    OBVIOUS
  <1>1. doc = <<>> /\ reader = "none" /\ reported = <<>>
    BY DEF NativeInit, ReaderInit
  <1>2. PICK W : W = Items
    OBVIOUS
  <1>3. doc \in Seq(Items)
    <2>1. doc \in Seq(W)
      BY <1>1
    <2> QED
      BY <1>2, <2>1
  <1>4. Nodes(doc) = <<>>
    BY <1>1, <1>3, NodesFacts
  <1>5. reported = [i \in 1..0 |-> Event(Nodes(doc), i)]
    BY <1>1
  <1>6. Reports(Nodes(doc), 0)
    BY <1>1, <1>4, <1>5 DEF Reports
  <1> QED
    BY <1>3, <1>6, InitWriterInv DEF ReportInv, WriterInv
(* The story of the first n events is that of the first n nodes.           *)
LEMMA ReportTells ==
  ASSUME ReportInv, NEW P, P = Nodes(doc), NEW n \in Nat, Reports(P, n)
  PROVE  /\ Beginning(StoryRead(reported), StoryOf(doc))
         /\ reader = "ended" => StoryRead(reported) = StoryOf(doc)
  <1>1. P \in Seq(Items) /\ doc \in Seq(Items)
    BY NodesFacts DEF ReportInv
  <1>2. PICK l \in Nat : l = Len(P)
    BY <1>1
  <1>3. n \in 0..l /\ (reader = "ended" => n = l)
    BY <1>2 DEF Reports
  <1>4. PICK r : r = reported
    OBVIOUS
  <1>5. r = [i \in 1..n |-> Event(P, i)]
    BY <1>4 DEF Reports
  <1>6. Len(r) = n /\ \A i \in 1..n : r[i] = Event(P, i)
    BY <1>5
  <1>7. ASSUME NEW i \in 1..l PROVE P[i] \in Items /\ P[i].k # "decl"
    <2>1. Undeclared(P, l)
      BY <1>1, <1>2, NodesUndeclared
    <2> QED
      BY <1>1, <1>2, <2>1 DEF Undeclared
  <1>8. PICK p : p = [i \in 1..l |-> PieceOf(P[i])]
    OBVIOUS
  <1>9. p \in [1..l -> Seq(Tellings)]
    <2>1. \A i \in 1..l : p[i] \in Seq(Tellings)
      BY <1>7, <1>8, PieceFacts
    <2> QED
      BY <1>8, <2>1
  <1>10. PICK a \in [0..l -> Seq(Tellings)] : Tells(a, p, l) /\ Story(p) = a[l]
    BY <1>9, StoryIs
  <1>11. a[l] = StoryOf(doc)
    <2>1. StoryOf(P) = Story(p)
      BY <1>2, <1>8 DEF StoryOf
    <2> QED
      BY <1>1, <1>10, <2>1, NodesTellItems
  <1>12. PICK q : q = [i \in 1..n |-> EventPiece(r[i])]
    OBVIOUS
  <1>13. ASSUME NEW i \in 1..n PROVE q[i] = p[i] /\ q[i] \in Seq(Tellings)
    <2>1. i \in 1..l
      BY <1>3
    <2>2. q[i] = EventPiece(Event(P, i))
      BY <1>6, <1>12
    <2>3. EventPiece(Event(P, i)) = PieceOf(P[i])
      BY <1>7, <2>1, EventTellsNode
    <2>4. p[i] = PieceOf(P[i])
      BY <1>8, <2>1
    <2>5. p[i] \in Seq(Tellings)
      BY <1>9, <2>1
    <2> QED
      BY <2>2, <2>3, <2>4, <2>5, Zenon
  <1>14. q \in [1..n -> Seq(Tellings)]
    BY <1>12, <1>13
  <1>15. PICK b \in [0..n -> Seq(Tellings)] : Tells(b, q, n) /\ Story(q) = b[n]
    BY <1>14, StoryIs
  <1>16. StoryRead(r) = b[n]
    BY <1>6, <1>12, <1>15 DEF StoryRead
  <1>17. Tells(a, p, n)
    <2>1. \A i \in 1..n : i \in 1..l
      BY <1>3
    <2> QED
      BY <1>10, <2>1, Zenon DEF Tells
  <1>18. a[n] = b[n]
    <2>1. Alike(p, q, n)
      BY <1>13 DEF Alike
    <2>2. Tells(b, q, n)
      BY <1>15
    <2> QED
      BY <1>17, <2>1, <2>2, StoriesAgree, Zenon
  <1>19. Beginning(a[n], a[l])
    BY <1>3, <1>9, <1>10, StoryBegins
  <1>20. Beginning(StoryRead(r), StoryOf(doc))
    BY <1>11, <1>16, <1>18, <1>19, Zenon
  <1>21. reader = "ended" => StoryRead(r) = StoryOf(doc)
    BY <1>3, <1>11, <1>16, <1>18
  <1> QED
    BY <1>4, <1>20, <1>21

(* The depth of a node is what the events count.                           *)
LEMMA ReportCounts ==
  ASSUME NEW P \in Seq(Items), NEW n \in Nat, Reports(P, n), NEW i \in 1..n
  PROVE  reported[i].depth = DepthRead(reported, i)
  <1>1. PICK r : r = reported
    OBVIOUS
  <1>2. r = [j \in 1..n |-> Event(P, j)]
    BY <1>1 DEF Reports
  <1>3. ASSUME NEW j \in 1..n
        PROVE  /\ r[j].kind = "start_element" /\ ~r[j].empty <=> P[j].k = "start"
               /\ r[j].kind = "end_element" <=> P[j].k = "end"
               /\ r[j].depth = Depth(P, j)
    <2>1. r[j] = Event(P, j)
      BY <1>2
    <2>2. PICK x : x = P[j]
      OBVIOUS
    <2>3. PICK e : e = Event(P, j)
      OBVIOUS
    <2>4. e.kind = KindOf(x) /\ e.empty = (x.k = "empty") /\ e.depth = Depth(P, j)
      BY <2>2, <2>3 DEF Event
    <2>a. x.k \in ItemKinds
      <3>1. j \in 1..Len(P)
        BY DEF Reports
      <3>2. P[j] \in Items
        BY <3>1
      <3> QED
        BY <2>2, <3>2, ItemTypes
    <2>5. KindOf(x) = "start_element" /\ x.k # "empty" <=> x.k = "start"
      BY <2>a DEF KindOf, ItemKinds
    <2>6. KindOf(x) = "end_element" <=> x.k = "end"
      BY <2>a DEF KindOf, ItemKinds
    <2> QED
      BY <2>1, <2>2, <2>3, <2>4, <2>5, <2>6
  <1>4. PICK K : K = {j \in 1..n : P[j].k = "start"}
    OBVIOUS
  <1>5. PICK E : E = {j \in 1..n : P[j].k = "end"}
    OBVIOUS
  <1>6. PICK h \in Nat : i = h + 1 /\ h = i - 1
    OBVIOUS
  <1>7. {j \in 1..i - 1 : r[j].kind = "start_element" /\ ~r[j].empty} = K \cap 1..h
    BY <1>3, <1>4, <1>6
  <1>8. {j \in 1..i : r[j].kind = "end_element"} = E \cap 1..i
    BY <1>3, <1>5
  <1>9. {j \in 1..i : P[j].k = "start"} = K \cap 1..i
    BY <1>4
  <1>10. {j \in 1..i : P[j].k = "end"} = E \cap 1..i
    BY <1>5
  <1>11. DepthRead(r, i) = Cardinality(K \cap 1..h) - Cardinality(E \cap 1..i)
    BY <1>7, <1>8 DEF DepthRead
  <1>12. OpenAt(P, i) = Cardinality(K \cap 1..i) - Cardinality(E \cap 1..i)
    BY <1>9, <1>10 DEF OpenAt
  <1>13. K \in SUBSET Nat /\ E \in SUBSET Nat /\ i \in Nat \ {0}
    BY <1>4, <1>5
  <1>14. /\ Cardinality(K \cap 1..h) \in Nat
         /\ Cardinality(K \cap 1..i) = Cardinality(K \cap 1..h) + (IF i \in K THEN 1 ELSE 0)
    BY <1>6, <1>13, CountedOneByOne
  <1>15. Cardinality(E \cap 1..i) \in Nat
    <2>1. PICK m \in Nat \ {0} : m = i + 1
      OBVIOUS
    <2> QED
      BY <1>13, <2>1, CountedOneByOne
  <1>16. i \in K <=> P[i].k = "start"
    BY <1>4
  <1>17. Depth(P, i) = DepthRead(r, i)
    <2>1. PICK s \in Nat : s = Cardinality(K \cap 1..h)
      BY <1>14
    <2>2. PICK t \in Nat : t = Cardinality(E \cap 1..i)
      BY <1>15
    <2>3. CASE P[i].k = "start"
      <3>1. Depth(P, i) = OpenAt(P, i) - 1
        BY <2>3 DEF Depth
      <3>2. OpenAt(P, i) = (s + 1) - t
        BY <1>12, <1>14, <1>16, <2>1, <2>2, <2>3
      <3> QED
        BY <1>11, <2>1, <2>2, <3>1, <3>2
    <2>4. CASE P[i].k # "start"
      <3>1. Depth(P, i) = OpenAt(P, i)
        BY <2>4 DEF Depth
      <3>2. OpenAt(P, i) = (s + 0) - t
        BY <1>12, <1>14, <1>16, <2>1, <2>2, <2>4
      <3> QED
        BY <1>11, <2>1, <2>2, <3>1, <3>2
    <2> QED
      BY <2>3, <2>4
  <1> QED
    BY <1>1, <1>3, <1>17

(* The events of a document tell what was written: libxml2 joins texts and *)
(* leaves out what is empty, but the markup and every character come out   *)
(* in their order, each event at the depth its place in the document has,  *)
(* and all of it has come when the reader says that it has ended.          *)
THEOREM EventsAlwaysTellDocument == NativeSpec => []EventsTellDocument
  <1>1. ReportInv => EventsTellDocument
    <2> SUFFICES ASSUME ReportInv PROVE EventsTellDocument
      OBVIOUS
    <2>1. PICK P \in Seq(Items) : P = Nodes(doc)
      BY NodesFacts DEF ReportInv
    <2>2. PICK n \in Nat : Reports(P, n)
      BY <2>1 DEF ReportInv
    <2>3. /\ Beginning(StoryRead(reported), StoryOf(doc))
          /\ reader = "ended" => StoryRead(reported) = StoryOf(doc)
      BY <2>1, <2>2, ReportTells
    <2>4. Len(reported) = n
      BY <2>2 DEF Reports
    <2>5. \A i \in 1..n : reported[i].depth = DepthRead(reported, i)
      BY <2>2, ReportCounts
    <2>6. PICK s : s = StoryRead(reported)
      OBVIOUS
    <2>7. PICK t : t = StoryOf(doc)
      OBVIOUS
    <2>8. Len(s) <= Len(t) /\ s = SubSeq(t, 1, Len(s)) /\ (reader = "ended" => s = t)
      BY <2>3, <2>6, <2>7 DEF Beginning
    <2> QED
      BY <2>4, <2>5, <2>6, <2>7, <2>8, Zenon DEF EventsTellDocument

  <1> QED
    BY <1>1, InitReportInv, ReportInvStep, PTL DEF NativeSpec
=============================================================================
