------------------------------- MODULE MCGroups -------------------------------
(* A program that keeps a CombineBlock and hands its blocks and groups to  *)
(* a BlockHTMLSerializer.  While the serializer is unused, selections are  *)
(* made from lists of separate, nested and crossing blocks, with slots     *)
(* that call the CombineBlock while it emits signals; while the            *)
(* CombineBlock is unused, the serializer is given the lists of            *)
(* MCBlockHTMLSerializer.                                                  *)
EXTENDS CombineBlock, MCBlockHTMLSerializer

MCBlockLists ==
  {<<>>,
   <<BlockAt(0, 1), BlockAt(1, 3)>>,
   <<BlockAt(0, 3), BlockAt(1, 4), BlockAt(2, 3)>>}

WriteGroups ==
  /\ calls = <<>>
  /\ SerializeMergedBlocks(blocks, combined_blocks) \/ Clear
  /\ UNCHANGED vars

InitGroups == Init /\ InitWriter

NextGroups ==
  \/ InitWriter /\ Next /\ UNCHANGED writerVars
  \/ Init /\ NextWriter /\ UNCHANGED vars
  \/ WriteGroups

SpecGroups == InitGroups /\ [][NextGroups]_<<vars, writerVars>>
=============================================================================
