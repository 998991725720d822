------------------------------ MODULE TagParser ------------------------------
(***************************************************************************)
(* TagParser::ParseAll: ParseOpenTags (OpenTag), then build_hierarchy      *)
(* (TagHierarchy) on the ranges it returned.                               *)
(***************************************************************************)
EXTENDS OpenTag

VARIABLES
  ranges, entries, children, roots, active_nodes,  \* of build_hierarchy
  tree                                             \* its status

treeVars == <<ranges, entries, children, roots, active_nodes, tree>>

H == INSTANCE TagHierarchy WITH status <- tree

BuildHierarchy ==
  /\ status = "parsed"
  /\ H!Start([r \in 1..Len(parsed_tags) |-> parsed_tags[r].Range])
  /\ UNCHANGED vars

ParseAllNext ==
  \/ Next /\ UNCHANGED treeVars
  \/ BuildHierarchy
  \/ H!Next /\ UNCHANGED vars

(* ParseAll has returned nodes, or none.                                   *)
ParsedAll   == tree = "parsed"
RejectedAll == status = "nullopt" \/ tree = "nullopt"

-----------------------------------------------------------------------------
(* Popping ended nodes lazily loses no parent: every node hangs below the  *)
(* latest opened tag that contains its range, whatever tags cross it, and  *)
(* only a node that no tag contains is a root.  GetTagInfo::GetRanges()    *)
(* and what is built on it, such as the block lists, rely on the preorder  *)
(* of the tree being the document order: no tag is lost or listed twice    *)
(* when tags cross.                                                        *)
TreeOfTags == H!ParentIsInnermost /\ H!PreorderIsDocumentOrder
=============================================================================
