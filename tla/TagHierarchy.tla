---------------------------- MODULE TagHierarchy ----------------------------
(***************************************************************************)
(* build_hierarchy of TagParser.cpp: the flat list of ranges that          *)
(* ParseOpenTags returns becomes a tree, one range per step.  GetTagInfo   *)
(* then reads the tree back in preorder.                                   *)
(*                                                                         *)
(* Ranges may cross, so the tree is not simply the nesting of the tags.    *)
(* active_nodes is a stack that is only popped while its last node has     *)
(* ended; nodes further down that have ended stay in it.                   *)
(***************************************************************************)
EXTENDS Naturals, Sequences, FiniteSets

Seqs == INSTANCE SequencesExt

CONSTANTS BlockNames, BlockDisplays

VARIABLES
  doc,           \* input: the document ParseOpenTags was called with
  ranges,        \* what it returned for it
  entries,       \* number of ranges that have become nodes
  children,      \* children[i]: the nodes below node i, in order
  roots,
  active_nodes,
  status         \* "waiting", "running", "nullopt" or "parsed"

vars == <<doc, ranges, entries, children, roots, active_nodes, status>>

Init ==
  /\ ranges = <<>>
  /\ entries = 0
  /\ children = <<>>
  /\ roots = <<>>
  /\ active_nodes = <<>>
  /\ status = "waiting"

Start(parsed) ==
  /\ status = "waiting"
  /\ ranges' = parsed
  /\ children' = [i \in 1..Len(parsed) |-> <<>>]
  /\ status' = "running"
  /\ UNCHANGED <<doc, entries, roots, active_nodes>>

ContainsRange(parent, child) ==
  parent.RawBegin < child.RawBegin /\ child.RawEnd <= parent.RawEnd

(* parse_fields: the attributes of the opening markup are read again.      *)
FieldsParse(range) == doc[range.RawBegin + 1].ok

Current == ranges[entries + 1]

(* Nodes are numbered from 1; the code has pointers.                       *)
Node == entries + 1

(* The stack without the ended nodes at its back.                          *)
Popped ==
  LET running == {i \in DOMAIN active_nodes :
                    ranges[active_nodes[i]].RawEnd > Current.RawBegin}
  IN  SubSeq(active_nodes, 1,
             IF running = {} THEN 0
             ELSE CHOOSE i \in running : \A j \in running : j <= i)

(* The positions of the stack that can be the parent of the current range; *)
(* the search from the back takes the last one.                            *)
OutermostHolder(stack) ==
  {i \in DOMAIN stack :
     /\ ContainsRange(ranges[stack[i]], Current)
     /\ \A j \in 1..(i - 1) : ~ContainsRange(ranges[stack[j]], Current)}

Holders(stack) ==
  {i \in DOMAIN stack : ContainsRange(ranges[stack[i]], Current)}

FieldsRejected ==
  /\ status = "running"
  /\ entries < Len(ranges)
  /\ ~FieldsParse(Current)
  /\ status' = "nullopt"
  /\ UNCHANGED <<doc, ranges, entries, children, roots, active_nodes>>

AddNode ==
  /\ status = "running"
  /\ entries < Len(ranges)
  /\ FieldsParse(Current)
  /\ entries' = entries + 1
  /\ \/ /\ Holders(Popped) = {}
        /\ roots' = Append(roots, Node)
        /\ UNCHANGED children
     \/ \E h \in Holders(Popped) :
          /\ \A i \in Holders(Popped) : i <= h
          /\ children' = [children EXCEPT ![Popped[h]] = Append(@, Node)]
          /\ UNCHANGED roots
  /\ active_nodes' = Append(Popped, Node)
  /\ UNCHANGED <<doc, ranges, status>>

(* materialize() copies the nodes reachable from the roots.                *)
Materialize ==
  /\ status = "running"
  /\ entries = Len(ranges)
  /\ status' = "parsed"
  /\ UNCHANGED <<doc, ranges, entries, children, roots, active_nodes>>

Next == FieldsRejected \/ AddNode \/ Materialize

-----------------------------------------------------------------------------
(* GetTagInfo's AppendRanges: the preorder of the materialized tree.       *)
Preorder ==
  LET below[i \in 0..Len(ranges)] ==
        \* Children come after their parent, so the recursion ends.
        IF i = 0 THEN <<>>
        ELSE <<i>> \o Seqs!FlattenSeq([c \in DOMAIN children[i] |->
                                         below[children[i][c]]])
  IN  Seqs!FlattenSeq([r \in DOMAIN roots |-> below[roots[r]]])

(* Popping ended nodes lazily loses no parent: every node hangs below the  *)
(* latest opened tag that contains its range, whatever tags cross it, and  *)
(* only a node that no tag contains is a root.                             *)
Containers(i) == {j \in 1..entries : ContainsRange(ranges[j], ranges[i])}

ParentIsInnermost ==
  \A i \in 1..entries :
    /\ Seqs!Contains(roots, i) <=> Containers(i) = {}
    /\ \A p \in 1..entries :
         Seqs!Contains(children[p], i) <=>
           p \in Containers(i) /\ \A j \in Containers(i) : j <= p

(* GetTagInfo::GetRanges() and what is built on it, such as the block      *)
(* lists, rely on the preorder of the tree being the document order; no    *)
(* tag is lost or listed twice when tags cross.                            *)
PreorderIsDocumentOrder == Preorder = [i \in 1..entries |-> i]
=============================================================================
