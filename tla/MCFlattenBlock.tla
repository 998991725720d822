---------------------------- MODULE MCFlattenBlock ----------------------------
(* Texts that are rejected, that have no block, and that have some; and    *)
(* lists of nested and crossing blocks.                                    *)
EXTENDS FlattenBlock

MCTexts == {"rejected", "inline", "siblings", "nested"}

Siblings == <<BlockAt(0, 2), BlockAt(2, 3)>>
Nested3  == <<BlockAt(0, 4), BlockAt(1, 3), BlockAt(2, 3)>>

MCDivided ==
  [t \in MCTexts |->
     [ok     |-> t # "rejected",
      blocks |-> CASE t = "siblings" -> Siblings
                   [] t = "nested"   -> Nested3
                   [] OTHER          -> <<>>]]

MCBlockLists == {<<>>, Siblings, <<BlockAt(1, 3), BlockAt(2, 4)>>}
=============================================================================
