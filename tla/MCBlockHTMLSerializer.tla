------------------------ MODULE MCBlockHTMLSerializer ------------------------
(* All lists of at most MaxBlocks ranges that the blocks of a document of  *)
(* MaxPosition tokens may have, in document order, crossing ones included; *)
(* and lists that no document has, with empty, equal and reversed ranges.  *)
EXTENDS BlockHTMLSerializer

CONSTANTS MaxPosition, MaxBlocks

Ranges == {r \in (0..MaxPosition) \X (0..MaxPosition) : r[1] < r[2]}

At(ranges) == [i \in DOMAIN ranges |-> BlockAt(ranges[i][1], ranges[i][2])]

(* No two blocks of a document start, or end, with the same tag.           *)
DocumentLists ==
  {At(s) : s \in {s \in UNION {[1..n -> Ranges] : n \in 0..MaxBlocks} :
                    \A i, j \in DOMAIN s :
                       i < j => s[i][1] < s[j][1] /\ s[i][2] # s[j][2]}}

Foreign == {<<BlockAt(2, 2), BlockAt(0, 3), BlockAt(0, 3)>>,
            <<BlockAt(1, 3), BlockAt(0, 1)>>,
            <<BlockAt(0, 1), [BlockAt(0, 1) EXCEPT !.raw_begin = 3]>>}

Siblings == At(<<<<0, 1>>, <<1, 2>>, <<2, 3>>>>)
Family   == At(<<<<0, 3>>, <<1, 2>>, <<3, 4>>>>)
Crossing == At(<<<<0, 2>>, <<1, 3>>>>)
Pairs    == At(<<<<0, 1>>, <<1, 2>>, <<2, 3>>, <<3, 4>>>>)

Choices(n) == {s \in UNION {[1..k -> 0..(n - 1)] : k \in 2..n} :
                 \A i \in 1..(Len(s) - 1) : s[i] < s[i + 1]}

One(blocks) == {<<Group(blocks, s)>> : s \in Choices(Len(blocks))}

Two(blocks) == {<<Group(blocks, s), Group(blocks, t)>> :
                  s \in Choices(Len(blocks)), t \in Choices(Len(blocks))}

Broken ==
  {<<[g[1] EXCEPT !.raw_begin = g[1].raw_end + 1]>> : g \in One(Siblings)}
    \cup {<<g[1], [g[2] EXCEPT !.raw_end = 0]>> :
            g \in {g \in Two(Family) : g[2].raw_begin > 0}}

(* Groups of the blocks themselves, groups of other blocks, and groups     *)
(* that are turned around.                                                 *)
MCMerges ==
  {<<c[1], <<Group(c[1], c[2])>>>> :
     c \in {c \in DocumentLists \X Choices(MaxBlocks) :
              c[2][Len(c[2])] < Len(c[1])}}
    \cup {<<Siblings, g>> : g \in Two(Siblings)}
    \cup {<<Family, g>> : g \in Two(Family)}
    \cup {<<Pairs, <<Group(Pairs, <<0, 1>>), Group(Pairs, <<2, 3>>)>>>>}
    \cup {<<blocks, g>> : blocks \in {Siblings, Crossing}, g \in One(Family)}
    \cup {<<blocks, g>> : blocks \in {Siblings, Crossing}, g \in Broken}
    \cup {<<blocks, <<Group(Pairs, <<0, 3>>)>>>> : blocks \in {Siblings, Crossing}}
    \cup {<<blocks, g>> : blocks \in Foreign, g \in One(Siblings)}

MCListsToWrite == DocumentLists \cup {merge[1] : merge \in MCMerges}

MCCombinedLists == {merge[2] : merge \in MCMerges}
=============================================================================
