---------------------------- MODULE ReadingProofs ----------------------------
(***************************************************************************)
(* Theorems about the readers of a text, for texts of every length.        *)
(*                                                                         *)
(* The scanner: the list of open tags and its index by name agree for      *)
(* every text, so it never dereferences an iterator of an erased entry and *)
(* each closing tag takes the most recent open tag of its name.  What it   *)
(* finds is what Markup declares, and it accepts what InputValidator       *)
(* accepts.                                                                *)
(*                                                                         *)
(* The slots: however one fails, and whatever throws while it works or     *)
(* answers, it concludes once, since the signals emitted and those still   *)
(* due together are one complete answer; and what it hands out is the root *)
(* of the text.                                                            *)
(*                                                                         *)
(* The rendering: its scanner is OpenTag, so what is proved of OpenTag     *)
(* holds of it, and the tree built of the ranges has the tags' innermost   *)
(* containers as parents and their document order as preorder.             *)
(***************************************************************************)
EXTENDS Reading, PositionsProofs

-----------------------------------------------------------------------------
(* The scanner.                                                            *)
OpenTagEntry == [Name : TagNames, OpenBegin : Nat, ValueBegin : Nat, Sequence : Nat]

TypeOK ==
  /\ doc \in Documents
  /\ index \in 0..Len(doc)
  /\ sequence \in Nat
  /\ active_tags \subseteq OpenTagEntry
  /\ active_tags_by_name \in [TagNames -> Seq(Nat)]

IInv == TypeOK /\ IndexMatchesList

LEMMA InitIInv == doc \in Documents /\ Init => IInv
  <1> SUFFICES ASSUME doc \in Documents, Init PROVE IInv
    OBVIOUS
  <1>1. TypeOK
    BY DEF TypeOK, Init, Documents
  <1>2. IndexMatchesList
    BY DEF Init, IndexMatchesList, DistinctEntries, StackOfName
  <1> QED
    BY <1>1, <1>2 DEF IInv

(* The token that is scanned, and its name if it is a tag.                 *)
LEMMA ScannedToken ==
  ASSUME TypeOK, Scanning
  PROVE  /\ index \in Nat /\ index + 1 \in 0..Len(doc)
         /\ token.k \in M!TagKinds => token.n \in TagNames
  <1>1. doc \in Seq(M!Token(TagNames)) /\ Len(doc) \in Nat
    BY DEF TypeOK, Documents
  <1>2. index \in Nat /\ index + 1 \in 1..Len(doc)
    BY <1>1 DEF TypeOK, Scanning
  <1>3. token.k \in M!TagKinds => token.n \in TagNames
    BY <1>1, <1>2 DEF TypeOK, Documents, token
  <1> QED
    BY <1>2, <1>3

(* What the stack of a name says of the list.                              *)
LEMMA TopOfStack ==
  ASSUME IInv, NEW name \in TagNames, active_tags_by_name[name] # <<>>
  PROVE  LET stack == active_tags_by_name[name]
             top   == stack[Len(stack)]
         IN  /\ Len(stack) \in Nat \ {0}
             /\ top \in Nat
             /\ Entry(name) \in active_tags
             /\ Entry(name).Sequence = top
             /\ Entry(name).Name = name
             /\ \A e \in active_tags : e.Name = name => e.Sequence <= top
  <1> DEFINE stack == active_tags_by_name[name]
             top   == stack[Len(stack)]
  <1>1. stack \in Seq(Nat) /\ Len(stack) \in Nat \ {0}
    BY DEF IInv, TypeOK
  <1>2. \A i \in 1..Len(stack) : stack[i] \in Nat
    BY <1>1
  <1>3. StackOfName(name) /\ DistinctEntries
    BY DEF IInv, IndexMatchesList
  <1>4. PICK e \in active_tags : e.Name = name /\ e.Sequence = top
    BY <1>1, <1>3 DEF StackOfName
  <1>5. Entry(name) \in active_tags /\ Entry(name).Sequence = top
    BY <1>4 DEF Entry
  <1>6. Entry(name) = e
    BY <1>3, <1>4, <1>5 DEF DistinctEntries
  <1>7. ASSUME NEW f \in active_tags, f.Name = name PROVE f.Sequence <= top
    <2>1. PICK i \in 1..Len(stack) : stack[i] = f.Sequence
      BY <1>3, <1>7 DEF StackOfName
    <2>2. i < Len(stack) => stack[i] < top
      BY <1>1, <1>3, <2>1 DEF StackOfName
    <2> QED
      BY <1>1, <1>2, <2>1, <2>2
  <1> QED
    BY <1>1, <1>2, <1>4, <1>5, <1>6, <1>7

LEMMA CloseStep == IInv /\ Close => IInv'
  <1> SUFFICES ASSUME IInv, Close PROVE IInv'
    OBVIOUS
  <1>1. token.n \in TagNames /\ index + 1 \in 0..Len(doc)
    BY ScannedToken DEF IInv, Close, M!TagKinds
  <1>a. PICK name \in TagNames : name = token.n
    BY <1>1
  <1> DEFINE closed == Entry(name)
             stack  == active_tags_by_name[name]
             tail   == SubSeq(stack, 1, Len(stack) - 1)
  <1>2. /\ Len(stack) \in Nat \ {0}
        /\ closed \in active_tags
        /\ closed.Sequence = stack[Len(stack)]
        /\ closed.Name = name
    BY <1>a, TopOfStack DEF Close
  <1>3. /\ active_tags' = active_tags \ {closed}
        /\ active_tags_by_name' = [active_tags_by_name EXCEPT ![name] = tail]
        /\ index' = index + 1
        /\ UNCHANGED <<doc, sequence>>
    BY <1>a DEF Close, IteratorPopped
  <1>4. stack \in Seq(Nat)
    BY DEF IInv, TypeOK
  <1>5. /\ tail \in Seq(Nat) /\ Len(tail) = Len(stack) - 1
        /\ \A i \in 1..Len(tail) : tail[i] = stack[i]
    BY <1>2, <1>4
  <1>6. DistinctEntries /\ \A n \in TagNames : StackOfName(n)
    BY DEF IInv, IndexMatchesList
  <1> HIDE DEF closed, stack, tail
  <1>7. TypeOK'
    BY <1>1, <1>3, <1>5 DEF IInv, TypeOK
  <1>8. DistinctEntries'
    BY <1>3, <1>6 DEF DistinctEntries
  <1>9. active_tags_by_name'[name] = tail
    BY <1>1, <1>3 DEF IInv, TypeOK
  <1>10. StackOfName(name)'
    <2>1. ASSUME NEW i \in 1..Len(tail), NEW j \in 1..Len(tail), i < j
          PROVE  tail[i] < tail[j]
      <3>1. i \in 1..Len(stack) /\ j \in 1..Len(stack)
        BY <1>2, <1>5
      <3>2. stack[i] < stack[j]
        BY <1>6, <2>1, <3>1 DEF StackOfName, stack
      <3> QED
        BY <1>5, <3>2
    <2>2. ASSUME NEW i \in 1..Len(tail)
          PROVE  \E e \in active_tags' : e.Name = name /\ e.Sequence = tail[i]
      <3>1. i \in 1..Len(stack) /\ i < Len(stack) /\ Len(stack) \in 1..Len(stack)
        BY <1>2, <1>5
      <3>2. PICK e \in active_tags : e.Name = name /\ e.Sequence = stack[i]
        BY <1>1, <1>6, <3>1 DEF StackOfName, stack
      <3>3. stack[i] < stack[Len(stack)]
        BY <1>1, <1>6, <3>1 DEF StackOfName, stack
      <3>4. stack[i] \in Nat /\ stack[Len(stack)] \in Nat
        BY <1>4, <3>1
      <3>5. e # closed
        BY <1>2, <3>2, <3>3, <3>4
      <3> QED
        BY <1>3, <1>5, <3>2, <3>5
    <2>3. ASSUME NEW e \in active_tags', e.Name = name
          PROVE  \E i \in 1..Len(tail) : tail[i] = e.Sequence
      <3>1. e \in active_tags /\ e # closed
        BY <1>3, <2>3
      <3>2. PICK i \in 1..Len(stack) : stack[i] = e.Sequence
        BY <1>1, <1>6, <2>3, <3>1 DEF StackOfName, stack
      <3>3. i # Len(stack)
        BY <1>2, <1>6, <3>1, <3>2 DEF DistinctEntries
      <3>4. i \in 1..Len(tail)
        BY <1>2, <1>5, <3>2, <3>3
      <3> QED
        BY <1>5, <3>2, <3>4
    <2> QED
      BY <1>9, <2>1, <2>2, <2>3 DEF StackOfName
  <1>11. ASSUME NEW n \in TagNames, n # name PROVE StackOfName(n)'
    <2>1. active_tags_by_name'[n] = active_tags_by_name[n]
      BY <1>3, <1>11 DEF IInv, TypeOK
    <2>2. \A e \in active_tags : e.Name = n => e # closed
      BY <1>2, <1>11
    <2>3. StackOfName(n)
      BY <1>6
    <2> QED
      BY <1>3, <2>1, <2>2, <2>3 DEF StackOfName
  <1> QED
    BY <1>7, <1>8, <1>10, <1>11 DEF IInv, IndexMatchesList

LEMMA OpenStep == IInv /\ Open => IInv'
  <1> SUFFICES ASSUME IInv, Open PROVE IInv'
    OBVIOUS
  <1>1. token.n \in TagNames /\ index \in Nat /\ index + 1 \in 0..Len(doc)
    BY ScannedToken DEF IInv, Open, M!TagKinds
  <1>a. PICK name \in TagNames : name = token.n
    BY <1>1
  <1> DEFINE opened == [Name |-> name, OpenBegin |-> index,
                        ValueBegin |-> index + 1, Sequence |-> sequence]
             stack  == active_tags_by_name[name]
             longer == Append(stack, sequence)
  <1>2. /\ active_tags' = active_tags \cup {opened}
        /\ active_tags_by_name' = [active_tags_by_name EXCEPT ![name] = longer]
        /\ index' = index + 1
        /\ sequence' = sequence + 1
        /\ UNCHANGED doc
    BY <1>a DEF Open
  <1>3. sequence \in Nat /\ stack \in Seq(Nat)
    BY <1>1 DEF IInv, TypeOK
  <1>4. /\ longer \in Seq(Nat) /\ Len(longer) = Len(stack) + 1 /\ Len(stack) \in Nat
        /\ longer[Len(longer)] = sequence
        /\ \A i \in 1..Len(stack) : longer[i] = stack[i]
    BY <1>3
  <1>5. DistinctEntries /\ \A n \in TagNames : StackOfName(n)
    BY DEF IInv, IndexMatchesList
  <1>6. opened \in OpenTagEntry /\ opened.Name = name /\ opened.Sequence = sequence
    BY <1>1, <1>3 DEF OpenTagEntry
  <1> HIDE DEF opened, stack, longer
  <1>7. TypeOK'
    BY <1>1, <1>2, <1>3, <1>4, <1>6 DEF IInv, TypeOK
  <1>8. \A e \in active_tags : e.Sequence \in Nat /\ e.Sequence < sequence
    BY <1>5 DEF IInv, TypeOK, OpenTagEntry, DistinctEntries
  <1>9. DistinctEntries'
    BY <1>2, <1>3, <1>5, <1>6, <1>8 DEF DistinctEntries
  <1>10. active_tags_by_name'[name] = longer
    BY <1>1, <1>2 DEF IInv, TypeOK
  <1>11. StackOfName(name)'
    <2>1. ASSUME NEW i \in 1..Len(stack)
          PROVE  \E e \in active_tags : e.Name = name /\ e.Sequence = stack[i]
      BY <1>1, <1>5 DEF StackOfName, stack
    <2>2. ASSUME NEW i \in 1..Len(longer), NEW j \in 1..Len(longer), i < j
          PROVE  longer[i] < longer[j]
      <3>1. i \in 1..Len(stack)
        BY <1>4, <2>2
      <3>2. CASE j \in 1..Len(stack)
        BY <1>1, <1>4, <1>5, <2>2, <3>1, <3>2 DEF StackOfName, stack
      <3>3. CASE j = Len(longer)
        BY <1>4, <1>8, <2>1, <3>1, <3>3
      <3> QED
        BY <1>4, <3>2, <3>3
    <2>3. ASSUME NEW i \in 1..Len(longer)
          PROVE  \E e \in active_tags' : e.Name = name /\ e.Sequence = longer[i]
      <3>1. CASE i \in 1..Len(stack)
        BY <1>2, <1>4, <2>1, <3>1
      <3>2. CASE i = Len(longer)
        BY <1>2, <1>4, <1>6, <3>2
      <3> QED
        BY <1>4, <3>1, <3>2
    <2>4. ASSUME NEW e \in active_tags', e.Name = name
          PROVE  \E i \in 1..Len(longer) : longer[i] = e.Sequence
      <3>1. CASE e \in active_tags
        <4>1. PICK i \in 1..Len(stack) : stack[i] = e.Sequence
          BY <1>1, <1>5, <2>4, <3>1 DEF StackOfName, stack
        <4> QED
          BY <1>4, <4>1
      <3>2. CASE e = opened
        BY <1>4, <1>6, <3>2
      <3> QED
        BY <1>2, <3>1, <3>2
    <2> QED
      BY <1>10, <2>2, <2>3, <2>4 DEF StackOfName
  <1>12. ASSUME NEW n \in TagNames, n # name PROVE StackOfName(n)'
    <2>1. active_tags_by_name'[n] = active_tags_by_name[n]
      BY <1>2, <1>12 DEF IInv, TypeOK
    <2>2. /\ \A e \in active_tags' : e.Name = n => e \in active_tags
          /\ \A e \in active_tags : e \in active_tags'
      BY <1>2, <1>6, <1>12
    <2>3. StackOfName(n)
      BY <1>5
    <2> QED
      BY <2>1, <2>2, <2>3 DEF StackOfName
  <1> QED
    BY <1>7, <1>9, <1>11, <1>12 DEF IInv, IndexMatchesList

(* The steps that leave the list and its index alone.                      *)
LEMMA OtherStep ==
  ASSUME IInv, Pass \/ Reject \/ SelfClose \/ Finish \/ UNCHANGED vars
  PROVE  IInv'
  <1>1. index' \in 0..Len(doc)
    <2>1. CASE Pass \/ SelfClose
      BY <2>1, ScannedToken DEF IInv, Pass, SelfClose
    <2> QED
      BY <2>1 DEF IInv, TypeOK, Reject, Finish, vars
  <1>2. sequence' \in Nat /\ sequence' >= sequence
    BY DEF IInv, TypeOK, Pass, Reject, SelfClose, Finish, vars
  <1>3. UNCHANGED <<doc, active_tags, active_tags_by_name>>
    BY DEF Pass, Reject, SelfClose, Finish, vars
  <1>4. TypeOK'
    BY <1>1, <1>2, <1>3 DEF IInv, TypeOK
  <1>5. \A e \in active_tags : e.Sequence \in Nat
    BY DEF IInv, TypeOK, OpenTagEntry
  <1>6. DistinctEntries'
    BY <1>2, <1>3, <1>5 DEF IInv, TypeOK, IndexMatchesList, DistinctEntries
  <1>7. ASSUME NEW n \in TagNames PROVE StackOfName(n)'
    BY <1>3 DEF IInv, IndexMatchesList, StackOfName
  <1> QED
    BY <1>4, <1>6, <1>7 DEF IInv, IndexMatchesList

LEMMA NextIInv == IInv /\ [Next]_vars => IInv'
  BY CloseStep, OpenStep, OtherStep DEF Next

(* For every text: no iterator of the index is dangling or stale, none is  *)
(* missing, and the most recent open tag of a name is on top.              *)
THEOREM IndexAlwaysMatches == Spec => []IndexMatchesList
  <1>1. IInv => IndexMatchesList
    BY DEF IInv
  <1> QED
    BY InitIInv, NextIInv, <1>1, PTL DEF Spec

(* For every text, and however its tags cross: a closing tag takes one tag *)
(* away, the most recent one of its own name.                              *)
THEOREM AlwaysClosesMostRecent == Spec => ClosesMostRecent
  <1> DEFINE MostRecent ==
               \A e \in active_tags \ active_tags' :
                 /\ e.Name = token.n
                 /\ \A f \in active_tags :
                      /\ f # e => f \in active_tags'
                      /\ f.Name = e.Name => f.Sequence <= e.Sequence
  <1>1. IInv /\ [Next]_vars => [MostRecent]_vars
    <2> SUFFICES ASSUME IInv, Next PROVE MostRecent
      OBVIOUS
    <2>1. CASE Close
      <3>1. token.n \in TagNames
        BY <2>1, ScannedToken DEF IInv, Close, M!TagKinds
      <3>2. active_tags' = active_tags \ {Entry(token.n)}
        BY <2>1 DEF Close
      <3> QED
        BY <2>1, <3>1, <3>2, TopOfStack DEF Close
    <2>2. CASE Open
      BY <2>2 DEF Open
    <2>3. CASE Pass \/ Reject \/ SelfClose \/ Finish
      BY <2>3 DEF Pass, Reject, SelfClose, Finish
    <2> QED
      BY <2>1, <2>2, <2>3 DEF Next
  <1> QED
    BY InitIInv, NextIInv, <1>1, PTL DEF Spec, ClosesMostRecent

-----------------------------------------------------------------------------
(* What the scanner returns.  Tags of one name that are open after i tokens: *)
Depth(name, i) == M!Opened(doc, name, i) - M!Closed(doc, name, i)

(* The number of tags that start in the first i tokens.                    *)
Rank(i) == Cardinality({j \in M!StartsOf(doc) : j <= i})

ParsedTag ==
  [Sequence : Nat,
   Range : [TagName : TagNames, RawBegin : Nat, ValueBegin : Nat, ValueEnd : Nat,
            RawEnd : Nat]]

(* The tokens passed so far could begin a balanced document.               *)
PrefixBalances ==
  /\ \A j \in 1..index : ~M!Refused(doc[j])
  /\ \A name \in TagNames, j \in 0..index : Depth(name, j) >= 0

(* The stack of a name is as long as its tags are deep, and the tag at its *)
(* k-th place is the one that the depth has not fallen below k since.      *)
StackMeasuresDepth(name) ==
  LET stack == active_tags_by_name[name]
  IN  /\ Len(stack) = Depth(name, index)
      /\ \A k \in 1..Len(stack), e \in active_tags :
           e.Name = name /\ e.Sequence = stack[k] =>
             /\ Depth(name, e.OpenBegin) = k - 1
             /\ \A j \in (e.OpenBegin + 1)..index : Depth(name, j) >= k

(* Entries and ranges are tags of the document, under the number of tags   *)
(* before them.                                                            *)
OpenedTag(e) ==
  /\ e.OpenBegin + 1 \in 1..index
  /\ doc[e.OpenBegin + 1].k = "open" /\ doc[e.OpenBegin + 1].n = e.Name
  /\ e.ValueBegin = e.OpenBegin + 1
  /\ Rank(e.OpenBegin + 1) = e.Sequence + 1

DeclaredTag(tag) ==
  \E i \in 1..index :
    /\ M!Starts(doc[i])
    /\ Rank(i) = tag.Sequence + 1
    /\ tag.Range = M!TagAt(doc, i)

RangesDeclared == \A t \in 1..Len(parsed_tags) : DeclaredTag(parsed_tags[t])

(* Each number given out belongs to one entry or one range.                *)
NumbersAreUsedOnce ==
  /\ sequence = Rank(index)
  /\ \A s \in 0..(sequence - 1) :
       \/ \E e \in active_tags : e.Sequence = s
       \/ \E t \in 1..Len(parsed_tags) : parsed_tags[t].Sequence = s
  /\ \A t, u \in 1..Len(parsed_tags) :
       parsed_tags[t].Sequence = parsed_tags[u].Sequence => t = u
  /\ \A t \in 1..Len(parsed_tags), e \in active_tags :
       parsed_tags[t].Sequence # e.Sequence

ScanInv ==
  /\ PrefixBalances
  /\ \A name \in TagNames : StackMeasuresDepth(name)
  /\ \A e \in active_tags : OpenedTag(e)
  /\ parsed_tags \in Seq(ParsedTag)
  /\ RangesDeclared
  /\ NumbersAreUsedOnce

ResultInv == IInv /\ (status = "running" => ScanInv) /\ ParsedIsDeclared

-----------------------------------------------------------------------------
(* Markup counts with its own instance of FiniteSets.                      *)
LEMMA SameCardinality == ASSUME NEW T PROVE M!Cardinality(T) = Cardinality(T)
  BY DEF M!Cardinality, Cardinality

(* Counting one token more.                                                *)
LEMMA CountNext ==
  ASSUME NEW d, NEW name, NEW i \in Nat
  PROVE  /\ M!Opened(d, name, i) \in Nat /\ M!Closed(d, name, i) \in Nat
         /\ M!Opened(d, name, i + 1) = M!Opened(d, name, i)
              + (IF d[i + 1].k = "open" /\ d[i + 1].n = name THEN 1 ELSE 0)
         /\ M!Closed(d, name, i + 1) = M!Closed(d, name, i)
              + (IF d[i + 1].k = "close" /\ d[i + 1].n = name THEN 1 ELSE 0)
  <1> DEFINE Os(n) == {j \in 1..n : d[j].k = "open" /\ d[j].n = name}
             Cs(n) == {j \in 1..n : d[j].k = "close" /\ d[j].n = name}
  <1>1. IsFiniteSet(Os(i)) /\ IsFiniteSet(Cs(i))
    <2>1. IsFiniteSet(1..i) /\ Os(i) \in SUBSET (1..i) /\ Cs(i) \in SUBSET (1..i)
      BY FS_Interval
    <2> HIDE DEF Os, Cs
    <2> QED
      BY <2>1, FS_Subset
  <1>2. i + 1 \notin Os(i) /\ i + 1 \notin Cs(i)
    OBVIOUS
  <1>3. /\ Os(i + 1) = IF d[i + 1].k = "open" /\ d[i + 1].n = name
                         THEN Os(i) \cup {i + 1} ELSE Os(i)
        /\ Cs(i + 1) = IF d[i + 1].k = "close" /\ d[i + 1].n = name
                         THEN Cs(i) \cup {i + 1} ELSE Cs(i)
    OBVIOUS
  <1>4. \A n : M!Opened(d, name, n) = Cardinality(Os(n)) /\ M!Closed(d, name, n) = Cardinality(Cs(n))
    BY SameCardinality DEF M!Opened, M!Closed
  <1> HIDE DEF Os, Cs
  <1>5. Cardinality(Os(i)) \in Nat /\ Cardinality(Cs(i)) \in Nat
    BY <1>1, FS_CardinalityType
  <1>6. /\ Cardinality(Os(i) \cup {i + 1}) = Cardinality(Os(i)) + 1
        /\ Cardinality(Cs(i) \cup {i + 1}) = Cardinality(Cs(i)) + 1
    BY <1>1, <1>2, FS_AddElement
  <1> QED
    BY <1>3, <1>4, <1>5, <1>6

LEMMA DepthNext ==
  ASSUME NEW name, NEW i \in Nat
  PROVE  /\ Depth(name, i) \in Int
         /\ doc[i + 1].k = "open" /\ doc[i + 1].n = name
              => Depth(name, i + 1) = Depth(name, i) + 1
         /\ doc[i + 1].k = "close" /\ doc[i + 1].n = name
              => Depth(name, i + 1) = Depth(name, i) - 1
         /\ doc[i + 1].k \notin {"open", "close"} \/ doc[i + 1].n # name
              => Depth(name, i + 1) = Depth(name, i)
  <1> QED
    BY CountNext DEF Depth

LEMMA RankFacts ==
  ASSUME TypeOK, NEW i \in Nat
  PROVE  /\ Rank(i) \in Nat
         /\ i + 1 \in M!StartsOf(doc) => Rank(i + 1) = Rank(i) + 1
         /\ i + 1 \notin M!StartsOf(doc) => Rank(i + 1) = Rank(i)
         /\ \A j \in Nat : j <= i => Rank(j) <= Rank(i)
         /\ \A j \in Nat : j < i /\ i \in M!StartsOf(doc) => Rank(j) < Rank(i)
  <1> DEFINE T == M!StartsOf(doc)
             Low(n) == {j \in T : j <= n}
  <1>1. doc \in Seq(M!Token(TagNames)) /\ Len(doc) \in Nat /\ DOMAIN doc = 1..Len(doc)
    BY DEF TypeOK, Documents
  <1>2. IsFiniteSet(T) /\ T \subseteq Nat
    <2>1. T \in SUBSET (1..Len(doc)) /\ IsFiniteSet(1..Len(doc))
      BY <1>1, FS_Interval DEF M!StartsOf
    <2> QED
      BY <2>1, FS_Subset, <1>1
  <1>3. \A n : Rank(n) = Cardinality(Low(n)) /\ Low(n) \in SUBSET T
    BY DEF Rank
  <1>4. \A n \in Nat : \A j \in Nat : j <= n => Low(j) \in SUBSET Low(n)
    BY <1>2
  <1>5. \A n \in Nat : \A j \in Nat : j < n /\ n \in T => n \in Low(n) /\ n \notin Low(j)
    BY <1>2
  <1>6. /\ i + 1 \in T => Low(i + 1) = Low(i) \cup {i + 1}
        /\ i + 1 \notin T => Low(i + 1) = Low(i)
        /\ i + 1 \notin Low(i)
    BY <1>2
  <1> HIDE DEF T, Low
  <1>7. \A n : IsFiniteSet(Low(n)) /\ Rank(n) \in Nat
    BY <1>2, <1>3, FS_Subset, FS_CardinalityType
  <1>8. i + 1 \in T => Rank(i + 1) = Rank(i) + 1
    BY <1>3, <1>6, <1>7, FS_AddElement
  <1>9. ASSUME NEW j \in Nat, j <= i PROVE Rank(j) <= Rank(i)
    BY <1>3, <1>4, <1>7, <1>9, FS_Subset
  <1>10. ASSUME NEW j \in Nat, j < i, i \in T PROVE Rank(j) < Rank(i)
    <2>1. Low(j) # Low(i) /\ j <= i
      BY <1>5, <1>10
    <2>2. Rank(j) <= Rank(i) /\ Rank(j) # Rank(i)
      BY <1>3, <1>4, <1>7, <2>1, FS_Subset
    <2> QED
      BY <1>7, <2>2
  <1> QED
    BY <1>3, <1>6, <1>7, <1>8, <1>9, <1>10 DEF T

(* One token is passed.                                                    *)
Advance == Scanning /\ index' = index + 1 /\ UNCHANGED <<doc, status>>

LEMMA AdvanceTypes ==
  ASSUME IInv, Advance
  PROVE  /\ index \in Nat /\ Len(doc) \in Nat /\ index + 1 \in 1..Len(doc)
         /\ \A name, j : Depth(name, j)' = Depth(name, j)
         /\ \A j : Rank(j)' = Rank(j)
         /\ Rank(index)' = Rank(index + 1)
         /\ index + 1 \in M!StartsOf(doc) <=> M!Starts(token)
  <1>1. doc \in Seq(M!Token(TagNames)) /\ Len(doc) \in Nat /\ DOMAIN doc = 1..Len(doc)
    BY DEF IInv, TypeOK, Documents
  <1>2. index \in Nat /\ index + 1 \in 1..Len(doc)
    BY <1>1 DEF IInv, TypeOK, Advance, Scanning
  <1>3. \A name, j : Depth(name, j)' = Depth(name, j)
    BY DEF Advance, Depth
  <1>4. (\A j : Rank(j)' = Rank(j)) /\ Rank(index)' = Rank(index + 1)
    BY DEF Advance, Rank
  <1>5. index + 1 \in M!StartsOf(doc) <=> M!Starts(token)
    BY <1>1, <1>2 DEF M!StartsOf, token
  <1> QED
    BY <1>1, <1>2, <1>3, <1>4, <1>5

LEMMA PrefixAdvances ==
  ASSUME IInv, ScanInv, Advance, ~M!Refused(token),
         \A name \in TagNames : Depth(name, index + 1) >= 0
  PROVE  PrefixBalances'
  <1>1. \A j \in 1..index' : j \in 1..index \/ j = index + 1
    BY AdvanceTypes DEF Advance
  <1>2. \A j \in 0..index' : j \in 0..index \/ j = index + 1
    BY AdvanceTypes DEF Advance
  <1>3. \A j \in 1..index' : ~M!Refused(doc[j])'
    BY <1>1 DEF ScanInv, PrefixBalances, Advance, token
  <1>4. \A name \in TagNames, j \in 0..index' : Depth(name, j)' >= 0
    BY <1>2, AdvanceTypes DEF ScanInv, PrefixBalances
  <1> QED
    BY <1>3, <1>4 DEF PrefixBalances

(* A name whose depth the token does not change.                           *)
LEMMA StackKept ==
  ASSUME IInv, ScanInv, Advance, NEW name \in TagNames,
         Depth(name, index + 1) = Depth(name, index),
         active_tags_by_name'[name] = active_tags_by_name[name],
         \A e \in active_tags' : e.Name = name => e \in active_tags
  PROVE  StackMeasuresDepth(name)'
  <1> DEFINE stack == active_tags_by_name[name]
  <1>1. StackMeasuresDepth(name)
    BY DEF ScanInv
  <1>2. stack \in Seq(Nat) /\ Len(stack) \in Nat
    BY DEF IInv, TypeOK
  <1>3. ASSUME NEW k \in 1..Len(stack), NEW e \in active_tags',
               e.Name = name, e.Sequence = stack[k]
        PROVE  /\ Depth(name, e.OpenBegin) = k - 1
               /\ \A j \in (e.OpenBegin + 1)..index' : Depth(name, j) >= k
    <2>1. e \in active_tags /\ e.OpenBegin \in Nat /\ e.OpenBegin + 1 \in 1..index
      BY <1>3 DEF ScanInv, OpenedTag, IInv, TypeOK, OpenTagEntry
    <2>2. /\ Depth(name, e.OpenBegin) = k - 1
          /\ \A j \in (e.OpenBegin + 1)..index : Depth(name, j) >= k
      BY <1>1, <1>3, <2>1 DEF StackMeasuresDepth
    <2>3. index \in (e.OpenBegin + 1)..index
      BY <2>1, AdvanceTypes
    <2>4. \A j \in (e.OpenBegin + 1)..index' : j \in (e.OpenBegin + 1)..index \/ j = index + 1
      BY <2>1, AdvanceTypes DEF Advance
    <2> QED
      BY <2>2, <2>3, <2>4
  <1>4. Len(stack) = Depth(name, index')
    BY <1>1 DEF StackMeasuresDepth, Advance
  <1> QED
    BY <1>3, <1>4, AdvanceTypes DEF StackMeasuresDepth

LEMMA TagsAdvance ==
  ASSUME IInv, ScanInv, Advance
  PROVE  /\ \A e \in active_tags : OpenedTag(e)'
         /\ \A tag : DeclaredTag(tag) => DeclaredTag(tag)'
         /\ UNCHANGED parsed_tags => RangesDeclared'
  <1>1. \A j \in 1..index : j \in 1..index'
    BY AdvanceTypes DEF Advance
  <1>2. \A e \in active_tags : OpenedTag(e)'
    BY <1>1, AdvanceTypes DEF ScanInv, OpenedTag, Advance
  <1>3. ASSUME NEW tag, DeclaredTag(tag) PROVE DeclaredTag(tag)'
    <2>1. PICK i \in 1..index :
            M!Starts(doc[i]) /\ tag.Range = M!TagAt(doc, i) /\ Rank(i) = tag.Sequence + 1
      BY <1>3 DEF DeclaredTag
    <2>2. M!Starts(doc[i])' /\ tag.Range = M!TagAt(doc, i)' /\ Rank(i)' = tag.Sequence + 1
      BY <2>1, AdvanceTypes DEF Advance
    <2> QED
      BY <1>1, <2>2 DEF DeclaredTag
  <1>4. ASSUME UNCHANGED parsed_tags PROVE RangesDeclared'
    <2>1. \A t \in 1..Len(parsed_tags) : \E r : r = parsed_tags[t] /\ DeclaredTag(r)'
      BY <1>3 DEF ScanInv, RangesDeclared
    <2> QED
      BY <1>4, <2>1 DEF RangesDeclared, DeclaredTag
  <1> QED
    BY <1>2, <1>3, <1>4

(* Ranges have numbers that were given out.                                *)
LEMMA RangeNumbers ==
  ASSUME IInv, ScanInv, NEW t \in 1..Len(parsed_tags)
  PROVE  parsed_tags[t].Sequence \in Nat /\ parsed_tags[t].Sequence < sequence
  <1>1. sequence \in Nat /\ sequence = Rank(index) /\ TypeOK
    BY DEF IInv, TypeOK, ScanInv, NumbersAreUsedOnce
  <1>2. parsed_tags[t] \in ParsedTag
    BY DEF ScanInv
  <1>3. PICK i \in 1..index : Rank(i) = parsed_tags[t].Sequence + 1
    BY DEF ScanInv, RangesDeclared, DeclaredTag
  <1>4. i \in Nat /\ i <= index /\ index \in Nat
    BY DEF IInv, TypeOK, Documents
  <1>5. Rank(i) <= Rank(index) /\ Rank(i) \in Nat
    BY <1>1, <1>4, RankFacts
  <1> QED
    BY <1>1, <1>2, <1>3, <1>5 DEF ParsedTag

(* A range is added, under the next number or the one of an entry that is  *)
(* taken away.                                                             *)
LEMMA TagAdded ==
  ASSUME IInv, ScanInv, Advance, NEW tag \in ParsedTag, DeclaredTag(tag)',
         parsed_tags' = Append(parsed_tags, tag),
         sequence' = Rank(index + 1),
         \/ /\ tag.Sequence = sequence /\ sequence' = sequence + 1
            /\ active_tags' = active_tags
         \/ /\ sequence' = sequence
            /\ \E e \in active_tags :
                 e.Sequence = tag.Sequence /\ active_tags' = active_tags \ {e}
  PROVE  /\ NumbersAreUsedOnce'
         /\ parsed_tags' \in Seq(ParsedTag)
         /\ RangesDeclared'
  <1> DEFINE n == Len(parsed_tags)
  <1>1. parsed_tags \in Seq(ParsedTag) /\ n \in Nat
    BY DEF ScanInv
  <1>2. /\ parsed_tags' \in Seq(ParsedTag)
        /\ Len(parsed_tags') = n + 1
        /\ parsed_tags'[n + 1] = tag
        /\ \A t \in 1..n : parsed_tags'[t] = parsed_tags[t]
        /\ \A t \in 1..(n + 1) : t \in 1..n \/ t = n + 1
    BY <1>1
  <1>3. RangesDeclared'
    <2>1. \A t \in 1..n : \E r : r = parsed_tags[t] /\ DeclaredTag(r)'
      BY TagsAdvance DEF ScanInv, RangesDeclared
    <2>2. ASSUME NEW t \in 1..Len(parsed_tags')
          PROVE  \E r : r = parsed_tags'[t] /\ DeclaredTag(r)'
      BY <1>2, <2>1
    <2> QED
      BY <2>2 DEF RangesDeclared, DeclaredTag
  <1>4. sequence \in Nat /\ tag.Sequence \in Nat
        /\ \A t \in 1..n : parsed_tags[t].Sequence \in Nat
    <2>1. \A t \in 1..n : parsed_tags[t] \in ParsedTag
      BY <1>1
    <2>2. \A r \in ParsedTag : r.Sequence \in Nat
      BY DEF ParsedTag
    <2> HIDE DEF n
    <2> QED
      BY <2>1, <2>2 DEF IInv, TypeOK
  <1>5. NumbersAreUsedOnce /\ DistinctEntries
    BY DEF IInv, IndexMatchesList, ScanInv
  <1>6. \A t \in 1..n : parsed_tags[t].Sequence < sequence
    BY RangeNumbers
  <1>7. \A t \in 1..n : parsed_tags[t].Sequence # tag.Sequence
    BY <1>4, <1>5, <1>6 DEF NumbersAreUsedOnce
  <1>8. \A e \in active_tags' : e \in active_tags /\ e.Sequence # tag.Sequence
    BY <1>5 DEF DistinctEntries, IInv, TypeOK, OpenTagEntry
  <1>9. sequence' = Rank(index)'
    BY AdvanceTypes
  <1>10. ASSUME NEW s \in 0..(sequence' - 1)
         PROVE  \/ \E e \in active_tags' : e.Sequence = s
                \/ \E t \in 1..Len(parsed_tags') : parsed_tags'[t].Sequence = s
    <2>1. CASE s = tag.Sequence
      BY <1>1, <1>2, <2>1
    <2>2. CASE s # tag.Sequence
      <3>1. s \in 0..(sequence - 1)
        BY <1>4, <2>2
      <3>2. \/ \E e \in active_tags : e.Sequence = s
            \/ \E t \in 1..n : parsed_tags[t].Sequence = s
        BY <1>5, <3>1 DEF NumbersAreUsedOnce
      <3>3. \A e \in active_tags : e.Sequence = s => e \in active_tags'
        BY <2>2
      <3>4. \A t \in 1..n : t \in 1..Len(parsed_tags')
        BY <1>1, <1>2
      <3> QED
        BY <1>2, <3>2, <3>3, <3>4
    <2> QED
      BY <2>1, <2>2
  <1>11. \A t, u \in 1..Len(parsed_tags') :
           parsed_tags'[t].Sequence = parsed_tags'[u].Sequence => t = u
    BY <1>2, <1>5, <1>7 DEF NumbersAreUsedOnce
  <1>12. \A t \in 1..Len(parsed_tags'), e \in active_tags' :
           parsed_tags'[t].Sequence # e.Sequence
    BY <1>2, <1>5, <1>8 DEF NumbersAreUsedOnce
  <1>13. NumbersAreUsedOnce'
    BY <1>9, <1>10, <1>11, <1>12 DEF NumbersAreUsedOnce
  <1> QED
    BY <1>2, <1>3, <1>13

LEMMA PassScan == IInv /\ ScanInv /\ Pass => ScanInv'
  <1> SUFFICES ASSUME IInv, ScanInv, Pass PROVE ScanInv'
    OBVIOUS
  <1>1. Advance /\ UNCHANGED <<sequence, active_tags, active_tags_by_name, parsed_tags>>
    BY DEF Pass, Advance
  <1>2. ~M!Refused(token) /\ ~M!Starts(token) /\ token.k \notin {"open", "close"}
    BY DEF Pass, M!Passed, M!Refused, M!Starts
  <1>3. \A name \in TagNames : Depth(name, index + 1) = Depth(name, index)
    BY <1>1, <1>2, DepthNext, AdvanceTypes DEF token
  <1>4. \A name \in TagNames : Depth(name, index) >= 0
    BY <1>1, AdvanceTypes DEF ScanInv, PrefixBalances
  <1>5. PrefixBalances'
    BY <1>1, <1>2, <1>3, <1>4, PrefixAdvances
  <1>6. \A name \in TagNames : StackMeasuresDepth(name)'
    BY <1>1, <1>3, StackKept
  <1>7. NumbersAreUsedOnce'
    <2>1. Rank(index)' = Rank(index)
      BY <1>1, <1>2, RankFacts, AdvanceTypes DEF IInv
    <2> QED
      BY <1>1, <2>1 DEF ScanInv, NumbersAreUsedOnce
  <1> QED
    BY <1>1, <1>5, <1>6, <1>7, TagsAdvance DEF ScanInv

LEMMA SelfCloseScan == IInv /\ ScanInv /\ SelfClose => ScanInv'
  <1> SUFFICES ASSUME IInv, ScanInv, SelfClose PROVE ScanInv'
    OBVIOUS
  <1>a. PICK tag : tag = [Sequence |-> sequence,
                          Range    |-> [TagName    |-> token.n,
                                        RawBegin   |-> index,
                                        ValueBegin |-> index + 1,
                                        ValueEnd   |-> index + 1,
                                        RawEnd     |-> index + 1]]
    OBVIOUS
  <1>1. /\ Advance /\ UNCHANGED <<active_tags, active_tags_by_name>>
        /\ sequence' = sequence + 1
        /\ parsed_tags' = Append(parsed_tags, tag)
    BY <1>a DEF SelfClose, Advance
  <1>2. ~M!Refused(token) /\ M!Starts(token) /\ token.k = "self"
    BY DEF SelfClose, M!Refused, M!Starts
  <1>3. \A name \in TagNames : Depth(name, index + 1) = Depth(name, index)
    BY <1>1, <1>2, DepthNext, AdvanceTypes DEF token
  <1>4. \A name \in TagNames : Depth(name, index) >= 0
    BY <1>1, AdvanceTypes DEF ScanInv, PrefixBalances
  <1>5. PrefixBalances'
    BY <1>1, <1>2, <1>3, <1>4, PrefixAdvances
  <1>6. \A name \in TagNames : StackMeasuresDepth(name)'
    BY <1>1, <1>3, StackKept
  <1>7. token.n \in TagNames /\ sequence \in Nat
    BY <1>2, ScannedToken DEF SelfClose, IInv, TypeOK, M!TagKinds
  <1>8. tag \in ParsedTag /\ tag.Sequence = sequence
    BY <1>a, <1>1, <1>7, AdvanceTypes DEF ParsedTag
  <1>9. tag.Range = M!TagAt(doc, index + 1)
    BY <1>a, <1>1, <1>2, AdvanceTypes DEF token, M!TagAt
  <1>10. Rank(index)' = sequence + 1 /\ Rank(index + 1) = sequence + 1
    BY <1>1, <1>2, RankFacts, AdvanceTypes DEF IInv, ScanInv, NumbersAreUsedOnce
  <1>11. DeclaredTag(tag)'
    <2>1. index + 1 \in 1..index' /\ doc' = doc
      BY <1>1, AdvanceTypes DEF Advance
    <2>2. PICK i : i = index + 1
      OBVIOUS
    <2>3. Rank(i)' = tag.Sequence + 1
      BY <1>1, <1>8, <1>10, <2>2, AdvanceTypes
    <2> QED
      BY <1>2, <1>9, <2>1, <2>2, <2>3 DEF DeclaredTag, token
  <1>12. NumbersAreUsedOnce' /\ parsed_tags' \in Seq(ParsedTag) /\ RangesDeclared'
    BY <1>1, <1>7, <1>8, <1>10, <1>11, TagAdded, TagsAdvance
  <1> QED
    BY <1>1, <1>5, <1>6, <1>12, TagsAdvance DEF ScanInv

LEMMA OpenScan == IInv /\ ScanInv /\ Open => ScanInv'
  <1> SUFFICES ASSUME IInv, ScanInv, Open PROVE ScanInv'
    OBVIOUS
  <1>1. /\ Advance /\ UNCHANGED parsed_tags
        /\ token.n \in TagNames
        /\ index \in Nat /\ index + 1 \in 1..Len(doc) /\ index' = index + 1
    BY AdvanceTypes, ScannedToken DEF Open, Advance, M!TagKinds, IInv
  <1>2. ~M!Refused(token) /\ M!Starts(token) /\ token.k = "open"
    BY DEF Open, M!Refused, M!Starts
  <1>3. PICK name \in TagNames : name = token.n
    BY <1>1
  <1>4. PICK opened : opened = [Name |-> name, OpenBegin |-> index,
                                ValueBegin |-> index + 1, Sequence |-> sequence]
    OBVIOUS
  <1> DEFINE stack == active_tags_by_name[name]
             longer == Append(stack, sequence)
  <1>5. /\ active_tags' = active_tags \cup {opened}
        /\ active_tags_by_name' = [active_tags_by_name EXCEPT ![name] = longer]
        /\ sequence' = sequence + 1
        /\ sequence \in Nat /\ stack \in Seq(Nat)
    BY <1>3, <1>4 DEF Open, IInv, TypeOK
  <1>6. /\ active_tags_by_name'[name] = longer
        /\ \A n \in TagNames : n # name =>
             active_tags_by_name'[n] = active_tags_by_name[n]
    BY <1>5 DEF IInv, TypeOK
  <1>7. /\ Len(stack) \in Nat /\ Len(longer) = Len(stack) + 1
        /\ longer[Len(stack) + 1] = sequence
        /\ \A k \in 1..Len(stack) : longer[k] = stack[k]
        /\ \A k \in 1..Len(longer) : k \in 1..Len(stack) \/ k = Len(stack) + 1
    BY <1>5
  <1>8. \A e \in active_tags : e.Sequence \in Nat /\ e.Sequence < sequence
    BY DEF IInv, TypeOK, OpenTagEntry, IndexMatchesList, DistinctEntries
  <1>9. /\ Depth(name, index + 1) = Depth(name, index) + 1
        /\ \A n \in TagNames : n # name => Depth(n, index + 1) = Depth(n, index)
        /\ \A n \in TagNames : Depth(n, index) \in Int
    BY <1>1, <1>2, <1>3, DepthNext DEF token
  <1>10. \A n \in TagNames : Depth(n, index) >= 0
    BY <1>1 DEF ScanInv, PrefixBalances
  <1>11. PrefixBalances'
    BY <1>1, <1>2, <1>9, <1>10, PrefixAdvances
  <1>12. \A n \in TagNames : n # name => StackMeasuresDepth(n)'
    BY <1>1, <1>4, <1>5, <1>6, <1>9, StackKept
  <1>13. StackMeasuresDepth(name)
    BY DEF ScanInv
  <1> HIDE DEF longer
  <1>14. ASSUME NEW k \in 1..Len(longer), NEW e \in active_tags',
                e.Name = name, e.Sequence = longer[k]
         PROVE  /\ Depth(name, e.OpenBegin) = k - 1
                /\ \A j \in (e.OpenBegin + 1)..index' : Depth(name, j) >= k
    <2>1. CASE k \in 1..Len(stack)
      <3>1. stack[k] \in {e2.Sequence : e2 \in active_tags}
        BY <1>3, <2>1 DEF IInv, IndexMatchesList, StackOfName
      <3>2. e \in active_tags
        BY <1>4, <1>5, <1>7, <1>8, <1>14, <2>1, <3>1
      <3>3. e.OpenBegin \in Nat /\ e.OpenBegin + 1 \in 1..index
        BY <3>2 DEF ScanInv, OpenedTag, IInv, TypeOK, OpenTagEntry
      <3>4. /\ Depth(name, e.OpenBegin) = k - 1
            /\ \A j \in (e.OpenBegin + 1)..index : Depth(name, j) >= k
        BY <1>7, <1>13, <1>14, <2>1, <3>2 DEF StackMeasuresDepth
      <3>5. \A j \in (e.OpenBegin + 1)..index' :
              j \in (e.OpenBegin + 1)..index \/ j = index + 1
        BY <1>1, <3>3
      <3>6. Depth(name, index + 1) >= k
        BY <1>7, <1>9, <1>13, <2>1 DEF StackMeasuresDepth
      <3> QED
        BY <3>4, <3>5, <3>6
    <2>2. CASE k = Len(stack) + 1
      <3>1. e = opened /\ e.OpenBegin = index
        BY <1>4, <1>5, <1>7, <1>8, <1>14, <2>2
      <3>2. Depth(name, index) = k - 1 /\ Depth(name, index + 1) = k
        BY <1>7, <1>9, <1>13, <2>2 DEF StackMeasuresDepth
      <3>3. \A j \in (e.OpenBegin + 1)..index' : j = index + 1
        BY <1>1, <3>1
      <3> QED
        BY <1>7, <2>2, <3>1, <3>2, <3>3
    <2> QED
      BY <1>7, <2>1, <2>2
  <1>15. Len(longer) = Depth(name, index')
    BY <1>1, <1>7, <1>9, <1>13 DEF StackMeasuresDepth
  <1>16. StackMeasuresDepth(name)'
    BY <1>1, <1>6, <1>14, <1>15, AdvanceTypes DEF StackMeasuresDepth
  <1>17. Rank(index + 1) = sequence + 1 /\ Rank(index)' = sequence + 1
    BY <1>1, <1>2, RankFacts, AdvanceTypes DEF IInv, ScanInv, NumbersAreUsedOnce
  <1>18. OpenedTag(opened)'
    <2>1. PICK i : i = index + 1
      OBVIOUS
    <2>2. Rank(i)' = sequence + 1 /\ opened.OpenBegin + 1 = i /\ i \in 1..index'
      BY <1>1, <1>4, <1>17, <2>1, AdvanceTypes
    <2> QED
      BY <1>1, <1>2, <1>3, <1>4, <2>1, <2>2 DEF OpenedTag, token, Advance
  <1>19. \A e \in active_tags' : OpenedTag(e)'
    BY <1>1, <1>5, <1>18, TagsAdvance
  <1>20. \A t \in 1..Len(parsed_tags) :
           parsed_tags[t].Sequence \in Nat /\ parsed_tags[t].Sequence < sequence
    BY <1>1, RangeNumbers
  <1>21. NumbersAreUsedOnce'
    <2>1. opened \in active_tags' /\ opened.Sequence = sequence
      BY <1>4, <1>5
    <2>2. \A s \in 0..sequence : s \in 0..(sequence - 1) \/ s = sequence
      BY <1>5
    <2>3. ASSUME NEW t \in 1..Len(parsed_tags), NEW e \in active_tags'
          PROVE  parsed_tags[t].Sequence # e.Sequence
      <3>1. parsed_tags[t].Sequence # sequence
        BY <1>5, <1>20
      <3> QED
        BY <1>5, <2>1, <3>1 DEF ScanInv, NumbersAreUsedOnce
    <2>4. sequence' - 1 = sequence
      BY <1>5
    <2> QED
      BY <1>1, <1>5, <1>17, <2>1, <2>2, <2>3, <2>4 DEF ScanInv, NumbersAreUsedOnce
  <1> QED
    BY <1>1, <1>6, <1>11, <1>12, <1>16, <1>19, <1>21, TagsAdvance DEF ScanInv

(* A closing tag met while the depth is still the one its opening tag      *)
(* reached is the one that closes it.                                      *)
LEMMA ClosingFound ==
  ASSUME NEW name, NEW i \in Nat, NEW c \in Nat,
         doc \in Documents, c + 1 \in 1..Len(doc), i + 1 \in 1..c,
         doc[i + 1].n = name,
         doc[c + 1].k = "close", doc[c + 1].n = name,
         \A j \in (i + 1)..c : Depth(name, j) > Depth(name, i),
         Depth(name, c + 1) = Depth(name, i)
  PROVE  M!ClosingOf(doc, i + 1) = c + 1
  <1> DEFINE Inside(j) == M!Opened(doc, name, j) - M!Opened(doc, name, i)
             Left(j)   == M!Closed(doc, name, j) - M!Closed(doc, name, i)
             Closers   == {j \in (i + 2)..Len(doc) :
                             doc[j].k = "close" /\ doc[j].n = name /\ Inside(j) = Left(j)}
  <1>1. Len(doc) \in Nat
    BY DEF Documents
  <1>2. \A j \in Nat : M!Opened(doc, name, j) \in Nat /\ M!Closed(doc, name, j) \in Nat
    BY CountNext
  <1>3. ASSUME NEW j \in Nat PROVE Inside(j) = Left(j) <=> Depth(name, j) = Depth(name, i)
    <2>1. PICK o \in Nat, r \in Nat, p \in Nat, q \in Nat :
            /\ o = M!Opened(doc, name, j) /\ r = M!Opened(doc, name, i)
            /\ p = M!Closed(doc, name, j) /\ q = M!Closed(doc, name, i)
      BY <1>2
    <2>2. Inside(j) = o - r /\ Left(j) = p - q
      BY <2>1
    <2>3. Depth(name, j) = o - p /\ Depth(name, i) = r - q
      BY <2>1 DEF Depth
    <2> QED
      BY <2>2, <2>3
  <1> HIDE DEF Inside, Left
  <1>4. c + 1 \in Closers
    BY <1>1, <1>3
  <1>5. ASSUME NEW j \in Closers PROVE c + 1 <= j
    <2>1. j \in Nat /\ j >= i + 2 /\ Depth(name, j) = Depth(name, i)
      BY <1>1, <1>3, <1>5
    <2>2. Depth(name, i) \in Int
      BY DepthNext
    <2>3. ~(j \in (i + 1)..c)
      BY <2>1, <2>2
    <2> QED
      BY <2>1, <2>3
  <1>6. Closers \subseteq Nat
    BY <1>1
  <1>7. M!ClosingOf(doc, i + 1) = M!Sets!Min(Closers)
    <2>1. (i + 1) - 1 = i /\ (i + 1) + 1 = i + 2
      OBVIOUS
    <2> QED
      BY <2>1 DEF M!ClosingOf, Inside, Left
  <1>8. \A x \in Closers : (\A y \in Closers : x <= y) => x = c + 1
    BY <1>4, <1>5, <1>6
  <1> HIDE DEF Closers
  <1>9. M!Sets!Min(Closers) = c + 1
    BY <1>4, <1>5, <1>8 DEF M!Sets!Min
  <1> QED
    BY <1>7, <1>9

LEMMA CloseScan == IInv /\ ScanInv /\ Close => ScanInv'
  <1> SUFFICES ASSUME IInv, ScanInv, Close PROVE ScanInv'
    OBVIOUS
  <1>1. /\ Advance /\ UNCHANGED sequence
        /\ token.n \in TagNames
        /\ index \in Nat /\ index + 1 \in 1..Len(doc) /\ index' = index + 1
    BY AdvanceTypes, ScannedToken DEF Close, Advance, M!TagKinds, IInv
  <1>2. ~M!Refused(token) /\ ~M!Starts(token) /\ token.k = "close"
    BY DEF Close, M!Refused, M!Starts
  <1>3. PICK name \in TagNames : name = token.n
    BY <1>1
  <1>4. PICK closed : closed = Entry(name)
    OBVIOUS
  <1>5. PICK tag : tag = [Sequence |-> closed.Sequence,
                          Range    |-> [TagName    |-> closed.Name,
                                        RawBegin   |-> closed.OpenBegin,
                                        ValueBegin |-> closed.ValueBegin,
                                        ValueEnd   |-> index,
                                        RawEnd     |-> index + 1]]
    OBVIOUS
  <1> DEFINE stack == active_tags_by_name[name]
             tail  == SubSeq(stack, 1, Len(stack) - 1)
             depth == Len(stack)
  <1>6. /\ depth \in Nat \ {0}
        /\ closed \in active_tags
        /\ closed.Sequence = stack[depth]
        /\ closed.Name = name
    BY <1>3, <1>4, TopOfStack DEF Close
  <1>7. /\ active_tags' = active_tags \ {closed}
        /\ active_tags_by_name' = [active_tags_by_name EXCEPT ![name] = tail]
        /\ parsed_tags' = Append(parsed_tags, tag)
        /\ stack \in Seq(Nat)
    BY <1>3, <1>4, <1>5 DEF Close, IteratorPopped, IInv, TypeOK
  <1>8. /\ active_tags_by_name'[name] = tail
        /\ \A n \in TagNames : n # name =>
             active_tags_by_name'[n] = active_tags_by_name[n]
    BY <1>7 DEF IInv, TypeOK
  <1>9. Len(tail) = depth - 1 /\ \A k \in 1..(depth - 1) : tail[k] = stack[k]
    BY <1>6, <1>7
  <1>10. /\ Depth(name, index + 1) = Depth(name, index) - 1
         /\ \A n \in TagNames : n # name => Depth(n, index + 1) = Depth(n, index)
         /\ \A n \in TagNames : Depth(n, index) \in Int
    BY <1>1, <1>2, <1>3, DepthNext DEF token
  <1>11. StackMeasuresDepth(name) /\ Depth(name, index) = depth
    BY DEF ScanInv, StackMeasuresDepth
  <1> HIDE DEF tail, depth
  <1>12. \A n \in TagNames : Depth(n, index) >= 0
    BY <1>1 DEF ScanInv, PrefixBalances
  <1>13. PrefixBalances'
    BY <1>1, <1>2, <1>6, <1>10, <1>11, <1>12, PrefixAdvances
  <1>14. \A n \in TagNames : n # name => StackMeasuresDepth(n)'
    BY <1>1, <1>7, <1>8, <1>10, StackKept
  <1>15. ASSUME NEW k \in 1..Len(tail), NEW e \in active_tags',
                e.Name = name, e.Sequence = tail[k]
         PROVE  /\ Depth(name, e.OpenBegin) = k - 1
                /\ \A j \in (e.OpenBegin + 1)..index' : Depth(name, j) >= k
    <2>1. k \in 1..depth /\ k <= depth - 1 /\ e \in active_tags /\ e.Sequence = stack[k]
      BY <1>6, <1>7, <1>9, <1>15
    <2>2. e.OpenBegin \in Nat /\ e.OpenBegin + 1 \in 1..index
      BY <2>1 DEF ScanInv, OpenedTag, IInv, TypeOK, OpenTagEntry
    <2>3. /\ Depth(name, e.OpenBegin) = k - 1
          /\ \A j \in (e.OpenBegin + 1)..index : Depth(name, j) >= k
      BY <1>11, <1>15, <2>1 DEF StackMeasuresDepth, depth
    <2>4. \A j \in (e.OpenBegin + 1)..index' :
            j \in (e.OpenBegin + 1)..index \/ j = index + 1
      BY <1>1, <2>2
    <2>5. Depth(name, index + 1) >= k
      BY <1>6, <1>10, <1>11, <2>1
    <2> QED
      BY <2>3, <2>4, <2>5
  <1>16. Len(tail) = Depth(name, index')
    BY <1>1, <1>9, <1>10, <1>11
  <1>17. StackMeasuresDepth(name)'
    BY <1>1, <1>8, <1>15, <1>16, AdvanceTypes DEF StackMeasuresDepth
  <1>18. \A e \in active_tags' : OpenedTag(e)'
    BY <1>1, <1>7, TagsAdvance
  <1>19. /\ closed.OpenBegin \in Nat /\ closed.Sequence \in Nat
         /\ closed.OpenBegin + 1 \in 1..index
         /\ closed.ValueBegin = closed.OpenBegin + 1
         /\ doc[closed.OpenBegin + 1].k = "open" /\ doc[closed.OpenBegin + 1].n = name
         /\ Rank(closed.OpenBegin + 1) = closed.Sequence + 1
    BY <1>6 DEF ScanInv, OpenedTag, IInv, TypeOK, OpenTagEntry
  <1>20. M!ClosingOf(doc, closed.OpenBegin + 1) = index + 1
    <2>1. /\ Depth(name, closed.OpenBegin) = depth - 1
          /\ \A j \in (closed.OpenBegin + 1)..index : Depth(name, j) >= depth
      BY <1>6, <1>11 DEF StackMeasuresDepth, depth
    <2>2. \A j \in (closed.OpenBegin + 1)..index : Depth(name, j) > depth - 1
      <3>1. \A j \in (closed.OpenBegin + 1)..index : j \in Nat /\ Depth(name, j) \in Int
        BY <1>1, <1>19, DepthNext
      <3> QED
        BY <1>6, <2>1, <3>1
    <2>3. Depth(name, index + 1) = depth - 1
      BY <1>10, <1>11
    <2>4. doc[index + 1].k = "close" /\ doc[index + 1].n = name /\ doc \in Documents
      BY <1>2, <1>3 DEF token, IInv, TypeOK
    <2> QED
      BY <1>1, <1>19, <2>1, <2>2, <2>3, <2>4, ClosingFound
  <1>21. tag.Range = M!TagAt(doc, closed.OpenBegin + 1)
    <2>1. (closed.OpenBegin + 1) - 1 = closed.OpenBegin /\ (index + 1) - 1 = index
      BY <1>1, <1>19
    <2> QED
      BY <1>5, <1>6, <1>19, <1>20, <2>1 DEF M!TagAt
  <1>22. DeclaredTag(tag)'
    <2>1. PICK i : i = closed.OpenBegin + 1
      OBVIOUS
    <2>2. Rank(i)' = tag.Sequence + 1 /\ i \in 1..index' /\ doc' = doc
      BY <1>1, <1>5, <1>19, <2>1, AdvanceTypes DEF Advance
    <2> QED
      BY <1>19, <1>21, <2>1, <2>2 DEF DeclaredTag, M!Starts
  <1>23. tag \in ParsedTag /\ tag.Sequence = closed.Sequence
    BY <1>1, <1>5, <1>6, <1>19 DEF ParsedTag
  <1>24. sequence' = Rank(index + 1)
    BY <1>1, <1>2, RankFacts, AdvanceTypes DEF IInv, ScanInv, NumbersAreUsedOnce
  <1>25. NumbersAreUsedOnce' /\ parsed_tags' \in Seq(ParsedTag) /\ RangesDeclared'
    BY <1>1, <1>6, <1>7, <1>22, <1>23, <1>24, TagAdded
  <1> QED
    BY <1>8, <1>13, <1>14, <1>17, <1>18, <1>25 DEF ScanInv

-----------------------------------------------------------------------------
(* The end of a run.                                                       *)
LEMMA RejectResult == IInv /\ ScanInv /\ Reject => ~M!Balanced(doc)
  <1> SUFFICES ASSUME IInv, ScanInv, Reject, M!Balanced(doc) PROVE FALSE
    OBVIOUS
  <1>1. /\ index \in Nat /\ index + 1 \in DOMAIN doc
        /\ doc \in Documents /\ Len(doc) \in Nat /\ DOMAIN doc = 1..Len(doc)
    BY DEF Reject, Scanning, IInv, TypeOK, Documents
  <1>2. ~M!Refused(token)
    BY <1>1 DEF M!Balanced, token
  <1>3. token.k = "close" /\ active_tags_by_name[token.n] = <<>>
    BY <1>2 DEF Reject
  <1>4. PICK name \in TagNames : name = token.n
    BY <1>1, <1>3 DEF Documents, M!TagKinds, token
  <1>5. name \in M!NamesOf(doc)
    BY <1>1, <1>3, <1>4 DEF M!NamesOf, M!TagKinds, token
  <1>6. Depth(name, index) = 0
    BY <1>3, <1>4 DEF ScanInv, StackMeasuresDepth
  <1>7. Depth(name, index + 1) = -1
    BY <1>1, <1>3, <1>4, <1>6, DepthNext DEF token
  <1>8. M!Closed(doc, name, index + 1) <= M!Opened(doc, name, index + 1)
    BY <1>1, <1>5 DEF M!Balanced
  <1>9. PICK o \in Nat, c \in Nat :
          o = M!Opened(doc, name, index + 1) /\ c = M!Closed(doc, name, index + 1)
    BY <1>1, CountNext
  <1> QED
    BY <1>7, <1>8, <1>9 DEF Depth

LEMMA FinishResult ==
  ASSUME IInv, ScanInv, index = Len(doc) PROVE M!Balanced(doc) <=> ~LeftOpen
  <1>1. doc \in Documents /\ Len(doc) \in Nat /\ DOMAIN doc = 1..Len(doc)
    BY DEF IInv, TypeOK, Documents
  <1>2. \A name : \A i \in Nat :
          /\ M!Opened(doc, name, i) \in Nat /\ M!Closed(doc, name, i) \in Nat
          /\ Depth(name, i) >= 0 <=> M!Closed(doc, name, i) <= M!Opened(doc, name, i)
          /\ Depth(name, i) = 0 <=> M!Closed(doc, name, i) = M!Opened(doc, name, i)
    <2> SUFFICES ASSUME NEW name, NEW i \in Nat
                 PROVE  /\ M!Opened(doc, name, i) \in Nat /\ M!Closed(doc, name, i) \in Nat
                        /\ Depth(name, i) >= 0 <=> M!Closed(doc, name, i) <= M!Opened(doc, name, i)
                        /\ Depth(name, i) = 0 <=> M!Closed(doc, name, i) = M!Opened(doc, name, i)
      OBVIOUS
    <2>1. PICK o \in Nat, c \in Nat :
            o = M!Opened(doc, name, i) /\ c = M!Closed(doc, name, i)
      BY CountNext
    <2> QED
      BY <2>1 DEF Depth
  <1>3. \A name \in M!NamesOf(doc) : name \in TagNames
    BY <1>1 DEF M!NamesOf, Documents
  <1>4. ASSUME ~LeftOpen PROVE M!Balanced(doc)
    <2>1. \A name \in TagNames : Depth(name, Len(doc)) = 0
      <3> SUFFICES ASSUME NEW name \in TagNames PROVE Depth(name, Len(doc)) = 0
        OBVIOUS
      <3>1. active_tags_by_name[name] \in Seq(Nat)
            /\ \A i \in 1..Len(active_tags_by_name[name]) : FALSE
        BY <1>4 DEF LeftOpen, IInv, TypeOK, IndexMatchesList, StackOfName
      <3>2. Len(active_tags_by_name[name]) = 0
        BY <3>1
      <3> QED
        BY <3>2 DEF ScanInv, StackMeasuresDepth
    <2>2. \A i \in DOMAIN doc : ~M!Refused(doc[i])
      BY <1>1 DEF ScanInv, PrefixBalances
    <2>3. \A name \in TagNames : \A i \in DOMAIN doc : Depth(name, i) >= 0
      BY <1>1 DEF ScanInv, PrefixBalances
    <2> QED
      BY <1>1, <1>2, <1>3, <2>1, <2>2, <2>3 DEF M!Balanced
  <1>5. ASSUME LeftOpen PROVE ~M!Balanced(doc)
    <2>1. PICK e \in active_tags : TRUE
      BY <1>5 DEF LeftOpen
    <2>2. e.Name \in TagNames /\ OpenedTag(e)
      BY DEF IInv, TypeOK, OpenTagEntry, ScanInv
    <2>3. e.Name \in M!NamesOf(doc)
      BY <1>1, <2>2 DEF OpenedTag, M!NamesOf, M!TagKinds
    <2>4. active_tags_by_name[e.Name] \in Seq(Nat)
          /\ \E i \in 1..Len(active_tags_by_name[e.Name]) : TRUE
      BY <2>2 DEF IInv, TypeOK, IndexMatchesList, StackOfName
    <2>5. Len(active_tags_by_name[e.Name]) # 0
      BY <2>4
    <2>6. Depth(e.Name, Len(doc)) # 0
      BY <2>2, <2>5 DEF ScanInv, StackMeasuresDepth
    <2> QED
      BY <1>1, <1>2, <2>3, <2>6 DEF M!Balanced
  <1> QED
    BY <1>4, <1>5

(* A set whose elements are numbered 0, 1, ..., n - 1.                     *)
Numbers(f, T, n) ==
  /\ f \in [T -> 0..(n - 1)]
  /\ \A x, y \in T : f[x] = f[y] => x = y
  /\ \A s \in 0..(n - 1) : \E x \in T : f[x] = s

LEMMA CountedBy ==
  ASSUME NEW T, NEW n \in Nat, NEW f, Numbers(f, T, n)
  PROVE  IsFiniteSet(T) /\ Cardinality(T) = n
  <1>1. IsFiniteSet(0..(n - 1)) /\ Cardinality(0..(n - 1)) = n
    BY FS_Interval
  <1>2. f \in Injection(T, 0..(n - 1)) /\ f \in Surjection(T, 0..(n - 1))
    BY DEF Numbers, Injection, Surjection, IsInjective
  <1>3. IsFiniteSet(T) /\ (Cardinality(T) = Cardinality(0..(n - 1)) <=> f \in Surjection(T, 0..(n - 1)))
    BY <1>1, <1>2, FS_Injection
  <1> QED
    BY <1>1, <1>2, <1>3

(* The ranges in the order of their numbers are those of the tags in the   *)
(* order of their positions.                                               *)
LEMMA SortedRanges ==
  ASSUME IInv, ScanInv, index = Len(doc), ~LeftOpen
  PROVE  LET sorted == InSequence(parsed_tags)
         IN  [r \in 1..Len(sorted) |-> sorted[r].Range] = M!Tags(doc)
  <1>1. PICK tags : tags = parsed_tags
    OBVIOUS
  <1>2. PICK n : n = Len(tags)
    OBVIOUS
  <1> DEFINE f == [t \in 1..n |-> tags[t].Sequence]
             starts == M!StartsOf(doc)
             At(r) == CHOOSE i \in DOMAIN tags : Cardinality(Before(tags, i)) = r - 1
  <1>3. /\ n \in Nat /\ DOMAIN tags = 1..n /\ tags \in Seq(ParsedTag)
        /\ \A t \in 1..n : tags[t] \in ParsedTag
    BY <1>1, <1>2 DEF ScanInv
  <1>4. sequence \in Nat /\ doc \in Documents /\ Len(doc) \in Nat /\ TypeOK
        /\ DOMAIN doc = 1..Len(doc)
    BY DEF IInv, TypeOK, Documents
  <1>5. /\ f \in [1..n -> 0..(sequence - 1)]
        /\ \A t \in 1..n : f[t] \in Nat /\ f[t] = tags[t].Sequence
        /\ \A t, u \in 1..n : f[t] = f[u] => t = u
        /\ \A s \in 0..(sequence - 1) : \E t \in 1..n : f[t] = s
    <2>1. \A t \in 1..n : f[t] \in Nat /\ f[t] < sequence
      BY <1>1, <1>2, <1>3, RangeNumbers
    <2>2. \A s \in 0..(sequence - 1) : \E t \in 1..n : tags[t].Sequence = s
      BY <1>1, <1>2 DEF ScanInv, NumbersAreUsedOnce, LeftOpen
    <2>3. \A t, u \in 1..n : tags[t].Sequence = tags[u].Sequence => t = u
      BY <1>1, <1>2 DEF ScanInv, NumbersAreUsedOnce
    <2> QED
      BY <1>3, <1>4, <2>1, <2>2, <2>3
  <1> HIDE DEF f
  <1>6. n = sequence
    <2>1. Numbers(f, 1..n, sequence)
      BY <1>5 DEF Numbers
    <2>2. Cardinality(1..n) = sequence
      BY <1>4, <2>1, CountedBy
    <2> QED
      BY <1>3, <2>2, FS_Interval
  <1>7. M!Cardinality(starts) = n
    <2>1. {j \in starts : j <= Len(doc)} = starts
      BY <1>4 DEF M!StartsOf
    <2> QED
      BY <1>6, <2>1, SameCardinality DEF ScanInv, NumbersAreUsedOnce, Rank
  <1>8. ASSUME NEW t \in 1..n PROVE Cardinality(Before(tags, t)) = f[t]
    <2>a. PICK B : B = Before(tags, t)
      OBVIOUS
    <2>b. PICK g : g = [u \in B |-> f[u]]
      OBVIOUS
    <2>1. B \subseteq 1..n /\ \A u \in 1..n : u \in B <=> f[u] < f[t]
      BY <1>3, <1>5, <2>a DEF Before
    <2>2. g \in [B -> 0..(f[t] - 1)] /\ \A u \in B : g[u] = f[u]
      BY <1>5, <2>1, <2>b
    <2>3. ASSUME NEW s \in 0..(f[t] - 1) PROVE \E u \in B : g[u] = s
      <3>1. s \in 0..(sequence - 1) /\ s < f[t]
        BY <1>4, <1>5
      <3>2. PICK u \in 1..n : f[u] = s
        BY <1>5, <3>1
      <3> QED
        BY <2>1, <2>2, <3>1, <3>2
    <2>4. \A u, v \in B : g[u] = g[v] => u = v
      BY <1>5, <2>1, <2>2
    <2>5. PICK k \in Nat : k = f[t]
      BY <1>5
    <2>6. Numbers(g, B, k)
      BY <2>2, <2>3, <2>4, <2>5 DEF Numbers
    <2>7. Cardinality(B) = k
      BY <2>6, CountedBy
    <2> QED
      BY <2>a, <2>5, <2>7
  <1>9. ASSUME NEW r \in 1..n
        PROVE  At(r) \in 1..n /\ f[At(r)] = r - 1
    <2>1. r - 1 \in 0..(sequence - 1)
      BY <1>3, <1>6
    <2>2. \E t \in 1..n : f[t] = r - 1
      BY <1>5, <2>1
    <2> QED
      BY <1>3, <1>8, <2>2
  <1> HIDE DEF At
  <1>10. PICK sorted : sorted = InSequence(tags)
    OBVIOUS
  <1>11. sorted = [r \in 1..n |-> tags[At(r)]]
    BY <1>3, <1>10 DEF InSequence, At
  <1>12. Len(sorted) = n /\ \A r \in 1..n : sorted[r] = tags[At(r)]
    <2>1. \A r \in 1..n : tags[At(r)] \in ParsedTag
      BY <1>3, <1>9
    <2>2. sorted \in [1..n -> ParsedTag]
      BY <1>11, <2>1
    <2> QED
      BY <1>3, <1>11, <2>2
  <1>13. ASSUME NEW r \in 1..n PROVE tags[At(r)].Range = M!TagAt(doc, M!Nth(r, starts))
    <2>1. PICK p \in 1..index : /\ M!Starts(doc[p])
                                /\ Rank(p) = tags[At(r)].Sequence + 1
                                /\ tags[At(r)].Range = M!TagAt(doc, p)
      BY <1>1, <1>2, <1>9 DEF ScanInv, RangesDeclared, DeclaredTag
    <2>2. p \in starts /\ starts \subseteq Nat /\ Rank(p) = r
      <3>1. p \in starts /\ starts \subseteq Nat
        BY <1>4, <2>1 DEF M!StartsOf
      <3>2. tags[At(r)].Sequence = r - 1 /\ r \in Nat
        <4>1. PICK t \in 1..n : t = At(r) /\ f[t] = r - 1
          BY <1>9
        <4> QED
          BY <1>3, <1>5, <4>1
      <3> QED
        BY <2>1, <3>1, <3>2
    <2>3. ASSUME NEW q \in starts, Rank(q) = r PROVE q = p
      <3>1. p < q => Rank(p) < Rank(q)
        BY <1>4, <2>2, RankFacts
      <3>2. q < p => Rank(q) < Rank(p)
        BY <1>4, <2>2, RankFacts
      <3> QED
        BY <2>2, <2>3, <3>1, <3>2
    <2>4. \A q : M!Cardinality({j \in starts : j <= q}) = Rank(q)
      BY SameCardinality DEF Rank
    <2> HIDE DEF starts
    <2>5. M!Nth(r, starts) = p
      BY <2>2, <2>3, <2>4 DEF M!Nth
    <2> QED
      BY <2>1, <2>5
  <1>14. M!Tags(doc) = [r \in 1..n |-> M!TagAt(doc, M!Nth(r, starts))]
    BY <1>7 DEF M!Tags
  <1> HIDE DEF starts
  <1>15. [r \in 1..Len(sorted) |-> sorted[r].Range] = M!Tags(doc)
    BY <1>12, <1>13, <1>14
  <1> QED
    BY <1>1, <1>10, <1>15

LEMMA NextResultInv == ResultInv /\ [Next]_vars => ResultInv'
  <1> SUFFICES ASSUME ResultInv, [Next]_vars PROVE ResultInv'
    OBVIOUS
  <1>1. IInv /\ ParsedIsDeclared
    BY DEF ResultInv
  <1>2. IInv'
    BY <1>1, NextIInv
  <1>3. CASE Pass \/ SelfClose \/ Open \/ Close
    <2>1. status = "running" /\ UNCHANGED status
      BY <1>3 DEF Pass, SelfClose, Open, Close, Scanning
    <2>2. ScanInv'
      BY <1>1, <1>3, <2>1, PassScan, SelfCloseScan, OpenScan, CloseScan DEF ResultInv
    <2> QED
      BY <1>2, <2>1, <2>2 DEF ResultInv, ParsedIsDeclared
  <1>4. CASE Reject
    <2>1. status = "running" /\ status' = "nullopt" /\ doc' = doc
      BY <1>4 DEF Reject, Scanning
    <2>2. ~M!Balanced(doc)
      BY <1>1, <1>4, <2>1, RejectResult DEF ResultInv
    <2> QED
      BY <1>2, <2>1, <2>2 DEF ResultInv, ParsedIsDeclared
  <1>5. CASE Finish
    <2>1. ScanInv /\ index = Len(doc) /\ doc' = doc
      BY <1>5 DEF ResultInv, Finish
    <2>2. M!Balanced(doc) <=> ~LeftOpen
      BY <1>1, <2>1, FinishResult
    <2>3. CASE LeftOpen
      BY <1>2, <1>5, <2>1, <2>2, <2>3 DEF Finish, ResultInv, ParsedIsDeclared
    <2>4. CASE ~LeftOpen
      <3>1. status' = "parsed" /\ parsed_tags' = InSequence(parsed_tags)
        BY <1>5, <2>4 DEF Finish
      <3>2. [r \in 1..Len(parsed_tags') |-> parsed_tags'[r].Range] = M!Tags(doc)
        BY <1>1, <2>1, <2>4, <3>1, SortedRanges
      <3> QED
        BY <1>2, <2>1, <2>2, <2>4, <3>1, <3>2 DEF ResultInv, ParsedIsDeclared
    <2> QED
      BY <2>3, <2>4
  <1>6. CASE UNCHANGED vars
    <2>1. ParsedIsDeclared'
      BY <1>1, <1>6 DEF vars, ParsedIsDeclared
    <2>2. ScanInv => ScanInv'
      <3>1. /\ doc' = doc /\ index' = index /\ sequence' = sequence /\ active_tags' = active_tags
            /\ active_tags_by_name' = active_tags_by_name /\ parsed_tags' = parsed_tags
        BY <1>6 DEF vars
      <3>3. \A n : Rank(n)' = Rank(n)
        BY <3>1, Zenon DEF Rank
      <3>4. \A name, n : Depth(name, n)' = Depth(name, n)
        BY <3>1, Zenon DEF Depth
      <3>2. PrefixBalances' = PrefixBalances
        <4>1. PICK d, i : d = doc /\ i = index /\ d = doc' /\ i = index'
          BY <3>1
        <4> QED
          BY <3>4, <4>1 DEF PrefixBalances
      <3>5. \A name : StackMeasuresDepth(name)' = StackMeasuresDepth(name)
        BY <3>1, <3>4 DEF StackMeasuresDepth
      <3>6. \A e : OpenedTag(e)' = OpenedTag(e)
        BY <3>1, <3>3 DEF OpenedTag
      <3>7. RangesDeclared' = RangesDeclared
        BY <3>1, <3>3 DEF RangesDeclared, DeclaredTag
      <3>8. NumbersAreUsedOnce' = NumbersAreUsedOnce
        BY <3>1, <3>3 DEF NumbersAreUsedOnce
      <3> QED
        BY <3>1, <3>2, <3>5, <3>6, <3>7, <3>8 DEF ScanInv
    <2> QED
      BY <1>2, <1>6, <2>1, <2>2 DEF vars, ResultInv
  <1> QED
    BY <1>3, <1>4, <1>5, <1>6 DEF Next

LEMMA InitResultInv == doc \in Documents /\ Init => ResultInv
  <1> SUFFICES ASSUME doc \in Documents, Init PROVE ResultInv
    OBVIOUS
  <1>1. IInv /\ doc \in Documents
    BY InitIInv
  <1>2. \A name : Depth(name, 0) = 0
    <2>1. \A name : /\ {j \in 1..0 : doc[j].k = "open" /\ doc[j].n = name} = {}
                    /\ {j \in 1..0 : doc[j].k = "close" /\ doc[j].n = name} = {}
      OBVIOUS
    <2> QED
      BY <2>1, SameCardinality, FS_EmptySet DEF Depth, M!Opened, M!Closed
  <1>3. Rank(0) = 0
    <2>1. {j \in M!StartsOf(doc) : j <= 0} = {}
      BY DEF M!StartsOf, Documents
    <2> QED
      BY <2>1, FS_EmptySet DEF Rank
  <1>4. PrefixBalances
    <2>1. \A j \in 0..0 : j = 0
      OBVIOUS
    <2> QED
      BY <1>2, <2>1 DEF Init, PrefixBalances
  <1>5. \A name \in TagNames : StackMeasuresDepth(name)
    BY <1>2 DEF Init, StackMeasuresDepth
  <1>6. NumbersAreUsedOnce
    BY <1>3 DEF Init, NumbersAreUsedOnce
  <1>7. ScanInv
    BY <1>4, <1>5, <1>6 DEF Init, ScanInv, RangesDeclared
  <1> QED
    BY <1>1, <1>7 DEF Init, ResultInv, ParsedIsDeclared

(* For every text: the scanner accepts it exactly when each name nests     *)
(* properly on its own, and the ranges it returns, pushed as tags close    *)
(* and then sorted, are those of the declared tags in document order.      *)
THEOREM ParsedIsAlwaysDeclared == Spec => []ParsedIsDeclared
  <1>1. ResultInv => ParsedIsDeclared
    BY DEF ResultInv
  <1> QED
    BY InitResultInv, NextResultInv, <1>1, PTL DEF Spec

-----------------------------------------------------------------------------
(* The validator.  What its vector of names comes to: the entries of the   *)
(* list in the order of their numbers.                                     *)
OpenedNumbers == {e.Sequence : e \in active_tags}

LEMMA OpenNumbersIs == OpenNumbers = Ascending(OpenedNumbers)
  <1>1. \A T : M!Ascending(T) = Ascending(T)
    BY DEF M!Ascending, Ascending, M!Nth, Nth, M!Cardinality, Cardinality
  <1> QED
    BY <1>1 DEF OpenNumbers, OpenedNumbers

LEMMA NumbersFacts ==
  ASSUME IInv
  PROVE  /\ OpenedNumbers \in SUBSET Nat /\ IsFiniteSet(OpenedNumbers)
         /\ \A k \in OpenedNumbers : k < sequence
  <1>1. sequence \in Nat /\ DistinctEntries /\ \A e \in active_tags : e.Sequence \in Nat
    BY DEF IInv, TypeOK, IndexMatchesList, OpenTagEntry
  <1>2. \A k \in OpenedNumbers : k \in Nat /\ k < sequence
    BY <1>1 DEF OpenedNumbers, DistinctEntries
  <1>3. OpenedNumbers \in SUBSET (0..sequence)
    BY <1>1, <1>2
  <1>4. IsFiniteSet(0..sequence)
    BY <1>1, FS_Interval
  <1> QED
    BY <1>2, <1>3, <1>4, FS_Subset

(* The names are those of the entries with the numbers in order.           *)
Names(numbers, names, listed) ==
  /\ numbers \in Seq(Nat) /\ Ascends(numbers)
  /\ names \in Seq(TagNames) /\ Len(names) = Len(numbers)
  /\ \A i \in 1..Len(numbers) :
       \E e \in listed : e.Sequence = numbers[i] /\ e.Name = names[i]
  /\ \A e \in listed :
       \E i \in 1..Len(numbers) : e.Sequence = numbers[i] /\ e.Name = names[i]

LEMMA OpenNamesFacts == IInv => Names(OpenNumbers, OpenNames, active_tags)
  <1> SUFFICES ASSUME IInv PROVE Names(OpenNumbers, OpenNames, active_tags)
    OBVIOUS
  <1>1. PICK s : s = OpenNumbers
    OBVIOUS
  <1>2. s \in Seq(Nat) /\ Ascends(s) /\ Range(s) = OpenedNumbers
    BY <1>1, NumbersFacts, AscendingFacts, OpenNumbersIs
  <1>3. PICK n \in Nat : n = Len(s)
    BY <1>2
  <1>4. PICK names : names = OpenNames
    OBVIOUS
  <1>5. names = [i \in 1..n |-> NameOf(s[i])]
    BY <1>1, <1>3, <1>4 DEF OpenNames
  <1>6. \A e, f \in active_tags : e.Sequence = f.Sequence => e = f
    BY DEF IInv, IndexMatchesList, DistinctEntries
  <1>7. ASSUME NEW i \in 1..n
        PROVE  \E e \in active_tags : e.Sequence = s[i] /\ e.Name = names[i]
    <2>1. s[i] \in OpenedNumbers
      BY <1>2, <1>3, ElementsOfRange
    <2>2. \E e \in active_tags : e.Sequence = s[i]
      BY <2>1 DEF OpenedNumbers
    <2> QED
      BY <1>5, <2>2 DEF NameOf
  <1>8. ASSUME NEW e \in active_tags
        PROVE  \E i \in 1..n : e.Sequence = s[i] /\ e.Name = names[i]
    <2>1. e.Sequence \in OpenedNumbers
      BY DEF OpenedNumbers
    <2>2. PICK i \in 1..n : s[i] = e.Sequence
      BY <1>2, <1>3, <2>1, ElementsOfRange
    <2>3. PICK f \in active_tags : f.Sequence = s[i] /\ f.Name = names[i]
      BY <1>7
    <2> QED
      BY <1>6, <2>2, <2>3
  <1>9. \A e \in active_tags : e.Name \in TagNames
    BY DEF IInv, TypeOK, OpenTagEntry
  <1>10. names \in Seq(TagNames) /\ Len(names) = n
    <2>1. \A i \in 1..n : names[i] \in TagNames
      BY <1>7, <1>9
    <2> QED
      BY <1>3, <1>5, <2>1
  <1> QED
    BY <1>1, <1>2, <1>3, <1>4, <1>7, <1>8, <1>10 DEF Names

(* Both see the same open tags of a name, and the same tokens.             *)
LEMMA SameMatches ==
  ASSUME IInv, NEW name \in TagNames
  PROVE  active_tags_by_name[name] = <<>> <=> Validator!MatchesOf(name) = {}
  <1>1. PICK s, names : /\ s = OpenNumbers /\ names = OpenNames
                        /\ Names(s, names, active_tags)
    BY OpenNamesFacts
  <1>2. Validator!MatchesOf(name) = {i \in 1..Len(s) : names[i] = name}
    BY <1>1 DEF Validator!MatchesOf, Names
  <1>3. StackOfName(name) /\ active_tags_by_name[name] \in Seq(Nat)
    BY DEF IInv, TypeOK, IndexMatchesList
  <1>4. CASE active_tags_by_name[name] = <<>>
    <2>1. \A e \in active_tags : e.Name # name
      BY <1>3, <1>4 DEF StackOfName
    <2>2. \A i \in 1..Len(s) : names[i] # name
      BY <1>1, <2>1 DEF Names
    <2> QED
      BY <1>2, <1>4, <2>2
  <1>5. CASE active_tags_by_name[name] # <<>>
    <2>1. 1 \in 1..Len(active_tags_by_name[name])
      BY <1>3, <1>5
    <2>2. PICK e \in active_tags : e.Name = name
      BY <1>3, <2>1 DEF StackOfName
    <2>3. \E i \in 1..Len(s) : names[i] = name
      BY <1>1, <2>2 DEF Names
    <2> QED
      BY <1>2, <1>5, <2>3
  <1> QED
    BY <1>4, <1>5

LEMMA SameTokens ==
  /\ Validator!token = token
  /\ Validator!Scanning <=> Scanning
  /\ \A t : /\ Validator!M!Passed(t) <=> M!Passed(t)
            /\ Validator!M!Refused(t) <=> M!Refused(t)
            /\ Validator!M!Starts(t) <=> M!Starts(t)
  <1>1. Verdict = "running" <=> status = "running"
    BY DEF Verdict
  <1>2. Validator!Scanning <=> Scanning
    BY <1>1 DEF Validator!Scanning, Scanning
  <1> QED
    BY <1>2 DEF Validator!token, token, Validator!M!Passed, M!Passed,
       Validator!M!Refused, M!Refused, Validator!M!Starts, M!Starts

(* An entry that is opened comes last.                                     *)
LEMMA OpenAppendsName ==
  ASSUME IInv, Open, IInv'
  PROVE  OpenNames' = Append(OpenNames, token.n)
  <1>1. PICK s, names, listed, m, name :
          /\ s = OpenNumbers /\ names = OpenNames /\ listed = active_tags
          /\ m = sequence /\ name = token.n
          /\ Names(s, names, listed) /\ name \in TagNames /\ m \in Nat
    <2>1. token.n \in TagNames
      BY ScannedToken DEF IInv, Open, M!TagKinds
    <2> QED
      BY <2>1, OpenNamesFacts DEF IInv, TypeOK
  <1>2. PICK e : /\ e.Sequence = m /\ e.Name = name
                 /\ active_tags' = listed \cup {e}
    BY <1>1 DEF Open
  <1>3. OpenedNumbers' = OpenedNumbers \cup {m}
    BY <1>1, <1>2 DEF OpenedNumbers
  <1>4. PICK t : t = Append(s, m)
    OBVIOUS
  <1>5. OpenNumbers' = t
    <2>1. PICK T : T = OpenedNumbers
      OBVIOUS
    <2>2. /\ T \in SUBSET Nat /\ IsFiniteSet(T) /\ \A k \in T : k < m
          /\ s = Ascending(T)
      BY <1>1, <2>1, NumbersFacts, OpenNumbersIs
    <2>3. Ascending(T \cup {m}) = t
      BY <1>1, <1>4, <2>2, AscendingAppend
    <2>4. (OpenNumbers = Ascending(OpenedNumbers))'
      BY OpenNumbersIs, PTL
    <2> QED
      BY <1>3, <2>1, <2>3, <2>4
  <1>6. Names(t, OpenNames', active_tags')
    <2>1. (IInv => Names(OpenNumbers, OpenNames, active_tags))'
      BY OpenNamesFacts, PTL
    <2> QED
      BY <1>5, <2>1
  <1>7. PICK after : after = OpenNames' /\ Names(t, after, listed \cup {e})
    BY <1>2, <1>6
  <1>8. PICK n \in Nat : n = Len(s) /\ n = Len(names)
    BY <1>1 DEF Names
  <1>9. /\ t \in Seq(Nat) /\ Len(t) = n + 1 /\ t[n + 1] = m
        /\ \A k \in 1..n : t[k] = s[k]
    BY <1>1, <1>4, <1>8 DEF Names
  <1>10. after \in Seq(TagNames) /\ Len(after) = n + 1
    BY <1>7, <1>9 DEF Names
  <1>11. \A a, b \in listed \cup {e} : a.Sequence = b.Sequence => a.Name = b.Name
    <2>1. (\A a, b \in active_tags : a.Sequence = b.Sequence => a = b)'
      BY DEF IInv, IndexMatchesList, DistinctEntries
    <2> QED
      BY <1>2, <2>1
  <1>12. \A k \in 1..(n + 1) :
           \E a \in listed \cup {e} : a.Sequence = t[k] /\ a.Name = after[k]
    BY <1>7, <1>9 DEF Names
  <1>13. ASSUME NEW k \in 1..n PROVE after[k] = names[k]
    <2>1. PICK a \in listed : a.Sequence = s[k] /\ a.Name = names[k]
      BY <1>1, <1>8 DEF Names
    <2>2. k \in 1..(n + 1)
      OBVIOUS
    <2>3. PICK b \in listed \cup {e} : b.Sequence = t[k] /\ b.Name = after[k]
      BY <1>12, <2>2
    <2> QED
      BY <1>9, <1>11, <2>1, <2>3
  <1>14. after[n + 1] = name
    <2>1. n + 1 \in 1..(n + 1)
      OBVIOUS
    <2>2. PICK b \in listed \cup {e} : b.Sequence = t[n + 1] /\ b.Name = after[n + 1]
      BY <1>12, <2>1
    <2> QED
      BY <1>2, <1>9, <1>11, <2>2
  <1>15. after = Append(names, name)
    <2>1. names \in Seq(TagNames)
      BY <1>1 DEF Names
    <2> QED
      BY <1>1, <1>8, <1>10, <1>13, <1>14, <2>1
  <1> QED
    BY <1>1, <1>7, <1>15

(* An entry that is closed is the last of its name, and the others keep    *)
(* their order.                                                            *)
LEMMA CloseErasesName ==
  ASSUME IInv, Close, IInv'
  PROVE  \E p \in DOMAIN OpenNames :
           Validator!IsMostRecent(p, token.n) /\ OpenNames' = Validator!Erase(OpenNames, p)
  <1>1. PICK s, names, listed, name :
          /\ s = OpenNumbers /\ names = OpenNames /\ listed = active_tags
          /\ name = token.n
          /\ Names(s, names, listed) /\ name \in TagNames
    <2>1. token.n \in TagNames
      BY ScannedToken DEF IInv, Close, M!TagKinds
    <2> QED
      BY <2>1, OpenNamesFacts
  <1>2. PICK n \in Nat : n = Len(s) /\ n = Len(names)
    BY <1>1 DEF Names
  <1>3. PICK closed \in listed :
          /\ closed.Name = name
          /\ \A e \in listed : e.Name = name => e.Sequence <= closed.Sequence
          /\ active_tags' = listed \ {closed}
    <2>1. active_tags_by_name[name] # <<>> /\ active_tags' = active_tags \ {Entry(name)}
      BY <1>1 DEF Close
    <2>2. /\ Entry(name) \in active_tags /\ Entry(name).Name = name
          /\ \A e \in active_tags : e.Name = name => e.Sequence <= Entry(name).Sequence
      BY <1>1, <2>1, TopOfStack
    <2> QED
      BY <1>1, <2>1, <2>2
  <1>4. PICK p \in 1..n : s[p] = closed.Sequence /\ names[p] = name
    <2>1. \A e \in listed : \E i \in 1..n : e.Sequence = s[i] /\ e.Name = names[i]
      BY <1>1, <1>2 DEF Names
    <2>2. PICK i \in 1..n : closed.Sequence = s[i] /\ closed.Name = names[i]
      BY <1>3, <2>1
    <2> QED
      BY <1>3, <2>2
  <1>5. \A e, f \in listed : e.Sequence = f.Sequence => e = f
    BY <1>1 DEF IInv, IndexMatchesList, DistinctEntries
  <1>6. /\ \A k \in 1..n : s[k] \in Nat
        /\ \A k, l \in 1..n : k < l => s[k] < s[l]
        /\ \A k \in 1..n : \E e \in listed : e.Sequence = s[k] /\ e.Name = names[k]
    <2>1. s \in Seq(Nat) /\ Ascends(s)
      BY <1>1 DEF Names
    <2>2. \A k \in 1..n : s[k] \in Nat
      <3>1. \A k \in 1..Len(s) : s[k] \in Nat
        BY <2>1
      <3>2. 1..n = 1..Len(s)
        BY <1>2
      <3> QED
        BY <3>1, <3>2
    <2>3. \A k, l \in 1..n : k < l => s[k] < s[l]
      BY <1>2, <2>1 DEF Ascends
    <2>4. \A k \in 1..n : \E e \in listed : e.Sequence = s[k] /\ e.Name = names[k]
      BY <1>1, <1>2 DEF Names
    <2> QED
      BY <2>2, <2>3, <2>4
  <1>7. Validator!IsMostRecent(p, name)
    <2>1. Validator!MatchesOf(name) = {i \in 1..n : names[i] = name}
      BY <1>1, <1>2 DEF Validator!MatchesOf, Names
    <2>2. ASSUME NEW j \in 1..n, names[j] = name PROVE j <= p
      <3>1. s[j] <= s[p]
        BY <1>3, <1>4, <1>6, <2>2
      <3> QED
        BY <1>6, <3>1
    <2> QED
      BY <1>4, <2>1, <2>2 DEF Validator!IsMostRecent
  <1>8. PICK t \in Seq(Nat) : Skips(t, s, p, n)
    <2>1. PICK t : t = [k \in 1..(n - 1) |-> IF k < p THEN s[k] ELSE s[k + 1]]
      OBVIOUS
    <2>2. \A k \in 1..(n - 1) : (IF k < p THEN s[k] ELSE s[k + 1]) \in Nat
      BY <1>6
    <2>3. t \in Seq(Nat) /\ Len(t) = n - 1
      BY <2>1, <2>2
    <2> QED
      BY <2>1, <2>3 DEF Skips
  <1>9. OpenNumbers' = t
    <2>1. PICK T : T = OpenedNumbers
      OBVIOUS
    <2>2. T \in SUBSET Nat /\ IsFiniteSet(T) /\ s = Ascending(T)
      BY <1>1, <2>1, NumbersFacts, OpenNumbersIs
    <2>3. Ascending(T \ {s[p]}) = t
      BY <1>2, <1>8, <2>2, AscendingWithout
    <2>4. OpenedNumbers' = T \ {s[p]}
      BY <1>1, <1>3, <1>4, <1>5, <2>1 DEF OpenedNumbers
    <2>5. (OpenNumbers = Ascending(OpenedNumbers))'
      BY OpenNumbersIs, PTL
    <2> QED
      BY <2>3, <2>4, <2>5
  <1>10. PICK after : after = OpenNames' /\ Names(t, after, listed \ {closed})
    <2>1. (IInv => Names(OpenNumbers, OpenNames, active_tags))'
      BY OpenNamesFacts, PTL
    <2> QED
      BY <1>3, <1>9, <2>1
  <1>11. after \in Seq(TagNames) /\ Len(after) = n - 1
    BY <1>8, <1>10 DEF Names, Skips
  <1>12. ASSUME NEW k \in 1..(n - 1) PROVE after[k] = IF k < p THEN names[k] ELSE names[k + 1]
    <2>1. PICK a \in listed : a.Sequence = t[k] /\ a.Name = after[k]
      BY <1>8, <1>10 DEF Names, Skips
    <2>2. PICK l \in 1..n : l = IF k < p THEN k ELSE k + 1
      OBVIOUS
    <2>3. PICK b \in listed : b.Sequence = s[l] /\ b.Name = names[l]
      BY <1>6
    <2>4. t[k] = s[l]
      BY <1>8, <2>2 DEF Skips
    <2>5. after[k] = names[l]
      BY <1>5, <2>1, <2>3, <2>4
    <2> QED
      BY <2>2, <2>5
  <1>13. after = Validator!Erase(names, p)
    <2>1. names \in Seq(TagNames)
      BY <1>1 DEF Names
    <2>2. PICK erased : erased = SubSeq(names, 1, p - 1) \o SubSeq(names, p + 1, n)
      OBVIOUS
    <2>3. /\ erased \in Seq(TagNames) /\ Len(erased) = n - 1
          /\ \A k \in 1..(n - 1) : erased[k] = IF k < p THEN names[k] ELSE names[k + 1]
      <3>1. PICK a, b : a = SubSeq(names, 1, p - 1) /\ b = SubSeq(names, p + 1, n)
        OBVIOUS
      <3>2. /\ a \in Seq(TagNames) /\ Len(a) = p - 1
            /\ \A k \in 1..(p - 1) : a[k] = names[k]
        BY <1>2, <2>1, <3>1
      <3>3. /\ b \in Seq(TagNames) /\ Len(b) = n - p
            /\ \A k \in 1..(n - p) : b[k] = names[p + k]
        BY <1>2, <2>1, <3>1
      <3>4. erased = a \o b
        BY <2>2, <3>1
      <3>5. /\ erased \in Seq(TagNames) /\ Len(erased) = n - 1
            /\ \A k \in 1..(n - 1) : erased[k] = IF k <= p - 1 THEN a[k] ELSE b[k - (p - 1)]
        <4>1. PICK q \in Nat, r \in Nat : q = p - 1 /\ r = n - p
          OBVIOUS
        <4>2. a \in Seq(TagNames) /\ b \in Seq(TagNames) /\ Len(a) = q /\ Len(b) = r
          BY <3>2, <3>3, <4>1
        <4>3. /\ erased \in Seq(TagNames) /\ Len(erased) = q + r
              /\ \A k \in 1..(q + r) : erased[k] = IF k <= q THEN a[k] ELSE b[k - q]
          BY <3>4, <4>2, ConcatProperties
        <4>4. q + r = n - 1
          BY <4>1
        <4> QED
          BY <4>1, <4>3, <4>4
      <3>6. ASSUME NEW k \in 1..(n - 1)
            PROVE  erased[k] = IF k < p THEN names[k] ELSE names[k + 1]
        <4>1. CASE k < p
          BY <3>2, <3>5, <4>1
        <4>2. CASE ~(k < p)
          <5>1. k - (p - 1) \in 1..(n - p) /\ p + (k - (p - 1)) = k + 1
            BY <4>2
          <5>2. b[k - (p - 1)] = names[k + 1]
            BY <3>3, <5>1
          <5> QED
            BY <3>5, <4>2, <5>2
        <4> QED
          BY <4>1, <4>2
      <3> QED
        BY <3>5, <3>6
    <2>4. after = erased
      BY <1>11, <1>12, <2>3, SeqEqual
    <2> QED
      BY <1>2, <2>2, <2>4 DEF Validator!Erase
  <1>14. p \in DOMAIN OpenNames
    BY <1>1, <1>2, <1>4 DEF Names
  <1> QED
    BY <1>1, <1>7, <1>10, <1>13, <1>14

(* Each step of the scanner is one of the validator, under which neither   *)
(* the list nor the index is visible.                                      *)
LEMMA StepValidates ==
  ASSUME IInv, [Next]_vars, IInv'
  PROVE  [Validator!Next]_<<doc, index, OpenNames, sequence > 0, Verdict>>
  <1>1. sequence \in Nat
    BY DEF IInv, TypeOK
  <1>2. ASSUME UNCHANGED active_tags PROVE UNCHANGED OpenNames
    BY <1>2 DEF OpenNames, OpenNumbers, NameOf
  <1>3. ASSUME UNCHANGED <<status, sequence>> PROVE UNCHANGED <<Verdict, sequence > 0>>
    BY <1>3 DEF Verdict
  <1>4. CASE Pass
    BY <1>2, <1>3, <1>4, SameTokens DEF Pass, Validator!Pass, Validator!Next
  <1>5. CASE Reject
    <2>1. Verdict' = "invalid" /\ UNCHANGED <<doc, index, sequence > 0, OpenNames>>
      BY <1>2, <1>5 DEF Reject, Verdict
    <2>2. token.k = "close" /\ active_tags_by_name[token.n] = <<>>
            => Validator!MatchesOf(token.n) = {}
      BY <1>5, SameMatches, ScannedToken DEF IInv, Reject, M!TagKinds
    <2>3. Validator!Reject
      BY <1>5, <2>1, <2>2, SameTokens DEF Reject, Validator!Reject
    <2> QED
      BY <2>3 DEF Validator!Next
  <1>6. CASE Close
    <2>1. UNCHANGED <<doc, Verdict, sequence > 0>> /\ index' = index + 1
      BY <1>3, <1>6 DEF Close
    <2>2. Validator!Close
      BY <1>6, <2>1, CloseErasesName, SameTokens DEF Close, Validator!Close
    <2> QED
      BY <2>2 DEF Validator!Next
  <1>7. CASE SelfClose
    <2>1. /\ token.k = "self" /\ Scanning /\ sequence' = sequence + 1
          /\ UNCHANGED <<doc, status, active_tags>> /\ index' = index + 1
      BY <1>7 DEF SelfClose
    <2>2. UNCHANGED <<Verdict, OpenNames>> /\ (sequence > 0)' = TRUE
      BY <1>1, <1>2, <2>1 DEF Verdict, Scanning
    <2>3. Validator!Element
      BY <2>1, <2>2, SameTokens DEF Validator!Element, M!Starts
    <2> QED
      BY <2>3 DEF Validator!Next
  <1>8. CASE Open
    <2>1. /\ token.k = "open" /\ Scanning /\ sequence' = sequence + 1
          /\ UNCHANGED <<doc, status>> /\ index' = index + 1
      BY <1>8 DEF Open
    <2>2. UNCHANGED Verdict /\ (sequence > 0)' = TRUE /\ OpenNames' = Append(OpenNames, token.n)
      BY <1>1, <1>8, <2>1, OpenAppendsName DEF Verdict, Scanning
    <2>3. Validator!Element
      BY <2>1, <2>2, SameTokens DEF Validator!Element, M!Starts
    <2> QED
      BY <2>3 DEF Validator!Next
  <1>9. CASE Finish
    <2>1. /\ status = "running" /\ index = Len(doc)
          /\ UNCHANGED <<doc, index, sequence, active_tags>>
          /\ status' = IF active_tags # {} THEN "nullopt" ELSE "parsed"
      BY <1>9 DEF Finish, LeftOpen
    <2>2. OpenNames = <<>> <=> active_tags = {}
      <3>1. PICK s, names : Names(s, names, active_tags) /\ names = OpenNames
        BY OpenNamesFacts
      <3> QED
        BY <3>1 DEF Names
    <2>3. Verdict = "running"
          /\ Verdict' = IF sequence > 0 /\ OpenNames = <<>> THEN "valid" ELSE "invalid"
      BY <2>1, <2>2 DEF Verdict
    <2>4. Validator!Finish
      BY <1>2, <2>1, <2>3 DEF Validator!Finish
    <2> QED
      BY <2>4 DEF Validator!Next
  <1>10. CASE UNCHANGED vars
    BY <1>2, <1>3, <1>10 DEF vars
  <1> QED
    BY <1>4, <1>5, <1>6, <1>7, <1>8, <1>9, <1>10 DEF Next

(* For every text, the scanner implements the validator: step by step, the *)
(* list in the order of its numbers is the validator's vector, and at the  *)
(* end it parses a text with a tag exactly when the validator accepts it.  *)
(* That both come to an end is left to AgreesWithValidator.                *)
THEOREM ScannerValidates == Spec => Validator!Steps
  <1>1. doc \in Documents /\ Init => Validator!Init
    <2> SUFFICES ASSUME doc \in Documents, Init PROVE Validator!Init
      OBVIOUS
    <2>1. PICK s, names : Names(s, names, active_tags) /\ names = OpenNames
      BY InitIInv, OpenNamesFacts
    <2>2. active_tags = {} /\ index = 0 /\ sequence = 0 /\ status = "running"
      BY DEF Init
    <2>3. OpenNames = <<>>
      BY <2>1, <2>2 DEF Names
    <2> QED
      BY <2>2, <2>3 DEF Validator!Init, Verdict
  <1>2. IInv /\ [Next]_vars => IInv' /\ [Validator!Next]_(Validator!vars)
    BY NextIInv, StepValidates DEF Validator!vars
  <1> QED
    BY <1>1, <1>2, InitIInv, PTL DEF Spec, Validator!Steps

-----------------------------------------------------------------------------
(* The slots.                                                              *)
Words ==
  S!Good \cup S!Bad
    \cup {"Failed", "ValidationFinished", "ValidationFailed", "DoctypeMatched",
          "ClosedTagFlagged", "", "true", "false", "Valid", "xmldecl", "mixed"}

SignalType == Words \X Words

(* The results a slot can come to.                                         *)
Outcomes(slot) ==
  IF slot \in S!GetFileCalls
    THEN {"Parsed", "FileReadFailed", "InvalidXmlFile", "InvalidTagClosure",
          "ParserRejected", "ExceptionThrown"}
  ELSE IF slot = "ValidateInput"
    THEN {"Valid", "InvalidXmlFile", "InvalidTagClosure", "ExceptionThrown"}
  ELSE IF slot = "MatchTopInput" THEN {"xmldecl", "mixed", "InvalidXmlFile"}
  ELSE IF slot = "ParseClosedTag" THEN {"Closed", "NotClosed"}
  ELSE {"Parsed", "ParserRejected"}

(* The slots that have a stage.                                            *)
CallsAt(at) ==
  IF at = "fetch" THEN {"ReadFile", "ParseFileInput"}
  ELSE IF at = "match" THEN S!GetFileCalls \cup {"MatchTopInput"}
  ELSE IF at = "validate" THEN S!GetFileCalls \cup {"ValidateInput"}
  ELSE IF at = "strip" THEN S!GetFileCalls
  ELSE IF at = "parse" THEN S!GetFileCalls \cup {"ParseTag", "ParseFileInput"}
  ELSE IF at = "scan" THEN {"ParseClosedTag"}
  ELSE S!Calls

Working   == {"fetch", "match", "validate", "strip", "parse", "scan"}
Answering == {"emit", "handler", "done"}

Undisturbed == stage = "emit" => signals \o due = S!Answer(call, outcome)

SlotInv ==
  /\ stage \in Working \cup Answering
  /\ call \in S!Calls /\ call \in CallsAt(stage)
  /\ signals \in Seq(SignalType) /\ due \in Seq(SignalType)
  /\ stage \in Working => signals = <<>> /\ due = <<>>
  /\ stage \in Answering =>
       outcome \in Outcomes(call) /\ S!Concludes(signals \o due, outcome)
  /\ Undisturbed
  /\ stage = "done" => due = <<>>

-----------------------------------------------------------------------------
(* Answers of one, two and three signals.                                  *)
Announcement(signal) == signal[1] \notin S!Good \cup S!Bad

Conclusion(signal, result) ==
  /\ signal[1] \in S!Good \cup S!Bad
  /\ signal[1] \in S!Good <=> S!Succeeded(result)

LEMMA OneSignal ==
  ASSUME NEW a \in SignalType, NEW result, Conclusion(a, result)
  PROVE  <<a>> \in Seq(SignalType) /\ S!Concludes(<<a>>, result)
  BY DEF Conclusion, S!Concludes

LEMMA TwoSignals ==
  ASSUME NEW a \in SignalType, NEW b \in SignalType, NEW result,
         Announcement(a), Conclusion(b, result), S!Announces(a, b)
  PROVE  <<a, b>> \in Seq(SignalType) /\ S!Concludes(<<a, b>>, result)
  BY DEF Announcement, Conclusion, S!Concludes

LEMMA ThreeSignals ==
  ASSUME NEW a \in SignalType, NEW b \in SignalType, NEW c \in SignalType, NEW result,
         Announcement(a), Announcement(b), Conclusion(c, result), S!Announces(b, c)
  PROVE  <<a, b, c>> \in Seq(SignalType) /\ S!Concludes(<<a, b, c>>, result)
  BY DEF Announcement, Conclusion, S!Concludes

(* What was announced already does no harm to an answer that announces its *)
(* own conclusion.                                                         *)
LEMMA AnsweredAgain ==
  ASSUME NEW s \in Seq(SignalType), NEW t \in Seq(SignalType), NEW result,
         \A i \in 1..Len(s) : Announcement(s[i]),
         S!Concludes(t, result), s = <<>> \/ Len(t) > 1
  PROVE  S!Concludes(s \o t, result)
  <1> DEFINE all == s \o t
  <1>1. Len(s) \in Nat /\ Len(t) \in Nat \ {0}
    BY DEF S!Concludes
  <1>2. Len(all) = Len(s) + Len(t) /\ DOMAIN all = 1..(Len(s) + Len(t))
    BY <1>1, ConcatProperties, LenProperties
  <1>3. \A i \in 1..Len(s) : all[i] = s[i]
    BY <1>1, ConcatProperties
  <1>4. \A i \in 1..Len(t) : all[Len(s) + i] = t[i]
    BY <1>1, ConcatProperties
  <1>5. DOMAIN t = 1..Len(t)
    BY LenProperties
  <1> HIDE DEF all
  <1>6. all[Len(all)] = t[Len(t)]
    BY <1>1, <1>2, <1>4
  <1>7. ASSUME NEW i \in DOMAIN all
        PROVE  all[i][1] \in S!Good \cup S!Bad <=> i = Len(all)
    <2>1. CASE i \in 1..Len(s)
      BY <1>1, <1>2, <1>3, <2>1 DEF Announcement
    <2>2. CASE i \notin 1..Len(s)
      <3>1. i - Len(s) \in 1..Len(t) /\ i = Len(s) + (i - Len(s))
        BY <1>1, <1>2, <2>2
      <3>2. all[i] = t[i - Len(s)]
        BY <1>4, <3>1
      <3>3. t[i - Len(s)][1] \in S!Good \cup S!Bad <=> i - Len(s) = Len(t)
        BY <1>5, <3>1 DEF S!Concludes
      <3>4. i - Len(s) = Len(t) <=> i = Len(all)
        BY <1>1, <1>2, <3>1
      <3> QED
        BY <3>2, <3>3, <3>4
    <2> QED
      BY <2>1, <2>2
  <1>8. ASSUME Len(all) > 1 PROVE S!Announces(all[Len(all) - 1], all[Len(all)])
    <2>1. Len(t) > 1
      BY <1>1, <1>2, <1>8, EmptySeq
    <2>2. all[Len(all) - 1] = t[Len(t) - 1]
      BY <1>1, <1>2, <1>4, <2>1
    <2> QED
      BY <1>6, <2>1, <2>2 DEF S!Concludes
  <1> QED
    BY <1>1, <1>2, <1>6, <1>7, <1>8 DEF S!Concludes, all

LEMMA EmitKeepsAnswer ==
  ASSUME NEW s \in Seq(SignalType), NEW d \in Seq(SignalType), d # <<>>
  PROVE  /\ Append(s, Head(d)) \in Seq(SignalType) /\ Tail(d) \in Seq(SignalType)
         /\ Append(s, Head(d)) \o Tail(d) = s \o d
  <1>1. Head(d) \in SignalType /\ Tail(d) \in Seq(SignalType) /\ Len(Tail(d)) = Len(d) - 1
    BY HeadTailProperties
  <1>2. Append(s, Head(d)) = s \o <<Head(d)>>
    BY <1>1
  <1>3. <<Head(d)>> \o Tail(d) = d
    BY <1>1
  <1>4. (s \o <<Head(d)>>) \o Tail(d) = s \o (<<Head(d)>> \o Tail(d))
    BY <1>1, ConcatAssociative
  <1> QED
    BY <1>1, <1>2, <1>3, <1>4

-----------------------------------------------------------------------------
(* Every answer is complete.                                               *)
LEMMA AnswerConcludes ==
  ASSUME NEW slot \in S!Calls, NEW result \in Outcomes(slot)
  PROVE  /\ S!Answer(slot, result) \in Seq(SignalType)
         /\ S!Concludes(S!Answer(slot, result), result)
  <1>1. CASE slot \in {"ReadXml", "ReadFile"}
    <2>1. CASE result = "Parsed"
      BY <1>1, <2>1, OneSignal DEF S!Answer, S!ReadFileAnswer, S!Signal, Conclusion,
         SignalType, Words, S!Good, S!Bad, S!Succeeded
    <2>2. CASE result # "Parsed"
      <3>1. result \in {"FileReadFailed", "InvalidXmlFile", "InvalidTagClosure",
                        "ParserRejected", "ExceptionThrown"}
        BY <1>1, <2>2 DEF Outcomes, S!GetFileCalls
      <3>2. S!Answer(slot, result) = <<<<"Failed", result>>, <<result, "">>>>
        BY <1>1, <2>2 DEF S!Answer, S!ReadFileAnswer, S!Signal
      <3> QED
        BY <3>1, <3>2, TwoSignals DEF Announcement, Conclusion, S!Announces,
           SignalType, Words, S!Good, S!Bad, S!Succeeded
    <2> QED
      BY <2>1, <2>2
  <1>2. CASE slot = "ReadString"
    <2>1. CASE result = "Parsed"
      BY <1>2, <2>1, OneSignal DEF S!Answer, S!ReadStringAnswer, S!Signal, Conclusion,
         SignalType, Words, S!Good, S!Bad, S!Succeeded
    <2>2. CASE result # "Parsed"
      <3>1. result \in {"FileReadFailed", "InvalidXmlFile", "InvalidTagClosure",
                        "ParserRejected", "ExceptionThrown"}
        BY <1>2, <2>2 DEF Outcomes, S!GetFileCalls
      <3>2. S!Answer(slot, result) = <<<<"Failed", result>>, <<"ParseFailed", "">>>>
        BY <1>2, <2>2 DEF S!Answer, S!ReadStringAnswer, S!Signal
      <3> QED
        BY <3>1, <3>2, TwoSignals DEF Announcement, Conclusion, S!Announces,
           SignalType, Words, S!Good, S!Bad, S!Succeeded
    <2> QED
      BY <2>1, <2>2
  <1>3. CASE slot \in {"ParseTag", "ParseFileInput"}
    <2>1. result \in {"Parsed", "ParserRejected"}
      BY <1>3 DEF Outcomes, S!GetFileCalls
    <2> QED
      BY <1>3, <2>1, OneSignal DEF S!Answer, S!ParseTagAnswer, S!Signal, Conclusion,
         SignalType, Words, S!Good, S!Bad, S!Succeeded
  <1>4. CASE slot = "ValidateInput"
    <2>1. result \in {"Valid", "InvalidXmlFile", "InvalidTagClosure", "ExceptionThrown"}
      BY <1>4 DEF Outcomes, S!GetFileCalls
    <2>2. CASE result = "Valid"
      <3>1. S!Answer(slot, result) = <<<<"ValidationFinished", result>>, <<"ValidXml", "">>>>
        BY <1>4, <2>2 DEF S!Answer, S!ValidateInputAnswer, S!Signal
      <3> QED
        BY <2>2, <3>1, TwoSignals DEF Announcement, Conclusion, S!Announces,
           SignalType, Words, S!Good, S!Bad, S!Succeeded
    <2>3. CASE result # "Valid"
      <3>1. S!Answer(slot, result) =
              <<<<"ValidationFinished", result>>, <<"ValidationFailed", result>>, <<result, "">>>>
        BY <1>4, <2>3 DEF S!Answer, S!ValidateInputAnswer, S!Signal
      <3> QED
        BY <2>1, <2>3, <3>1, ThreeSignals DEF Announcement, Conclusion, S!Announces,
           SignalType, Words, S!Good, S!Bad, S!Succeeded
    <2> QED
      BY <2>2, <2>3
  <1>5. CASE slot = "MatchTopInput"
    <2>1. result \in {"xmldecl", "mixed", "InvalidXmlFile"}
      BY <1>5 DEF Outcomes, S!GetFileCalls
    <2>2. CASE result = "InvalidXmlFile"
      BY <1>5, <2>2, OneSignal DEF S!Answer, S!MatchTopInputAnswer, S!Signal, Conclusion,
         SignalType, Words, S!Good, S!Bad, S!Succeeded
    <2>3. CASE result = "xmldecl"
      <3>1. S!Answer(slot, result) = <<<<"DoctypeMatched", result>>, <<"XmlDeclarationMatched", "">>>>
        BY <1>5, <2>3 DEF S!Answer, S!MatchTopInputAnswer, S!Signal
      <3> QED
        BY <2>3, <3>1, TwoSignals DEF Announcement, Conclusion, S!Announces,
           SignalType, Words, S!Good, S!Bad, S!Succeeded
    <2>4. CASE result = "mixed"
      <3>1. S!Answer(slot, result) = <<<<"DoctypeMatched", result>>, <<"DoctypeDeclarationMatched", "">>>>
        BY <1>5, <2>4 DEF S!Answer, S!MatchTopInputAnswer, S!Signal
      <3> QED
        BY <2>4, <3>1, TwoSignals DEF Announcement, Conclusion, S!Announces,
           SignalType, Words, S!Good, S!Bad, S!Succeeded
    <2> QED
      BY <2>1, <2>2, <2>3, <2>4
  <1>6. CASE slot = "ParseClosedTag"
    <2>1. result \in {"Closed", "NotClosed"}
      BY <1>6 DEF Outcomes, S!GetFileCalls
    <2> QED
      BY <1>6, <2>1, TwoSignals DEF S!Answer, S!ParseClosedTagAnswer, S!Signal, Announcement,
         Conclusion, S!Announces, SignalType, Words, S!Good, S!Bad, S!Succeeded
  <1> QED
    BY <1>1, <1>2, <1>3, <1>4, <1>5, <1>6 DEF S!Calls, S!GetFileCalls

(* The answer to an exception announces its conclusion, or is given by a   *)
(* slot that converts an argument for its first signal only.               *)
ConvertsFirst(slot) ==
  \A result \in Outcomes(slot) :
    LET answer == S!Answer(slot, result)
    IN  Len(answer) = 1 \/ (Len(answer) = 2 /\ answer[2][1] \notin S!Converted(slot))

LEMMA ExceptionalAnswer ==
  ASSUME NEW slot \in S!Calls
  PROVE  /\ S!Exceptional(slot) \in Outcomes(slot)
         /\ Len(S!Answer(slot, S!Exceptional(slot))) > 1 \/ ConvertsFirst(slot)
  <1>1. CASE slot \in {"ReadXml", "ReadFile"}
    BY <1>1 DEF S!Exceptional, Outcomes, S!GetFileCalls, S!Answer, S!ReadFileAnswer
  <1>2. CASE slot = "ReadString"
    BY <1>2 DEF S!Exceptional, Outcomes, S!GetFileCalls, S!Answer, S!ReadStringAnswer
  <1>3. CASE slot \in {"ParseTag", "ParseFileInput"}
    BY <1>3 DEF S!Exceptional, Outcomes, S!GetFileCalls, S!Answer, S!ParseTagAnswer, ConvertsFirst
  <1>4. CASE slot = "ValidateInput"
    <2>1. S!Exceptional(slot) = "ExceptionThrown"
      BY <1>4 DEF S!Exceptional, S!GetFileCalls
    <2>2. S!Answer(slot, "ExceptionThrown") =
            <<<<"ValidationFinished", "ExceptionThrown">>,
              <<"ValidationFailed", "ExceptionThrown">>, <<"ExceptionThrown", "">>>>
      BY <1>4 DEF S!Answer, S!ValidateInputAnswer, S!Signal
    <2>3. S!Exceptional(slot) \in Outcomes(slot)
      BY <1>4, <2>1 DEF Outcomes, S!GetFileCalls
    <2>4. Len(S!Answer(slot, "ExceptionThrown")) = 3
      <3>1. \A a, b, c : Len(<<a, b, c>>) = 3
        OBVIOUS
      <3> QED
        BY <2>2, <3>1, Zenon
    <2> QED
      BY <2>1, <2>3, <2>4
  <1>5. CASE slot = "MatchTopInput"
    <2>1. S!Exceptional(slot) = "InvalidXmlFile"
      BY <1>5 DEF S!Exceptional, S!GetFileCalls
    <2>2. Outcomes(slot) = {"xmldecl", "mixed", "InvalidXmlFile"}
      BY <1>5 DEF Outcomes, S!GetFileCalls
    <2>3. ConvertsFirst(slot)
      BY <1>5, <2>2 DEF ConvertsFirst, S!Answer, S!MatchTopInputAnswer, S!Signal, S!Converted
    <2> QED
      BY <2>1, <2>2, <2>3
  <1>6. CASE slot = "ParseClosedTag"
    BY <1>6 DEF S!Exceptional, Outcomes, S!GetFileCalls, S!Answer, S!ParseClosedTagAnswer
  <1> QED
    BY <1>1, <1>2, <1>3, <1>4, <1>5, <1>6 DEF S!Calls, S!GetFileCalls

-----------------------------------------------------------------------------
LEMMA InitSlotInv == S!Init => SlotInv
  <1> SUFFICES ASSUME S!Init PROVE SlotInv
    OBVIOUS
  <1>1. stage \in Working /\ call \in CallsAt(stage)
    BY DEF S!Init, S!Calls, S!GetFileCalls, S!FirstStage, Working, CallsAt
  <1>2. stage \notin Answering
    BY <1>1 DEF Working, Answering
  <1>3. call \in S!Calls /\ signals = <<>> /\ due = <<>>
    BY Zenon DEF S!Init, S!Untouched
  <1>4. stage # "emit" /\ stage # "done"
    BY <1>2 DEF Answering
  <1>5. signals \in Seq(SignalType) /\ due \in Seq(SignalType)
    BY <1>3
  <1> QED
    BY <1>1, <1>2, <1>3, <1>4, <1>5, Zenon DEF SlotInv, Undisturbed

(* A stage ends the work with a result, or hands over to another.          *)
LEMMA ConcludeStep ==
  ASSUME SlotInv, stage \in Working, NEW result \in Outcomes(call), S!Conclude(result),
         UNCHANGED <<call, signals>>
  PROVE  SlotInv'
  <1>1. /\ stage' = "emit" /\ outcome' = result /\ due' = S!Answer(call, result)
        /\ signals' = <<>> /\ call' = call /\ call \in S!Calls
    BY DEF SlotInv, S!Conclude
  <1>2. due' \in Seq(SignalType) /\ S!Concludes(due', result)
    BY <1>1, AnswerConcludes
  <1>3. signals' \o due' = due'
    BY <1>1, <1>2, ConcatEmptySeq
  <1> QED
    BY <1>1, <1>2, <1>3 DEF SlotInv, Undisturbed, Working, Answering, CallsAt

LEMMA ProceedStep ==
  ASSUME SlotInv, stage \in Working, stage' \in Working, call \in CallsAt(stage'),
         UNCHANGED <<call, signals, due>>
  PROVE  SlotInv'
  BY DEF SlotInv, Undisturbed, Working, Answering

LEMMA FetchStep == SlotInv /\ S!Fetch => SlotInv'
  <1> SUFFICES ASSUME SlotInv, S!Fetch PROVE SlotInv'
    OBVIOUS
  <1>1. stage \in Working /\ call \in {"ReadFile", "ParseFileInput"}
    BY DEF SlotInv, S!Fetch, CallsAt, Working
  <1>2. ASSUME NEW result \in S!FetchFailures, S!Conclude(result) PROVE SlotInv'
    <2>1. result \in Outcomes(call)
      BY <1>1, <1>2 DEF S!FetchFailures, Outcomes, S!GetFileCalls
    <2> QED
      BY <1>1, <1>2, <2>1, ConcludeStep DEF S!Fetch
  <1>3. CASE S!Proceed(IF call = "ReadFile" THEN "match" ELSE "parse")
    <2>1. stage' \in Working /\ call \in CallsAt(stage')
      BY <1>1, <1>3 DEF S!Proceed, Working, CallsAt, S!GetFileCalls
    <2> QED
      BY <1>1, <1>3, <2>1, ProceedStep DEF S!Fetch, S!Proceed
  <1> QED
    BY <1>2, <1>3 DEF S!Fetch

LEMMA MatchStep == SlotInv /\ S!Match => SlotInv'
  <1> SUFFICES ASSUME SlotInv, S!Match PROVE SlotInv'
    OBVIOUS
  <1>1. stage \in Working /\ call \in S!GetFileCalls \cup {"MatchTopInput"} /\ call \in S!Calls
    BY DEF SlotInv, S!Match, CallsAt, Working
  <1>2. "InvalidXmlFile" \in Outcomes(call) /\ S!Exceptional(call) \in Outcomes(call)
    BY <1>1, ExceptionalAnswer DEF Outcomes
  <1>3. ASSUME NEW result \in Outcomes(call), S!Conclude(result) PROVE SlotInv'
    BY <1>1, <1>3, ConcludeStep DEF S!Match
  <1>4. CASE S!MatchTop(text) /\ call = "MatchTopInput" /\ S!Conclude(text[S!Top(text)].k)
    <2>1. text[S!Top(text)].k \in {"mixed", "xmldecl"}
      BY <1>4 DEF S!MatchTop, S!IsDeclaration
    <2>2. text[S!Top(text)].k \in Outcomes(call)
      BY <1>4, <2>1 DEF Outcomes, S!GetFileCalls
    <2> QED
      BY <1>3, <1>4, <2>2
  <1>5. CASE call # "MatchTopInput" /\ S!Proceed("validate")
    <2>1. stage' \in Working /\ call \in CallsAt(stage')
      BY <1>1, <1>5 DEF S!Proceed, Working, CallsAt
    <2> QED
      BY <1>1, <1>5, <2>1, ProceedStep DEF S!Match, S!Proceed
  <1> QED
    BY <1>2, <1>3, <1>4, <1>5 DEF S!Match

LEMMA ValidateStep == SlotInv /\ S!Validate => SlotInv'
  <1> SUFFICES ASSUME SlotInv, S!Validate PROVE SlotInv'
    OBVIOUS
  <1>1. stage \in Working /\ call \in S!GetFileCalls \cup {"ValidateInput"}
    BY DEF SlotInv, S!Validate, CallsAt, Working
  <1>2. {"InvalidXmlFile", "InvalidTagClosure", "ExceptionThrown"} \subseteq Outcomes(call)
    BY <1>1 DEF Outcomes
  <1>3. ASSUME NEW result \in Outcomes(call), S!Conclude(result) PROVE SlotInv'
    BY <1>1, <1>3, ConcludeStep DEF S!Validate
  <1>4. CASE S!Conclude(S!ValidateResult(text))
               /\ ~(S!ValidateResult(text) = "Valid" /\ call # "ValidateInput")
    <2>1. S!ValidateResult(text) \in {"InvalidXmlFile", "InvalidTagClosure", "Valid"}
      BY DEF S!ValidateResult
    <2>2. "Valid" \in Outcomes("ValidateInput")
      BY DEF Outcomes, S!GetFileCalls
    <2>3. S!ValidateResult(text) \in Outcomes(call)
      BY <1>2, <1>4, <2>1, <2>2
    <2> QED
      BY <1>3, <1>4, <2>3
  <1>5. CASE call # "ValidateInput" /\ S!Proceed("strip")
    <2>1. stage' \in Working /\ call \in CallsAt(stage')
      BY <1>1, <1>5 DEF S!Proceed, Working, CallsAt
    <2> QED
      BY <1>1, <1>5, <2>1, ProceedStep DEF S!Validate, S!Proceed
  <1> QED
    BY <1>2, <1>3, <1>4, <1>5 DEF S!Validate

LEMMA StripStep == SlotInv /\ S!Strip => SlotInv'
  <1> SUFFICES ASSUME SlotInv, S!Strip PROVE SlotInv'
    OBVIOUS
  <1>1. stage \in Working /\ call \in S!GetFileCalls
    BY DEF SlotInv, S!Strip, CallsAt, Working
  <1>2. stage' \in Working /\ call \in CallsAt(stage')
    BY <1>1 DEF S!Strip, Working, CallsAt
  <1> QED
    BY <1>1, <1>2, ProceedStep DEF S!Strip

LEMMA ParseConcludes == SlotInv /\ S!Parse => SlotInv'
  <1> SUFFICES ASSUME SlotInv, S!Parse PROVE SlotInv'
    OBVIOUS
  <1>1. /\ stage \in Working /\ call \in S!Calls
        /\ call \in S!GetFileCalls \cup {"ParseTag", "ParseFileInput"}
    BY DEF SlotInv, S!Parse, CallsAt, Working
  <1>2. {"Parsed", "ParserRejected", S!Exceptional(call)} \subseteq Outcomes(call)
    BY <1>1, ExceptionalAnswer DEF Outcomes
  <1>3. ASSUME NEW result \in Outcomes(call), S!Conclude(result) PROVE SlotInv'
    BY <1>1, <1>3, ConcludeStep DEF S!Parse
  <1> QED
    BY <1>2, <1>3 DEF S!Parse

LEMMA ScanStep == SlotInv /\ S!Scan => SlotInv'
  <1> SUFFICES ASSUME SlotInv, S!Scan PROVE SlotInv'
    OBVIOUS
  <1>1. stage \in Working /\ call = "ParseClosedTag"
    BY DEF SlotInv, S!Scan, CallsAt, Working
  <1>2. {"Closed", "NotClosed"} \subseteq Outcomes(call)
    BY <1>1 DEF Outcomes, S!GetFileCalls
  <1>3. ASSUME NEW result \in Outcomes(call), S!Conclude(result) PROVE SlotInv'
    BY <1>1, <1>3, ConcludeStep DEF S!Scan
  <1> QED
    BY <1>2, <1>3 DEF S!Scan

-----------------------------------------------------------------------------
LEMMA EmitStep == SlotInv /\ S!Emit => SlotInv'
  <1> SUFFICES ASSUME SlotInv, S!Emit PROVE SlotInv'
    OBVIOUS
  <1>1. /\ signals' \in Seq(SignalType) /\ due' \in Seq(SignalType)
        /\ signals' \o due' = signals \o due
    BY EmitKeepsAnswer DEF SlotInv, S!Emit
  <1>2. stage \in {"emit", "handler"} /\ UNCHANGED <<call, stage, outcome>>
    BY DEF S!Emit
  <1> QED
    BY <1>1, <1>2 DEF SlotInv, Undisturbed, Working, Answering

(* The handler answers anew; what was emitted before concluded nothing.    *)
LEMMA ConversionThrowsStep == SlotInv /\ S!ConversionThrows => SlotInv'
  <1> SUFFICES ASSUME SlotInv, S!ConversionThrows PROVE SlotInv'
    OBVIOUS
  <1>1. /\ stage = "emit" /\ due # <<>> /\ Head(due)[1] \in S!Converted(call)
        /\ stage' = "handler" /\ outcome' = S!Exceptional(call)
        /\ due' = S!Answer(call, S!Exceptional(call))
        /\ UNCHANGED <<call, signals>>
    BY DEF S!ConversionThrows
  <1>2. /\ call \in S!Calls /\ signals \in Seq(SignalType) /\ due \in Seq(SignalType)
        /\ outcome \in Outcomes(call)
        /\ S!Concludes(signals \o due, outcome)
        /\ signals \o due = S!Answer(call, outcome)
    BY <1>1 DEF SlotInv, Answering, Undisturbed
  <1>3. outcome' \in Outcomes(call)
    BY <1>1, <1>2, ExceptionalAnswer
  <1>4. due' \in Seq(SignalType) /\ S!Concludes(due', outcome')
    BY <1>1, <1>2, <1>3, AnswerConcludes
  <1>5. /\ Len(signals) \in Nat /\ Len(due) \in Nat \ {0}
        /\ Len(signals \o due) = Len(signals) + Len(due)
        /\ DOMAIN (signals \o due) = 1..(Len(signals) + Len(due))
        /\ \A i \in 1..Len(signals) : (signals \o due)[i] = signals[i]
        /\ (signals \o due)[Len(signals) + 1] = Head(due)
    BY <1>1, <1>2, ConcatProperties, LenProperties
  <1>6. ASSUME NEW i \in 1..Len(signals) PROVE Announcement(signals[i])
    <2>1. i \in DOMAIN (signals \o due) /\ i # Len(signals \o due)
      BY <1>5
    <2>2. (signals \o due)[i][1] \notin S!Good \cup S!Bad
      BY <1>2, <2>1 DEF S!Concludes
    <2> QED
      BY <1>5, <2>2 DEF Announcement
  <1>7. signals = <<>> \/ Len(due') > 1
    <2> SUFFICES ASSUME ConvertsFirst(call), signals # <<>> PROVE FALSE
      BY <1>1, <1>2, ExceptionalAnswer
    <2>1. Len(signals) > 0
      BY <1>2, <1>5, EmptySeq
    <2>2. \/ Len(signals \o due) = 1
          \/ Len(signals \o due) = 2 /\ (signals \o due)[2][1] \notin S!Converted(call)
      BY <1>2 DEF ConvertsFirst
    <2>3. Len(signals \o due) # 1
      BY <1>5, <2>1
    <2>4. Len(signals \o due) = 2 /\ (signals \o due)[2][1] \notin S!Converted(call)
      BY <2>2, <2>3, Zenon
    <2>5. Len(signals) = 1
      <3>1. Len(signals) + Len(due) = 2
        BY <1>5, <2>4, Zenon
      <3>2. Len(signals) \in Nat /\ Len(due) \in Nat \ {0}
        BY <1>5, Zenon
      <3>3. \A m \in Nat, n \in Nat \ {0} : m > 0 /\ m + n = 2 => m = 1
        OBVIOUS
      <3> QED
        BY <2>1, <3>1, <3>2, <3>3, Zenon
    <2>6. (signals \o due)[2] = Head(due)
      BY <1>5, <2>5
    <2> QED
      BY <1>1, <2>4, <2>6, Zenon
  <1>8. S!Concludes(signals' \o due', outcome')
    BY <1>1, <1>2, <1>4, <1>6, <1>7, AnsweredAgain
  <1> QED
    BY <1>1, <1>2, <1>3, <1>4, <1>8 DEF SlotInv, Undisturbed, Working, Answering, CallsAt

LEMMA NextSlotInv == SlotInv /\ [S!Next]_slotVars => SlotInv'
  <1> SUFFICES ASSUME SlotInv, [S!Next]_slotVars PROVE SlotInv'
    OBVIOUS
  <1>1. CASE S!Return
    BY <1>1 DEF S!Return, SlotInv, Undisturbed, Working, Answering, CallsAt
  <1>2. CASE UNCHANGED slotVars
    BY <1>2 DEF slotVars, SlotInv, Undisturbed
  <1> QED
    BY <1>1, <1>2, FetchStep, MatchStep, ValidateStep, StripStep, ParseConcludes, ScanStep,
       EmitStep, ConversionThrowsStep DEF S!Next

-----------------------------------------------------------------------------
(* Where a text begins and where its declarations end.                     *)
LEMMA LeastIs ==
  ASSUME NEW T \in SUBSET Nat, NEW m \in T, \A k \in T : m <= k
  PROVE  S!Sets!Min(T) = m
  <1>1. \A x \in T : (\A y \in T : x <= y) => x = m
    OBVIOUS
  <1> QED
    BY <1>1 DEF S!Sets!Min

LEMMA GreatestIs ==
  ASSUME NEW T \in SUBSET Nat, NEW m \in T, \A k \in T : k <= m
  PROVE  S!Sets!Max(T) = m
  <1>1. \A x \in T : (\A y \in T : x >= y) => x = m
    OBVIOUS
  <1>2. \A y \in T : m >= y
    OBVIOUS
  <1> QED
    BY <1>1, <1>2 DEF S!Sets!Max

LEMMA GreatestNat ==
  ASSUME NEW n \in Nat, NEW T \in SUBSET (0..n), T # {}
  PROVE  \E m \in T : \A k \in T : k <= m
  <1> DEFINE Gaps == {g \in 0..n : n - g \in T}
  <1>1. \A k \in T : n - k \in Gaps
    OBVIOUS
  <1>2. Gaps \in SUBSET Nat /\ Gaps # {}
    <2>1. PICK k \in T : TRUE
      OBVIOUS
    <2>2. n - k \in Gaps
      BY <1>1, <2>1
    <2>3. \A g \in Gaps : g \in Nat
      OBVIOUS
    <2> QED
      BY <2>2, <2>3, Zenon
  <1>3. PICK g \in Gaps : \A h \in Gaps : g <= h
    BY <1>2, LeastNat
  <1>4. n - g \in T /\ g \in 0..n
    OBVIOUS
  <1>5. ASSUME NEW k \in T PROVE k <= n - g
    <2>1. k \in 0..n /\ n - k \in Gaps
      BY <1>1
    <2>2. g <= n - k
      BY <1>3, <2>1
    <2> QED
      BY <1>4, <2>1, <2>2
  <1> QED
    BY <1>4, <1>5

(* The first token behind the blanks, a byte order mark left out.          *)
LEMMA TopFacts ==
  ASSUME NEW A, NEW w \in Seq(A), S!WellSpelled(w)
  PROVE  /\ S!Top(w) \in 1..(Len(w) + 1)
         /\ \A j \in 1..Len(w) : j < S!Top(w) =>
              w[j].k = "space" \/ (j = 1 /\ w[j].s = "bom" /\ w[j].k = "text")
         /\ S!Top(w) <= Len(w) =>
              /\ w[S!Top(w)].k # "space"
              /\ S!Top(w) > 1 \/ w[S!Top(w)].s # "bom"
  <1> DEFINE Firsts == {i \in S!Ink(w) : i > 1 \/ w[i].s # "bom"} \cup {Len(w) + 1}
  <1>1. Len(w) \in Nat /\ DOMAIN w = 1..Len(w)
    OBVIOUS
  <1>2. Firsts \in SUBSET Nat /\ Firsts # {}
    BY <1>1 DEF S!Ink
  <1>3. PICK m \in Firsts : \A k \in Firsts : m <= k
    BY <1>2, LeastNat
  <1>4. S!Top(w) = m
    BY <1>2, <1>3, LeastIs DEF S!Top
  <1>5. m \in 1..(Len(w) + 1)
    BY <1>1, <1>3 DEF S!Ink
  <1>6. ASSUME NEW j \in 1..Len(w), j < m
        PROVE  w[j].k = "space" \/ (j = 1 /\ w[j].s = "bom" /\ w[j].k = "text")
    <2>1. j \notin Firsts
      BY <1>1, <1>3, <1>5, <1>6
    <2>2. w[j].k = "space" \/ (j = 1 /\ w[j].s = "bom")
      BY <1>1, <2>1 DEF S!Ink
    <2> QED
      BY <1>1, <2>2 DEF S!WellSpelled
  <1>7. m <= Len(w) => w[m].k # "space" /\ (m > 1 \/ w[m].s # "bom")
    BY <1>1, <1>3 DEF S!Ink
  <1> QED
    BY <1>4, <1>5, <1>6, <1>7

Behind(n) == SubSeq(text, n + 1, Len(text))

Spelled == text \in Documents /\ S!WellSpelled(text)

LEMMA BehindFacts ==
  ASSUME Spelled, NEW n \in 0..Len(text)
  PROVE  /\ Behind(n) \in Seq(M!Token(TagNames)) /\ S!WellSpelled(Behind(n))
         /\ Len(Behind(n)) = Len(text) - n
         /\ \A j \in 1..(Len(text) - n) : Behind(n)[j] = text[n + j]
  <1>1. /\ text \in Seq(M!Token(TagNames)) /\ Len(text) \in Nat /\ n \in Nat
        /\ n <= Len(text) /\ DOMAIN text = 1..Len(text)
    BY DEF Spelled, Documents
  <1>2. /\ Behind(n) \in Seq(M!Token(TagNames))
        /\ Len(Behind(n)) = Len(text) - n
        /\ \A j \in 1..(Len(text) - n) : Behind(n)[j] = text[n + j]
    BY <1>1, SliceFacts DEF Behind
  <1>3. DOMAIN Behind(n) = 1..(Len(text) - n)
    BY <1>2
  <1>4. \A j \in 1..(Len(text) - n) : n + j \in DOMAIN text
    BY <1>1
  <1>5. S!WellSpelled(Behind(n))
    BY <1>2, <1>3, <1>4 DEF S!WellSpelled, Spelled
  <1> QED
    BY <1>2, <1>5

(* Cutting off one declaration more.                                       *)
LEMMA StripsOn ==
  ASSUME Spelled, NEW n \in 0..Len(text), S!EndsDeclarations(n), S!MatchTop(Behind(n))
  PROVE  \E m \in 0..Len(text) :
           /\ n < m /\ S!EndsDeclarations(m)
           /\ S!AfterDeclaration(Behind(n)) = Behind(m)
           /\ m = n + S!Top(Behind(n))
  <1>1. PICK w : w = Behind(n)
    OBVIOUS
  <1>2. PICK top \in Nat : top = S!Top(w) /\ top \in 1..Len(w)
    BY <1>1, BehindFacts, TopFacts DEF S!MatchTop
  <1>3. PICK size \in Nat : size = Len(text) /\ n \in 0..size /\ Len(w) = size - n
    BY <1>1, BehindFacts DEF Spelled, Documents
  <1>4. \A j \in 1..(size - n) : w[j] = text[n + j]
    BY <1>1, <1>3, BehindFacts
  <1>5. n + top \in 0..size /\ n < n + top
    BY <1>2, <1>3
  <1>6. S!IsDeclaration(text[n + top])
    BY <1>1, <1>2, <1>3, <1>4 DEF S!MatchTop
  <1>7. ASSUME NEW i \in 1..(n + top)
        PROVE  \/ S!IsDeclaration(text[i]) \/ text[i].k = "space"
               \/ text[i].s = "bom" /\ (i > 1 => S!IsDeclaration(text[i - 1]))
    <2>1. CASE i <= n
      BY <1>3, <2>1 DEF S!EndsDeclarations
    <2>2. CASE i > n
      <3>1. PICK j \in 1..top : i = n + j
        <4>1. i - n \in 1..top /\ i = n + (i - n)
          BY <1>2, <1>3, <2>2
        <4> QED
          BY <4>1
      <3>2. text[i] = w[j] /\ j \in 1..Len(w)
        BY <1>2, <1>3, <1>4, <3>1
      <3>3. CASE j = top
        BY <1>6, <3>1, <3>3
      <3>4. CASE j # top
        <4>1. w[j].k = "space" \/ (j = 1 /\ w[j].s = "bom" /\ w[j].k = "text")
          BY <1>1, <1>2, <3>1, <3>2, <3>4, BehindFacts, TopFacts
        <4>2. CASE j = 1
          <5>1. i > 1 => n > 0 /\ i - 1 = n
            BY <1>3, <3>1, <4>2
          <5>2. n > 0 => S!IsDeclaration(text[n])
            BY DEF S!EndsDeclarations
          <5> QED
            BY <3>2, <4>1, <5>1, <5>2
        <4> QED
          BY <3>2, <4>1, <4>2
      <3> QED
        BY <3>3, <3>4
    <2> QED
      BY <1>3, <2>1, <2>2
  <1>8. S!EndsDeclarations(n + top)
    BY <1>5, <1>6, <1>7 DEF S!EndsDeclarations
  <1>9. S!AfterDeclaration(w) = Behind(n + top)
    <2>1. S!AfterDeclaration(w) = SubSeq(w, top + 1, Len(w))
      BY <1>2 DEF S!AfterDeclaration
    <2>2. /\ SubSeq(w, top + 1, Len(w)) \in Seq(M!Token(TagNames))
          /\ Len(SubSeq(w, top + 1, Len(w))) = Len(w) - top
          /\ \A j \in 1..(Len(w) - top) : SubSeq(w, top + 1, Len(w))[j] = w[top + j]
      <3>1. w \in Seq(M!Token(TagNames)) /\ Len(w) \in Nat /\ top <= Len(w)
        BY <1>1, <1>2, BehindFacts
      <3> QED
        BY <3>1, SliceFacts
    <2>3. /\ Behind(n + top) \in Seq(M!Token(TagNames))
          /\ Len(Behind(n + top)) = size - (n + top)
          /\ \A j \in 1..(size - (n + top)) : Behind(n + top)[j] = text[(n + top) + j]
      BY <1>3, <1>5, BehindFacts
    <2>4. \A j \in 1..(size - (n + top)) : w[top + j] = text[(n + top) + j]
      <3> TAKE j \in 1..(size - (n + top))
      <3>1. top + j \in 1..(size - n) /\ n + (top + j) = (n + top) + j
        BY <1>3, <1>5
      <3> QED
        BY <1>4, <3>1
    <2>5. Len(w) - top = size - (n + top)
      BY <1>3
    <2>6. PICK x, y : x = SubSeq(w, top + 1, Len(w)) /\ y = Behind(n + top)
      OBVIOUS
    <2>7. /\ x \in Seq(M!Token(TagNames)) /\ y \in Seq(M!Token(TagNames))
          /\ Len(x) = Len(y) /\ \A j \in 1..Len(x) : x[j] = y[j]
      BY <2>2, <2>3, <2>4, <2>5, <2>6
    <2>8. x = y
      BY <2>7, SeqEqual
    <2> QED
      BY <2>1, <2>6, <2>8
  <1> QED
    BY <1>1, <1>2, <1>3, <1>5, <1>8, <1>9

(* Where there is nothing to cut off, the declarations have ended.         *)
LEMMA StripsAll ==
  ASSUME Spelled, NEW n \in 0..Len(text), S!EndsDeclarations(n), ~S!MatchTop(Behind(n))
  PROVE  S!Declared = n
  <1>1. PICK w : w = Behind(n)
    OBVIOUS
  <1>2. PICK size \in Nat : size = Len(text) /\ n \in 0..size /\ Len(w) = size - n
    BY <1>1, BehindFacts DEF Spelled, Documents
  <1>3. \A j \in 1..(size - n) : w[j] = text[n + j]
    BY <1>1, <1>2, BehindFacts
  <1>4. /\ S!Top(w) \in 1..(Len(w) + 1)
        /\ \A j \in 1..Len(w) : j < S!Top(w) =>
             w[j].k = "space" \/ (j = 1 /\ w[j].s = "bom" /\ w[j].k = "text")
        /\ S!Top(w) <= Len(w) =>
             w[S!Top(w)].k # "space" /\ (S!Top(w) > 1 \/ w[S!Top(w)].s # "bom")
    BY <1>1, BehindFacts, TopFacts
  <1>5. PICK top \in Nat : top = S!Top(w)
    BY <1>2, <1>4
  <1>6. \A t : S!IsDeclaration(t) => t.k # "space" /\ t.k # "text"
    BY DEF S!IsDeclaration
  <1>7. ASSUME NEW m \in 0..size, S!EndsDeclarations(m), m > n PROVE FALSE
    <2>1. m > 0 /\ S!IsDeclaration(text[m])
      BY <1>2, <1>7 DEF S!EndsDeclarations
    <2>2. PICK j \in 1..(size - n) : m = n + j
      <3>1. m - n \in 1..(size - n) /\ m = n + (m - n)
        BY <1>2, <1>7
      <3> QED
        BY <3>1
    <2>3. j \in 1..Len(w) /\ S!IsDeclaration(w[j])
      BY <1>2, <1>3, <2>1, <2>2
    <2>4. top <= j
      BY <1>2, <1>4, <1>5, <1>6, <2>3
    <2>5. top \in 1..Len(w) /\ ~S!IsDeclaration(w[top])
      BY <1>1, <1>2, <1>4, <1>5, <2>3, <2>4 DEF S!MatchTop
    <2>6. PICK i \in 1..m : i = n + top
      BY <1>2, <2>2, <2>4, <2>5
    <2>7. text[i] = w[top]
      BY <1>2, <1>3, <2>5, <2>6
    <2>8. text[i].s = "bom" /\ (i > 1 => S!IsDeclaration(text[i - 1]))
      <3>1. \/ S!IsDeclaration(text[i]) \/ text[i].k = "space"
            \/ text[i].s = "bom" /\ (i > 1 => S!IsDeclaration(text[i - 1]))
        BY <1>7, <2>6 DEF S!EndsDeclarations
      <3> QED
        BY <1>4, <1>5, <2>5, <2>7, <3>1
    <2>9. top > 1
      BY <1>4, <1>5, <2>5, <2>7, <2>8
    <2>10. PICK p \in 1..Len(w) : p = top - 1 /\ i - 1 = n + p /\ i > 1
      BY <1>2, <2>5, <2>6, <2>9
    <2>11. S!IsDeclaration(w[p])
      BY <1>2, <1>3, <2>8, <2>10
    <2> QED
      BY <1>4, <1>5, <1>6, <2>9, <2>10, <2>11
  <1> DEFINE Ends == {m \in 0..Len(text) : S!EndsDeclarations(m)}
  <1>8. Ends \in SUBSET Nat /\ n \in Ends /\ \A m \in Ends : m <= n
    BY <1>2, <1>7
  <1>9. S!Declared = S!Sets!Max(Ends)
    BY DEF S!Declared
  <1> HIDE DEF Ends
  <1> QED
    BY <1>8, <1>9, GreatestIs

LEMMA DeclaredFacts ==
  ASSUME Spelled
  PROVE  /\ S!Declared \in 0..Len(text) /\ S!EndsDeclarations(S!Declared)
         /\ \A n \in 0..Len(text) : S!EndsDeclarations(n) => n <= S!Declared
  <1> DEFINE Ends == {m \in 0..Len(text) : S!EndsDeclarations(m)}
  <1>1. PICK size \in Nat : size = Len(text)
    BY DEF Spelled, Documents
  <1>2. S!EndsDeclarations(0)
    BY DEF S!EndsDeclarations
  <1>3. Ends \in SUBSET (0..size) /\ Ends # {} /\ Ends \in SUBSET Nat
    BY <1>1, <1>2
  <1>4. PICK m \in Ends : \A k \in Ends : k <= m
    BY <1>3, GreatestNat
  <1>5. S!Declared = m
    <2>1. S!Declared = S!Sets!Max(Ends)
      BY DEF S!Declared
    <2> HIDE DEF Ends
    <2> QED
      BY <1>3, <1>4, <2>1, GreatestIs
  <1> QED
    BY <1>4, <1>5

(* A text is declared when one declaration at least can be cut off.        *)
LEMMA DeclaredText ==
  ASSUME Spelled
  PROVE  S!MatchTop(text) <=> S!Declared > 0
  <1>1. Behind(0) = text /\ 0 \in 0..Len(text) /\ Len(text) \in Nat
    BY WholeSlice DEF Behind, Spelled, Documents
  <1>2. S!EndsDeclarations(0)
    BY DEF S!EndsDeclarations
  <1>3. ~S!MatchTop(text) => S!Declared = 0
    BY <1>1, <1>2, StripsAll
  <1>4. S!MatchTop(text) =>
          \E m \in 0..Len(text) : 0 < m /\ S!EndsDeclarations(m)
    BY <1>1, <1>2, StripsOn
  <1> QED
    BY <1>1, <1>3, <1>4, DeclaredFacts

-----------------------------------------------------------------------------
(* A text without the blanks around it.                                    *)
LEMMA TrimFacts ==
  ASSUME NEW A, NEW w \in Seq(A)
  PROVE  /\ S!TrimOuter(w) \in Seq(A)
         /\ \E k \in 0..Len(w) :
              LET size == Len(S!TrimOuter(w))
              IN  /\ k + size <= Len(w)
                  /\ \A j \in 1..size : S!TrimOuter(w)[j] = w[k + j]
                  /\ \A j \in 1..Len(w) : j <= k \/ j > k + size => w[j].k = "space"
                  /\ size > 0 => w[k + 1].k # "space"
  <1>1. PICK n \in Nat : n = Len(w) /\ DOMAIN w = 1..n
    OBVIOUS
  <1>2. S!Ink(w) = {i \in 1..n : w[i].k # "space"}
    BY <1>1 DEF S!Ink
  <1>3. CASE S!Ink(w) = {}
    <2>1. S!TrimOuter(w) = <<>>
      BY <1>3 DEF S!TrimOuter
    <2>2. \A j \in 1..n : w[j].k = "space"
      BY <1>2, <1>3
    <2>3. 0 \in 0..Len(w) /\ Len(<<>>) = 0 /\ <<>> \in Seq(A)
      BY <1>1
    <2> QED
      BY <1>1, <2>1, <2>2, <2>3
  <1>4. CASE S!Ink(w) # {}
    <2>1. S!Ink(w) \in SUBSET Nat /\ S!Ink(w) \in SUBSET (0..n)
      BY <1>1, <1>2
    <2>2. PICK lo \in S!Ink(w) : \A i \in S!Ink(w) : lo <= i
      BY <1>4, <2>1, LeastNat
    <2>3. PICK hi \in S!Ink(w) : \A i \in S!Ink(w) : i <= hi
      BY <1>1, <1>4, <2>1, GreatestNat
    <2>4. S!Sets!Min(S!Ink(w)) = lo /\ S!Sets!Max(S!Ink(w)) = hi
      BY <2>1, <2>2, <2>3, LeastIs, GreatestIs
    <2>5. lo \in 1..n /\ hi \in 1..n /\ lo <= hi /\ w[lo].k # "space"
      BY <1>1, <1>2, <2>2, <2>3
    <2>6. PICK k \in Nat : lo = k + 1 /\ k < hi
      <3>1. lo - 1 \in Nat /\ lo = (lo - 1) + 1 /\ lo - 1 < hi
        BY <1>1, <2>5
      <3> QED
        BY <3>1
    <2>7. PICK x : x = S!TrimOuter(w)
      OBVIOUS
    <2>8. x = SubSeq(w, k + 1, hi)
      BY <1>4, <2>4, <2>6, <2>7 DEF S!TrimOuter
    <2>9. x \in Seq(A) /\ Len(x) = hi - k /\ \A j \in 1..(hi - k) : x[j] = w[k + j]
      <3>1. hi \in Nat /\ k <= hi /\ hi <= Len(w)
        BY <1>1, <2>5, <2>6
      <3> QED
        BY <2>8, <3>1, SliceFacts
    <2>10. ASSUME NEW j \in 1..n, j <= k \/ j > hi PROVE w[j].k = "space"
      <3>1. j \notin S!Ink(w)
        BY <1>1, <2>2, <2>3, <2>5, <2>6, <2>10
      <3> QED
        BY <1>2, <3>1
    <2>11. k \in 0..Len(w) /\ k + (hi - k) = hi /\ hi <= Len(w)
      BY <1>1, <2>5, <2>6
    <2>12. w[k + 1].k # "space"
      BY <2>5, <2>6
    <2>13. /\ k + Len(x) <= Len(w)
           /\ \A j \in 1..Len(x) : x[j] = w[k + j]
           /\ \A j \in 1..Len(w) : j <= k \/ j > k + Len(x) => w[j].k = "space"
      BY <1>1, <2>9, <2>10, <2>11
    <2> QED
      BY <2>7, <2>9, <2>11, <2>12, <2>13
  <1> QED
    BY <1>3, <1>4

(* The parser accepts no text that begins with a declaration: cutting off  *)
(* declarations too early never passes for a success.                      *)
LEMMA DeclarationIsNoTag ==
  ASSUME NEW A, NEW w \in Seq(A), S!WellSpelled(w), S!MatchTop(w)
  PROVE  S!ParseResult(w) = S!NoValue
  <1>1. PICK x : x = S!TrimOuter(w)
    OBVIOUS
  <1>2. /\ x \in Seq(A)
        /\ \E k \in 0..Len(w) :
             /\ k + Len(x) <= Len(w)
             /\ \A j \in 1..Len(x) : x[j] = w[k + j]
             /\ \A j \in 1..Len(w) : j <= k \/ j > k + Len(x) => w[j].k = "space"
             /\ Len(x) > 0 => w[k + 1].k # "space"
    BY <1>1, TrimFacts
  <1>3. PICK k \in 0..Len(w) :
          /\ k + Len(x) <= Len(w)
          /\ \A j \in 1..Len(x) : x[j] = w[k + j]
          /\ \A j \in 1..Len(w) : j <= k \/ j > k + Len(x) => w[j].k = "space"
          /\ Len(x) > 0 => w[k + 1].k # "space"
    BY <1>2
  <1>4. PICK n \in Nat, m \in Nat : n = Len(w) /\ m = Len(x) /\ k \in 0..n /\ k + m <= n
    BY <1>2, <1>3
  <1>5. PICK top \in Nat : top = S!Top(w) /\ top \in 1..n /\ S!IsDeclaration(w[top])
    BY <1>4, TopFacts DEF S!MatchTop
  <1>6. ASSUME m >= 2 PROVE ~S!OpensTag(x[1])
    <2>1. x[1] = w[k + 1] /\ w[k + 1].k # "space" /\ k + 1 \in 1..n
      BY <1>3, <1>4, <1>6
    <2>2. w[top].k # "space"
      BY <1>5 DEF S!IsDeclaration
    <2>3. k < top
      BY <1>3, <1>4, <1>5, <2>2
    <2>4. CASE top = k + 1
      BY <1>5, <2>1, <2>4 DEF S!IsDeclaration, S!OpensTag
    <2>5. CASE top # k + 1
      <3>1. k + 1 < top
        BY <1>4, <1>5, <2>3, <2>5
      <3>2. w[k + 1].k = "text"
        BY <1>4, <1>5, <2>1, <3>1, TopFacts
      <3> QED
        BY <2>1, <3>2 DEF S!OpensTag
    <2> QED
      BY <2>4, <2>5
  <1>7. ~(m < 2) => m >= 2
    BY <1>4
  <1> QED
    BY <1>1, <1>4, <1>6, <1>7 DEF S!ParseResult

-----------------------------------------------------------------------------
(* Whether a text is balanced is decided by its tags alone.                *)
LEMMA SameMarkup ==
  /\ \A d : S!M!Balanced(d) <=> M!Balanced(d)
  /\ \A d, i : S!M!ClosingOf(d, i) = M!ClosingOf(d, i)
  /\ \A t : S!M!Starts(t) <=> M!Starts(t)
  BY DEF S!M!Balanced, M!Balanced, S!M!Opened, M!Opened, S!M!Closed, M!Closed,
         S!M!Refused, M!Refused, S!M!NamesOf, M!NamesOf, S!M!Cardinality, M!Cardinality,
         S!M!TagKinds, M!TagKinds, S!M!ClosingOf, M!ClosingOf, S!M!Sets!Min, M!Sets!Min,
         S!M!Starts, M!Starts

LEMMA NothingCounted ==
  ASSUME NEW d, NEW name, NEW a \in Nat, NEW b \in Nat, a <= b,
         \A j \in (a + 1)..b : M!Passed(d[j])
  PROVE  /\ M!Opened(d, name, b) = M!Opened(d, name, a)
         /\ M!Closed(d, name, b) = M!Closed(d, name, a)
  <1>1. \A t : M!Passed(t) => t.k # "open" /\ t.k # "close"
    BY DEF M!Passed
  <1>2. ASSUME NEW j \in 1..b, d[j].k = "open" \/ d[j].k = "close" PROVE j \in 1..a
    BY <1>1, <1>2
  <1>3. \A j \in 1..a : j \in 1..b
    OBVIOUS
  <1>4. /\ {j \in 1..b : d[j].k = "open" /\ d[j].n = name}
             = {j \in 1..a : d[j].k = "open" /\ d[j].n = name}
        /\ {j \in 1..b : d[j].k = "close" /\ d[j].n = name}
             = {j \in 1..a : d[j].k = "close" /\ d[j].n = name}
    BY <1>2, <1>3, Zenon
  <1> QED
    BY <1>4, Zenon DEF M!Opened, M!Closed

LEMMA NothingYet ==
  ASSUME NEW d, NEW name
  PROVE  M!Opened(d, name, 0) = 0 /\ M!Closed(d, name, 0) = 0
  <1>1. /\ {j \in 1..0 : d[j].k = "open" /\ d[j].n = name} = {}
        /\ {j \in 1..0 : d[j].k = "close" /\ d[j].n = name} = {}
    OBVIOUS
  <1> QED
    BY <1>1, SameCardinality, FS_EmptySet, Zenon DEF M!Opened, M!Closed

(* The first n tokens of e are those of d behind the k-th.                 *)
Lies(e, n, d, k) == \A j \in 1..n : e[j] = d[k + j]

LEMMA CountedAlike ==
  ASSUME NEW d, NEW e, NEW name, NEW k \in Nat, NEW n \in Nat,
         Lies(e, n, d, k), \A j \in 1..k : M!Passed(d[j])
  PROVE  \A i \in 0..n : /\ M!Opened(e, name, i) = M!Opened(d, name, k + i)
                         /\ M!Closed(e, name, i) = M!Closed(d, name, k + i)
  <1> DEFINE Wrong == {i \in 0..n :
                         ~(/\ M!Opened(e, name, i) = M!Opened(d, name, k + i)
                           /\ M!Closed(e, name, i) = M!Closed(d, name, k + i))}
  <1> SUFFICES ASSUME Wrong # {} PROVE FALSE
    OBVIOUS
  <1>1. Wrong \in SUBSET Nat
    OBVIOUS
  <1>2. PICK i \in Wrong : \A h \in Wrong : i <= h
    BY <1>1, LeastNat
  <1>3. i \in 0..n
    OBVIOUS
  <1>4. i # 0
    <2>1. /\ M!Opened(d, name, k) = M!Opened(d, name, 0)
          /\ M!Closed(d, name, k) = M!Closed(d, name, 0)
      <3>1. 0 \in Nat /\ 0 <= k /\ (0 + 1)..k = 1..k
        OBVIOUS
      <3> QED
        BY <3>1, NothingCounted
    <2>2. k + 0 = k
      OBVIOUS
    <2>3. 0 \notin Wrong
      BY <2>1, <2>2, NothingYet
    <2> QED
      BY <2>3
  <1>5. PICK h \in 0..n : i = h + 1 /\ h \in Nat /\ k + h \in Nat /\ k + i = (k + h) + 1
    <2>1. i - 1 \in 0..n /\ i = (i - 1) + 1 /\ k + (i - 1) \in Nat /\ k + i = (k + (i - 1)) + 1
      BY <1>3, <1>4
    <2> QED
      BY <2>1
  <1>6. h \notin Wrong
    BY <1>2, <1>5
  <1>7. /\ M!Opened(e, name, h) = M!Opened(d, name, k + h)
        /\ M!Closed(e, name, h) = M!Closed(d, name, k + h)
    BY <1>6
  <1>8. e[h + 1] = d[(k + h) + 1]
    <2>1. h + 1 \in 1..n /\ k + (h + 1) = (k + h) + 1
      BY <1>3, <1>5
    <2> QED
      BY <2>1 DEF Lies
  <1>9. /\ M!Opened(e, name, h + 1) = M!Opened(d, name, (k + h) + 1)
        /\ M!Closed(e, name, h + 1) = M!Closed(d, name, (k + h) + 1)
    <2>1. /\ M!Opened(e, name, h + 1) = M!Opened(e, name, h)
               + (IF e[h + 1].k = "open" /\ e[h + 1].n = name THEN 1 ELSE 0)
          /\ M!Closed(e, name, h + 1) = M!Closed(e, name, h)
               + (IF e[h + 1].k = "close" /\ e[h + 1].n = name THEN 1 ELSE 0)
      BY <1>5, CountNext
    <2>2. /\ M!Opened(d, name, (k + h) + 1) = M!Opened(d, name, k + h)
               + (IF d[(k + h) + 1].k = "open" /\ d[(k + h) + 1].n = name THEN 1 ELSE 0)
          /\ M!Closed(d, name, (k + h) + 1) = M!Closed(d, name, k + h)
               + (IF d[(k + h) + 1].k = "close" /\ d[(k + h) + 1].n = name THEN 1 ELSE 0)
      BY <1>5, CountNext
    <2> QED
      BY <1>7, <1>8, <2>1, <2>2, Zenon
  <1> QED
    BY <1>5, <1>9

(* What is at both ends of a text and holds no tag does not matter.        *)
NoTagOutside(d, k, n) ==
  \A j \in 1..Len(d) : j <= k \/ j > k + n => M!Passed(d[j])

LEMMA CoreBalances ==
  ASSUME NEW A, NEW d \in Seq(A), NEW e \in Seq(A), NEW k \in Nat, k + Len(e) <= Len(d),
         Lies(e, Len(e), d, k),
         NoTagOutside(d, k, Len(e))
  PROVE  M!Balanced(e) <=> M!Balanced(d)
  <1>1. PICK n \in Nat, m \in Nat :
          n = Len(e) /\ m = Len(d) /\ k + n <= m /\ DOMAIN e = 1..n /\ DOMAIN d = 1..m
    OBVIOUS
  <1>2. \A j \in 1..n : e[j] = d[k + j] /\ k + j \in 1..m
    BY <1>1 DEF Lies
  <1>3. \A j \in 1..m : j <= k \/ j > k + n => M!Passed(d[j])
    BY <1>1 DEF NoTagOutside
  <1>4. \A j \in 1..m : (j <= k \/ j > k + n) \/ \E i \in 1..n : j = k + i
    <2> TAKE j \in 1..m
    <2> SUFFICES ASSUME j > k, j <= k + n PROVE \E i \in 1..n : j = k + i
      BY <1>1
    <2>1. j - k \in 1..n /\ j = k + (j - k)
      BY <1>1
    <2> QED
      BY <2>1
  <1>5. \A t : M!Passed(t) => ~M!Refused(t) /\ t.k \notin M!TagKinds
    BY DEF M!Passed, M!Refused, M!TagKinds
  <1>6. (\A i \in DOMAIN e : ~M!Refused(e[i])) <=> (\A i \in DOMAIN d : ~M!Refused(d[i]))
    <2>1. ASSUME \A i \in 1..n : ~M!Refused(e[i]), NEW j \in 1..m PROVE ~M!Refused(d[j])
      <3>1. CASE j <= k \/ j > k + n
        BY <1>3, <1>5, <3>1
      <3>2. CASE \E i \in 1..n : j = k + i
        BY <1>2, <2>1, <3>2
      <3> QED
        BY <1>4, <3>1, <3>2, Zenon
    <2>2. ASSUME \A j \in 1..m : ~M!Refused(d[j]), NEW i \in 1..n PROVE ~M!Refused(e[i])
      BY <1>2, <2>2
    <2> QED
      BY <1>1, <2>1, <2>2
  <1>7. M!NamesOf(e) = M!NamesOf(d)
    <2>1. ASSUME NEW i \in 1..n, e[i].k \in M!TagKinds
          PROVE  \E j \in 1..m : d[j].k \in M!TagKinds /\ e[i].n = d[j].n
      BY <1>2, <2>1
    <2>2. ASSUME NEW j \in 1..m, d[j].k \in M!TagKinds
          PROVE  \E i \in 1..n : e[i].k \in M!TagKinds /\ d[j].n = e[i].n
      <3>1. ~(j <= k \/ j > k + n)
        BY <1>3, <1>5, <2>2
      <3>2. PICK i \in 1..n : j = k + i
        BY <1>4, <3>1
      <3> QED
        BY <1>2, <2>2, <3>2
    <2>3. \A name : name \in M!NamesOf(e) <=> \E i \in 1..n : e[i].k \in M!TagKinds /\ name = e[i].n
      BY <1>1 DEF M!NamesOf
    <2>4. \A name : name \in M!NamesOf(d) <=> \E j \in 1..m : d[j].k \in M!TagKinds /\ name = d[j].n
      BY <1>1 DEF M!NamesOf
    <2>5. \A name : name \in M!NamesOf(e) => name \in M!NamesOf(d)
      BY <2>1, <2>3, <2>4, Zenon
    <2>6. \A name : name \in M!NamesOf(d) => name \in M!NamesOf(e)
      BY <2>2, <2>3, <2>4, Zenon
    <2> QED
      BY <2>5, <2>6
  <1>8. ASSUME NEW name
        PROVE  /\ \A i \in 0..n : /\ M!Opened(e, name, i) = M!Opened(d, name, k + i)
                                  /\ M!Closed(e, name, i) = M!Closed(d, name, k + i)
               /\ \A i \in 0..k : M!Opened(d, name, i) = 0 /\ M!Closed(d, name, i) = 0
               /\ \A i \in (k + n)..m : /\ M!Opened(d, name, i) = M!Opened(d, name, k + n)
                                        /\ M!Closed(d, name, i) = M!Closed(d, name, k + n)
    <2>1. \A i \in 0..n : /\ M!Opened(e, name, i) = M!Opened(d, name, k + i)
                          /\ M!Closed(e, name, i) = M!Closed(d, name, k + i)
      <3>1. \A j \in 1..k : M!Passed(d[j])
        BY <1>1, <1>3
      <3>2. Lies(e, n, d, k)
        BY <1>1
      <3> QED
        BY <3>1, <3>2, CountedAlike
    <2>2. ASSUME NEW i \in 0..k PROVE M!Opened(d, name, i) = 0 /\ M!Closed(d, name, i) = 0
      <3>1. 0 \in Nat /\ i \in Nat /\ 0 <= i /\ \A j \in (0 + 1)..i : M!Passed(d[j])
        BY <1>1, <1>3
      <3>2. /\ M!Opened(d, name, i) = M!Opened(d, name, 0)
            /\ M!Closed(d, name, i) = M!Closed(d, name, 0)
        BY <3>1, NothingCounted, Zenon
      <3> QED
        BY <3>2, NothingYet, Zenon
    <2>3. ASSUME NEW i \in (k + n)..m
          PROVE  /\ M!Opened(d, name, i) = M!Opened(d, name, k + n)
                 /\ M!Closed(d, name, i) = M!Closed(d, name, k + n)
      <3>1. PICK a \in Nat : a = k + n
        BY <1>1
      <3>2. i \in Nat /\ a <= i /\ \A j \in (a + 1)..i : M!Passed(d[j])
        BY <1>1, <1>3, <3>1
      <3> QED
        BY <3>1, <3>2, NothingCounted, Zenon
    <2> QED
      BY <2>1, <2>2, <2>3
  <1>9. ASSUME NEW name
        PROVE  /\ (\A i \in DOMAIN e : M!Closed(e, name, i) <= M!Opened(e, name, i))
                    /\ M!Closed(e, name, Len(e)) = M!Opened(e, name, Len(e))
                 <=> (\A i \in DOMAIN d : M!Closed(d, name, i) <= M!Opened(d, name, i))
                       /\ M!Closed(d, name, Len(d)) = M!Opened(d, name, Len(d))
    <2>1. PICK oe, ce, od, cd :
            /\ oe = [i \in 0..n |-> M!Opened(e, name, i)] /\ ce = [i \in 0..n |-> M!Closed(e, name, i)]
            /\ od = [i \in 0..m |-> M!Opened(d, name, i)] /\ cd = [i \in 0..m |-> M!Closed(d, name, i)]
      OBVIOUS
    <2>2. /\ \A i \in 0..n : oe[i] = M!Opened(e, name, i) /\ ce[i] = M!Closed(e, name, i)
          /\ \A i \in 0..m : od[i] = M!Opened(d, name, i) /\ cd[i] = M!Closed(d, name, i)
      BY <2>1
    <2>3. \A i \in 0..m : od[i] \in Nat /\ cd[i] \in Nat
      <3> TAKE i \in 0..m
      <3>1. i \in Nat
        BY <1>1
      <3>2. M!Opened(d, name, i) \in Nat /\ M!Closed(d, name, i) \in Nat
        BY <3>1, CountNext, Zenon
      <3> QED
        BY <2>2, <3>2, Zenon
    <2>4. /\ \A i \in 0..n : k + i \in 0..m
          /\ \A i \in 0..k : i \in 0..m
          /\ k + n \in 0..m
      BY <1>1
    <2>5. /\ \A i \in 0..n : oe[i] = od[k + i] /\ ce[i] = cd[k + i]
          /\ \A i \in 0..k : od[i] = 0 /\ cd[i] = 0
          /\ \A i \in (k + n)..m : od[i] = od[k + n] /\ cd[i] = cd[k + n]
      <3>1. \A i \in (k + n)..m : i \in 0..m
        BY <1>1
      <3> QED
        BY <1>8, <2>2, <2>4, <3>1
    <2>6. ASSUME \A i \in 1..n : ce[i] <= oe[i], ce[n] = oe[n]
          PROVE  (\A i \in 1..m : cd[i] <= od[i]) /\ cd[m] = od[m]
      <3>1. n \in 0..n /\ m \in (k + n)..m
        BY <1>1
      <3>2. cd[k + n] = od[k + n]
        BY <2>5, <2>6, <3>1
      <3>3. cd[m] = od[m]
        BY <2>5, <3>1, <3>2
      <3>4. ASSUME NEW i \in 1..m PROVE cd[i] <= od[i]
        <4>1. CASE i <= k
          <5>1. i \in 0..k
            BY <1>1, <4>1
          <5> QED
            BY <2>5, <5>1
        <4>2. CASE i > k + n
          <5>1. i \in (k + n)..m /\ i \in 0..m
            BY <1>1, <4>2
          <5>2. cd[i] = od[i] /\ cd[i] \in Nat
            BY <2>3, <2>5, <3>2, <5>1
          <5> QED
            BY <5>2
        <4>3. CASE \E h \in 1..n : i = k + h
          <5>1. PICK h \in 1..n : i = k + h
            BY <4>3
          <5>2. h \in 0..n
            BY <1>1
          <5> QED
            BY <2>5, <2>6, <5>1, <5>2
        <4> QED
          BY <1>4, <4>1, <4>2, <4>3
      <3> QED
        BY <3>3, <3>4
    <2>7. ASSUME \A i \in 1..m : cd[i] <= od[i], cd[m] = od[m]
          PROVE  (\A i \in 1..n : ce[i] <= oe[i]) /\ ce[n] = oe[n]
      <3>1. n \in 0..n /\ m \in (k + n)..m
        BY <1>1
      <3>2. ce[n] = oe[n]
        BY <2>5, <2>7, <3>1
      <3>3. ASSUME NEW i \in 1..n PROVE ce[i] <= oe[i]
        <4>1. i \in 0..n /\ k + i \in 1..m
          BY <1>1
        <4> QED
          BY <2>5, <2>7, <4>1
      <3> QED
        BY <3>2, <3>3
    <2>8. /\ (\A i \in DOMAIN e : M!Closed(e, name, i) <= M!Opened(e, name, i))
               <=> \A i \in 1..n : ce[i] <= oe[i]
          /\ M!Closed(e, name, Len(e)) = M!Opened(e, name, Len(e)) <=> ce[n] = oe[n]
      <3>1. (\A i \in 1..n : i \in 0..n) /\ n \in 0..n
        BY <1>1
      <3> QED
        BY <1>1, <2>2, <3>1
    <2>9. /\ (\A i \in DOMAIN d : M!Closed(d, name, i) <= M!Opened(d, name, i))
               <=> \A i \in 1..m : cd[i] <= od[i]
          /\ M!Closed(d, name, Len(d)) = M!Opened(d, name, Len(d)) <=> cd[m] = od[m]
      <3>1. (\A i \in 1..m : i \in 0..m) /\ m \in 0..m
        BY <1>1
      <3> QED
        BY <1>1, <2>2, <3>1
    <2> QED
      BY <2>6, <2>7, <2>8, <2>9, Zenon
  <1> QED
    BY <1>6, <1>7, <1>9, Zenon DEF M!Balanced

(* The body is the text behind the first declaration, without what holds   *)
(* no tag at both of its ends.                                             *)
LEMMA BodyLies ==
  ASSUME Spelled, S!MatchTop(text)
  PROVE  LET all == S!AfterDeclaration(text)
         IN  /\ all \in Seq(M!Token(TagNames)) /\ S!Body \in Seq(M!Token(TagNames))
             /\ \E k \in Nat :
                  /\ k + Len(S!Body) <= Len(all)
                  /\ Lies(S!Body, Len(S!Body), all, k)
                  /\ NoTagOutside(all, k, Len(S!Body))
  <1>1. PICK size \in Nat : size = Len(text)
    BY DEF Spelled, Documents
  <1>2. Behind(0) = text /\ S!EndsDeclarations(0) /\ 0 \in 0..Len(text)
    BY <1>1, WholeSlice DEF Behind, Spelled, Documents, S!EndsDeclarations
  <1>3. PICK m \in 0..size : S!EndsDeclarations(m) /\ S!AfterDeclaration(text) = Behind(m)
    BY <1>1, <1>2, StripsOn
  <1>4. PICK ends \in 0..size :
          ends = S!Declared /\ S!EndsDeclarations(ends) /\ m <= ends
    BY <1>1, <1>3, DeclaredFacts
  <1>5. PICK all : all = Behind(m)
    OBVIOUS
  <1>6. /\ all \in Seq(M!Token(TagNames)) /\ Len(all) = size - m
        /\ \A j \in 1..(size - m) : all[j] = text[m + j]
    BY <1>1, <1>3, <1>5, BehindFacts
  <1>7. PICK w : w = Behind(ends)
    OBVIOUS
  <1>8. /\ w \in Seq(M!Token(TagNames)) /\ Len(w) = size - ends
        /\ \A j \in 1..(size - ends) : w[j] = text[ends + j]
    BY <1>1, <1>4, <1>7, BehindFacts
  <1>9. PICK body : body = S!TrimOuter(w)
    OBVIOUS
  <1>10. S!Body = body
    BY <1>4, <1>7, <1>9 DEF S!Body, Behind
  <1>11. body \in Seq(M!Token(TagNames))
    BY <1>8, <1>9, TrimFacts
  <1>12. PICK length \in Nat : length = Len(body)
    BY <1>11
  <1>13. PICK k \in 0..Len(w) :
           /\ k + length <= Len(w)
           /\ \A j \in 1..length : body[j] = w[k + j]
           /\ \A j \in 1..Len(w) : j <= k \/ j > k + length => w[j].k = "space"
    BY <1>8, <1>9, <1>12, TrimFacts
  <1>14. PICK front \in Nat : front = (ends - m) + k /\ front + length <= size - m
    <2>1. (ends - m) + k \in Nat /\ (ends - m) + k + length <= size - m
      BY <1>3, <1>4, <1>8, <1>13
    <2> QED
      BY <2>1
  <1>15. ASSUME NEW j \in 1..length PROVE body[j] = all[front + j]
    <2>1. /\ k + j \in 1..(size - ends) /\ front + j \in 1..(size - m)
          /\ ends + (k + j) = m + (front + j)
      BY <1>3, <1>4, <1>8, <1>13, <1>14
    <2>2. w[k + j] = text[ends + (k + j)] /\ all[front + j] = text[m + (front + j)]
      BY <1>6, <1>8, <2>1
    <2>3. body[j] = w[k + j]
      BY <1>13
    <2> QED
      BY <2>1, <2>2, <2>3
  <1>16. ASSUME NEW j \in 1..(size - m), j <= front \/ j > front + length PROVE M!Passed(all[j])
    <2>1. all[j] = text[m + j]
      BY <1>6
    <2>2. CASE m + j <= ends
      <3>1. m + j \in 1..ends /\ m + j \in 1..size
        BY <1>3, <1>4, <2>2
      <3>2. \/ S!IsDeclaration(text[m + j]) \/ text[m + j].k = "space"
            \/ text[m + j].s = "bom"
        BY <1>4, <3>1 DEF S!EndsDeclarations
      <3>3. text[m + j].s = "bom" => text[m + j].k = "text"
        <4>1. m + j \in DOMAIN text
          BY <1>1, <3>1 DEF Spelled, Documents
        <4> QED
          BY <4>1, Zenon DEF Spelled, S!WellSpelled
      <3> QED
        BY <2>1, <3>2, <3>3 DEF S!IsDeclaration, M!Passed
    <2>3. CASE m + j > ends
      <3>1. PICK i \in 1..(size - ends) : m + j = ends + i
        <4>1. (m + j) - ends \in 1..(size - ends) /\ m + j = ends + ((m + j) - ends)
          BY <1>3, <1>4, <2>3
        <4> QED
          BY <4>1
      <3>2. i <= k \/ i > k + length
        BY <1>3, <1>4, <1>13, <1>14, <1>16, <3>1
      <3>3. w[i].k = "space"
        BY <1>8, <1>13, <3>1, <3>2
      <3> QED
        BY <1>8, <2>1, <3>1, <3>3 DEF M!Passed
    <2> QED
      BY <1>3, <1>4, <2>2, <2>3
  <1>17. /\ front + Len(body) <= Len(all)
         /\ Lies(body, Len(body), all, front)
         /\ NoTagOutside(all, front, Len(body))
    BY <1>6, <1>12, <1>14, <1>15, <1>16 DEF Lies, NoTagOutside
  <1>18. S!AfterDeclaration(text) = all
    BY <1>3, <1>5
  <1> QED
    BY <1>6, <1>10, <1>11, <1>17, <1>18, Zenon

LEMMA BodyBalances ==
  ASSUME Spelled, S!MatchTop(text)
  PROVE  M!Balanced(S!Body) <=> M!Balanced(S!AfterDeclaration(text))
  <1>1. PICK all, body : all = S!AfterDeclaration(text) /\ body = S!Body
    OBVIOUS
  <1>2. all \in Seq(M!Token(TagNames)) /\ body \in Seq(M!Token(TagNames))
    BY <1>1, BodyLies
  <1>3. PICK k \in Nat : /\ k + Len(body) <= Len(all)
                         /\ Lies(body, Len(body), all, k)
                         /\ NoTagOutside(all, k, Len(body))
    BY <1>1, BodyLies
  <1> QED
    BY <1>1, <1>2, <1>3, CoreBalances

-----------------------------------------------------------------------------
(* Counting from one token to the next.                                    *)
Counts(o, c, d, name, n) ==
  \A i \in 0..n : o[i] = M!Opened(d, name, i) /\ c[i] = M!Closed(d, name, i)

CountsUp(o, c, d, name, n) ==
  \A i \in 0..n : i + 1 <= n =>
    /\ o[i] \in Nat /\ c[i] \in Nat
    /\ o[i + 1] = o[i] + (IF d[i + 1].k = "open" /\ d[i + 1].n = name THEN 1 ELSE 0)
    /\ c[i + 1] = c[i] + (IF d[i + 1].k = "close" /\ d[i + 1].n = name THEN 1 ELSE 0)

LEMMA CountsStep ==
  ASSUME NEW d, NEW name, NEW n \in Nat, NEW o, NEW c,
         Counts(o, c, d, name, n)
  PROVE  CountsUp(o, c, d, name, n)
  <1> SUFFICES ASSUME NEW i \in 0..n, i + 1 <= n
               PROVE  /\ o[i] \in Nat /\ c[i] \in Nat
                      /\ o[i + 1] = o[i] + (IF d[i + 1].k = "open" /\ d[i + 1].n = name THEN 1 ELSE 0)
                      /\ c[i + 1] = c[i] + (IF d[i + 1].k = "close" /\ d[i + 1].n = name THEN 1 ELSE 0)
    BY DEF CountsUp
  <1>1. i \in Nat /\ i + 1 \in 0..n
    OBVIOUS
  <1>2. /\ o[i] = M!Opened(d, name, i) /\ o[i + 1] = M!Opened(d, name, i + 1)
        /\ c[i] = M!Closed(d, name, i) /\ c[i + 1] = M!Closed(d, name, i + 1)
    BY <1>1 DEF Counts
  <1>3. /\ M!Opened(d, name, i) \in Nat /\ M!Closed(d, name, i) \in Nat
        /\ M!Opened(d, name, i + 1) = M!Opened(d, name, i)
             + (IF d[i + 1].k = "open" /\ d[i + 1].n = name THEN 1 ELSE 0)
        /\ M!Closed(d, name, i + 1) = M!Closed(d, name, i)
             + (IF d[i + 1].k = "close" /\ d[i + 1].n = name THEN 1 ELSE 0)
    BY <1>1, CountNext
  <1> QED
    BY <1>2, <1>3, Zenon

(* In a balanced text, every tag that is opened is closed behind it.       *)
LEMMA OpenCloses ==
  ASSUME NEW A, NEW d \in Seq(A), M!Balanced(d),
         NEW f \in 1..Len(d), d[f].k = "open"
  PROVE  /\ M!ClosingOf(d, f) \in (f + 1)..Len(d)
         /\ d[M!ClosingOf(d, f)].k = "close" /\ d[M!ClosingOf(d, f)].n = d[f].n
  <1>1. PICK n \in Nat, b \in Nat : n = Len(d) /\ DOMAIN d = 1..n /\ b = f - 1
    <2>1. Len(d) \in Nat /\ DOMAIN d = 1..Len(d) /\ f - 1 \in Nat
      OBVIOUS
    <2> QED
      BY <2>1
  <1>2. f \in 1..n /\ f = b + 1 /\ b \in 0..n /\ b + 1 <= n
    BY <1>1
  <1>3. PICK name : name = d[f].n
    OBVIOUS
  <1>4. PICK o, c : /\ o = [i \in 0..n |-> M!Opened(d, name, i)]
                    /\ c = [i \in 0..n |-> M!Closed(d, name, i)]
    OBVIOUS
  <1>5. \A i \in 0..n : o[i] = M!Opened(d, name, i) /\ c[i] = M!Closed(d, name, i)
    BY <1>4
  <1>6. Counts(o, c, d, name, n)
    BY <1>5 DEF Counts
  <1>7. CountsUp(o, c, d, name, n)
    BY <1>6, CountsStep
  <1>8. \A i \in 0..n : o[i] \in Nat /\ c[i] \in Nat
    <2>1. \A i \in 0..n : M!Opened(d, name, i) \in Nat /\ M!Closed(d, name, i) \in Nat
      BY CountNext
    <2> QED
      BY <1>5, <2>1
  <1>9. o[f] = o[b] + 1 /\ c[f] = c[b]
    <2>1. /\ o[b + 1] = o[b] + (IF d[b + 1].k = "open" /\ d[b + 1].n = name THEN 1 ELSE 0)
          /\ c[b + 1] = c[b] + (IF d[b + 1].k = "close" /\ d[b + 1].n = name THEN 1 ELSE 0)
      BY <1>2, <1>7 DEF CountsUp
    <2>2. d[b + 1].k = "open" /\ d[b + 1].n = name
      BY <1>2, <1>3
    <2> QED
      BY <1>2, <1>8, <2>1, <2>2
  <1>10. c[b] <= o[b] /\ c[n] = o[n]
    <2>1. name \in M!NamesOf(d)
      BY <1>1, <1>3 DEF M!NamesOf, M!TagKinds
    <2>2. /\ \A i \in 1..n : M!Closed(d, name, i) <= M!Opened(d, name, i)
          /\ M!Closed(d, name, n) = M!Opened(d, name, n)
      BY <1>1, <2>1 DEF M!Balanced
    <2>3. CASE b = 0
      <3>1. o[0] = 0 /\ c[0] = 0
        BY <1>5, NothingYet
      <3> QED
        BY <1>5, <2>2, <2>3, <3>1
    <2>4. CASE b # 0
      <3>1. b \in 1..n /\ n \in 0..n
        BY <1>2, <2>4
      <3> QED
        BY <1>2, <1>5, <2>2, <3>1
    <2> QED
      BY <2>3, <2>4
  <1> DEFINE Even == {j \in f..n : o[j] - o[b] <= c[j] - c[b]}
  <1>11. n \in Even /\ Even \in SUBSET Nat
    BY <1>2, <1>8, <1>10
  <1>12. PICK m \in Even : \A j \in Even : m <= j
    BY <1>11, LeastNat
  <1>13. m # f
    BY <1>2, <1>8, <1>9
  <1>14. PICK h \in f..n : m = h + 1 /\ h \in 0..n /\ h + 1 <= n /\ m \in (f + 1)..n
    <2>1. m - 1 \in f..n /\ m = (m - 1) + 1 /\ m - 1 \in 0..n /\ (m - 1) + 1 <= n
          /\ m \in (f + 1)..n
      BY <1>2, <1>13
    <2> QED
      BY <2>1
  <1>15. ~(o[h] - o[b] <= c[h] - c[b])
    <2>1. h \notin Even
      BY <1>12, <1>14
    <2> QED
      BY <1>14, <2>1
  <1>16. d[m].k = "close" /\ d[m].n = name /\ o[m] - o[b] = c[m] - c[b]
    <2>1. o[h] \in Nat /\ c[h] \in Nat /\ o[b] \in Nat /\ c[b] \in Nat
      BY <1>2, <1>8, <1>14
    <2>2. /\ o[m] = o[h] + (IF d[m].k = "open" /\ d[m].n = name THEN 1 ELSE 0)
          /\ c[m] = c[h] + (IF d[m].k = "close" /\ d[m].n = name THEN 1 ELSE 0)
      BY <1>7, <1>14 DEF CountsUp
    <2>3. o[m] - o[b] <= c[m] - c[b]
      OBVIOUS
    <2> QED
      BY <1>15, <2>1, <2>2, <2>3
  <1> DEFINE Inside(j) == M!Opened(d, name, j) - M!Opened(d, name, f - 1)
             Left(j)   == M!Closed(d, name, j) - M!Closed(d, name, f - 1)
             Closers   == {j \in (f + 1)..Len(d) :
                             d[j].k = "close" /\ d[j].n = name /\ Inside(j) = Left(j)}
  <1>17. m \in Closers
    <2>1. m \in (f + 1)..Len(d) /\ m \in 0..n
      BY <1>1, <1>2, <1>14
    <2>2. Inside(m) = Left(m)
      BY <1>1, <1>2, <1>5, <1>16, <2>1
    <2> QED
      BY <1>16, <2>1, <2>2
  <1>18. M!ClosingOf(d, f) = M!Sets!Min(Closers)
    BY <1>3 DEF M!ClosingOf
  <1>19. /\ Closers \in SUBSET Nat
         /\ \A j \in Closers : j \in (f + 1)..Len(d) /\ d[j].k = "close" /\ d[j].n = name
    BY <1>1
  <1> HIDE DEF Closers
  <1>20. PICK j \in Closers : \A i \in Closers : j <= i
    BY <1>17, <1>19, LeastNat
  <1>21. M!Sets!Min(Closers) \in Closers
    BY <1>20 DEF M!Sets!Min
  <1> QED
    BY <1>3, <1>18, <1>19, <1>21

(* The closing tag of a root is the last tag of the text.                  *)
LEMMA RootCloses ==
  ASSUME NEW A, NEW d \in Seq(A), d # <<>>, d[1].k = "open", M!Balanced(d),
         M!ClosingOf(d, 1) = Len(d)
  PROVE  Len(d) >= 2 /\ d[Len(d)].k = "close" /\ d[Len(d)].n = d[1].n
  <1>1. Len(d) \in Nat /\ 1 \in 1..Len(d)
    BY EmptySeq
  <1>2. Len(d) \in (1 + 1)..Len(d) /\ d[Len(d)].k = "close" /\ d[Len(d)].n = d[1].n
    BY <1>1, OpenCloses
  <1> QED
    BY <1>1, <1>2

(* What the slot is to parse: a declared text with a plain root.           *)
Owed == S!Declared > 0 /\ S!PlainRoot(S!Body)

Approved == S!MatchTop(text) /\ S!HasValidTagClosure(S!AfterDeclaration(text))

LEMMA OwedIsParsed ==
  ASSUME Spelled, Owed
  PROVE  Approved /\ S!ParseResult(Behind(S!Declared)) # S!NoValue
  <1>1. S!MatchTop(text)
    BY DeclaredText DEF Owed
  <1>2. PICK body, all :
          /\ body = S!Body /\ all = S!AfterDeclaration(text)
          /\ body \in Seq(M!Token(TagNames)) /\ all \in Seq(M!Token(TagNames))
    BY <1>1, BodyLies
  <1>3. PICK n \in Nat : n = Len(body) /\ DOMAIN body = 1..n
    BY <1>2
  <1>4. /\ body # <<>> /\ body[1].k = "open" /\ M!Balanced(body)
        /\ M!ClosingOf(body, 1) = Len(body)
        /\ body[1].s \notin {"gt", "colon"} /\ body[Len(body)].s = ""
    BY <1>2, SameMarkup DEF Owed, S!PlainRoot, S!IsRoot
  <1>5. n >= 2
    BY <1>3, <1>2, <1>4, RootCloses
  <1>6. body[n].k = "close" /\ body[n].n = body[1].n /\ body[n].s = ""
    BY <1>3, <1>2, <1>4, RootCloses
  <1>7. Approved
    <2>1. M!Balanced(all)
      BY <1>1, <1>2, <1>4, BodyBalances
    <2>2. PICK k \in Nat : k + n <= Len(all) /\ Lies(body, n, all, k)
      BY <1>3, <1>1, <1>2, BodyLies
    <2>3. k + 1 \in DOMAIN all /\ all[k + 1].k = "open"
      <3>1. k + 1 \in DOMAIN all /\ 1 \in 1..n
        BY <1>2, <1>5, <2>2
      <3>2. all[k + 1] = body[1]
        BY <2>2, <3>1, Zenon DEF Lies
      <3> QED
        BY <1>4, <3>1, <3>2
    <2>4. S!M!Balanced(all) /\ S!M!Starts(all[k + 1])
      BY <2>1, <2>3, SameMarkup DEF M!Starts
    <2> QED
      BY <1>1, <1>2, <2>3, <2>4 DEF Approved, S!HasValidTagClosure
  <1>8. body[1].n # ""
    <2>1. S!Declared \in 0..Len(text)
      BY DeclaredFacts
    <2>2. PICK w : w = Behind(S!Declared)
      OBVIOUS
    <2>3. w \in Seq(M!Token(TagNames)) /\ S!WellSpelled(w)
      BY <2>1, <2>2, BehindFacts
    <2>4. body = S!TrimOuter(w)
      BY <1>2, <2>2 DEF S!Body, Behind
    <2>5. PICK k \in 0..Len(w) : k + n <= Len(w) /\ \A j \in 1..n : body[j] = w[k + j]
      <3>1. PICK k \in 0..Len(w) :
              LET size == Len(S!TrimOuter(w))
              IN  k + size <= Len(w) /\ \A j \in 1..size : S!TrimOuter(w)[j] = w[k + j]
        <4>1. w \in Seq(M!Token(TagNames))
          BY <2>3
        <4> QED
          BY <4>1, TrimFacts
      <3>2. S!TrimOuter(w) = body /\ Len(body) = n
        BY <1>2, <1>3, <2>4
      <3> QED
        BY <3>1, <3>2
    <2>6. k + 1 \in DOMAIN w /\ body[1] = w[k + 1]
      BY <1>5, <2>3, <2>5
    <2> QED
      BY <1>4, <2>3, <2>6 DEF S!WellSpelled, S!M!TagKinds
  <1>9. S!OpensTag(body[1]) /\ S!ClosesTag(body[n], body[1].n)
    BY <1>4, <1>6 DEF S!OpensTag, S!ClosesTag
  <1>10. body = S!TrimOuter(Behind(S!Declared))
    BY <1>2 DEF S!Body, Behind
  <1>11. S!ParseResult(Behind(S!Declared)).TagName = body[1].n
    <2>1. ~(n < 2)
      BY <1>5
    <2> QED
      BY <1>3, <1>2, <1>9, <1>10, <2>1 DEF S!ParseResult
  <1>12. S!NoValue.TagName = ""
    BY DEF S!NoValue
  <1> QED
    BY <1>7, <1>8, <1>11, <1>12

-----------------------------------------------------------------------------
(* What is left to parse is the text behind all its declarations, unless   *)
(* an exception ended the cutting, and then the parser accepts nothing.    *)
Cut == \E n \in 0..Len(text) : S!EndsDeclarations(n) /\ rest = Behind(n)

CutOff == rest = Behind(S!Declared)

TakesRoot == call \in S!GetFileCalls

Taken ==
  /\ outcome = "Parsed" =>
       /\ Approved /\ CutOff
       /\ value = S!ParseResult(rest) /\ value # S!NoValue
  /\ outcome # "Parsed" => faulted \/ ~Owed

RootInv ==
  /\ stage \in {"fetch", "match", "validate"} => rest = text
  /\ stage = "strip" => Approved /\ Cut
  /\ stage = "parse" /\ TakesRoot =>
       Approved /\ (CutOff \/ (faulted /\ S!ParseResult(rest) = S!NoValue))
  /\ stage \in Answering /\ TakesRoot => Taken

LEMMA SameText ==
  ASSUME text' = text
  PROVE  /\ Spelled' <=> Spelled
         /\ Approved' <=> Approved
         /\ Owed' <=> Owed
         /\ rest' = rest => (Cut' <=> Cut) /\ (CutOff' <=> CutOff)
  <1>1. S!Declared' = S!Declared
    BY Zenon DEF S!Declared, S!EndsDeclarations
  <1>2. S!Body' = S!Body
    BY <1>1, Zenon DEF S!Body
  <1> QED
    BY <1>1, <1>2, Zenon DEF Spelled, Approved, Owed, Cut, CutOff, Behind, S!EndsDeclarations

LEMMA ConcludesFailed ==
  ASSUME NEW result, result # "Parsed", S!Conclude(result), text' = text,
         faulted' \/ ~Owed
  PROVE  RootInv'
  <1>1. stage' = "emit" /\ outcome' = result
    BY DEF S!Conclude
  <1>2. faulted' \/ ~Owed'
    BY SameText
  <1> QED
    BY <1>1, <1>2, Zenon DEF RootInv, Taken

LEMMA ConcludesOther ==
  ASSUME NEW result, S!Conclude(result), call' = call, ~TakesRoot
  PROVE  RootInv'
  BY DEF S!Conclude, RootInv, TakesRoot

LEMMA ExceptionIsNoSuccess ==
  TakesRoot => S!Exceptional(call) = "ExceptionThrown"
  BY DEF TakesRoot, S!Exceptional, S!GetFileCalls

LEMMA FetchRoot == Spelled /\ SlotInv /\ RootInv /\ S!Fetch => RootInv'
  <1> SUFFICES ASSUME Spelled, SlotInv, RootInv, S!Fetch PROVE RootInv'
    OBVIOUS
  <1>1. /\ stage = "fetch" /\ rest = text
        /\ UNCHANGED <<text, call, rest, value, signals>>
    BY DEF S!Fetch, RootInv
  <1>2. call \in {"ReadFile", "ParseFileInput"}
    BY <1>1 DEF SlotInv, CallsAt
  <1>3. CASE S!Proceed(IF call = "ReadFile" THEN "match" ELSE "parse")
    <2>1. call = "ReadFile" => stage' = "match"
      BY <1>3 DEF S!Proceed
    <2>2. call # "ReadFile" => stage' = "parse" /\ ~TakesRoot'
      BY <1>1, <1>2, <1>3 DEF S!Proceed, TakesRoot, S!GetFileCalls
    <2> QED
      BY <1>1, <2>1, <2>2 DEF RootInv, Answering
  <1>4. CASE (\E result \in S!FetchFailures : S!Conclude(result)) /\ S!Fault
    <2>1. PICK result \in S!FetchFailures : S!Conclude(result)
      BY <1>4
    <2>2. result # "Parsed"
      BY <2>1 DEF S!FetchFailures
    <2> QED
      BY <1>1, <1>4, <2>1, <2>2, ConcludesFailed DEF S!Fault
  <1> QED
    BY <1>3, <1>4 DEF S!Fetch

LEMMA MatchRoot == Spelled /\ SlotInv /\ RootInv /\ S!Match => RootInv'
  <1> SUFFICES ASSUME Spelled, SlotInv, RootInv, S!Match PROVE RootInv'
    OBVIOUS
  <1>1. /\ stage = "match" /\ rest = text
        /\ UNCHANGED <<text, call, rest, value, signals>>
    BY DEF S!Match, RootInv
  <1>2. CASE S!MatchTop(text) /\ call = "MatchTopInput" /\ S!Conclude(text[S!Top(text)].k)
    <2>1. ~TakesRoot
      BY <1>2 DEF TakesRoot, S!GetFileCalls
    <2> QED
      BY <1>1, <1>2, <2>1, ConcludesOther
  <1>3. CASE S!MatchTop(text) /\ S!Proceed("validate")
    BY <1>1, <1>3 DEF S!Proceed, RootInv, Answering
  <1>4. CASE ~S!MatchTop(text) /\ S!Conclude("InvalidXmlFile")
    <2>1. ~Owed
      BY <1>4, OwedIsParsed DEF Approved
    <2> QED
      BY <1>1, <1>4, <2>1, ConcludesFailed
  <1>5. CASE (S!Conclude("InvalidXmlFile") \/ S!Conclude(S!Exceptional(call))) /\ S!Fault
    <2>1. faulted'
      BY <1>5 DEF S!Fault
    <2>2. CASE S!Conclude("InvalidXmlFile")
      BY <1>1, <2>1, <2>2, ConcludesFailed
    <2>3. CASE S!Conclude(S!Exceptional(call))
      <3>1. CASE TakesRoot
        BY <1>1, <2>1, <2>3, <3>1, ExceptionIsNoSuccess, ConcludesFailed
      <3>2. CASE ~TakesRoot
        BY <1>1, <2>3, <3>2, ConcludesOther
      <3> QED
        BY <3>1, <3>2
    <2> QED
      BY <1>5, <2>2, <2>3
  <1> QED
    BY <1>2, <1>3, <1>4, <1>5 DEF S!Match

LEMMA ValidateRoot == Spelled /\ SlotInv /\ RootInv /\ S!Validate => RootInv'
  <1> SUFFICES ASSUME Spelled, SlotInv, RootInv, S!Validate PROVE RootInv'
    OBVIOUS
  <1>1. /\ stage = "validate" /\ rest = text
        /\ UNCHANGED <<text, call, rest, value, signals>>
    BY DEF S!Validate, RootInv
  <1>2. S!ValidateResult(text) = "Valid" <=> Approved
    BY DEF S!ValidateResult, Approved
  <1>3. CASE S!ValidateResult(text) = "Valid" /\ S!Proceed("strip")
    <2>1. Approved'
      BY <1>1, <1>2, <1>3, SameText
    <2>2. Cut
      <3>1. S!EndsDeclarations(0) /\ 0 \in 0..Len(text) /\ text = Behind(0)
        BY WholeSlice DEF Behind, Spelled, Documents, S!EndsDeclarations
      <3> QED
        BY <1>1, <3>1 DEF Cut
    <2>3. Cut'
      BY <1>1, <2>2, SameText
    <2>4. stage' = "strip"
      BY <1>3 DEF S!Proceed
    <2> QED
      BY <2>1, <2>3, <2>4 DEF RootInv, Answering
  <1>4. CASE S!ValidateResult(text) = "Valid" /\ call = "ValidateInput" /\ S!Conclude("Valid")
    <2>1. ~TakesRoot
      BY <1>4 DEF TakesRoot, S!GetFileCalls
    <2> QED
      BY <1>1, <1>4, <2>1, ConcludesOther
  <1>5. CASE S!ValidateResult(text) # "Valid" /\ S!Conclude(S!ValidateResult(text))
    <2>1. S!ValidateResult(text) # "Parsed"
      BY DEF S!ValidateResult
    <2>2. ~Owed
      BY <1>2, <1>5, OwedIsParsed
    <2> QED
      BY <1>1, <1>5, <2>1, <2>2, ConcludesFailed
  <1>6. CASE /\ \E result \in {"InvalidXmlFile", "InvalidTagClosure", "ExceptionThrown"} :
                  S!Conclude(result)
             /\ S!Fault
    <2>1. PICK result \in {"InvalidXmlFile", "InvalidTagClosure", "ExceptionThrown"} :
            S!Conclude(result)
      BY <1>6
    <2>2. result # "Parsed" /\ faulted'
      BY <1>6, <2>1 DEF S!Fault
    <2> QED
      BY <1>1, <2>1, <2>2, ConcludesFailed
  <1> QED
    BY <1>3, <1>4, <1>5, <1>6 DEF S!Validate

LEMMA StripRoot == Spelled /\ SlotInv /\ RootInv /\ S!Strip => RootInv'
  <1> SUFFICES ASSUME Spelled, SlotInv, RootInv, S!Strip PROVE RootInv'
    OBVIOUS
  <1>1. /\ stage = "strip" /\ Approved /\ Cut
        /\ UNCHANGED <<text, call, value, outcome, due, signals>>
    BY DEF S!Strip, RootInv
  <1>2. PICK n \in 0..Len(text) : S!EndsDeclarations(n) /\ rest = Behind(n)
    BY <1>1 DEF Cut
  <1>3. Approved'
    BY <1>1, SameText
  <1>4. CASE S!MatchTop(rest) /\ rest' = S!AfterDeclaration(rest) /\ UNCHANGED <<stage, faulted>>
    <2>1. PICK m \in 0..Len(text) : S!EndsDeclarations(m) /\ rest' = Behind(m)
      BY <1>2, <1>4, StripsOn
    <2>2. Cut'
      BY <1>1, <2>1, Zenon DEF Cut, Behind, S!EndsDeclarations
    <2> QED
      BY <1>1, <1>3, <1>4, <2>2 DEF RootInv, Answering
  <1>5. CASE ~S!MatchTop(rest) /\ stage' = "parse" /\ UNCHANGED <<rest, faulted>>
    <2>1. CutOff
      BY <1>2, <1>5, StripsAll DEF CutOff
    <2>2. CutOff'
      BY <1>1, <1>5, <2>1, SameText
    <2> QED
      BY <1>3, <1>5, <2>2 DEF RootInv, Answering
  <1>6. CASE S!MatchTop(rest) /\ stage' = "parse" /\ UNCHANGED rest /\ S!Fault
    <2>1. rest \in Seq(M!Token(TagNames)) /\ S!WellSpelled(rest)
      BY <1>2, BehindFacts
    <2>2. S!ParseResult(rest) = S!NoValue
      BY <1>6, <2>1, DeclarationIsNoTag
    <2>3. S!ParseResult(rest') = S!NoValue /\ faulted'
      BY <1>6, <2>2 DEF S!Fault
    <2> QED
      BY <1>3, <1>6, <2>3 DEF RootInv, Answering
  <1> QED
    BY <1>4, <1>5, <1>6 DEF S!Strip

LEMMA ParseRoot == Spelled /\ SlotInv /\ RootInv /\ S!Parse => RootInv'
  <1> SUFFICES ASSUME Spelled, SlotInv, RootInv, S!Parse PROVE RootInv'
    OBVIOUS
  <1>1. stage = "parse" /\ UNCHANGED <<text, call, rest, signals>>
    BY DEF S!Parse
  <1>2. CASE ~TakesRoot
    <2>1. \E result : S!Conclude(result)
      BY DEF S!Parse
    <2> QED
      BY <1>1, <1>2, <2>1, ConcludesOther
  <1>3. CASE TakesRoot
    <2>1. Approved /\ (CutOff \/ (faulted /\ S!ParseResult(rest) = S!NoValue))
      BY <1>1, <1>3 DEF RootInv
    <2>2. CASE S!ParseResult(rest) = S!NoValue /\ S!Conclude("ParserRejected") /\ UNCHANGED faulted
      <3>1. faulted' \/ ~Owed
        BY <2>1, <2>2, OwedIsParsed DEF CutOff
      <3> QED
        BY <1>1, <2>2, <3>1, ConcludesFailed
    <2>3. CASE /\ S!ParseResult(rest) # S!NoValue /\ S!Conclude("Parsed")
               /\ value' = S!ParseResult(rest)
      <3>1. Approved' /\ CutOff'
        BY <1>1, <2>1, <2>3, SameText
      <3>2. value' = S!ParseResult(rest') /\ value' # S!NoValue
        BY <1>1, <2>3
      <3>3. stage' = "emit" /\ outcome' = "Parsed"
        BY <2>3 DEF S!Conclude
      <3> QED
        BY <3>1, <3>2, <3>3 DEF RootInv, Taken
    <2>4. CASE (S!Conclude("ParserRejected") \/ S!Conclude(S!Exceptional(call))) /\ S!Fault
      <3>1. faulted'
        BY <2>4 DEF S!Fault
      <3>2. CASE S!Conclude("ParserRejected")
        BY <1>1, <3>1, <3>2, ConcludesFailed
      <3>3. CASE S!Conclude(S!Exceptional(call))
        BY <1>1, <1>3, <3>1, <3>3, ExceptionIsNoSuccess, ConcludesFailed
      <3> QED
        BY <2>4, <3>2, <3>3
    <2> QED
      BY <2>2, <2>3, <2>4 DEF S!Parse
  <1> QED
    BY <1>2, <1>3

LEMMA AnswerRoot ==
  Spelled /\ SlotInv /\ RootInv /\ (S!Scan \/ S!Emit \/ S!ConversionThrows \/ S!Return) => RootInv'
  <1> SUFFICES ASSUME Spelled, SlotInv, RootInv,
                      S!Scan \/ S!Emit \/ S!ConversionThrows \/ S!Return
               PROVE  RootInv'
    OBVIOUS
  <1>1. CASE S!Scan
    <2>1. stage = "scan" /\ UNCHANGED <<text, call>> /\ \E result : S!Conclude(result)
      BY <1>1 DEF S!Scan
    <2>2. ~TakesRoot
      BY <2>1 DEF SlotInv, CallsAt, TakesRoot, S!GetFileCalls
    <2> QED
      BY <2>1, <2>2, ConcludesOther
  <1>2. CASE S!Emit \/ S!Return
    <2>1. /\ stage \in {"emit", "handler"} /\ stage' \in {"emit", "handler", "done"}
          /\ UNCHANGED <<text, call, rest, value, outcome, faulted>>
      BY <1>2 DEF S!Emit, S!Return
    <2>2. TakesRoot' => TakesRoot
      BY <2>1 DEF TakesRoot
    <2>3. TakesRoot => Taken
      BY <2>1 DEF RootInv, Answering
    <2>4. Taken => Taken'
      BY <2>1, SameText DEF Taken
    <2> QED
      BY <2>1, <2>2, <2>3, <2>4 DEF RootInv
  <1>3. CASE S!ConversionThrows
    <2>1. /\ stage' = "handler" /\ outcome' = S!Exceptional(call) /\ faulted'
          /\ UNCHANGED <<text, call>>
      BY <1>3 DEF S!ConversionThrows, S!Fault
    <2>2. TakesRoot' => outcome' # "Parsed"
      BY <2>1, ExceptionIsNoSuccess DEF TakesRoot
    <2> QED
      BY <2>1, <2>2 DEF RootInv, Taken
  <1> QED
    BY <1>1, <1>2, <1>3

LEMMA NextRootInv == Spelled /\ SlotInv /\ RootInv /\ [S!Next]_slotVars => RootInv'
  <1> SUFFICES ASSUME Spelled, SlotInv, RootInv, [S!Next]_slotVars PROVE RootInv'
    OBVIOUS
  <1>1. CASE UNCHANGED slotVars
    <2>1. UNCHANGED <<text, call, stage, rest, value, outcome, faulted>>
      BY <1>1 DEF slotVars
    <2>2. TakesRoot' <=> TakesRoot
      BY <2>1 DEF TakesRoot
    <2> QED
      BY <2>1, <2>2, SameText DEF RootInv, Taken
  <1> QED
    BY <1>1, FetchRoot, MatchRoot, ValidateRoot, StripRoot, ParseRoot, AnswerRoot DEF S!Next

(* What RootInv makes of an answer.                                        *)
LEMMA RootReported == Spelled /\ RootInv => ParsedIsRoot
  <1> SUFFICES ASSUME Spelled, RootInv, S!Answered
               PROVE  /\ S!Declared > 0 /\ S!PlainRoot(S!Body) => outcome = "Parsed" \/ faulted
                      /\ outcome = "Parsed" =>
                           /\ S!Declared > 0 /\ S!M!Balanced(S!Body)
                           /\ value.TagName = S!Body[1].n
                           /\ S!PlainRoot(S!Body) => value.Value = S!Inner(S!Body)
    BY DEF ParsedIsRoot, S!ParsedIsRoot
  <1>1. Taken
    BY DEF RootInv, Answering, TakesRoot, S!Answered
  <1>2. S!Declared > 0 /\ S!PlainRoot(S!Body) => outcome = "Parsed" \/ faulted
    BY <1>1 DEF Taken, Owed
  <1>3. ASSUME outcome = "Parsed"
        PROVE  /\ S!Declared > 0 /\ S!M!Balanced(S!Body)
               /\ value.TagName = S!Body[1].n
               /\ S!PlainRoot(S!Body) => value.Value = S!Inner(S!Body)
    <2>1. Approved /\ CutOff /\ value = S!ParseResult(rest) /\ value # S!NoValue
      BY <1>1, <1>3 DEF Taken
    <2>2. S!MatchTop(text) /\ S!Declared > 0
      BY <2>1, DeclaredText DEF Approved
    <2>3. S!M!Balanced(S!AfterDeclaration(text))
      BY <2>1 DEF Approved, S!HasValidTagClosure
    <2>4. S!M!Balanced(S!Body)
      BY <2>2, <2>3, SameMarkup, BodyBalances
    <2>5. PICK body : body = S!Body /\ body \in Seq(M!Token(TagNames))
      BY <2>2, BodyLies
    <2>6. S!TrimOuter(rest) = body
      BY <2>1, <2>5 DEF CutOff, Behind, S!Body
    <2>7. value = [TagName |-> body[1].n,
                   Value |-> (IF body[1].s = "gt" THEN <<S!Remainder>> ELSE <<>>)
                               \o SubSeq(body, 2, Len(body) - 1)]
      BY <2>1, <2>6 DEF S!ParseResult
    <2>8. ASSUME S!PlainRoot(body) PROVE value.Value = S!Inner(body)
      <3>1. body[1].s # "gt"
        BY <2>8 DEF S!PlainRoot
      <3>2. Len(body) - 1 \in Int /\ SubSeq(body, 2, Len(body) - 1) \in Seq(M!Token(TagNames))
        BY <2>5
      <3>3. <<>> \o SubSeq(body, 2, Len(body) - 1) = SubSeq(body, 2, Len(body) - 1)
        BY <3>2, ConcatEmptySeq
      <3> QED
        BY <2>7, <3>1, <3>3 DEF S!Inner
    <2> QED
      BY <2>2, <2>4, <2>5, <2>7, <2>8
  <1> QED
    BY <1>2, <1>3

LEMMA SlotConcludes == SlotInv => S!OneConclusion
  <1> SUFFICES ASSUME SlotInv, stage = "done" PROVE S!Concludes(signals, outcome)
    BY DEF S!OneConclusion
  <1>1. due = <<>> /\ signals \in Seq(SignalType) /\ S!Concludes(signals \o due, outcome)
    BY DEF SlotInv, Answering
  <1>2. signals \o due = signals
    BY <1>1, ConcatEmptySeq
  <1> QED
    BY <1>1, <1>2

-----------------------------------------------------------------------------
(* A text that no slot takes the root of is only rendered.                 *)
ReadInv ==
  /\ Spelled /\ RootInv
  /\ call = NoSlot \/ SlotInv
  /\ call = NoSlot => stage = "done"

LEMMA NoSlotIsNoCall == NoSlot \notin S!Calls
  BY DEF NoSlot, S!Calls, S!GetFileCalls

LEMMA InitReadInv == ReadInit => ReadInv
  <1> SUFFICES ASSUME ReadInit PROVE ReadInv
    OBVIOUS
  <1>1. PICK r \in Readings : text = r.text /\ call = r.call
    BY DEF ReadInit
  <1>2. Spelled /\ call \in S!Calls \cup {NoSlot}
    BY <1>1, ReadingsAssumption DEF Spelled
  <1>3. S!Untouched /\ (stage = IF call = NoSlot THEN "done" ELSE S!FirstStage[call])
    BY DEF ReadInit
  <1>4. CASE call = NoSlot
    <2>1. ~TakesRoot
      BY <1>4, NoSlotIsNoCall DEF TakesRoot, S!Calls
    <2> QED
      BY <1>2, <1>3, <1>4, <2>1 DEF ReadInv, RootInv
  <1>5. CASE call \in S!Calls
    <2>1. S!Init
      BY <1>3, <1>5, NoSlotIsNoCall DEF S!Init
    <2>2. stage \in {"fetch", "match", "validate", "parse", "scan"}
          /\ (stage = "parse" => ~TakesRoot)
      BY <1>5, <2>1 DEF S!Init, S!FirstStage, S!Calls, S!GetFileCalls, TakesRoot
    <2>3. rest = text
      BY <1>3 DEF S!Untouched
    <2>4. RootInv
      BY <2>2, <2>3 DEF RootInv, Answering
    <2> QED
      BY <1>2, <1>5, <2>1, <2>4, InitSlotInv, NoSlotIsNoCall DEF ReadInv
  <1> QED
    BY <1>2, <1>4, <1>5

LEMMA NextReadInv ==
  ReadInv /\ [ReadNext]_<<vars, treeVars, htmlVars, slotVars>> => ReadInv'
  <1> SUFFICES ASSUME ReadInv, [ReadNext]_<<vars, treeVars, htmlVars, slotVars>>
               PROVE  ReadInv'
    OBVIOUS
  <1>1. CASE ReadSlot
    <2>1. stage # "done" /\ S!Next /\ text' = text
      BY <1>1 DEF ReadSlot, S!Next, S!Fetch, S!Match, S!Validate, S!Strip, S!Parse, S!Scan,
                  S!Emit, S!ConversionThrows, S!Return
    <2>2. SlotInv' /\ RootInv' /\ Spelled'
      BY <2>1, NextSlotInv, NextRootInv, SameText DEF ReadInv
    <2> QED
      BY <2>2, NoSlotIsNoCall DEF ReadInv, SlotInv
  <1>2. CASE UNCHANGED slotVars
    <2>1. UNCHANGED <<text, call, stage>>
      BY <1>2 DEF slotVars
    <2>2. Spelled'
      BY <2>1, SameText DEF ReadInv
    <2>3. CASE call = NoSlot
      <3>1. ~TakesRoot'
        BY <2>1, <2>3, NoSlotIsNoCall DEF TakesRoot, S!Calls
      <3> QED
        BY <2>1, <2>2, <2>3, <3>1 DEF ReadInv, RootInv
    <2>4. CASE SlotInv
      BY <1>2, <2>1, <2>2, <2>4, NextSlotInv, NextRootInv DEF ReadInv
    <2> QED
      BY <2>3, <2>4 DEF ReadInv
  <1> QED
    BY <1>1, <1>2 DEF ReadNext, ReadTags

(* For every text and every slot: a call that is over has concluded once,  *)
(* in agreement with its result and its last announcement, whatever failed *)
(* or threw.                                                               *)
THEOREM AlwaysOneConclusion == ReadSpec => []OneConclusion
  <1>1. ReadInv => OneConclusion
    BY SlotConcludes DEF ReadInv, OneConclusion
  <1> QED
    BY InitReadInv, NextReadInv, <1>1, PTL DEF ReadSpec

(* For every text and every slot of GetFile: behind exactly its            *)
(* declarations, a plain root is parsed unless something is thrown, and    *)
(* what is parsed is the first tag of a balanced body, a plain root with   *)
(* all of its content.                                                     *)
THEOREM ParsedIsAlwaysRoot == ReadSpec => []ParsedIsRoot
  <1>1. ReadInv => ParsedIsRoot
    BY RootReported DEF ReadInv
  <1> QED
    BY InitReadInv, NextReadInv, <1>1, PTL DEF ReadSpec

-----------------------------------------------------------------------------
(* What is cut off in front of a body.                                     *)
LEMMA LeadFacts ==
  ASSUME NEW d \in Documents
  PROVE  /\ Len(d) \in Nat /\ M!Lead(d) \in 0..Len(d)
         /\ \A j \in 1..M!Lead(d) : d[j].k \in {"space", "xmldecl", "doctype"}
         /\ \A i \in 0..Len(d) :
              (\A j \in 1..i : d[j].k \in {"space", "xmldecl", "doctype"}) => i <= M!Lead(d)
  <1> DEFINE Leads == {i \in 0..Len(d) :
                         \A j \in 1..i : d[j].k \in {"space", "xmldecl", "doctype"}}
  <1>1. PICK size \in Nat : size = Len(d)
    BY DEF Documents
  <1>2. Leads \in SUBSET (0..size) /\ Leads # {} /\ Leads \in SUBSET Nat
    <2>1. 0 \in Leads
      BY <1>1
    <2> QED
      BY <1>1, <2>1
  <1>3. PICK m \in Leads : \A k \in Leads : k <= m
    BY <1>2, GreatestNat
  <1>4. M!Lead(d) = m
    <2>1. M!Lead(d) = S!Sets!Max(Leads)
      BY Zenon DEF M!Lead, M!Sets!Max, S!Sets!Max
    <2> HIDE DEF Leads
    <2> QED
      BY <1>2, <1>3, <2>1, GreatestIs
  <1> QED
    BY <1>1, <1>3, <1>4

(* The scanner runs inside of the readers: what is proved of it on its own *)
(* holds for the text that is rendered, the one behind its declarations.   *)
LEMMA BodyIsText ==
  ASSUME NEW d \in Documents
  PROVE  M!BodyOf(d) \in Documents
  <1>1. PICK size \in Nat, m \in Nat : size = Len(d) /\ m = M!Lead(d) /\ m \in 0..size
    BY LeadFacts
  <1>2. d \in Seq(M!Token(TagNames)) /\ DOMAIN d = 1..size
    BY <1>1 DEF Documents
  <1>3. /\ M!BodyOf(d) \in Seq(M!Token(TagNames))
        /\ Len(M!BodyOf(d)) = size - m
        /\ \A j \in 1..(size - m) : M!BodyOf(d)[j] = d[m + j]
    BY <1>1, <1>2, SliceFacts DEF M!BodyOf
  <1>4. ASSUME NEW j \in DOMAIN M!BodyOf(d)
        PROVE  M!BodyOf(d)[j].k \in M!TagKinds => M!BodyOf(d)[j].n \in TagNames
    <2>1. j \in 1..(size - m) /\ m + j \in DOMAIN d
      BY <1>1, <1>2, <1>3
    <2> QED
      BY <1>3, <2>1 DEF Documents
  <1> QED
    BY <1>3, <1>4 DEF Documents

LEMMA InitScanned == ReadInit => doc \in Documents /\ Init
  <1> SUFFICES ASSUME ReadInit PROVE doc \in Documents /\ Init
    OBVIOUS
  <1>1. text \in Documents /\ doc = M!BodyOf(text)
    BY ReadingsAssumption DEF ReadInit, NormalizeParserInput
  <1> QED
    BY <1>1, BodyIsText DEF ReadInit

(* Whatever else a step of the readers does, it scans or leaves the        *)
(* scanner alone.                                                          *)
LEMMA StepsScan == [ReadNext]_<<vars, treeVars, htmlVars, slotVars>> => [Next]_vars
  BY DEF ReadNext, ReadSlot, ReadTags, HtmlNext, ParseStep, ParseAllNext, BuildHierarchy

(* The readers hand the scanner a text and let it work.                    *)
THEOREM ReadersScan == ReadSpec => Spec
  BY InitScanned, StepsScan, PTL DEF ReadSpec, Spec

(* For every text that is rendered: the ranges are those of its tags, in   *)
(* document order, and there are none exactly when it is not balanced.     *)
THEOREM RenderedIsDeclared == ReadSpec => []ParsedIsDeclared
  BY ReadersScan, ParsedIsAlwaysDeclared, PTL

-----------------------------------------------------------------------------
(* The tree of a text.  What build_hierarchy starts from: ranges in the    *)
(* order their tags begin in.                                              *)
TagRange ==
  [TagName : TagNames, RawBegin : Nat, ValueBegin : Nat, ValueEnd : Nat, RawEnd : Nat]

Climbs(s) == \A a, b \in 1..Len(s) : a < b => s[a] < s[b]

Placed(rs) ==
  /\ rs \in Seq(TagRange)
  /\ \A r \in 1..Len(rs) : rs[r].RawBegin < rs[r].RawEnd
  /\ \A q, r \in 1..Len(rs) : q < r => rs[q].RawBegin < rs[r].RawBegin

(* A tag that starts at a token of a balanced text.                        *)
LEMMA TagAtFacts ==
  ASSUME NEW d \in Documents, M!Balanced(d), NEW i \in M!StartsOf(d)
  PROVE  /\ M!TagAt(d, i) \in TagRange
         /\ M!TagAt(d, i).RawBegin = i - 1
         /\ M!TagAt(d, i).RawBegin < M!TagAt(d, i).RawEnd
  <1>1. PICK n \in Nat : n = Len(d) /\ DOMAIN d = 1..n
    BY DEF Documents
  <1>2. i \in 1..n /\ i \in Nat /\ d[i].k \in {"open", "self"}
    BY <1>1 DEF M!StartsOf, M!Starts
  <1>3. d[i].n \in TagNames
    BY <1>1, <1>2 DEF Documents, M!TagKinds
  <1>4. PICK last \in Nat :
          /\ last = IF d[i].k = "self" THEN i ELSE M!ClosingOf(d, i)
          /\ last >= i
          /\ (d[i].k # "self") => last - 1 \in Nat
    <2>1. CASE d[i].k = "self"
      BY <1>2, <2>1
    <2>2. CASE d[i].k = "open"
      <3>1. M!ClosingOf(d, i) \in (i + 1)..n
        BY <1>1, <1>2, <2>2, OpenCloses DEF Documents
      <3> QED
        BY <1>2, <2>2, <3>1
    <2> QED
      BY <1>2, <2>1, <2>2
  <1>5. M!TagAt(d, i) =
          [TagName |-> d[i].n, RawBegin |-> i - 1, ValueBegin |-> i,
           ValueEnd |-> IF d[i].k = "self" THEN i ELSE last - 1, RawEnd |-> last]
    BY <1>4, Zenon DEF M!TagAt
  <1>6. i - 1 \in Nat /\ i - 1 < last
    BY <1>2, <1>4
  <1>7. (IF d[i].k = "self" THEN i ELSE last - 1) \in Nat
    BY <1>2, <1>4
  <1> QED
    BY <1>2, <1>3, <1>5, <1>6, <1>7 DEF TagRange

LEMMA SameNth == ASSUME NEW n, NEW T PROVE M!Nth(n, T) = Nth(n, T)
  BY DEF M!Nth, Nth, M!Cardinality, Cardinality

LEMMA TagsArePlaced ==
  ASSUME NEW d \in Documents, M!Balanced(d)
  PROVE  Placed(M!Tags(d))
  <1>1. PICK starts : starts = M!StartsOf(d)
    OBVIOUS
  <1>2. starts \in SUBSET Nat /\ IsFiniteSet(starts)
    <2>1. DOMAIN d = 1..Len(d) /\ Len(d) \in Nat
      BY DEF Documents
    <2>2. starts \in SUBSET (1..Len(d))
      BY <1>1, <2>1 DEF M!StartsOf
    <2>3. IsFiniteSet(1..Len(d)) /\ 1..Len(d) \subseteq Nat
      BY <2>1, FS_Interval
    <2>4. IsFiniteSet(starts)
      BY <2>2, <2>3, FS_Subset
    <2> QED
      BY <2>2, <2>3, <2>4
  <1>3. PICK n \in Nat : n = Cardinality(starts)
    BY <1>2, FS_CardinalityType
  <1>4. M!Tags(d) = [r \in 1..n |-> M!TagAt(d, M!Nth(r, starts))]
    BY <1>1, <1>3, SameCardinality DEF M!Tags
  <1>5. \A r \in 1..n : /\ M!Nth(r, starts) \in starts
                        /\ Cardinality({j \in starts : j <= M!Nth(r, starts)}) = r
    BY <1>2, <1>3, SameNth, NthFacts
  <1>6. PICK at : at = [r \in 1..n |-> M!Nth(r, starts)]
    OBVIOUS
  <1>7. \A r \in 1..n : at[r] \in starts /\ at[r] \in Nat
    BY <1>2, <1>5, <1>6
  <1>8. ASSUME NEW q \in 1..n, NEW r \in 1..n, q < r
        PROVE  at[q] < at[r]
    <2> SUFFICES ASSUME ~(at[q] < at[r]) PROVE FALSE
      OBVIOUS
    <2>1. at[r] <= at[q]
      BY <1>7
    <2> DEFINE Low(i) == {j \in starts : j <= i}
    <2>2. Low(at[r]) \subseteq Low(at[q]) /\ IsFiniteSet(Low(at[q]))
      <3>1. ASSUME NEW j \in starts, j <= at[r] PROVE j <= at[q]
        <4>1. j \in Nat /\ at[q] \in Nat /\ at[r] \in Nat
          BY <1>2, <1>7
        <4> QED
          BY <2>1, <3>1, <4>1
      <3>2. Low(at[q]) \subseteq starts
        OBVIOUS
      <3> QED
        BY <1>2, <3>1, <3>2, FS_Subset
    <2>3. Cardinality(Low(at[r])) = r /\ Cardinality(Low(at[q])) = q
      BY <1>5, <1>6
    <2> HIDE DEF Low
    <2>4. r <= q
      BY <2>2, <2>3, FS_Subset
    <2> QED
      BY <1>8, <2>4
  <1>9. \A r \in 1..n : /\ M!Tags(d)[r] \in TagRange
                        /\ M!Tags(d)[r].RawBegin = at[r] - 1
                        /\ M!Tags(d)[r].RawBegin < M!Tags(d)[r].RawEnd
    BY <1>1, <1>4, <1>6, <1>7, TagAtFacts
  <1>10. M!Tags(d) \in Seq(TagRange) /\ Len(M!Tags(d)) = n
    BY <1>4, <1>9
  <1>11. ASSUME NEW q \in 1..n, NEW r \in 1..n, q < r
         PROVE  M!Tags(d)[q].RawBegin < M!Tags(d)[r].RawBegin
    BY <1>7, <1>8, <1>9, <1>11
  <1> QED
    BY <1>9, <1>10, <1>11 DEF Placed

(* The first e ranges that contain a range, and the latest of them.        *)
Sires(rs, e, i) == {j \in 1..e : H!ContainsRange(rs[j], rs[i])}

Latest(rs, e, i, p) == p \in Sires(rs, e, i) /\ \A j \in Sires(rs, e, i) : j <= p

(* The first e ranges hang below the latest range that contains them, in   *)
(* their order.                                                            *)
Hung(rs, e, kids, tops) ==
  /\ kids \in [1..Len(rs) -> Seq(Nat)] /\ tops \in Seq(Nat)
  /\ Climbs(tops) /\ \A p \in 1..Len(rs) : Climbs(kids[p])
  /\ \A i \in Nat : H!Seqs!Contains(tops, i) <=> i \in 1..e /\ Sires(rs, e, i) = {}
  /\ \A p \in 1..Len(rs), i \in Nat :
       H!Seqs!Contains(kids[p], i) <=> i \in 1..e /\ Latest(rs, e, i, p)

(* The stack has every one of the first e ranges that has not ended before *)
(* the last of them begins.                                                *)
Stacked(rs, e, nodes) ==
  /\ nodes \in Seq(Nat) /\ Climbs(nodes)
  /\ \A k \in 1..Len(nodes) : nodes[k] \in 1..e
  /\ \A j \in 1..e : H!Seqs!Contains(nodes, j) \/ rs[j].RawEnd <= rs[e].RawBegin

LEMMA AppendFacts ==
  ASSUME NEW s \in Seq(Nat), NEW x \in Nat
  PROVE  /\ Append(s, x) \in Seq(Nat)
         /\ \A y : H!Seqs!Contains(Append(s, x), y) <=> H!Seqs!Contains(s, y) \/ y = x
         /\ Climbs(s) /\ (\A k \in 1..Len(s) : s[k] < x) => Climbs(Append(s, x))
  <1>1. PICK n \in Nat, longer \in Seq(Nat) :
          /\ n = Len(s) /\ longer = Append(s, x) /\ Len(longer) = n + 1
          /\ longer[n + 1] = x /\ \A k \in 1..n : longer[k] = s[k]
    <2>1. /\ Append(s, x) \in Seq(Nat) /\ Len(s) \in Nat /\ Len(Append(s, x)) = Len(s) + 1
          /\ Append(s, x)[Len(s) + 1] = x
          /\ \A k \in 1..Len(s) : Append(s, x)[k] = s[k]
      OBVIOUS
    <2> QED
      BY <2>1
  <1>2. \A k \in 1..(n + 1) : k \in 1..n \/ k = n + 1
    OBVIOUS
  <1>3. (\A k \in 1..n : k \in 1..(n + 1)) /\ n + 1 \in 1..(n + 1)
    OBVIOUS
  <1>4. ASSUME NEW y
        PROVE  H!Seqs!Contains(longer, y) <=> H!Seqs!Contains(s, y) \/ y = x
    <2>1. (\E k \in 1..(n + 1) : longer[k] = y) <=> (\E k \in 1..n : s[k] = y) \/ y = x
      BY <1>1, <1>2, <1>3
    <2> QED
      BY <1>1, <2>1 DEF H!Seqs!Contains
  <1>5. ASSUME Climbs(s), \A k \in 1..n : s[k] < x
        PROVE  Climbs(longer)
    <2> SUFFICES ASSUME NEW a \in 1..(n + 1), NEW b \in 1..(n + 1), a < b
                 PROVE  longer[a] < longer[b]
      BY <1>1 DEF Climbs
    <2>1. a \in 1..n
      OBVIOUS
    <2>2. CASE b \in 1..n
      BY <1>1, <1>5, <2>1, <2>2 DEF Climbs
    <2>3. CASE b = n + 1
      BY <1>1, <1>5, <2>1, <2>3
    <2> QED
      BY <1>2, <2>2, <2>3
  <1> QED
    BY <1>1, <1>4, <1>5

LEMMA PlacedFacts ==
  ASSUME NEW rs, Placed(rs), NEW i \in 1..Len(rs)
  PROVE  rs[i].RawBegin \in Nat /\ rs[i].RawEnd \in Nat
  <1>1. rs[i] \in TagRange
    BY DEF Placed
  <1> QED
    BY <1>1 DEF TagRange

(* No range contains one that begins before it, and none contains itself.  *)
LEMMA SiresOfEarlier ==
  ASSUME NEW rs, Placed(rs), NEW e \in Nat, e + 1 <= Len(rs), NEW i \in 1..(e + 1)
  PROVE  Sires(rs, e + 1, i) = Sires(rs, e, i)
  <1>1. rs \in Seq(TagRange) /\ Len(rs) \in Nat /\ e + 1 \in 1..Len(rs) /\ i \in 1..Len(rs)
    BY DEF Placed
  <1>2. rs[i].RawBegin \in Nat /\ rs[e + 1].RawBegin \in Nat
    BY <1>1, PlacedFacts
  <1>3. ~(rs[e + 1].RawBegin < rs[i].RawBegin)
    <2>1. CASE i = e + 1
      BY <1>2, <2>1
    <2>2. CASE i < e + 1
      BY <1>1, <1>2, <2>2 DEF Placed
    <2> QED
      BY <2>1, <2>2
  <1>4. ~H!ContainsRange(rs[e + 1], rs[i])
    BY <1>3 DEF H!ContainsRange
  <1>5. 1..(e + 1) = 1..e \cup {e + 1}
    OBVIOUS
  <1> QED
    BY <1>4, <1>5 DEF Sires

(* Popping loses no range that contains the next one: what has ended when  *)
(* that one begins contains it no more.                                    *)
LEMMA PoppingKeepsSires ==
  ASSUME NEW rs, Placed(rs), NEW e \in Nat, e + 1 <= Len(rs),
         NEW nodes, Stacked(rs, e, nodes), NEW b \in 0..Len(nodes),
         \A k \in 1..Len(nodes) : b < k => rs[nodes[k]].RawEnd <= rs[e + 1].RawBegin
  PROVE  /\ SubSeq(nodes, 1, b) \in Seq(Nat) /\ Len(SubSeq(nodes, 1, b)) = b
         /\ \A k \in 1..b : SubSeq(nodes, 1, b)[k] \in 1..e
         /\ Climbs(SubSeq(nodes, 1, b))
         /\ \A j \in Sires(rs, e, e + 1) : H!Seqs!Contains(SubSeq(nodes, 1, b), j)
         /\ Stacked(rs, e + 1, Append(SubSeq(nodes, 1, b), e + 1))
  <1>1. PICK kept : kept = SubSeq(nodes, 1, b)
    OBVIOUS
  <1>2. nodes \in Seq(Nat) /\ Len(nodes) \in Nat /\ b \in Nat /\ b <= Len(nodes)
    BY DEF Stacked
  <1>3. kept \in Seq(Nat) /\ Len(kept) = b /\ \A k \in 1..b : kept[k] = nodes[k]
    BY <1>1, <1>2, HeadFacts
  <1>4. \A k \in 1..b : k \in 1..Len(nodes) /\ kept[k] \in 1..e
    BY <1>2, <1>3 DEF Stacked
  <1>5. Climbs(kept)
    BY <1>3, <1>4 DEF Stacked, Climbs
  <1>6. rs \in Seq(TagRange) /\ Len(rs) \in Nat /\ e + 1 \in 1..Len(rs)
    BY DEF Placed
  <1>7. \A j \in 1..(e + 1) : j \in 1..Len(rs) /\ rs[j].RawBegin \in Nat /\ rs[j].RawEnd \in Nat
    <2>1. \A j \in 1..(e + 1) : j \in 1..Len(rs)
      BY <1>6
    <2> QED
      BY <2>1, PlacedFacts
  <1>8. ASSUME NEW j \in 1..e
        PROVE  H!Seqs!Contains(kept, j) \/ rs[j].RawEnd <= rs[e + 1].RawBegin
    <2>1. CASE rs[j].RawEnd <= rs[e].RawBegin
      <3>1. e \in 1..Len(rs) /\ e < e + 1 /\ e \in 1..(e + 1) /\ j \in 1..(e + 1)
        BY <1>6
      <3>2. rs[e].RawBegin < rs[e + 1].RawBegin
        BY <1>6, <3>1 DEF Placed
      <3>3. /\ rs[j].RawEnd \in Nat /\ rs[e].RawBegin \in Nat /\ rs[e + 1].RawBegin \in Nat
        BY <1>6, <1>7, <3>1
      <3> QED
        BY <2>1, <3>2, <3>3
    <2>2. CASE H!Seqs!Contains(nodes, j)
      <3>1. PICK k \in 1..Len(nodes) : nodes[k] = j
        BY <2>2 DEF H!Seqs!Contains
      <3>2. CASE k <= b
        <4>1. k \in 1..b
          BY <1>2, <3>2
        <4> QED
          BY <1>3, <3>1, <4>1 DEF H!Seqs!Contains
      <3>3. CASE b < k
        BY <3>1, <3>3
      <3> QED
        BY <1>2, <3>2, <3>3
    <2> QED
      BY <2>1, <2>2 DEF Stacked
  <1>9. ASSUME NEW j \in Sires(rs, e, e + 1) PROVE H!Seqs!Contains(kept, j)
    <2>1. j \in 1..e /\ j \in 1..(e + 1) /\ rs[e + 1].RawEnd <= rs[j].RawEnd
      BY DEF Sires, H!ContainsRange
    <2>2. rs[e + 1].RawBegin < rs[e + 1].RawEnd
      BY <1>6 DEF Placed
    <2>3. ~(rs[j].RawEnd <= rs[e + 1].RawBegin)
      BY <1>6, <1>7, <2>1, <2>2
    <2> QED
      BY <1>8, <2>1, <2>3
  <1>10. Stacked(rs, e + 1, Append(kept, e + 1))
    <2>1. e + 1 \in Nat /\ \A k \in 1..Len(kept) : kept[k] < e + 1
      BY <1>3, <1>4
    <2>2. PICK longer : longer = Append(kept, e + 1)
      OBVIOUS
    <2>3. longer \in Seq(Nat) /\ Climbs(longer)
      BY <1>3, <1>5, <2>1, <2>2, AppendFacts
    <2>4. \A y : H!Seqs!Contains(longer, y) <=> H!Seqs!Contains(kept, y) \/ y = e + 1
      BY <1>3, <2>1, <2>2, AppendFacts
    <2>5. ASSUME NEW k \in 1..Len(longer) PROVE longer[k] \in 1..(e + 1)
      <3>1. H!Seqs!Contains(longer, longer[k])
        BY DEF H!Seqs!Contains
      <3>2. H!Seqs!Contains(kept, longer[k]) => longer[k] \in 1..e
        BY <1>3, <1>4 DEF H!Seqs!Contains
      <3>3. (\A y \in 1..e : y \in 1..(e + 1)) /\ e + 1 \in 1..(e + 1)
        OBVIOUS
      <3> QED
        BY <2>4, <3>1, <3>2, <3>3
    <2>6. ASSUME NEW j \in 1..(e + 1)
          PROVE  H!Seqs!Contains(longer, j) \/ rs[j].RawEnd <= rs[e + 1].RawBegin
      <3>1. j = e + 1 \/ j \in 1..e
        OBVIOUS
      <3> QED
        BY <1>8, <2>4, <3>1
    <2> QED
      BY <2>2, <2>3, <2>5, <2>6 DEF Stacked
  <1> QED
    BY <1>1, <1>3, <1>4, <1>5, <1>9, <1>10

LEMMA RootHangs ==
  ASSUME NEW rs, Placed(rs), NEW e \in Nat, e + 1 <= Len(rs),
         NEW kids, NEW tops, Hung(rs, e, kids, tops), Sires(rs, e, e + 1) = {}
  PROVE  Hung(rs, e + 1, kids, Append(tops, e + 1))
  <1>1. PICK longer : longer = Append(tops, e + 1)
    OBVIOUS
  <1>2. e + 1 \in Nat /\ tops \in Seq(Nat)
    BY DEF Hung
  <1>3. \A k \in 1..Len(tops) : tops[k] < e + 1
    <2> SUFFICES ASSUME NEW k \in 1..Len(tops) PROVE tops[k] < e + 1
      OBVIOUS
    <2>1. tops[k] \in Nat /\ H!Seqs!Contains(tops, tops[k])
      BY <1>2 DEF H!Seqs!Contains
    <2>2. tops[k] \in 1..e
      BY <2>1 DEF Hung
    <2> QED
      BY <2>2
  <1>4. /\ longer \in Seq(Nat) /\ Climbs(longer)
        /\ \A y : H!Seqs!Contains(longer, y) <=> H!Seqs!Contains(tops, y) \/ y = e + 1
    BY <1>1, <1>2, <1>3, AppendFacts DEF Hung
  <1>5. \A i \in 1..(e + 1) : Sires(rs, e + 1, i) = Sires(rs, e, i)
    BY SiresOfEarlier
  <1>6. \A i : i \in 1..(e + 1) <=> i \in 1..e \/ i = e + 1
    OBVIOUS
  <1>7. ASSUME NEW i \in Nat
        PROVE  H!Seqs!Contains(longer, i) <=> i \in 1..(e + 1) /\ Sires(rs, e + 1, i) = {}
    BY <1>4, <1>5, <1>6 DEF Hung
  <1>8. ASSUME NEW p \in 1..Len(rs), NEW i \in Nat
        PROVE  H!Seqs!Contains(kids[p], i) <=> i \in 1..(e + 1) /\ Latest(rs, e + 1, i, p)
    <2>1. H!Seqs!Contains(kids[p], i) <=> i \in 1..e /\ Latest(rs, e, i, p)
      BY DEF Hung
    <2>2. i \in 1..(e + 1) => (Latest(rs, e + 1, i, p) <=> Latest(rs, e, i, p))
      BY <1>5 DEF Latest
    <2>3. ~Latest(rs, e, e + 1, p)
      BY DEF Latest
    <2> QED
      BY <1>6, <2>1, <2>2, <2>3
  <1> QED
    BY <1>1, <1>4, <1>7, <1>8 DEF Hung

LEMMA ChildHangs ==
  ASSUME NEW rs, Placed(rs), NEW e \in Nat, e + 1 <= Len(rs),
         NEW kids, NEW tops, Hung(rs, e, kids, tops),
         NEW q \in 1..e, Latest(rs, e, e + 1, q)
  PROVE  Hung(rs, e + 1, [kids EXCEPT ![q] = Append(@, e + 1)], tops)
  <1>1. PICK more : more = [kids EXCEPT ![q] = Append(@, e + 1)]
    OBVIOUS
  <1>2. e + 1 \in Nat /\ q \in 1..Len(rs) /\ kids \in [1..Len(rs) -> Seq(Nat)]
    BY DEF Hung, Placed
  <1>3. kids[q] \in Seq(Nat) /\ Climbs(kids[q])
    BY <1>2 DEF Hung
  <1>4. \A k \in 1..Len(kids[q]) : kids[q][k] < e + 1
    <2> SUFFICES ASSUME NEW k \in 1..Len(kids[q]) PROVE kids[q][k] < e + 1
      OBVIOUS
    <2>1. kids[q][k] \in Nat /\ H!Seqs!Contains(kids[q], kids[q][k])
      BY <1>3 DEF H!Seqs!Contains
    <2>2. kids[q][k] \in 1..e
      BY <1>2, <2>1 DEF Hung
    <2> QED
      BY <2>2
  <1>5. /\ more[q] \in Seq(Nat) /\ Climbs(more[q])
        /\ \A y : H!Seqs!Contains(more[q], y) <=> H!Seqs!Contains(kids[q], y) \/ y = e + 1
    <2>1. PICK old, longer : old = kids[q] /\ longer = Append(old, e + 1)
      OBVIOUS
    <2>2. more[q] = longer
      BY <1>1, <1>2, <2>1
    <2>3. old \in Seq(Nat) /\ Climbs(old) /\ \A k \in 1..Len(old) : old[k] < e + 1
      BY <1>3, <1>4, <2>1
    <2>4. /\ longer \in Seq(Nat) /\ Climbs(longer)
          /\ \A y : H!Seqs!Contains(longer, y) <=> H!Seqs!Contains(old, y) \/ y = e + 1
      BY <1>2, <2>1, <2>3, AppendFacts
    <2> QED
      BY <2>1, <2>2, <2>4
  <1>6. /\ more \in [1..Len(rs) -> Seq(Nat)]
        /\ \A p \in 1..Len(rs) : p # q => more[p] = kids[p]
    <2>1. Append(kids[q], e + 1) \in Seq(Nat)
      BY <1>2, <1>3
    <2> QED
      BY <1>1, <1>2, <2>1
  <1>7. \A i \in 1..(e + 1) : Sires(rs, e + 1, i) = Sires(rs, e, i)
    BY SiresOfEarlier
  <1>8. \A i : i \in 1..(e + 1) <=> i \in 1..e \/ i = e + 1
    OBVIOUS
  <1>9. ASSUME NEW i \in Nat
        PROVE  H!Seqs!Contains(tops, i) <=> i \in 1..(e + 1) /\ Sires(rs, e + 1, i) = {}
    <2>1. H!Seqs!Contains(tops, i) <=> i \in 1..e /\ Sires(rs, e, i) = {}
      BY DEF Hung
    <2>2. Sires(rs, e, e + 1) # {}
      BY DEF Latest
    <2> QED
      BY <1>7, <1>8, <2>1, <2>2
  <1>10. ASSUME NEW p \in 1..Len(rs), NEW i \in Nat
         PROVE  H!Seqs!Contains(more[p], i) <=> i \in 1..(e + 1) /\ Latest(rs, e + 1, i, p)
    <2>1. H!Seqs!Contains(kids[p], i) <=> i \in 1..e /\ Latest(rs, e, i, p)
      BY DEF Hung
    <2>2. i \in 1..(e + 1) => (Latest(rs, e + 1, i, p) <=> Latest(rs, e, i, p))
      BY <1>7 DEF Latest
    <2>3. Latest(rs, e, e + 1, p) <=> p = q
      <3>1. q \in Sires(rs, e, e + 1) /\ \A j \in Sires(rs, e, e + 1) : j <= q /\ j \in 1..e
        BY DEF Latest, Sires
      <3>2. ASSUME Latest(rs, e, e + 1, p) PROVE p = q
        <4>1. p <= q /\ q <= p /\ p \in Nat /\ q \in Nat
          BY <3>1, <3>2 DEF Latest
        <4> QED
          BY <4>1
      <3> QED
        BY <3>2
    <2> QED
      BY <1>5, <1>6, <1>8, <2>1, <2>2, <2>3
  <1>11. \A p \in 1..Len(rs) : Climbs(more[p])
    BY <1>5, <1>6 DEF Hung
  <1> QED
    BY <1>1, <1>6, <1>9, <1>10, <1>11 DEF Hung

TreeInv ==
  /\ Placed(ranges) /\ entries \in 0..Len(ranges)
  /\ tree = "waiting" => entries = 0
  /\ Hung(ranges, entries, children, roots)
  /\ Stacked(ranges, entries, active_nodes)

(* What is left of the stack, and where the next range can hang.           *)
LEMMA PoppedFacts ==
  ASSUME Stacked(ranges, entries, active_nodes)
  PROVE  \E b \in 0..Len(active_nodes) :
           /\ H!Popped = SubSeq(active_nodes, 1, b)
           /\ \A k \in 1..Len(active_nodes) :
                b < k => ~(ranges[active_nodes[k]].RawEnd > ranges[entries + 1].RawBegin)
  <1>1. PICK n \in Nat : n = Len(active_nodes) /\ DOMAIN active_nodes = 1..n
    BY DEF Stacked
  <1> DEFINE Running == {i \in DOMAIN active_nodes :
                           ranges[active_nodes[i]].RawEnd > ranges[entries + 1].RawBegin}
  <1>2. H!Popped = SubSeq(active_nodes, 1,
                     IF Running = {} THEN 0
                     ELSE CHOOSE i \in Running : \A j \in Running : j <= i)
    BY Zenon DEF H!Popped, H!Current
  <1>3. \A k \in 1..n : k \notin Running =>
          ~(ranges[active_nodes[k]].RawEnd > ranges[entries + 1].RawBegin)
    BY <1>1
  <1>4. Running \in SUBSET (0..n) /\ Running \in SUBSET (1..n)
    BY <1>1
  <1> HIDE DEF Running
  <1>5. CASE Running = {}
    <2>1. H!Popped = SubSeq(active_nodes, 1, 0) /\ 0 \in 0..n
      BY <1>2, <1>5
    <2> QED
      BY <1>1, <1>3, <1>5, <2>1
  <1>6. CASE Running # {}
    <2>1. PICK m \in Running : \A k \in Running : k <= m
      BY <1>4, <1>6, GreatestNat
    <2>2. PICK b : b = CHOOSE i \in Running : \A j \in Running : j <= i
      OBVIOUS
    <2>3. b \in Running /\ \A j \in Running : j <= b
      BY <2>1, <2>2
    <2>4. b \in 0..n /\ \A k \in 1..n : b < k => k \notin Running
      BY <1>4, <2>3
    <2>5. H!Popped = SubSeq(active_nodes, 1, b)
      BY <1>2, <1>6, <2>2
    <2> QED
      BY <1>1, <1>3, <2>4, <2>5
  <1> QED
    BY <1>5, <1>6

LEMMA AddNodeTree ==
  ASSUME TreeInv, H!AddNode
  PROVE  TreeInv'
  <1>1. PICK e, rs, kids, tops, nodes :
          /\ e = entries /\ rs = ranges /\ kids = children /\ tops = roots
          /\ nodes = active_nodes /\ e \in Nat
    BY DEF TreeInv, Placed
  <1>2. e \in Nat /\ e + 1 <= Len(rs) /\ Len(rs) \in Nat /\ e + 1 \in 1..Len(rs)
    BY <1>1 DEF H!AddNode, TreeInv, Placed
  <1>3. Placed(rs) /\ Hung(rs, e, kids, tops) /\ Stacked(rs, e, nodes)
    BY <1>1 DEF TreeInv
  <1>4. /\ entries' = e + 1 /\ ranges' = rs /\ tree' = tree /\ tree = "running"
        /\ active_nodes' = Append(H!Popped, e + 1)
    BY <1>1 DEF H!AddNode, H!Node
  <1>5. PICK b \in 0..Len(nodes) :
          /\ H!Popped = SubSeq(nodes, 1, b)
          /\ \A k \in 1..Len(nodes) : b < k => ~(rs[nodes[k]].RawEnd > rs[e + 1].RawBegin)
    BY <1>1, <1>3, PoppedFacts
  <1>6. PICK kept : kept = H!Popped
    OBVIOUS
  <1>7. \A k \in 1..Len(nodes) : b < k => rs[nodes[k]].RawEnd <= rs[e + 1].RawBegin
    <2> SUFFICES ASSUME NEW k \in 1..Len(nodes), b < k
                 PROVE  rs[nodes[k]].RawEnd <= rs[e + 1].RawBegin
      OBVIOUS
    <2>1. nodes[k] \in 1..e /\ nodes[k] \in 1..Len(rs)
      BY <1>2, <1>3 DEF Stacked
    <2>2. rs[nodes[k]].RawEnd \in Nat /\ rs[e + 1].RawBegin \in Nat
      BY <1>2, <1>3, <2>1, PlacedFacts
    <2> QED
      BY <1>5, <2>2
  <1>8. /\ kept \in Seq(Nat) /\ Len(kept) = b /\ \A k \in 1..b : kept[k] \in 1..e
        /\ Climbs(kept)
        /\ \A j \in Sires(rs, e, e + 1) : H!Seqs!Contains(kept, j)
        /\ Stacked(rs, e + 1, Append(kept, e + 1))
    BY <1>2, <1>3, <1>5, <1>7, <1>6, PoppingKeepsSires
  <1>9. \A k \in 1..b : k \in H!Holders(kept) <=> kept[k] \in Sires(rs, e, e + 1)
    BY <1>1, <1>8 DEF H!Holders, H!Current, Sires
  <1>10. \A j \in Sires(rs, e, e + 1) : \E k \in 1..b : kept[k] = j /\ k \in H!Holders(kept)
    BY <1>8, <1>9 DEF H!Seqs!Contains
  <1>11. H!Holders(kept) \subseteq 1..b
    BY <1>8 DEF H!Holders
  <1>12. Hung(rs, e + 1, children', roots')
    <2>1. CASE H!Holders(kept) = {} /\ roots' = Append(tops, e + 1) /\ children' = kids
      <3>1. Sires(rs, e, e + 1) = {}
        BY <1>10, <2>1
      <3>2. Hung(rs, e + 1, kids, Append(tops, e + 1))
        BY <1>2, <1>3, <3>1, RootHangs
      <3> QED
        BY <2>1, <3>2
    <2>2. ASSUME NEW h \in H!Holders(kept), \A i \in H!Holders(kept) : i <= h,
                 children' = [kids EXCEPT ![kept[h]] = Append(@, e + 1)],
                 roots' = tops
          PROVE  Hung(rs, e + 1, children', roots')
      <3>1. PICK q \in 1..e : q = kept[h] /\ q \in Sires(rs, e, e + 1)
        BY <1>8, <1>9, <1>11
      <3>2. \A j \in Sires(rs, e, e + 1) : j <= q
        <4> SUFFICES ASSUME NEW j \in Sires(rs, e, e + 1) PROVE j <= q
          OBVIOUS
        <4>1. PICK k \in 1..b : kept[k] = j /\ k <= h
          BY <1>10, <2>2
        <4>2. h \in 1..b
          BY <1>11
        <4>3. CASE k = h
          BY <3>1, <4>1, <4>3
        <4>4. CASE k < h
          BY <1>8, <3>1, <4>1, <4>2, <4>4 DEF Climbs
        <4> QED
          BY <4>1, <4>2, <4>3, <4>4
      <3>3. Latest(rs, e, e + 1, q)
        BY <3>1, <3>2 DEF Latest
      <3>4. Hung(rs, e + 1, [kids EXCEPT ![q] = Append(@, e + 1)], tops)
        BY <1>2, <1>3, <3>3, ChildHangs
      <3> QED
        BY <2>2, <3>1, <3>4
    <2> QED
      BY <1>1, <1>6, <2>1, <2>2 DEF H!AddNode, H!Node
  <1>13. Stacked(rs, e + 1, active_nodes')
    BY <1>4, <1>6, <1>8
  <1>14. e + 1 \in 0..Len(rs)
    BY <1>2
  <1> QED
    BY <1>3, <1>4, <1>12, <1>13, <1>14 DEF TreeInv

LEMMA StartTree ==
  ASSUME TreeInv, ResultInv, BuildHierarchy
  PROVE  TreeInv'
  <1>1. PICK rs : rs = M!Tags(doc)
    OBVIOUS
  <1>2. doc \in Documents /\ M!Balanced(doc)
        /\ [r \in 1..Len(parsed_tags) |-> parsed_tags[r].Range] = rs
    BY <1>1 DEF BuildHierarchy, ResultInv, IInv, TypeOK, ParsedIsDeclared
  <1>3. Placed(rs) /\ Len(rs) \in Nat
    BY <1>1, <1>2, TagsArePlaced DEF Placed
  <1>4. DOMAIN rs = 1..Len(parsed_tags) /\ DOMAIN rs = 1..Len(rs)
    BY <1>2, <1>3 DEF Placed
  <1>5. /\ ranges' = rs /\ children' = [r \in 1..Len(rs) |-> <<>>] /\ tree' = "running"
        /\ entries = 0 /\ UNCHANGED <<entries, roots, active_nodes>>
    BY <1>2, <1>4 DEF BuildHierarchy, H!Start, TreeInv
  <1>6. Hung(rs, 0, children', roots')
    <2>1. roots' \in Seq(Nat) /\ Climbs(roots') /\ \A i \in Nat : ~H!Seqs!Contains(roots', i)
      BY <1>5 DEF TreeInv, Hung
    <2>2. <<>> \in Seq(Nat) /\ Len(<<>>) = 0
      OBVIOUS
    <2>3. \A p \in 1..Len(rs) : children'[p] = <<>>
      BY <1>5
    <2>4. children' \in [1..Len(rs) -> Seq(Nat)]
      BY <1>5, <2>2
    <2>5. Climbs(<<>>) /\ \A i : ~H!Seqs!Contains(<<>>, i)
      BY <2>2 DEF Climbs, H!Seqs!Contains
    <2>6. \A i : i \notin 1..0
      OBVIOUS
    <2> QED
      BY <2>1, <2>3, <2>4, <2>5, <2>6 DEF Hung
  <1>7. Stacked(rs, 0, active_nodes')
    <2>1. active_nodes' \in Seq(Nat) /\ Climbs(active_nodes')
      BY <1>5 DEF TreeInv, Stacked
    <2>2. \A k \in 1..Len(active_nodes') : active_nodes'[k] \in 1..0
      BY <1>5 DEF TreeInv, Stacked
    <2>3. \A i : i \notin 1..0
      OBVIOUS
    <2> QED
      BY <2>1, <2>2, <2>3 DEF Stacked
  <1> QED
    BY <1>3, <1>5, <1>6, <1>7 DEF TreeInv

LEMMA InitTree == H!Init => TreeInv
  <1> SUFFICES ASSUME H!Init PROVE TreeInv
    OBVIOUS
  <1>1. /\ ranges = <<>> /\ entries = 0 /\ children = <<>> /\ roots = <<>>
        /\ active_nodes = <<>>
    BY DEF H!Init
  <1>2. /\ Len(<<>>) = 0 /\ <<>> \in Seq(Nat) /\ <<>> \in Seq(TagRange)
        /\ <<>> \in [1..0 -> Seq(Nat)] /\ \A i : i \notin 1..0
    OBVIOUS
  <1>3. Climbs(<<>>) /\ \A i : ~H!Seqs!Contains(<<>>, i)
    BY <1>2 DEF Climbs, H!Seqs!Contains
  <1>4. Placed(<<>>)
    BY <1>2 DEF Placed
  <1>5. Hung(<<>>, 0, <<>>, <<>>)
    BY <1>2, <1>3 DEF Hung
  <1>6. Stacked(<<>>, 0, <<>>)
    BY <1>2, <1>3 DEF Stacked
  <1> QED
    BY <1>1, <1>2, <1>4, <1>5, <1>6 DEF TreeInv

LEMMA NextTree ==
  TreeInv /\ ResultInv /\ [ReadNext]_<<vars, treeVars, htmlVars, slotVars>> => TreeInv'
  <1> SUFFICES ASSUME TreeInv, ResultInv,
                      [ReadNext]_<<vars, treeVars, htmlVars, slotVars>>
               PROVE  TreeInv'
    OBVIOUS
  <1>1. CASE BuildHierarchy
    BY <1>1, StartTree
  <1>2. CASE H!AddNode
    BY <1>2, AddNodeTree
  <1>3. CASE H!FieldsRejected \/ H!Materialize
    BY <1>3 DEF H!FieldsRejected, H!Materialize, TreeInv
  <1>4. CASE UNCHANGED treeVars
    BY <1>4 DEF treeVars, TreeInv
  <1> QED
    BY <1>1, <1>2, <1>3, <1>4 DEF ReadNext, ReadSlot, ReadTags, HtmlNext, ParseStep, ParseAllNext, H!Next

-----------------------------------------------------------------------------
(* The preorder of the tree.  Consecutive numbers, from a to b - 1, and    *)
(* what it comes to when sequences of them are put together.               *)
Run(a, b) == [x \in 1..(b - a) |-> a + x - 1]

LEMMA RunFacts ==
  ASSUME NEW a \in Nat, NEW b \in Nat, a <= b
  PROVE  /\ Run(a, b) \in Seq(Nat) /\ Len(Run(a, b)) = b - a
         /\ \A x \in 1..(b - a) : Run(a, b)[x] = a + x - 1
  <1>1. b - a \in Nat /\ \A x \in 1..(b - a) : a + x - 1 \in Nat
    OBVIOUS
  <1> QED
    BY <1>1 DEF Run

LEMMA JoinRuns ==
  ASSUME NEW a \in Nat, NEW b \in Nat, NEW c \in Nat, a <= b, b <= c
  PROVE  Run(a, b) \o Run(b, c) = Run(a, c)
  <1>1. PICK x, y, z : x = Run(a, b) /\ y = Run(b, c) /\ z = Run(a, c)
    OBVIOUS
  <1>2. /\ x \in Seq(Nat) /\ Len(x) = b - a /\ \A i \in 1..(b - a) : x[i] = a + i - 1
        /\ y \in Seq(Nat) /\ Len(y) = c - b /\ \A i \in 1..(c - b) : y[i] = b + i - 1
        /\ z \in Seq(Nat) /\ Len(z) = c - a /\ \A i \in 1..(c - a) : z[i] = a + i - 1
    <2>1. a <= c
      OBVIOUS
    <2>2. x \in Seq(Nat) /\ Len(x) = b - a /\ \A i \in 1..(b - a) : x[i] = a + i - 1
      BY <1>1, RunFacts, Zenon
    <2>3. y \in Seq(Nat) /\ Len(y) = c - b /\ \A i \in 1..(c - b) : y[i] = b + i - 1
      BY <1>1, RunFacts, Zenon
    <2>4. z \in Seq(Nat) /\ Len(z) = c - a /\ \A i \in 1..(c - a) : z[i] = a + i - 1
      BY <1>1, <2>1, RunFacts, Zenon
    <2> QED
      BY <2>2, <2>3, <2>4
  <1>3. PICK n \in Nat, m \in Nat : n = b - a /\ m = c - b /\ c - a = n + m
    <2>1. b - a \in Nat /\ c - b \in Nat /\ c - a = (b - a) + (c - b)
      OBVIOUS
    <2> QED
      BY <2>1
  <1>4. /\ x \o y \in Seq(Nat) /\ Len(x \o y) = n + m
        /\ \A i \in 1..(n + m) : (x \o y)[i] = IF i <= n THEN x[i] ELSE y[i - n]
    <2>1. x \in Seq(Nat) /\ y \in Seq(Nat) /\ Len(x) = n /\ Len(y) = m
      BY <1>2, <1>3
    <2> QED
      BY <2>1
  <1>5. ASSUME NEW i \in 1..(n + m) PROVE (x \o y)[i] = z[i]
    <2>1. CASE i <= n
      BY <1>2, <1>3, <1>4, <2>1
    <2>2. CASE n < i
      <3>1. i - n \in 1..m
        BY <2>2
      <3>2. (x \o y)[i] = y[i - n]
        BY <1>4, <2>2
      <3>3. y[i - n] = b + (i - n) - 1
        BY <1>2, <1>3, <3>1
      <3>4. b + (i - n) - 1 = a + i - 1
        BY <1>3
      <3>5. z[i] = a + i - 1
        BY <1>2, <1>3
      <3> QED
        BY <3>2, <3>3, <3>4, <3>5
    <2>3. i <= n \/ n < i
      OBVIOUS
    <2> QED
      BY <2>1, <2>2, <2>3, Zenon
  <1> QED
    BY <1>1, <1>2, <1>3, <1>4, <1>5, SeqEqual

(* Ends of runs that follow one another.                                   *)
Follow(a, n) ==
  /\ \A k \in 1..(n + 1) : a[k] \in Nat
  /\ \A j, k \in 1..(n + 1) : j <= k => a[j] <= a[k]

LEMMA FlattenRuns ==
  ASSUME NEW n \in Nat, NEW a, Follow(a, n),
         NEW seqs, seqs = [k \in 1..n |-> Run(a[k], a[k + 1])]
  PROVE  H!Seqs!FlattenSeq(seqs) = Run(a[1], a[n + 1])
  <1>1. \A k \in 1..(n + 1) : a[k] \in Nat /\ a[k] - a[k] = 0
    BY DEF Follow
  <1>2. DOMAIN seqs = 1..n
    OBVIOUS
  <1>3. Len(seqs) = n
    <2>1. PICK R : R = {Run(a[k], a[k + 1]) : k \in 1..n}
      OBVIOUS
    <2>2. \A k \in 1..n : seqs[k] \in R
      BY <2>1
    <2>3. seqs \in Seq(R)
      BY <2>2
    <2> QED
      BY <1>2, <2>3
  <1>4. CASE n = 0
    <2>1. H!Seqs!FlattenSeq(seqs) = seqs
      BY <1>3, <1>4 DEF H!Seqs!FlattenSeq
    <2>2. Run(a[1], a[1]) = [x \in 1..0 |-> a[1] + x - 1]
      BY <1>1, <1>4 DEF Run
    <2>3. seqs = [x \in 1..0 |-> a[1] + x - 1]
      BY <1>4
    <2> QED
      BY <1>4, <2>1, <2>2, <2>3
  <1>5. CASE n # 0
    <2>1. PICK f : f = [i \in 1..n |-> Run(a[1], a[i + 1])]
      OBVIOUS
    <2>2. ASSUME NEW i \in 1..n
          PROVE  f[i] = IF i = 1 THEN seqs[i] ELSE f[i - 1] \o seqs[i]
      <3>1. f[i] = Run(a[1], a[i + 1]) /\ seqs[i] = Run(a[i], a[i + 1])
        BY <2>1
      <3>2. CASE i = 1
        BY <3>1, <3>2
      <3>3. CASE i # 1
        <4>1. i - 1 \in 1..n /\ (i - 1) + 1 = i
          BY <3>3
        <4>2. f[i - 1] = Run(a[1], a[i])
          BY <2>1, <4>1
        <4>3. 1 \in 1..(n + 1) /\ i \in 1..(n + 1) /\ i + 1 \in 1..(n + 1) /\ 1 <= i /\ i <= i + 1
          OBVIOUS
        <4>4. PICK x \in Nat, y \in Nat, z \in Nat :
                x = a[1] /\ y = a[i] /\ z = a[i + 1] /\ x <= y /\ y <= z
          BY <4>3 DEF Follow
        <4>5. Run(x, y) \o Run(y, z) = Run(x, z)
          BY <4>4, JoinRuns
        <4> QED
          BY <3>1, <3>3, <4>2, <4>4, <4>5
      <3> QED
        BY <3>2, <3>3
    <2>3. PICK g : g = CHOOSE h : h = [i \in 1..n |->
                         IF i = 1 THEN seqs[i] ELSE h[i - 1] \o seqs[i]]
      OBVIOUS
    <2>4. f = [i \in 1..n |-> IF i = 1 THEN seqs[i] ELSE f[i - 1] \o seqs[i]]
      BY <2>1, <2>2
    <2>5. g = [i \in 1..n |-> IF i = 1 THEN seqs[i] ELSE g[i - 1] \o seqs[i]]
      BY <2>3, <2>4
    <2>6. H!Seqs!FlattenSeq(seqs) = g[n]
      BY <1>3, <1>5, <2>3 DEF H!Seqs!FlattenSeq
    <2>7. \A i \in 1..n : g[i] = f[i]
      <3> DEFINE Wrong == {i \in 1..n : g[i] # f[i]}
      <3> SUFFICES ASSUME Wrong # {} PROVE FALSE
        OBVIOUS
      <3>1. PICK i \in Wrong : \A j \in Wrong : i <= j
        <4>1. Wrong \in SUBSET Nat
          OBVIOUS
        <4> QED
          BY <4>1, LeastNat
      <3>2. g[i] = (IF i = 1 THEN seqs[i] ELSE g[i - 1] \o seqs[i])
        BY <2>5
      <3>3. i # 1 => i - 1 \in 1..n /\ i - 1 \notin Wrong
        BY <3>1
      <3>4. g[i] = f[i]
        BY <2>2, <3>2, <3>3
      <3> QED
        BY <3>4
    <2>8. n \in 1..n
      BY <1>5
    <2>9. f[n] = Run(a[1], a[n + 1])
      BY <2>1, <2>8
    <2> QED
      BY <2>6, <2>7, <2>8, <2>9
  <1> QED
    BY <1>4, <1>5

(* What a tree that untangles crossing ranges rests on.  up[k] has the     *)
(* numbers of the ranges that contain range k, and 0 for the whole text:   *)
(* a range between another one and a range in it contains the latter or is *)
(* contained in the former.                                                *)
Ancestry(up, e) ==
  /\ \A k \in 1..e : 0 \in up[k] /\ up[k] \subseteq 0..(k - 1)
  /\ \A k \in 1..e : \A j \in up[k] : j # 0 => up[j] \subseteq up[k]
  /\ \A k \in 1..e : \A i \in up[k] : \A j \in (i + 1)..(k - 1) : j \in up[k] \/ i \in up[j]

Under(up, i, k) == i \in up[k] /\ \A j \in up[k] : j <= i

(* Range i contains all of the ranges behind it until last[i], not longer. *)
Ends(up, e, last) ==
  /\ \A i \in 0..e : last[i] \in i..e
  /\ \A i \in 0..e : \A k \in (i + 1)..last[i] : i \in up[k]
  /\ \A i \in 0..e : last[i] < e => i \notin up[last[i] + 1]

LEMMA EndsExist ==
  ASSUME NEW e \in Nat, NEW up, Ancestry(up, e)
  PROVE  \E last : Ends(up, e, last) /\ last[0] = e /\ DOMAIN last = 0..e
  <1> DEFINE Kin(i) == {j \in i..e : \A k \in (i + 1)..j : i \in up[k]}
             Greatest(i) == CHOOSE m \in Kin(i) : \A j \in Kin(i) : j <= m
  <1>1. PICK last : last = [i \in 0..e |-> Greatest(i)]
    OBVIOUS
  <1>2. ASSUME NEW i \in 0..e
        PROVE  /\ last[i] \in i..e
               /\ \A k \in (i + 1)..last[i] : i \in up[k]
               /\ last[i] < e => i \notin up[last[i] + 1]
    <2>1. i \in Kin(i) /\ Kin(i) \in SUBSET (0..e)
      OBVIOUS
    <2>2. \E m \in Kin(i) : \A j \in Kin(i) : j <= m
      <3>1. Kin(i) # {} /\ Kin(i) \in SUBSET (0..e)
        BY <2>1
      <3> HIDE DEF Kin
      <3> QED
        BY <3>1, GreatestNat
    <2>3. PICK m : m = last[i]
      OBVIOUS
    <2>4. m \in Kin(i) /\ \A j \in Kin(i) : j <= m
      <3> HIDE DEF Kin
      <3> QED
        BY <1>1, <2>2, <2>3
    <2>5. m \in i..e /\ \A k \in (i + 1)..m : i \in up[k]
      BY <2>4
    <2>6. ASSUME m < e, i \in up[m + 1] PROVE FALSE
      <3>1. m + 1 \in i..e /\ \A k \in (i + 1)..(m + 1) : k \in (i + 1)..m \/ k = m + 1
        BY <2>5, <2>6
      <3>2. m + 1 \in Kin(i)
        BY <2>5, <2>6, <3>1
      <3> QED
        BY <2>4, <2>5, <3>2
    <2> QED
      BY <2>3, <2>5, <2>6
  <1>3. Ends(up, e, last)
    BY <1>2 DEF Ends
  <1>4. last[0] = e
    <2>1. last[0] \in 0..e /\ (last[0] < e => 0 \notin up[last[0] + 1])
      BY <1>2
    <2>2. PICK m \in 0..e : m = last[0] /\ (m < e => 0 \notin up[m + 1])
      BY <2>1
    <2>3. m < e => m + 1 \in 1..e
      OBVIOUS
    <2>4. ~(m < e)
      BY <2>2, <2>3 DEF Ancestry
    <2> QED
      BY <2>2, <2>4
  <1>5. DOMAIN last = 0..e
    BY <1>1
  <1> QED
    BY <1>3, <1>4, <1>5, Zenon

LEMMA FirstUnder ==
  ASSUME NEW e \in Nat, NEW up, Ancestry(up, e), NEW last, Ends(up, e, last),
         NEW i \in 0..e, i < last[i]
  PROVE  i + 1 \in 1..e /\ Under(up, i, i + 1)
  <1>1. last[i] \in i..e
    BY DEF Ends
  <1>2. i + 1 \in (i + 1)..last[i] /\ i + 1 \in 1..e
    BY <1>1
  <1>3. i \in up[i + 1] /\ up[i + 1] \subseteq 0..((i + 1) - 1)
    BY <1>2 DEF Ends, Ancestry
  <1> QED
    BY <1>2, <1>3 DEF Under

(* The ranges below i follow one another: where the part of one ends, the  *)
(* next begins.                                                            *)
LEMMA NextUnder ==
  ASSUME NEW e \in Nat, NEW up, Ancestry(up, e), NEW last, Ends(up, e, last),
         NEW i \in 0..e, NEW c \in 1..e, Under(up, i, c)
  PROVE  /\ i < c /\ c <= last[c] /\ last[c] <= last[i]
         /\ \A k \in 1..e : c < k /\ Under(up, i, k) => last[c] < k
         /\ last[c] < last[i] => last[c] + 1 \in 1..e /\ Under(up, i, last[c] + 1)
  <1>1. PICK l \in Nat, m \in Nat :
          l = last[c] /\ m = last[i] /\ l \in c..e /\ m \in i..e
    <2>1. c \in 0..e /\ last[c] \in c..e /\ last[i] \in i..e
      BY DEF Ends
    <2> QED
      BY <2>1
  <1>2. /\ \A k \in (i + 1)..m : i \in up[k]
        /\ \A k \in (c + 1)..l : c \in up[k]
        /\ m < e => i \notin up[m + 1]
        /\ l < e => c \notin up[l + 1]
    BY <1>1 DEF Ends
  <1>3. i \in up[c] /\ i < c /\ \A j \in up[c] : j <= i
    <2>1. i \in up[c] /\ up[c] \subseteq 0..(c - 1)
      BY DEF Under, Ancestry
    <2> QED
      BY <2>1 DEF Under
  <1>4. c <= m
    <2> SUFFICES ASSUME m < c PROVE FALSE
      BY <1>1
    <2>1. m < e /\ (m + 1 = c \/ m + 1 \in (i + 1)..(c - 1))
      BY <1>1
    <2>2. m + 1 # c
      BY <1>2, <1>3, <2>1
    <2>3. m + 1 \in up[c]
      BY <1>2, <1>3, <2>1, <2>2 DEF Ancestry
    <2> QED
      BY <1>1, <1>3, <2>3
  <1>5. l <= m
    <2> SUFFICES ASSUME m < l PROVE FALSE
      BY <1>1
    <2>1. m + 1 \in (c + 1)..l /\ m + 1 \in 1..e /\ m < e /\ c # 0
      BY <1>1, <1>4
    <2>2. c \in up[m + 1]
      BY <1>2, <2>1
    <2>3. up[c] \subseteq up[m + 1]
      BY <2>1, <2>2 DEF Ancestry
    <2> QED
      BY <1>2, <1>3, <2>1, <2>3
  <1>6. ASSUME NEW k \in 1..e, c < k, Under(up, i, k) PROVE l < k
    <2> SUFFICES ASSUME k <= l PROVE FALSE
      BY <1>1
    <2>1. k \in (c + 1)..l
      BY <1>6
    <2>2. c \in up[k]
      BY <1>2, <2>1
    <2> QED
      BY <1>3, <1>6, <2>2 DEF Under
  <1>7. ASSUME l < m PROVE l + 1 \in 1..e /\ Under(up, i, l + 1)
    <2>1. l + 1 \in 1..e /\ l + 1 \in (i + 1)..m /\ l < e
      BY <1>1, <1>3, <1>7
    <2>2. i \in up[l + 1] /\ c \notin up[l + 1]
      BY <1>2, <2>1
    <2>3. up[l + 1] \subseteq 0..((l + 1) - 1)
      BY <2>1 DEF Ancestry
    <2>4. ASSUME NEW j \in up[l + 1], i < j PROVE FALSE
      <3>1. j \in 0..l /\ j # 0
        BY <2>3, <2>4
      <3>2. j # c
        BY <2>2
      <3>3. CASE c < j
        <4>1. j \in (c + 1)..l
          BY <3>1, <3>3
        <4>2. c \in up[j]
          BY <1>2, <4>1
        <4>3. up[j] \subseteq up[l + 1]
          BY <2>1, <3>1 DEF Ancestry
        <4> QED
          BY <2>2, <4>2, <4>3
      <3>4. CASE j < c
        <4>1. c \in (j + 1)..((l + 1) - 1)
          BY <1>1, <3>1, <3>4
        <4>2. c \in up[l + 1] \/ j \in up[c]
          BY <2>1, <4>1 DEF Ancestry
        <4>3. j \in up[c] => j <= i
          BY <1>3
        <4> QED
          BY <2>2, <2>4, <3>1, <4>2, <4>3
      <3> QED
        BY <3>1, <3>2, <3>3, <3>4
    <2>5. \A j \in up[l + 1] : j <= i
      BY <2>3, <2>4
    <2> QED
      BY <2>1, <2>2, <2>5 DEF Under
  <1> QED
    BY <1>1, <1>3, <1>5, <1>6, <1>7

(* So the parts of the ranges below i make up what is behind i; they begin *)
(* at the places of a.                                                     *)
Parts(a, s, last, i, e) ==
  /\ Follow(a, Len(s)) /\ a[1] = i + 1 /\ a[Len(s) + 1] = last[i] + 1
  /\ \A k \in 1..Len(s) : s[k] \in 1..e /\ a[k] = s[k] /\ a[k + 1] = last[s[k]] + 1

LEMMA PartsFollow ==
  ASSUME NEW e \in Nat, NEW up, Ancestry(up, e), NEW last, Ends(up, e, last),
         NEW i \in 0..e, NEW s \in Seq(Nat), Climbs(s),
         \A k \in Nat : H!Seqs!Contains(s, k) <=> k \in 1..e /\ Under(up, i, k)
  PROVE  \E a : Parts(a, s, last, i, e)
  <1>1. PICK n \in Nat, m \in Nat : n = Len(s) /\ m = last[i] /\ m \in i..e
    <2>1. Len(s) \in Nat /\ last[i] \in i..e
      BY DEF Ends
    <2> QED
      BY <2>1
  <1>2. ASSUME NEW k \in 1..n PROVE s[k] \in 1..e /\ Under(up, i, s[k])
    <2>1. s[k] \in Nat /\ H!Seqs!Contains(s, s[k])
      BY <1>1 DEF H!Seqs!Contains
    <2> QED
      BY <2>1
  <1>3. ASSUME NEW k \in 1..e, Under(up, i, k) PROVE \E q \in 1..n : s[q] = k
    <2>1. H!Seqs!Contains(s, k)
      BY <1>3
    <2> QED
      BY <1>1, <2>1 DEF H!Seqs!Contains
  <1>4. ASSUME NEW k \in 1..n
        PROVE  /\ last[s[k]] \in Nat /\ i < s[k] /\ s[k] <= last[s[k]] /\ last[s[k]] <= m
               /\ \A j \in 1..e : s[k] < j /\ Under(up, i, j) => last[s[k]] < j
               /\ last[s[k]] < m => last[s[k]] + 1 \in 1..e /\ Under(up, i, last[s[k]] + 1)
    <2>1. s[k] \in 1..e /\ Under(up, i, s[k])
      BY <1>2
    <2>2. last[s[k]] \in Nat
      <3>1. s[k] \in 0..e
        BY <2>1
      <3>2. last[s[k]] \in s[k]..e
        BY <3>1 DEF Ends
      <3> QED
        BY <2>1, <3>2
    <2> QED
      BY <1>1, <2>1, <2>2, NextUnder
  <1>5. \A j, k \in 1..n : j < k => s[j] < s[k]
    BY <1>1 DEF Climbs
  <1>6. PICK a : a = [k \in 1..(n + 1) |-> IF k <= n THEN s[k] ELSE m + 1]
    OBVIOUS
  <1>7. a[n + 1] = m + 1 /\ \A k \in 1..n : a[k] = s[k]
    <2>1. n + 1 \in 1..(n + 1) /\ ~(n + 1 <= n) /\ \A k \in 1..n : k \in 1..(n + 1) /\ k <= n
      OBVIOUS
    <2> QED
      BY <1>6, <2>1
  <1>8. a[1] = i + 1
    <2>1. i < m => \E q \in 1..n : s[q] = i + 1
      BY <1>1, <1>3, FirstUnder
    <2>2. CASE n = 0
      BY <1>1, <1>7, <2>1, <2>2
    <2>3. CASE n # 0
      <3>1. 1 \in 1..n
        BY <2>3
      <3>2. s[1] \in Nat /\ i < s[1] /\ s[1] <= m
        BY <1>2, <1>4, <3>1
      <3>3. PICK q \in 1..n : s[q] = i + 1
        BY <1>1, <2>1, <3>2
      <3>4. q = 1 \/ s[1] < s[q]
        BY <1>5, <3>1
      <3> QED
        BY <1>7, <3>1, <3>2, <3>3, <3>4
    <2> QED
      BY <2>2, <2>3
  <1>9. ASSUME NEW k \in 1..n PROVE a[k + 1] = last[s[k]] + 1
    <2>1. PICK c \in Nat, l \in Nat :
            c = s[k] /\ l = last[c] /\ c \in 1..e /\ c <= l /\ l <= m
      BY <1>2, <1>4
    <2>2. l < m => \E q \in 1..n : s[q] = l + 1
      BY <1>3, <1>4, <2>1
    <2>3. CASE k = n
      <3>1. ~(l < m)
        <4> SUFFICES ASSUME NEW q \in 1..n, s[q] = l + 1 PROVE FALSE
          BY <2>2
        <4>1. q = n \/ s[q] < s[n]
          BY <1>5, <2>3
        <4> QED
          BY <2>1, <2>3, <4>1
      <3> QED
        BY <1>7, <2>1, <2>3, <3>1
    <2>4. CASE k # n
      <3>1. k + 1 \in 1..n /\ k < k + 1
        BY <2>4
      <3>2. PICK d \in Nat : d = s[k + 1] /\ d \in 1..e /\ Under(up, i, d) /\ c < d /\ d <= m
        BY <1>2, <1>4, <1>5, <2>1, <3>1
      <3>3. l < d
        BY <1>4, <2>1, <3>2
      <3>4. PICK q \in 1..n : s[q] = l + 1
        BY <1>1, <2>2, <3>2, <3>3
      <3>5. ~(q < k + 1)
        <4>1. CASE q = k
          BY <2>1, <3>4, <4>1
        <4>2. CASE q < k
          BY <1>5, <2>1, <3>4, <4>2
        <4> QED
          BY <4>1, <4>2
      <3>6. q = k + 1 \/ d < l + 1
        BY <1>5, <3>1, <3>2, <3>4, <3>5
      <3>7. q = k + 1 => d = l + 1
        BY <3>2, <3>4
      <3>8. d = l + 1
        BY <2>1, <3>2, <3>3, <3>6, <3>7
      <3>9. a[k + 1] = d
        BY <1>7, <3>1, <3>2
      <3> QED
        BY <2>1, <3>8, <3>9
    <2> QED
      BY <2>3, <2>4
  <1>10. Follow(a, n)
    <2>1. \A k \in 1..(n + 1) : k \in 1..n \/ k = n + 1
      OBVIOUS
    <2>2. \A k \in 1..(n + 1) : a[k] \in Nat
      BY <1>1, <1>2, <1>7, <2>1
    <2>3. ASSUME NEW j \in 1..(n + 1), NEW k \in 1..(n + 1), j <= k
          PROVE  a[j] <= a[k]
      <3>1. CASE j = k
        BY <2>2, <3>1
      <3>2. CASE j < k /\ k \in 1..n
        <4>1. j \in 1..n /\ s[j] < s[k] /\ s[j] \in Nat /\ s[k] \in Nat
          BY <1>2, <1>5, <3>2
        <4> QED
          BY <1>7, <3>2, <4>1
      <3>3. CASE j < k /\ k = n + 1
        <4>1. j \in 1..n
          BY <3>3
        <4>2. PICK c, l : c = s[j] /\ l = last[c] /\ c \in 1..e /\ l \in Nat /\ c <= l /\ l <= m
          BY <1>2, <1>4, <4>1
        <4>3. c <= m + 1
          BY <1>1, <4>2
        <4> QED
          BY <1>7, <3>3, <4>1, <4>2, <4>3
      <3> QED
        BY <2>1, <2>3, <3>1, <3>2, <3>3
    <2> QED
      BY <2>2, <2>3 DEF Follow
  <1>11. Parts(a, s, last, i, e)
    BY <1>1, <1>2, <1>7, <1>8, <1>9, <1>10 DEF Parts
  <1> QED
    BY <1>11

LEMMA SiresAreAncestry ==
  ASSUME NEW rs, Placed(rs), NEW e \in 0..Len(rs)
  PROVE  Ancestry([k \in 1..e |-> Sires(rs, e, k) \cup {0}], e)
  <1>1. PICK up : up = [k \in 1..e |-> Sires(rs, e, k) \cup {0}]
    OBVIOUS
  <1>2. PICK n \in Nat : n = Len(rs) /\ e \in 0..n /\ e \in Nat
    BY DEF Placed
  <1>3. PICK begin, end : /\ begin = [k \in 1..n |-> rs[k].RawBegin]
                          /\ end = [k \in 1..n |-> rs[k].RawEnd]
    OBVIOUS
  <1>4. \A k \in 1..n : begin[k] = rs[k].RawBegin /\ end[k] = rs[k].RawEnd
    BY <1>3
  <1>5. /\ \A k \in 1..n : begin[k] \in Nat /\ end[k] \in Nat
        /\ \A j, k \in 1..n : j < k => begin[j] < begin[k]
    <2>1. \A k \in 1..n : rs[k].RawBegin \in Nat /\ rs[k].RawEnd \in Nat
      BY <1>2, PlacedFacts
    <2> QED
      BY <1>2, <1>4, <2>1 DEF Placed
  <1>6. \A k \in 1..e : k \in 1..n /\ up[k] = Sires(rs, e, k) \cup {0}
    BY <1>1, <1>2
  <1>7. \A k \in 1..e, j \in 1..e :
          j \in up[k] <=> begin[j] < begin[k] /\ end[k] <= end[j]
    <2> SUFFICES ASSUME NEW k \in 1..e, NEW j \in 1..e
                 PROVE  j \in up[k] <=> begin[j] < begin[k] /\ end[k] <= end[j]
      OBVIOUS
    <2>1. j # 0 /\ (j \in up[k] <=> H!ContainsRange(rs[j], rs[k]))
      BY <1>6 DEF Sires
    <2> QED
      BY <1>4, <1>6, <2>1 DEF H!ContainsRange
  <1>8. ASSUME NEW k \in 1..e PROVE 0 \in up[k] /\ up[k] \subseteq 0..(k - 1)
    <2>1. 0 \in up[k] /\ \A j \in up[k] : j = 0 \/ j \in 1..e
      BY <1>6 DEF Sires
    <2>2. ASSUME NEW j \in 1..e, j \in up[k] PROVE j \in 0..(k - 1)
      <3>1. begin[j] < begin[k] /\ j \in 1..n /\ k \in 1..n
        BY <1>6, <1>7, <2>2
      <3>2. ~(k <= j)
        BY <1>5, <3>1
      <3> QED
        BY <3>1, <3>2
    <2>3. 0 \in 0..(k - 1)
      OBVIOUS
    <2> QED
      BY <2>1, <2>2, <2>3
  <1>9. ASSUME NEW k \in 1..e, NEW j \in up[k], j # 0 PROVE up[j] \subseteq up[k]
    <2> SUFFICES ASSUME NEW i \in up[j] PROVE i \in up[k]
      OBVIOUS
    <2>1. j \in 1..e /\ 0 \in up[k]
      BY <1>6, <1>9 DEF Sires
    <2>2. i = 0 \/ i \in 1..e
      BY <1>6, <2>1 DEF Sires
    <2>3. CASE i \in 1..e
      <3>1. begin[j] < begin[k] /\ end[k] <= end[j] /\ begin[i] < begin[j] /\ end[j] <= end[i]
        BY <1>7, <2>1, <2>3
      <3>2. begin[i] < begin[k] /\ end[k] <= end[i]
        BY <1>5, <1>6, <2>1, <2>3, <3>1
      <3> QED
        BY <1>7, <2>3, <3>2
    <2> QED
      BY <2>1, <2>2, <2>3
  <1>10. ASSUME NEW k \in 1..e, NEW i \in up[k], NEW j \in (i + 1)..(k - 1)
         PROVE  j \in up[k] \/ i \in up[j]
    <2>1. i \in 0..(k - 1)
      BY <1>8
    <2>2. j \in 1..e /\ i < j /\ j < k
      BY <2>1
    <2>3. CASE i = 0
      BY <1>8, <2>2, <2>3
    <2>4. CASE i # 0
      <3>1. i \in 1..e /\ i \in 1..n /\ j \in 1..n /\ k \in 1..n
        BY <1>6, <2>1, <2>2, <2>4
      <3>2. begin[i] < begin[j] /\ begin[j] < begin[k] /\ end[k] <= end[i]
        BY <1>5, <1>7, <2>2, <3>1
      <3>3. end[k] <= end[j] \/ end[j] <= end[i]
        BY <1>5, <3>1, <3>2
      <3> QED
        BY <1>7, <2>2, <3>1, <3>2, <3>3
    <2> QED
      BY <2>3, <2>4
  <1> QED
    BY <1>1, <1>8, <1>9, <1>10 DEF Ancestry

LEMMA TreeParts ==
  ASSUME NEW rs, Placed(rs), NEW e \in 0..Len(rs),
         NEW kids, NEW tops, Hung(rs, e, kids, tops)
  PROVE  \E last : /\ \A i \in 0..Len(rs) : last[i] \in Nat /\ i <= last[i]
                   /\ last[0] = e
                   /\ \E a : Parts(a, tops, last, 0, e)
                   /\ \A i \in 1..Len(rs) : \E a : Parts(a, kids[i], last, i, e)
  <1>1. PICK up : up = [k \in 1..e |-> Sires(rs, e, k) \cup {0}]
    OBVIOUS
  <1>2. PICK n \in Nat : n = Len(rs) /\ e \in 0..n /\ e \in Nat
    BY DEF Placed
  <1>3. Ancestry(up, e)
    BY <1>1, SiresAreAncestry
  <1>4. PICK ends : Ends(up, e, ends) /\ ends[0] = e
    BY <1>2, <1>3, EndsExist
  <1>5. PICK last : last = [i \in 0..n |-> IF i <= e THEN ends[i] ELSE i]
    OBVIOUS
  <1>6. /\ \A i \in 0..e : last[i] = ends[i] /\ last[i] \in i..e
        /\ \A i \in 0..n : ~(i <= e) => last[i] = i
    <2>1. \A i \in 0..e : i \in 0..n /\ i <= e /\ ends[i] \in i..e
      BY <1>2, <1>4 DEF Ends
    <2> QED
      BY <1>5, <2>1
  <1>7. Ends(up, e, last) /\ last[0] = e
    <2>1. 0 \in 0..e
      BY <1>2
    <2> QED
      BY <1>4, <1>6, <2>1 DEF Ends
  <1>8. \A i \in 0..n : last[i] \in Nat /\ i <= last[i]
    <2> SUFFICES ASSUME NEW i \in 0..n PROVE last[i] \in Nat /\ i <= last[i]
      OBVIOUS
    <2>1. CASE i <= e
      BY <1>2, <1>6, <2>1
    <2>2. CASE ~(i <= e)
      BY <1>6, <2>2
    <2> QED
      BY <2>1, <2>2
  <1>9. \A p : \A k \in 1..e : p \in up[k] <=> p = 0 \/ p \in Sires(rs, e, k)
    BY <1>1
  <1>10. \A k \in 1..e : 0 \notin Sires(rs, e, k) /\ \A j \in Sires(rs, e, k) : j \in 1..e
    BY DEF Sires
  <1>11. \E a : Parts(a, tops, last, 0, e)
    <2>1. \A k \in 1..e : Under(up, 0, k) <=> Sires(rs, e, k) = {}
      BY <1>9, <1>10 DEF Under
    <2>2. \A k \in Nat : H!Seqs!Contains(tops, k) <=> k \in 1..e /\ Under(up, 0, k)
      BY <2>1 DEF Hung
    <2>3. tops \in Seq(Nat) /\ Climbs(tops) /\ 0 \in 0..e
      BY <1>2 DEF Hung
    <2> QED
      BY <1>2, <1>3, <1>7, <2>2, <2>3, PartsFollow
  <1>12. ASSUME NEW i \in 1..n PROVE \E a : Parts(a, kids[i], last, i, e)
    <2>1. PICK s : s = kids[i]
      OBVIOUS
    <2>2. s \in Seq(Nat) /\ Climbs(s)
      BY <1>2, <2>1 DEF Hung
    <2>3. \A k \in Nat : H!Seqs!Contains(s, k) <=> k \in 1..e /\ Latest(rs, e, k, i)
      BY <1>2, <2>1 DEF Hung
    <2>4. CASE i <= e
      <3>1. \A k \in 1..e : Under(up, i, k) <=> Latest(rs, e, k, i)
        BY <1>9, <1>10 DEF Under, Latest
      <3>2. \A k \in Nat : H!Seqs!Contains(s, k) <=> k \in 1..e /\ Under(up, i, k)
        BY <2>3, <3>1
      <3>3. i \in 0..e
        BY <2>4
      <3> QED
        BY <1>2, <1>3, <1>7, <2>1, <2>2, <3>2, <3>3, PartsFollow
    <2>5. CASE ~(i <= e)
      <3>1. \A k \in Nat : ~H!Seqs!Contains(s, k)
        BY <1>2, <1>10, <2>3, <2>5 DEF Latest
      <3>2. Len(s) = 0
        <4> SUFFICES ASSUME Len(s) # 0 PROVE FALSE
          OBVIOUS
        <4>1. 1 \in 1..Len(s) /\ s[1] \in Nat
          BY <2>2
        <4> QED
          BY <3>1, <4>1 DEF H!Seqs!Contains
      <3>3. PICK a : a = [k \in 1..1 |-> i + 1]
        OBVIOUS
      <3>4. a[1] = i + 1 /\ i + 1 \in Nat /\ 0 + 1 = 1 /\ \A k \in 1..1 : k = 1
        BY <3>3
      <3>5. Follow(a, 0)
        BY <3>4 DEF Follow
      <3>6. last[i] = i /\ \A k \in 1..0 : FALSE
        BY <1>6, <2>5
      <3>7. Parts(a, s, last, i, e)
        BY <3>2, <3>4, <3>5, <3>6 DEF Parts
      <3> QED
        BY <2>1, <3>7
    <2> QED
      BY <2>4, <2>5
  <1> QED
    BY <1>2, <1>7, <1>8, <1>11, <1>12

\* f gives each of the first e tags the numbers up to its last descendant.
Lists(f, last, e) == \A k \in 1..e : f[k] = Run(k, last[k] + 1)

(* A node's children, each with what is below it, list one after another   *)
(* without a gap what is below the node.                                   *)
LEMMA PartsFlatten ==
  ASSUME NEW e \in Nat, NEW i \in Nat, NEW s \in Seq(Nat), NEW last, NEW a,
         Parts(a, s, last, i, e),
         NEW f, Lists(f, last, e),
         NEW seqs, seqs = [c \in DOMAIN s |-> f[s[c]]]
  PROVE  H!Seqs!FlattenSeq(seqs) = Run(i + 1, last[i] + 1)
  <1>1. PICK n \in Nat : n = Len(s) /\ DOMAIN s = 1..n
    OBVIOUS
  <1>2. seqs = [c \in 1..n |-> f[s[c]]]
    BY <1>1
  <1>3. \A c \in 1..n : f[s[c]] = Run(a[c], a[c + 1])
    BY <1>1 DEF Parts, Lists
  <1>4. seqs = [c \in 1..n |-> Run(a[c], a[c + 1])]
    BY <1>2, <1>3
  <1>5. H!Seqs!FlattenSeq(seqs) = Run(a[1], a[n + 1])
    BY <1>1, <1>4, FlattenRuns DEF Parts
  <1> QED
    BY <1>1, <1>2, <1>5 DEF Parts

(* AppendRanges lists the tags in the order they begin in.                 *)
LEMMA PreorderOfTree == TreeInv => H!PreorderIsDocumentOrder
  <1> SUFFICES ASSUME TreeInv PROVE H!PreorderIsDocumentOrder
    OBVIOUS
  <1>1. PICK n, e, kids, tops :
          /\ n = Len(ranges) /\ e = entries /\ kids = children /\ tops = roots
          /\ n \in Nat /\ e \in Nat /\ e <= n /\ e \in 0..n
    BY DEF TreeInv, Placed
  <1>2. /\ \A i \in 1..n : kids[i] \in Seq(Nat)
        /\ tops \in Seq(Nat)
    BY <1>1 DEF TreeInv, Hung
  <1>3. PICK last : /\ \A i \in 0..n : last[i] \in Nat /\ i <= last[i]
                    /\ last[0] = e
                    /\ \E a : Parts(a, tops, last, 0, e)
                    /\ \A i \in 1..n : \E a : Parts(a, kids[i], last, i, e)
    BY <1>1, TreeParts DEF TreeInv
  <1>4. PICK f : f = [i \in 0..n |-> IF i = 0 THEN <<>> ELSE Run(i, last[i] + 1)]
    OBVIOUS
  <1>5. \A k \in 1..n : f[k] = Run(k, last[k] + 1)
    BY <1>4
  <1>6. ASSUME NEW i \in 1..n
        PROVE  f[i] = <<i>> \o H!Seqs!FlattenSeq([c \in DOMAIN kids[i] |-> f[kids[i][c]]])
    <2>1. PICK a, s : s = kids[i] /\ s \in Seq(Nat) /\ Parts(a, s, last, i, e)
      BY <1>2, <1>3
    <2>2. Lists(f, last, e)
      BY <1>1, <1>5 DEF Lists
    <2>3. H!Seqs!FlattenSeq([c \in DOMAIN s |-> f[s[c]]]) = Run(i + 1, last[i] + 1)
      <3>1. e \in Nat /\ i \in Nat
        BY <1>1
      <3>2. PICK seqs : seqs = [c \in DOMAIN s |-> f[s[c]]]
        OBVIOUS
      <3>3. H!Seqs!FlattenSeq(seqs) = Run(i + 1, last[i] + 1)
        BY <2>1, <2>2, <3>1, <3>2, PartsFlatten
      <3> QED
        BY <3>2, <3>3, Zenon
    <2>4. PICK l \in Nat : l = last[i] /\ i <= l
      <3>1. i \in 0..n
        OBVIOUS
      <3> QED
        BY <1>3, <3>1
    <2>5. <<i>> = Run(i, i + 1)
      <3>1. (i + 1) - i = 1 /\ \A x \in 1..1 : x = 1 /\ i + x - 1 = i
        OBVIOUS
      <3>2. i \in Nat /\ i + 1 \in Nat /\ i <= i + 1
        BY <1>1
      <3>3. PICK one : one = Run(i, i + 1)
        OBVIOUS
      <3>4. /\ one \in Seq(Nat) /\ Len(one) = (i + 1) - i
            /\ \A x \in 1..((i + 1) - i) : one[x] = i + x - 1
        BY <3>2, <3>3, RunFacts, Zenon
      <3> QED
        BY <3>1, <3>3, <3>4
    <2>6. Run(i, i + 1) \o Run(i + 1, l + 1) = Run(i, l + 1)
      <3>1. i \in Nat /\ i + 1 \in Nat /\ l + 1 \in Nat /\ i <= i + 1 /\ i + 1 <= l + 1
        BY <1>1, <2>4
      <3> QED
        BY <3>1, JoinRuns, Zenon
    <2> QED
      BY <1>5, <2>1, <2>3, <2>4, <2>5, <2>6
  <1>7. PICK g : g = CHOOSE h : h = [i \in 0..Len(ranges) |->
                       IF i = 0 THEN <<>>
                       ELSE <<i>> \o H!Seqs!FlattenSeq([c \in DOMAIN children[i] |->
                                                         h[children[i][c]]])]
    OBVIOUS
  <1>8. H!Preorder = H!Seqs!FlattenSeq([r \in DOMAIN tops |-> g[tops[r]]])
    <2>1. H!Preorder = H!Seqs!FlattenSeq([r \in DOMAIN roots |-> g[roots[r]]])
      BY <1>7 DEF H!Preorder
    <2> QED
      BY <1>1, <2>1
  <1>9. f = [i \in 0..Len(ranges) |->
               IF i = 0 THEN <<>>
               ELSE <<i>> \o H!Seqs!FlattenSeq([c \in DOMAIN children[i] |->
                                                 f[children[i][c]]])]
    <2>1. \A i \in 0..n : f[i] =
            IF i = 0 THEN <<>>
            ELSE <<i>> \o H!Seqs!FlattenSeq([c \in DOMAIN kids[i] |-> f[kids[i][c]]])
      <3>1. \A i \in 0..n : i = 0 \/ i \in 1..n
        OBVIOUS
      <3>2. f[0] = <<>> /\ \A i \in 1..n : i # 0
        BY <1>1, <1>4
      <3> QED
        BY <1>6, <3>1, <3>2, Zenon
    <2>2. f = [i \in 0..n |-> f[i]]
      BY <1>4
    <2>3. f = [i \in 0..n |->
                 IF i = 0 THEN <<>>
                 ELSE <<i>> \o H!Seqs!FlattenSeq([c \in DOMAIN kids[i] |-> f[kids[i][c]]])]
      BY <2>1, <2>2, Zenon
    <2> QED
      BY <1>1, <2>3, Zenon
  <1>10. g = [i \in 0..n |->
               IF i = 0 THEN <<>>
               ELSE <<i>> \o H!Seqs!FlattenSeq([c \in DOMAIN kids[i] |-> g[kids[i][c]]])]
    <2>1. g = [i \in 0..Len(ranges) |->
                 IF i = 0 THEN <<>>
                 ELSE <<i>> \o H!Seqs!FlattenSeq([c \in DOMAIN children[i] |->
                                                   g[children[i][c]]])]
      BY <1>7, <1>9, Zenon
    <2> QED
      BY <1>1, <2>1
  <1>11. \A i \in 1..n : g[i] = f[i]
    <2> DEFINE Wrong == {i \in 1..n : g[i] # f[i]}
    <2> SUFFICES ASSUME Wrong # {} PROVE FALSE
      OBVIOUS
    <2>1. PICK i \in Wrong : \A j \in Wrong : j <= i
      <3>1. Wrong \in SUBSET (0..n)
        OBVIOUS
      <3> HIDE DEF Wrong
      <3> QED
        BY <1>1, <3>1, GreatestNat
    <2>2. PICK a, s : s = kids[i] /\ s \in Seq(Nat) /\ Parts(a, s, last, i, e)
      BY <1>2, <1>3
    <2>3. ASSUME NEW c \in DOMAIN s PROVE g[s[c]] = f[s[c]]
      <3>1. c \in 1..Len(s) /\ s[c] \in 1..e /\ a[c] = s[c] /\ Len(s) \in Nat
        BY <2>2 DEF Parts
      <3>2. a[1] <= a[c] /\ a[1] = i + 1
        <4>1. 1 \in 1..(Len(s) + 1) /\ c \in 1..(Len(s) + 1) /\ 1 <= c
          BY <3>1
        <4> QED
          BY <2>2, <4>1 DEF Parts, Follow
      <3>3. i < s[c] /\ s[c] \in 1..n
        BY <1>1, <3>1, <3>2
      <3>4. s[c] \notin Wrong
        BY <2>1, <3>3
      <3> QED
        BY <3>3, <3>4
    <2>4. [c \in DOMAIN s |-> g[s[c]]] = [c \in DOMAIN s |-> f[s[c]]]
      BY <2>3
    <2>5. i \in 0..n /\ i # 0
      OBVIOUS
    <2>6. g[i] = <<i>> \o H!Seqs!FlattenSeq([c \in DOMAIN s |-> g[s[c]]])
      BY <1>10, <2>2, <2>5
    <2>7. f[i] = <<i>> \o H!Seqs!FlattenSeq([c \in DOMAIN s |-> f[s[c]]])
      BY <1>6, <2>2
    <2> QED
      BY <2>4, <2>6, <2>7
  <1>12. H!Seqs!FlattenSeq([r \in DOMAIN tops |-> g[tops[r]]]) = Run(1, e + 1)
    <2>1. PICK a : Parts(a, tops, last, 0, e)
      BY <1>3
    <2>2. Lists(g, last, e)
      BY <1>1, <1>5, <1>11 DEF Lists
    <2>3. 0 \in Nat /\ 0 + 1 = 1
      OBVIOUS
    <2>4. H!Seqs!FlattenSeq([r \in DOMAIN tops |-> g[tops[r]]]) = Run(0 + 1, last[0] + 1)
      <3>1. e \in Nat /\ tops \in Seq(Nat)
        BY <1>1, <1>2
      <3>2. PICK seqs : seqs = [r \in DOMAIN tops |-> g[tops[r]]]
        OBVIOUS
      <3>3. H!Seqs!FlattenSeq(seqs) = Run(0 + 1, last[0] + 1)
        BY <2>1, <2>2, <2>3, <3>1, <3>2, PartsFlatten
      <3> QED
        BY <3>2, <3>3, Zenon
    <2> QED
      BY <1>3, <2>3, <2>4
  <1>13. Run(1, e + 1) = [i \in 1..e |-> i]
    <2>1. (e + 1) - 1 = e /\ \A i \in 1..e : 1 + i - 1 = i
      BY <1>1
    <2> QED
      BY <2>1 DEF Run
  <1> QED
    BY <1>1, <1>8, <1>12, <1>13 DEF H!PreorderIsDocumentOrder

(* For every text that is rendered, however its tags cross: popping ended  *)
(* nodes lazily loses no parent.  Every node hangs below the latest tag    *)
(* that contains it, only a node that no tag contains is a root, and the   *)
(* tags are listed in document order, none of them lost or listed twice.   *)
THEOREM TreeAlwaysOfTags == ReadSpec => []TreeOfTags
  <1>1. TreeInv => H!ParentIsInnermost
    <2> SUFFICES ASSUME TreeInv, NEW i \in 1..entries, NEW p \in 1..entries
                 PROVE  /\ H!Seqs!Contains(roots, i) <=> H!Containers(i) = {}
                        /\ H!Seqs!Contains(children[p], i) <=>
                             p \in H!Containers(i) /\ \A j \in H!Containers(i) : j <= p
      BY DEF H!ParentIsInnermost
    <2>1. H!Containers(i) = Sires(ranges, entries, i)
      BY DEF H!Containers, Sires
    <2>2. i \in Nat /\ p \in 1..Len(ranges)
      BY DEF TreeInv, Placed
    <2> QED
      BY <2>1, <2>2 DEF TreeInv, Hung, Latest
  <1>2. ReadInit => TreeInv /\ ResultInv
    BY InitTree, InitScanned, InitResultInv DEF ReadInit
  <1>3. TreeInv /\ ResultInv /\ [ReadNext]_<<vars, treeVars, htmlVars, slotVars>>
          => TreeInv' /\ ResultInv'
    BY NextTree, StepsScan, NextResultInv
  <1>4. TreeInv => TreeOfTags
    BY <1>1, PreorderOfTree DEF TreeOfTags
  <1> QED
    BY <1>2, <1>3, <1>4, PTL DEF ReadSpec
=============================================================================
