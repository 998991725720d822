---------------------------- MODULE EditingProofs ----------------------------
(***************************************************************************)
(* The two editors of a text, for every value of their constants.          *)
(*                                                                         *)
(* DeleteBlock: whatever documents are parsed and whatever is deleted from *)
(* them, the listed blocks are those of the document, the document parses, *)
(* and the list of deletions tells how it came about.                      *)
(*                                                                         *)
(* InlineTagMutation: whatever texts a caller starts from and whatever     *)
(* ranges it styles, one call after the other, the style is where it was   *)
(* asked for and every other one where it was, the tags balance, and a     *)
(* call that is repeated changes nothing.                                  *)
(*                                                                         *)
(* First come facts about the definitions of Markup, for every document.   *)
(***************************************************************************)
EXTENDS DeleteBlock, InlineTagMutation, PositionsProofs

-----------------------------------------------------------------------------
(* The tokens that are cut off in front of a body.                         *)
Leading(token) == token.k \in {"space", "xmldecl", "doctype"}

LEMMA LeadIs ==
  ASSUME NEW A, NEW doc \in Seq(A), NEW k \in 0..Len(doc),
         \A j \in 1..k : Leading(doc[j]),
         k < Len(doc) => ~Leading(doc[k + 1])
  PROVE  Lead(doc) = k
  <1> DEFINE Leads == {i \in 0..Len(doc) :
                         \A j \in 1..i : doc[j].k \in {"space", "xmldecl", "doctype"}}
  <1>1. k \in Leads
    BY DEF Leading
  <1>2. ASSUME NEW i \in Leads PROVE i <= k
    <2>1. i \in 0..Len(doc) /\ k \in Nat /\ Len(doc) \in Nat
      OBVIOUS
    <2>2. ASSUME k < i PROVE FALSE
      <3>1. k < Len(doc) /\ k + 1 \in 1..i
        BY <2>1, <2>2
      <3>2. Leading(doc[k + 1])
        BY <3>1 DEF Leading
      <3> QED
        BY <3>1, <3>2
    <2> QED
      BY <2>1, <2>2
  <1>3. \A i \in Leads : i \in Nat
    OBVIOUS
  <1>4. Lead(doc) = Sets!Max(Leads)
    BY DEF Lead
  <1> HIDE DEF Leads
  <1>5. \A x \in Leads : (\A y \in Leads : x >= y) => x = k
    BY <1>1, <1>2, <1>3
  <1>6. \A y \in Leads : k >= y
    BY <1>2, <1>3
  <1> QED
    BY <1>1, <1>4, <1>5, <1>6 DEF Sets!Max

LEMMA LeadFacts ==
  ASSUME NEW A, NEW doc \in Seq(A)
  PROVE  /\ Lead(doc) \in 0..Len(doc)
         /\ \A j \in 1..Lead(doc) : Leading(doc[j])
         /\ Lead(doc) < Len(doc) => ~Leading(doc[Lead(doc) + 1])
  <1> DEFINE Ends == {i \in 0..Len(doc) : i = Len(doc) \/ ~Leading(doc[i + 1])}
  <1>1. Len(doc) \in Nat /\ Len(doc) \in Ends /\ Ends \in SUBSET Nat
    OBVIOUS
  <1>2. PICK k \in Ends : \A i \in Ends : k <= i
    BY <1>1, LeastNat
  <1>3. k \in 0..Len(doc) /\ k \in Nat /\ (k < Len(doc) => ~Leading(doc[k + 1]))
    BY <1>1
  <1>4. ASSUME NEW j \in 1..k PROVE Leading(doc[j])
    <2>1. j - 1 \in 0..Len(doc) /\ (j - 1) + 1 = j /\ j - 1 < k
      BY <1>1, <1>3
    <2>2. ~(k <= j - 1)
      BY <1>3
    <2>3. j - 1 \notin Ends
      BY <1>2, <2>2
    <2> QED
      BY <2>1, <2>3
  <1>5. Lead(doc) = k
    BY <1>3, <1>4, LeadIs
  <1> QED
    BY <1>3, <1>4, <1>5

(* A text is its prefix followed by its body.                              *)
LEMMA SplitText ==
  ASSUME NEW A, NEW doc \in Seq(A)
  PROVE  /\ PrefixOf(doc) \in Seq(A) /\ BodyOf(doc) \in Seq(A)
         /\ \A j \in 1..Len(PrefixOf(doc)) : Leading(PrefixOf(doc)[j])
         /\ doc = PrefixOf(doc) \o BodyOf(doc)
         /\ Lead(doc) = 0 => BodyOf(doc) = doc
  <1>1. PICK k \in 0..Len(doc) : k = Lead(doc)
    BY LeadFacts
  <1>2. PICK p : p = SubSeq(doc, 1, k)
    OBVIOUS
  <1>3. PICK r : r = SubSeq(doc, k + 1, Len(doc))
    OBVIOUS
  <1>4. Len(doc) \in Nat /\ k \in Nat /\ k <= Len(doc)
    OBVIOUS
  <1>5. /\ p \in Seq(A) /\ Len(p) = k
        /\ \A j \in 1..k : p[j] = doc[j]
    BY <1>2, <1>4
  <1>6. /\ r \in Seq(A) /\ Len(r) = Len(doc) - k
        /\ \A j \in 1..(Len(doc) - k) : r[j] = doc[k + j]
    BY <1>3, <1>4
  <1>7. Len(p \o r) = Len(doc) /\ p \o r \in Seq(A)
    BY <1>4, <1>5, <1>6
  <1>8. ASSUME NEW j \in 1..Len(doc) PROVE (p \o r)[j] = doc[j]
    <2>1. CASE j \in 1..k
      BY <1>4, <1>5, <1>6, <2>1
    <2>2. CASE j \notin 1..k
      <3>1. j - k \in 1..(Len(doc) - k) /\ k + (j - k) = j
        BY <1>4, <2>2
      <3>2. (p \o r)[j] = r[j - k]
        BY <1>4, <1>5, <1>6, <2>2
      <3> QED
        BY <1>6, <3>1, <3>2
    <2> QED
      BY <2>1, <2>2
  <1>9. p \o r = doc
    BY <1>7, <1>8, SeqEqual
  <1>10. ASSUME k = 0 PROVE r = doc
    BY <1>4, <1>6, <1>10
  <1> QED
    BY <1>1, <1>2, <1>3, <1>5, <1>6, <1>9, <1>10, LeadFacts DEF PrefixOf, BodyOf

(* What leads a text in front does not reach into its body.                *)
LEMMA BodyAfter ==
  ASSUME NEW A, NEW p \in Seq(A), NEW r \in Seq(A),
         \A j \in 1..Len(p) : Leading(p[j])
  PROVE  BodyOf(p \o r) = BodyOf(r)
  <1>1. PICK n \in Nat : n = Len(p)
    OBVIOUS
  <1>2. PICK m \in Nat : m = Len(r)
    OBVIOUS
  <1>3. PICK t : t = p \o r
    OBVIOUS
  <1>4. /\ t \in Seq(A) /\ Len(t) = n + m
        /\ \A j \in 1..n : t[j] = p[j]
        /\ \A j \in 1..m : t[n + j] = r[j]
    BY <1>1, <1>2, <1>3
  <1>5. PICK k \in 0..m : /\ k = Lead(r)
                          /\ \A j \in 1..k : Leading(r[j])
                          /\ k < m => ~Leading(r[k + 1])
    BY <1>2, LeadFacts
  <1>6. \A j \in 1..(n + k) : Leading(t[j])
    <2> SUFFICES ASSUME NEW j \in 1..(n + k) PROVE Leading(t[j])
      OBVIOUS
    <2>1. CASE j \in 1..n
      BY <1>1, <1>4, <2>1
    <2>2. CASE j \notin 1..n
      <3>1. j - n \in 1..k /\ j - n \in 1..m /\ j = n + (j - n)
        BY <2>2
      <3>2. t[j] = r[j - n]
        BY <1>4, <3>1
      <3> QED
        BY <1>5, <3>1, <3>2
    <2> QED
      BY <2>1, <2>2
  <1>7. n + k < n + m => ~Leading(t[(n + k) + 1])
    <2> SUFFICES ASSUME n + k < n + m PROVE ~Leading(t[(n + k) + 1])
      OBVIOUS
    <2>1. k < m /\ k + 1 \in 1..m /\ (n + k) + 1 = n + (k + 1)
      OBVIOUS
    <2> QED
      BY <1>4, <1>5, <2>1
  <1>8. Lead(t) = n + k
    BY <1>4, <1>6, <1>7, LeadIs
  <1>9. PICK b : b = SubSeq(t, n + k + 1, n + m)
    OBVIOUS
  <1>10. PICK c : c = SubSeq(r, k + 1, m)
    OBVIOUS
  <1>11. b \in Seq(A) /\ Len(b) = m - k /\ \A j \in 1..(m - k) : b[j] = t[n + k + j]
    <2>1. /\ n + k \in Nat /\ n + m \in Nat
          /\ n + k <= n + m /\ n + m <= Len(t) /\ (n + m) - (n + k) = m - k
      BY <1>4
    <2> QED
      BY <1>4, <1>9, <2>1, SliceFacts
  <1>12. c \in Seq(A) /\ Len(c) = m - k /\ \A j \in 1..(m - k) : c[j] = r[k + j]
    BY <1>2, <1>10
  <1>13. \A j \in 1..(m - k) : t[n + k + j] = r[k + j]
    <2> SUFFICES ASSUME NEW j \in 1..(m - k) PROVE t[n + k + j] = r[k + j]
      OBVIOUS
    <2>1. k + j \in 1..m /\ n + k + j = n + (k + j)
      OBVIOUS
    <2> QED
      BY <1>4, <2>1
  <1>14. b = c
    <2>1. Len(b) = Len(c) /\ \A j \in 1..Len(b) : b[j] = c[j]
      BY <1>11, <1>12, <1>13
    <2> QED
      BY <1>11, <1>12, <2>1, SeqEqual
  <1> QED
    BY <1>2, <1>3, <1>4, <1>5, <1>8, <1>9, <1>10, <1>14 DEF BodyOf

LEMMA BodyOfBody ==
  ASSUME NEW A, NEW doc \in Seq(A)
  PROVE  BodyOf(BodyOf(doc)) = BodyOf(doc)
  <1>1. PICK p, r \in Seq(A) : p = PrefixOf(doc) /\ r = BodyOf(doc)
    BY SplitText
  <1>2. doc = p \o r /\ \A j \in 1..Len(p) : Leading(p[j])
    BY <1>1, SplitText
  <1>3. BodyOf(p \o r) = BodyOf(r)
    BY <1>1, <1>2, BodyAfter
  <1> QED
    BY <1>1, <1>2, <1>3

-----------------------------------------------------------------------------
(* How many tags of one name are open after i tokens.                      *)
Depth(doc, name, i) == Opened(doc, name, i) - Closed(doc, name, i)

(* Counting one token more.                                                *)
LEMMA CountNext ==
  ASSUME NEW d, NEW name, NEW i \in Nat
  PROVE  /\ Opened(d, name, i) \in Nat /\ Closed(d, name, i) \in Nat
         /\ Opened(d, name, i + 1) = Opened(d, name, i)
              + (IF d[i + 1].k = "open" /\ d[i + 1].n = name THEN 1 ELSE 0)
         /\ Closed(d, name, i + 1) = Closed(d, name, i)
              + (IF d[i + 1].k = "close" /\ d[i + 1].n = name THEN 1 ELSE 0)
  <1> DEFINE Os(n) == {j \in 1..n : d[j].k = "open" /\ d[j].n = name}
             Cs(n) == {j \in 1..n : d[j].k = "close" /\ d[j].n = name}
  <1>1. IsFiniteSet(Os(i)) /\ IsFiniteSet(Cs(i))
    <2>1. IsFiniteSet(1..i) /\ Os(i) \in SUBSET (1..i) /\ Cs(i) \in SUBSET (1..i)
      BY FS_Interval
    <2> HIDE DEF Os, Cs
    <2> QED
      BY <2>1, FS_Subset
  <1>2. i + 1 \notin Os(i) /\ i + 1 \notin Cs(i)
    OBVIOUS
  <1>3. /\ Os(i + 1) = IF d[i + 1].k = "open" /\ d[i + 1].n = name
                         THEN Os(i) \cup {i + 1} ELSE Os(i)
        /\ Cs(i + 1) = IF d[i + 1].k = "close" /\ d[i + 1].n = name
                         THEN Cs(i) \cup {i + 1} ELSE Cs(i)
    OBVIOUS
  <1>4. \A n : Opened(d, name, n) = Cardinality(Os(n)) /\ Closed(d, name, n) = Cardinality(Cs(n))
    BY DEF Opened, Closed
  <1> HIDE DEF Os, Cs
  <1>5. Cardinality(Os(i)) \in Nat /\ Cardinality(Cs(i)) \in Nat
    BY <1>1, FS_CardinalityType
  <1>6. /\ Cardinality(Os(i) \cup {i + 1}) = Cardinality(Os(i)) + 1
        /\ Cardinality(Cs(i) \cup {i + 1}) = Cardinality(Cs(i)) + 1
    BY <1>1, <1>2, FS_AddElement
  <1> QED
    BY <1>3, <1>4, <1>5, <1>6

LEMMA DepthFacts ==
  ASSUME NEW doc, NEW name, NEW i \in Nat
  PROVE  /\ Depth(doc, name, i) \in Int
         /\ Depth(doc, name, 0) = 0
         /\ doc[i + 1].k = "open" /\ doc[i + 1].n = name
              => Depth(doc, name, i + 1) = Depth(doc, name, i) + 1
         /\ doc[i + 1].k = "close" /\ doc[i + 1].n = name
              => Depth(doc, name, i + 1) = Depth(doc, name, i) - 1
         /\ doc[i + 1].k \notin {"open", "close"} \/ doc[i + 1].n # name
              => Depth(doc, name, i + 1) = Depth(doc, name, i)
  <1>1. Depth(doc, name, 0) = 0
    <2>1. /\ {j \in 1..0 : doc[j].k = "open" /\ doc[j].n = name} = {}
          /\ {j \in 1..0 : doc[j].k = "close" /\ doc[j].n = name} = {}
      OBVIOUS
    <2> QED
      BY <2>1, FS_EmptySet DEF Depth, Opened, Closed
  <1> QED
    BY <1>1, CountNext DEF Depth

(* In a balanced document every tag is closed: going on from its opening   *)
(* tag, the depth of its name comes back to what it was, and the first     *)
(* token after which it has is a closing tag of that name.                 *)
LEMMA ClosingExists ==
  ASSUME NEW A, NEW doc \in Seq(A), Balanced(doc),
         NEW i \in DOMAIN doc, doc[i].k = "open"
  PROVE  /\ ClosingOf(doc, i) \in (i + 1)..Len(doc)
         /\ doc[ClosingOf(doc, i)].k = "close"
         /\ doc[ClosingOf(doc, i)].n = doc[i].n
  <1>1. PICK name : name = doc[i].n
    OBVIOUS
  <1>2. PICK n \in Nat : n = Len(doc) /\ DOMAIN doc = 1..n
    OBVIOUS
  <1>3. PICK d : d = [j \in 0..n |-> Depth(doc, name, j)]
    OBVIOUS
  <1>4. \A j \in 0..n : d[j] \in Int /\ d[j] = Depth(doc, name, j)
    BY <1>3, DepthFacts
  <1>5. i \in 1..n /\ i - 1 \in 0..n /\ i - 1 \in Nat /\ (i - 1) + 1 = i
    BY <1>2
  <1>6. name \in NamesOf(doc)
    BY <1>1 DEF NamesOf, TagKinds
  <1>7. d[i - 1] >= 0
    <2>1. CASE i - 1 = 0
      BY <1>4, <1>5, <2>1, DepthFacts
    <2>2. CASE i - 1 # 0
      <3>1. Closed(doc, name, i - 1) <= Opened(doc, name, i - 1)
        BY <1>2, <1>5, <1>6, <2>2 DEF Balanced
      <3>2. PICK o \in Nat, c \in Nat :
              o = Opened(doc, name, i - 1) /\ c = Closed(doc, name, i - 1)
        BY <1>5, CountNext
      <3> QED
        BY <1>4, <1>5, <3>1, <3>2 DEF Depth
    <2> QED
      BY <2>1, <2>2
  <1>8. d[n] = 0
    <2>1. PICK o \in Nat, c \in Nat :
            o = Opened(doc, name, n) /\ c = Closed(doc, name, n)
      BY CountNext
    <2>2. c = o /\ n \in 0..n
      BY <1>2, <1>6, <2>1 DEF Balanced
    <2>3. d[n] = o - c
      BY <1>4, <2>1, <2>2 DEF Depth
    <2> QED
      BY <2>2, <2>3
  <1> DEFINE Back == {j \in i..n : d[j] <= d[i - 1]}
  <1>9. n \in Back /\ Back \in SUBSET Nat
    BY <1>5, <1>7, <1>8
  <1>10. PICK m \in Back : \A j \in Back : m <= j
    BY <1>9, LeastNat
  <1>11. m \in i..n /\ d[m] <= d[i - 1]
    OBVIOUS
  <1>12. d[i] = d[i - 1] + 1
    BY <1>1, <1>4, <1>5, DepthFacts
  <1>13. m # i
    BY <1>4, <1>5, <1>11, <1>12
  <1>14. m - 1 \in i..n /\ m - 1 \in Nat /\ (m - 1) + 1 = m /\ m \in (i + 1)..n
    BY <1>5, <1>11, <1>13
  <1>15. d[m - 1] > d[i - 1]
    <2>1. m - 1 \notin Back
      BY <1>10, <1>14
    <2> QED
      BY <1>4, <1>5, <1>14, <2>1
  <1> HIDE DEF Back
  <1>16. doc[m].k = "close" /\ doc[m].n = name /\ d[m] = d[m - 1] - 1
    <2>1. /\ d[m - 1] \in Int /\ d[m] \in Int /\ d[i - 1] \in Int
          /\ d[m] = Depth(doc, name, m) /\ d[m - 1] = Depth(doc, name, m - 1)
      BY <1>4, <1>5, <1>14
    <2>2. d[m] < d[m - 1]
      BY <1>11, <1>15, <2>1
    <2>3. ~(doc[m].k = "open" /\ doc[m].n = name)
      BY <1>14, <2>1, <2>2, DepthFacts
    <2>4. ~(doc[m].k \notin {"open", "close"} \/ doc[m].n # name)
      BY <1>14, <2>1, <2>2, DepthFacts
    <2> QED
      BY <1>14, <2>1, <2>3, <2>4, DepthFacts
  <1>17. d[m] = d[i - 1]
    BY SMTT(20), <1>4, <1>5, <1>11, <1>14, <1>15, <1>16
  <1> DEFINE Inside(j) == Opened(doc, name, j) - Opened(doc, name, i - 1)
             Left(j)   == Closed(doc, name, j) - Closed(doc, name, i - 1)
             Closers   == {j \in (i + 1)..Len(doc) :
                             doc[j].k = "close" /\ doc[j].n = name /\ Inside(j) = Left(j)}
  <1>18. Inside(m) = Left(m)
    <2>1. PICK o \in Nat, r \in Nat, p \in Nat, q \in Nat :
            /\ o = Opened(doc, name, m) /\ r = Opened(doc, name, i - 1)
            /\ p = Closed(doc, name, m) /\ q = Closed(doc, name, i - 1)
      <3>1. m \in Nat /\ i - 1 \in Nat
        BY <1>5, <1>14
      <3> QED
        BY <3>1, CountNext
    <2>2. m \in 0..n /\ i - 1 \in 0..n
      BY <1>5, <1>14
    <2>3. d[m] = o - p /\ d[i - 1] = r - q
      BY <1>4, <2>1, <2>2 DEF Depth
    <2>4. o - r = p - q
      <3>1. o - p = r - q
        BY <1>17, <2>3
      <3> QED
        BY <3>1
    <2>5. Inside(m) = o - r /\ Left(m) = p - q
      BY <2>1
    <2> QED
      BY <2>4, <2>5
  <1> HIDE DEF Inside, Left
  <1>19. m \in Closers /\ Closers \in SUBSET Nat
    BY <1>2, <1>5, <1>14, <1>16, <1>18
  <1>20. ClosingOf(doc, i) = Sets!Min(Closers)
    BY <1>1 DEF ClosingOf, Inside, Left
  <1>21. PICK least \in Closers : \A j \in Closers : least <= j
    BY <1>19, LeastNat
  <1>22. Sets!Min(Closers) \in Closers
    <2> HIDE DEF Closers
    <2> QED
      BY <1>21 DEF Sets!Min
  <1> QED
    BY <1>1, <1>20, <1>22

(* The range of a tag of a balanced document is a range of it.             *)
LEMMA TagFacts ==
  ASSUME NEW A, NEW doc \in Seq(A), Balanced(doc), NEW i \in StartsOf(doc)
  PROVE  LET tag == TagAt(doc, i)
         IN  /\ tag.RawBegin = i - 1 /\ tag.RawBegin \in Nat
             /\ tag.ValueBegin = i
             /\ tag.ValueEnd \in Nat /\ tag.RawEnd \in Nat
             /\ tag.RawBegin < tag.RawEnd /\ tag.RawEnd <= Len(doc)
             /\ i <= tag.ValueEnd /\ tag.ValueEnd <= tag.RawEnd
  <1>1. /\ Len(doc) \in Nat /\ DOMAIN doc = 1..Len(doc)
        /\ i \in 1..Len(doc) /\ doc[i].k \in {"open", "self"}
    BY DEF StartsOf, Starts
  <1>2. CASE doc[i].k = "self"
    BY <1>1, <1>2 DEF TagAt
  <1>3. CASE doc[i].k = "open"
    <2>1. PICK c : c = ClosingOf(doc, i)
      OBVIOUS
    <2>2. c \in (i + 1)..Len(doc)
      BY <1>1, <1>3, <2>1, ClosingExists
    <2> QED
      BY <1>1, <1>3, <2>1, <2>2 DEF TagAt
  <1> QED
    BY <1>1, <1>2, <1>3

(* What is kept of a block of a text over the tokens A.                    *)
Block(A) ==
  [tag_name : {token.n : token \in A}, raw : Seq(A), value : Seq(A),
   raw_begin : Nat, value_begin : Nat, value_end : Nat, raw_end : Nat]

LEMMA BlockCount ==
  ASSUME NEW A, NEW text \in Seq(A)
  PROVE  /\ IsFiniteSet(BlockStarts(BodyOf(text)))
         /\ Len(BlockElements(text)) = Cardinality(BlockStarts(BodyOf(text)))
         /\ Len(BlockElements(text)) \in Nat
  <1>1. PICK doc \in Seq(A) : doc = BodyOf(text)
    BY SplitText
  <1>2. PICK starts : starts = BlockStarts(doc)
    OBVIOUS
  <1>3. Len(doc) \in Nat /\ starts \in SUBSET (1..Len(doc)) /\ IsFiniteSet(1..Len(doc))
    BY <1>2, FS_Interval DEF BlockStarts, StartsOf
  <1>4. IsFiniteSet(starts)
    BY <1>3, FS_Subset
  <1>5. PICK n \in Nat : n = Cardinality(starts)
    BY <1>4, FS_CardinalityType
  <1>6. BlockElements(text) =
          [k \in 1..n |-> ElementOf(doc, TagAt(doc, Nth(k, starts)))]
    BY <1>1, <1>2, <1>5 DEF BlockElements
  <1>7. Len(BlockElements(text)) = n
    BY <1>6
  <1> QED
    BY <1>1, <1>2, <1>4, <1>5, <1>7

(* A listed block is the range of the body that its record names.          *)
LEMMA BlockFacts ==
  ASSUME NEW A, NEW text \in Seq(A), Balanced(BodyOf(text)),
         NEW b \in 1..Len(BlockElements(text))
  PROVE  LET doc == BodyOf(text)
             e   == BlockElements(text)[b]
         IN  /\ e \in Block(A)
             /\ e.raw_begin < e.raw_end /\ e.raw_end <= Len(doc)
             /\ e.raw = SubSeq(doc, e.raw_begin + 1, e.raw_end)
             /\ e.raw_begin < e.value_begin /\ e.value_begin <= e.value_end
             /\ e.value_end <= e.raw_end
  <1>1. PICK doc \in Seq(A) : doc = BodyOf(text)
    BY SplitText
  <1>2. PICK starts : starts = BlockStarts(doc)
    OBVIOUS
  <1>3. starts \in SUBSET Nat /\ starts \in SUBSET StartsOf(doc)
    BY <1>2 DEF BlockStarts, StartsOf
  <1>4. PICK n \in Nat : /\ n = Cardinality(starts) /\ IsFiniteSet(starts)
                         /\ Len(BlockElements(text)) = n
    BY <1>1, <1>2, BlockCount
  <1>5. BlockElements(text) =
          [k \in 1..n |-> ElementOf(doc, TagAt(doc, Nth(k, starts)))]
    BY <1>1, <1>2, <1>4 DEF BlockElements
  <1>7. PICK i \in StartsOf(doc) : i = Nth(b, starts)
    BY <1>3, <1>4, NthFacts
  <1>8. BlockElements(text)[b] = ElementOf(doc, TagAt(doc, i))
    BY <1>4, <1>5, <1>7
  <1>9. PICK tag : tag = TagAt(doc, i)
    OBVIOUS
  <1>10. /\ tag.RawBegin = i - 1 /\ tag.RawBegin \in Nat
         /\ tag.ValueBegin = i /\ i \in Nat
         /\ tag.ValueEnd \in Nat /\ tag.RawEnd \in Nat
         /\ tag.RawBegin < tag.RawEnd /\ tag.RawEnd <= Len(doc)
         /\ i <= tag.ValueEnd /\ tag.ValueEnd <= tag.RawEnd
    <2>1. i \in Nat
      BY DEF StartsOf
    <2> QED
      BY <1>1, <1>9, <2>1, TagFacts
  <1>11. PICK e : e = ElementOf(doc, tag)
    OBVIOUS
  <1>12. /\ e.raw_begin = tag.RawBegin /\ e.raw_end = tag.RawEnd
         /\ e.value_begin = tag.ValueBegin /\ e.value_end = tag.ValueEnd
         /\ e.raw = SubSeq(doc, tag.RawBegin + 1, tag.RawEnd)
    BY <1>11 DEF ElementOf
  <1>13. BlockElements(text)[b] = e
    BY <1>8, <1>9, <1>11
  <1>14. e \in Block(A)
    <2>1. PICK raw : raw = SubSeq(doc, tag.RawBegin + 1, tag.RawEnd)
      OBVIOUS
    <2>2. PICK value : value = SubSeq(doc, tag.ValueBegin + 1, tag.ValueEnd)
      OBVIOUS
    <2>3. raw \in Seq(A)
      BY SMTT(20), <1>10, <2>1, SliceFacts
    <2>4. value \in Seq(A)
      <3>1. /\ tag.ValueBegin \in Nat /\ tag.ValueEnd \in Nat
            /\ tag.ValueBegin <= tag.ValueEnd /\ tag.ValueEnd <= Len(doc)
        BY <1>10
      <3> QED
        BY <2>2, <3>1, SliceFacts
    <2>5. tag.TagName \in {token.n : token \in A}
      <3>1. i \in 1..Len(doc) /\ doc[i] \in A
        BY DEF StartsOf
      <3>2. tag.TagName = doc[i].n
        BY <1>9 DEF TagAt
      <3> QED
        BY <3>1, <3>2
    <2>6. e = [tag_name |-> tag.TagName, raw |-> raw, value |-> value,
               raw_begin |-> tag.RawBegin, value_begin |-> tag.ValueBegin,
               value_end |-> tag.ValueEnd, raw_end |-> tag.RawEnd]
      BY <1>11, <2>1, <2>2 DEF ElementOf
    <2> QED
      BY <1>10, <2>3, <2>4, <2>5, <2>6 DEF Block
  <1>15. /\ e.raw_begin < e.raw_end /\ e.raw_end <= Len(doc)
         /\ e.raw = SubSeq(doc, e.raw_begin + 1, e.raw_end)
         /\ e.raw_begin < e.value_begin /\ e.value_begin <= e.value_end
         /\ e.value_end <= e.raw_end
    BY <1>10, <1>12
  <1> QED
    BY <1>1, <1>13, <1>14, <1>15

-----------------------------------------------------------------------------
(* The documents DeleteBlock goes through.                                  *)
Tokens == Token(TagNames \cup {"x"})

TypeOK ==
  /\ prefix \in Seq(Tokens)
  /\ body \in Seq(Tokens)
  /\ logged_from \in Seq(Tokens)
  /\ deleted_blocks \in Seq(Block(Tokens))

(* The prefix can never grow into the body: it leads whatever follows it.  *)
PrefixLeads == \A j \in 1..Len(prefix) : Leading(prefix[j])

HtmlIsWhole == html = prefix \o body

BodyIsDivided ==
  IF Loaded THEN blocks = BlockElements(body) /\ Parses(body) ELSE blocks = <<>>

(* The bodies there were since the log was empty.                          *)
History(f) ==
  f = [n \in 0..Len(deleted_blocks) |->
         IF n = 0 THEN logged_from ELSE Erase(f[n - 1], deleted_blocks[n])]

HistoryEndsInBody == \E f : History(f) /\ f[Len(deleted_blocks)] = body

IInv == TypeOK /\ PrefixLeads /\ HtmlIsWhole /\ BodyIsDivided /\ HistoryEndsInBody

-----------------------------------------------------------------------------
(* The verdict on a text depends on its body only, and is bad without one. *)
LEMMA ParsesByBody ==
  ASSUME NEW t, NEW u, BodyOf(t) = BodyOf(u)
  PROVE  Parses(t) <=> Parses(u)
  BY DEF Parses

LEMMA ParsesNonempty ==
  ASSUME NEW A, NEW t \in Seq(A), Parses(t)
  PROVE  t # <<>>
  <1> SUFFICES ASSUME t = <<>> PROVE FALSE
    OBVIOUS
  <1>1. Lead(t) = 0
    <2>1. Lead(t) \in 0..Len(t) /\ Len(t) = 0
      BY LeadFacts
    <2> QED
      BY <2>1
  <1>2. BodyOf(t) = <<>>
    BY <1>1, SplitText
  <1> QED
    BY <1>2 DEF Parses

LEMMA EraseType ==
  ASSUME NEW A, NEW t \in Seq(A), NEW e,
         e.raw_begin \in Nat, e.raw_end \in Nat,
         e.raw_begin <= e.raw_end, e.raw_end <= Len(t)
  PROVE  Erase(t, e) \in Seq(A)
  <1>1. PICK a \in Nat, b \in Nat : a = e.raw_begin /\ b = e.raw_end
    OBVIOUS
  <1>2. /\ 0 \in Nat /\ 0 <= a /\ a <= Len(t) /\ 0 + 1 = 1
        /\ b <= Len(t) /\ Len(t) \in Nat
    BY <1>1
  <1>3. SubSeq(t, 1, a) \in Seq(A)
    BY <1>2, SliceFacts
  <1>4. SubSeq(t, b + 1, Len(t)) \in Seq(A)
    BY <1>2, SliceFacts
  <1> QED
    BY <1>1, <1>3, <1>4 DEF Erase

LEMMA PutBackErased ==
  ASSUME NEW A, NEW t \in Seq(A), NEW e,
         e.raw_begin \in Nat, e.raw_end \in Nat,
         e.raw_begin <= e.raw_end, e.raw_end <= Len(t),
         e.raw = SubSeq(t, e.raw_begin + 1, e.raw_end)
  PROVE  PutBack(e, Erase(t, e)) = t
  <1>1. PICK a \in Nat, b \in Nat, n \in Nat :
          a = e.raw_begin /\ b = e.raw_end /\ n = Len(t)
    OBVIOUS
  <1>2. PICK head : head = SubSeq(t, 1, a)
    OBVIOUS
  <1>3. PICK tail : tail = SubSeq(t, b + 1, n)
    OBVIOUS
  <1>4. a <= b /\ b <= n /\ a <= n /\ n <= Len(t)
    BY <1>1
  <1>5. head \in Seq(A) /\ Len(head) = a
    BY <1>1, <1>2, <1>4, HeadFacts
  <1>6. tail \in Seq(A)
    BY <1>1, <1>3, <1>4, SliceFacts
  <1>7. /\ SubSeq(head \o tail, 1, a) = head
        /\ SubSeq(head \o tail, a + 1, Len(head \o tail)) = tail
    BY <1>5, <1>6, CutJoined
  <1>8. Erase(t, e) = head \o tail
    BY <1>1, <1>2, <1>3 DEF Erase
  <1>9. PutBack(e, head \o tail) = head \o SubSeq(t, a + 1, b) \o tail
    BY <1>1, <1>7 DEF PutBack
  <1>10. head \o SubSeq(t, a + 1, b) = SubSeq(t, 1, b)
    BY <1>1, <1>2, <1>4, JoinSlices
  <1>11. SubSeq(t, 1, b) \o tail = SubSeq(t, 1, n)
    BY <1>1, <1>3, <1>4, JoinSlices
  <1>12. SubSeq(t, 1, n) = t
    BY <1>1, WholeSlice
  <1> QED
    BY <1>8, <1>9, <1>10, <1>11, <1>12

-----------------------------------------------------------------------------
(* Calls that start the log afresh, and calls that change nothing.         *)
LEMMA FreshLog ==
  ASSUME deleted_blocks' = <<>>, logged_from' = body'
  PROVE  HistoryEndsInBody'
  <1>1. PICK f : f = [n \in 0..0 |-> body']
    OBVIOUS
  <1>2. Len(deleted_blocks') = 0
    OBVIOUS
  <1>3. f[0] = body'
    BY <1>1
  <1>4. f = [n \in 0..Len(deleted_blocks') |->
               IF n = 0 THEN logged_from' ELSE Erase(f[n - 1], deleted_blocks'[n])]
    <2>1. \A n \in 0..0 : n = 0
      OBVIOUS
    <2> QED
      BY <1>1, <1>2, <2>1
  <1> QED
    BY <1>2, <1>3, <1>4 DEF HistoryEndsInBody, History, Erase

LEMMA InitIInv == Init => IInv
  <1> SUFFICES ASSUME Init PROVE IInv
    OBVIOUS
  <1>1. TypeOK /\ PrefixLeads /\ BodyIsDivided
    BY DEF Init, TypeOK, PrefixLeads, BodyIsDivided, Loaded
  <1>2. HtmlIsWhole
    BY DEF Init, HtmlIsWhole
  <1>3. HistoryEndsInBody
    <2>1. PICK f : f = [n \in 0..0 |-> body]
      OBVIOUS
    <2>2. Len(deleted_blocks) = 0 /\ f[0] = body /\ logged_from = body
      BY <2>1 DEF Init
    <2>3. \A n \in 0..0 : n = 0
      OBVIOUS
    <2>4. History(f)
      BY <2>1, <2>2, <2>3 DEF History
    <2> QED
      BY <2>2, <2>4 DEF HistoryEndsInBody
  <1> QED
    BY <1>1, <1>2, <1>3 DEF IInv

LEMMA ClearStep == Clear => IInv'
  <1> SUFFICES ASSUME Clear PROVE IInv'
    OBVIOUS
  <1>1. TypeOK' /\ PrefixLeads' /\ BodyIsDivided'
    BY DEF Clear, TypeOK, PrefixLeads, BodyIsDivided, Loaded
  <1>2. HtmlIsWhole'
    BY DEF Clear, HtmlIsWhole
  <1>3. HistoryEndsInBody'
    BY FreshLog DEF Clear
  <1> QED
    BY <1>1, <1>2, <1>3 DEF IInv

LEMMA ParseStep == ASSUME NEW t \in Texts, Parse(t) PROVE IInv'
  <1>1. t \in Seq(Tokens)
    BY TextsAssumption DEF Tokens
  <1>2. CASE Clear
    BY <1>2, ClearStep
  <1>3. CASE Parses(BodyOf(t)) /\ Load(t)
    <2>1. /\ PrefixOf(t) \in Seq(Tokens) /\ BodyOf(t) \in Seq(Tokens)
          /\ \A j \in 1..Len(PrefixOf(t)) : Leading(PrefixOf(t)[j])
          /\ t = PrefixOf(t) \o BodyOf(t)
      BY <1>1, SplitText
    <2>2. BodyOf(t) # <<>>
      BY <1>3, <2>1, ParsesNonempty
    <2>a. prefix' = PrefixOf(t) /\ body' = BodyOf(t) /\ html' = t
          /\ deleted_blocks' = <<>> /\ logged_from' = BodyOf(t)
      BY <1>3 DEF Load
    <2>b. TypeOK'
      BY <2>1, <2>a DEF TypeOK
    <2>c. PrefixLeads'
      BY <2>1, <2>a DEF PrefixLeads
    <2>d. HtmlIsWhole'
      BY <2>1, <2>a DEF HtmlIsWhole
    <2>3. TypeOK' /\ PrefixLeads' /\ HtmlIsWhole'
      BY <2>b, <2>c, <2>d
    <2>4. BodyIsDivided'
      BY <1>3, <2>2 DEF Load, BodyIsDivided, Loaded
    <2>5. HistoryEndsInBody'
      BY <1>3, FreshLog DEF Load
    <2> QED
      BY <2>3, <2>4, <2>5 DEF IInv
  <1> QED
    BY <1>2, <1>3 DEF Parse

LEMMA SameDocument ==
  ASSUME IInv, UNCHANGED <<prefix, body, html, blocks, deleted_blocks, logged_from>>
  PROVE  IInv'
  <1>1. TypeOK' /\ PrefixLeads' /\ HtmlIsWhole' /\ BodyIsDivided'
    BY DEF IInv, TypeOK, PrefixLeads, HtmlIsWhole, BodyIsDivided, Loaded
  <1>2. HistoryEndsInBody'
    BY DEF IInv, HistoryEndsInBody, History
  <1> QED
    BY <1>1, <1>2 DEF IInv

LEMMA ClearDeletedBlocksStep == IInv /\ ClearDeletedBlocks => IInv'
  <1> SUFFICES ASSUME IInv, ClearDeletedBlocks PROVE IInv'
    OBVIOUS
  <1>1. TypeOK' /\ PrefixLeads' /\ HtmlIsWhole' /\ BodyIsDivided'
    BY DEF IInv, ClearDeletedBlocks, TypeOK, PrefixLeads, HtmlIsWhole, BodyIsDivided, Loaded
  <1>2. HistoryEndsInBody'
    BY FreshLog DEF ClearDeletedBlocks
  <1> QED
    BY <1>1, <1>2 DEF IInv

(* The block that is deleted is a range of the body that was divided.      *)
LEMMA ListedBlock ==
  ASSUME IInv, NEW i, Deletable(i)
  PROVE  LET e == blocks[i + 1]
         IN  /\ e \in Block(Tokens)
             /\ e.raw_begin < e.raw_end /\ e.raw_end <= Len(body)
             /\ e.raw = SubSeq(BodyOf(body), e.raw_begin + 1, e.raw_end)
  <1>1. body \in Seq(Tokens)
    BY DEF IInv, TypeOK
  <1>2. Loaded
    BY DEF IInv, BodyIsDivided, Deletable
  <1>3. blocks = BlockElements(body) /\ Parses(body)
    BY <1>2 DEF IInv, BodyIsDivided
  <1>4. Balanced(BodyOf(body))
    BY <1>3 DEF Parses
  <1>5. PICK b \in 1..Len(BlockElements(body)) : b = i + 1
    <2>1. Len(blocks) \in Nat
      BY <1>1, <1>3, BlockCount
    <2> QED
      BY <1>3, <2>1 DEF Deletable
  <1>6. blocks[i + 1] = BlockElements(body)[b] /\ blocks[i + 1].raw_end <= Len(body)
    BY <1>3, <1>5 DEF Deletable
  <1> QED
    BY <1>1, <1>4, <1>5, <1>6, BlockFacts

LEMMA DeleteStep ==
  ASSUME IInv, NEW i, Deletable(i),
         NEW e, e = blocks[i + 1],
         NEW rest, rest = Erase(body, e), Parses(rest),
         body' = rest, html' = HtmlOf(rest),
         deleted_blocks' = Append(deleted_blocks, e),
         blocks' = Refreshed(rest),
         UNCHANGED <<prefix, logged_from>>
  PROVE  IInv'
  <1>1. e \in Block(Tokens) /\ e.raw_begin < e.raw_end /\ e.raw_end <= Len(body)
    BY ListedBlock
  <1>2. e.raw_begin \in Nat /\ e.raw_end \in Nat /\ e.raw_begin <= e.raw_end
    BY <1>1 DEF Block
  <1>3. rest \in Seq(Tokens)
    BY <1>1, <1>2, EraseType DEF IInv, TypeOK
  <1>4. rest # <<>>
    BY <1>3, ParsesNonempty
  <1>5. TypeOK'
    BY <1>1, <1>3 DEF IInv, TypeOK
  <1>6. PrefixLeads' /\ HtmlIsWhole'
    BY DEF IInv, PrefixLeads, HtmlIsWhole, HtmlOf
  <1>7. BodyIsDivided'
    BY <1>4 DEF BodyIsDivided, Loaded, Refreshed
  <1>8. HistoryEndsInBody'
    <2>1. PICK n \in Nat : n = Len(deleted_blocks)
      BY DEF IInv, TypeOK
    <2>2. PICK log : log = deleted_blocks'
      OBVIOUS
    <2>3. /\ Len(log) = n + 1 /\ log[n + 1] = e
          /\ \A k \in 1..n : log[k] = deleted_blocks[k]
      BY <2>1, <2>2 DEF IInv, TypeOK
    <2>4. PICK f : History(f) /\ f[n] = body
      BY <2>1 DEF IInv, HistoryEndsInBody
    <2>5. PICK g : g = [k \in 0..(n + 1) |-> IF k <= n THEN f[k] ELSE rest]
      OBVIOUS
    <2>6. (\A k \in 0..n : g[k] = f[k]) /\ g[n + 1] = rest
      BY <2>5
    <2>7. ASSUME NEW k \in 0..(n + 1)
          PROVE  g[k] = IF k = 0 THEN logged_from ELSE Erase(g[k - 1], log[k])
      <3>1. \A j \in 0..n : f[j] = IF j = 0 THEN logged_from
                                  ELSE Erase(f[j - 1], deleted_blocks[j])
        BY <2>1, <2>4 DEF History
      <3>2. CASE k = 0
        BY <2>6, <3>1, <3>2
      <3>3. CASE k \in 1..n
        <4>1. g[k] = f[k] /\ g[k - 1] = f[k - 1] /\ log[k] = deleted_blocks[k] /\ k # 0
          BY <2>3, <2>6, <3>3
        <4>2. f[k] = Erase(f[k - 1], deleted_blocks[k])
          BY <3>1, <3>3
        <4> QED
          BY <4>1, <4>2
      <3>4. CASE k = n + 1
        <4>1. g[k] = rest /\ g[k - 1] = body /\ log[k] = e /\ k # 0
          BY <2>3, <2>4, <2>6, <3>4
        <4> QED
          BY <4>1
      <3> QED
        BY <3>2, <3>3, <3>4
    <2>8. g = [k \in 0..Len(log) |-> IF k = 0 THEN logged_from' ELSE Erase(g[k - 1], log[k])]
      BY <2>3, <2>5, <2>7
    <2> QED
      BY <2>2, <2>3, <2>6, <2>8 DEF HistoryEndsInBody, History, Erase
  <1> QED
    BY <1>5, <1>6, <1>7, <1>8 DEF IInv

LEMMA NextIInv == IInv /\ [Next]_vars => IInv'
  <1> SUFFICES ASSUME IInv, [Next]_vars PROVE IInv'
    OBVIOUS
  <1>1. ASSUME NEW t \in Texts, Parse(t) PROVE IInv'
    BY <1>1, ParseStep
  <1>2. CASE ParseNull
    BY <1>2, ClearStep DEF ParseNull
  <1>3. ASSUME NEW i \in Indices, Delete(i) PROVE IInv'
    <2>1. CASE UNCHANGED <<prefix, body, html, blocks, deleted_blocks, logged_from>>
      BY <2>1, SameDocument
    <2>2. CASE ~UNCHANGED <<prefix, body, html, blocks, deleted_blocks, logged_from>>
      <3>1. PICK e : e = blocks[i + 1]
        OBVIOUS
      <3>2. PICK rest : rest = Erase(body, e)
        OBVIOUS
      <3>3. /\ Deletable(i) /\ Parses(rest)
            /\ body' = rest /\ html' = HtmlOf(rest)
            /\ deleted_blocks' = Append(deleted_blocks, e)
            /\ blocks' = Refreshed(rest)
            /\ UNCHANGED <<prefix, logged_from>>
        BY <1>3, <2>2, <3>1, <3>2 DEF Delete, Refuse, RollBack
      <3> QED
        BY <3>1, <3>2, <3>3, DeleteStep
    <2> QED
      BY <2>1, <2>2
  <1>4. CASE ClearDeletedBlocks
    BY <1>4, ClearDeletedBlocksStep
  <1>5. CASE UNCHANGED vars
    BY <1>5, SameDocument DEF vars
  <1> QED
    BY <1>1, <1>2, <1>3, <1>4, <1>5 DEF Next

-----------------------------------------------------------------------------
(* For all documents and all deletions, also those that were rolled back:  *)
(* the blocks are those of the document as it is now, and the document,    *)
(* the prefix that was cut off included, parses.                           *)
THEOREM BlocksAlwaysFitDocument == Spec => []BlocksFitDocument
  <1>1. IInv => BlocksFitDocument
    <2> SUFFICES ASSUME IInv PROVE BlocksFitDocument
      OBVIOUS
    <2>1. BodyOf(html) = BodyOf(body)
      BY BodyAfter DEF IInv, TypeOK, PrefixLeads, HtmlIsWhole
    <2>2. Parses(html) <=> Parses(body)
      BY <2>1, ParsesByBody
    <2> QED
      BY <2>2 DEF IInv, BodyIsDivided, BlocksFitDocument
  <1> QED
    BY InitIInv, NextIInv, <1>1, PTL DEF Spec

(* For all documents and all deletions: the list of deletions, applied to  *)
(* the body as it was when the list was empty, gives the body as it is.    *)
THEOREM LogAlwaysReplays == Spec => []LogReplays
  <1>1. IInv => LogReplays
    <2> SUFFICES ASSUME IInv PROVE LogReplays
      OBVIOUS
    <2>1. PICK n \in Nat : n = Len(deleted_blocks)
      BY DEF IInv, TypeOK
    <2>2. PICK f : History(f) /\ f[n] = body
      BY <2>1 DEF IInv, HistoryEndsInBody
    <2>3. PICK r : r = Replayed
      OBVIOUS
    <2>4. History(r)
      BY <2>2, <2>3 DEF Replayed, History
    <2>5. \A j \in 0..n : /\ f[j] = IF j = 0 THEN logged_from ELSE Erase(f[j - 1], deleted_blocks[j])
                          /\ r[j] = IF j = 0 THEN logged_from ELSE Erase(r[j - 1], deleted_blocks[j])
      BY <2>1, <2>2, <2>4 DEF History
    <2> DEFINE Differ == {j \in 0..n : f[j] # r[j]}
    <2>6. Differ = {}
      <3> SUFFICES ASSUME Differ # {} PROVE FALSE
        OBVIOUS
      <3>1. PICK m \in Differ : \A j \in Differ : m <= j
        <4>1. Differ \in SUBSET Nat
          OBVIOUS
        <4> QED
          BY <4>1, LeastNat
      <3>2. m \in 0..n /\ f[m] # r[m]
        OBVIOUS
      <3>3. m # 0
        BY <2>5, <3>2
      <3>4. m - 1 \in 0..n /\ ~(m <= m - 1)
        BY <3>2, <3>3
      <3>5. f[m - 1] = r[m - 1]
        BY <3>1, <3>4
      <3> QED
        BY <2>5, <3>2, <3>3, <3>5
    <2>7. r[n] = f[n]
      BY <2>6
    <2> QED
      BY <2>1, <2>2, <2>3, <2>7 DEF LogReplays
  <1> QED
    BY InitIInv, NextIInv, <1>1, PTL DEF Spec

(* For all documents: a deletion whose body starts with its first tag or   *)
(* text takes out the very text that was listed.                           *)
THEOREM AlwaysDeletesListedBlock == Spec => DeletesListedBlockAtStart
  <1> DEFINE TakesListed ==
               Deletes /\ Lead(body) = 0 =>
                 PutBack(deleted_blocks'[Len(deleted_blocks')], body') = body
  <1>1. IInv /\ [Next]_vars => [TakesListed]_vars
    <2> SUFFICES ASSUME IInv, Next, Deletes, Lead(body) = 0
                 PROVE  PutBack(deleted_blocks'[Len(deleted_blocks')], body') = body
      OBVIOUS
    <2>1. deleted_blocks \in Seq(Block(Tokens)) /\ Len(deleted_blocks) \in Nat
      BY DEF IInv, TypeOK
    <2>2. deleted_blocks' # <<>> /\ deleted_blocks' # deleted_blocks
      BY <2>1 DEF Deletes
    <2>3. PICK i \in Indices : Delete(i)
      BY <2>2 DEF Next, Parse, ParseNull, Clear, Load, ClearDeletedBlocks
    <2>4. PICK e : e = blocks[i + 1]
      OBVIOUS
    <2>5. /\ Deletable(i) /\ body' = Erase(body, e)
          /\ deleted_blocks' = Append(deleted_blocks, e)
      BY <2>2, <2>3, <2>4 DEF Delete, Refuse, RollBack
    <2>6. deleted_blocks'[Len(deleted_blocks')] = e
      BY <2>1, <2>5
    <2>7. body \in Seq(Tokens) /\ BodyOf(body) = body
      BY SplitText DEF IInv, TypeOK
    <2>8. /\ e \in Block(Tokens)
          /\ e.raw_begin < e.raw_end /\ e.raw_end <= Len(body)
          /\ e.raw = SubSeq(body, e.raw_begin + 1, e.raw_end)
      BY <2>4, <2>5, <2>7, ListedBlock
    <2>9. e.raw_begin \in Nat /\ e.raw_end \in Nat /\ e.raw_begin <= e.raw_end
      BY <2>8 DEF Block
    <2>10. PutBack(e, Erase(body, e)) = body
      BY <2>7, <2>8, <2>9, PutBackErased
    <2> QED
      BY <2>5, <2>6, <2>10
  <1> QED
    BY InitIInv, NextIInv, <1>1, PTL DEF Spec, DeletesListedBlockAtStart

-----------------------------------------------------------------------------
(* Entities.  EntityAt says that one goes from i to e.                     *)
Semicolon(text, i, e) ==
  /\ e \in (i + 1)..Len(text)
  /\ IsChar(text[e], ";")
  /\ \A j \in (i + 1)..Len(text) : IsChar(text[j], ";") => e <= j

Spelled(text, i, e) ==
  \/ IsChar(text[i + 1], "#")
  \/ e = i + 2 /\ IsChar(text[i + 1], EntityName)

EntityAt(text, i, e) ==
  IsChar(text[i], "&") /\ Semicolon(text, i, e) /\ Spelled(text, i, e)

LEMMA EntityIs ==
  ASSUME NEW A, NEW text \in Seq(A), NEW i \in 1..Len(text), NEW e, EntityAt(text, i, e)
  PROVE  e \in (i + 1)..Len(text) /\ EntityLength(text, i) = e - i + 1
  <1> DEFINE ends == {j \in (i + 1)..Len(text) : IsChar(text[j], ";")}
  <1>1. IsChar(text[i], "&") /\ Semicolon(text, i, e) /\ Spelled(text, i, e)
    BY DEF EntityAt
  <1>a. ends \subseteq (i + 1)..Len(text) /\ \A j \in (i + 1)..Len(text) : j \in Int
    <2>1. ends \subseteq (i + 1)..Len(text)
      BY Zenon
    <2>2. i \in Nat /\ \A j \in (i + 1)..Len(text) : j \in Int
      OBVIOUS
    <2> QED
      BY <2>1, <2>2, Zenon
  <1>2. e \in ends /\ (\A j \in ends : e <= j) /\ ends \subseteq Int
    <2>1. \A j \in ends : j \in (i + 1)..Len(text) /\ IsChar(text[j], ";")
      OBVIOUS
    <2>2. e \in ends
      BY <1>1 DEF Semicolon
    <2>3. \A j \in ends : e <= j
      BY <1>1, <2>1 DEF Semicolon
    <2> HIDE DEF ends
    <2> QED
      BY <1>a, <2>2, <2>3
  <1>3. e \in (i + 1)..Len(text)
    BY <1>1 DEF Semicolon
  <1>4. EntityLength(text, i) =
          IF /\ IsChar(text[i], "&") /\ ends # {}
             /\ \/ IsChar(text[i + 1], "#")
                \/ Sets!Min(ends) = i + 2 /\ IsChar(text[i + 1], EntityName)
            THEN Sets!Min(ends) - i + 1 ELSE 0
    BY DEF EntityLength
  <1> HIDE DEF ends
  <1>5. Sets!Min(ends) = e
    <2>1. \A x \in ends : (\A y \in ends : x <= y) => x = e
      BY <1>2
    <2> QED
      BY <1>2, <2>1 DEF Sets!Min
  <1>6. \/ IsChar(text[i + 1], "#")
        \/ Sets!Min(ends) = i + 2 /\ IsChar(text[i + 1], EntityName)
    BY <1>1, <1>5, Zenon DEF Spelled
  <1>7. EntityLength(text, i) = Sets!Min(ends) - i + 1
    BY <1>1, <1>2, <1>4, <1>6, Zenon
  <1> QED
    BY <1>3, <1>5, <1>7

LEMMA EntityNone ==
  ASSUME NEW A, NEW text \in Seq(A), NEW i \in 1..Len(text), \A e : ~EntityAt(text, i, e)
  PROVE  EntityLength(text, i) = 0
  <1> DEFINE ends == {j \in (i + 1)..Len(text) : IsChar(text[j], ";")}
  <1>1. EntityLength(text, i) =
          IF /\ IsChar(text[i], "&") /\ ends # {}
             /\ \/ IsChar(text[i + 1], "#")
                \/ Sets!Min(ends) = i + 2 /\ IsChar(text[i + 1], EntityName)
            THEN Sets!Min(ends) - i + 1 ELSE 0
    BY DEF EntityLength
  <1>a. ends \subseteq (i + 1)..Len(text) /\ \A j \in (i + 1)..Len(text) : j \in Nat
    <2>1. ends \subseteq (i + 1)..Len(text)
      BY Zenon
    <2>2. i \in Nat /\ \A j \in (i + 1)..Len(text) : j \in Nat
      OBVIOUS
    <2> QED
      BY <2>1, <2>2, Zenon
  <1>2. ends \in SUBSET Nat
    <2> HIDE DEF ends
    <2> QED
      BY <1>a
  <1>3. ASSUME NEW e \in ends, \A j \in ends : e <= j
        PROVE  Semicolon(text, i, e) /\ Sets!Min(ends) = e
    <2>1. Semicolon(text, i, e)
      BY <1>3 DEF Semicolon
    <2> HIDE DEF ends
    <2>2. \A x \in ends : (\A y \in ends : x <= y) => x = e
      BY <1>2, <1>3
    <2> QED
      BY <1>3, <2>1, <2>2 DEF Sets!Min
  <1> HIDE DEF ends
  <1> SUFFICES ASSUME IsChar(text[i], "&"), ends # {},
                      \/ IsChar(text[i + 1], "#")
                      \/ Sets!Min(ends) = i + 2 /\ IsChar(text[i + 1], EntityName)
               PROVE  FALSE
    BY <1>1, Zenon
  <1>4. PICK e \in ends : \A j \in ends : e <= j
    BY <1>2, LeastNat
  <1>5. Semicolon(text, i, e) /\ Sets!Min(ends) = e
    BY <1>3, <1>4
  <1>6. Spelled(text, i, e)
    BY <1>5, Zenon DEF Spelled
  <1>7. EntityAt(text, i, e)
    BY <1>5, <1>6 DEF EntityAt
  <1> QED
    BY <1>7

LEMMA EntityFacts ==
  ASSUME NEW A, NEW text \in Seq(A), NEW i \in 1..Len(text)
  PROVE  \/ EntityLength(text, i) = 0 /\ \A e : ~EntityAt(text, i, e)
         \/ \E e \in (i + 1)..Len(text) :
              EntityAt(text, i, e) /\ EntityLength(text, i) = e - i + 1
  <1>1. CASE \A e : ~EntityAt(text, i, e)
    BY <1>1, EntityNone
  <1>2. CASE \E e : EntityAt(text, i, e)
    BY <1>2, EntityIs
  <1> QED
    BY <1>1, <1>2

(* A unit has a token and ends in the text.                                *)
LEMMA WidthFacts ==
  ASSUME NEW A, NEW text \in Seq(A), NEW i \in 1..Len(text)
  PROVE  /\ EntityLength(text, i) \in Nat
         /\ i + Width(text, i) - 1 \in i..Len(text)
         /\ Width(text, i) = 1 \/ EntityLength(text, i) = Width(text, i)
         /\ EntityLength(text, i) > 0 => EntityLength(text, i) = Width(text, i)
         /\ ~IsChar(text[i], "&") => Width(text, i) = 1
  <1>1. PICK w : w = EntityLength(text, i)
    OBVIOUS
  <1>2. Width(text, i) = IF w > 0 THEN w ELSE 1
    BY <1>1 DEF Width
  <1>3. CASE w = 0 /\ \A e : ~EntityAt(text, i, e)
    BY <1>1, <1>2, <1>3
  <1>4. CASE \E e \in (i + 1)..Len(text) : EntityAt(text, i, e) /\ w = e - i + 1
    <2>1. PICK e \in (i + 1)..Len(text) : EntityAt(text, i, e) /\ w = e - i + 1
      BY <1>4
    <2>2. IsChar(text[i], "&")
      BY <2>1 DEF EntityAt
    <2>3. w \in Nat /\ w > 0 /\ i + w - 1 = e
      BY <2>1
    <2> QED
      BY <1>1, <1>2, <2>2, <2>3
  <1> QED
    BY <1>1, <1>3, <1>4, EntityFacts

-----------------------------------------------------------------------------
(* Where the units of a text end and start.                                *)
EndsOf(text, end, n) ==
  /\ end[0] = 0
  /\ \A i \in 0..n : end[i] \in i..n
  /\ \A i \in 1..n :
       end[i] = IF i <= end[i - 1] THEN end[i - 1] ELSE i + Width(text, i) - 1

LEMMA UnitEndsFacts ==
  ASSUME NEW A, NEW text \in Seq(A), NEW n \in Nat, n = Len(text)
  PROVE  EndsOf(text, UnitEnds(text), n)
  <1> DEFINE IsEnd(f) ==
               f = [i \in 0..n |->
                      IF i = 0 THEN 0
                      ELSE LET before == f[i - 1]
                           IN  IF i <= before THEN before ELSE i + Width(text, i) - 1]
  <1>0. PICK last \in [1..n -> Nat] :
          \A i \in 1..n : last[i] = i + Width(text, i) - 1 /\ last[i] \in i..n
    <2>1. \A i \in 1..n : i + Width(text, i) - 1 \in i..n
      BY WidthFacts
    <2>2. \A i \in 1..n : \A k \in i..n : k \in Nat
      OBVIOUS
    <2>3. PICK l : l = [i \in 1..n |-> i + Width(text, i) - 1]
      OBVIOUS
    <2> QED
      BY <2>1, <2>2, <2>3
  <1>1. PICK step : step = [i \in 1..n |-> [b \in Nat |-> IF i <= b THEN b ELSE last[i]]]
    OBVIOUS
  <1>2. step \in [1..n -> [Nat -> Nat]]
    BY <1>1
  <1>3. PICK f : Rounds(f, Nat, 0, step, n)
    BY <1>2, RoundsExist
  <1>4. /\ f \in [0..n -> Nat] /\ f[0] = 0
        /\ \A i \in 1..n : f[i] = IF i <= f[i - 1] THEN f[i - 1] ELSE last[i]
    <2>1. f \in [0..n -> Nat] /\ f[0] = 0 /\ \A i \in 1..n : f[i] = step[i][f[i - 1]]
      BY <1>3 DEF Rounds
    <2>2. \A i \in 1..n : i - 1 \in 0..n /\ f[i - 1] \in Nat
      BY <2>1
    <2> QED
      BY <1>1, <2>1, <2>2
  <1>5. IsEnd(f)
    <2>1. f = [i \in 0..n |-> f[i]]
      BY <1>4
    <2>2. \A i \in 0..n : i = 0 \/ i \in 1..n
      OBVIOUS
    <2>3. \A i \in 0..n : f[i] = IF i = 0 THEN 0
                                 ELSE IF i <= f[i - 1] THEN f[i - 1]
                                      ELSE i + Width(text, i) - 1
      BY <1>0, <1>4, <2>2
    <2> QED
      BY <2>1, <2>3, Zenon
  <1>6. PICK g : g = UnitEnds(text)
    OBVIOUS
  <1>7. IsEnd(g)
    <2>1. g = CHOOSE h : IsEnd(h)
      BY <1>6, Zenon DEF UnitEnds
    <2> HIDE DEF IsEnd
    <2> QED
      BY <1>5, <2>1
  <1>8. /\ g[0] = 0
        /\ \A i \in 1..n : g[i] = IF i <= g[i - 1] THEN g[i - 1] ELSE i + Width(text, i) - 1
    <2>1. 0 \in 0..n /\ \A i \in 1..n : i \in 0..n /\ i # 0
      OBVIOUS
    <2> QED
      BY <1>7, <2>1
  <1>9. 0..n \subseteq {i \in 0..n : g[i] \in i..n}
    <2>1. \A i \in 1..n : i - 1 \in 0..n /\ i \in 0..n
      OBVIOUS
    <2>2. PICK S : S = {i \in 0..n : g[i] \in i..n}
      OBVIOUS
    <2>3. ASSUME NEW i \in 1..n, i - 1 \in S PROVE i \in S
      <3>1. g[i - 1] \in (i - 1)..n
        BY <2>2, <2>3
      <3>2. g[i] = (IF i <= g[i - 1] THEN g[i - 1] ELSE last[i]) /\ last[i] \in i..n
        BY <1>0, <1>8
      <3>3. g[i] \in i..n
        BY <3>1, <3>2
      <3> QED
        BY <2>1, <2>2, <3>3
    <2>4. 0 \in S
      BY <1>8, <2>2
    <2>5. 0..n \subseteq S
      BY <2>3, <2>4, CountUp
    <2> QED
      BY <2>2, <2>5
  <1>10. \A i \in 0..n : g[i] \in i..n
    BY <1>9
  <1> QED
    BY <1>6, <1>8, <1>10 DEF EndsOf

(* A unit starts where the one before it ends.                             *)
LEMMA UnitStartsFacts ==
  ASSUME NEW A, NEW text \in Seq(A), NEW n \in Nat, n = Len(text), NEW i \in 1..n
  PROVE  /\ UnitEnds(text)[i] \in Nat /\ UnitEnds(text)[i - 1] \in Nat
         /\ i \in UnitStarts(text) => /\ UnitEnds(text)[i - 1] = i - 1
                                      /\ UnitEnds(text)[i] = i + Width(text, i) - 1
         /\ i \notin UnitStarts(text) => UnitEnds(text)[i] = UnitEnds(text)[i - 1]
  <1>1. PICK end : end = UnitEnds(text)
    OBVIOUS
  <1>2. /\ \A k \in 0..n : end[k] \in k..n
        /\ end[i] = IF i <= end[i - 1] THEN end[i - 1] ELSE i + Width(text, i) - 1
    BY <1>1, UnitEndsFacts DEF EndsOf
  <1>3. i - 1 \in 0..n /\ i \in 0..n
    OBVIOUS
  <1>4. end[i - 1] \in (i - 1)..n /\ end[i] \in i..n
    BY <1>2, <1>3
  <1>5. i \in UnitStarts(text) <=> end[i - 1] < i
    BY <1>1 DEF UnitStarts
  <1> QED
    BY <1>1, <1>2, <1>4, <1>5

-----------------------------------------------------------------------------
(* Wherever the tokens of an entity are, they are an entity.               *)
Copied(other, k, text, i, w) ==
  k + w <= Len(other) /\ \A m \in 0..w : other[k + m] = text[i + m]

LEMMA EntityMoved ==
  ASSUME NEW A, NEW text \in Seq(A), NEW i \in 1..Len(text), NEW e, EntityAt(text, i, e),
         NEW other \in Seq(A), NEW k \in 1..Len(other),
         NEW w, w = e - i, Copied(other, k, text, i, w)
  PROVE  EntityAt(other, k, k + w)
  <1>1. e \in (i + 1)..Len(text) /\ w \in Nat /\ w >= 1
    BY EntityIs
  <1>2. IsChar(text[i], "&") /\ Semicolon(text, i, e) /\ Spelled(text, i, e)
    BY DEF EntityAt
  <1>3. k + w <= Len(other) /\ \A m \in 0..w : other[k + m] = text[i + m]
    BY DEF Copied
  <1>4. other[k] = text[i] /\ other[k + 1] = text[i + 1] /\ other[k + w] = text[e]
    <2>1. 0 \in 0..w /\ 1 \in 0..w /\ w \in 0..w
      BY <1>1
    <2>2. k + 0 = k /\ i + 0 = i /\ i + w = e
      BY <1>1
    <2> QED
      BY <1>3, <2>1, <2>2
  <1>5. Semicolon(other, k, k + w)
    <2>1. k + w \in (k + 1)..Len(other)
      BY <1>1, <1>3
    <2>2. IsChar(other[k + w], ";")
      BY <1>2, <1>4, Zenon DEF Semicolon
    <2>3. ASSUME NEW j \in (k + 1)..Len(other), IsChar(other[j], ";") PROVE k + w <= j
      <3> SUFFICES ASSUME ~(k + w <= j) PROVE FALSE
        OBVIOUS
      <3>1. PICK m : m = j - k
        OBVIOUS
      <3>2. m \in 0..w /\ j = k + m /\ i + m \in (i + 1)..Len(text) /\ ~(e <= i + m)
        BY <1>1, <3>1
      <3>3. IsChar(text[i + m], ";")
        BY <1>3, <2>3, <3>2
      <3>4. e <= i + m
        BY <1>2, <3>2, <3>3 DEF Semicolon
      <3> QED
        BY <3>2, <3>4
    <2> QED
      BY <2>1, <2>2, <2>3 DEF Semicolon
  <1>6. Spelled(other, k, k + w)
    <2>1. e = i + 2 => k + w = k + 2
      BY <1>1
    <2> QED
      BY <1>2, <1>4, <2>1, Zenon DEF Spelled
  <1> QED
    BY <1>2, <1>4, <1>5, <1>6, Zenon DEF EntityAt

(* In a clean text an entity starts at every "&".                          *)
LEMMA CleanFacts ==
  ASSUME NEW A, NEW text \in Seq(A), Clean(text), NEW i \in 1..Len(text)
  PROVE  /\ IsChar(text[i], "&") =>
              \E e \in (i + 1)..Len(text) :
                /\ EntityAt(text, i, e) /\ EntityLength(text, i) = e - i + 1
                /\ Width(text, i) = e - i + 1
         /\ ~IsChar(text[i], "&") => EntityLength(text, i) = 0 /\ Width(text, i) = 1
  <1>1. CASE IsChar(text[i], "&")
    <2>1. EntityLength(text, i) > 0
      BY <1>1 DEF Clean
    <2>2. PICK e \in (i + 1)..Len(text) :
            EntityAt(text, i, e) /\ EntityLength(text, i) = e - i + 1
      BY <2>1, EntityFacts
    <2>3. Width(text, i) = e - i + 1
      BY <2>1, <2>2 DEF Width
    <2> QED
      BY <1>1, <2>2, <2>3
  <1>2. CASE ~IsChar(text[i], "&")
    <2>1. \A e : ~EntityAt(text, i, e)
      BY <1>2 DEF EntityAt
    <2> QED
      BY <1>2, <2>1, EntityNone, WidthFacts
  <1> QED
    BY <1>1, <1>2

(* A text in front of another one is read as it is alone, when it is       *)
(* clean; the text behind is read as it is alone anyway.                   *)
LEMMA InFront ==
  ASSUME NEW A, NEW w \in Seq(A), NEW x \in Seq(A), Clean(w), NEW i \in 1..Len(w)
  PROVE  EntityLength(w \o x, i) = EntityLength(w, i) /\ Width(w \o x, i) = Width(w, i)
  <1>1. PICK n \in Nat : n = Len(w)
    OBVIOUS
  <1>2. PICK m \in Nat : m = Len(x)
    OBVIOUS
  <1>3. PICK c : c = w \o x
    OBVIOUS
  <1>4. c \in Seq(A) /\ Joined(c, w, x, n, m)
    BY <1>1, <1>2, <1>3, ConcatElements
  <1>5. Len(c) = n + m /\ \A k \in 1..n : c[k] = w[k]
    BY <1>4 DEF Joined
  <1>6. i \in 1..Len(c) /\ c[i] = w[i]
    BY <1>1, <1>5
  <1>7. CASE IsChar(w[i], "&")
    <2>1. PICK e \in (i + 1)..n : EntityAt(w, i, e) /\ EntityLength(w, i) = e - i + 1
      BY <1>1, <1>7, CleanFacts
    <2>2. PICK d : d = e - i
      OBVIOUS
    <2>3. Copied(c, i, w, i, d)
      <3>1. i + d <= Len(c) /\ \A k \in 0..d : i + k \in 1..n
        BY <1>1, <1>5, <2>2
      <3> QED
        BY <1>5, <3>1 DEF Copied
    <2>4. EntityAt(c, i, i + d)
      BY <1>4, <1>6, <2>1, <2>2, <2>3, EntityMoved
    <2>5. PICK g : g = i + d
      OBVIOUS
    <2>6. EntityLength(c, i) = g - (i) + 1
      BY <1>4, <1>6, <2>4, <2>5, EntityIs
    <2>7. EntityLength(c, i) = EntityLength(w, i)
      BY <2>1, <2>2, <2>5, <2>6
    <2> QED
      BY <1>3, <2>7 DEF Width
  <1>8. CASE ~IsChar(w[i], "&")
    <2>1. \A e : ~EntityAt(c, i, e)
      BY <1>6, <1>8 DEF EntityAt
    <2>2. EntityLength(c, i) = 0
      BY <1>4, <1>6, <2>1, EntityNone
    <2>3. EntityLength(w, i) = 0
      BY <1>8, CleanFacts
    <2> QED
      BY <1>3, <2>2, <2>3 DEF Width
  <1> QED
    BY <1>7, <1>8

LEMMA Behind ==
  ASSUME NEW A, NEW w \in Seq(A), NEW x \in Seq(A), NEW i \in 1..Len(x), NEW p,
         p = Len(w) + i
  PROVE  EntityLength(w \o x, p) = EntityLength(x, i) /\ Width(w \o x, p) = Width(x, i)
  <1>1. PICK n \in Nat : n = Len(w)
    OBVIOUS
  <1>2. PICK m \in Nat : m = Len(x)
    OBVIOUS
  <1>3. PICK c : c = w \o x
    OBVIOUS
  <1>4. c \in Seq(A) /\ Joined(c, w, x, n, m)
    BY <1>1, <1>2, <1>3, ConcatElements
  <1>5. Len(c) = n + m /\ \A k \in 1..m : c[n + k] = x[k]
    BY <1>4 DEF Joined
  <1>6. n + i \in 1..Len(c) /\ c[n + i] = x[i]
    BY <1>2, <1>5
  <1>7. CASE \E e \in (i + 1)..m : EntityAt(x, i, e) /\ EntityLength(x, i) = e - i + 1
    <2>1. PICK e \in (i + 1)..m : EntityAt(x, i, e) /\ EntityLength(x, i) = e - i + 1
      BY <1>7
    <2>2. PICK d : d = e - i
      OBVIOUS
    <2>3. Copied(c, n + i, x, i, d)
      <3>1. n + i + d <= Len(c)
        BY <1>2, <1>5, <2>2
      <3>2. ASSUME NEW k \in 0..d PROVE c[n + i + k] = x[i + k]
        <4>1. i + k \in 1..m /\ n + i + k = n + (i + k)
          BY <1>2, <2>2
        <4> QED
          BY <1>5, <4>1
      <3> QED
        BY <3>1, <3>2 DEF Copied
    <2>4. EntityAt(c, n + i, n + i + d)
      BY <1>4, <1>6, <2>1, <2>2, <2>3, EntityMoved
    <2>5. PICK g : g = n + i + d
      OBVIOUS
    <2>6. EntityLength(c, n + i) = g - (n + i) + 1
      BY <1>4, <1>6, <2>4, <2>5, EntityIs
    <2>7. EntityLength(c, n + i) = EntityLength(x, i)
      BY <2>1, <2>2, <2>5, <2>6
    <2> QED
      BY <1>1, <1>3, <2>7 DEF Width
  <1>8. CASE EntityLength(x, i) = 0 /\ \A e : ~EntityAt(x, i, e)
    <2>1. ASSUME NEW e, EntityAt(c, n + i, e) PROVE FALSE
      <3>1. e \in (n + i + 1)..Len(c)
        BY <1>4, <1>6, <2>1, EntityIs
      <3>2. PICK d : d = e - (n + i)
        OBVIOUS
      <3>3. Copied(x, i, c, n + i, d)
        <4>1. i + d <= Len(x)
          BY <1>2, <1>5, <3>1, <3>2
        <4>2. ASSUME NEW k \in 0..d PROVE x[i + k] = c[n + i + k]
          <5>1. i + k \in 1..m /\ n + i + k = n + (i + k)
            BY <1>2, <3>1, <3>2, <4>1
          <5> QED
            BY <1>5, <5>1
        <4> QED
          BY <4>1, <4>2 DEF Copied
      <3>4. EntityAt(x, i, i + d)
        BY <1>4, <1>6, <2>1, <3>2, <3>3, EntityMoved
      <3> QED
        BY <1>8, <3>4
    <2>2. EntityLength(c, n + i) = 0
      BY <1>4, <1>6, <2>1, EntityNone
    <2> QED
      BY <1>1, <1>3, <1>8, <2>2 DEF Width
  <1> QED
    BY <1>1, <1>2, <1>7, <1>8, EntityFacts

LEMMA EndsInFront ==
  ASSUME NEW A, NEW w \in Seq(A), NEW x \in Seq(A), NEW n \in Nat, NEW i \in 0..n,
         Clean(w), n = Len(w)
  PROVE  UnitEnds(w \o x)[i] = UnitEnds(w)[i]
  <1>1. PICK m \in Nat : m = Len(x)
    OBVIOUS
  <1>2. PICK c : c = w \o x
    OBVIOUS
  <1>3. c \in Seq(A) /\ Joined(c, w, x, n, m)
    BY <1>1, <1>2, ConcatElements
  <1>4. PICK l \in Nat : l = Len(c) /\ l = n + m
    BY <1>3 DEF Joined
  <1>5. PICK f : f = UnitEnds(w)
    OBVIOUS
  <1>6. PICK g : g = UnitEnds(c)
    OBVIOUS
  <1>7. EndsOf(w, f, n) /\ EndsOf(c, g, l)
    BY <1>3, <1>4, <1>5, <1>6, UnitEndsFacts
  <1>8. ASSUME NEW k \in 1..n, f[k - 1] = g[k - 1] PROVE f[k] = g[k]
    <2>1. Width(c, k) = Width(w, k)
      BY <1>2, InFront
    <2>2. f[k] = IF k <= f[k - 1] THEN f[k - 1] ELSE k + Width(w, k) - 1
      BY <1>7 DEF EndsOf
    <2>3. k \in 1..l
      BY <1>4
    <2>4. g[k] = IF k <= g[k - 1] THEN g[k - 1] ELSE k + Width(c, k) - 1
      BY <1>7, <2>3 DEF EndsOf
    <2> QED
      BY <1>8, <2>1, <2>2, <2>4
  <1>9. PICK S : S = {k \in 0..n : f[k] = g[k]}
    OBVIOUS
  <1>10. 0 \in S
    BY <1>7, <1>9 DEF EndsOf
  <1>11. \A k \in 1..n : k - 1 \in S => k \in S
    BY <1>8, <1>9
  <1>12. 0..n \subseteq S
    BY <1>10, <1>11, CountUp
  <1> QED
    BY <1>2, <1>5, <1>6, <1>9, <1>12

LEMMA EndsBehind ==
  ASSUME NEW A, NEW w \in Seq(A), NEW x \in Seq(A), NEW n \in Nat, NEW m \in Nat,
         NEW i \in 0..m, NEW p, Clean(w), n = Len(w), m = Len(x), p = n + i
  PROVE  UnitEnds(w \o x)[p] = n + UnitEnds(x)[i]
  <1>2. PICK c : c = w \o x
    OBVIOUS
  <1>3. c \in Seq(A) /\ Joined(c, w, x, n, m)
    BY <1>2, ConcatElements
  <1>4. PICK l \in Nat : l = Len(c) /\ l = n + m
    BY <1>3 DEF Joined
  <1>5. PICK f : f = UnitEnds(x)
    OBVIOUS
  <1>6. PICK g : g = UnitEnds(c)
    OBVIOUS
  <1>7. EndsOf(x, f, m) /\ EndsOf(c, g, l)
    BY <1>3, <1>4, <1>5, <1>6, UnitEndsFacts
  <1>a. \A k \in 0..m : f[k] \in Nat
    <2>1. \A k \in 0..m : f[k] \in k..m
      BY <1>7 DEF EndsOf
    <2> QED
      BY <2>1
  <1>8. ASSUME NEW k \in 1..m, g[n + (k - 1)] = n + f[k - 1] PROVE g[n + k] = n + f[k]
    <2>3. PICK r : r = n + k
      OBVIOUS
    <2>a. k \in 1..Len(x) /\ r = Len(w) + k
      BY <2>3
    <2>b. Width(w \o x, r) = Width(x, k)
      BY <2>a, Behind
    <2>1. Width(c, r) = Width(x, k)
      BY <1>2, <2>b
    <2>2. f[k] = IF k <= f[k - 1] THEN f[k - 1] ELSE k + Width(x, k) - 1
      BY <1>7 DEF EndsOf
    <2>4. r \in 1..l /\ r - 1 = n + (k - 1)
      BY <1>4, <2>3
    <2>5. g[r] = IF r <= g[r - 1] THEN g[r - 1] ELSE r + Width(c, r) - 1
      BY <1>7, <2>4 DEF EndsOf
    <2>6. PICK q \in Nat : q = f[k - 1]
      BY <1>a
    <2>7. PICK v \in Nat : v = Width(x, k)
      BY WidthFacts DEF Width
    <2>8. g[r - 1] = n + q /\ Width(c, r) = v
      BY <1>8, <2>1, <2>3, <2>4, <2>6, <2>7
    <2>9. g[r] = IF k <= q THEN n + q ELSE n + (k + v - 1)
      BY <2>3, <2>5, <2>8
    <2> QED
      BY <2>2, <2>3, <2>6, <2>7, <2>9
  <1>9. PICK S : S = {k \in 0..m : g[n + k] = n + f[k]}
    OBVIOUS
  <1>10. 0 \in S
    <2>1. f[0] = 0
      BY <1>7 DEF EndsOf
    <2>2. g[n] = UnitEnds(w)[n] /\ UnitEnds(w)[n] \in n..n
      <3>1. n \in 0..n
        OBVIOUS
      <3>2. EndsOf(w, UnitEnds(w), n)
        BY UnitEndsFacts
      <3>3. UnitEnds(w)[n] \in n..n
        BY <3>1, <3>2 DEF EndsOf
      <3> QED
        BY <1>2, <1>6, <3>1, <3>3, EndsInFront
    <2> QED
      BY <1>9, <2>1, <2>2
  <1>11. ASSUME NEW k \in 1..m, k - 1 \in S PROVE k \in S
    BY <1>8, <1>9, <1>11
  <1>12. 0..m \subseteq S
    BY <1>10, <1>11, CountUp
  <1> QED
    BY <1>2, <1>5, <1>6, <1>9, <1>12

LEMMA StartsInFront ==
  ASSUME NEW A, NEW w \in Seq(A), NEW x \in Seq(A), Clean(w), NEW i \in 1..Len(w)
  PROVE  i \in UnitStarts(w \o x) <=> i \in UnitStarts(w)
  <1>1. PICK n \in Nat : n = Len(w)
    OBVIOUS
  <1>2. PICK m \in Nat : m = Len(x)
    OBVIOUS
  <1>3. i \in 1..n /\ i - 1 \in 0..n /\ Len(w \o x) = n + m /\ i \in 1..(n + m)
    BY <1>1, <1>2
  <1>4. UnitEnds(w \o x)[i - 1] = UnitEnds(w)[i - 1]
    BY <1>1, <1>3, EndsInFront
  <1> QED
    BY <1>1, <1>3, <1>4, Zenon DEF UnitStarts

LEMMA StartsBehind ==
  ASSUME NEW A, NEW w \in Seq(A), NEW x \in Seq(A), NEW n \in Nat,
         NEW i \in 1..Len(x), NEW p, Clean(w), n = Len(w), p = n + i
  PROVE  p \in UnitStarts(w \o x) <=> i \in UnitStarts(x)
  <1>1. PICK m \in Nat : m = Len(x)
    OBVIOUS
  <1>2. PICK q, r : q = i - 1 /\ r = p - 1
    OBVIOUS
  <1>3. /\ i \in 1..m /\ q \in 0..m /\ Len(w \o x) = n + m /\ p \in 1..(n + m)
        /\ r = n + q
    BY <1>1, <1>2
  <1>a. q \in 0..m /\ r = n + q
    BY <1>3
  <1>4. UnitEnds(w \o x)[r] = n + UnitEnds(x)[q]
    BY <1>1, <1>a, EndsBehind
  <1>5. UnitEnds(x)[q] \in Nat
    BY <1>1, <1>2, UnitStartsFacts
  <1>6. UnitEnds(w \o x)[r] < p <=> UnitEnds(x)[q] < i
    BY <1>2, <1>3, <1>4, <1>5
  <1> QED
    BY <1>1, <1>2, <1>3, <1>6, Zenon DEF UnitStarts

-----------------------------------------------------------------------------
(* A text that is one unit.                                                *)
Unit(x) == Len(x) >= 1 /\ Width(x, 1) = Len(x)

LEMMA UnitFacts ==
  ASSUME NEW A, NEW x \in Seq(A), Unit(x)
  PROVE  /\ 1 \in UnitStarts(x)
         /\ \A i \in 2..Len(x) : i \notin UnitStarts(x)
  <1>1. PICK m \in Nat : m = Len(x) /\ m >= 1 /\ Width(x, 1) = m
    BY DEF Unit
  <1>2. PICK f : f = UnitEnds(x)
    OBVIOUS
  <1>3. EndsOf(x, f, m)
    BY <1>1, <1>2, UnitEndsFacts
  <1>4. f[0] = 0
    BY <1>3 DEF EndsOf
  <1>5. f[1] = m
    <2>1. 1 \in 1..m /\ 1 - 1 = 0 /\ ~(1 <= 0) /\ 1 + m - 1 = m
      BY <1>1
    <2>2. f[1] = IF 1 <= f[1 - 1] THEN f[1 - 1] ELSE 1 + Width(x, 1) - 1
      BY <1>3, <2>1 DEF EndsOf
    <2> QED
      BY <1>1, <1>4, <2>1, <2>2
  <1>6. PICK S : S = {i \in 0..m : i = 0 \/ f[i] = m}
    OBVIOUS
  <1>7. 0 \in S
    BY <1>6
  <1>8. ASSUME NEW i \in 1..m, i - 1 \in S PROVE i \in S
    <2>1. CASE i = 1
      BY <1>5, <1>6, <2>1
    <2>2. CASE i # 1
      <3>1. f[i - 1] = m
        BY <1>6, <1>8, <2>2
      <3>2. f[i] = IF i <= f[i - 1] THEN f[i - 1] ELSE i + Width(x, i) - 1
        BY <1>3 DEF EndsOf
      <3> QED
        BY <1>6, <3>1, <3>2
    <2> QED
      BY <2>1, <2>2
  <1>9. 0..m \subseteq S
    BY <1>7, <1>8, CountUp
  <1>10. ASSUME NEW i \in 2..m PROVE i \notin UnitStarts(x)
    <2>1. i - 1 \in 0..m /\ i - 1 # 0 /\ ~(m < i)
      BY <1>10
    <2>2. f[i - 1] = m
      BY <1>6, <1>9, <2>1
    <2> QED
      BY <1>2, <2>1, <2>2 DEF UnitStarts
  <1>11. 1 \in UnitStarts(x)
    <2>1. 1 \in 1..m /\ 1 - 1 = 0 /\ f[1 - 1] < 1
      BY <1>1, <1>4
    <2> QED
      BY <1>1, <1>2, <2>1 DEF UnitStarts
  <1> QED
    BY <1>1, <1>10, <1>11

-----------------------------------------------------------------------------
(* What is known of a text, unit by unit.                                  *)
States == [depth : [StyleNames -> Nat], coverage : Seq(SUBSET StyleNames)]

Unread == [depth |-> [s \in StyleNames |-> 0], coverage |-> <<>>]

LEMMA ReadType ==
  ASSUME NEW state \in States, NEW token
  PROVE  Read(state, token) \in States
  <1>1. state.depth \in [StyleNames -> Nat] /\ state.coverage \in Seq(SUBSET StyleNames)
    BY DEF States
  <1>2. \A d \in [StyleNames -> Nat] : [state EXCEPT !.depth = d] \in States
    BY DEF States
  <1>3. \A c \in Seq(SUBSET StyleNames) : [state EXCEPT !.coverage = c] \in States
    BY DEF States
  <1>4. CASE StyleTag(token)
    <2>1. PICK d : d = [state.depth EXCEPT ![token.n] =
                          IF token.k = "open" THEN @ + 1 ELSE IF @ > 0 THEN @ - 1 ELSE 0]
      OBVIOUS
    <2>2. \A s \in StyleNames :
            (IF token.k = "open" THEN state.depth[s] + 1
             ELSE IF state.depth[s] > 0 THEN state.depth[s] - 1 ELSE 0) \in Nat
      BY <1>1
    <2>3. d \in [StyleNames -> Nat]
      BY <1>1, <2>1, <2>2
    <2>4. Read(state, token) = [state EXCEPT !.depth = d]
      BY <1>4, <2>1, Zenon DEF Read
    <2> QED
      BY <1>2, <2>3, <2>4
  <1>5. CASE ~StyleTag(token)
    <2>1. PICK S \in SUBSET StyleNames : S = {s \in StyleNames : state.depth[s] > 0}
      OBVIOUS
    <2>2. Append(state.coverage, S) \in Seq(SUBSET StyleNames)
      BY <1>1
    <2>3. Read(state, token) = [state EXCEPT !.coverage = Append(state.coverage, S)]
            \/ Read(state, token) = state
      BY <1>5, <2>1, Zenon DEF Read
    <2> QED
      BY <1>3, <2>2, <2>3
  <1> QED
    BY <1>4, <1>5

(* The loop of build_inline_style_state, for the first n tokens.           *)
Reads(text, read, n) ==
  /\ read[0] = Unread
  /\ \A i \in 0..n : read[i] \in States
  /\ \A i \in 1..n :
       read[i] = IF i \in UnitStarts(text) THEN Read(read[i - 1], text[i])
                                           ELSE read[i - 1]

LEMMA ReadUpToFacts ==
  ASSUME NEW A, NEW text \in Seq(A), NEW n \in Nat, n = Len(text)
  PROVE  Reads(text, ReadUpTo(text), n)
  <1> DEFINE starts == UnitStarts(text)
             IsRead(f) ==
               f = [i \in 0..n |->
                      IF i = 0 THEN [depth |-> [s \in StyleNames |-> 0], coverage |-> <<>>]
                      ELSE IF i \in starts THEN Read(f[i - 1], text[i]) ELSE f[i - 1]]
  <1>0. Unread \in States
    BY DEF Unread, States
  <1>1. PICK step : step = [i \in 1..n |-> [r \in States |->
                              IF i \in starts THEN Read(r, text[i]) ELSE r]]
    OBVIOUS
  <1>2. step \in [1..n -> [States -> States]]
    <2>1. \A i \in 1..n : \A r \in States :
            (IF i \in starts THEN Read(r, text[i]) ELSE r) \in States
      BY ReadType
    <2> QED
      BY <1>1, <2>1
  <1>3. PICK f : Rounds(f, States, Unread, step, n)
    BY <1>0, <1>2, RoundsExist
  <1>4. /\ f \in [0..n -> States] /\ f[0] = Unread
        /\ \A i \in 1..n : f[i] = IF i \in starts THEN Read(f[i - 1], text[i]) ELSE f[i - 1]
    <2>1. f \in [0..n -> States] /\ f[0] = Unread /\ \A i \in 1..n : f[i] = step[i][f[i - 1]]
      BY <1>3 DEF Rounds
    <2>2. \A i \in 1..n : i - 1 \in 0..n /\ f[i - 1] \in States
      BY <2>1
    <2> QED
      BY <1>1, <2>1, <2>2
  <1>5. IsRead(f)
    <2>1. f = [i \in 0..n |-> f[i]]
      BY <1>4
    <2>2. \A i \in 0..n : i = 0 \/ i \in 1..n
      OBVIOUS
    <2>3. \A i \in 0..n : f[i] = IF i = 0 THEN Unread
                                 ELSE IF i \in starts THEN Read(f[i - 1], text[i])
                                      ELSE f[i - 1]
      BY <1>4, <2>2
    <2> QED
      BY <2>1, <2>3, Zenon DEF Unread
  <1>6. PICK g : g = ReadUpTo(text)
    OBVIOUS
  <1>7. IsRead(g)
    <2>1. g = CHOOSE h : IsRead(h)
      BY <1>6, Zenon DEF ReadUpTo
    <2> HIDE DEF IsRead
    <2> QED
      BY <1>5, <2>1
  <1>8. /\ g[0] = Unread
        /\ \A i \in 1..n : g[i] = IF i \in starts THEN Read(g[i - 1], text[i]) ELSE g[i - 1]
    <2>1. 0 \in 0..n /\ \A i \in 1..n : i \in 0..n /\ i # 0
      OBVIOUS
    <2> QED
      BY <1>7, <2>1 DEF Unread
  <1>9. 0..n \subseteq {i \in 0..n : g[i] \in States}
    <2>1. PICK S : S = {i \in 0..n : g[i] \in States}
      OBVIOUS
    <2>2. ASSUME NEW i \in 1..n, i - 1 \in S PROVE i \in S
      <3>1. i \in 0..n /\ g[i - 1] \in States
        BY <2>1, <2>2
      <3>2. g[i] = Read(g[i - 1], text[i]) \/ g[i] = g[i - 1]
        BY <1>8
      <3>3. g[i] \in States
        BY <3>1, <3>2, ReadType
      <3> QED
        BY <2>1, <3>1, <3>3
    <2>3. 0 \in S
      BY <1>0, <1>8, <2>1
    <2>4. 0..n \subseteq S
      BY <2>2, <2>3, CountUp
    <2> QED
      BY <2>1, <2>4
  <1>10. \A i \in 0..n : g[i] \in States
    BY <1>9
  <1> QED
    BY <1>6, <1>8, <1>10, Zenon DEF Reads

(* What is known of the whole text.                                        *)
ReadOf(text) == ReadUpTo(text)[Len(text)]

LEMMA ReadOfType ==
  ASSUME NEW A, NEW text \in Seq(A)
  PROVE  /\ ReadOf(text) \in States
         /\ Coverage(text) = ReadOf(text).coverage
         /\ Coverage(text) \in Seq(SUBSET StyleNames)
  <1>1. PICK n \in Nat : n = Len(text)
    OBVIOUS
  <1>2. n \in 0..n /\ Reads(text, ReadUpTo(text), n)
    BY <1>1, ReadUpToFacts
  <1>3. ReadUpTo(text)[n] \in States
    BY <1>2 DEF Reads
  <1> QED
    BY <1>1, <1>3 DEF ReadOf, Coverage, States

LEMMA ReadsInFront ==
  ASSUME NEW A, NEW w \in Seq(A), NEW x \in Seq(A), NEW n \in Nat, NEW i \in 0..n,
         Clean(w), n = Len(w)
  PROVE  ReadUpTo(w \o x)[i] = ReadUpTo(w)[i]
  <1>1. PICK m \in Nat : m = Len(x)
    OBVIOUS
  <1>2. PICK c : c = w \o x
    OBVIOUS
  <1>3. c \in Seq(A) /\ Joined(c, w, x, n, m)
    BY <1>1, <1>2, ConcatElements
  <1>4. PICK l \in Nat : l = Len(c) /\ l = n + m
    BY <1>3 DEF Joined
  <1>5. PICK f : f = ReadUpTo(w)
    OBVIOUS
  <1>6. PICK g : g = ReadUpTo(c)
    OBVIOUS
  <1>7. Reads(w, f, n) /\ Reads(c, g, l)
    BY <1>3, <1>4, <1>5, <1>6, ReadUpToFacts
  <1>8. ASSUME NEW k \in 1..n, f[k - 1] = g[k - 1] PROVE f[k] = g[k]
    <2>1. k \in UnitStarts(c) <=> k \in UnitStarts(w)
      BY <1>2, StartsInFront
    <2>2. f[k] = IF k \in UnitStarts(w) THEN Read(f[k - 1], w[k]) ELSE f[k - 1]
      BY <1>7 DEF Reads
    <2>3. k \in 1..l
      BY <1>4
    <2>4. g[k] = IF k \in UnitStarts(c) THEN Read(g[k - 1], c[k]) ELSE g[k - 1]
      BY <1>7, <2>3 DEF Reads
    <2>5. c[k] = w[k]
      BY <1>3 DEF Joined
    <2> QED
      BY <1>8, <2>1, <2>2, <2>4, <2>5
  <1>9. PICK S : S = {k \in 0..n : f[k] = g[k]}
    OBVIOUS
  <1>10. 0 \in S
    BY <1>7, <1>9 DEF Reads
  <1>11. \A k \in 1..n : k - 1 \in S => k \in S
    BY <1>8, <1>9
  <1>12. 0..n \subseteq S
    BY <1>10, <1>11, CountUp
  <1> QED
    BY <1>2, <1>5, <1>6, <1>9, <1>12

(* Reading one unit more.                                                  *)
LEMMA ReadUnit ==
  ASSUME NEW A, NEW w \in Seq(A), NEW x \in Seq(A), Clean(w), Unit(x)
  PROVE  ReadOf(w \o x) = Read(ReadOf(w), x[1])
  <1>a. PICK n \in Nat : n = Len(w)
    OBVIOUS
  <1>1. PICK m \in Nat : m = Len(x) /\ m >= 1
    BY DEF Unit
  <1>2. PICK c : c = w \o x
    OBVIOUS
  <1>3. c \in Seq(A) /\ Joined(c, w, x, n, m)
    BY <1>a, <1>1, <1>2, ConcatElements
  <1>4. PICK l \in Nat : l = Len(c) /\ l = n + m
    BY <1>3 DEF Joined
  <1>5. PICK g : g = ReadUpTo(c)
    OBVIOUS
  <1>6. Reads(c, g, l)
    BY <1>3, <1>4, <1>5, ReadUpToFacts
  <1>7. g[n] = ReadOf(w)
    <2>1. n \in 0..n
      OBVIOUS
    <2> QED
      BY <1>a, <1>2, <1>5, <2>1, ReadsInFront DEF ReadOf
  <1>8. ASSUME NEW k \in 1..m, NEW p, p = n + k
        PROVE  /\ p \in 1..l
               /\ p \in UnitStarts(c) <=> k \in UnitStarts(x)
               /\ c[p] = x[k]
               /\ g[p] = IF p \in UnitStarts(c) THEN Read(g[p - 1], c[p]) ELSE g[p - 1]
    <2>1. p \in 1..l /\ k \in 1..Len(x)
      BY <1>1, <1>4, <1>8
    <2>2. p \in UnitStarts(c) <=> k \in UnitStarts(x)
      BY <1>a, <1>2, <1>8, <2>1, StartsBehind
    <2>3. c[p] = x[k]
      BY <1>3, <1>8 DEF Joined
    <2> QED
      BY <1>6, <2>1, <2>2, <2>3 DEF Reads
  <1>9. PICK S : S = {k \in 0..m : k = 0 \/ g[n + k] = Read(ReadOf(w), x[1])}
    OBVIOUS
  <1>10. 0 \in S
    BY <1>9
  <1>11. ASSUME NEW k \in 1..m, k - 1 \in S PROVE k \in S
    <2>1. PICK p : p = n + k
      OBVIOUS
    <2>2. CASE k = 1
      <3>1. p - 1 = n /\ k \in UnitStarts(x)
        BY <2>1, <2>2, UnitFacts
      <3>2. g[p] = Read(g[p - 1], x[1])
        BY <1>8, <2>1, <2>2, <3>1
      <3> QED
        BY <1>7, <1>9, <2>1, <3>1, <3>2
    <2>3. CASE k # 1
      <3>1. k \in 2..Len(x)
        BY <1>1, <2>3
      <3>2. k \notin UnitStarts(x)
        BY <3>1, UnitFacts
      <3>3. g[p] = g[p - 1] /\ p - 1 = n + (k - 1)
        BY <1>8, <2>1, <3>2
      <3>4. g[n + (k - 1)] = Read(ReadOf(w), x[1])
        BY <1>9, <1>11, <2>3
      <3> QED
        BY <1>9, <2>1, <3>3, <3>4
    <2> QED
      BY <2>2, <2>3
  <1>12. 0..m \subseteq S
    BY <1>10, <1>11, CountUp
  <1>13. m \in S /\ m # 0
    BY <1>1, <1>12
  <1>14. g[n + m] = Read(ReadOf(w), x[1])
    BY <1>9, <1>13
  <1> QED
    BY <1>2, <1>4, <1>5, <1>14 DEF ReadOf

-----------------------------------------------------------------------------
(* The names of some styles, in the order of Styles.                       *)
Distinct(names) == \A i, j \in 1..Len(names) : names[i] = names[j] => i = j

LEMMA InOrderFacts ==
  ASSUME NEW styles \in SUBSET StyleNames
  PROVE  /\ InOrder(styles) \in Seq(StyleNames)
         /\ Distinct(InOrder(styles))
         /\ Range(InOrder(styles)) = styles
  <1>1. PICK n \in Nat : n = Len(Styles) /\ DOMAIN Styles = 1..n
    BY NamesAssumption
  <1>2. PICK kept : kept = {i \in DOMAIN Styles : Styles[i] \in styles}
    OBVIOUS
  <1>3. kept \in SUBSET (1..n) /\ \A i \in kept : Styles[i] \in styles
    BY <1>1, <1>2
  <1>4. IsFiniteSet(kept) /\ kept \in SUBSET Nat
    <2>1. IsFiniteSet(1..n) /\ 1..n \subseteq Nat
      BY FS_Interval
    <2> QED
      BY <1>3, <2>1, FS_Subset
  <1>5. PICK k \in Nat : k = Cardinality(kept)
    BY <1>4, FS_CardinalityType
  <1>6. PICK names : names = InOrder(styles)
    OBVIOUS
  <1>7. names = [p \in 1..k |-> Styles[Nth(p, kept)]]
    BY <1>2, <1>5, <1>6, Zenon DEF InOrder
  <1>8. \A p \in 1..k : Nth(p, kept) \in kept /\ Cardinality({j \in kept : j <= Nth(p, kept)}) = p
    BY <1>4, <1>5, NthFacts
  <1>9. names \in Seq(StyleNames) /\ Len(names) = k
    <2>1. \A p \in 1..k : Styles[Nth(p, kept)] \in StyleNames
      BY <1>3, <1>8
    <2> QED
      BY <1>7, <2>1
  <1>10. Distinct(names)
    <2> SUFFICES ASSUME NEW i \in 1..k, NEW j \in 1..k, names[i] = names[j] PROVE i = j
      BY <1>9 DEF Distinct
    <2>1. Styles[Nth(i, kept)] = Styles[Nth(j, kept)]
      BY <1>7
    <2>2. Nth(i, kept) = Nth(j, kept)
      BY <1>1, <1>3, <1>8, <2>1, NamesAssumption
    <2> QED
      BY <1>8, <2>2
  <1>11. Range(names) \subseteq styles
    <2>1. \A p \in 1..k : names[p] \in styles
      BY <1>3, <1>7, <1>8
    <2> QED
      BY <1>9, <2>1, ElementsOfRange
  <1>12. ASSUME NEW s \in styles PROVE s \in Range(names)
    <2>1. PICK i \in DOMAIN Styles : Styles[i] = s
      BY DEF StyleNames
    <2>2. i \in kept
      BY <1>2, <2>1
    <2>3. PICK a : a = Ascending(kept)
      OBVIOUS
    <2>4. a \in Seq(Nat) /\ Len(a) = k /\ Range(a) = kept
      BY <1>4, <1>5, <2>3, AscendingFacts
    <2>5. PICK p \in 1..k : a[p] = i
      BY <2>2, <2>4, ElementsOfRange
    <2>6. a[p] = Nth(p, kept)
      BY <1>5, <2>3 DEF Ascending
    <2>7. names[p] = s
      BY <1>7, <2>1, <2>5, <2>6
    <2> QED
      BY <1>9, <2>7, ElementsOfRange
  <1> QED
    BY <1>6, <1>9, <1>10, <1>11, <1>12

LEMMA CommonFacts ==
  ASSUME NEW B, NEW names \in Seq(B), NEW others \in Seq(B)
  PROVE  /\ Common(names, others) \in Nat
         /\ Common(names, others) <= Len(names) /\ Common(names, others) <= Len(others)
         /\ \A i \in 1..Common(names, others) : names[i] = others[i]
  <1>1. PICK n \in Nat : n = Len(names)
    OBVIOUS
  <1>2. PICK S : S = {k \in 0..Len(names) :
                        k <= Len(others) /\ \A i \in 1..k : names[i] = others[i]}
    OBVIOUS
  <1>3. 0 \in S /\ \A k \in S : k \in 0..n
    BY <1>1, <1>2
  <1>4. PICK R : R = {r \in 0..n : n - r \in S}
    OBVIOUS
  <1>5. R \in SUBSET Nat /\ n \in R
    BY <1>3, <1>4
  <1>6. PICK r \in R : \A q \in R : r <= q
    BY <1>5, LeastNat
  <1>7. PICK k : k = n - r
    OBVIOUS
  <1>8. k \in S /\ r \in 0..n
    BY <1>4, <1>7
  <1>9. ASSUME NEW l \in S PROVE k >= l
    <2>1. l \in 0..n /\ n - (n - l) = l /\ n - l \in 0..n
      BY <1>3
    <2>2. n - l \in R
      BY <1>4, <2>1
    <2>3. r <= n - l
      BY <1>6, <2>2
    <2> QED
      BY <1>7, <1>8, <2>1, <2>3
  <1>10. \A x \in S : (\A y \in S : x >= y) => x = k
    BY <1>3, <1>8, <1>9
  <1>11. Common(names, others) = Sets!Max(S)
    BY <1>2, Zenon DEF Common
  <1>12. Common(names, others) = k
    BY <1>8, <1>9, <1>10, <1>11 DEF Sets!Max
  <1> QED
    BY <1>1, <1>2, <1>3, <1>8, <1>12

-----------------------------------------------------------------------------
(* The tokens of the texts, and the states of the output.                  *)
StyleTags ==
  {TagOf("open", s) : s \in StyleNames} \cup {TagOf("close", s) : s \in StyleNames}

SourceTokens == Token(STRING) \cup StyleTags

Outputs == [text : Seq(SourceTokens), emitted : Seq(StyleNames), offset : Nat]

LEMMA StyleTagType ==
  ASSUME NEW s \in StyleNames, NEW kind \in {"open", "close"}
  PROVE  /\ TagOf(kind, s) \in SourceTokens /\ StyleTag(TagOf(kind, s))
         /\ TagOf(kind, s).k = kind /\ TagOf(kind, s).n = s /\ TagOf(kind, s).ok
  <1>1. TagOf(kind, s).k = kind /\ TagOf(kind, s).n = s /\ TagOf(kind, s).ok
    BY Zenon DEF TagOf
  <1>2. StyleTag(TagOf(kind, s))
    BY <1>1 DEF StyleTag
  <1>3. TagOf(kind, s) \in SourceTokens
    BY Zenon DEF SourceTokens, StyleTags
  <1> QED
    BY <1>1, <1>2, <1>3

(* The tags that close what is not wanted and open what is missing.        *)
Closing(closes, names, c) ==
  /\ closes \in Seq(SourceTokens) /\ Len(closes) = Len(names) - c
  /\ \A i \in 1..(Len(names) - c) : closes[i] = TagOf("close", names[Len(names) + 1 - i])

Opening(opens, names, c) ==
  /\ opens \in Seq(SourceTokens) /\ Len(opens) = Len(names) - c
  /\ \A i \in 1..(Len(names) - c) : opens[i] = TagOf("open", names[c + i])

LEMMA OpeningFacts ==
  ASSUME NEW names \in Seq(StyleNames), NEW c \in Nat, c <= Len(names)
  PROVE  Opening(TagsOf("open", SubSeq(names, c + 1, Len(names))), names, c)
  <1>1. PICK n \in Nat : n = Len(names)
    OBVIOUS
  <1>2. PICK r : r = SubSeq(names, c + 1, n)
    OBVIOUS
  <1>a. n - c \in Nat
    BY <1>1
  <1>3. PICK m \in Nat : m = n - c
    BY <1>a
  <1>4. r \in Seq(StyleNames) /\ Len(r) = m /\ \A j \in 1..m : r[j] = names[c + j]
    BY <1>1, <1>2, <1>3, SliceFacts
  <1>5. PICK t : t = TagsOf("open", r)
    OBVIOUS
  <1>6. t = [i \in 1..m |-> TagOf("open", r[i])]
    BY <1>4, <1>5, Zenon DEF TagsOf
  <1>7. \A i \in 1..m : TagOf("open", r[i]) \in SourceTokens
    <2>1. \A i \in 1..m : r[i] \in StyleNames
      BY <1>4
    <2> QED
      BY <2>1, StyleTagType, Zenon
  <1>8. t \in Seq(SourceTokens) /\ Len(t) = m
    BY <1>6, <1>7
  <1>9. \A i \in 1..m : t[i] = TagOf("open", names[c + i])
    BY <1>4, <1>6, Zenon
  <1> QED
    BY <1>1, <1>2, <1>3, <1>5, <1>8, <1>9 DEF Opening

LEMMA ClosingFacts ==
  ASSUME NEW names \in Seq(StyleNames), NEW c \in Nat, c <= Len(names)
  PROVE  Closing(TagsOf("close", Backwards(SubSeq(names, c + 1, Len(names)))), names, c)
  <1>1. PICK n \in Nat : n = Len(names)
    OBVIOUS
  <1>2. PICK r : r = SubSeq(names, c + 1, n)
    OBVIOUS
  <1>a. n - c \in Nat
    BY <1>1
  <1>3. PICK m \in Nat : m = n - c
    BY <1>a
  <1>4. r \in Seq(StyleNames) /\ Len(r) = m /\ \A j \in 1..m : r[j] = names[c + j]
    BY <1>1, <1>2, <1>3, SliceFacts
  <1>5. PICK b : b = Backwards(r)
    OBVIOUS
  <1>6. b = [i \in 1..m |-> r[m + 1 - i]]
    BY <1>4, <1>5, Zenon DEF Backwards
  <1>7. ASSUME NEW i \in 1..m PROVE b[i] \in StyleNames /\ b[i] = names[n + 1 - i]
    <2>1. PICK j : j = m + 1 - i
      OBVIOUS
    <2>2. j \in 1..m /\ c + j = n + 1 - i
      BY <1>3, <2>1
    <2>3. b[i] = r[j]
      BY <1>6, <2>1
    <2> QED
      BY <1>4, <2>2, <2>3
  <1>8. Len(b) = m
    BY <1>6
  <1>9. PICK t : t = TagsOf("close", b)
    OBVIOUS
  <1>10. t = [i \in 1..m |-> TagOf("close", b[i])]
    BY <1>8, <1>9, Zenon DEF TagsOf
  <1>11. \A i \in 1..m : TagOf("close", b[i]) \in SourceTokens
    BY <1>7, StyleTagType, Zenon
  <1>12. t \in Seq(SourceTokens) /\ Len(t) = m
    BY <1>10, <1>11
  <1>13. \A i \in 1..m : t[i] = TagOf("close", names[n + 1 - i])
    BY <1>7, <1>10, Zenon
  <1> QED
    BY <1>1, <1>2, <1>3, <1>5, <1>9, <1>12, <1>13 DEF Closing

(* What a synchronization writes.                                          *)
Shared(names, others, c) ==
  /\ c \in Nat /\ c <= Len(names) /\ c <= Len(others)
  /\ \A i \in 1..c : names[i] = others[i]

Syncs(out, styles, closes, opens, c) ==
  /\ Shared(out.emitted, InOrder(styles), c)
  /\ Closing(closes, out.emitted, c)
  /\ Opening(opens, InOrder(styles), c)
  /\ Synchronized(out, styles) =
       [text |-> (out.text \o closes) \o opens, emitted |-> InOrder(styles),
        offset |-> out.offset]

LEMMA SynchronizedFacts ==
  ASSUME NEW out \in Outputs, NEW styles \in SUBSET StyleNames
  PROVE  \E closes, opens, c : Syncs(out, styles, closes, opens, c)
  <1>1. PICK e : e = out.emitted
    OBVIOUS
  <1>2. PICK v : v = InOrder(styles)
    OBVIOUS
  <1>3. e \in Seq(StyleNames) /\ v \in Seq(StyleNames)
    BY <1>1, <1>2, InOrderFacts DEF Outputs
  <1>4. PICK c : c = Common(e, v)
    OBVIOUS
  <1>5. Shared(e, v, c)
    BY <1>3, <1>4, CommonFacts DEF Shared
  <1>6. PICK closes : closes = TagsOf("close", Backwards(SubSeq(e, c + 1, Len(e))))
    OBVIOUS
  <1>7. PICK opens : opens = TagsOf("open", SubSeq(v, c + 1, Len(v)))
    OBVIOUS
  <1>8. c \in Nat /\ c <= Len(e) /\ c <= Len(v)
    BY <1>5 DEF Shared
  <1>9. Closing(closes, e, c) /\ Opening(opens, v, c)
    BY <1>3, <1>6, <1>7, <1>8, ClosingFacts, OpeningFacts
  <1>10. Synchronized(out, styles) =
           [out EXCEPT !.text = (@ \o closes) \o opens, !.emitted = v]
    BY <1>1, <1>2, <1>4, <1>6, <1>7, Zenon DEF Synchronized
  <1>11. out = [text |-> out.text, emitted |-> out.emitted, offset |-> out.offset]
    BY DEF Outputs
  <1>12. Synchronized(out, styles) =
           [text |-> (out.text \o closes) \o opens, emitted |-> v, offset |-> out.offset]
    BY <1>10, <1>11
  <1> QED
    BY <1>1, <1>2, <1>5, <1>9, <1>12 DEF Syncs

LEMMA StylesAtType ==
  ASSUME NEW coverage \in Seq(SUBSET StyleNames), NEW o \in Nat
  PROVE  StylesAt(coverage, o) \in SUBSET StyleNames
  <1>1. CASE o < Len(coverage)
    <2>1. o + 1 \in 1..Len(coverage)
      BY <1>1
    <2>2. coverage[o + 1] \in SUBSET StyleNames
      BY <2>1
    <2> QED
      BY <1>1, <2>2 DEF StylesAt
  <1>2. CASE ~(o < Len(coverage))
    BY <1>2 DEF StylesAt
  <1> QED
    BY <1>1, <1>2

LEMMA SynchronizedType ==
  ASSUME NEW out \in Outputs, NEW styles \in SUBSET StyleNames
  PROVE  Synchronized(out, styles) \in Outputs
  <1>1. PICK closes, opens, c : Syncs(out, styles, closes, opens, c)
    BY SynchronizedFacts
  <1>2. closes \in Seq(SourceTokens) /\ opens \in Seq(SourceTokens)
    BY <1>1 DEF Syncs, Closing, Opening
  <1>3. out.text \in Seq(SourceTokens) /\ out.offset \in Nat
    BY DEF Outputs
  <1>4. PICK t : t = (out.text \o closes) \o opens
    OBVIOUS
  <1>5. out.text \o closes \in Seq(SourceTokens)
    BY <1>2, <1>3, ConcatProperties
  <1>6. t \in Seq(SourceTokens)
    BY <1>2, <1>4, <1>5, ConcatProperties
  <1>7. Synchronized(out, styles) =
          [text |-> t, emitted |-> InOrder(styles), offset |-> out.offset]
    BY <1>1, <1>4, Zenon DEF Syncs
  <1> QED
    BY <1>3, <1>6, <1>7, InOrderFacts DEF Outputs

(* The unit of a text that starts at position i.                           *)
UnitAt(text, i) == SubSeq(text, i, i + Width(text, i) - 1)

LEMMA UnitAtFacts ==
  ASSUME NEW A, NEW text \in Seq(A), NEW i \in 1..Len(text)
  PROVE  /\ UnitAt(text, i) \in Seq(A)
         /\ Width(text, i) \in Nat /\ Width(text, i) >= 1
         /\ Len(UnitAt(text, i)) = Width(text, i)
         /\ i + Width(text, i) - 1 <= Len(text)
         /\ \A j \in 1..Width(text, i) : UnitAt(text, i)[j] = text[(i - 1) + j]
         /\ UnitAt(text, i)[1] = text[i]
  <1>1. PICK last : last = i + Width(text, i) - 1
    OBVIOUS
  <1>2. last \in i..Len(text) /\ Width(text, i) \in Nat
    <2>1. Width(text, i) = IF EntityLength(text, i) > 0 THEN EntityLength(text, i) ELSE 1
      BY DEF Width
    <2> QED
      BY <1>1, <2>1, WidthFacts
  <1>3. PICK a \in Nat : a = i - 1 /\ a + 1 = i
    OBVIOUS
  <1>4. PICK x : x = SubSeq(text, a + 1, last)
    OBVIOUS
  <1>5. a <= last /\ last <= Len(text) /\ last \in Nat /\ last - a = Width(text, i)
    BY <1>1, <1>2, <1>3
  <1>6. x \in Seq(A) /\ Len(x) = last - a /\ \A j \in 1..(last - a) : x[j] = text[a + j]
    BY <1>4, <1>5, SliceFacts
  <1>7. x = UnitAt(text, i)
    BY <1>1, <1>3, <1>4 DEF UnitAt
  <1>8. 1 \in 1..(last - a) /\ a + 1 = i
    BY <1>2, <1>3
  <1> QED
    BY <1>1, <1>2, <1>3, <1>5, <1>6, <1>7, <1>8

LEMMA WrittenIs ==
  ASSUME NEW out \in Outputs, NEW coverage \in Seq(SUBSET StyleNames),
         NEW text \in Seq(SourceTokens), NEW i \in 1..Len(text), NEW b, NEW x, NEW styles,
         ~StyleTag(text[i]), styles = StylesAt(coverage, out.offset),
         b = Synchronized(out, styles), x = UnitAt(text, i)
  PROVE  Written(out, coverage, text, i) =
           [text |-> b.text \o x, emitted |-> b.emitted,
            offset |-> out.offset + (IF Visible(text[i]) THEN 1 ELSE 0)]
  <1>1. styles \in SUBSET StyleNames /\ out.offset \in Nat
    BY StylesAtType DEF Outputs
  <1>2. b \in Outputs
    BY <1>1, SynchronizedType
  <1>3. b = [text |-> b.text, emitted |-> b.emitted, offset |-> b.offset]
    BY <1>2 DEF Outputs
  <1>4. b.offset = out.offset
    <2>1. PICK closes, opens, c : Syncs(out, styles, closes, opens, c)
      BY <1>1, SynchronizedFacts
    <2>2. b = [text |-> (out.text \o closes) \o opens, emitted |-> InOrder(styles),
               offset |-> out.offset]
      BY <2>1 DEF Syncs
    <2> QED
      BY <2>2
  <1>5. Written(out, coverage, text, i) =
          [b EXCEPT !.text = @ \o x, !.offset = IF Visible(text[i]) THEN @ + 1 ELSE @]
    BY Zenon DEF Written, UnitAt
  <1>6. Written(out, coverage, text, i) =
          [text |-> b.text \o x, emitted |-> b.emitted,
           offset |-> IF Visible(text[i]) THEN b.offset + 1 ELSE b.offset]
    BY <1>3, <1>5
  <1>7. (IF Visible(text[i]) THEN b.offset + 1 ELSE b.offset) =
          out.offset + (IF Visible(text[i]) THEN 1 ELSE 0)
    BY <1>1, <1>4
  <1> QED
    BY <1>6, <1>7

LEMMA WrittenType ==
  ASSUME NEW out \in Outputs, NEW coverage \in Seq(SUBSET StyleNames),
         NEW text \in Seq(SourceTokens), NEW i \in 1..Len(text)
  PROVE  Written(out, coverage, text, i) \in Outputs
  <1>1. CASE StyleTag(text[i])
    BY <1>1 DEF Written
  <1>2. CASE ~StyleTag(text[i])
    <2>1. PICK styles : styles = StylesAt(coverage, out.offset)
      OBVIOUS
    <2>2. PICK b : b = Synchronized(out, styles)
      OBVIOUS
    <2>3. PICK x : x = UnitAt(text, i)
      OBVIOUS
    <2>4. styles \in SUBSET StyleNames /\ out.offset \in Nat
      BY <2>1, StylesAtType DEF Outputs
    <2>5. b \in Outputs
      BY <2>2, <2>4, SynchronizedType
    <2>6. x \in Seq(SourceTokens)
      BY <2>3, UnitAtFacts
    <2>7. b.text \in Seq(SourceTokens) /\ b.emitted \in Seq(StyleNames)
      BY <2>5 DEF Outputs
    <2>8. PICK t : t = b.text \o x
      OBVIOUS
    <2>9. t \in Seq(SourceTokens)
      BY <2>6, <2>7, <2>8, ConcatProperties
    <2>10. PICK o \in Nat : o = out.offset + (IF Visible(text[i]) THEN 1 ELSE 0)
      BY <2>4
    <2>11. Written(out, coverage, text, i) = [text |-> t, emitted |-> b.emitted, offset |-> o]
      BY ZenonT(40), <1>2, <2>1, <2>2, <2>3, <2>8, <2>10, WrittenIs
    <2> QED
      BY <2>7, <2>9, <2>11 DEF Outputs
  <1> QED
    BY <1>1, <1>2

-----------------------------------------------------------------------------
(* The output, unit by unit.                                               *)
Unwritten == [text |-> <<>>, emitted |-> <<>>, offset |-> 0]

Writes(text, coverage, out, n) ==
  /\ out[0] = Unwritten
  /\ \A i \in 0..n : out[i] \in Outputs
  /\ \A i \in 1..n :
       out[i] = IF i \in UnitStarts(text) THEN Written(out[i - 1], coverage, text, i)
                                          ELSE out[i - 1]

LEMMA WrittenUpToFacts ==
  ASSUME NEW text \in Seq(SourceTokens), NEW coverage \in Seq(SUBSET StyleNames),
         NEW n \in Nat, n = Len(text)
  PROVE  Writes(text, coverage, WrittenUpTo(text, coverage), n)
  <1> DEFINE starts == UnitStarts(text)
             IsOut(f) ==
               f = [i \in 0..n |->
                      IF i = 0 THEN [text |-> <<>>, emitted |-> <<>>, offset |-> 0]
                      ELSE IF i \in starts THEN Written(f[i - 1], coverage, text, i)
                                           ELSE f[i - 1]]
  <1>0. Unwritten \in Outputs
    BY DEF Unwritten, Outputs
  <1>1. PICK step : step = [i \in 1..n |-> [r \in Outputs |->
                              IF i \in starts THEN Written(r, coverage, text, i) ELSE r]]
    OBVIOUS
  <1>2. step \in [1..n -> [Outputs -> Outputs]]
    <2>1. \A i \in 1..n : \A r \in Outputs :
            (IF i \in starts THEN Written(r, coverage, text, i) ELSE r) \in Outputs
      BY WrittenType
    <2> QED
      BY <1>1, <2>1
  <1>3. PICK f : Rounds(f, Outputs, Unwritten, step, n)
    BY <1>0, <1>2, RoundsExist
  <1>4. /\ f \in [0..n -> Outputs] /\ f[0] = Unwritten
        /\ \A i \in 1..n : f[i] = IF i \in starts THEN Written(f[i - 1], coverage, text, i)
                                                  ELSE f[i - 1]
    <2>1. f \in [0..n -> Outputs] /\ f[0] = Unwritten /\ \A i \in 1..n : f[i] = step[i][f[i - 1]]
      BY <1>3 DEF Rounds
    <2>2. ASSUME NEW i \in 1..n PROVE i - 1 \in 0..n /\ f[i - 1] \in Outputs
      <3>1. i - 1 \in 0..n
        OBVIOUS
      <3> QED
        BY <2>1, <3>1
    <2> QED
      BY <1>1, <2>1, <2>2
  <1>5. IsOut(f)
    <2>1. f = [i \in 0..n |-> f[i]]
      BY <1>4
    <2>2. \A i \in 0..n : i = 0 \/ i \in 1..n
      OBVIOUS
    <2>3. \A i \in 0..n : f[i] = IF i = 0 THEN Unwritten
                                 ELSE IF i \in starts THEN Written(f[i - 1], coverage, text, i)
                                      ELSE f[i - 1]
      BY <1>4, <2>2
    <2> QED
      BY <2>1, <2>3, Zenon DEF Unwritten
  <1>6. PICK g : g = WrittenUpTo(text, coverage)
    OBVIOUS
  <1>7. IsOut(g)
    <2>1. g = CHOOSE h : IsOut(h)
      BY <1>6, Zenon DEF WrittenUpTo
    <2> HIDE DEF IsOut
    <2> QED
      BY <1>5, <2>1
  <1>8. /\ g[0] = Unwritten
        /\ \A i \in 1..n : g[i] = IF i \in starts THEN Written(g[i - 1], coverage, text, i)
                                                  ELSE g[i - 1]
    <2>1. 0 \in 0..n /\ \A i \in 1..n : i \in 0..n /\ i # 0
      OBVIOUS
    <2> QED
      BY <1>7, <2>1 DEF Unwritten
  <1>9. 0..n \subseteq {i \in 0..n : g[i] \in Outputs}
    <2>1. PICK S : S = {i \in 0..n : g[i] \in Outputs}
      OBVIOUS
    <2>2. ASSUME NEW i \in 1..n, i - 1 \in S PROVE i \in S
      <3>1. i \in 0..n /\ g[i - 1] \in Outputs
        BY <2>1, <2>2
      <3>2. g[i] = Written(g[i - 1], coverage, text, i) \/ g[i] = g[i - 1]
        BY <1>8
      <3>3. g[i] \in Outputs
        BY <3>1, <3>2, WrittenType
      <3> QED
        BY <2>1, <3>1, <3>3
    <2>3. 0 \in S
      BY <1>0, <1>8, <2>1
    <2>4. 0..n \subseteq S
      BY <2>2, <2>3, CountUp
    <2> QED
      BY <2>1, <2>4
  <1>10. \A i \in 0..n : g[i] \in Outputs
    BY <1>9
  <1> QED
    BY <1>6, <1>8, <1>10, Zenon DEF Writes

-----------------------------------------------------------------------------
(* What is left of a text without its style tags.                          *)
Others(text, other, n, A) ==
  /\ other[0] = <<>>
  /\ \A i \in 0..n : other[i] \in Seq(A)
  /\ \A i \in 1..n :
       other[i] = IF StyleTag(text[i]) THEN other[i - 1] ELSE Append(other[i - 1], text[i])

LEMMA OtherUpToFacts ==
  ASSUME NEW A, NEW text \in Seq(A), NEW n \in Nat, n = Len(text)
  PROVE  Others(text, OtherUpTo(text), n, A)
  <1> DEFINE IsOther(f) ==
               f = [i \in 0..n |->
                      IF i = 0 THEN <<>>
                      ELSE IF StyleTag(text[i]) THEN f[i - 1] ELSE Append(f[i - 1], text[i])]
  <1>z. PICK D : D = Seq(A)
    OBVIOUS
  <1>0. /\ <<>> \in D
        /\ \A i \in 1..n : \A r \in D : Append(r, text[i]) \in D
    BY <1>z
  <1>1. PICK step : step = [i \in 1..n |-> [r \in D |->
                              IF StyleTag(text[i]) THEN r ELSE Append(r, text[i])]]
    OBVIOUS
  <1>2. step \in [1..n -> [D -> D]]
    BY <1>0, <1>1
  <1>3. PICK f : Rounds(f, D, <<>>, step, n)
    BY <1>0, <1>2, RoundsExist
  <1>4. /\ f \in [0..n -> D] /\ f[0] = <<>>
        /\ \A i \in 1..n : f[i] = IF StyleTag(text[i]) THEN f[i - 1] ELSE Append(f[i - 1], text[i])
    <2>1. f \in [0..n -> D] /\ f[0] = <<>> /\ \A i \in 1..n : f[i] = step[i][f[i - 1]]
      BY <1>3 DEF Rounds
    <2>2. \A i \in 1..n : i - 1 \in 0..n /\ f[i - 1] \in D
      BY <2>1
    <2> QED
      BY <1>1, <2>1, <2>2
  <1>5. IsOther(f)
    <2>1. f = [i \in 0..n |-> f[i]]
      BY <1>4
    <2>2. \A i \in 0..n : i = 0 \/ i \in 1..n
      OBVIOUS
    <2>3. \A i \in 0..n : f[i] = IF i = 0 THEN <<>>
                                 ELSE IF StyleTag(text[i]) THEN f[i - 1]
                                      ELSE Append(f[i - 1], text[i])
      BY <1>4, <2>2
    <2> QED
      BY <2>1, <2>3, Zenon
  <1>6. PICK g : g = OtherUpTo(text)
    OBVIOUS
  <1>7. IsOther(g)
    <2>1. g = CHOOSE h : IsOther(h)
      BY <1>6, Zenon DEF OtherUpTo
    <2> HIDE DEF IsOther
    <2> QED
      BY <1>5, <2>1
  <1>8. /\ g[0] = <<>>
        /\ \A i \in 1..n : g[i] = IF StyleTag(text[i]) THEN g[i - 1] ELSE Append(g[i - 1], text[i])
    <2>1. 0 \in 0..n /\ \A i \in 1..n : i \in 0..n /\ i # 0
      OBVIOUS
    <2> QED
      BY <1>7, <2>1
  <1>9. 0..n \subseteq {i \in 0..n : g[i] \in D}
    <2>1. PICK S : S = {i \in 0..n : g[i] \in D}
      OBVIOUS
    <2>2. ASSUME NEW i \in 1..n, i - 1 \in S PROVE i \in S
      <3>1. i \in 0..n /\ g[i - 1] \in D
        BY <2>1, <2>2
      <3>2. g[i] = Append(g[i - 1], text[i]) \/ g[i] = g[i - 1]
        BY <1>8
      <3>3. g[i] \in D
        BY <1>0, <3>1, <3>2
      <3> QED
        BY <2>1, <3>1, <3>3
    <2>3. 0 \in S
      BY <1>0, <1>8, <2>1
    <2>4. 0..n \subseteq S
      BY <2>2, <2>3, CountUp
    <2> QED
      BY <2>1, <2>4
  <1>10. \A i \in 0..n : g[i] \in Seq(A)
    BY <1>9, <1>z
  <1> QED
    BY <1>6, <1>8, <1>10, Zenon DEF Others

LEMMA OtherTokensType ==
  ASSUME NEW A, NEW text \in Seq(A)
  PROVE  OtherTokens(text) \in Seq(A) /\ (text = <<>> => OtherTokens(text) = <<>>)
  <1>1. PICK n \in Nat : n = Len(text)
    OBVIOUS
  <1>2. n \in 0..n /\ (text = <<>> => n = 0)
    BY <1>1
  <1>3. Others(text, OtherUpTo(text), n, A)
    BY <1>1, OtherUpToFacts
  <1> QED
    BY <1>1, <1>2, <1>3 DEF OtherTokens, Others

LEMMA OtherOfTags ==
  ASSUME NEW A, NEW text \in Seq(A), \A i \in 1..Len(text) : StyleTag(text[i])
  PROVE  OtherTokens(text) = <<>>
  <1>1. PICK n \in Nat : n = Len(text)
    OBVIOUS
  <1>2. PICK f : f = OtherUpTo(text)
    OBVIOUS
  <1>3. Others(text, f, n, A)
    BY <1>1, <1>2, OtherUpToFacts
  <1>4. PICK S : S = {i \in 0..n : f[i] = <<>>}
    OBVIOUS
  <1>5. 0 \in S
    BY <1>3, <1>4 DEF Others
  <1>6. ASSUME NEW i \in 1..n, i - 1 \in S PROVE i \in S
    <2>1. StyleTag(text[i])
      BY <1>1
    <2>2. f[i] = f[i - 1]
      BY <1>3, <2>1 DEF Others
    <2> QED
      BY <1>4, <1>6, <2>2
  <1>7. 0..n \subseteq S
    BY <1>5, <1>6, CountUp
  <1>8. n \in S
    BY <1>7
  <1> QED
    BY <1>1, <1>2, <1>4, <1>8 DEF OtherTokens

(* It is taken from two texts put together as from each of them.           *)
LEMMA OtherConcat ==
  ASSUME NEW A, NEW w \in Seq(A), NEW x \in Seq(A)
  PROVE  OtherTokens(w \o x) = OtherTokens(w) \o OtherTokens(x)
  <1>a. PICK n \in Nat : n = Len(w)
    OBVIOUS
  <1>1. PICK m \in Nat : m = Len(x)
    OBVIOUS
  <1>2. PICK c : c = w \o x
    OBVIOUS
  <1>3. c \in Seq(A) /\ Joined(c, w, x, n, m)
    BY <1>a, <1>1, <1>2, ConcatElements
  <1>4. PICK l \in Nat : l = Len(c) /\ l = n + m
    BY <1>3 DEF Joined
  <1>5. PICK f : f = OtherUpTo(w)
    OBVIOUS
  <1>6. PICK g : g = OtherUpTo(c)
    OBVIOUS
  <1>7. PICK h : h = OtherUpTo(x)
    OBVIOUS
  <1>8. Others(w, f, n, A) /\ Others(c, g, l, A) /\ Others(x, h, m, A)
    BY <1>a, <1>1, <1>3, <1>4, <1>5, <1>6, <1>7, OtherUpToFacts
  <1>9. ASSUME NEW k \in 1..n, f[k - 1] = g[k - 1] PROVE f[k] = g[k]
    <2>1. k \in 1..l /\ c[k] = w[k]
      BY <1>3, <1>4 DEF Joined
    <2>2. f[k] = IF StyleTag(w[k]) THEN f[k - 1] ELSE Append(f[k - 1], w[k])
      BY <1>8 DEF Others
    <2>3. g[k] = IF StyleTag(c[k]) THEN g[k - 1] ELSE Append(g[k - 1], c[k])
      BY <1>8, <2>1 DEF Others
    <2> QED
      BY <1>9, <2>1, <2>2, <2>3
  <1>10. PICK S : S = {k \in 0..n : f[k] = g[k]}
    OBVIOUS
  <1>11. 0 \in S
    BY <1>8, <1>10 DEF Others
  <1>12. ASSUME NEW k \in 1..n, k - 1 \in S PROVE k \in S
    <2>1. f[k - 1] = g[k - 1]
      BY <1>10, <1>12
    <2>2. f[k] = g[k]
      BY <1>9, <2>1
    <2> QED
      BY <1>10, <2>2
  <1>13. 0..n \subseteq S
    BY <1>11, <1>12, CountUp
  <1>14. PICK P \in Seq(A) : P = f[n] /\ P = g[n]
    <2>1. n \in 0..n /\ n \in S
      BY <1>13
    <2>2. f[n] \in Seq(A)
      BY <1>8, <2>1 DEF Others
    <2> QED
      BY <1>10, <2>1, <2>2
  <1>15. ASSUME NEW k \in 1..m, NEW p, p = n + k, g[p - 1] = P \o h[k - 1]
         PROVE  g[p] = P \o h[k]
    <2>1. p \in 1..l /\ c[p] = x[k] /\ k - 1 \in 0..m
      BY <1>3, <1>4, <1>15 DEF Joined
    <2>2. h[k] = IF StyleTag(x[k]) THEN h[k - 1] ELSE Append(h[k - 1], x[k])
      BY <1>8 DEF Others
    <2>3. g[p] = IF StyleTag(c[p]) THEN g[p - 1] ELSE Append(g[p - 1], c[p])
      BY <1>8, <2>1 DEF Others
    <2>4. h[k - 1] \in Seq(A)
      BY <1>8, <2>1 DEF Others
    <2>5. PICK r \in Seq(A) : r = h[k - 1]
      BY <2>4
    <2>6. PICK t \in A : t = x[k]
      BY <1>1
    <2>7. Append(P \o r, t) = P \o Append(r, t)
      <3>1. P \o r \in Seq(A) /\ <<t>> \in Seq(A)
        BY ConcatProperties
      <3>2. Append(P \o r, t) = (P \o r) \o <<t>>
        BY <3>1, AppendIsConcat
      <3>3. Append(r, t) = r \o <<t>>
        BY AppendIsConcat
      <3>4. (P \o r) \o <<t>> = P \o (r \o <<t>>)
        BY SMTT(20), <3>1, ConcatAssociative
      <3> QED
        BY <3>2, <3>3, <3>4, Zenon
    <2> QED
      BY <1>15, <2>1, <2>2, <2>3, <2>5, <2>6, <2>7, Zenon
  <1>16. PICK R : R = {k \in 0..m : g[n + k] = P \o h[k]}
    OBVIOUS
  <1>17. 0 \in R
    <2>1. h[0] = <<>> /\ n + 0 = n
      BY <1>8 DEF Others
    <2>2. P \o <<>> = P
      BY ConcatEmptySeq
    <2>3. g[n + 0] = P \o h[0]
      BY <1>14, <2>1, <2>2, Zenon
    <2> QED
      BY <1>16, <2>3
  <1>18. ASSUME NEW k \in 1..m, k - 1 \in R PROVE k \in R
    <2>1. PICK p : p = n + k
      OBVIOUS
    <2>2. p - 1 = n + (k - 1)
      BY <2>1
    <2>3. g[p - 1] = P \o h[k - 1]
      BY <1>16, <1>18, <2>2
    <2>4. g[p] = P \o h[k]
      BY <1>15, <2>1, <2>3
    <2> QED
      BY <1>16, <2>1, <2>4
  <1>19. 0..m \subseteq R
    BY <1>17, <1>18, CountUp
  <1>20. g[l] = P \o h[m]
    BY <1>4, <1>16, <1>19
  <1> QED
    BY <1>a, <1>1, <1>2, <1>4, <1>5, <1>6, <1>7, <1>14, <1>20, Zenon DEF OtherTokens

-----------------------------------------------------------------------------
(* A synchronization writes style tags and nothing else.                   *)
LEMMA SyncWritesTags ==
  ASSUME NEW out, NEW styles \in SUBSET StyleNames, NEW closes, NEW opens, NEW c,
         out \in Outputs, Syncs(out, styles, closes, opens, c)
  PROVE  /\ closes \in Seq(SourceTokens) /\ opens \in Seq(SourceTokens)
         /\ \A i \in 1..Len(closes) : StyleTag(closes[i])
         /\ \A i \in 1..Len(opens) : StyleTag(opens[i])
  <1>1. PICK e : e = out.emitted
    OBVIOUS
  <1>2. PICK v : v = InOrder(styles)
    OBVIOUS
  <1>3. e \in Seq(StyleNames) /\ v \in Seq(StyleNames)
    BY <1>1, <1>2, InOrderFacts DEF Outputs
  <1>4. Shared(e, v, c) /\ Closing(closes, e, c) /\ Opening(opens, v, c)
    BY <1>1, <1>2 DEF Syncs
  <1>5. PICK n \in Nat : n = Len(e)
    BY <1>3
  <1>6. PICK m \in Nat : m = Len(v)
    BY <1>3
  <1>7. c \in Nat /\ c <= n /\ c <= m
    BY <1>4, <1>5, <1>6 DEF Shared
  <1>8. ASSUME NEW i \in 1..(n - c) PROVE StyleTag(closes[i])
    <2>1. PICK j : j = n + 1 - i
      OBVIOUS
    <2>2. j \in 1..n
      BY <1>7, <2>1
    <2>3. e[j] \in StyleNames
      BY <1>3, <1>5, <2>2
    <2>4. closes[i] = TagOf("close", e[j])
      BY <1>4, <1>5, <2>1 DEF Closing
    <2> QED
      BY <2>3, <2>4, StyleTagType, Zenon
  <1>9. ASSUME NEW i \in 1..(m - c) PROVE StyleTag(opens[i])
    <2>1. PICK j : j = c + i
      OBVIOUS
    <2>2. j \in 1..m
      BY <1>7, <2>1
    <2>3. v[j] \in StyleNames
      BY <1>3, <1>6, <2>2
    <2>4. opens[i] = TagOf("open", v[j])
      BY <1>4, <1>6, <2>1 DEF Opening
    <2> QED
      BY <2>3, <2>4, StyleTagType, Zenon
  <1> QED
    BY <1>4, <1>5, <1>6, <1>8, <1>9 DEF Closing, Opening

LEMMA SyncKeepsOthers ==
  ASSUME NEW out \in Outputs, NEW styles \in SUBSET StyleNames
  PROVE  OtherTokens(Synchronized(out, styles).text) = OtherTokens(out.text)
  <1>1. PICK closes, opens, c : Syncs(out, styles, closes, opens, c)
    BY SynchronizedFacts
  <1>2. /\ closes \in Seq(SourceTokens) /\ opens \in Seq(SourceTokens)
        /\ OtherTokens(closes) = <<>> /\ OtherTokens(opens) = <<>>
    BY <1>1, SyncWritesTags, OtherOfTags
  <1>3. PICK t \in Seq(SourceTokens) : t = out.text
    BY DEF Outputs
  <1>4. PICK u : u = t \o closes
    OBVIOUS
  <1>5. u \in Seq(SourceTokens) /\ OtherTokens(t) \in Seq(SourceTokens)
    BY <1>2, <1>4, ConcatProperties, OtherTokensType
  <1>6. OtherTokens(u) = OtherTokens(t) \o <<>>
    BY <1>2, <1>4, OtherConcat, Zenon
  <1>7. OtherTokens(u \o opens) = OtherTokens(u) \o <<>>
    BY <1>2, <1>5, OtherConcat, Zenon
  <1>8. OtherTokens(t) \o <<>> = OtherTokens(t)
    BY <1>5, ConcatEmptySeq
  <1>9. Synchronized(out, styles).text = u \o opens
    <2>1. Synchronized(out, styles) =
            [text |-> u \o opens, emitted |-> InOrder(styles), offset |-> out.offset]
      BY <1>1, <1>3, <1>4, Zenon DEF Syncs
    <2> QED
      BY <2>1
  <1> QED
    BY <1>3, <1>6, <1>7, <1>8, <1>9, Zenon

(* Style tags are read one by one.                                         *)
LEMMA StyleTagIsUnit ==
  ASSUME NEW A, NEW text \in Seq(A), NEW i \in 1..Len(text), StyleTag(text[i])
  PROVE  Width(text, i) = 1
  <1>1. ~IsChar(text[i], "&")
    BY DEF StyleTag, IsChar
  <1> QED
    BY <1>1, WidthFacts

LEMMA RebuiltKeepsOthers ==
  ASSUME NEW text \in Seq(SourceTokens), NEW coverage \in Seq(SUBSET StyleNames)
  PROVE  /\ Rebuilt(text, coverage) \in Seq(SourceTokens)
         /\ OtherTokens(Rebuilt(text, coverage)) = OtherTokens(text)
  <1>1. PICK n \in Nat : n = Len(text)
    OBVIOUS
  <1>2. PICK out : out = WrittenUpTo(text, coverage)
    OBVIOUS
  <1>3. Writes(text, coverage, out, n)
    BY <1>1, <1>2, WrittenUpToFacts
  <1>4. PICK end : end = UnitEnds(text)
    OBVIOUS
  <1>5. EndsOf(text, end, n)
    BY <1>1, <1>4, UnitEndsFacts
  <1>6. PICK S : S = {i \in 0..n : OtherTokens(out[i].text) = OtherTokens(SubSeq(text, 1, end[i]))}
    OBVIOUS
  <1>7. 0 \in S
    <2>1. out[0].text = <<>> /\ end[0] = 0
      BY <1>3, <1>5 DEF Writes, Unwritten, EndsOf
    <2>2. SubSeq(text, 1, 0) = <<>>
      BY SubSeqEmpty
    <2>3. OtherTokens(out[0].text) = OtherTokens(SubSeq(text, 1, end[0]))
      BY <2>1, <2>2, Zenon
    <2>4. 0 \in 0..n
      OBVIOUS
    <2> QED
      BY <1>6, <2>3, <2>4, Zenon
  <1>8. ASSUME NEW i \in 1..n, i - 1 \in S PROVE i \in S
    <2>1. PICK p : p = out[i - 1]
      OBVIOUS
    <2>2. p \in Outputs /\ i \in 0..n
      <3>1. i - 1 \in 0..n
        OBVIOUS
      <3> QED
        BY <1>3, <2>1, <3>1 DEF Writes
    <2>3. out[i] = IF i \in UnitStarts(text) THEN Written(p, coverage, text, i) ELSE p
      BY <1>3, <2>1 DEF Writes
    <2>4. OtherTokens(p.text) = OtherTokens(SubSeq(text, 1, end[i - 1]))
      BY <1>6, <1>8, <2>1
    <2>5. CASE i \notin UnitStarts(text)
      <3>1. end[i] = end[i - 1]
        BY <1>1, <1>4, <2>5, UnitStartsFacts
      <3> QED
        BY <1>6, <2>2, <2>3, <2>4, <2>5, <3>1
    <2>6. CASE i \in UnitStarts(text)
      <3>1. end[i - 1] = i - 1 /\ end[i] = i + Width(text, i) - 1
        BY <1>1, <1>4, <2>6, UnitStartsFacts
      <3>2. PICK a \in Nat : a = i - 1 /\ a + 1 = i
        OBVIOUS
      <3>3. PICK b \in Nat : b = end[i] /\ a <= b /\ b <= n
        BY <1>5, <2>2, <3>2 DEF EndsOf
      <3>4. PICK x : x = UnitAt(text, i)
        OBVIOUS
      <3>5. x = SubSeq(text, a + 1, b) /\ x \in Seq(SourceTokens)
        <4>1. x = SubSeq(text, i, b)
          BY <3>1, <3>3, <3>4, Zenon DEF UnitAt
        <4>2. x \in Seq(SourceTokens)
          BY <1>1, <3>4, UnitAtFacts
        <4> QED
          BY <3>2, <4>1, <4>2
      <3>6. PICK h : h = SubSeq(text, 1, a)
        OBVIOUS
      <3>7. h \in Seq(SourceTokens) /\ SubSeq(text, 1, b) = h \o x
        <4>1. a <= Len(text)
          BY <1>1, <3>3
        <4>2. h \in Seq(SourceTokens)
          BY <3>6, <4>1, HeadFacts
        <4>3. SubSeq(text, 1, a) \o SubSeq(text, a + 1, b) = SubSeq(text, 1, b)
          BY <1>1, <3>3, JoinSlices
        <4> QED
          BY <3>5, <3>6, <4>2, <4>3
      <3>8. OtherTokens(SubSeq(text, 1, b)) = OtherTokens(h) \o OtherTokens(x)
        BY <3>5, <3>7, OtherConcat, Zenon
      <3>9. OtherTokens(p.text) = OtherTokens(h)
        BY <2>4, <3>1, <3>2, <3>6
      <3>10. CASE StyleTag(text[i])
        <4>1. Width(text, i) = 1
          BY <1>1, <3>10, StyleTagIsUnit
        <4>2. Len(x) = 1 /\ x[1] = text[i]
          BY <1>1, <3>4, <4>1, UnitAtFacts
        <4>3. \A j \in 1..Len(x) : StyleTag(x[j])
          BY <3>10, <4>2
        <4>4. OtherTokens(x) = <<>>
          BY <3>5, <4>3, OtherOfTags
        <4>5. OtherTokens(h) \in Seq(SourceTokens)
          BY <3>7, OtherTokensType
        <4>6. OtherTokens(h) \o <<>> = OtherTokens(h)
          BY <4>5, ConcatEmptySeq
        <4>7. Written(p, coverage, text, i) = p
          BY <3>10, Zenon DEF Written
        <4>8. OtherTokens(out[i].text) = OtherTokens(SubSeq(text, 1, end[i]))
          BY <2>3, <2>6, <3>3, <3>8, <3>9, <4>4, <4>6, <4>7, Zenon
        <4> QED
          BY <1>6, <2>2, <4>8
      <3>11. CASE ~StyleTag(text[i])
        <4>1. PICK styles : styles = StylesAt(coverage, p.offset)
          OBVIOUS
        <4>2. styles \in SUBSET StyleNames
          BY <2>2, <4>1, StylesAtType DEF Outputs
        <4>3. PICK s : s = Synchronized(p, styles)
          OBVIOUS
        <4>4. s.text \in Seq(SourceTokens)
          BY <2>2, <4>2, <4>3, SynchronizedType DEF Outputs
        <4>5. OtherTokens(s.text) = OtherTokens(p.text)
          BY <2>2, <4>2, <4>3, SyncKeepsOthers
        <4>6. out[i] = [text |-> s.text \o x, emitted |-> s.emitted,
                        offset |-> p.offset + (IF Visible(text[i]) THEN 1 ELSE 0)]
          BY ZenonT(40), <1>1, <2>2, <2>3, <2>6, <3>4, <3>11, <4>1, <4>3, WrittenIs
        <4>7. out[i].text = s.text \o x
          BY <4>6
        <4>8. OtherTokens(s.text \o x) = OtherTokens(s.text) \o OtherTokens(x)
          BY <3>5, <4>4, OtherConcat, Zenon
        <4>9. OtherTokens(out[i].text) = OtherTokens(SubSeq(text, 1, end[i]))
          BY <3>3, <3>8, <3>9, <4>5, <4>7, <4>8, Zenon
        <4> QED
          BY <1>6, <2>2, <4>9
      <3> QED
        BY <3>10, <3>11
    <2> QED
      BY <2>5, <2>6
  <1>9. 0..n \subseteq S
    BY <1>7, <1>8, CountUp
  <1>10. n \in 0..n /\ n \in S
    BY <1>9
  <1>11. out[n] \in Outputs /\ end[n] = n
    <2>1. end[n] \in n..n
      BY <1>5, <1>10 DEF EndsOf
    <2> QED
      BY <1>3, <1>10, <2>1 DEF Writes
  <1>12. OtherTokens(out[n].text) = OtherTokens(text)
    <2>1. SubSeq(text, 1, n) = text
      BY <1>1, WholeSlice
    <2> QED
      BY <1>6, <1>10, <1>11, <2>1
  <1>13. Rebuilt(text, coverage) = Synchronized(out[n], {}).text
    BY <1>1, <1>2, Zenon DEF Rebuilt
  <1>14. {} \in SUBSET StyleNames
    OBVIOUS
  <1>15. Synchronized(out[n], {}) \in Outputs
    BY <1>11, <1>14, SynchronizedType
  <1>16. OtherTokens(Synchronized(out[n], {}).text) = OtherTokens(out[n].text)
    BY <1>11, <1>14, SyncKeepsOthers
  <1> QED
    BY <1>12, <1>13, <1>15, <1>16 DEF Outputs

-----------------------------------------------------------------------------
(* What the calls are made with.                                           *)
LEMMA RestyledType ==
  ASSUME NEW coverage \in Seq(SUBSET StyleNames), NEW r \in Supported
  PROVE  /\ Restyled(coverage, r) \in Seq(SUBSET StyleNames)
         /\ Len(Restyled(coverage, r)) = Len(coverage)
  <1>1. PICK n \in Nat : n = Len(coverage)
    OBVIOUS
  <1>2. r.name \in StyleNames
    BY DEF Supported
  <1>3. PICK f : f = Clamp(r.first, 0, n)
    OBVIOUS
  <1>4. PICK l : l = Clamp(r.last, f, n)
    OBVIOUS
  <1>5. PICK c : c = Restyled(coverage, r)
    OBVIOUS
  <1>6. c = [p \in 1..n |->
               IF p <= f \/ p > l THEN coverage[p]
               ELSE IF r.active THEN coverage[p] \cup {r.name}
                                ELSE coverage[p] \ {r.name}]
    BY <1>1, <1>3, <1>4, <1>5, Zenon DEF Restyled
  <1>7. ASSUME NEW p \in 1..n PROVE c[p] \in SUBSET StyleNames
    <2>1. coverage[p] \in SUBSET StyleNames
      BY <1>1
    <2>2. \/ c[p] = coverage[p] \/ c[p] = coverage[p] \cup {r.name}
          \/ c[p] = coverage[p] \ {r.name}
      BY <1>6, Zenon
    <2> QED
      BY <1>2, <2>1, <2>2
  <1>8. c = [p \in 1..n |-> c[p]]
    BY <1>6
  <1>9. c \in Seq(SUBSET StyleNames) /\ Len(c) = n
    BY <1>7, <1>8
  <1> QED
    BY <1>1, <1>5, <1>9

LEMMA RewrittenFacts ==
  ASSUME NEW text \in Seq(SourceTokens), NEW r \in Supported
  PROVE  /\ Rewritten(text, r) \in Seq(SourceTokens)
         /\ OtherTokens(Rewritten(text, r)) = OtherTokens(text)
  <1>1. Coverage(text) \in Seq(SUBSET StyleNames)
    BY ReadOfType
  <1>2. Restyled(Coverage(text), r) \in Seq(SUBSET StyleNames)
    BY <1>1, RestyledType
  <1> QED
    BY <1>2, RebuiltKeepsOthers DEF Rewritten

(* A text consists of tokens of the first text and of style tags.          *)
SourceTyped == source \in Seq(SourceTokens)

(* Whatever is called, the caller has a text over the tokens it started    *)
(* from and style tags.                                                    *)
THEOREM SourceIsText == SpecSource => []SourceTyped
  <1>1. InitSource => SourceTyped
    <2> SUFFICES ASSUME InitSource PROVE SourceTyped
      OBVIOUS
    <2>1. source \in Seq(Token(STRING))
      BY SourcesAssumption DEF InitSource
    <2>2. PICK T : T = Token(STRING)
      OBVIOUS
    <2>3. PICK U : U = SourceTokens
      OBVIOUS
    <2>4. T \subseteq U
      BY <2>2, <2>3, Zenon DEF SourceTokens
    <2>5. source \in Seq(T)
      BY <2>1, <2>2
    <2>6. source \in Seq(U)
      <3>1. \A i \in 1..Len(source) : source[i] \in U
        BY <2>4, <2>5
      <3>2. source = [i \in 1..Len(source) |-> source[i]] /\ Len(source) \in Nat
        BY <2>5
      <3> QED
        BY <3>1, <3>2
    <2> QED
      BY <2>3, <2>6 DEF SourceTyped
  <1>2. SourceTyped /\ [NextSource]_sourceVars => SourceTyped'
    <2> SUFFICES ASSUME SourceTyped, [NextSource]_sourceVars PROVE SourceTyped'
      OBVIOUS
    <2>1. ASSUME NEW r \in Requests, RefuseTag(r) PROVE SourceTyped'
      BY <2>1 DEF RefuseTag, SourceTyped
    <2>2. ASSUME NEW r \in Requests, Apply(r) PROVE SourceTyped'
      <3>1. r \in Supported /\ source' = Rewritten(source, r)
        BY <2>2 DEF Apply, Supported
      <3>2. Rewritten(source, r) \in Seq(SourceTokens)
        BY <3>1, RewrittenFacts DEF SourceTyped
      <3> QED
        BY <3>1, <3>2 DEF SourceTyped
    <2>3. CASE UNCHANGED sourceVars
      BY <2>3 DEF sourceVars, SourceTyped
    <2> QED
      BY <2>1, <2>2, <2>3 DEF NextSource
  <1> QED
    BY <1>1, <1>2, PTL DEF SpecSource

(* ApplyLogicalStyleRange drops, adds and reorders nothing but style tags. *)
THEOREM OnlyStyleTagsEverChange == SpecSource => []OnlyStyleTagsChange
  <1>1. SourceTyped => OnlyStyleTagsChange
    BY RewrittenFacts DEF SourceTyped, OnlyStyleTagsChange
  <1> QED
    BY <1>1, SourceIsText, PTL

-----------------------------------------------------------------------------
(* Clean texts put together are clean, and the units of a clean text are.  *)
LEMMA CleanConcat ==
  ASSUME NEW A, NEW w \in Seq(A), NEW x \in Seq(A), Clean(w), Clean(x)
  PROVE  Clean(w \o x)
  <1>1. PICK n \in Nat : n = Len(w)
    OBVIOUS
  <1>2. PICK m \in Nat : m = Len(x)
    OBVIOUS
  <1>3. PICK c : c = w \o x
    OBVIOUS
  <1>4. c \in Seq(A) /\ Joined(c, w, x, n, m)
    BY <1>1, <1>2, <1>3, ConcatElements
  <1>5. ASSUME NEW i \in 1..n, IsChar(c[i], "&")
        PROVE  /\ EntityLength(c, i) > 0
               /\ \A j \in (i + 1)..(i + EntityLength(c, i) - 1) :
                    c[j].k = "text" /\ ~IsChar(c[j], "&")
    <2>1. c[i] = w[i]
      BY <1>4 DEF Joined
    <2>2. EntityLength(c, i) = EntityLength(w, i)
      BY <1>1, <1>3, InFront
    <2>3. /\ EntityLength(w, i) > 0
          /\ \A j \in (i + 1)..(i + EntityLength(w, i) - 1) :
               w[j].k = "text" /\ ~IsChar(w[j], "&")
      <3>1. i \in DOMAIN w /\ IsChar(w[i], "&")
        BY <1>1, <1>5, <2>1
      <3> QED
        BY <3>1 DEF Clean
    <2>4. PICK e \in (i + 1)..n : EntityLength(w, i) = e - i + 1
      BY <1>1, <2>3, EntityFacts
    <2>5. ASSUME NEW j \in (i + 1)..(i + EntityLength(c, i) - 1)
          PROVE  c[j] = w[j]
      <3>1. j \in 1..n
        BY <2>2, <2>4
      <3> QED
        BY <1>4, <3>1 DEF Joined
    <2> QED
      BY <2>2, <2>3, <2>5
  <1>6. ASSUME NEW i \in 1..m, NEW p, p = n + i, IsChar(c[p], "&")
        PROVE  /\ EntityLength(c, p) > 0
               /\ \A j \in (p + 1)..(p + EntityLength(c, p) - 1) :
                    c[j].k = "text" /\ ~IsChar(c[j], "&")
    <2>1. c[p] = x[i]
      BY <1>4, <1>6 DEF Joined
    <2>2. EntityLength(c, p) = EntityLength(x, i)
      BY <1>1, <1>2, <1>3, <1>6, Behind
    <2>3. /\ EntityLength(x, i) > 0
          /\ \A j \in (i + 1)..(i + EntityLength(x, i) - 1) :
               x[j].k = "text" /\ ~IsChar(x[j], "&")
      <3>1. i \in DOMAIN x /\ IsChar(x[i], "&")
        BY <1>2, <1>6, <2>1
      <3> QED
        BY <3>1 DEF Clean
    <2>4. PICK e \in (i + 1)..m : EntityLength(x, i) = e - i + 1
      BY <1>2, <2>3, EntityFacts
    <2>5. ASSUME NEW j \in (p + 1)..(p + EntityLength(c, p) - 1)
          PROVE  c[j].k = "text" /\ ~IsChar(c[j], "&")
      <3>1. PICK h : h = j - n
        OBVIOUS
      <3>2. h \in 1..m /\ j = n + h /\ h \in (i + 1)..(i + EntityLength(x, i) - 1)
        BY <1>6, <2>2, <2>4, <3>1
      <3>3. c[j] = x[h]
        BY <1>4, <3>2 DEF Joined
      <3> QED
        BY <2>3, <3>2, <3>3
    <2> QED
      BY <2>2, <2>3, <2>5
  <1>7. ASSUME NEW i \in DOMAIN c, IsChar(c[i], "&")
        PROVE  /\ EntityLength(c, i) > 0
               /\ \A j \in (i + 1)..(i + EntityLength(c, i) - 1) :
                    c[j].k = "text" /\ ~IsChar(c[j], "&")
    <2>1. i \in 1..(n + m)
      BY <1>4 DEF Joined
    <2>2. CASE i \in 1..n
      BY <1>5, <1>7, <2>2
    <2>3. CASE i \notin 1..n
      <3>1. PICK h : h = i - n
        OBVIOUS
      <3>2. h \in 1..m /\ i = n + h
        BY <2>1, <2>3, <3>1
      <3> QED
        BY <1>6, <1>7, <3>2
    <2> QED
      BY <2>2, <2>3
  <1>8. Clean(c)
    BY <1>7, Zenon DEF Clean
  <1> QED
    BY <1>3, <1>8

LEMMA CleanUnit ==
  ASSUME NEW A, NEW text \in Seq(A), Clean(text), NEW i \in 1..Len(text)
  PROVE  /\ Clean(UnitAt(text, i)) /\ Unit(UnitAt(text, i))
         /\ \A j \in 2..Len(UnitAt(text, i)) : UnitAt(text, i)[j].k = "text"
  <1>1. PICK x : x = UnitAt(text, i)
    OBVIOUS
  <1>2. PICK w \in Nat : w = Width(text, i) /\ w >= 1
    BY UnitAtFacts
  <1>3. /\ x \in Seq(A) /\ Len(x) = w /\ i + w - 1 <= Len(text)
        /\ \A j \in 1..w : x[j] = text[(i - 1) + j]
        /\ x[1] = text[i]
    BY <1>1, <1>2, UnitAtFacts
  <1>4. CASE IsChar(text[i], "&")
    <2>1. PICK e \in (i + 1)..Len(text) :
            EntityAt(text, i, e) /\ EntityLength(text, i) = e - i + 1 /\ w = e - i + 1
      BY <1>2, <1>4, CleanFacts
    <2>2. \A j \in (i + 1)..e : text[j].k = "text" /\ ~IsChar(text[j], "&")
      <3>1. i \in DOMAIN text /\ i + EntityLength(text, i) - 1 = e
        BY <2>1
      <3> QED
        BY <1>4, <3>1 DEF Clean
    <2>3. ASSUME NEW j \in 2..w PROVE x[j].k = "text" /\ ~IsChar(x[j], "&")
      <3>1. PICK h : h = (i - 1) + j
        OBVIOUS
      <3>2. h \in (i + 1)..e /\ j \in 1..w
        BY <2>1, <3>1
      <3> QED
        BY <1>3, <2>2, <3>1, <3>2
    <2>4. PICK v \in Nat : v = e - i /\ w = v + 1
      BY <2>1
    <2>5. Copied(x, 1, text, i, v)
      <3>1. 1 + v <= Len(x)
        BY <1>3, <2>4
      <3>2. ASSUME NEW h \in 0..v PROVE x[1 + h] = text[i + h]
        <4>1. 1 + h \in 1..w /\ (i - 1) + (1 + h) = i + h
          BY <2>4
        <4> QED
          BY <1>3, <4>1
      <3> QED
        BY <3>1, <3>2 DEF Copied
    <2>6. 1 \in 1..Len(x)
      BY <1>2, <1>3
    <2>7. EntityAt(x, 1, 1 + v)
      BY <1>3, <2>1, <2>4, <2>5, <2>6, EntityMoved
    <2>8. EntityLength(x, 1) = w
      <3>1. EntityLength(x, 1) = (1 + v) - 1 + 1
        BY <1>3, <2>6, <2>7, EntityIs
      <3> QED
        BY <2>4, <3>1
    <2>9. Width(x, 1) = w
      BY <1>2, <2>8 DEF Width
    <2>10. Clean(x)
      <3>1. ASSUME NEW j \in DOMAIN x, IsChar(x[j], "&") PROVE j = 1
        <4>1. j \in 1..w
          BY <1>3
        <4>2. j \notin 2..w
          BY <2>3, <3>1
        <4> QED
          BY <4>1, <4>2
      <3>2. \A j \in (1 + 1)..(1 + EntityLength(x, 1) - 1) :
               x[j].k = "text" /\ ~IsChar(x[j], "&")
        BY <2>3, <2>8
      <3>3. EntityLength(x, 1) > 0
        BY <1>2, <2>8
      <3> QED
        BY <3>1, <3>2, <3>3 DEF Clean
    <2> QED
      BY <1>1, <1>2, <1>3, <2>3, <2>9, <2>10 DEF Unit
  <1>5. CASE ~IsChar(text[i], "&")
    <2>1. w = 1
      BY <1>2, <1>5, WidthFacts
    <2>2. \A j \in DOMAIN x : j = 1
      BY <1>3, <2>1
    <2>3. \A j \in DOMAIN x : ~IsChar(x[j], "&")
      BY <1>3, <1>5, <2>2
    <2>4. Clean(x)
      BY <2>3 DEF Clean
    <2>5. Width(x, 1) = 1
      BY <1>3, <1>5, <2>1, WidthFacts
    <2>6. \A j \in 2..Len(x) : FALSE
      BY <1>3, <2>1
    <2> QED
      BY <1>1, <1>3, <2>1, <2>4, <2>5, <2>6 DEF Unit
  <1> QED
    BY <1>4, <1>5

LEMMA CleanTag ==
  ASSUME NEW A, NEW tag \in A, StyleTag(tag)
  PROVE  <<tag>> \in Seq(A) /\ Clean(<<tag>>) /\ Unit(<<tag>>)
  <1>1. PICK x : x = <<tag>>
    OBVIOUS
  <1>2. x \in Seq(A) /\ Len(x) = 1 /\ x[1] = tag /\ DOMAIN x = 1..1
    BY <1>1
  <1>3. ~IsChar(tag, "&")
    BY DEF StyleTag, IsChar
  <1>4. \A j \in DOMAIN x : ~IsChar(x[j], "&")
    BY <1>2, <1>3
  <1>5. Clean(x)
    BY <1>4 DEF Clean
  <1>6. Width(x, 1) = 1
    BY <1>2, StyleTagIsUnit
  <1> QED
    BY <1>1, <1>2, <1>5, <1>6 DEF Unit

(* A text behind another one, token by token.                              *)
Longer(u, v, token) == u = v \o <<token>>

LEMMA OneMore ==
  ASSUME NEW A, NEW w \in Seq(A), NEW x \in Seq(A), NEW k \in 1..Len(x)
  PROVE  /\ w \o SubSeq(x, 1, k - 1) \in Seq(A)
         /\ Longer(w \o SubSeq(x, 1, k), w \o SubSeq(x, 1, k - 1), x[k])
  <1>1. PICK h : h = SubSeq(x, 1, k - 1)
    OBVIOUS
  <1>2. k - 1 \in Nat /\ k - 1 <= Len(x) /\ 1 \in 1..Len(x) /\ k \in 1..Len(x)
    OBVIOUS
  <1>3. h \in Seq(A)
    BY <1>1, <1>2, HeadFacts
  <1>4. SubSeq(x, 1, k) = h \o <<x[k]>>
    BY <1>1, <1>2, SubSeqRecursiveSecond
  <1>5. <<x[k]>> \in Seq(A)
    OBVIOUS
  <1>6. (w \o h) \o <<x[k]>> = w \o (h \o <<x[k]>>)
    BY SMTT(20), <1>3, <1>5, ConcatAssociative
  <1>7. w \o h \in Seq(A)
    BY <1>3, ConcatProperties
  <1>8. Longer(w \o SubSeq(x, 1, k), w \o h, x[k])
    BY <1>4, <1>6, Zenon DEF Longer
  <1> QED
    BY <1>1, <1>7, <1>8

-----------------------------------------------------------------------------
(* What is true of the text the loop has written, when the styles in S are *)
(* open.  Read again it has the first o units, with the styles coverage    *)
(* gives them.                                                             *)
Tells(w, S, coverage, o) ==
  /\ o \in Nat /\ o <= Len(coverage)
  /\ \A s \in StyleNames : ReadOf(w).depth[s] = IF s \in S THEN 1 ELSE 0
  /\ Len(ReadOf(w).coverage) = o
  /\ \A p \in 1..o : ReadOf(w).coverage[p] = coverage[p]

(* Its style tags nest.                                                    *)
Nests(w, S) ==
  /\ \A i \in 1..Len(w) : StyleTag(w[i]) => w[i].ok
  /\ \A s \in StyleNames :
       /\ \A i \in 0..Len(w) : Depth(w, s, i) >= 0
       /\ Depth(w, s, Len(w)) = IF s \in S THEN 1 ELSE 0

(* The output w, in which the styles S are open, shows the styles that     *)
(* coverage asks for in its first o units.                                 *)
Carries(w, S, coverage, o) ==
  /\ w \in Seq(SourceTokens) /\ Clean(w)
  /\ Tells(w, S, coverage, o)
  /\ Nests(w, S)

(* The tags in front are counted as before.                                *)
LEMMA DepthInFront ==
  ASSUME NEW A, NEW w \in Seq(A), NEW x \in Seq(A), NEW name, NEW n \in Nat, NEW i \in 0..n,
         n = Len(w)
  PROVE  Depth(w \o x, name, i) = Depth(w, name, i)
  <1>1. PICK c : c = w \o x
    OBVIOUS
  <1>2. PICK m \in Nat : m = Len(x)
    OBVIOUS
  <1>3. Joined(c, w, x, n, m)
    BY <1>1, <1>2, ConcatElements
  <1>4. \A j \in 1..i : c[j] = w[j]
    <2>1. \A j \in 1..i : j \in 1..n
      OBVIOUS
    <2> QED
      BY <1>3, <2>1 DEF Joined
  <1>5. Opened(c, name, i) = Opened(w, name, i)
    <2>1. {j \in 1..i : c[j].k = "open" /\ c[j].n = name}
            = {j \in 1..i : w[j].k = "open" /\ w[j].n = name}
      BY <1>4, Zenon
    <2> QED
      BY <2>1, Zenon DEF Opened
  <1>6. Closed(c, name, i) = Closed(w, name, i)
    <2>1. {j \in 1..i : c[j].k = "close" /\ c[j].n = name}
            = {j \in 1..i : w[j].k = "close" /\ w[j].n = name}
      BY <1>4, Zenon
    <2> QED
      BY <2>1, Zenon DEF Closed
  <1> QED
    BY <1>1, <1>5, <1>6, Zenon DEF Depth

(* A token that does not open a style twice, nor close one that is not     *)
(* open, makes S2 of the open styles S.                                    *)
Turns(t, S, S2) ==
  \/ ~StyleTag(t) /\ S2 = S
  \/ \E s \in StyleNames \ S : t = TagOf("open", s) /\ S2 = S \cup {s}
  \/ \E s \in StyleNames : s \in S /\ t = TagOf("close", s) /\ S2 = S \ {s}

LEMMA NestsToken ==
  ASSUME NEW w \in Seq(SourceTokens), NEW t \in SourceTokens, NEW S, NEW S2,
         Nests(w, S), Turns(t, S, S2)
  PROVE  w \o <<t>> \in Seq(SourceTokens) /\ Nests(w \o <<t>>, S2)
  <1>1. PICK n \in Nat : n = Len(w)
    OBVIOUS
  <1>2. PICK x : x = <<t>>
    OBVIOUS
  <1>3. x \in Seq(SourceTokens) /\ Len(x) = 1 /\ x[1] = t
    BY <1>2
  <1>4. PICK c : c = w \o x
    OBVIOUS
  <1>5. c \in Seq(SourceTokens) /\ Joined(c, w, x, n, 1)
    BY <1>1, <1>3, <1>4, ConcatElements
  <1>6. Len(c) = n + 1 /\ c[n + 1] = t /\ \A i \in 1..n : c[i] = w[i]
    BY <1>3, <1>5 DEF Joined
  <1>7. \A i \in 1..(n + 1) : i \in 1..n \/ i = n + 1
    OBVIOUS
  <1>8. \A i \in 1..(n + 1) : StyleTag(c[i]) => c[i].ok
    <2>1. StyleTag(t) => t.ok
      BY StyleTagType, Zenon DEF Turns
    <2>2. \A i \in 1..n : StyleTag(w[i]) => w[i].ok
      BY <1>1 DEF Nests
    <2> QED
      BY <1>6, <1>7, <2>1, <2>2, Zenon
  <1>9. ASSUME NEW s \in StyleNames
        PROVE  /\ \A i \in 0..(n + 1) : Depth(c, s, i) >= 0
               /\ Depth(c, s, n + 1) = IF s \in S2 THEN 1 ELSE 0
    <2>1. \A i \in 0..n : Depth(c, s, i) = Depth(w, s, i)
      BY <1>1, <1>3, <1>4, DepthInFront
    <2>2. /\ \A i \in 0..n : Depth(w, s, i) >= 0
          /\ Depth(w, s, n) = IF s \in S THEN 1 ELSE 0
      BY <1>1 DEF Nests
    <2>3. n \in 0..n
      OBVIOUS
    <2>4. PICK d : d = Depth(c, s, n)
      OBVIOUS
    <2>5. d = IF s \in S THEN 1 ELSE 0
      BY <2>1, <2>2, <2>3, <2>4
    <2>6. /\ t.k = "open" /\ t.n = s => Depth(c, s, n + 1) = d + 1
          /\ t.k = "close" /\ t.n = s => Depth(c, s, n + 1) = d - 1
          /\ t.k \notin {"open", "close"} \/ t.n # s => Depth(c, s, n + 1) = d
      BY <1>6, <2>4, DepthFacts
    <2>7. Depth(c, s, n + 1) = IF s \in S2 THEN 1 ELSE 0
      <3>1. CASE ~StyleTag(t) /\ S2 = S
        <4>1. t.k \notin {"open", "close"} \/ t.n # s
          BY <3>1 DEF StyleTag
        <4> QED
          BY <2>5, <2>6, <3>1, <4>1
      <3>2. ASSUME NEW u \in StyleNames \ S, t = TagOf("open", u), S2 = S \cup {u}
            PROVE  Depth(c, s, n + 1) = IF s \in S2 THEN 1 ELSE 0
        <4>1. t.k = "open" /\ t.n = u
          BY <3>2, StyleTagType, Zenon
        <4>2. CASE s = u
          <5>1. s \notin S /\ s \in S2
            BY <3>2, <4>2
          <5>2. Depth(c, s, n + 1) = d + 1
            BY <2>6, <4>1, <4>2
          <5> QED
            BY <2>5, <5>1, <5>2
        <4>3. CASE s # u
          <5>1. s \in S <=> s \in S2
            BY <3>2, <4>3
          <5>2. Depth(c, s, n + 1) = d
            BY <2>6, <4>1, <4>3
          <5> QED
            BY <2>5, <5>1, <5>2
        <4> QED
          BY <4>2, <4>3
      <3>3. ASSUME NEW u \in StyleNames, u \in S, t = TagOf("close", u), S2 = S \ {u}
            PROVE  Depth(c, s, n + 1) = IF s \in S2 THEN 1 ELSE 0
        <4>1. t.k = "close" /\ t.n = u
          BY <3>3, StyleTagType, Zenon
        <4>2. CASE s = u
          <5>1. s \in S /\ s \notin S2
            BY <3>3, <4>2
          <5>2. Depth(c, s, n + 1) = d - 1
            BY <2>6, <4>1, <4>2
          <5> QED
            BY <2>5, <5>1, <5>2
        <4>3. CASE s # u
          <5>1. s \in S <=> s \in S2
            BY <3>3, <4>3
          <5>2. Depth(c, s, n + 1) = d
            BY <2>6, <4>1, <4>3
          <5> QED
            BY <2>5, <5>1, <5>2
        <4> QED
          BY <4>2, <4>3
      <3> QED
        BY <3>1, <3>2, <3>3 DEF Turns
    <2>8. ASSUME NEW i \in 0..(n + 1) PROVE Depth(c, s, i) >= 0
      <3>1. i \in 0..n \/ i = n + 1
        OBVIOUS
      <3> QED
        BY <2>1, <2>2, <2>7, <3>1
    <2> QED
      BY <2>7, <2>8
  <1>10. Nests(c, S2)
    BY <1>6, <1>8, <1>9 DEF Nests
  <1> QED
    BY <1>2, <1>4, <1>5, <1>10

LEMMA TellsTag ==
  ASSUME NEW w \in Seq(SourceTokens), NEW S, NEW S2, NEW coverage, NEW o, NEW t \in SourceTokens,
         Clean(w), Tells(w, S, coverage, o), StyleTag(t), Turns(t, S, S2)
  PROVE  Tells(w \o <<t>>, S2, coverage, o)
  <1>1. PICK x : x = <<t>>
    OBVIOUS
  <1>2. x \in Seq(SourceTokens) /\ Clean(x) /\ Unit(x) /\ x[1] = t
    BY <1>1, CleanTag
  <1>3. PICK r : r = ReadOf(w)
    OBVIOUS
  <1>4. PICK q : q = ReadOf(w \o x)
    OBVIOUS
  <1>5. q = Read(r, t)
    BY <1>2, <1>3, <1>4, ReadUnit
  <1>6. r \in States
    BY <1>3, ReadOfType
  <1>7. r.depth \in [StyleNames -> Nat]
    BY <1>6 DEF States
  <1>8. q = [r EXCEPT !.depth[t.n] =
               IF t.k = "open" THEN @ + 1 ELSE IF @ > 0 THEN @ - 1 ELSE 0]
    BY <1>5, Zenon DEF Read
  <1>9. PICK d : d = [r.depth EXCEPT ![t.n] =
               IF t.k = "open" THEN @ + 1 ELSE IF @ > 0 THEN @ - 1 ELSE 0]
    OBVIOUS
  <1>10. q = [depth |-> d, coverage |-> r.coverage]
    <2>1. q = [r EXCEPT !.depth = d]
      BY <1>8, <1>9, Zenon
    <2>2. r = [depth |-> r.depth, coverage |-> r.coverage]
      BY <1>6 DEF States
    <2> QED
      BY <2>1, <2>2
  <1>11. \A s \in StyleNames : r.depth[s] = IF s \in S THEN 1 ELSE 0
    BY <1>3 DEF Tells
  <1>12. ASSUME NEW s \in StyleNames PROVE d[s] = IF s \in S2 THEN 1 ELSE 0
    <2>1. t.n # s => d[s] = r.depth[s]
      BY <1>7, <1>9
    <2>2. t.n = s /\ t.k = "open" => d[s] = r.depth[s] + 1
      BY <1>7, <1>9
    <2>3. t.n = s /\ t.k = "close" => d[s] = IF r.depth[s] > 0 THEN r.depth[s] - 1 ELSE 0
      <3>1. "close" # "open"
        OBVIOUS
      <3> QED
        BY <1>7, <1>9, <3>1
    <2>4. r.depth[s] = IF s \in S THEN 1 ELSE 0
      BY <1>11
    <2>5. ASSUME NEW u \in StyleNames \ S, t = TagOf("open", u), S2 = S \cup {u}
          PROVE  d[s] = IF s \in S2 THEN 1 ELSE 0
      <3>1. t.k = "open" /\ t.n = u
        BY <2>5, StyleTagType, Zenon
      <3>2. CASE s = u
        BY <2>2, <2>4, <2>5, <3>1, <3>2
      <3>3. CASE s # u
        BY <2>1, <2>4, <2>5, <3>1, <3>3
      <3> QED
        BY <3>2, <3>3
    <2>6. ASSUME NEW u \in StyleNames, u \in S, t = TagOf("close", u), S2 = S \ {u}
          PROVE  d[s] = IF s \in S2 THEN 1 ELSE 0
      <3>1. t.k = "close" /\ t.n = u
        BY <2>6, StyleTagType, Zenon
      <3>2. CASE s = u
        BY <2>3, <2>4, <2>6, <3>1, <3>2
      <3>3. CASE s # u
        BY <2>1, <2>4, <2>6, <3>1, <3>3
      <3> QED
        BY <3>2, <3>3
    <2> QED
      BY <2>5, <2>6 DEF Turns
  <1>13. q.depth = d /\ q.coverage = r.coverage
    BY <1>10
  <1> QED
    BY <1>1, <1>3, <1>4, <1>12, <1>13 DEF Tells

(* One style tag more.                                                     *)
LEMMA CarriesTag ==
  ASSUME NEW w, NEW S, NEW S2, NEW coverage, NEW o, NEW t \in SourceTokens,
         Carries(w, S, coverage, o), StyleTag(t), Turns(t, S, S2)
  PROVE  Carries(w \o <<t>>, S2, coverage, o)
  <1>1. w \in Seq(SourceTokens) /\ Clean(w) /\ Tells(w, S, coverage, o) /\ Nests(w, S)
    BY DEF Carries
  <1>2. <<t>> \in Seq(SourceTokens) /\ Clean(<<t>>)
    BY CleanTag
  <1>3. Clean(w \o <<t>>)
    BY <1>1, <1>2, CleanConcat
  <1>4. Tells(w \o <<t>>, S2, coverage, o)
    BY <1>1, TellsTag
  <1>5. w \o <<t>> \in Seq(SourceTokens) /\ Nests(w \o <<t>>, S2)
    BY <1>1, NestsToken
  <1> QED
    BY <1>3, <1>4, <1>5 DEF Carries

(* One unit more, where the styles that are open are the unit's.           *)
LEMMA NestsText ==
  ASSUME NEW w \in Seq(SourceTokens), NEW S, NEW x \in Seq(SourceTokens), Nests(w, S),
         \A i \in 1..Len(x) : ~StyleTag(x[i])
  PROVE  Nests(w \o x, S)
  <1>1. PICK m \in Nat : m = Len(x)
    OBVIOUS
  <1>2. PICK R : R = {k \in 0..m : Nests(w \o SubSeq(x, 1, k), S)}
    OBVIOUS
  <1>3. w \o SubSeq(x, 1, 0) = w /\ w \o SubSeq(x, 1, m) = w \o x
    <2>1. SubSeq(x, 1, 0) = <<>>
      BY SubSeqEmpty
    <2>2. SubSeq(x, 1, m) = x
      BY <1>1, WholeSlice
    <2> QED
      BY <2>1, <2>2, ConcatEmptySeq
  <1>4. 0 \in R
    <2>1. Nests(w \o SubSeq(x, 1, 0), S)
      BY <1>3, Zenon
    <2>2. 0 \in 0..m
      OBVIOUS
    <2> QED
      BY <1>2, <2>1, <2>2, Zenon
  <1>5. ASSUME NEW k \in 1..m, k - 1 \in R PROVE k \in R
    <2>1. PICK v : v = w \o SubSeq(x, 1, k - 1)
      OBVIOUS
    <2>2. v \in Seq(SourceTokens) /\ w \o SubSeq(x, 1, k) = v \o <<x[k]>>
      <3>1. v \in Seq(SourceTokens) /\ Longer(w \o SubSeq(x, 1, k), v, x[k])
        BY <1>1, <2>1, OneMore
      <3> QED
        BY <3>1, Zenon DEF Longer
    <2>3. Nests(v, S)
      BY <1>2, <1>5, <2>1
    <2>4. x[k] \in SourceTokens /\ ~StyleTag(x[k])
      BY <1>1
    <2>5. Turns(x[k], S, S)
      BY <2>4 DEF Turns
    <2>6. Nests(v \o <<x[k]>>, S)
      BY <2>2, <2>3, <2>4, <2>5, NestsToken
    <2>7. k \in 0..m
      OBVIOUS
    <2> QED
      BY <1>2, <2>2, <2>6, <2>7
  <1>6. 0..m \subseteq R
    BY <1>4, <1>5, CountUp
  <1>7. m \in R
    BY <1>6
  <1> QED
    BY <1>2, <1>3, <1>7

LEMMA TellsUnit ==
  ASSUME NEW w \in Seq(SourceTokens), NEW S \in SUBSET StyleNames, NEW coverage, NEW o,
         NEW x \in Seq(SourceTokens), NEW o2,
         Clean(w), Tells(w, S, coverage, o), Unit(x), ~StyleTag(x[1]),
         Visible(x[1]) => o + 1 <= Len(coverage) /\ coverage[o + 1] = S,
         o2 = o + (IF Visible(x[1]) THEN 1 ELSE 0)
  PROVE  Tells(w \o x, S, coverage, o2)
  <1>1. PICK r : r = ReadOf(w)
    OBVIOUS
  <1>2. PICK q : q = ReadOf(w \o x)
    OBVIOUS
  <1>3. q = Read(r, x[1])
    BY <1>1, <1>2, ReadUnit
  <1>4. r \in States
    BY <1>1, ReadOfType
  <1>5. r.coverage \in Seq(SUBSET StyleNames)
    BY <1>4 DEF States
  <1>6. /\ o \in Nat /\ o <= Len(coverage)
        /\ \A s \in StyleNames : r.depth[s] = IF s \in S THEN 1 ELSE 0
        /\ Len(r.coverage) = o
        /\ \A p \in 1..o : r.coverage[p] = coverage[p]
    BY <1>1 DEF Tells
  <1>7. CASE ~Visible(x[1])
    <2>1. q = r
      BY <1>3, <1>7, Zenon DEF Read
    <2>2. o2 = o
      BY <1>6, <1>7
    <2> QED
      BY <1>1, <1>2, <2>1, <2>2 DEF Tells
  <1>8. CASE Visible(x[1])
    <2>1. {s \in StyleNames : r.depth[s] > 0} = S
      BY <1>6
    <2>2. q = [r EXCEPT !.coverage = Append(@, S)]
      BY <1>3, <1>8, <2>1, Zenon DEF Read
    <2>3. r = [depth |-> r.depth, coverage |-> r.coverage]
      BY <1>4 DEF States
    <2>4. q.depth = r.depth /\ q.coverage = Append(r.coverage, S)
      BY <2>2, <2>3
    <2>5. o2 = o + 1
      BY <1>8
    <2>6. /\ Len(q.coverage) = o + 1 /\ q.coverage[o + 1] = S
          /\ \A p \in 1..o : q.coverage[p] = r.coverage[p]
      BY <1>5, <1>6, <2>4, AppendProperties
    <2>7. ASSUME NEW p \in 1..o2 PROVE q.coverage[p] = coverage[p]
      <3>1. p \in 1..o \/ p = o + 1
        BY <1>6, <2>5
      <3> QED
        BY <1>6, <1>8, <2>6, <3>1
    <2>8. o2 \in Nat /\ o2 <= Len(coverage)
      BY <1>6, <1>8, <2>5
    <2> QED
      BY <1>2, <1>6, <2>4, <2>5, <2>6, <2>7, <2>8 DEF Tells
  <1> QED
    BY <1>7, <1>8

LEMMA CarriesUnit ==
  ASSUME NEW w, NEW S \in SUBSET StyleNames, NEW coverage, NEW o,
         NEW x \in Seq(SourceTokens), NEW o2,
         Carries(w, S, coverage, o), Clean(x), Unit(x),
         \A i \in 1..Len(x) : ~StyleTag(x[i]),
         Visible(x[1]) => o + 1 <= Len(coverage) /\ coverage[o + 1] = S,
         o2 = o + (IF Visible(x[1]) THEN 1 ELSE 0)
  PROVE  Carries(w \o x, S, coverage, o2)
  <1>1. w \in Seq(SourceTokens) /\ Clean(w) /\ Tells(w, S, coverage, o) /\ Nests(w, S)
    BY DEF Carries
  <1>2. 1 \in 1..Len(x)
    BY DEF Unit
  <1>3. ~StyleTag(x[1])
    BY <1>2
  <1>4. Tells(w \o x, S, coverage, o2)
    BY <1>1, <1>3, TellsUnit
  <1>5. Nests(w \o x, S)
    BY <1>1, NestsText
  <1>6. Clean(w \o x) /\ w \o x \in Seq(SourceTokens)
    BY <1>1, CleanConcat, ConcatProperties
  <1> QED
    BY <1>4, <1>5, <1>6 DEF Carries

-----------------------------------------------------------------------------
(* A synchronization closes what is not wanted and opens what is missing,  *)
(* and so leaves open what is wanted.                                      *)
LEMMA HeadRange ==
  ASSUME NEW v \in Seq(StyleNames), Distinct(v), NEW k \in 1..Len(v)
  PROVE  /\ v[k] \in StyleNames /\ v[k] \notin Range(SubSeq(v, 1, k - 1))
         /\ Range(SubSeq(v, 1, k)) = Range(SubSeq(v, 1, k - 1)) \cup {v[k]}
         /\ Range(SubSeq(v, 1, k - 1)) = Range(SubSeq(v, 1, k)) \ {v[k]}
  <1>1. PICK a, b : a = SubSeq(v, 1, k - 1) /\ b = SubSeq(v, 1, k)
    OBVIOUS
  <1>2. k - 1 \in Nat /\ k - 1 <= Len(v) /\ k \in Nat /\ k <= Len(v)
    OBVIOUS
  <1>3. /\ a \in Seq(StyleNames) /\ Len(a) = k - 1 /\ \A j \in 1..(k - 1) : a[j] = v[j]
        /\ b \in Seq(StyleNames) /\ Len(b) = k /\ \A j \in 1..k : b[j] = v[j]
    BY <1>1, <1>2, HeadFacts
  <1>4. Range(a) = {v[j] : j \in 1..(k - 1)}
    <2>1. Range(a) = {a[j] : j \in 1..(k - 1)}
      BY <1>3 DEF Range
    <2> QED
      BY <1>3, <2>1
  <1>5. Range(b) = {v[j] : j \in 1..k}
    <2>1. Range(b) = {b[j] : j \in 1..k}
      BY SMTT(20), <1>3 DEF Range
    <2> QED
      BY <1>3, <2>1
  <1>6. \A j \in 1..k : j \in 1..(k - 1) \/ j = k
    OBVIOUS
  <1>7. \A j \in 1..(k - 1) : j \in 1..k /\ v[j] # v[k]
    BY DEF Distinct
  <1>8. v[k] \notin Range(a)
    BY <1>4, <1>7
  <1>9. Range(b) = Range(a) \cup {v[k]}
    BY <1>4, <1>5, <1>6, <1>7
  <1>10. v[k] \in StyleNames
    OBVIOUS
  <1> QED
    BY <1>1, <1>8, <1>9, <1>10

LEMMA CarriesCloses ==
  ASSUME NEW w, NEW e \in Seq(StyleNames), Distinct(e), NEW coverage, NEW o,
         Carries(w, Range(e), coverage, o),
         NEW c \in Nat, c <= Len(e), NEW closes, Closing(closes, e, c)
  PROVE  Carries(w \o closes, Range(SubSeq(e, 1, c)), coverage, o)
  <1>1. PICK n \in Nat : n = Len(e)
    OBVIOUS
  <1>a. n - c \in Nat
    BY <1>1
  <1>2. PICK m \in Nat : m = n - c
    BY <1>a
  <1>3. /\ closes \in Seq(SourceTokens) /\ Len(closes) = m
        /\ \A i \in 1..m : closes[i] = TagOf("close", e[n + 1 - i])
    BY <1>1, <1>2 DEF Closing
  <1>4. w \in Seq(SourceTokens)
    BY DEF Carries
  <1>5. PICK R : R = {k \in 0..m : Carries(w \o SubSeq(closes, 1, k),
                                           Range(SubSeq(e, 1, n - k)), coverage, o)}
    OBVIOUS
  <1>6. w \o SubSeq(closes, 1, 0) = w /\ w \o SubSeq(closes, 1, m) = w \o closes
    <2>1. SubSeq(closes, 1, 0) = <<>>
      BY SubSeqEmpty
    <2>2. SubSeq(closes, 1, m) = closes
      BY <1>3, WholeSlice
    <2> QED
      BY <1>4, <2>1, <2>2, ConcatEmptySeq
  <1>7. 0 \in R
    <2>1. SubSeq(e, 1, n) = e /\ n - 0 = n /\ 0 \in 0..m
      BY <1>1, WholeSlice
    <2>2. Carries(w \o SubSeq(closes, 1, 0), Range(SubSeq(e, 1, n - 0)), coverage, o)
      BY <1>6, <2>1, Zenon
    <2> QED
      BY <1>5, <2>1, <2>2, Zenon
  <1>8. ASSUME NEW k \in 1..m, k - 1 \in R PROVE k \in R
    <2>1. PICK v : v = w \o SubSeq(closes, 1, k - 1)
      OBVIOUS
    <2>2. v \in Seq(SourceTokens) /\ w \o SubSeq(closes, 1, k) = v \o <<closes[k]>>
      <3>1. k \in 1..Len(closes)
        BY <1>3
      <3>2. v \in Seq(SourceTokens) /\ Longer(w \o SubSeq(closes, 1, k), v, closes[k])
        BY <1>3, <1>4, <2>1, <3>1, OneMore
      <3> QED
        BY <3>2, Zenon DEF Longer
    <2>3. PICK h : h = n + 1 - k
      OBVIOUS
    <2>4. h \in 1..n /\ n - (k - 1) = h /\ n - k = h - 1 /\ k \in 0..m /\ k \in 1..m
      BY <1>2, <2>3
    <2>5. PICK t : t = closes[k]
      OBVIOUS
    <2>6. t = TagOf("close", e[h])
      BY <1>3, <2>3, <2>4, <2>5
    <2>7. /\ e[h] \in StyleNames /\ e[h] \notin Range(SubSeq(e, 1, h - 1))
          /\ Range(SubSeq(e, 1, h)) = Range(SubSeq(e, 1, h - 1)) \cup {e[h]}
          /\ Range(SubSeq(e, 1, h - 1)) = Range(SubSeq(e, 1, h)) \ {e[h]}
      BY <1>1, <2>4, HeadRange
    <2>8. Carries(v, Range(SubSeq(e, 1, h)), coverage, o)
      <3>1. Carries(w \o SubSeq(closes, 1, k - 1), Range(SubSeq(e, 1, n - (k - 1))), coverage, o)
        BY <1>5, <1>8
      <3> QED
        BY <2>1, <2>4, <3>1
    <2>9. t \in SourceTokens /\ StyleTag(t)
      BY <2>6, <2>7, StyleTagType, Zenon
    <2>10. Turns(t, Range(SubSeq(e, 1, h)), Range(SubSeq(e, 1, h - 1)))
      <3>1. e[h] \in Range(SubSeq(e, 1, h))
        BY <2>7
      <3> QED
        BY <2>6, <2>7, <3>1, Zenon DEF Turns
    <2>11. Carries(v \o <<t>>, Range(SubSeq(e, 1, h - 1)), coverage, o)
      BY <2>8, <2>9, <2>10, CarriesTag
    <2>12. Carries(w \o SubSeq(closes, 1, k), Range(SubSeq(e, 1, n - k)), coverage, o)
      BY <2>2, <2>4, <2>5, <2>11
    <2> QED
      BY <1>5, <2>4, <2>12
  <1>9. 0..m \subseteq R
    BY <1>7, <1>8, CountUp
  <1>10. m \in R /\ n - m = c
    BY <1>2, <1>9
  <1>11. Carries(w \o SubSeq(closes, 1, m), Range(SubSeq(e, 1, n - m)), coverage, o)
    BY <1>5, <1>10
  <1> QED
    BY <1>6, <1>10, <1>11

LEMMA CarriesOpens ==
  ASSUME NEW w, NEW v \in Seq(StyleNames), Distinct(v), NEW coverage, NEW o,
         NEW c \in Nat, c <= Len(v), Carries(w, Range(SubSeq(v, 1, c)), coverage, o),
         NEW opens, Opening(opens, v, c)
  PROVE  Carries(w \o opens, Range(v), coverage, o)
  <1>1. PICK n \in Nat : n = Len(v)
    OBVIOUS
  <1>a. n - c \in Nat
    BY <1>1
  <1>2. PICK m \in Nat : m = n - c
    BY <1>a
  <1>3. /\ opens \in Seq(SourceTokens) /\ Len(opens) = m
        /\ \A i \in 1..m : opens[i] = TagOf("open", v[c + i])
    BY <1>1, <1>2 DEF Opening
  <1>4. w \in Seq(SourceTokens)
    BY DEF Carries
  <1>5. PICK R : R = {k \in 0..m : Carries(w \o SubSeq(opens, 1, k),
                                           Range(SubSeq(v, 1, c + k)), coverage, o)}
    OBVIOUS
  <1>6. w \o SubSeq(opens, 1, 0) = w /\ w \o SubSeq(opens, 1, m) = w \o opens
    <2>1. SubSeq(opens, 1, 0) = <<>>
      BY SubSeqEmpty
    <2>2. SubSeq(opens, 1, m) = opens
      BY <1>3, WholeSlice
    <2> QED
      BY <1>4, <2>1, <2>2, ConcatEmptySeq
  <1>7. 0 \in R
    <2>1. c + 0 = c /\ 0 \in 0..m
      OBVIOUS
    <2>2. Carries(w \o SubSeq(opens, 1, 0), Range(SubSeq(v, 1, c + 0)), coverage, o)
      BY <1>6, <2>1, Zenon
    <2> QED
      BY <1>5, <2>1, <2>2, Zenon
  <1>8. ASSUME NEW k \in 1..m, k - 1 \in R PROVE k \in R
    <2>1. PICK u : u = w \o SubSeq(opens, 1, k - 1)
      OBVIOUS
    <2>2. u \in Seq(SourceTokens) /\ w \o SubSeq(opens, 1, k) = u \o <<opens[k]>>
      <3>1. k \in 1..Len(opens)
        BY <1>3
      <3>2. u \in Seq(SourceTokens) /\ Longer(w \o SubSeq(opens, 1, k), u, opens[k])
        BY <1>3, <1>4, <2>1, <3>1, OneMore
      <3> QED
        BY <3>2, Zenon DEF Longer
    <2>3. PICK h : h = c + k
      OBVIOUS
    <2>4. h \in 1..n /\ c + (k - 1) = h - 1 /\ k \in 0..m /\ k \in 1..m
      BY <1>2, <2>3
    <2>5. PICK t : t = opens[k]
      OBVIOUS
    <2>6. t = TagOf("open", v[h])
      BY <1>3, <2>3, <2>4, <2>5
    <2>7. /\ v[h] \in StyleNames /\ v[h] \notin Range(SubSeq(v, 1, h - 1))
          /\ Range(SubSeq(v, 1, h)) = Range(SubSeq(v, 1, h - 1)) \cup {v[h]}
          /\ Range(SubSeq(v, 1, h - 1)) = Range(SubSeq(v, 1, h)) \ {v[h]}
      BY <1>1, <2>4, HeadRange
    <2>8. Carries(u, Range(SubSeq(v, 1, h - 1)), coverage, o)
      <3>1. Carries(w \o SubSeq(opens, 1, k - 1), Range(SubSeq(v, 1, c + (k - 1))), coverage, o)
        BY <1>5, <1>8
      <3> QED
        BY <2>1, <2>4, <3>1
    <2>9. t \in SourceTokens /\ StyleTag(t)
      BY <2>6, <2>7, StyleTagType, Zenon
    <2>10. Turns(t, Range(SubSeq(v, 1, h - 1)), Range(SubSeq(v, 1, h)))
      <3>1. v[h] \in StyleNames \ Range(SubSeq(v, 1, h - 1))
        BY <2>7
      <3> QED
        BY <2>6, <2>7, <3>1, Zenon DEF Turns
    <2>11. Carries(u \o <<t>>, Range(SubSeq(v, 1, h)), coverage, o)
      BY <2>8, <2>9, <2>10, CarriesTag
    <2>12. Carries(w \o SubSeq(opens, 1, k), Range(SubSeq(v, 1, c + k)), coverage, o)
      BY <2>2, <2>3, <2>5, <2>11
    <2> QED
      BY <1>5, <2>4, <2>12
  <1>9. 0..m \subseteq R
    BY <1>7, <1>8, CountUp
  <1>10. m \in R /\ c + m = n
    BY <1>2, <1>9
  <1>11. Carries(w \o SubSeq(opens, 1, m), Range(SubSeq(v, 1, c + m)), coverage, o)
    BY <1>5, <1>10
  <1>12. SubSeq(v, 1, n) = v
    BY <1>1, WholeSlice
  <1> QED
    BY <1>6, <1>10, <1>11, <1>12

LEMMA CarriesSync ==
  ASSUME NEW out \in Outputs, NEW styles \in SUBSET StyleNames, NEW coverage, NEW o,
         Carries(out.text, Range(out.emitted), coverage, o), Distinct(out.emitted)
  PROVE  /\ Carries(Synchronized(out, styles).text, styles, coverage, o)
         /\ Synchronized(out, styles).emitted = InOrder(styles)
         /\ Distinct(InOrder(styles)) /\ Range(InOrder(styles)) = styles
  <1>1. PICK closes, opens, c : Syncs(out, styles, closes, opens, c)
    BY SynchronizedFacts
  <1>2. PICK e : e = out.emitted
    OBVIOUS
  <1>3. PICK v : v = InOrder(styles)
    OBVIOUS
  <1>4. PICK t : t = out.text
    OBVIOUS
  <1>5. e \in Seq(StyleNames) /\ t \in Seq(SourceTokens)
    BY <1>2, <1>4 DEF Outputs
  <1>6. v \in Seq(StyleNames) /\ Distinct(v) /\ Range(v) = styles
    BY <1>3, InOrderFacts
  <1>7. /\ Shared(e, v, c) /\ Closing(closes, e, c) /\ Opening(opens, v, c)
        /\ Synchronized(out, styles) =
             [text |-> (t \o closes) \o opens, emitted |-> v, offset |-> out.offset]
    BY <1>1, <1>2, <1>3, <1>4 DEF Syncs
  <1>8. c \in Nat /\ c <= Len(e) /\ c <= Len(v) /\ \A i \in 1..c : e[i] = v[i]
    BY <1>7 DEF Shared
  <1>9. Carries(t \o closes, Range(SubSeq(e, 1, c)), coverage, o)
    BY <1>2, <1>4, <1>5, <1>7, <1>8, CarriesCloses
  <1>10. SubSeq(e, 1, c) = SubSeq(v, 1, c)
    <2>1. PICK a, b : a = SubSeq(e, 1, c) /\ b = SubSeq(v, 1, c)
      OBVIOUS
    <2>2. /\ a \in Seq(StyleNames) /\ Len(a) = c /\ \A j \in 1..c : a[j] = e[j]
          /\ b \in Seq(StyleNames) /\ Len(b) = c /\ \A j \in 1..c : b[j] = v[j]
      BY <1>5, <1>6, <1>8, <2>1, HeadFacts
    <2>3. a = b
      BY <1>8, <2>2, SeqEqual
    <2> QED
      BY <2>1, <2>3
  <1>11. Carries((t \o closes) \o opens, Range(v), coverage, o)
    BY <1>6, <1>7, <1>8, <1>9, <1>10, CarriesOpens
  <1>12. Synchronized(out, styles).text = (t \o closes) \o opens
         /\ Synchronized(out, styles).emitted = v
    BY <1>7
  <1> QED
    BY <1>3, <1>6, <1>11, <1>12

-----------------------------------------------------------------------------
(* How many units there are so far never exceeds how many there are.       *)
LEMMA CoverageGrows ==
  ASSUME NEW A, NEW text \in Seq(A), NEW n \in Nat, n = Len(text), NEW i \in 1..n
  PROVE  /\ Len(ReadUpTo(text)[i - 1].coverage) \in Nat
         /\ Len(ReadUpTo(text)[i].coverage) <= Len(Coverage(text))
         /\ Len(ReadUpTo(text)[i].coverage) =
              Len(ReadUpTo(text)[i - 1].coverage) +
                (IF /\ i \in UnitStarts(text) /\ ~StyleTag(text[i])
                    /\ Visible(text[i]) THEN 1 ELSE 0)
  <1>1. PICK f : f = ReadUpTo(text)
    OBVIOUS
  <1>2. Reads(text, f, n)
    BY <1>1, ReadUpToFacts
  <1>3. PICK len : len = [k \in 0..n |-> Len(f[k].coverage)]
    OBVIOUS
  <1>4. \A k \in 0..n : f[k] \in States /\ len[k] \in Nat
    BY <1>2, <1>3 DEF Reads, States
  <1>5. ASSUME NEW k \in 1..n
        PROVE  len[k] = len[k - 1] + (IF /\ k \in UnitStarts(text) /\ ~StyleTag(text[k])
                                         /\ Visible(text[k]) THEN 1 ELSE 0)
    <2>1. k - 1 \in 0..n /\ k \in 0..n
      OBVIOUS
    <2>2. PICK r : r = f[k - 1]
      OBVIOUS
    <2>3. r \in States /\ len[k - 1] = Len(r.coverage) /\ len[k - 1] \in Nat
      BY <1>3, <1>4, <2>1, <2>2
    <2>4. r = [depth |-> r.depth, coverage |-> r.coverage]
          /\ r.coverage \in Seq(SUBSET StyleNames)
      BY <2>3 DEF States
    <2>5. f[k] = IF k \in UnitStarts(text) THEN Read(r, text[k]) ELSE r
      BY <1>2, <2>2 DEF Reads
    <2>6. len[k] = Len(f[k].coverage)
      BY <1>3, <2>1
    <2>7. CASE k \notin UnitStarts(text)
      BY <2>3, <2>5, <2>6, <2>7
    <2>8. CASE StyleTag(text[k])
      <3>1. PICK d : d = [r.depth EXCEPT ![text[k].n] =
               IF text[k].k = "open" THEN @ + 1 ELSE IF @ > 0 THEN @ - 1 ELSE 0]
        OBVIOUS
      <3>2. Read(r, text[k]) = [r EXCEPT !.depth = d]
        BY <2>8, <3>1, Zenon DEF Read
      <3>3. Read(r, text[k]).coverage = r.coverage
        BY <2>4, <3>2
      <3> QED
        BY <2>3, <2>5, <2>6, <2>8, <3>3
    <2>9. CASE k \in UnitStarts(text) /\ ~StyleTag(text[k]) /\ Visible(text[k])
      <3>1. PICK S \in SUBSET StyleNames : S = {s \in StyleNames : r.depth[s] > 0}
        OBVIOUS
      <3>2. Read(r, text[k]) = [r EXCEPT !.coverage = Append(@, S)]
        BY <2>9, <3>1, Zenon DEF Read
      <3>3. f[k].coverage = Append(r.coverage, S)
        BY <2>4, <2>5, <2>9, <3>2
      <3>4. Len(Append(r.coverage, S)) = Len(r.coverage) + 1
        BY <2>4, AppendProperties
      <3> QED
        BY <2>3, <2>6, <2>9, <3>3, <3>4
    <2>10. CASE k \in UnitStarts(text) /\ ~StyleTag(text[k]) /\ ~Visible(text[k])
      <3>1. Read(r, text[k]) = r
        BY <2>10, Zenon DEF Read
      <3> QED
        BY <2>3, <2>5, <2>6, <2>10, <3>1
    <2> QED
      BY <2>7, <2>8, <2>9, <2>10
  <1>6. PICK R : R = {k \in 0..n : len[n - k] <= len[n]}
    OBVIOUS
  <1>7. 0 \in R
    <2>1. n - 0 = n /\ n \in 0..n /\ 0 \in 0..n
      OBVIOUS
    <2>2. len[n] \in Nat
      BY <1>4, <2>1
    <2>3. len[n - 0] <= len[n]
      BY <2>1, <2>2
    <2> QED
      BY <1>6, <2>1, <2>3
  <1>8. ASSUME NEW k \in 1..n, k - 1 \in R PROVE k \in R
    <2>1. PICK h : h = n - (k - 1)
      OBVIOUS
    <2>2. h \in 1..n /\ n - k = h - 1 /\ n \in 0..n /\ h \in 0..n /\ h - 1 \in 0..n
      BY <2>1
    <2>3. len[h] <= len[n]
      BY <1>6, <1>8, <2>1
    <2>4. len[h] = len[h - 1] + 1 \/ len[h] = len[h - 1] + 0
      BY <1>5, <2>2
    <2>5. len[h] \in Nat /\ len[h - 1] \in Nat /\ len[n] \in Nat
      BY <1>4, <2>2
    <2>6. len[h - 1] <= len[n]
      BY <2>3, <2>4, <2>5
    <2>7. k \in 0..n
      OBVIOUS
    <2> QED
      BY <1>6, <2>2, <2>6, <2>7
  <1>9. 0..n \subseteq R
    BY <1>7, <1>8, CountUp
  <1>10. len[i] <= len[n]
    <2>1. n - i \in 0..n /\ n - (n - i) = i
      OBVIOUS
    <2>2. n - i \in R
      BY <1>9, <2>1
    <2> QED
      BY <1>6, <2>1, <2>2
  <1>11. len[i] = Len(f[i].coverage) /\ len[i - 1] = Len(f[i - 1].coverage)
         /\ len[n] = Len(f[n].coverage) /\ len[i - 1] \in Nat
    <2>1. i \in 0..n /\ i - 1 \in 0..n /\ n \in 0..n
      OBVIOUS
    <2> QED
      BY <1>3, <1>4, <2>1
  <1>12. Coverage(text) = f[n].coverage
    BY <1>1 DEF Coverage
  <1> QED
    BY <1>1, <1>5, <1>10, <1>11, <1>12

-----------------------------------------------------------------------------
(* What the loop has written after each token of a clean text.             *)
LEMMA CarriesNothing ==
  ASSUME NEW coverage \in Seq(SUBSET StyleNames)
  PROVE  Carries(<<>>, {}, coverage, 0)
  <1>1. PICK w \in Seq(SourceTokens) : w = <<>>
    BY EmptySeq
  <1>a. Len(w) = 0 /\ \A i \in DOMAIN w : FALSE
    BY <1>1
  <1>2. Clean(w)
    BY <1>a DEF Clean
  <1>3. ReadOf(w) = Unread
    <2>1. Reads(w, ReadUpTo(w), 0)
      <3>1. PICK n \in Nat : n = 0 /\ n = Len(w)
        BY <1>a
      <3>2. Reads(w, ReadUpTo(w), n)
        BY <3>1, ReadUpToFacts
      <3> QED
        BY <3>1, <3>2
    <2> QED
      BY <1>a, <2>1 DEF Reads, ReadOf
  <1>4. /\ \A s \in StyleNames : Unread.depth[s] = 0
        /\ Len(Unread.coverage) = 0
    BY DEF Unread
  <1>5. Tells(w, {}, coverage, 0)
    <2>1. 0 <= Len(coverage)
      OBVIOUS
    <2>2. \A p \in 1..0 : FALSE
      OBVIOUS
    <2> QED
      BY <1>3, <1>4, <2>1, <2>2 DEF Tells
  <1>6. Nests(w, {})
    <2>1. \A s : Depth(w, s, 0) = 0
      BY DepthFacts
    <2>2. (\A i \in 1..0 : FALSE) /\ (\A i \in 0..0 : i = 0)
      OBVIOUS
    <2> QED
      BY <1>a, <2>1, <2>2 DEF Nests
  <1>7. Carries(w, {}, coverage, 0)
    BY <1>2, <1>5, <1>6 DEF Carries
  <1> QED
    BY <1>1, <1>7

(* What holds of the output after each unit: the names it keeps are those  *)
(* of the open styles.                                                     *)
Copies(out, coverage, o) ==
  /\ Carries(out.text, Range(out.emitted), coverage, o)
  /\ Distinct(out.emitted) /\ out.offset = o

LEMMA CopiesUnit ==
  ASSUME NEW p \in Outputs, NEW coverage \in Seq(SUBSET StyleNames), NEW o,
         NEW text \in Seq(SourceTokens), NEW i \in 1..Len(text), NEW o2,
         Copies(p, coverage, o), Clean(text), ~StyleTag(text[i]), o2 <= Len(coverage),
         o2 = o + (IF Visible(text[i]) THEN 1 ELSE 0)
  PROVE  Copies(Written(p, coverage, text, i), coverage, o2)
  <1>1. PICK x : x = UnitAt(text, i)
    OBVIOUS
  <1>2. /\ x \in Seq(SourceTokens) /\ Clean(x) /\ Unit(x) /\ x[1] = text[i]
        /\ \A j \in 2..Len(x) : x[j].k = "text"
    <2>1. x \in Seq(SourceTokens) /\ x[1] = text[i]
      BY <1>1, UnitAtFacts
    <2>2. Clean(x) /\ Unit(x) /\ \A j \in 2..Len(x) : x[j].k = "text"
      BY <1>1, CleanUnit
    <2> QED
      BY <2>1, <2>2
  <1>3. \A j \in 1..Len(x) : ~StyleTag(x[j])
    <2>1. \A j \in 1..Len(x) : j = 1 \/ j \in 2..Len(x)
      BY <1>2
    <2>2. \A j \in 2..Len(x) : ~StyleTag(x[j])
      BY <1>2 DEF StyleTag
    <2> QED
      BY <1>2, <2>1, <2>2
  <1>4. PICK styles : styles = StylesAt(coverage, o)
    OBVIOUS
  <1>5. o \in Nat /\ p.offset = o /\ styles \in SUBSET StyleNames
    <2>1. o \in Nat /\ p.offset = o
      BY DEF Copies, Outputs
    <2> QED
      BY <1>4, <2>1, StylesAtType
  <1>6. PICK b : b = Synchronized(p, styles)
    OBVIOUS
  <1>7. Carries(p.text, Range(p.emitted), coverage, o) /\ Distinct(p.emitted)
    BY DEF Copies
  <1>8. /\ Carries(b.text, styles, coverage, o) /\ b.emitted = InOrder(styles)
        /\ Distinct(b.emitted) /\ Range(b.emitted) = styles
    BY <1>5, <1>6, <1>7, CarriesSync
  <1>9. Visible(x[1]) => o + 1 <= Len(coverage) /\ coverage[o + 1] = styles
    <2> SUFFICES ASSUME Visible(x[1]) PROVE o + 1 <= Len(coverage) /\ coverage[o + 1] = styles
      OBVIOUS
    <2>1. o2 = o + 1
      BY <1>2
    <2>2. o + 1 <= Len(coverage)
      BY <2>1
    <2>3. o < Len(coverage)
      BY <1>5, <2>2
    <2> QED
      BY <1>4, <2>2, <2>3 DEF StylesAt
  <1>10. o2 = o + (IF Visible(x[1]) THEN 1 ELSE 0)
    BY <1>2
  <1>11. Carries(b.text \o x, styles, coverage, o2)
    BY <1>2, <1>3, <1>5, <1>8, <1>9, <1>10, CarriesUnit
  <1>12. Written(p, coverage, text, i) =
           [text |-> b.text \o x, emitted |-> b.emitted, offset |-> o2]
    <2>1. styles = StylesAt(coverage, p.offset)
      BY <1>4, <1>5
    <2>2. Written(p, coverage, text, i) =
           [text |-> b.text \o x, emitted |-> b.emitted,
            offset |-> p.offset + (IF Visible(text[i]) THEN 1 ELSE 0)]
      BY ZenonT(40), <1>1, <1>6, <2>1, WrittenIs
    <2>3. o2 = p.offset + (IF Visible(text[i]) THEN 1 ELSE 0)
      BY <1>5
    <2> QED
      BY <2>2, <2>3, Zenon
  <1>13. PICK q : q = Written(p, coverage, text, i)
    OBVIOUS
  <1>14. q.text = b.text \o x /\ q.emitted = b.emitted /\ q.offset = o2
    BY <1>12, <1>13
  <1>15. Copies(q, coverage, o2)
    BY <1>8, <1>11, <1>14, Zenon DEF Copies
  <1> QED
    BY <1>13, <1>15

LEMMA CopiesAll ==
  ASSUME NEW text \in Seq(SourceTokens), NEW coverage \in Seq(SUBSET StyleNames),
         NEW n \in Nat, NEW i \in 0..n, n = Len(text), Clean(text),
         Len(coverage) = Len(Coverage(text))
  PROVE  /\ WrittenUpTo(text, coverage)[i] \in Outputs
         /\ Copies(WrittenUpTo(text, coverage)[i], coverage,
                   Len(ReadUpTo(text)[i].coverage))
  <1>1. PICK out : out = WrittenUpTo(text, coverage)
    OBVIOUS
  <1>2. Writes(text, coverage, out, n)
    BY <1>1, WrittenUpToFacts
  <1>3. PICK len : len = [k \in 0..n |-> Len(ReadUpTo(text)[k].coverage)]
    OBVIOUS
  <1>4. PICK S : S = {k \in 0..n : Copies(out[k], coverage, len[k])}
    OBVIOUS
  <1>5. 0 \in S
    <2>1. 0 \in 0..n
      OBVIOUS
    <2>2. len[0] = 0
      <3>1. ReadUpTo(text)[0] = Unread
        BY ReadUpToFacts DEF Reads
      <3>2. Len(Unread.coverage) = 0
        BY DEF Unread
      <3> QED
        BY <1>3, <2>1, <3>1, <3>2
    <2>3. out[0].text = <<>> /\ out[0].emitted = <<>> /\ out[0].offset = 0
      BY <1>2 DEF Writes, Unwritten
    <2>4. PICK e \in Seq(StyleNames) : e = <<>> /\ Len(e) = 0
      BY EmptySeq
    <2>5. Range(e) = {} /\ Distinct(e)
      <3>1. \A k \in 1..0 : FALSE
        OBVIOUS
      <3>2. Distinct(e)
        BY <2>4, <3>1 DEF Distinct
      <3>3. \A s \in Range(e) : FALSE
        BY <2>4, <3>1, ElementsOfRange
      <3> QED
        BY <3>2, <3>3
    <2>6. Carries(out[0].text, Range(out[0].emitted), coverage, 0)
      BY <2>3, <2>4, <2>5, CarriesNothing
    <2>7. Copies(out[0], coverage, len[0])
      BY <2>2, <2>3, <2>4, <2>5, <2>6, Zenon DEF Copies
    <2> QED
      BY <1>4, <2>1, <2>7
  <1>6. ASSUME NEW k \in 1..n, k - 1 \in S PROVE k \in S
    <2>1. k - 1 \in 0..n /\ k \in 0..n
      OBVIOUS
    <2>2. PICK p \in Outputs : p = out[k - 1]
      BY <1>2, <2>1 DEF Writes
    <2>3. PICK o : o = len[k - 1]
      OBVIOUS
    <2>4. Copies(p, coverage, o)
      BY <1>4, <1>6, <2>2, <2>3
    <2>5. out[k] = IF k \in UnitStarts(text) THEN Written(p, coverage, text, k) ELSE p
      BY <1>2, <2>2 DEF Writes
    <2>6. /\ len[k] <= Len(coverage) /\ o \in Nat
          /\ len[k] = o + (IF /\ k \in UnitStarts(text) /\ ~StyleTag(text[k])
                              /\ Visible(text[k]) THEN 1 ELSE 0)
      BY <1>3, <2>1, <2>3, CoverageGrows
    <2>7. CASE k \notin UnitStarts(text)
      <3>1. len[k] = o
        BY <2>6, <2>7
      <3> QED
        BY <1>4, <2>1, <2>4, <2>5, <2>7, <3>1
    <2>8. CASE k \in UnitStarts(text) /\ StyleTag(text[k])
      <3>1. len[k] = o
        BY <2>6, <2>8
      <3>2. out[k] = p
        BY <2>5, <2>8, Zenon DEF Written
      <3> QED
        BY <1>4, <2>1, <2>4, <3>1, <3>2
    <2>9. CASE k \in UnitStarts(text) /\ ~StyleTag(text[k])
      <3>1. PICK o2 : o2 = len[k]
        OBVIOUS
      <3>2. o2 <= Len(coverage) /\ o2 = o + (IF Visible(text[k]) THEN 1 ELSE 0)
        BY <2>6, <2>9, <3>1
      <3>3. k \in 1..Len(text)
        OBVIOUS
      <3>4. Copies(Written(p, coverage, text, k), coverage, o2)
        BY <2>4, <2>9, <3>2, <3>3, CopiesUnit
      <3> QED
        BY <1>4, <2>1, <2>5, <2>9, <3>1, <3>4
    <2> QED
      BY <2>7, <2>8, <2>9
  <1>7. 0..n \subseteq S
    BY <1>5, <1>6, CountUp
  <1>8. Copies(out[i], coverage, len[i]) /\ out[i] \in Outputs
    BY <1>2, <1>4, <1>7 DEF Writes
  <1> QED
    BY <1>1, <1>3, <1>8

(* The text that is written has the styles it was to have, and its style   *)
(* tags nest.                                                              *)
LEMMA RebuiltCarries ==
  ASSUME NEW text \in Seq(SourceTokens), NEW coverage \in Seq(SUBSET StyleNames),
         Clean(text), Len(coverage) = Len(Coverage(text))
  PROVE  /\ Carries(Rebuilt(text, coverage), {}, coverage, Len(coverage))
         /\ Coverage(Rebuilt(text, coverage)) = coverage
  <1>1. PICK n \in Nat : n = Len(text)
    OBVIOUS
  <1>2. PICK out : out = WrittenUpTo(text, coverage)[n]
    OBVIOUS
  <1>3. n \in 0..n /\ Len(ReadUpTo(text)[n].coverage) = Len(coverage)
    BY <1>1 DEF Coverage
  <1>4. out \in Outputs /\ Copies(out, coverage, Len(coverage))
    BY <1>1, <1>2, <1>3, CopiesAll
  <1>5. Carries(out.text, Range(out.emitted), coverage, Len(coverage)) /\ Distinct(out.emitted)
    BY <1>4 DEF Copies
  <1>6. {} \in SUBSET StyleNames
    OBVIOUS
  <1>7. Carries(Synchronized(out, {}).text, {}, coverage, Len(coverage))
    BY <1>4, <1>5, <1>6, CarriesSync
  <1>8. PICK r : r = Rebuilt(text, coverage)
    OBVIOUS
  <1>9. Carries(r, {}, coverage, Len(coverage))
    BY <1>1, <1>2, <1>7, <1>8, Zenon DEF Rebuilt
  <1>10. PICK c : c = ReadOf(r).coverage
    OBVIOUS
  <1>11. r \in Seq(SourceTokens) /\ Len(c) = Len(coverage)
         /\ \A p \in 1..Len(coverage) : c[p] = coverage[p]
    BY <1>9, <1>10 DEF Carries, Tells
  <1>12. c \in Seq(SUBSET StyleNames) /\ Coverage(r) = c
    BY <1>10, <1>11, ReadOfType
  <1>13. c = coverage
    BY <1>11, <1>12, SeqEqual
  <1> QED
    BY <1>8, <1>9, <1>12, <1>13

-----------------------------------------------------------------------------
(* The styles that are asked for.                                          *)
LEMMA RestyledIs ==
  ASSUME NEW coverage \in Seq(SUBSET StyleNames), NEW r \in Supported,
         NEW p \in 1..Len(coverage)
  PROVE  Restyled(coverage, r)[p] =
           IF r.first < p /\ p <= r.last
             THEN IF r.active THEN coverage[p] \cup {r.name} ELSE coverage[p] \ {r.name}
             ELSE coverage[p]
  <1>1. PICK n \in Nat : n = Len(coverage)
    OBVIOUS
  <1>2. r.first \in Int /\ r.last \in Int
    BY RequestsAssumption DEF Supported
  <1>3. PICK f : f = Clamp(r.first, 0, n)
    OBVIOUS
  <1>4. PICK l : l = Clamp(r.last, f, n)
    OBVIOUS
  <1>5. Restyled(coverage, r) =
          [q \in 1..n |->
               IF q <= f \/ q > l THEN coverage[q]
               ELSE IF r.active THEN coverage[q] \cup {r.name}
                                ELSE coverage[q] \ {r.name}]
    BY <1>1, <1>3, <1>4, Zenon DEF Restyled
  <1>6. f = IF r.first < 0 THEN 0 ELSE IF r.first > n THEN n ELSE r.first
    BY <1>3 DEF Clamp
  <1>7. l = IF r.last < f THEN f ELSE IF r.last > n THEN n ELSE r.last
    BY <1>4 DEF Clamp
  <1>8. p \in 1..n
    BY <1>1
  <1>9. (p <= f \/ p > l) <=> ~(r.first < p /\ p <= r.last)
    BY <1>2, <1>6, <1>7, <1>8
  <1> QED
    BY <1>5, <1>8, <1>9, Zenon

LEMMA RestyledTwice ==
  ASSUME NEW coverage \in Seq(SUBSET StyleNames), NEW r \in Supported
  PROVE  Restyled(Restyled(coverage, r), r) = Restyled(coverage, r)
  <1>1. PICK c : c = Restyled(coverage, r)
    OBVIOUS
  <1>2. c \in Seq(SUBSET StyleNames) /\ Len(c) = Len(coverage)
    BY <1>1, RestyledType
  <1>3. PICK d : d = Restyled(c, r)
    OBVIOUS
  <1>4. d \in Seq(SUBSET StyleNames) /\ Len(d) = Len(c)
    BY <1>2, <1>3, RestyledType
  <1>5. ASSUME NEW p \in 1..Len(c) PROVE d[p] = c[p]
    <2>1. p \in 1..Len(coverage)
      BY <1>2
    <2>2. c[p] = IF r.first < p /\ p <= r.last
             THEN IF r.active THEN coverage[p] \cup {r.name} ELSE coverage[p] \ {r.name}
             ELSE coverage[p]
      BY <1>1, <2>1, RestyledIs
    <2>3. d[p] = IF r.first < p /\ p <= r.last
             THEN IF r.active THEN c[p] \cup {r.name} ELSE c[p] \ {r.name}
             ELSE c[p]
      BY <1>2, <1>3, RestyledIs
    <2>4. \A X, y : (X \cup {y}) \cup {y} = X \cup {y} /\ (X \ {y}) \ {y} = X \ {y}
      OBVIOUS
    <2> QED
      BY <2>2, <2>3, <2>4, ZenonT(40)
  <1>6. d = c
    BY <1>2, <1>4, <1>5, SeqEqual
  <1> QED
    BY <1>1, <1>3, <1>6

LEMMA RewrittenCarries ==
  ASSUME NEW text \in Seq(SourceTokens), NEW r \in Supported, Clean(text)
  PROVE  /\ Carries(Rewritten(text, r), {}, Restyled(Coverage(text), r),
                    Len(Coverage(text)))
         /\ Coverage(Rewritten(text, r)) = Restyled(Coverage(text), r)
  <1>1. PICK b : b = Coverage(text)
    OBVIOUS
  <1>2. b \in Seq(SUBSET StyleNames)
    BY <1>1, ReadOfType
  <1>3. PICK c : c = Restyled(b, r)
    OBVIOUS
  <1>4. c \in Seq(SUBSET StyleNames) /\ Len(c) = Len(b)
    BY <1>2, <1>3, RestyledType
  <1>5. Carries(Rebuilt(text, c), {}, c, Len(c)) /\ Coverage(Rebuilt(text, c)) = c
    BY <1>1, <1>4, RebuiltCarries
  <1> QED
    BY <1>1, <1>3, <1>4, <1>5 DEF Rewritten

(* The text ApplyLogicalStyleRange writes, read again, has the style in    *)
(* the range as asked for, and every other style everywhere as before.     *)
THEOREM RangeAlwaysRestyled == SpecSource => []RangeRestyled
  <1>1. SourceTyped => RangeRestyled
    <2> SUFFICES ASSUME SourceTyped, Clean(source), NEW r \in Supported,
                        NEW before, before = Coverage(source),
                        NEW after, after = Coverage(Rewritten(source, r))
                 PROVE  /\ Len(after) = Len(before)
                        /\ \A p \in DOMAIN before : \A s \in StyleNames :
                             s \in after[p] <=>
                               IF s = r.name /\ r.first < p /\ p <= r.last
                                 THEN r.active ELSE s \in before[p]
      BY DEF RangeRestyled
    <2>1. before \in Seq(SUBSET StyleNames)
      BY ReadOfType DEF SourceTyped
    <2>2. after = Restyled(before, r)
      BY RewrittenCarries DEF SourceTyped
    <2>3. Len(after) = Len(before)
      BY <2>1, <2>2, RestyledType
    <2>4. ASSUME NEW p \in DOMAIN before, NEW s \in StyleNames
          PROVE  s \in after[p] <=>
                   IF s = r.name /\ r.first < p /\ p <= r.last
                     THEN r.active ELSE s \in before[p]
      <3>1. p \in 1..Len(before)
        BY <2>1
      <3>2. after[p] =
              IF r.first < p /\ p <= r.last
                THEN IF r.active THEN before[p] \cup {r.name} ELSE before[p] \ {r.name}
                ELSE before[p]
        BY <2>1, <2>2, <3>1, RestyledIs
      <3>3. r.active \in BOOLEAN
        BY RequestsAssumption DEF Supported
      <3> QED
        BY <3>2, <3>3, Zenon
    <2> QED
      BY <2>3, <2>4
  <1> QED
    BY <1>1, SourceIsText, PTL

-----------------------------------------------------------------------------
(* What a unit adds to the output, wherever it is.                         *)
Adds(out, coverage, x) ==
  IF StyleTag(x[1]) THEN out
  ELSE [text    |-> Synchronized(out, StylesAt(coverage, out.offset)).text \o x,
        emitted |-> Synchronized(out, StylesAt(coverage, out.offset)).emitted,
        offset  |-> out.offset + (IF Visible(x[1]) THEN 1 ELSE 0)]

AddsUnits(coverage, text) ==
  \A out \in Outputs : \A i \in 1..Len(text) :
    Written(out, coverage, text, i) = Adds(out, coverage, UnitAt(text, i))

LEMMA WrittenAdds ==
  ASSUME NEW coverage \in Seq(SUBSET StyleNames), NEW text \in Seq(SourceTokens)
  PROVE  AddsUnits(coverage, text)
  <1> SUFFICES ASSUME NEW out \in Outputs, NEW i \in 1..Len(text), NEW x, x = UnitAt(text, i)
               PROVE  Written(out, coverage, text, i) = Adds(out, coverage, x)
    BY DEF AddsUnits
  <1>1. x[1] = text[i]
    BY UnitAtFacts
  <1>2. CASE StyleTag(text[i])
    BY <1>1, <1>2, Zenon DEF Written, Adds
  <1>3. CASE ~StyleTag(text[i])
    <2>1. PICK styles : styles = StylesAt(coverage, out.offset)
      OBVIOUS
    <2>2. PICK b : b = Synchronized(out, styles)
      OBVIOUS
    <2>3. Written(out, coverage, text, i) =
           [text |-> b.text \o x, emitted |-> b.emitted,
            offset |-> out.offset + (IF Visible(text[i]) THEN 1 ELSE 0)]
      BY ZenonT(40), <1>3, <2>1, <2>2, WrittenIs
    <2> QED
      BY <1>1, <1>3, <2>1, <2>2, <2>3, Zenon DEF Adds
  <1> QED
    BY <1>2, <1>3

(* The units of a text are the same with another text behind it.           *)
LEMMA UnitInFront ==
  ASSUME NEW A, NEW w \in Seq(A), NEW x \in Seq(A), Clean(w), NEW i \in 1..Len(w)
  PROVE  UnitAt(w \o x, i) = UnitAt(w, i)
  <1>1. PICK n \in Nat : n = Len(w)
    OBVIOUS
  <1>2. PICK m \in Nat : m = Len(x)
    OBVIOUS
  <1>3. PICK c : c = w \o x
    OBVIOUS
  <1>4. c \in Seq(A) /\ Joined(c, w, x, n, m)
    BY <1>1, <1>2, <1>3, ConcatElements
  <1>5. PICK k \in Nat : k = Width(w, i) /\ k = Width(c, i)
    <2>1. Width(w, i) \in Nat
      BY UnitAtFacts
    <2> QED
      BY <1>3, <2>1, InFront
  <1>6. PICK a : a = UnitAt(w, i)
    OBVIOUS
  <1>7. PICK b : b = UnitAt(c, i)
    OBVIOUS
  <1>8. i \in 1..Len(c)
    BY <1>1, <1>4 DEF Joined
  <1>9. /\ a \in Seq(A) /\ Len(a) = k /\ i + k - 1 <= n
        /\ \A j \in 1..k : a[j] = w[(i - 1) + j]
    BY ZenonT(40), <1>1, <1>5, <1>6, UnitAtFacts
  <1>10. b \in Seq(A) /\ Len(b) = k /\ \A j \in 1..k : b[j] = c[(i - 1) + j]
    BY ZenonT(40), <1>4, <1>5, <1>7, <1>8, UnitAtFacts
  <1>11. ASSUME NEW j \in 1..k PROVE a[j] = b[j]
    <2>1. PICK h : h = (i - 1) + j
      OBVIOUS
    <2>2. h \in 1..n
      BY <1>1, <1>9, <2>1
    <2>3. c[h] = w[h]
      BY <1>4, <2>2 DEF Joined
    <2> QED
      BY <1>9, <1>10, <2>1, <2>3
  <1>12. a = b
    BY <1>9, <1>10, <1>11, SeqEqual
  <1> QED
    BY <1>3, <1>6, <1>7, <1>12

LEMMA WritesInFront ==
  ASSUME NEW w \in Seq(SourceTokens), NEW x \in Seq(SourceTokens),
         NEW coverage \in Seq(SUBSET StyleNames), NEW n \in Nat, NEW i \in 0..n,
         Clean(w), n = Len(w)
  PROVE  WrittenUpTo(w \o x, coverage)[i] = WrittenUpTo(w, coverage)[i]
  <1>1. PICK m \in Nat : m = Len(x)
    OBVIOUS
  <1>2. PICK c \in Seq(SourceTokens) : c = w \o x
    BY ConcatProperties
  <1>3. c \in Seq(SourceTokens) /\ Joined(c, w, x, n, m)
    BY <1>1, <1>2, ConcatElements
  <1>4. PICK l \in Nat : l = Len(c) /\ l = n + m
    BY <1>3 DEF Joined
  <1>5. PICK f : f = WrittenUpTo(w, coverage)
    OBVIOUS
  <1>6. PICK g : g = WrittenUpTo(c, coverage)
    OBVIOUS
  <1>7. Writes(w, coverage, f, n) /\ Writes(c, coverage, g, l)
    BY <1>3, <1>4, <1>5, <1>6, WrittenUpToFacts
  <1>8. ASSUME NEW k \in 1..n, f[k - 1] = g[k - 1] PROVE f[k] = g[k]
    <2>1. k \in 1..Len(w) /\ k \in 1..Len(c) /\ k \in 1..l /\ k - 1 \in 0..n
      BY <1>4
    <2>2. PICK p \in Outputs : p = f[k - 1]
      BY <1>7, <2>1 DEF Writes
    <2>3. k \in UnitStarts(c) <=> k \in UnitStarts(w)
      BY <1>2, <2>1, StartsInFront
    <2>4. f[k] = IF k \in UnitStarts(w) THEN Written(p, coverage, w, k) ELSE p
      BY <1>7, <2>2 DEF Writes
    <2>5. g[k] = IF k \in UnitStarts(c) THEN Written(p, coverage, c, k) ELSE p
      BY <1>7, <1>8, <2>1, <2>2 DEF Writes
    <2>6. UnitAt(c, k) = UnitAt(w, k)
      BY <1>2, <2>1, UnitInFront
    <2>7. PICK u : u = UnitAt(w, k)
      OBVIOUS
    <2>8. Written(p, coverage, w, k) = Adds(p, coverage, u)
      <3>1. AddsUnits(coverage, w)
        BY WrittenAdds
      <3> QED
        BY <2>1, <2>7, <3>1 DEF AddsUnits
    <2>9. Written(p, coverage, c, k) = Adds(p, coverage, u)
      <3>1. AddsUnits(coverage, c)
        BY WrittenAdds
      <3> QED
        BY <2>1, <2>6, <2>7, <3>1 DEF AddsUnits
    <2>10. CASE k \in UnitStarts(w)
      BY <2>3, <2>4, <2>5, <2>8, <2>9, <2>10
    <2>11. CASE k \notin UnitStarts(w)
      BY <2>3, <2>4, <2>5, <2>11
    <2> QED
      BY <2>10, <2>11
  <1>9. PICK S : S = {k \in 0..n : f[k] = g[k]}
    OBVIOUS
  <1>10. 0 \in S
    BY <1>7, <1>9 DEF Writes
  <1>11. \A k \in 1..n : k - 1 \in S => k \in S
    BY <1>8, <1>9
  <1>12. 0..n \subseteq S
    BY <1>10, <1>11, CountUp
  <1> QED
    BY <1>2, <1>5, <1>6, <1>9, <1>12

(* The output for a whole text, and for one unit more.                     *)
WrittenOf(text, coverage) == WrittenUpTo(text, coverage)[Len(text)]

LEMMA WrittenOfType ==
  ASSUME NEW text \in Seq(SourceTokens), NEW coverage \in Seq(SUBSET StyleNames)
  PROVE  WrittenOf(text, coverage) \in Outputs
  <1>1. PICK n \in Nat : n = Len(text)
    OBVIOUS
  <1>2. n \in 0..n /\ Writes(text, coverage, WrittenUpTo(text, coverage), n)
    BY <1>1, WrittenUpToFacts
  <1> QED
    BY <1>1, <1>2 DEF Writes, WrittenOf

LEMMA WriteUnit ==
  ASSUME NEW w \in Seq(SourceTokens), NEW x \in Seq(SourceTokens),
         NEW coverage \in Seq(SUBSET StyleNames), Clean(w), Unit(x)
  PROVE  WrittenOf(w \o x, coverage) = Adds(WrittenOf(w, coverage), coverage, x)
  <1>a. PICK n \in Nat : n = Len(w)
    OBVIOUS
  <1>1. PICK m \in Nat : m = Len(x) /\ m >= 1
    BY DEF Unit
  <1>2. PICK c \in Seq(SourceTokens) : c = w \o x
    BY ConcatProperties
  <1>3. c \in Seq(SourceTokens) /\ Joined(c, w, x, n, m)
    BY <1>a, <1>1, <1>2, ConcatElements
  <1>4. PICK l \in Nat : l = Len(c) /\ l = n + m
    BY <1>3 DEF Joined
  <1>5. PICK g : g = WrittenUpTo(c, coverage)
    OBVIOUS
  <1>6. Writes(c, coverage, g, l)
    BY <1>3, <1>4, <1>5, WrittenUpToFacts
  <1>z. PICK v : v = WrittenOf(w, coverage)
    OBVIOUS
  <1>7. g[n] = v /\ v \in Outputs
    <2>1. n \in 0..n
      OBVIOUS
    <2> QED
      BY SMTT(20), <1>a, <1>2, <1>5, <1>z, <2>1, WritesInFront, WrittenOfType DEF WrittenOf
  <1>8. ASSUME NEW k \in 1..m, NEW p, p = n + k
        PROVE  /\ p \in 1..l
               /\ p \in UnitStarts(c) <=> k \in UnitStarts(x)
               /\ g[p] = IF p \in UnitStarts(c) THEN Written(g[p - 1], coverage, c, p)
                                                ELSE g[p - 1]
    <2>1. p \in 1..l /\ k \in 1..Len(x)
      BY <1>1, <1>4, <1>8
    <2>2. p \in UnitStarts(c) <=> k \in UnitStarts(x)
      BY <1>a, <1>2, <1>8, <2>1, StartsBehind
    <2> QED
      BY <1>6, <2>1, <2>2 DEF Writes
  <1>9. ASSUME NEW p, p = n + 1 PROVE Written(v, coverage, c, p) = Adds(v, coverage, x)
    <2>1. 1 \in 1..Len(x) /\ p \in 1..l /\ p = n + 1
      BY <1>1, <1>4, <1>9
    <2>2. Width(c, p) = Width(x, 1)
      BY <1>a, <1>2, <2>1, Behind
    <2>3. Width(x, 1) = m
      BY <1>1 DEF Unit
    <2>4. UnitAt(c, p) = SubSeq(c, p, l)
      <3>1. UnitAt(c, p) = SubSeq(c, p, p + m - 1)
        BY <2>2, <2>3, Zenon DEF UnitAt
      <3>2. p + m - 1 = l
        BY <1>4, <2>1
      <3> QED
        BY <3>1, <3>2
    <2>5. SubSeq(c, p, l) = x
      <3>1. SubSeq(c, n + 1, Len(c)) = x
        BY <1>a, <1>2, CutJoined
      <3> QED
        BY <1>4, <2>1, <3>1
    <2>6. p \in 1..Len(c) /\ x = UnitAt(c, p)
      BY <1>4, <2>1, <2>4, <2>5
    <2>7. v \in Outputs
      BY <1>7
    <2>8. AddsUnits(coverage, c)
      BY WrittenAdds
    <2> QED
      BY <2>6, <2>7, <2>8 DEF AddsUnits
  <1>10. PICK S : S = {k \in 0..m : k = 0 \/ g[n + k] = Adds(v, coverage, x)}
    OBVIOUS
  <1>11. 0 \in S
    BY <1>10
  <1>12. ASSUME NEW k \in 1..m, k - 1 \in S PROVE k \in S
    <2>1. PICK p : p = n + k
      OBVIOUS
    <2>2. CASE k = 1
      <3>1. p - 1 = n /\ p = n + 1 /\ k \in UnitStarts(x)
        BY <2>1, <2>2, UnitFacts
      <3>2. g[p] = Written(g[p - 1], coverage, c, p)
        BY <1>8, <2>1, <3>1
      <3>3. g[p] = Adds(v, coverage, x)
        BY <1>7, <1>9, <3>1, <3>2
      <3> QED
        BY <1>10, <2>1, <3>3
    <2>3. CASE k # 1
      <3>1. k \in 2..Len(x)
        BY <1>1, <2>3
      <3>2. k \notin UnitStarts(x)
        BY <3>1, UnitFacts
      <3>3. g[p] = g[p - 1] /\ p - 1 = n + (k - 1)
        BY <1>8, <2>1, <3>2
      <3>4. g[n + (k - 1)] = Adds(v, coverage, x)
        BY <1>10, <1>12, <2>3
      <3> QED
        BY <1>10, <2>1, <3>3, <3>4
    <2> QED
      BY <2>2, <2>3
  <1>13. 0..m \subseteq S
    BY <1>11, <1>12, CountUp
  <1>14. m \in S /\ m # 0
    BY <1>1, <1>13
  <1>15. g[n + m] = Adds(v, coverage, x)
    BY <1>10, <1>14
  <1> QED
    BY <1>2, <1>4, <1>5, <1>z, <1>15 DEF WrittenOf

-----------------------------------------------------------------------------
(* Rewriting passes over the style tags that were written, and so writes   *)
(* the same again.                                                         *)
LEMMA WrittenSkipsTags ==
  ASSUME NEW w \in Seq(SourceTokens), NEW x \in Seq(SourceTokens),
         NEW coverage \in Seq(SUBSET StyleNames), Clean(w),
         \A i \in 1..Len(x) : StyleTag(x[i])
  PROVE  /\ Clean(w \o x) /\ w \o x \in Seq(SourceTokens)
         /\ WrittenOf(w \o x, coverage) = WrittenOf(w, coverage)
  <1>1. PICK m \in Nat : m = Len(x)
    OBVIOUS
  <1>2. PICK v : v = WrittenOf(w, coverage)
    OBVIOUS
  <1>3. PICK R : R = {k \in 0..m : /\ Clean(w \o SubSeq(x, 1, k))
                                   /\ WrittenOf(w \o SubSeq(x, 1, k), coverage) = v}
    OBVIOUS
  <1>4. w \o SubSeq(x, 1, 0) = w /\ w \o SubSeq(x, 1, m) = w \o x
    <2>1. SubSeq(x, 1, 0) = <<>>
      BY SubSeqEmpty
    <2>2. SubSeq(x, 1, m) = x
      BY <1>1, WholeSlice
    <2> QED
      BY <2>1, <2>2, ConcatEmptySeq
  <1>5. 0 \in R
    <2>1. Clean(w \o SubSeq(x, 1, 0)) /\ WrittenOf(w \o SubSeq(x, 1, 0), coverage) = v
      BY <1>2, <1>4, Zenon
    <2>2. 0 \in 0..m
      OBVIOUS
    <2> QED
      BY <1>3, <2>1, <2>2, Zenon
  <1>6. ASSUME NEW k \in 1..m, k - 1 \in R PROVE k \in R
    <2>1. PICK u : u = w \o SubSeq(x, 1, k - 1)
      OBVIOUS
    <2>2. u \in Seq(SourceTokens) /\ w \o SubSeq(x, 1, k) = u \o <<x[k]>>
      <3>1. u \in Seq(SourceTokens) /\ Longer(w \o SubSeq(x, 1, k), u, x[k])
        BY <1>1, <2>1, OneMore
      <3> QED
        BY <3>1, Zenon DEF Longer
    <2>3. Clean(u) /\ WrittenOf(u, coverage) = v
      BY <1>3, <1>6, <2>1
    <2>4. PICK t \in SourceTokens : t = x[k] /\ StyleTag(t)
      BY <1>1
    <2>5. PICK y \in Seq(SourceTokens) : y = <<t>> /\ Clean(y) /\ Unit(y)
      BY <2>4, CleanTag
    <2>6. StyleTag(y[1])
      BY <2>4, <2>5
    <2>7. Clean(u \o y)
      BY <2>2, <2>3, <2>5, CleanConcat
    <2>8. WrittenOf(u \o y, coverage) = v
      <3>1. WrittenOf(u \o y, coverage) = Adds(v, coverage, y)
        BY <2>2, <2>3, <2>5, WriteUnit
      <3> QED
        BY <2>6, <3>1, Zenon DEF Adds
    <2>9. w \o SubSeq(x, 1, k) = u \o y
      BY <2>2, <2>4, <2>5, Zenon
    <2>10. k \in 0..m
      OBVIOUS
    <2> QED
      BY <1>3, <2>7, <2>8, <2>9, <2>10, Zenon
  <1>7. 0..m \subseteq R
    BY <1>5, <1>6, CountUp
  <1>8. m \in R
    BY <1>7
  <1>9. Clean(w \o x) /\ WrittenOf(w \o x, coverage) = v
    BY <1>3, <1>4, <1>8
  <1>10. w \o x \in Seq(SourceTokens)
    BY ConcatProperties
  <1> QED
    BY <1>2, <1>9, <1>10

LEMMA WrittenSkipsSync ==
  ASSUME NEW out \in Outputs, NEW styles \in SUBSET StyleNames,
         NEW coverage \in Seq(SUBSET StyleNames), NEW b,
         Clean(out.text), b = Synchronized(out, styles)
  PROVE  /\ Clean(b.text) /\ b.text \in Seq(SourceTokens)
         /\ WrittenOf(b.text, coverage) = WrittenOf(out.text, coverage)
  <1>1. PICK closes, opens, c : Syncs(out, styles, closes, opens, c)
    BY SynchronizedFacts
  <1>2. /\ closes \in Seq(SourceTokens) /\ opens \in Seq(SourceTokens)
        /\ \A i \in 1..Len(closes) : StyleTag(closes[i])
        /\ \A i \in 1..Len(opens) : StyleTag(opens[i])
    BY <1>1, SyncWritesTags
  <1>3. PICK t \in Seq(SourceTokens) : t = out.text
    BY DEF Outputs
  <1>4. PICK u : u = t \o closes
    OBVIOUS
  <1>5. /\ Clean(u) /\ u \in Seq(SourceTokens)
        /\ WrittenOf(u, coverage) = WrittenOf(t, coverage)
    BY <1>2, <1>3, <1>4, WrittenSkipsTags
  <1>6. PICK z : z = u \o opens
    OBVIOUS
  <1>7. /\ Clean(z) /\ z \in Seq(SourceTokens)
        /\ WrittenOf(z, coverage) = WrittenOf(u, coverage)
    BY <1>2, <1>5, <1>6, WrittenSkipsTags
  <1>8. b.text = z
    <2>1. b = [text |-> z, emitted |-> InOrder(styles), offset |-> out.offset]
      BY <1>1, <1>3, <1>4, <1>6, Zenon DEF Syncs
    <2> QED
      BY <2>1
  <1> QED
    BY <1>3, <1>5, <1>7, <1>8

(* So the output so far is what rewriting the text so far comes to.        *)
LEMMA WrittenAgain ==
  ASSUME NEW text \in Seq(SourceTokens), NEW coverage \in Seq(SUBSET StyleNames),
         NEW n \in Nat, NEW i \in 0..n, n = Len(text), Clean(text),
         Len(coverage) = Len(Coverage(text)),
         NEW out, out = WrittenUpTo(text, coverage)[i]
  PROVE  WrittenOf(out.text, coverage) = out
  <1>1. PICK f : f = WrittenUpTo(text, coverage)
    OBVIOUS
  <1>2. Writes(text, coverage, f, n)
    BY <1>1, WrittenUpToFacts
  <1>3. \A k \in 0..n : f[k] \in Outputs /\ Clean(f[k].text)
    <2> SUFFICES ASSUME NEW k \in 0..n PROVE f[k] \in Outputs /\ Clean(f[k].text)
      OBVIOUS
    <2>1. /\ f[k] \in Outputs
          /\ Copies(f[k], coverage, Len(ReadUpTo(text)[k].coverage))
      BY <1>1, CopiesAll
    <2> QED
      BY <2>1 DEF Copies, Carries
  <1>4. PICK S : S = {k \in 0..n : WrittenOf(f[k].text, coverage) = f[k]}
    OBVIOUS
  <1>5. 0 \in S
    <2>1. f[0] = Unwritten /\ Unwritten.text = <<>>
      BY <1>2 DEF Writes, Unwritten
    <2>2. PICK e \in Seq(SourceTokens) : e = <<>>
      BY EmptySeq
    <2>3. PICK z \in Nat : z = 0 /\ z = Len(e)
      BY <2>2
    <2>4. Writes(e, coverage, WrittenUpTo(e, coverage), z)
      BY <2>3, WrittenUpToFacts
    <2>5. WrittenOf(e, coverage) = Unwritten
      BY <2>3, <2>4 DEF Writes, WrittenOf
    <2>6. WrittenOf(f[0].text, coverage) = f[0]
      BY <2>1, <2>2, <2>5, Zenon
    <2>7. 0 \in 0..n
      OBVIOUS
    <2> QED
      BY <1>4, <2>6, <2>7, Zenon
  <1>6. ASSUME NEW k \in 1..n, k - 1 \in S PROVE k \in S
    <2>1. k - 1 \in 0..n /\ k \in 0..n /\ k \in 1..Len(text)
      OBVIOUS
    <2>2. PICK p \in Outputs : p = f[k - 1]
      BY <1>3, <2>1
    <2>3. Clean(p.text) /\ WrittenOf(p.text, coverage) = p
      BY <1>3, <1>4, <1>6, <2>1, <2>2
    <2>4. f[k] = IF k \in UnitStarts(text) THEN Written(p, coverage, text, k) ELSE p
      BY <1>2, <2>2 DEF Writes
    <2>5. CASE k \notin UnitStarts(text)
      BY <1>4, <2>1, <2>3, <2>4, <2>5
    <2>6. CASE k \in UnitStarts(text)
      <3>1. PICK x : x = UnitAt(text, k)
        OBVIOUS
      <3>2. x \in Seq(SourceTokens) /\ Unit(x)
        <4>1. x \in Seq(SourceTokens)
          BY <2>1, <3>1, UnitAtFacts
        <4>2. Unit(x)
          BY <2>1, <3>1, CleanUnit
        <4> QED
          BY <4>1, <4>2
      <3>3. f[k] = Adds(p, coverage, x)
        <4>1. AddsUnits(coverage, text)
          BY WrittenAdds
        <4> QED
          BY <2>1, <2>4, <2>6, <3>1, <4>1 DEF AddsUnits
      <3>4. CASE StyleTag(x[1])
        <4>1. f[k] = p
          BY <3>3, <3>4, Zenon DEF Adds
        <4> QED
          BY <1>4, <2>1, <2>3, <4>1
      <3>5. CASE ~StyleTag(x[1])
        <4>1. PICK styles \in SUBSET StyleNames : styles = StylesAt(coverage, p.offset)
          BY StylesAtType DEF Outputs
        <4>2. PICK b : b = Synchronized(p, styles)
          OBVIOUS
        <4>3. /\ Clean(b.text) /\ b.text \in Seq(SourceTokens)
              /\ WrittenOf(b.text, coverage) = p
          BY <2>3, <4>2, WrittenSkipsSync
        <4>4. PICK t \in Seq(SourceTokens) : t = b.text
          BY <4>3
        <4>5. WrittenOf(t \o x, coverage) = Adds(WrittenOf(t, coverage), coverage, x)
          BY <3>2, <4>3, <4>4, WriteUnit
        <4>6. Adds(p, coverage, x) =
                [text |-> t \o x, emitted |-> b.emitted,
                 offset |-> p.offset + (IF Visible(x[1]) THEN 1 ELSE 0)]
          BY <3>5, <4>1, <4>2, <4>4, Zenon DEF Adds
        <4>7. f[k].text = t \o x
          BY <3>3, <4>6
        <4>8. WrittenOf(f[k].text, coverage) = f[k]
          BY <3>3, <4>3, <4>4, <4>5, <4>7, Zenon
        <4> QED
          BY <1>4, <2>1, <4>8
      <3> QED
        BY <3>4, <3>5
    <2> QED
      BY <2>5, <2>6
  <1>7. 0..n \subseteq S
    BY <1>5, <1>6, CountUp
  <1>8. i \in S
    BY <1>7
  <1> QED
    BY <1>1, <1>4, <1>8

LEMMA RebuiltAgain ==
  ASSUME NEW text \in Seq(SourceTokens), NEW coverage \in Seq(SUBSET StyleNames),
         Clean(text), Len(coverage) = Len(Coverage(text))
  PROVE  Rebuilt(Rebuilt(text, coverage), coverage) = Rebuilt(text, coverage)
  <1>1. PICK n \in Nat : n = Len(text)
    OBVIOUS
  <1>2. PICK out : out = WrittenUpTo(text, coverage)[n]
    OBVIOUS
  <1>3. n \in 0..n
    OBVIOUS
  <1>4. out \in Outputs /\ WrittenOf(out.text, coverage) = out
    BY SMTT(20), <1>1, <1>2, <1>3, CopiesAll, WrittenAgain
  <1>5. Clean(out.text)
    <2>1. Copies(out, coverage, Len(ReadUpTo(text)[n].coverage))
      BY <1>1, <1>2, <1>3, CopiesAll
    <2> QED
      BY <2>1 DEF Copies, Carries
  <1>6. PICK b : b = Synchronized(out, {})
    OBVIOUS
  <1>7. {} \in SUBSET StyleNames
    OBVIOUS
  <1>8. WrittenOf(b.text, coverage) = out
    BY <1>4, <1>5, <1>6, <1>7, WrittenSkipsSync
  <1>9. Rebuilt(text, coverage) = b.text
    BY <1>1, <1>2, <1>6, Zenon DEF Rebuilt
  <1>10. Rebuilt(b.text, coverage) = Synchronized(WrittenOf(b.text, coverage), {}).text
    BY Zenon DEF Rebuilt, WrittenOf
  <1> QED
    BY <1>6, <1>8, <1>9, <1>10, Zenon

(* The new text is in a normal form: the same call again changes nothing.  *)
THEOREM AlwaysSettlesAtOnce == SpecSource => []SettlesAtOnce
  <1>1. SourceTyped => SettlesAtOnce
    <2> SUFFICES ASSUME SourceTyped, Clean(source), NEW r \in Supported
                 PROVE  Rewritten(Rewritten(source, r), r) = Rewritten(source, r)
      BY DEF SettlesAtOnce
    <2>1. PICK text \in Seq(SourceTokens) : text = source
      BY DEF SourceTyped
    <2>2. PICK c : c = Restyled(Coverage(text), r)
      OBVIOUS
    <2>3. Coverage(text) \in Seq(SUBSET StyleNames)
      BY ReadOfType
    <2>4. c \in Seq(SUBSET StyleNames) /\ Len(c) = Len(Coverage(text))
      BY <2>2, <2>3, RestyledType
    <2>5. Restyled(c, r) = c
      BY <2>2, <2>3, RestyledTwice
    <2>6. PICK w : w = Rebuilt(text, c)
      OBVIOUS
    <2>7. Rewritten(text, r) = w
      BY <2>2, <2>6, Zenon DEF Rewritten
    <2>8. Coverage(w) = c /\ Rebuilt(w, c) = w
      BY <2>1, <2>4, <2>6, RebuiltCarries, RebuiltAgain
    <2>9. Rewritten(w, r) = w
      BY <2>5, <2>8, Zenon DEF Rewritten
    <2> QED
      BY <2>1, <2>7, <2>9, Zenon
  <1> QED
    BY <1>1, SourceIsText, PTL

-----------------------------------------------------------------------------
(* The same token changes two depths alike.                                *)
LEMMA DepthTurn ==
  ASSUME NEW c, NEW d, NEW name, NEW i \in Nat, NEW j \in Nat, NEW a \in Int,
         c[i + 1] = d[j + 1], Depth(c, name, i) = Depth(d, name, j) + a
  PROVE  Depth(c, name, i + 1) = Depth(d, name, j + 1) + a
  <1>1. Depth(c, name, i) \in Int /\ Depth(d, name, j) \in Int
    BY DepthFacts
  <1>2. CASE c[i + 1].k = "open" /\ c[i + 1].n = name
    <2>1. Depth(c, name, i + 1) = Depth(c, name, i) + 1
      BY <1>2, DepthFacts
    <2>2. Depth(d, name, j + 1) = Depth(d, name, j) + 1
      BY <1>2, DepthFacts
    <2> QED
      BY <1>1, <2>1, <2>2
  <1>3. CASE c[i + 1].k = "close" /\ c[i + 1].n = name
    <2>1. Depth(c, name, i + 1) = Depth(c, name, i) - 1
      BY <1>3, DepthFacts
    <2>2. Depth(d, name, j + 1) = Depth(d, name, j) - 1
      BY <1>3, DepthFacts
    <2> QED
      BY <1>1, <2>1, <2>2
  <1>4. CASE c[i + 1].k \notin {"open", "close"} \/ c[i + 1].n # name
    <2>1. Depth(c, name, i + 1) = Depth(c, name, i)
      BY <1>4, DepthFacts
    <2>2. Depth(d, name, j + 1) = Depth(d, name, j)
      BY <1>4, DepthFacts
    <2> QED
      BY <1>1, <2>1, <2>2
  <1> QED
    BY <1>2, <1>3, <1>4

(* The names of other tags are as deep in what is left of a text without   *)
(* its style tags, and every other token is there.                         *)
LEMMA OtherDepth ==
  ASSUME NEW A, NEW w \in Seq(A), NEW name, name \notin StyleNames, NEW n \in Nat, n = Len(w)
  PROVE  Depth(OtherTokens(w), name, Len(OtherTokens(w))) = Depth(w, name, n)
  <1>1. PICK other : other = OtherUpTo(w)
    OBVIOUS
  <1>2. Others(w, other, n, A)
    BY <1>1, OtherUpToFacts
  <1>3. PICK S : S = {i \in 0..n : Depth(other[i], name, Len(other[i])) = Depth(w, name, i)}
    OBVIOUS
  <1>4. 0 \in S
    <2>1. other[0] = <<>> /\ Len(<<>>) = 0
      BY <1>2 DEF Others
    <2>2. Depth(other[0], name, 0) = 0 /\ Depth(w, name, 0) = 0
      BY DepthFacts
    <2>3. Depth(other[0], name, Len(other[0])) = Depth(w, name, 0) /\ 0 \in 0..n
      BY <2>1, <2>2
    <2> QED
      BY <1>3, <2>3, Zenon
  <1>5. ASSUME NEW i \in 1..n, i - 1 \in S PROVE i \in S
    <2>1. PICK j \in Nat : j = i - 1
      OBVIOUS
    <2>2. j + 1 = i /\ i \in 0..n /\ j \in 0..n
      BY <2>1
    <2>3. PICK o \in Seq(A) : o = other[j]
      BY <1>2, <2>2 DEF Others
    <2>4. PICK l \in Nat : l = Len(o)
      OBVIOUS
    <2>5. Depth(o, name, l) = Depth(w, name, j)
      BY <1>3, <1>5, <2>1, <2>3, <2>4
    <2>6. w[i] \in A
      BY <2>2
    <2>7. other[i] = IF StyleTag(w[i]) THEN o ELSE Append(o, w[i])
      BY <1>2, <2>1, <2>3 DEF Others
    <2>8. CASE StyleTag(w[i])
      <3>1. w[j + 1].k \notin {"open", "close"} \/ w[j + 1].n # name
        BY <2>2, <2>8 DEF StyleTag
      <3>2. Depth(w, name, j + 1) = Depth(w, name, j)
        BY <3>1, DepthFacts
      <3>3. other[i] = o
        BY <2>7, <2>8
      <3>4. Depth(other[i], name, Len(other[i])) = Depth(w, name, i)
        BY <2>2, <2>4, <2>5, <3>2, <3>3
      <3> QED
        BY <1>3, <2>2, <3>4
    <2>9. CASE ~StyleTag(w[i])
      <3>1. PICK t \in A : t = w[i]
        BY <2>6
      <3>2. <<t>> \in Seq(A)
        OBVIOUS
      <3>3. PICK x \in Seq(A) : x = <<t>>
        BY <3>2
      <3>a. o \o x \in Seq(A)
        OBVIOUS
      <3>4. PICK u \in Seq(A) : u = o \o x
        BY <3>a
      <3>5. other[i] = u
        BY <2>7, <2>9, <3>1, <3>3, <3>4, AppendIsConcat
      <3>6. Len(u) = l + 1 /\ u[l + 1] = t
        BY <2>4, <3>3, <3>4
      <3>7. Depth(u, name, l) = Depth(o, name, l)
        <4>1. l \in 0..l
          OBVIOUS
        <4>2. Depth(o \o x, name, l) = Depth(o, name, l)
          BY <2>4, <4>1, DepthInFront
        <4> QED
          BY <3>4, <4>2, Zenon
      <3>8. Depth(u, name, l) = Depth(w, name, j) + 0 /\ 0 \in Int
        <4>1. Depth(w, name, j) \in Int
          BY DepthFacts
        <4> QED
          BY <2>5, <3>7, <4>1
      <3>9. Depth(u, name, l + 1) = Depth(w, name, j + 1) + 0
        <4>1. u[l + 1] = w[j + 1]
          BY <2>2, <3>1, <3>6
        <4> QED
          BY <3>8, <4>1, DepthTurn
      <3>10. Depth(other[i], name, Len(other[i])) = Depth(w, name, i)
        <4>1. j + 1 \in Nat /\ Depth(w, name, j + 1) \in Int
          BY DepthFacts
        <4>2. Depth(u, name, l + 1) = Depth(w, name, i)
          <5>1. PICK d \in Int : d = Depth(w, name, j + 1)
            BY <4>1
          <5>2. Depth(u, name, l + 1) = d + 0 /\ d + 0 = d
            BY <3>9, <5>1
          <5>3. d = Depth(w, name, i)
            BY <2>2, <5>1
          <5> QED
            BY <5>2, <5>3
        <4> QED
          BY <3>5, <3>6, <4>2, Zenon
      <3> QED
        BY <1>3, <2>2, <3>10
    <2> QED
      BY <2>8, <2>9
  <1>6. 0..n \subseteq S
    BY <1>4, <1>5, CountUp
  <1>7. n \in S
    BY <1>6
  <1>8. OtherTokens(w) = other[n]
    BY <1>1, Zenon DEF OtherTokens
  <1> QED
    BY <1>3, <1>7, <1>8

LEMMA OtherThere ==
  ASSUME NEW A, NEW w \in Seq(A), NEW n \in Nat, n = Len(w)
  PROVE  \A j \in 1..n : ~StyleTag(w[j]) =>
           \E k \in 1..Len(OtherTokens(w)) : OtherTokens(w)[k] = w[j]
  <1> DEFINE There(o, j) == \E k \in 1..Len(o) : o[k] = w[j]
  <1>1. PICK other : other = OtherUpTo(w)
    OBVIOUS
  <1>2. Others(w, other, n, A)
    BY <1>1, OtherUpToFacts
  <1>3. PICK S : S = {i \in 0..n : \A j \in 1..i : ~StyleTag(w[j]) => There(other[i], j)}
    OBVIOUS
  <1>4. 0 \in S
    BY <1>3
  <1>5. ASSUME NEW i \in 1..n, i - 1 \in S PROVE i \in S
    <2>1. i \in 0..n /\ i - 1 \in 0..n
      OBVIOUS
    <2>2. PICK o \in Seq(A) : o = other[i - 1]
      BY <1>2, <2>1 DEF Others
    <2>3. PICK l \in Nat : l = Len(o)
      OBVIOUS
    <2>4. w[i] \in A
      OBVIOUS
    <2>5. other[i] = IF StyleTag(w[i]) THEN o ELSE Append(o, w[i])
      BY <1>2, <2>2 DEF Others
    <2>6. \A j \in 1..(i - 1) : ~StyleTag(w[j]) => There(o, j)
      BY <1>3, <1>5, <2>2
    <2>7. ASSUME NEW j \in 1..i, ~StyleTag(w[j]) PROVE There(other[i], j)
      <3>1. CASE StyleTag(w[i])
        <4>1. j \in 1..(i - 1) /\ other[i] = o
          BY <2>5, <2>7, <3>1
        <4> QED
          BY <2>6, <2>7, <4>1
      <3>2. CASE ~StyleTag(w[i])
        <4>1. PICK t \in A : t = w[i]
          BY <2>4
        <4>2. PICK u : u = Append(o, t)
          OBVIOUS
        <4>3. other[i] = u /\ Len(u) = l + 1 /\ u[l + 1] = t /\ \A k \in 1..l : u[k] = o[k]
          BY <2>3, <2>5, <3>2, <4>1, <4>2
        <4>4. CASE j = i
          BY <4>1, <4>3, <4>4
        <4>5. CASE j # i
          <5>1. j \in 1..(i - 1)
            BY <4>5
          <5>2. PICK k \in 1..l : o[k] = w[j]
            BY <2>3, <2>6, <2>7, <5>1
          <5>3. k \in 1..(l + 1) /\ u[k] = w[j]
            BY <4>3, <5>2
          <5> QED
            BY <4>3, <5>3
        <4> QED
          BY <4>4, <4>5
      <3> QED
        BY <3>1, <3>2
    <2> QED
      BY <1>3, <2>1, <2>7
  <1>6. n \in S
    <2>1. 0..n \subseteq S
      BY <1>4, <1>5, CountUp
    <2> QED
      BY <2>1
  <1>7. OtherTokens(w) = other[n]
    BY <1>1, Zenon DEF OtherTokens
  <1> QED
    BY <1>3, <1>6, <1>7

(* A fragment is parsed between tags of its own, whose name its tags may   *)
(* have, too.                                                              *)
Root(kind) == TagOf(kind, "root")

Wrapped(w) == <<Root("open")>> \o w \o <<Root("close")>>

RootDepth(name) == IF name = "root" THEN 1 ELSE 0

(* The tokens of a wrapped text, and how they lie in it.                   *)
WrapTokens(A) == A \cup {Root("open"), Root("close")}

IsWrapped(doc, w, n) ==
  /\ Len(doc) = n + 2
  /\ doc[1] = Root("open") /\ doc[n + 2] = Root("close")
  /\ \A i \in 1..n : doc[i + 1] = w[i]

LEMMA RootFacts ==
  /\ Root("open").k = "open" /\ Root("close").k = "close"
  /\ Root("open").n = "root" /\ Root("close").n = "root"
  /\ Root("open").ok
  BY Zenon DEF Root, TagOf

LEMMA WrappedFacts ==
  ASSUME NEW A, NEW w \in Seq(A), NEW n \in Nat, n = Len(w)
  PROVE  /\ Wrapped(w) \in Seq(WrapTokens(A))
         /\ IsWrapped(Wrapped(w), w, n)
         /\ BodyOf(Wrapped(w)) = Wrapped(w)
  <1>1. PICK a : a = Root("open")
    OBVIOUS
  <1>2. PICK b : b = Root("close")
    OBVIOUS
  <1>3. PICK B : B = WrapTokens(A)
    OBVIOUS
  <1>4. a \in B /\ b \in B /\ A \subseteq B
    BY <1>1, <1>2, <1>3 DEF WrapTokens
  <1>5. w \in Seq(B)
    BY <1>4
  <1>6. PICK doc : doc = <<a>> \o w \o <<b>>
    OBVIOUS
  <1>7. /\ doc \in Seq(B) /\ Len(doc) = n + 2
        /\ doc[1] = a /\ doc[n + 2] = b
        /\ \A i \in 1..n : doc[i + 1] = w[i]
    <2>0. <<a>> \in Seq(B) /\ <<b>> \in Seq(B)
      BY <1>4
    <2>1. PICK x \in Seq(B) : x = <<a>>
      BY <2>0
    <2>2. x \o w \in Seq(B)
      BY <1>5
    <2>3. PICK y \in Seq(B) : y = x \o w
      BY <2>2
    <2>4. PICK z \in Seq(B) : z = <<b>>
      BY <2>0
    <2>5. Len(x) = 1 /\ x[1] = a /\ Len(z) = 1 /\ z[1] = b
      BY <2>1, <2>4
    <2>6. Len(y) = n + 1 /\ y[1] = a /\ \A i \in 1..n : y[i + 1] = w[i]
      <3>1. Joined(y, x, w, 1, n)
        BY <1>5, <2>3, <2>5, ConcatElements
      <3> QED
        BY <2>5, <3>1 DEF Joined
    <2>7. doc = y \o z
      BY <1>6, <2>1, <2>3, <2>4
    <2>8. doc \in Seq(B)
      BY <2>7
    <2>9. PICK m \in Nat : m = n + 1
      OBVIOUS
    <2>10. Joined(doc, y, z, m, 1)
      BY <2>5, <2>6, <2>7, <2>9, ConcatElements
    <2>11. Len(doc) = m + 1 /\ doc[m + 1] = b /\ \A i \in 1..m : doc[i] = y[i]
      BY <2>5, <2>10 DEF Joined
    <2>12. /\ m + 1 = n + 2 /\ 1 \in 1..m
           /\ \A i \in 1..n : i + 1 \in 1..m
      BY <2>9
    <2>13. doc[1] = a /\ doc[n + 2] = b /\ Len(doc) = n + 2
      BY <2>6, <2>11, <2>12
    <2>14. \A i \in 1..n : doc[i + 1] = w[i]
      BY <2>6, <2>11, <2>12
    <2> QED
      BY <2>8, <2>13, <2>14
  <1>8. doc = Wrapped(w)
    BY <1>1, <1>2, <1>6, Zenon DEF Wrapped
  <1>9. IsWrapped(doc, w, n)
    BY <1>1, <1>2, <1>7 DEF IsWrapped
  <1>10. BodyOf(doc) = doc
    <2>1. ~Leading(doc[1])
      <3>1. a.k = "open"
        BY <1>1, RootFacts
      <3> QED
        BY <1>7, <3>1 DEF Leading
    <2>2. Lead(doc) = 0
      <3>1. PICK k \in Nat : k = 0
        OBVIOUS
      <3>2. k \in 0..Len(doc) /\ k + 1 = 1 /\ \A j \in 1..k : Leading(doc[j])
        BY <1>7, <3>1
      <3>3. Lead(doc) = k
        BY <1>7, <2>1, <3>2, LeadIs
      <3> QED
        BY <3>1, <3>3
    <2> QED
      BY <1>7, <2>2, SplitText
  <1> QED
    BY <1>3, <1>7, <1>8, <1>9, <1>10

LEMMA WrappedDepth ==
  ASSUME NEW doc, NEW w, NEW n \in Nat, IsWrapped(doc, w, n), NEW name
  PROVE  /\ \A i \in 0..n : Depth(doc, name, i + 1) = Depth(w, name, i) + RootDepth(name)
         /\ Depth(doc, name, n + 2) = Depth(w, name, n)
  <1>1. PICK S : S = {k \in 0..n : Depth(doc, name, k + 1) = Depth(w, name, k) + RootDepth(name)}
    OBVIOUS
  <1>2. RootDepth(name) \in Int
    BY DEF RootDepth
  <1>3. 0 \in S
    <2>1. doc[0 + 1] = Root("open")
      BY DEF IsWrapped
    <2>2. 0 \in Nat /\ Depth(doc, name, 0) = 0 /\ Depth(w, name, 0) = 0 /\ 0 \in 0..n
      BY DepthFacts
    <2>3. Depth(doc, name, 0 + 1) = Depth(doc, name, 0) + RootDepth(name)
      <3>1. CASE name = "root"
        <4>1. doc[0 + 1].k = "open" /\ doc[0 + 1].n = name
          BY <2>1, <3>1, RootFacts
        <4>2. Depth(doc, name, 0 + 1) = Depth(doc, name, 0) + 1
          BY <2>2, <4>1, DepthFacts
        <4> QED
          BY <3>1, <4>2 DEF RootDepth
      <3>2. CASE name # "root"
        <4>1. doc[0 + 1].n # name
          BY <2>1, <3>2, RootFacts
        <4>2. Depth(doc, name, 0 + 1) = Depth(doc, name, 0)
          BY <2>2, <4>1, DepthFacts
        <4> QED
          BY <2>2, <3>2, <4>2 DEF RootDepth
      <3> QED
        BY <3>1, <3>2
    <2>4. Depth(doc, name, 0 + 1) = Depth(w, name, 0) + RootDepth(name)
      BY <2>2, <2>3
    <2> QED
      BY <1>1, <2>2, <2>4, Zenon
  <1>4. ASSUME NEW k \in 1..n, k - 1 \in S PROVE k \in S
    <2>1. PICK j \in Nat : j = k - 1
      OBVIOUS
    <2>2. j + 1 = k /\ k \in 0..n /\ k \in Nat
      BY <2>1
    <2>3. Depth(doc, name, j + 1) = Depth(w, name, j) + RootDepth(name)
      BY <1>1, <1>4, <2>1
    <2>4. doc[k + 1] = w[j + 1]
      BY <2>2 DEF IsWrapped
    <2>5. Depth(doc, name, k) = Depth(w, name, j) + RootDepth(name)
      BY <2>2, <2>3
    <2>6. Depth(doc, name, k + 1) = Depth(w, name, j + 1) + RootDepth(name)
      BY <1>2, <2>2, <2>4, <2>5, DepthTurn
    <2>7. Depth(doc, name, k + 1) = Depth(w, name, k) + RootDepth(name)
      BY <2>2, <2>6
    <2> QED
      BY <1>1, <2>2, <2>7
  <1>5. 0..n \subseteq S
    BY <1>3, <1>4, CountUp
  <1>6. \A i \in 0..n : Depth(doc, name, i + 1) = Depth(w, name, i) + RootDepth(name)
    BY <1>1, <1>5
  <1>7. Depth(doc, name, n + 2) = Depth(w, name, n)
    <2>1. PICK q \in Nat : q = n + 1
      OBVIOUS
    <2>2. n \in 0..n /\ q + 1 = n + 2
      BY <2>1
    <2>3. doc[q + 1] = Root("close")
      BY <2>2 DEF IsWrapped
    <2>4. Depth(doc, name, q) = Depth(w, name, n) + RootDepth(name)
      BY <1>6, <2>1, <2>2
    <2>5. Depth(doc, name, q) \in Int /\ Depth(w, name, n) \in Int
      BY DepthFacts
    <2>6. CASE name = "root"
      <3>1. doc[q + 1].k = "close" /\ doc[q + 1].n = name
        BY <2>3, <2>6, RootFacts
      <3>2. Depth(doc, name, q + 1) = Depth(doc, name, q) - 1
        BY <3>1, DepthFacts
      <3>3. RootDepth(name) = 1
        BY <2>6 DEF RootDepth
      <3> QED
        BY <2>2, <2>4, <2>5, <3>2, <3>3
    <2>7. CASE name # "root"
      <3>1. doc[q + 1].n # name
        BY <2>3, <2>7, RootFacts
      <3>2. Depth(doc, name, q + 1) = Depth(doc, name, q)
        BY <3>1, DepthFacts
      <3>3. RootDepth(name) = 0
        BY <2>7 DEF RootDepth
      <3> QED
        BY <2>2, <2>4, <2>5, <3>2, <3>3
    <2> QED
      BY <2>6, <2>7
  <1> QED
    BY <1>6, <1>7

(* When a wrapped fragment parses: no token is refused, attributes are     *)
(* acceptable, and every name nests, but for one closing and one opening   *)
(* tag too many of the root's.                                             *)
NestsIn(w, n, name) ==
  /\ \A i \in 0..n : Depth(w, name, i) + RootDepth(name) >= 0
  /\ Depth(w, name, n) = 0

Acceptable(token) == ~Refused(token) /\ (Starts(token) => token.ok)

LEMMA WrappedNests ==
  ASSUME NEW A, NEW w \in Seq(A), NEW n \in Nat, n = Len(w), CanParseFragment(w)
  PROVE  /\ \A i \in 1..n : Acceptable(w[i])
         /\ \A name : NestsIn(w, n, name)
  <1>1. PICK doc : doc = Wrapped(w)
    OBVIOUS
  <1>2. doc \in Seq(WrapTokens(A)) /\ IsWrapped(doc, w, n) /\ BodyOf(doc) = doc
    BY <1>1, WrappedFacts
  <1>3. Parses(doc)
    BY <1>1, Zenon DEF CanParseFragment, Wrapped, Root
  <1>4. Balanced(doc) /\ \A i \in DOMAIN doc : Starts(doc[i]) => doc[i].ok
    BY <1>2, <1>3 DEF Parses
  <1>5. Len(doc) = n + 2 /\ DOMAIN doc = 1..(n + 2)
    BY <1>2 DEF IsWrapped
  <1>6. ASSUME NEW i \in 1..n PROVE Acceptable(w[i])
    <2>1. i + 1 \in DOMAIN doc /\ doc[i + 1] = w[i]
      BY <1>2, <1>5 DEF IsWrapped
    <2>2. ~Refused(doc[i + 1])
      BY <1>4, <2>1 DEF Balanced
    <2> QED
      BY <1>4, <2>1, <2>2 DEF Acceptable
  <1>7. ASSUME NEW name PROVE NestsIn(w, n, name)
    <2>1. /\ \A i \in 0..n : Depth(doc, name, i + 1) = Depth(w, name, i) + RootDepth(name)
          /\ Depth(doc, name, n + 2) = Depth(w, name, n)
      BY <1>2, WrappedDepth
    <2>2. CASE name \in NamesOf(doc)
      <3>1. ASSUME NEW i \in DOMAIN doc PROVE Depth(doc, name, i) >= 0
        <4>1. Closed(doc, name, i) <= Opened(doc, name, i)
          BY <1>4, <2>2 DEF Balanced
        <4>2. Closed(doc, name, i) \in Nat /\ Opened(doc, name, i) \in Nat
          BY <1>5, CountNext
        <4> QED
          BY <4>1, <4>2 DEF Depth
      <3>2. Depth(doc, name, n + 2) = 0
        <4>1. Closed(doc, name, n + 2) = Opened(doc, name, n + 2)
          BY <1>4, <1>5, <2>2 DEF Balanced
        <4>2. n + 2 \in Nat
          OBVIOUS
        <4>3. Closed(doc, name, n + 2) \in Nat /\ Opened(doc, name, n + 2) \in Nat
          BY <4>2, CountNext
        <4> QED
          BY <4>1, <4>3 DEF Depth
      <3>3. \A i \in 0..n : i + 1 \in DOMAIN doc
        BY <1>5
      <3>4. \A i \in 0..n : Depth(doc, name, i + 1) >= 0
        BY <3>1, <3>3
      <3> QED
        BY <2>1, <3>2, <3>4 DEF NestsIn
    <2>3. CASE name \notin NamesOf(doc)
      <3>1. \A i \in 1..(n + 2) : doc[i].k \notin {"open", "close"} \/ doc[i].n # name
        BY <1>5, <2>3 DEF NamesOf, TagKinds
      <3>2. PICK m \in Nat : m = n + 2
        OBVIOUS
      <3>3. PICK S : S = {i \in 0..m : Depth(doc, name, i) = 0}
        OBVIOUS
      <3>4. 0 \in S
        BY <3>3, DepthFacts
      <3>5. ASSUME NEW k \in 1..m, k - 1 \in S PROVE k \in S
        <4>1. PICK j \in Nat : j = k - 1
          OBVIOUS
        <4>2. j + 1 = k /\ k \in 0..m
          BY <4>1
        <4>3. doc[j + 1].k \notin {"open", "close"} \/ doc[j + 1].n # name
          BY <3>1, <3>2, <4>2
        <4>4. Depth(doc, name, j + 1) = Depth(doc, name, j)
          BY <4>3, DepthFacts
        <4> QED
          BY <3>3, <3>5, <4>1, <4>2, <4>4
      <3>6. 0..m \subseteq S
        BY <3>4, <3>5, CountUp
      <3>7. \A i \in 0..n : i + 1 \in 0..m
        BY <3>2
      <3>8. \A i \in 0..n : Depth(doc, name, i + 1) = 0
        BY <3>3, <3>6, <3>7
      <3>9. Depth(doc, name, n + 2) = 0
        BY <3>2, <3>3, <3>6
      <3> QED
        BY <2>1, <3>8, <3>9 DEF NestsIn
    <2> QED
      BY <2>2, <2>3
  <1> QED
    BY <1>6, <1>7

LEMMA WrappedParses ==
  ASSUME NEW A, NEW w \in Seq(A), NEW n \in Nat, n = Len(w),
         \A i \in 1..n : Acceptable(w[i]), \A name : NestsIn(w, n, name)
  PROVE  CanParseFragment(w)
  <1>1. PICK doc : doc = Wrapped(w)
    OBVIOUS
  <1>2. doc \in Seq(WrapTokens(A)) /\ IsWrapped(doc, w, n) /\ BodyOf(doc) = doc
    BY <1>1, WrappedFacts
  <1>3. Len(doc) = n + 2 /\ DOMAIN doc = 1..(n + 2)
    BY <1>2 DEF IsWrapped
  <1>4. ASSUME NEW i \in DOMAIN doc PROVE Acceptable(doc[i])
    <2>1. i = 1 \/ i = n + 2 \/ \E j \in 1..n : i = j + 1
      <3>1. i \in 1..(n + 2)
        BY <1>3
      <3>2. i = 1 \/ i = n + 2 \/ (i - 1 \in 1..n /\ i = (i - 1) + 1)
        BY <3>1
      <3> QED
        BY <3>2
    <2>2. CASE i = 1
      BY <1>2, <2>2, RootFacts DEF IsWrapped, Acceptable, Refused
    <2>3. CASE i = n + 2
      BY <1>2, <2>3, RootFacts DEF IsWrapped, Acceptable, Refused, Starts
    <2>4. CASE \E j \in 1..n : i = j + 1
      BY <1>2, <2>4 DEF IsWrapped
    <2> QED
      BY <2>1, <2>2, <2>3, <2>4
  <1>5. ASSUME NEW name
        PROVE  /\ \A i \in DOMAIN doc : Closed(doc, name, i) <= Opened(doc, name, i)
               /\ Closed(doc, name, Len(doc)) = Opened(doc, name, Len(doc))
    <2>1. /\ \A i \in 0..n : Depth(doc, name, i + 1) = Depth(w, name, i) + RootDepth(name)
          /\ Depth(doc, name, n + 2) = Depth(w, name, n)
      BY <1>2, WrappedDepth
    <2>2. NestsIn(w, n, name)
      OBVIOUS
    <2>3. ASSUME NEW i \in DOMAIN doc PROVE Depth(doc, name, i) >= 0
      <3>1. i = n + 2 \/ (i - 1 \in 0..n /\ i = (i - 1) + 1)
        BY <1>3
      <3>2. CASE i = n + 2
        BY <2>1, <2>2, <3>2 DEF NestsIn
      <3>3. CASE i - 1 \in 0..n /\ i = (i - 1) + 1
        <4>1. PICK j \in 0..n : i = j + 1
          BY <3>3
        <4> QED
          BY <2>1, <2>2, <4>1 DEF NestsIn
      <3> QED
        BY <3>1, <3>2, <3>3
    <2>4. Depth(doc, name, n + 2) = 0
      BY <2>1, <2>2 DEF NestsIn
    <2>5. ASSUME NEW i \in DOMAIN doc
          PROVE  Closed(doc, name, i) \in Nat /\ Opened(doc, name, i) \in Nat
      BY <1>3, CountNext
    <2>6. \A i \in DOMAIN doc : Closed(doc, name, i) <= Opened(doc, name, i)
      BY <2>3, <2>5 DEF Depth
    <2>7. Closed(doc, name, n + 2) = Opened(doc, name, n + 2)
      <3>1. n + 2 \in DOMAIN doc
        BY <1>3
      <3>2. Closed(doc, name, n + 2) \in Nat /\ Opened(doc, name, n + 2) \in Nat
        BY <2>5, <3>1
      <3> QED
        BY <2>4, <3>2 DEF Depth
    <2> QED
      BY <1>3, <2>6, <2>7
  <1>6. Balanced(doc)
    BY <1>4, <1>5 DEF Balanced, Acceptable
  <1>7. Starts(doc[1]) /\ 1 \in DOMAIN doc
    BY <1>2, <1>3, RootFacts DEF IsWrapped, Starts
  <1>8. Parses(doc)
    BY <1>2, <1>4, <1>6, <1>7 DEF Parses, Acceptable
  <1> QED
    BY <1>1, <1>8, Zenon DEF CanParseFragment, Wrapped, Root

(* Style tags that nest may be put anywhere between the other tags of a    *)
(* text that parses without them.                                          *)
LEMMA OtherNests ==
  ASSUME NEW A, NEW w \in Seq(A), NEW n \in Nat, n = Len(w), NEW name, name \notin StyleNames,
         NEW m \in Nat, m = Len(OtherTokens(w)), NestsIn(OtherTokens(w), m, name)
  PROVE  NestsIn(w, n, name)
  <1>1. PICK o \in Seq(A) : o = OtherTokens(w)
    BY OtherTokensType
  <1>2. ASSUME NEW i \in 0..n PROVE \E k \in 0..m : Depth(o, name, k) = Depth(w, name, i)
    <2>1. i \in Nat /\ n \in Nat /\ i <= n
      OBVIOUS
    <2>2. /\ SubSeq(w, 1, i) \in Seq(A) /\ Len(SubSeq(w, 1, i)) = i
          /\ SubSeq(w, i + 1, n) \in Seq(A)
      BY <2>1, HeadFacts, SliceFacts
    <2>3. PICK head \in Seq(A) : head = SubSeq(w, 1, i)
      BY <2>2
    <2>4. PICK tail \in Seq(A) : tail = SubSeq(w, i + 1, n)
      BY <2>2
    <2>5. w = head \o tail
      <3>a. PICK a \in Nat : a = i
        BY <2>1
      <3>b. a <= n /\ n <= Len(w)
        BY <3>a
      <3>c. SubSeq(w, 1, a) \o SubSeq(w, a + 1, n) = SubSeq(w, 1, n)
        BY <3>b, JoinSlices
      <3>1. SubSeq(w, 1, i) \o SubSeq(w, i + 1, n) = SubSeq(w, 1, n)
        BY <3>a, <3>c, Zenon
      <3>2. SubSeq(w, 1, n) = w
        BY WholeSlice
      <3> QED
        BY <2>3, <2>4, <3>1, <3>2
    <2>6. PICK h \in Seq(A) : h = OtherTokens(head)
      BY OtherTokensType
    <2>7. PICK t \in Seq(A) : t = OtherTokens(tail)
      BY OtherTokensType
    <2>8. o = h \o t
      <3>1. OtherTokens(head \o tail) = OtherTokens(head) \o OtherTokens(tail)
        BY OtherConcat
      <3> QED
        BY <1>1, <2>5, <2>6, <2>7, <3>1, Zenon
    <2>9. PICK k \in Nat : k = Len(h)
      OBVIOUS
    <2>10. k <= m
      <3>1. Len(h \o t) = Len(h) + Len(t)
        OBVIOUS
      <3>2. m = Len(h \o t) /\ Len(t) \in Nat
        BY <1>1, <2>8
      <3> QED
        BY <2>9, <3>1, <3>2
    <2>11. Depth(h, name, k) = Depth(head, name, i)
      <3>1. i = Len(head)
        BY <2>2, <2>3
      <3>2. Depth(OtherTokens(head), name, Len(OtherTokens(head))) = Depth(head, name, i)
        BY <2>1, <3>1, OtherDepth
      <3> QED
        BY <2>6, <2>9, <3>2, Zenon
    <2>12. Depth(h \o t, name, k) = Depth(h, name, k)
      <3>1. k \in 0..k
        OBVIOUS
      <3> QED
        BY <2>9, <3>1, DepthInFront
    <2>13. Depth(head \o tail, name, i) = Depth(head, name, i)
      <3>1. i \in 0..i /\ i = Len(head)
        BY <2>2, <2>3
      <3> QED
        BY <2>1, <3>1, DepthInFront
    <2>14. Depth(o, name, k) = Depth(w, name, i)
      BY <2>5, <2>8, <2>11, <2>12, <2>13, Zenon
    <2> QED
      BY <2>10, <2>14
  <1>3. ASSUME NEW i \in 0..n PROVE Depth(w, name, i) + RootDepth(name) >= 0
    <2>1. PICK k \in 0..m : Depth(o, name, k) = Depth(w, name, i)
      BY <1>2
    <2>2. Depth(o, name, k) + RootDepth(name) >= 0
      BY <1>1 DEF NestsIn
    <2> QED
      BY <2>1, <2>2
  <1>4. Depth(w, name, n) = 0
    <2>1. Depth(OtherTokens(w), name, Len(OtherTokens(w))) = Depth(w, name, n)
      BY OtherDepth
    <2> QED
      BY <2>1 DEF NestsIn
  <1> QED
    BY <1>3, <1>4 DEF NestsIn

LEMMA RewrittenParses ==
  ASSUME NEW text \in Seq(SourceTokens), NEW r \in Supported, Clean(text),
         CanParseFragment(OtherTokens(text))
  PROVE  CanParseFragment(Rewritten(text, r))
  <1>1. PICK w \in Seq(SourceTokens) : w = Rewritten(text, r)
    BY RewrittenFacts
  <1>2. OtherTokens(w) = OtherTokens(text)
    BY <1>1, RewrittenFacts
  <1>3. PICK o \in Seq(SourceTokens) : o = OtherTokens(w)
    BY OtherTokensType
  <1>4. PICK n \in Nat : n = Len(w)
    OBVIOUS
  <1>5. PICK m \in Nat : m = Len(o)
    OBVIOUS
  <1>6. CanParseFragment(o)
    BY <1>2, <1>3, Zenon
  <1>7. (\A i \in 1..m : Acceptable(o[i])) /\ \A name : NestsIn(o, m, name)
    BY <1>5, <1>6, WrappedNests
  <1>8. Nests(w, {})
    <2>1. Carries(w, {}, Restyled(Coverage(text), r), Len(Coverage(text)))
      BY <1>1, RewrittenCarries
    <2> QED
      BY <2>1 DEF Carries
  <1>9. ASSUME NEW i \in 1..n PROVE Acceptable(w[i])
    <2>1. CASE StyleTag(w[i])
      BY <1>4, <1>8, <2>1 DEF Nests, StyleTag, Acceptable, Refused
    <2>2. CASE ~StyleTag(w[i])
      <3>1. \E k \in 1..Len(OtherTokens(w)) : OtherTokens(w)[k] = w[i]
        BY <1>4, <2>2, OtherThere
      <3>2. PICK k \in 1..m : o[k] = w[i]
        BY <1>3, <1>5, <3>1
      <3>3. Acceptable(o[k])
        BY <1>7
      <3> QED
        BY <3>2, <3>3
    <2> QED
      BY <2>1, <2>2
  <1>10. ASSUME NEW name PROVE NestsIn(w, n, name)
    <2>1. CASE name \in StyleNames
      <3>1. \A i \in 0..n : Depth(w, name, i) >= 0
        BY <1>4, <1>8, <2>1 DEF Nests
      <3>2. Depth(w, name, n) = 0
        BY <1>4, <1>8, <2>1 DEF Nests
      <3>3. RootDepth(name) \in Nat
        BY DEF RootDepth
      <3>4. \A i \in 0..n : Depth(w, name, i) \in Int
        BY DepthFacts
      <3>5. ASSUME NEW i \in 0..n PROVE Depth(w, name, i) + RootDepth(name) >= 0
        BY <3>1, <3>3, <3>4
      <3> QED
        BY <3>2, <3>5 DEF NestsIn
    <2>2. CASE name \notin StyleNames
      <3>1. NestsIn(OtherTokens(w), m, name) /\ m = Len(OtherTokens(w))
        BY <1>3, <1>5, <1>7, Zenon
      <3> QED
        BY <1>4, <2>2, <3>1, OtherNests
    <2> QED
      BY <2>1, <2>2
  <1>11. CanParseFragment(w)
    BY <1>4, <1>9, <1>10, WrappedParses
  <1> QED
    BY <1>1, <1>11, Zenon

(* Whatever style tags a text has, balanced or not: if the rest of it      *)
(* parses, so does every text ApplyLogicalStyleRange makes of it.          *)
THEOREM StyleTagsAlwaysBalance == SpecSource => []StyleTagsBalance
  <1>1. SourceTyped => StyleTagsBalance
    BY RewrittenParses DEF SourceTyped, StyleTagsBalance
  <1> QED
    BY <1>1, SourceIsText, PTL

-----------------------------------------------------------------------------
(* Logical offsets.  The units of the first i tokens of a text.            *)
UnitsUpTo(text, i) == Len(ReadUpTo(text)[i].coverage)

CountsUnits(text, units, n) ==
  /\ units[0] = 0
  /\ \A i \in 0..n : units[i] \in Nat
  /\ \A i \in 1..n :
       units[i] = units[i - 1] +
                    (IF i \in UnitStarts(text) /\ Visible(text[i]) THEN 1 ELSE 0)

LEMMA StyleTagsAreNoUnits ==
  ASSUME NEW token, StyleTag(token)
  PROVE  ~Visible(token)
  <1>1. token.k \in {"open", "close"} /\ token.n \in StyleNames
    BY DEF StyleTag
  <1>2. token.n \notin BreakNames
    BY <1>1, NamesAssumption
  <1> QED
    BY <1>1, <1>2 DEF Visible, IsTag, TagKinds, BreakTag

LEMMA UnitsFacts ==
  ASSUME NEW A, NEW text \in Seq(A), NEW n \in Nat, n = Len(text)
  PROVE  /\ CountsUnits(text, [i \in 0..n |-> UnitsUpTo(text, i)], n)
         /\ UnitsUpTo(text, n) = LogicalLength(text)
  <1>1. PICK read : read = ReadUpTo(text)
    OBVIOUS
  <1>2. Reads(text, read, n)
    BY <1>1, ReadUpToFacts
  <1>3. PICK units : units = [i \in 0..n |-> UnitsUpTo(text, i)]
    OBVIOUS
  <1>4. units[0] = 0
    <2>1. read[0] = Unread
      BY <1>2 DEF Reads
    <2>2. read[0].coverage = <<>>
      BY <2>1 DEF Unread
    <2>3. 0 \in 0..n
      OBVIOUS
    <2>4. units[0] = Len(read[0].coverage)
      BY <1>1, <1>3, <2>3, Zenon DEF UnitsUpTo
    <2> QED
      BY <2>2, <2>4
  <1>5. ASSUME NEW i \in 0..n PROVE units[i] \in Nat
    <2>1. read[i] \in States
      BY <1>2 DEF Reads
    <2>2. Len(read[i].coverage) \in Nat
      BY <2>1 DEF States
    <2> QED
      BY <1>1, <1>3, <2>2 DEF UnitsUpTo
  <1>6. ASSUME NEW i \in 1..n
        PROVE  units[i] = units[i - 1] +
                 (IF i \in UnitStarts(text) /\ Visible(text[i]) THEN 1 ELSE 0)
    <2>1. i \in 0..n /\ i - 1 \in 0..n
      OBVIOUS
    <2>2. Len(read[i].coverage) = Len(read[i - 1].coverage) +
            (IF /\ i \in UnitStarts(text) /\ ~StyleTag(text[i])
                /\ Visible(text[i]) THEN 1 ELSE 0)
      BY <1>1, CoverageGrows
    <2>3. StyleTag(text[i]) => ~Visible(text[i])
      BY StyleTagsAreNoUnits
    <2>4. units[i] = Len(read[i].coverage) /\ units[i - 1] = Len(read[i - 1].coverage)
      BY <1>1, <1>3, <2>1 DEF UnitsUpTo
    <2> QED
      BY <2>2, <2>3, <2>4
  <1>7. UnitsUpTo(text, n) = LogicalLength(text)
    BY Zenon DEF UnitsUpTo, LogicalLength, Coverage
  <1> QED
    BY <1>3, <1>4, <1>5, <1>6, <1>7 DEF CountsUnits

(* The unit in front of which there are as many as asked for.              *)
LEMMA UnitExists ==
  ASSUME NEW text, NEW units, NEW n \in Nat, CountsUnits(text, units, n),
         NEW o \in Nat, o < units[n]
  PROVE  \E i \in 1..n : /\ i \in UnitStarts(text) /\ Visible(text[i])
                         /\ units[i - 1] = o
  <1>1. PICK S : S = {i \in 0..n : units[i] > o}
    OBVIOUS
  <1>2. S \in SUBSET Nat /\ S # {}
    <2>1. n \in 0..n
      OBVIOUS
    <2> QED
      BY <1>1, <2>1
  <1>3. PICK m \in S : \A k \in S : m <= k
    BY <1>2, LeastNat
  <1>4. m \in 0..n /\ units[m] > o
    BY <1>1, <1>3
  <1>5. m # 0
    BY <1>4 DEF CountsUnits
  <1>6. m \in 1..n /\ m - 1 \in 0..n
    BY <1>4, <1>5
  <1>7. m - 1 \notin S
    BY <1>3, <1>6
  <1>8. units[m - 1] <= o /\ units[m - 1] \in Nat
    <2>1. units[m - 1] \in Nat
      BY <1>6 DEF CountsUnits
    <2>2. ~(units[m - 1] > o)
      BY <1>1, <1>6, <1>7
    <2> QED
      BY <2>1, <2>2
  <1>9. units[m] = units[m - 1] +
          (IF m \in UnitStarts(text) /\ Visible(text[m]) THEN 1 ELSE 0)
    BY <1>6 DEF CountsUnits
  <1>10. CASE m \in UnitStarts(text) /\ Visible(text[m])
    <2>1. units[m] = units[m - 1] + 1
      BY <1>9, <1>10
    <2>2. units[m - 1] = o
      BY <1>4, <1>8, <2>1
    <2> QED
      BY <1>6, <1>10, <2>2
  <1>11. CASE ~(m \in UnitStarts(text) /\ Visible(text[m]))
    <2>1. units[m] = units[m - 1] + 0
      BY <1>9, <1>11
    <2> QED
      BY <1>4, <1>8, <2>1
  <1> QED
    BY <1>10, <1>11

(* SourceBoundary counts the visible units by their set.                   *)
UnitsBefore(text, i) == {j \in UnitStarts(text) : j < i /\ Visible(text[j])}

LEMMA UnitsBeforeCount ==
  ASSUME NEW A, NEW text \in Seq(A), NEW n \in Nat, n = Len(text),
         NEW units, CountsUnits(text, units, n), NEW i \in 1..n
  PROVE  Cardinality(UnitsBefore(text, i)) = units[i - 1]
  <1> DEFINE U(k) == {j \in UnitStarts(text) : j < k + 1 /\ Visible(text[j])}
  <1>1. UnitStarts(text) \subseteq 1..n
    BY DEF UnitStarts
  <1>2. PICK S : S = {k \in 0..n : IsFiniteSet(U(k)) /\ Cardinality(U(k)) = units[k]}
    OBVIOUS
  <1>3. 0 \in S
    <2>1. U(0) = {}
      BY <1>1
    <2>2. units[0] = 0 /\ 0 \in 0..n
      BY DEF CountsUnits
    <2>3. IsFiniteSet({}) /\ Cardinality({}) = 0
      BY FS_EmptySet
    <2> HIDE DEF U
    <2> QED
      BY <1>2, <2>1, <2>2, <2>3, Zenon
  <1>4. ASSUME NEW k \in 1..n, k - 1 \in S PROVE k \in S
    <2>1. PICK j \in Nat : j = k - 1
      OBVIOUS
    <2>2. j + 1 = k /\ k \in 0..n /\ j \in 0..n
      BY <2>1
    <2>3. IsFiniteSet(U(j)) /\ Cardinality(U(j)) = units[j]
      BY <1>2, <1>4, <2>1
    <2>4. units[k] = units[j] +
            (IF k \in UnitStarts(text) /\ Visible(text[k]) THEN 1 ELSE 0)
      BY <2>1 DEF CountsUnits
    <2>5. units[j] \in Nat /\ units[k] \in Nat
      BY <2>2 DEF CountsUnits
    <2>6. CASE k \in UnitStarts(text) /\ Visible(text[k])
      <3>1. U(k) = U(j) \cup {k}
        BY <1>1, <2>2, <2>6
      <3>2. k \notin U(j)
        BY <2>2
      <3> HIDE DEF U
      <3>3. IsFiniteSet(U(k)) /\ Cardinality(U(k)) = Cardinality(U(j)) + 1
        BY <2>3, <3>1, <3>2, FS_AddElement
      <3>4. Cardinality(U(k)) = units[k]
        BY <2>3, <2>4, <2>6, <3>3
      <3> QED
        BY <1>2, <2>2, <3>3, <3>4
    <2>7. CASE ~(k \in UnitStarts(text) /\ Visible(text[k]))
      <3>1. U(k) = U(j)
        BY <1>1, <2>2, <2>7
      <3> HIDE DEF U
      <3>2. units[k] = units[j]
        BY <2>4, <2>5, <2>7
      <3> QED
        BY <1>2, <2>2, <2>3, <3>1, <3>2
    <2> QED
      BY <2>6, <2>7
  <1>5. 0..n \subseteq S
    BY <1>3, <1>4, CountUp
  <1>6. i - 1 \in S /\ (i - 1) + 1 = i
    BY <1>5
  <1>7. Cardinality(U(i - 1)) = units[i - 1]
    BY <1>2, <1>6
  <1>8. U(i - 1) = UnitsBefore(text, i)
    BY <1>6 DEF UnitsBefore
  <1> HIDE DEF U
  <1> QED
    BY <1>7, <1>8

(* A boundary that cuts no entity is behind the unit that ends there, and  *)
(* no unit in front of it ends behind it.                                  *)
LEMMA EndsAscend ==
  ASSUME NEW A, NEW text \in Seq(A), NEW n \in Nat, n = Len(text), NEW b \in 0..n,
         NEW i \in 0..b
  PROVE  UnitEnds(text)[i] <= UnitEnds(text)[b]
  <1>1. PICK ends : ends = UnitEnds(text)
    OBVIOUS
  <1>2. \A k \in 0..n : ends[k] \in Nat
    <2>1. \A k \in 0..n : ends[k] \in k..n
      BY <1>1, UnitEndsFacts DEF EndsOf
    <2>2. \A k \in 0..n : \A j \in k..n : j \in Nat
      OBVIOUS
    <2> QED
      BY <2>1, <2>2
  <1>3. \A k \in 1..n : ends[k - 1] <= ends[k]
    <2> SUFFICES ASSUME NEW k \in 1..n PROVE ends[k - 1] <= ends[k]
      OBVIOUS
    <2>1. /\ ends[k] = IF k <= ends[k - 1] THEN ends[k - 1] ELSE k + Width(text, k) - 1
          /\ ends[k] \in k..n
      BY <1>1, UnitEndsFacts DEF EndsOf
    <2>2. k - 1 \in 0..n /\ ends[k - 1] \in Nat
      BY <1>2
    <2>3. CASE k <= ends[k - 1]
      BY <2>1, <2>2, <2>3
    <2>4. CASE ~(k <= ends[k - 1])
      <3>1. ends[k] >= k /\ ends[k - 1] < k
        BY <2>1, <2>2, <2>4
      <3> QED
        BY <2>1, <2>2, <3>1
    <2> QED
      BY <2>3, <2>4
  <1>4. PICK m \in Nat : m = b - i /\ i + m = b
    <2>1. b - i \in Nat /\ i + (b - i) = b
      OBVIOUS
    <2> QED
      BY <2>1
  <1>5. PICK S : S = {k \in 0..m : ends[i] <= ends[i + k]}
    OBVIOUS
  <1>6. 0 \in S
    <2>1. i + 0 = i /\ ends[i] <= ends[i]
      BY <1>2
    <2> QED
      BY <1>5, <2>1
  <1>7. ASSUME NEW k \in 1..m, k - 1 \in S PROVE k \in S
    <2>1. PICK j \in Nat : j = k - 1
      OBVIOUS
    <2>2. ends[i] <= ends[i + j]
      BY <1>5, <1>7, <2>1
    <2>3. PICK p \in Nat : p = i + k
      OBVIOUS
    <2>4. p \in 1..n /\ p - 1 = i + j /\ p \in 0..n /\ p - 1 \in 0..n /\ i \in 0..n
      BY <1>4, <2>1, <2>3
    <2>5. ends[p - 1] <= ends[p]
      BY <1>3, <2>4
    <2>6. ends[i] \in Nat /\ ends[p - 1] \in Nat /\ ends[p] \in Nat
      BY <1>2, <2>4
    <2>7. ends[i] <= ends[p]
      BY <2>2, <2>4, <2>5, <2>6
    <2> QED
      BY <1>5, <2>3, <2>7
  <1>8. 0..m \subseteq S
    BY <1>6, <1>7, CountUp
  <1> QED
    BY <1>1, <1>4, <1>5, <1>8

Counts == [end : Nat, units : Nat]

(* One round of the loop of LogicalOffsetForSourceBoundary.                *)
Counted(text, boundary, before, i) ==
  IF i <= before.end THEN before
  ELSE [end   |-> IF i + Width(text, i) - 1 <= boundary THEN i + Width(text, i) - 1 ELSE i,
        units |-> before.units + (IF Visible(text[i]) THEN 1 ELSE 0)]

CountsTo(text, boundary, count) ==
  /\ count[0] = [end |-> 0, units |-> 0]
  /\ \A i \in 1..boundary : count[i] = Counted(text, boundary, count[i - 1], i)

LEMMA CountedType ==
  ASSUME NEW A, NEW text \in Seq(A), NEW boundary \in Nat, boundary <= Len(text),
         NEW before \in Counts, NEW i \in 1..boundary
  PROVE  Counted(text, boundary, before, i) \in Counts
  <1>1. i \in 1..Len(text) /\ i \in Nat
    OBVIOUS
  <1>2. PICK last \in i..Len(text) : last = i + Width(text, i) - 1
    BY <1>1, WidthFacts
  <1>3. PICK e : e = IF last <= boundary THEN last ELSE i
    OBVIOUS
  <1>4. e \in Nat
    BY <1>1, <1>2, <1>3
  <1>5. before.end \in Nat /\ before.units \in Nat
    BY DEF Counts
  <1>6. PICK u : u = before.units + (IF Visible(text[i]) THEN 1 ELSE 0)
    OBVIOUS
  <1>7. u \in Nat
    BY <1>5, <1>6
  <1>8. Counted(text, boundary, before, i) = before \/
        Counted(text, boundary, before, i) = [end |-> e, units |-> u]
    BY <1>2, <1>3, <1>6 DEF Counted
  <1>9. [end |-> e, units |-> u] \in Counts
    BY <1>4, <1>7 DEF Counts
  <1> QED
    BY <1>8, <1>9

LEMMA LogicalOffsetFacts ==
  ASSUME NEW A, NEW text \in Seq(A), NEW boundary \in Nat, boundary <= Len(text)
  PROVE  \E count : /\ CountsTo(text, boundary, count)
                    /\ LogicalOffset(text, boundary) = count[boundary].units
  <1> DEFINE Round(before, i) ==
               LET last == i + Width(text, i) - 1
               IN  IF i <= before.end THEN before
                   ELSE [end   |-> IF last <= boundary THEN last ELSE i,
                         units |-> before.units + (IF Visible(text[i]) THEN 1 ELSE 0)]
             IsCount(f) ==
               f = [i \in 0..boundary |->
                      IF i = 0 THEN [end |-> 0, units |-> 0]
                      ELSE LET before == f[i - 1]
                               last   == i + Width(text, i) - 1
                           IN  IF i <= before.end THEN before
                               ELSE [end   |-> IF last <= boundary THEN last ELSE i,
                                     units |-> before.units
                                                 + (IF Visible(text[i]) THEN 1 ELSE 0)]]
  <1>1. PICK none : none = [end |-> 0, units |-> 0]
    OBVIOUS
  <1>2. none \in Counts
    BY <1>1 DEF Counts
  <1>3. PICK step : step = [i \in 1..boundary |-> [r \in Counts |-> Counted(text, boundary, r, i)]]
    OBVIOUS
  <1>4. step \in [1..boundary -> [Counts -> Counts]]
    <2>1. \A i \in 1..boundary : \A r \in Counts : Counted(text, boundary, r, i) \in Counts
      BY CountedType
    <2> QED
      BY <1>3, <2>1
  <1>5. PICK f : Rounds(f, Counts, none, step, boundary)
    BY <1>2, <1>4, RoundsExist
  <1>6. /\ f \in [0..boundary -> Counts] /\ f[0] = none
        /\ \A i \in 1..boundary : f[i] = Counted(text, boundary, f[i - 1], i)
    <2>1. /\ f \in [0..boundary -> Counts] /\ f[0] = none
          /\ \A i \in 1..boundary : f[i] = step[i][f[i - 1]]
      BY <1>5 DEF Rounds
    <2>2. \A i \in 1..boundary : i - 1 \in 0..boundary /\ f[i - 1] \in Counts
      BY <2>1
    <2> QED
      BY <1>3, <2>1, <2>2
  <1>7. IsCount(f)
    <2>1. f = [i \in 0..boundary |-> f[i]]
      BY <1>6
    <2>2. \A i \in 0..boundary : i = 0 \/ i \in 1..boundary
      OBVIOUS
    <2>3. \A i \in 1..boundary : f[i] = Round(f[i - 1], i) /\ i # 0
      BY <1>6 DEF Counted
    <2>4. \A i \in 0..boundary : f[i] = IF i = 0 THEN none ELSE Round(f[i - 1], i)
      <3> HIDE DEF Round
      <3> QED
        BY <1>6, <2>2, <2>3
    <2> QED
      BY <1>1, <2>1, <2>4, Zenon
  <1>8. PICK g : g = CHOOSE h : IsCount(h)
    OBVIOUS
  <1>9. IsCount(g)
    <2> HIDE DEF IsCount
    <2> QED
      BY <1>7, <1>8
  <1>10. LogicalOffset(text, boundary) = g[boundary].units
    BY <1>8, Zenon DEF LogicalOffset
  <1>11. CountsTo(text, boundary, g)
    <2>1. 0 \in 0..boundary /\ \A i \in 1..boundary : i \in 0..boundary /\ i # 0
      OBVIOUS
    <2>2. g[0] = [end |-> 0, units |-> 0]
      BY <1>9, <2>1
    <2>3. ASSUME NEW i \in 1..boundary
          PROVE  g[i] = Counted(text, boundary, g[i - 1], i)
      <3>1. g[i] = Round(g[i - 1], i)
        BY <1>9, <2>1
      <3> QED
        BY <3>1, Zenon DEF Counted
    <2> QED
      BY <2>2, <2>3 DEF CountsTo
  <1> QED
    BY <1>10, <1>11

(* Up to a boundary that cuts no entity the two loops see the same units.  *)
LEMMA WholeUnits ==
  ASSUME NEW A, NEW text \in Seq(A), NEW n \in Nat, n = Len(text),
         NEW units, CountsUnits(text, units, n),
         NEW boundary \in Nat, boundary <= n, UnitEnds(text)[boundary] = boundary
  PROVE  LogicalOffset(text, boundary) = units[boundary]
  <1>1. PICK ends : ends = UnitEnds(text)
    OBVIOUS
  <1>2. PICK count : /\ CountsTo(text, boundary, count)
                     /\ LogicalOffset(text, boundary) = count[boundary].units
    BY LogicalOffsetFacts
  <1>3. PICK S : S = {i \in 0..boundary : count[i].end = ends[i] /\ count[i].units = units[i]}
    OBVIOUS
  <1>4. 0 \in S
    <2>1. ends[0] = 0
      BY <1>1, UnitEndsFacts DEF EndsOf
    <2>2. count[0].end = 0 /\ count[0].units = 0
      BY <1>2 DEF CountsTo
    <2>3. units[0] = 0 /\ 0 \in 0..boundary
      BY DEF CountsUnits
    <2>4. count[0].end = ends[0] /\ count[0].units = units[0]
      BY <2>1, <2>2, <2>3
    <2> QED
      BY <1>3, <2>3, <2>4, Zenon
  <1>5. ASSUME NEW i \in 1..boundary, i - 1 \in S PROVE i \in S
    <2>1. i \in 1..n /\ i \in 0..boundary /\ boundary \in 0..n /\ i \in Nat
      OBVIOUS
    <2>2. PICK before : before = count[i - 1]
      OBVIOUS
    <2>3. before.end = ends[i - 1] /\ before.units = units[i - 1]
      BY <1>3, <1>5, <2>2
    <2>4. count[i] = Counted(text, boundary, before, i)
      BY <1>2, <2>2 DEF CountsTo
    <2>5. ends[i] \in Nat /\ ends[i - 1] \in Nat
      BY <1>1, <2>1, UnitStartsFacts
    <2>6. i \in UnitStarts(text) <=> ends[i - 1] < i
      BY <1>1, <2>1 DEF UnitStarts
    <2>7. units[i] = units[i - 1] +
            (IF i \in UnitStarts(text) /\ Visible(text[i]) THEN 1 ELSE 0)
      BY <2>1 DEF CountsUnits
    <2>8. units[i - 1] \in Nat
      <3>1. i - 1 \in 0..n
        BY <2>1
      <3> QED
        BY <3>1 DEF CountsUnits
    <2>9. CASE i <= ends[i - 1]
      <3>1. i \notin UnitStarts(text)
        BY <2>5, <2>6, <2>9
      <3>2. ends[i] = ends[i - 1]
        BY <1>1, <2>1, <3>1, UnitStartsFacts
      <3>3. units[i] = units[i - 1]
        BY <2>7, <2>8, <3>1
      <3>4. count[i] = before
        BY <2>3, <2>4, <2>9 DEF Counted
      <3> QED
        BY <1>3, <2>1, <2>3, <3>2, <3>3, <3>4
    <2>10. CASE ~(i <= ends[i - 1])
      <3>1. i \in UnitStarts(text)
        BY <2>1, <2>5, <2>6, <2>10
      <3>2. ends[i] = i + Width(text, i) - 1
        BY <1>1, <2>1, <3>1, UnitStartsFacts
      <3>3. ends[i] <= boundary
        <4>1. ends[i] <= ends[boundary]
          BY <1>1, <2>1, EndsAscend
        <4> QED
          BY <1>1, <4>1
      <3>4. count[i] = [end   |-> i + Width(text, i) - 1,
                        units |-> before.units + (IF Visible(text[i]) THEN 1 ELSE 0)]
        <4>1. i + Width(text, i) - 1 <= boundary
          BY <3>2, <3>3
        <4>2. ~(i <= before.end)
          BY <2>3, <2>10
        <4> QED
          BY <2>4, <4>1, <4>2, Zenon DEF Counted
      <3>5. count[i].end = i + Width(text, i) - 1
        BY <3>4
      <3>6. count[i].units = before.units + (IF Visible(text[i]) THEN 1 ELSE 0)
        BY <3>4
      <3>7. count[i].units = units[i]
        BY <2>3, <2>7, <3>1, <3>6
      <3> QED
        BY <1>3, <2>1, <3>2, <3>5, <3>7
    <2> QED
      BY <2>9, <2>10
  <1>6. 0..boundary \subseteq S
    BY <1>4, <1>5, CountUp
  <1>7. boundary \in S
    BY <1>6
  <1> QED
    BY <1>2, <1>3, <1>7

LEMMA RoundTrip ==
  ASSUME NEW A, NEW text \in Seq(A), NEW o \in 0..LogicalLength(text)
  PROVE  LogicalOffset(text, SourceBoundary(text, o)) = o
  <1>1. PICK n \in Nat : n = Len(text)
    OBVIOUS
  <1>2. PICK units : units = [i \in 0..n |-> UnitsUpTo(text, i)]
    OBVIOUS
  <1>3. CountsUnits(text, units, n)
    BY <1>1, <1>2, UnitsFacts
  <1>4. units[n] = LogicalLength(text) /\ units[n] \in Nat
    <2>1. n \in 0..n
      OBVIOUS
    <2>2. units[n] = UnitsUpTo(text, n)
      BY <1>2, <2>1
    <2>3. UnitsUpTo(text, n) = LogicalLength(text)
      BY <1>1, UnitsFacts
    <2>4. units[n] \in Nat
      BY <1>3, <2>1 DEF CountsUnits
    <2> QED
      BY <2>2, <2>3, <2>4
  <1>5. o \in Nat /\ o <= units[n] /\ ~(o < 0)
    BY <1>4
  <1>6. PICK there : there = {i \in UnitStarts(text) :
                                /\ ~StyleTag(text[i])
                                /\ Cardinality(UnitsBefore(text, i)) = o}
    OBVIOUS
  <1>7. SourceBoundary(text, o) = IF there = {} THEN n ELSE Sets!Min(there) - 1
    <2>1. (IF o < 0 THEN 0 ELSE o) = o
      BY <1>5
    <2>2. there = {i \in UnitStarts(text) :
                     /\ ~StyleTag(text[i])
                     /\ Cardinality({j \in UnitStarts(text) : j < i /\ Visible(text[j])})
                          = IF o < 0 THEN 0 ELSE o}
      BY <1>6, <2>1, Zenon DEF UnitsBefore
    <2> QED
      BY <1>1, <2>2, Zenon DEF SourceBoundary
  <1>8. UnitStarts(text) \subseteq 1..n
    BY <1>1 DEF UnitStarts
  <1>9. CASE there = {}
    <2>1. SourceBoundary(text, o) = n
      BY <1>7, <1>9
    <2>2. o = units[n]
      <3> SUFFICES ASSUME o < units[n] PROVE FALSE
        BY <1>4, <1>5
      <3>1. PICK i \in 1..n : /\ i \in UnitStarts(text) /\ Visible(text[i])
                              /\ units[i - 1] = o
        BY <1>3, <1>5, UnitExists
      <3>2. ~StyleTag(text[i])
        BY <3>1, StyleTagsAreNoUnits
      <3>3. Cardinality(UnitsBefore(text, i)) = o
        BY <1>1, <1>3, <3>1, UnitsBeforeCount
      <3> QED
        BY <1>6, <1>9, <3>1, <3>2, <3>3
    <2>3. UnitEnds(text)[n] = n
      <3>1. n \in 0..n /\ UnitEnds(text)[n] \in n..n
        BY <1>1, UnitEndsFacts DEF EndsOf
      <3> QED
        BY <3>1
    <2>4. LogicalOffset(text, n) = units[n]
      BY <1>1, <1>3, <2>3, WholeUnits
    <2> QED
      BY <2>1, <2>2, <2>4
  <1>10. CASE there # {}
    <2>1. there \in SUBSET Nat
      BY <1>6, <1>8
    <2>2. PICK i \in there : \A k \in there : i <= k
      BY <1>10, <2>1, LeastNat
    <2>3. Sets!Min(there) = i
      <3>1. \A k \in there : i <= k /\ k \in Nat
        BY <2>1, <2>2
      <3>2. ASSUME NEW j \in there, \A k \in there : j <= k PROVE j = i
        BY <3>1, <3>2, <2>2
      <3> QED
        BY <2>2, <3>2 DEF Sets!Min
    <2>4. i \in 1..n /\ i \in UnitStarts(text) /\ Cardinality(UnitsBefore(text, i)) = o
      BY <1>6, <1>8
    <2>5. PICK b \in Nat : b = i - 1
      BY <2>4
    <2>6. units[b] = o
      BY <1>1, <1>3, <2>4, <2>5, UnitsBeforeCount
    <2>7. b <= n
      BY <2>4, <2>5
    <2>8. UnitEnds(text)[b] = b
      BY <1>1, <2>4, <2>5, UnitStartsFacts
    <2>9. LogicalOffset(text, b) = units[b]
      BY <1>1, <1>3, <2>7, <2>8, WholeUnits
    <2>10. SourceBoundary(text, o) = b
      BY <1>7, <1>10, <2>3, <2>5
    <2> QED
      BY <2>6, <2>9, <2>10
  <1> QED
    BY <1>9, <1>10

(* A logical offset that SourceBoundaryForLogicalOffset turns into a       *)
(* source boundary is found again by LogicalOffsetForSourceBoundary, in    *)
(* any text, clean or not.                                                 *)
THEOREM OffsetsAlwaysRoundTrip == SpecSource => []OffsetsRoundTrip
  <1>1. SourceTyped => OffsetsRoundTrip
    BY RoundTrip DEF SourceTyped, OffsetsRoundTrip
  <1> QED
    BY <1>1, SourceIsText, PTL
=============================================================================
