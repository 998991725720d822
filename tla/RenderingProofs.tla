-------------------------- MODULE RenderingProofs ---------------------------
(***************************************************************************)
(* The theorem about the HTML that GetHTML renders, for every text: it has *)
(* the tags of the text, well nested, and all of their text, or there is   *)
(* an error.                                                               *)
(*                                                                         *)
(* A node's HTML is its tags around what its children come to, with the    *)
(* text between them (Partial); the children come after their parent, so   *)
(* the HTML of all nodes is good from the last one backwards (RenderGood), *)
(* and that of the roots is the HTML of the text (RootsShowTree).  That    *)
(* the ranges of the tree are those of a text's tags (TagsMark) is what    *)
(* ReadingProofs shows of the scanner and the tree.                        *)
(***************************************************************************)
EXTENDS ReadingProofs

-----------------------------------------------------------------------------
(* The HTML.  Pieces of it are put together.                               *)
Piece == [k : {"open", "close", "text"}, at : Nat]

(* w is u, of n pieces, followed by v, of m pieces.                        *)
Joins(w, u, n, v, m) ==
  /\ w \in Seq(Piece) /\ u \in Seq(Piece) /\ v \in Seq(Piece)
  /\ n \in Nat /\ m \in Nat
  /\ DOMAIN w = 1..(n + m) /\ DOMAIN u = 1..n /\ DOMAIN v = 1..m
  /\ \A p \in 1..n : w[p] = u[p]
  /\ \A p \in 1..m : w[n + p] = v[p]

LEMMA JoinFacts ==
  ASSUME NEW u \in Seq(Piece), NEW v \in Seq(Piece)
  PROVE  Joins(u \o v, u, Len(u), v, Len(v))
  <1>1. PICK n, m, w :
          /\ n = Len(u) /\ m = Len(v) /\ DOMAIN u = 1..n /\ DOMAIN v = 1..m
          /\ n \in Nat /\ m \in Nat /\ w = u \o v
    <2>1. Len(u) \in Nat /\ Len(v) \in Nat /\ DOMAIN u = 1..Len(u) /\ DOMAIN v = 1..Len(v)
      OBVIOUS
    <2> QED
      BY <2>1
  <1>2. w \in Seq(Piece) /\ Len(w) = n + m
    BY <1>1
  <1>3. \A p \in 1..(n + m) : w[p] = IF p <= n THEN u[p] ELSE v[p - n]
    BY <1>1
  <1>4. ASSUME NEW p \in 1..n PROVE w[p] = u[p]
    <2>1. p \in 1..(n + m) /\ p <= n
      BY <1>1
    <2> QED
      BY <1>3, <2>1
  <1>5. ASSUME NEW p \in 1..m PROVE w[n + p] = v[p]
    <2>1. n + p \in 1..(n + m) /\ ~(n + p <= n) /\ (n + p) - n = p
      BY <1>1
    <2> QED
      BY <1>3, <2>1
  <1>6. DOMAIN w = 1..(n + m)
    BY <1>2
  <1> QED
    BY <1>1, <1>2, <1>4, <1>5, <1>6 DEF Joins

(* Every place in the two is in the first or in the second.                *)
LEMMA JoinSplits ==
  ASSUME NEW w, NEW u, NEW n, NEW v, NEW m, Joins(w, u, n, v, m), NEW p \in DOMAIN w
  PROVE  p \in DOMAIN u \/ \E q \in DOMAIN v : p = n + q
  <1>1. n \in Nat /\ m \in Nat /\ p \in 1..(n + m) /\ DOMAIN u = 1..n /\ DOMAIN v = 1..m
    BY DEF Joins
  <1>2. p \in 1..n \/ (p - n \in 1..m /\ p = n + (p - n))
    BY <1>1
  <1> QED
    BY <1>1, <1>2

(* Where a piece of one of two sequences is in both.                       *)
LEMMA JoinPlaces ==
  ASSUME NEW w, NEW u, NEW n, NEW v, NEW m, Joins(w, u, n, v, m), NEW piece
  PROVE  /\ \A p \in DOMAIN u : p \in Places(w, piece) <=> p \in Places(u, piece)
         /\ \A q \in DOMAIN v : n + q \in Places(w, piece) <=> q \in Places(v, piece)
         /\ \A p \in Places(w, piece) :
              p \in Places(u, piece) \/ \E q \in Places(v, piece) : p = n + q
         /\ \A p \in DOMAIN u : p \in Nat /\ p <= n
         /\ \A q \in DOMAIN v : q \in Nat /\ n < n + q
  <1>1. /\ n \in Nat /\ m \in Nat /\ DOMAIN w = 1..(n + m) /\ DOMAIN u = 1..n /\ DOMAIN v = 1..m
        /\ \A p \in 1..n : w[p] = u[p]
        /\ \A p \in 1..m : w[n + p] = v[p]
    BY DEF Joins
  <1>2. \A p \in 1..n : p \in 1..(n + m) /\ p \in Nat /\ p <= n
    BY <1>1
  <1>3. \A q \in 1..m : n + q \in 1..(n + m) /\ q \in Nat /\ n < n + q
    BY <1>1
  <1>4. \A p \in DOMAIN u : p \in Places(w, piece) <=> p \in Places(u, piece)
    BY <1>1, <1>2 DEF Places
  <1>5. \A q \in DOMAIN v : n + q \in Places(w, piece) <=> q \in Places(v, piece)
    BY <1>1, <1>3 DEF Places
  <1>6. ASSUME NEW p \in Places(w, piece)
        PROVE  p \in Places(u, piece) \/ \E q \in Places(v, piece) : p = n + q
    <2>1. p \in DOMAIN w
      BY DEF Places
    <2> QED
      BY <1>4, <1>5, <2>1, JoinSplits
  <1> QED
    BY <1>1, <1>2, <1>3, <1>4, <1>5, <1>6

(* The tags of some nodes are no tags of others.                           *)
LEMMA NotAmong ==
  ASSUME NEW w, NEW nodes, NestsTags(w, nodes), NEW i, i \notin nodes
  PROVE  Places(w, OpenPiece(i)) = {} /\ Places(w, ClosePiece(i)) = {}
  <1>1. ASSUME NEW p \in DOMAIN w, w[p] = OpenPiece(i) \/ w[p] = ClosePiece(i)
        PROVE  FALSE
    <2>1. w[p].k # "text" /\ w[p].at = i
      BY <1>1 DEF OpenPiece, ClosePiece
    <2>2. PICK j \in nodes : w[p] \in {OpenPiece(j), ClosePiece(j)}
      BY <2>1 DEF NestsTags
    <2>3. w[p].at = j
      BY <2>2 DEF OpenPiece, ClosePiece
    <2> QED
      BY <2>1, <2>3
  <1> QED
    BY <1>1 DEF Places

(* The HTML of nodes, followed by that of later nodes.                     *)
LEMMA NestJoin ==
  ASSUME NEW u \in Seq(Piece), NEW v \in Seq(Piece),
         NEW a \in Nat, NEW b \in Nat, NEW c \in Nat, a <= b, b <= c,
         NestsTags(u, a..(b - 1)), NestsTags(v, b..(c - 1))
  PROVE  NestsTags(u \o v, a..(c - 1))
  <1>1. PICK w, n, m : w = u \o v /\ n = Len(u) /\ m = Len(v)
    OBVIOUS
  <1>2. Joins(w, u, n, v, m)
    BY <1>1, JoinFacts
  <1> DEFINE U == a..(b - 1)
             V == b..(c - 1)
             Tags(i) == {OpenPiece(i), ClosePiece(i)}
  <1>a. \A x : /\ \A p \in DOMAIN u : p \in Places(w, x) <=> p \in Places(u, x)
               /\ \A q \in DOMAIN v : n + q \in Places(w, x) <=> q \in Places(v, x)
               /\ \A p \in Places(w, x) :
                    p \in Places(u, x) \/ \E q \in Places(v, x) : p = n + q
    BY <1>2, JoinPlaces
  <1>3. /\ n \in Nat
        /\ \A p \in DOMAIN u : p \in Nat /\ p <= n
        /\ \A q \in DOMAIN v : q \in Nat /\ n < n + q
    BY <1>2, JoinPlaces DEF Joins
  <1>4. /\ \A i : i \in a..(c - 1) <=> i \in U \/ i \in V
        /\ \A i \in U : i \notin V
        /\ \A i \in V : i \notin U
        /\ \A i \in U : \A j \in V : i < j /\ ~(j < i)
    OBVIOUS
  <1> HIDE DEF U, V
  <1>5. \A s, x : Places(s, x) \subseteq DOMAIN s
    BY DEF Places
  <1>6. ASSUME NEW i \in U, NEW x \in Tags(i)
        PROVE  Places(v, x) = {} /\ Places(w, x) = Places(u, x)
    <2>1. Places(v, x) = {}
      BY <1>4, NotAmong DEF V
    <2> QED
      BY <1>a, <1>5, <2>1
  <1>7. ASSUME NEW i \in V, NEW x \in Tags(i)
        PROVE  Places(u, x) = {} /\ Places(w, x) = {n + q : q \in Places(v, x)}
    <2>1. Places(u, x) = {}
      BY <1>4, NotAmong DEF U
    <2> QED
      BY <1>a, <1>5, <2>1
  <1>8. NestsTags(u, U) /\ NestsTags(v, V)
    BY DEF U, V
  <1>9. ASSUME NEW p \in DOMAIN w, w[p].k # "text"
        PROVE  /\ \E i \in U \cup V : w[p] \in Tags(i)
               /\ Places(w, w[p]) = {p}
    <2>1. CASE p \in DOMAIN u
      <3>1. w[p] = u[p]
        BY <1>2, <2>1 DEF Joins
      <3>2. PICK i \in U : u[p] \in Tags(i)
        BY <1>8, <1>9, <2>1, <3>1 DEF NestsTags
      <3>3. Places(u, u[p]) = {p}
        BY <1>8, <1>9, <2>1, <3>1 DEF NestsTags
      <3> QED
        BY <1>6, <3>1, <3>2, <3>3
    <2>2. ASSUME NEW q \in DOMAIN v, p = n + q
          PROVE  /\ \E i \in U \cup V : w[p] \in Tags(i)
                 /\ Places(w, w[p]) = {p}
      <3>1. w[p] = v[q]
        BY <1>2, <2>2 DEF Joins
      <3>2. PICK i \in V : v[q] \in Tags(i)
        BY <1>8, <1>9, <3>1 DEF NestsTags
      <3>3. Places(v, v[q]) = {q}
        BY <1>8, <1>9, <3>1 DEF NestsTags
      <3>4. Places(w, v[q]) = {n + r : r \in {q}}
        BY <1>7, <3>2, <3>3
      <3> QED
        BY <2>2, <3>1, <3>2, <3>4
    <2> QED
      BY <1>2, <2>1, <2>2, JoinSplits
  <1>10. ASSUME NEW i \in U \cup V
         PROVE  \E p \in Places(w, OpenPiece(i)), q \in Places(w, ClosePiece(i)) : p < q
    <2>1. CASE i \in U
      BY <1>6, <1>8, <2>1 DEF NestsTags
    <2>2. CASE i \in V
      <3>1. PICK p \in Places(v, OpenPiece(i)), q \in Places(v, ClosePiece(i)) : p < q
        BY <1>8, <2>2 DEF NestsTags
      <3>2. n + p \in Places(w, OpenPiece(i)) /\ n + q \in Places(w, ClosePiece(i))
        BY <1>7, <2>2
      <3>3. p \in Nat /\ q \in Nat /\ n + p < n + q
        BY <1>3, <1>5, <3>1
      <3> QED
        BY <3>2, <3>3
    <2> QED
      BY <2>1, <2>2
  <1>11. ASSUME NEW i \in U \cup V, NEW j \in U \cup V, i < j,
                NEW p \in Places(w, OpenPiece(i)), NEW q \in Places(w, ClosePiece(i)),
                NEW r \in Places(w, OpenPiece(j)), NEW s \in Places(w, ClosePiece(j))
         PROVE  p < r /\ (s < q \/ q < r)
    <2>1. CASE i \in U /\ j \in U
      <3>1. /\ p \in Places(u, OpenPiece(i)) /\ q \in Places(u, ClosePiece(i))
            /\ r \in Places(u, OpenPiece(j)) /\ s \in Places(u, ClosePiece(j))
        BY <1>6, <2>1
      <3> QED
        BY <1>8, <1>11, <2>1, <3>1 DEF NestsTags
    <2>2. CASE i \in V /\ j \in V
      <3>1. PICK p1 \in Places(v, OpenPiece(i)), q1 \in Places(v, ClosePiece(i)),
                 r1 \in Places(v, OpenPiece(j)), s1 \in Places(v, ClosePiece(j)) :
              p = n + p1 /\ q = n + q1 /\ r = n + r1 /\ s = n + s1
        BY <1>7, <2>2
      <3>2. p1 < r1 /\ (s1 < q1 \/ q1 < r1)
        BY <1>8, <1>11, <2>2 DEF NestsTags
      <3>3. p1 \in Nat /\ q1 \in Nat /\ r1 \in Nat /\ s1 \in Nat
        BY <1>3, <1>5
      <3> QED
        BY <1>3, <3>1, <3>2, <3>3
    <2>3. CASE i \in U /\ j \in V
      <3>1. p \in DOMAIN u /\ q \in DOMAIN u
        BY <1>5, <1>6, <2>3
      <3>2. PICK r1 \in DOMAIN v : r = n + r1
        BY <1>5, <1>7, <2>3
      <3>3. p \in Nat /\ p <= n /\ q \in Nat /\ q <= n /\ r1 \in Nat /\ n < r
        BY <1>3, <3>1, <3>2
      <3> QED
        BY <1>3, <3>2, <3>3
    <2>4. ~(i \in V /\ j \in U)
      BY <1>4, <1>11
    <2> QED
      BY <2>1, <2>2, <2>3, <2>4
  <1>12. NestsTags(w, U \cup V)
    BY <1>9, <1>10, <1>11 DEF NestsTags
  <1>13. U \cup V = a..(c - 1)
    BY <1>4
  <1> QED
    BY <1>1, <1>12, <1>13

(* Pieces between the tags of a node.                                      *)
Wraps(x, w, n, i) ==
  /\ n \in Nat /\ DOMAIN w = 1..n /\ DOMAIN x = 1..(n + 2)
  /\ x[1] = OpenPiece(i) /\ x[n + 2] = ClosePiece(i)
  /\ \A p \in 1..n : x[p + 1] = w[p]

LEMMA WrapFacts ==
  ASSUME NEW w \in Seq(Piece), NEW i \in Nat
  PROVE  LET x == (<<OpenPiece(i)>> \o w) \o <<ClosePiece(i)>>
         IN  x \in Seq(Piece) /\ Wraps(x, w, Len(w), i)
  <1>1. PICK o, c, n : o = <<OpenPiece(i)>> /\ c = <<ClosePiece(i)>> /\ n = Len(w)
    OBVIOUS
  <1>2. /\ o \in Seq(Piece) /\ Len(o) = 1 /\ o[1] = OpenPiece(i)
        /\ c \in Seq(Piece) /\ Len(c) = 1 /\ c[1] = ClosePiece(i)
        /\ n \in Nat /\ DOMAIN w = 1..n
    <2>1. OpenPiece(i) \in Piece /\ ClosePiece(i) \in Piece
      BY DEF OpenPiece, ClosePiece, Piece
    <2> QED
      BY <1>1, <2>1
  <1>3. PICK v : v = o \o w
    OBVIOUS
  <1>4. Joins(v, o, 1, w, n)
    BY <1>1, <1>2, <1>3, JoinFacts
  <1>5. v \in Seq(Piece) /\ Len(v) = n + 1
    <2>1. DOMAIN v = 1..(1 + n) /\ v \in Seq(Piece) /\ n \in Nat
      BY <1>4 DEF Joins
    <2> QED
      BY <2>1
  <1>6. PICK x : x = v \o c
    OBVIOUS
  <1>7. Joins(x, v, n + 1, c, 1)
    BY <1>2, <1>5, <1>6, JoinFacts
  <1>8. x[n + 2] = ClosePiece(i)
    <2>1. x[(n + 1) + 1] = c[1] /\ (n + 1) + 1 = n + 2
      BY <1>2, <1>7 DEF Joins
    <2> QED
      BY <1>2, <2>1
  <1>9. x[1] = OpenPiece(i)
    <2>1. 1 \in 1..(n + 1) /\ 1 \in 1..1
      BY <1>2
    <2>2. x[1] = v[1] /\ v[1] = o[1]
      BY <1>4, <1>7, <2>1 DEF Joins
    <2> QED
      BY <1>2, <2>2
  <1>10. ASSUME NEW p \in 1..n PROVE x[p + 1] = w[p]
    <2>1. 1 + p = p + 1 /\ p + 1 \in 1..(n + 1)
      BY <1>2
    <2>2. x[p + 1] = v[p + 1] /\ v[1 + p] = w[p]
      BY <1>4, <1>7, <2>1 DEF Joins
    <2> QED
      BY <2>1, <2>2
  <1>11. DOMAIN x = 1..(n + 2) /\ x \in Seq(Piece)
    <2>1. DOMAIN x = 1..((n + 1) + 1) /\ (n + 1) + 1 = n + 2 /\ x \in Seq(Piece)
      BY <1>2, <1>7 DEF Joins
    <2> QED
      BY <2>1
  <1> QED
    BY <1>1, <1>2, <1>3, <1>6, <1>8, <1>9, <1>10, <1>11 DEF Wraps

LEMMA WrapPlaces ==
  ASSUME NEW x, NEW w, NEW n, NEW i, Wraps(x, w, n, i), NEW piece
  PROVE  /\ 1 \in Places(x, piece) <=> piece = OpenPiece(i)
         /\ n + 2 \in Places(x, piece) <=> piece = ClosePiece(i)
         /\ \A p \in DOMAIN w : p + 1 \in Places(x, piece) <=> p \in Places(w, piece)
         /\ \A p \in DOMAIN x : p = 1 \/ p = n + 2 \/ \E q \in DOMAIN w : p = q + 1
         /\ \A q \in DOMAIN w : q \in Nat /\ 1 < q + 1 /\ q + 1 < n + 2
  <1>1. /\ n \in Nat /\ DOMAIN w = 1..n /\ DOMAIN x = 1..(n + 2)
        /\ x[1] = OpenPiece(i) /\ x[n + 2] = ClosePiece(i)
        /\ \A p \in 1..n : x[p + 1] = w[p]
    BY DEF Wraps
  <1>2. 1 \in DOMAIN x /\ n + 2 \in DOMAIN x
    BY <1>1
  <1>3. \A q \in 1..n : q + 1 \in 1..(n + 2) /\ q \in Nat /\ 1 < q + 1 /\ q + 1 < n + 2
    BY <1>1
  <1>4. ASSUME NEW p \in 1..(n + 2), p # 1, p # n + 2
        PROVE  \E q \in 1..n : p = q + 1
    <2>1. p - 1 \in 1..n /\ p = (p - 1) + 1
      BY <1>1, <1>4
    <2> QED
      BY <2>1
  <1> QED
    BY <1>1, <1>2, <1>3, <1>4 DEF Places

(* A node around the nodes behind it.                                      *)
LEMMA NestWrap ==
  ASSUME NEW w \in Seq(Piece), NEW i \in Nat, NEW l \in Nat, i <= l,
         NestsTags(w, (i + 1)..l)
  PROVE  NestsTags((<<OpenPiece(i)>> \o w) \o <<ClosePiece(i)>>, i..l)
  <1>1. PICK x, n : x = (<<OpenPiece(i)>> \o w) \o <<ClosePiece(i)>> /\ n = Len(w)
    OBVIOUS
  <1>2. Wraps(x, w, n, i) /\ n \in Nat
    BY <1>1, WrapFacts, Zenon DEF Wraps
  <1> DEFINE V == (i + 1)..l
             Tags(j) == {OpenPiece(j), ClosePiece(j)}
  <1>3. \A piece :
          /\ 1 \in Places(x, piece) <=> piece = OpenPiece(i)
          /\ n + 2 \in Places(x, piece) <=> piece = ClosePiece(i)
          /\ \A p \in DOMAIN w : p + 1 \in Places(x, piece) <=> p \in Places(w, piece)
    BY <1>2, WrapPlaces
  <1>4. /\ \A p \in DOMAIN x : p = 1 \/ p = n + 2 \/ \E q \in DOMAIN w : p = q + 1
        /\ \A q \in DOMAIN w : q \in Nat /\ 1 < q + 1 /\ q + 1 < n + 2
    BY <1>2, WrapPlaces
  <1>5. /\ i \notin V /\ \A j \in V : i < j /\ ~(j < i) /\ j # i
        /\ \A j \in i..l : j = i \/ j \in V
    OBVIOUS
  <1>6. i..l = {i} \cup V
    OBVIOUS
  <1> HIDE DEF V
  <1>7. NestsTags(w, V)
    BY DEF V
  <1>8. \A s, piece : Places(s, piece) \subseteq DOMAIN s
    BY DEF Places
  <1>9. \A j : /\ OpenPiece(j).k = "open" /\ ClosePiece(j).k = "close"
               /\ OpenPiece(j).at = j /\ ClosePiece(j).at = j
    BY DEF OpenPiece, ClosePiece
  <1>10. Places(w, OpenPiece(i)) = {} /\ Places(w, ClosePiece(i)) = {}
    BY <1>5, <1>7, NotAmong
  <1>11. Places(x, OpenPiece(i)) = {1} /\ Places(x, ClosePiece(i)) = {n + 2}
    <2>1. OpenPiece(i) # ClosePiece(i)
      <3>1. OpenPiece(i).k # ClosePiece(i).k
        BY <1>9
      <3> QED
        BY <3>1
    <2> QED
      BY <1>3, <1>4, <1>8, <1>10, <2>1
  <1>12. ASSUME NEW j \in V, NEW t \in Tags(j)
         PROVE  Places(x, t) = {q + 1 : q \in Places(w, t)}
    <2>1. t # OpenPiece(i) /\ t # ClosePiece(i)
      <3>1. t.at = j /\ j # i
        BY <1>5, <1>9
      <3> QED
        BY <1>9, <3>1
    <2> QED
      BY <1>3, <1>4, <1>8, <2>1
  <1>13. ASSUME NEW p \in DOMAIN x, x[p].k # "text"
         PROVE  (\E j \in i..l : x[p] \in Tags(j)) /\ Places(x, x[p]) = {p}
    <2>1. CASE p = 1
      BY <1>2, <1>6, <1>11, <2>1 DEF Wraps
    <2>2. CASE p = n + 2
      BY <1>2, <1>6, <1>11, <2>2 DEF Wraps
    <2>3. ASSUME NEW q \in DOMAIN w, p = q + 1
          PROVE  (\E j \in i..l : x[p] \in Tags(j)) /\ Places(x, x[p]) = {p}
      <3>1. x[p] = w[q]
        BY <1>2, <2>3 DEF Wraps
      <3>2. PICK j \in V : w[q] \in Tags(j)
        BY <1>7, <1>13, <3>1 DEF NestsTags
      <3>3. Places(w, w[q]) = {q}
        BY <1>7, <1>13, <3>1 DEF NestsTags
      <3> QED
        BY <1>6, <1>12, <2>3, <3>1, <3>2, <3>3
    <2> QED
      BY <1>4, <2>1, <2>2, <2>3
  <1>14. ASSUME NEW j \in i..l
         PROVE  \E p \in Places(x, OpenPiece(j)), q \in Places(x, ClosePiece(j)) : p < q
    <2>1. CASE j = i
      <3>1. 1 < n + 2
        BY <1>2
      <3> QED
        BY <1>11, <2>1, <3>1
    <2>2. CASE j \in V
      <3>1. PICK p \in Places(w, OpenPiece(j)), q \in Places(w, ClosePiece(j)) : p < q
        BY <1>7, <2>2 DEF NestsTags
      <3>2. p + 1 \in Places(x, OpenPiece(j)) /\ q + 1 \in Places(x, ClosePiece(j))
        BY <1>12, <2>2
      <3>3. p \in Nat /\ q \in Nat /\ p + 1 < q + 1
        BY <1>4, <1>8, <3>1
      <3> QED
        BY <3>2, <3>3
    <2> QED
      BY <1>5, <2>1, <2>2
  <1>15. ASSUME NEW j \in i..l, NEW k \in i..l, j < k,
                NEW p \in Places(x, OpenPiece(j)), NEW q \in Places(x, ClosePiece(j)),
                NEW r \in Places(x, OpenPiece(k)), NEW s \in Places(x, ClosePiece(k))
         PROVE  p < r /\ (s < q \/ q < r)
    <2>1. k \in V
      BY <1>5, <1>15
    <2>2. PICK r1 \in Places(w, OpenPiece(k)), s1 \in Places(w, ClosePiece(k)) :
            r = r1 + 1 /\ s = s1 + 1
      BY <1>12, <2>1
    <2>3. r1 \in DOMAIN w /\ s1 \in DOMAIN w
      BY <1>8
    <2>4. CASE j = i
      <3>1. p = 1 /\ q = n + 2
        BY <1>11, <2>4
      <3> QED
        BY <1>4, <2>2, <2>3, <3>1
    <2>5. CASE j \in V
      <3>1. PICK p1 \in Places(w, OpenPiece(j)), q1 \in Places(w, ClosePiece(j)) :
              p = p1 + 1 /\ q = q1 + 1
        BY <1>12, <2>5
      <3>2. p1 < r1 /\ (s1 < q1 \/ q1 < r1)
        BY <1>7, <1>15, <2>1, <2>5 DEF NestsTags
      <3>3. p1 \in Nat /\ q1 \in Nat /\ r1 \in Nat /\ s1 \in Nat
        BY <1>4, <1>8
      <3> QED
        BY <2>2, <3>1, <3>2, <3>3
    <2> QED
      BY <1>5, <2>4, <2>5
  <1> QED
    BY <1>1, <1>13, <1>14, <1>15 DEF NestsTags

(* The text of some positions.                                             *)
LEMMA EscapeFacts ==
  ASSUME NEW b \in Nat, NEW e \in Nat, NEW t, t = EscapeText(b, e)
  PROVE  /\ t \in Seq(Piece)
         /\ \A p \in DOMAIN t : p \in Nat /\ t[p] = TextPiece(b + p) /\ b < b + p /\ b + p <= e
         /\ \A at \in Nat : b < at /\ at <= e => Places(t, TextPiece(at)) # {}
  <1>1. CASE b >= e
    <2>1. t = <<>>
      BY <1>1 DEF EscapeText
    <2>2. \A at \in Nat : ~(b < at /\ at <= e)
      BY <1>1
    <2> QED
      BY <2>1, <2>2
  <1>2. CASE ~(b >= e)
    <2>1. PICK n \in Nat : n = e - b
      BY <1>2
    <2>2. t = [p \in 1..n |-> TextPiece(b + p)]
      BY <1>2, <2>1 DEF EscapeText
    <2>3. \A p \in 1..n : TextPiece(b + p) \in Piece
      BY DEF TextPiece, Piece
    <2>4. t \in Seq(Piece)
      BY <2>2, <2>3
    <2>5. \A p \in 1..n : p \in Nat /\ t[p] = TextPiece(b + p) /\ b < b + p /\ b + p <= e
      BY <2>1, <2>2
    <2>6. ASSUME NEW at \in Nat, b < at, at <= e PROVE Places(t, TextPiece(at)) # {}
      <3>1. PICK p : p = at - b /\ p \in 1..n /\ b + p = at
        BY <2>1, <2>6
      <3>2. t[p] = TextPiece(at) /\ p \in DOMAIN t
        BY <2>2, <3>1
      <3> QED
        BY <3>2 DEF Places
    <2> QED
      BY <2>2, <2>4, <2>5, <2>6
  <1> QED
    BY <1>1, <1>2

(* It has no tags.                                                         *)
LEMMA EscapeNests ==
  ASSUME NEW b \in Nat, NEW e \in Nat, NEW a \in Nat
  PROVE  NestsTags(EscapeText(b, e), a..(a - 1))
  <1>1. PICK t : t = EscapeText(b, e)
    OBVIOUS
  <1>2. \A p \in DOMAIN t : t[p].k = "text"
    BY <1>1, EscapeFacts DEF TextPiece
  <1>3. a..(a - 1) = {}
    OBVIOUS
  <1> QED
    BY <1>1, <1>2, <1>3 DEF NestsTags

(* The texts between x and y are shown; and in order, and no others.       *)
Covers(w, x, y) ==
  \A at \in DOMAIN doc :
    x < at /\ at <= y /\ doc[at].k \notin M!TagKinds => Places(w, TextPiece(at)) # {}

Ordered(w, x, y) ==
  /\ TextInOrder(w)
  /\ \A p \in DOMAIN w : w[p].k = "text" => x < w[p].at /\ w[p].at <= y

LEMMA CoverKept ==
  ASSUME NEW u \in Seq(Piece), NEW v \in Seq(Piece), NEW x, NEW y,
         Covers(u, x, y) \/ Covers(v, x, y)
  PROVE  Covers(u \o v, x, y)
  <1>1. PICK w, n, m : w = u \o v /\ n = Len(u) /\ m = Len(v)
    OBVIOUS
  <1>2. Joins(w, u, n, v, m)
    BY <1>1, JoinFacts
  <1>3. \A piece : Places(u, piece) # {} \/ Places(v, piece) # {} => Places(w, piece) # {}
    <2>1. \A piece : /\ \A p \in DOMAIN u : p \in Places(w, piece) <=> p \in Places(u, piece)
                     /\ \A q \in DOMAIN v : n + q \in Places(w, piece) <=> q \in Places(v, piece)
      BY <1>2, JoinPlaces
    <2>2. \A s, piece : Places(s, piece) \subseteq DOMAIN s
      BY DEF Places
    <2> QED
      BY <2>1, <2>2
  <1> QED
    BY <1>1, <1>3 DEF Covers

(* Texts that follow one another are shown one after the other.            *)
LEMMA CoverJoin ==
  ASSUME doc \in Documents, NEW u \in Seq(Piece), NEW v \in Seq(Piece),
         NEW x \in Nat, NEW y \in Nat, NEW z \in Nat, Covers(u, x, y), Covers(v, y, z)
  PROVE  Covers(u \o v, x, z)
  <1>1. PICK w : w = u \o v
    OBVIOUS
  <1>2. Covers(w, x, y) /\ Covers(w, y, z)
    BY <1>1, CoverKept
  <1>3. \A at \in DOMAIN doc : at \in Nat
    BY DEF Documents
  <1>4. \A at \in Nat : at <= y \/ y < at
    OBVIOUS
  <1> QED
    BY <1>1, <1>2, <1>3, <1>4 DEF Covers

LEMMA PieceFacts ==
  ASSUME NEW w \in Seq(Piece), NEW p \in DOMAIN w
  PROVE  w[p] \in Piece /\ w[p].at \in Nat /\ p \in Nat
  <1>1. w[p] \in Piece /\ p \in Nat
    OBVIOUS
  <1> QED
    BY <1>1 DEF Piece

(* And in order, when the one is in front of the other.                    *)
LEMMA OrderJoin ==
  ASSUME NEW u \in Seq(Piece), NEW v \in Seq(Piece),
         NEW x \in Nat, NEW y \in Nat, NEW t \in Nat, NEW z \in Nat, x <= t, y <= t, y <= z,
         Ordered(u, x, y), Ordered(v, t, z)
  PROVE  Ordered(u \o v, x, z)
  <1>1. PICK w, n, m : w = u \o v /\ n = Len(u) /\ m = Len(v)
    OBVIOUS
  <1>2. Joins(w, u, n, v, m)
    BY <1>1, JoinFacts
  <1>3. /\ \A p \in DOMAIN u : w[p] = u[p] /\ p \in Nat /\ p <= n
        /\ \A q \in DOMAIN v : w[n + q] = v[q] /\ q \in Nat /\ n < n + q
        /\ n \in Nat
    <2>1. /\ \A p \in DOMAIN u : p \in Nat /\ p <= n
          /\ \A q \in DOMAIN v : q \in Nat /\ n < n + q
          /\ n \in Nat
      BY <1>2, JoinPlaces DEF Joins
    <2>2. (\A p \in DOMAIN u : w[p] = u[p]) /\ \A q \in DOMAIN v : w[n + q] = v[q]
      BY <1>2 DEF Joins
    <2> QED
      BY <2>1, <2>2
  <1>4. \A p \in DOMAIN w : p \in DOMAIN u \/ \E q \in DOMAIN v : p = n + q
    BY <1>2, JoinSplits
  <1>5. /\ \A p \in DOMAIN u : u[p].at \in Nat
        /\ \A q \in DOMAIN v : v[q].at \in Nat
    BY PieceFacts
  <1>6. ASSUME NEW p \in DOMAIN w, w[p].k = "text"
        PROVE  /\ w[p].at \in TextPositions
               /\ x < w[p].at /\ w[p].at <= z
    <2>1. CASE p \in DOMAIN u
      BY <1>3, <1>5, <1>6, <2>1 DEF Ordered, TextInOrder
    <2>2. ASSUME NEW q \in DOMAIN v, p = n + q
          PROVE  w[p].at \in TextPositions /\ x < w[p].at /\ w[p].at <= z
      BY <1>3, <1>5, <1>6, <2>2 DEF Ordered, TextInOrder
    <2> QED
      BY <1>4, <2>1, <2>2
  <1>7. ASSUME NEW p \in DOMAIN w, w[p].k = "text", NEW q \in DOMAIN w, w[q].k = "text", p < q
        PROVE  w[p].at < w[q].at
    <2>1. CASE p \in DOMAIN u /\ q \in DOMAIN u
      BY <1>3, <1>7, <2>1 DEF Ordered, TextInOrder
    <2>2. ASSUME p \in DOMAIN u, NEW r \in DOMAIN v, q = n + r
          PROVE  w[p].at < w[q].at
      <3>1. w[p].at \in Nat /\ w[p].at <= y
        BY <1>3, <1>5, <1>7, <2>2 DEF Ordered
      <3>2. w[q].at \in Nat /\ t < w[q].at
        BY <1>3, <1>5, <1>7, <2>2 DEF Ordered
      <3> QED
        BY <3>1, <3>2
    <2>3. ASSUME NEW o \in DOMAIN v, p = n + o, NEW r \in DOMAIN v, q = n + r
          PROVE  w[p].at < w[q].at
      <3>1. o < r
        BY <1>3, <1>7, <2>3
      <3> QED
        BY <1>3, <1>7, <2>3, <3>1 DEF Ordered, TextInOrder
    <2>4. ~(q \in DOMAIN u /\ \E o \in DOMAIN v : p = n + o)
      BY <1>3, <1>7
    <2> QED
      BY <1>4, <2>1, <2>2, <2>3, <2>4
  <1> QED
    BY <1>1, <1>6, <1>7 DEF Ordered, TextInOrder

(* The tags of a node add no text.                                         *)
LEMMA WrapText ==
  ASSUME NEW x \in Seq(Piece), NEW w \in Seq(Piece), NEW n, NEW i, Wraps(x, w, n, i)
  PROVE  /\ \A a, b : Covers(w, a, b) => Covers(x, a, b)
         /\ \A a, b : Ordered(w, a, b) => Ordered(x, a, b)
  <1>1. /\ \A p \in DOMAIN x : p = 1 \/ p = n + 2 \/ \E q \in DOMAIN w : p = q + 1
        /\ \A q \in DOMAIN w : q \in Nat /\ q + 1 \in DOMAIN x /\ x[q + 1] = w[q]
    <2>1. ASSUME NEW p \in DOMAIN x
          PROVE  p = 1 \/ p = n + 2 \/ \E q \in DOMAIN w : p = q + 1
      <3>1. /\ n \in Nat /\ DOMAIN w = 1..n /\ DOMAIN x = 1..(n + 2)
        BY DEF Wraps
      <3>2. p = 1 \/ p = n + 2 \/ (p - 1 \in 1..n /\ p = (p - 1) + 1)
        BY <3>1
      <3> QED
        BY <3>1, <3>2
    <2>2. \A q \in DOMAIN w : q \in Nat /\ q + 1 \in DOMAIN x /\ x[q + 1] = w[q]
      BY DEF Wraps
    <2> QED
      BY <2>1, <2>2
  <1>2. x[1].k # "text" /\ x[n + 2].k # "text"
    BY DEF Wraps, OpenPiece, ClosePiece
  <1>3. \A piece : Places(w, piece) # {} => Places(x, piece) # {}
    BY <1>1 DEF Places
  <1>4. \A a, b : Covers(w, a, b) => Covers(x, a, b)
    BY <1>3 DEF Covers
  <1>5. \A p \in DOMAIN x : x[p].k = "text" => \E q \in DOMAIN w : p = q + 1 /\ x[p] = w[q] /\ q \in Nat
    BY <1>1, <1>2
  <1>6. ASSUME NEW a, NEW b, Ordered(w, a, b) PROVE Ordered(x, a, b)
    <2>1. ASSUME NEW p \in DOMAIN x, x[p].k = "text"
          PROVE  x[p].at \in TextPositions /\ a < x[p].at /\ x[p].at <= b
      BY <1>5, <1>6, <2>1 DEF Ordered, TextInOrder
    <2>2. ASSUME NEW p \in DOMAIN x, x[p].k = "text", NEW q \in DOMAIN x, x[q].k = "text", p < q
          PROVE  x[p].at < x[q].at
      <3>1. PICK o \in DOMAIN w : p = o + 1 /\ x[p] = w[o] /\ o \in Nat
        BY <1>5, <2>2
      <3>2. PICK r \in DOMAIN w : q = r + 1 /\ x[q] = w[r] /\ r \in Nat
        BY <1>5, <2>2
      <3>3. o < r
        BY <2>2, <3>1, <3>2
      <3> QED
        BY <1>6, <2>2, <3>1, <3>2, <3>3 DEF Ordered, TextInOrder
    <2> QED
      BY <2>1, <2>2 DEF Ordered, TextInOrder
  <1> QED
    BY <1>4, <1>6

(* Putting sequences together, one after another.                          *)
Prefixes(g, seqs, n) ==
  /\ g \in [0..n -> Seq(Piece)] /\ g[0] = <<>>
  /\ \A k \in 1..n : g[k] = g[k - 1] \o seqs[k]

(* FlattenSeq puts sequences together one by one.                          *)
LEMMA FlattenPrefixes ==
  ASSUME NEW n \in Nat, NEW seqs \in [1..n -> Seq(Piece)]
  PROVE  \E g : Prefixes(g, seqs, n) /\ Seqs!FlattenSeq(seqs) = g[n]
  <1>1. PICK D, step : D = Seq(Piece) /\ step = [k \in 1..n |-> [w \in D |-> w \o seqs[k]]]
    OBVIOUS
  <1>2. <<>> \in D /\ step \in [1..n -> [D -> D]]
    <2>1. \A k \in 1..n : \A w \in D : w \o seqs[k] \in D
      BY <1>1
    <2> QED
      BY <1>1, <2>1
  <1>3. PICK g : Rounds(g, D, <<>>, step, n)
    BY <1>2, RoundsExist
  <1>4. Prefixes(g, seqs, n)
    <2>1. ASSUME NEW k \in 1..n PROVE g[k] = g[k - 1] \o seqs[k]
      <3>1. k - 1 \in 0..n
        OBVIOUS
      <3>2. g[k - 1] \in D /\ g[k] = step[k][g[k - 1]]
        BY <1>3, <3>1 DEF Rounds
      <3> QED
        BY <1>1, <3>2
    <2> QED
      BY <1>1, <1>3, <2>1 DEF Rounds, Prefixes
  <1>5. Len(seqs) = n
    OBVIOUS
  <1>6. CASE n = 0
    <2>1. seqs = <<>>
      BY <1>5, <1>6
    <2>2. Seqs!FlattenSeq(seqs) = seqs
      BY <1>5, <1>6 DEF Seqs!FlattenSeq
    <2> QED
      BY <1>4, <1>6, <2>1, <2>2 DEF Prefixes
  <1>7. CASE n # 0
    <2>1. PICK f : f = [k \in 1..n |-> g[k]]
      OBVIOUS
    <2>2. ASSUME NEW k \in 1..n
          PROVE  f[k] = IF k = 1 THEN seqs[k] ELSE f[k - 1] \o seqs[k]
      <3>1. f[k] = g[k - 1] \o seqs[k]
        BY <1>4, <2>1 DEF Prefixes
      <3>2. CASE k = 1
        <4>1. k - 1 = 0 /\ g[0] = <<>>
          BY <1>4, <3>2 DEF Prefixes
        <4>2. f[k] = <<>> \o seqs[k] /\ seqs[k] \in Seq(Piece)
          BY <3>1, <4>1
        <4>3. <<>> \o seqs[k] = seqs[k]
          BY <4>2, ConcatEmptySeq
        <4> QED
          BY <3>2, <4>2, <4>3
      <3>3. CASE k # 1
        <4>1. k - 1 \in 1..n
          BY <3>3
        <4>2. f[k - 1] = g[k - 1]
          BY <2>1, <4>1
        <4> QED
          BY <3>1, <3>3, <4>2
      <3> QED
        BY <3>2, <3>3
    <2>3. f = [k \in 1..n |-> IF k = 1 THEN seqs[k] ELSE f[k - 1] \o seqs[k]]
      BY <2>1, <2>2
    <2>4. PICK h : h = CHOOSE l : l = [k \in 1..n |->
                         IF k = 1 THEN seqs[k] ELSE l[k - 1] \o seqs[k]]
      OBVIOUS
    <2>5. h = [k \in 1..n |-> IF k = 1 THEN seqs[k] ELSE h[k - 1] \o seqs[k]]
      BY <2>3, <2>4
    <2>6. Seqs!FlattenSeq(seqs) = h[n]
      BY <1>5, <1>7, <2>4 DEF Seqs!FlattenSeq
    <2>7. \A k \in 1..n : h[k] = f[k]
      <3> DEFINE Wrong == {k \in 1..n : h[k] # f[k]}
      <3> SUFFICES ASSUME Wrong # {} PROVE FALSE
        OBVIOUS
      <3>1. PICK k \in Wrong : \A j \in Wrong : k <= j
        <4>1. Wrong \in SUBSET Nat
          OBVIOUS
        <4> QED
          BY <4>1, LeastNat
      <3>2. h[k] = (IF k = 1 THEN seqs[k] ELSE h[k - 1] \o seqs[k])
        BY <2>5
      <3>3. k # 1 => k - 1 \in 1..n /\ k - 1 \notin Wrong
        BY <3>1
      <3>4. h[k] = f[k]
        BY <2>2, <3>2, <3>3
      <3> QED
        BY <3>4
    <2>8. n \in 1..n
      BY <1>7
    <2> QED
      BY <1>4, <2>1, <2>6, <2>7, <2>8
  <1> QED
    BY <1>6, <1>7

-----------------------------------------------------------------------------
(* What the ranges of the tree are in the text: those of its tags, and     *)
(* every tag belongs to one.                                               *)
Marked(r) ==
  /\ r.RawBegin \in Nat /\ r.RawEnd \in Nat
  /\ r.ValueBegin = r.RawBegin + 1
  /\ r.RawBegin + 1 <= r.RawEnd /\ r.RawEnd <= Len(doc)
  /\ \/ /\ doc[r.RawBegin + 1].k = "self"
        /\ r.RawEnd = r.RawBegin + 1 /\ r.ValueEnd = r.RawEnd
     \/ /\ doc[r.RawBegin + 1].k = "open" /\ doc[r.RawEnd].k = "close"
        /\ r.ValueEnd = r.RawEnd - 1

AllMarked ==
  /\ \A i \in 1..Len(ranges) : Marked(ranges[i])
  /\ \A at \in 1..Len(doc) :
       doc[at].k \in M!TagKinds =>
         \E i \in 1..Len(ranges) : at = ranges[i].RawBegin + 1 \/ at = ranges[i].RawEnd

(* The finished tree of a text.                                            *)
TreeBuilt ==
  /\ doc \in Documents
  /\ TreeInv /\ entries = Len(ranges)
  /\ AllMarked

LEMMA MarkedFacts ==
  ASSUME doc \in Documents, NEW r, Marked(r)
  PROVE  /\ r.RawBegin \in Nat /\ r.RawEnd \in Nat /\ r.ValueBegin \in Nat /\ r.ValueEnd \in Nat
         /\ r.ValueBegin = r.RawBegin + 1 /\ r.RawBegin < r.RawEnd
         /\ r.ValueBegin <= r.ValueEnd /\ r.ValueEnd <= r.RawEnd /\ r.RawEnd <= Len(doc)
         /\ Len(doc) \in Nat
         /\ r.ValueEnd = r.RawEnd \/ r.ValueEnd = r.RawEnd - 1
         /\ r.ValueBegin < r.ValueEnd => r.ValueEnd = r.RawEnd - 1
  <1>1. Len(doc) \in Nat
    BY DEF Documents
  <1>2. CASE doc[r.RawBegin + 1].k = "self"
    BY <1>1, <1>2 DEF Marked
  <1>3. CASE doc[r.RawBegin + 1].k = "open"
    <2>1. r.RawEnd # r.RawBegin + 1
      BY <1>3 DEF Marked
    <2>2. r.ValueEnd = r.RawEnd - 1 /\ r.RawBegin + 1 <= r.RawEnd
      BY <1>3 DEF Marked
    <2> QED
      BY <1>1, <2>1, <2>2 DEF Marked
  <1> QED
    BY <1>2, <1>3 DEF Marked

(* A tag that starts at a token behind one tag's start is in it.           *)
LEMMA InsideFacts ==
  ASSUME TreeBuilt, NEW i \in 1..Len(ranges), NEW c \in 1..Len(ranges),
         H!ContainsRange(ranges[i], ranges[c])
  PROVE  /\ ranges[i].ValueBegin <= ranges[c].RawBegin
         /\ ranges[c].RawBegin <= ranges[i].ValueEnd
         /\ ranges[c].ValueEnd <= ranges[i].ValueEnd
         /\ ranges[i].ValueEnd = ranges[i].RawEnd - 1
  <1>1. PICK r, q : r = ranges[i] /\ q = ranges[c] /\ Marked(r) /\ Marked(q) /\ doc \in Documents
    BY DEF TreeBuilt, AllMarked
  <1>2. r.RawBegin < q.RawBegin /\ q.RawEnd <= r.RawEnd
    BY <1>1 DEF H!ContainsRange
  <1>3. /\ r.RawBegin \in Nat /\ r.RawEnd \in Nat /\ q.RawBegin \in Nat /\ q.RawEnd \in Nat
        /\ r.ValueBegin = r.RawBegin + 1 /\ q.RawBegin < q.RawEnd
    BY <1>1, MarkedFacts
  <1>4. r.ValueEnd = r.RawEnd - 1 /\ doc[r.RawBegin + 1].k = "open" /\ doc[r.RawEnd].k = "close"
    <2>1. r.RawEnd # r.RawBegin + 1
      BY <1>2, <1>3
    <2> QED
      BY <1>1, <2>1 DEF Marked
  <1>5. q.ValueEnd <= r.ValueEnd
    <2>1. CASE doc[q.RawBegin + 1].k = "self"
      <3>1. q.RawEnd = q.RawBegin + 1 /\ q.ValueEnd = q.RawEnd
        BY <1>1, <2>1 DEF Marked
      <3>2. q.RawEnd # r.RawEnd
        BY <1>4, <2>1, <3>1
      <3> QED
        BY <1>2, <1>3, <1>4, <3>1, <3>2
    <2>2. CASE doc[q.RawBegin + 1].k # "self"
      <3>1. q.ValueEnd = q.RawEnd - 1
        BY <1>1, <2>2 DEF Marked
      <3> QED
        BY <1>2, <1>3, <1>4, <3>1
    <2> QED
      BY <2>1, <2>2
  <1>6. r.ValueBegin <= q.RawBegin /\ q.RawBegin <= r.ValueEnd
    BY <1>2, <1>3, <1>4
  <1> QED
    BY <1>1, <1>4, <1>5, <1>6

(* Tags that do not cross: one of them is in the other or they are apart.  *)
LEMMA Apart ==
  ASSUME TreeBuilt, NoneCross, NEW i \in 1..Len(ranges), NEW j \in 1..Len(ranges), i < j
  PROVE  H!ContainsRange(ranges[i], ranges[j]) \/ ranges[i].RawEnd <= ranges[j].RawBegin
  <1>1. /\ ranges[i].RawEnd \in Nat /\ ranges[j].RawEnd \in Nat /\ ranges[j].RawBegin \in Nat
        /\ ranges[i].RawBegin < ranges[j].RawBegin
    BY PlacedFacts DEF TreeBuilt, TreeInv, Placed
  <1>2. ~Cross(i, j)
    BY DEF NoneCross
  <1> QED
    BY <1>1, <1>2 DEF Cross, H!ContainsRange

(* A range that is in another one is later than that.                      *)
LEMMA LaterInside ==
  ASSUME TreeBuilt, NEW i \in 1..Len(ranges), NEW j \in 1..Len(ranges),
         H!ContainsRange(ranges[i], ranges[j])
  PROVE  i < j
  <1> SUFFICES ASSUME ~(i < j) PROVE FALSE
    OBVIOUS
  <1>1. ranges[i].RawBegin < ranges[j].RawBegin
    BY DEF H!ContainsRange
  <1>2. ranges[i].RawBegin \in Nat /\ ranges[j].RawBegin \in Nat
    BY PlacedFacts DEF TreeBuilt, TreeInv
  <1>3. i = j \/ j < i
    OBVIOUS
  <1>4. j < i => ranges[j].RawBegin < ranges[i].RawBegin
    BY DEF TreeBuilt, TreeInv, Placed
  <1> QED
    BY <1>1, <1>2, <1>3, <1>4

(* The nodes below a node follow one another inside of it.                 *)
LEMMA ChildrenFacts ==
  ASSUME TreeBuilt, NEW i \in 1..Len(ranges), NEW s, s = children[i]
  PROVE  /\ s \in Seq(Nat)
         /\ \A c \in 1..Len(s) :
              s[c] \in 1..Len(ranges) /\ H!ContainsRange(ranges[i], ranges[s[c]]) /\ i < s[c]
         /\ \A c, d \in 1..Len(s) :
              c < d => s[c] < s[d] /\ ~H!ContainsRange(ranges[s[c]], ranges[s[d]])
  <1>1. s \in Seq(Nat) /\ Climbs(s)
    BY DEF TreeBuilt, TreeInv, Hung
  <1>2. ASSUME NEW c \in 1..Len(s)
        PROVE  s[c] \in 1..Len(ranges) /\ Latest(ranges, Len(ranges), s[c], i)
    <2>1. s[c] \in Nat /\ H!Seqs!Contains(s, s[c])
      BY <1>1 DEF H!Seqs!Contains
    <2> QED
      BY <2>1 DEF TreeBuilt, TreeInv, Hung
  <1>3. ASSUME NEW c \in 1..Len(s)
        PROVE  H!ContainsRange(ranges[i], ranges[s[c]]) /\ i < s[c]
    <2>1. s[c] \in 1..Len(ranges) /\ H!ContainsRange(ranges[i], ranges[s[c]])
      BY <1>2 DEF Latest, Sires
    <2> QED
      BY <2>1, LaterInside
  <1>4. ASSUME NEW c \in 1..Len(s), NEW d \in 1..Len(s), c < d
        PROVE  s[c] < s[d] /\ ~H!ContainsRange(ranges[s[c]], ranges[s[d]])
    <2>1. s[c] < s[d]
      BY <1>1, <1>4 DEF Climbs
    <2>2. ASSUME H!ContainsRange(ranges[s[c]], ranges[s[d]]) PROVE FALSE
      <3>1. s[c] \in Sires(ranges, Len(ranges), s[d])
        BY <1>2, <2>2 DEF Sires
      <3>2. s[c] <= i
        BY <1>2, <3>1 DEF Latest
      <3> QED
        BY <1>1, <1>3, <3>2
    <2> QED
      BY <2>1, <2>2
  <1> QED
    BY <1>1, <1>2, <1>3, <1>4

(* The roots follow one another.                                           *)
LEMMA RootsFacts ==
  ASSUME TreeBuilt
  PROVE  /\ roots \in Seq(Nat)
         /\ \A c \in 1..Len(roots) : roots[c] \in 1..Len(ranges)
         /\ \A c, d \in 1..Len(roots) :
              c < d => roots[c] < roots[d] /\ ~H!ContainsRange(ranges[roots[c]], ranges[roots[d]])
  <1>1. roots \in Seq(Nat) /\ Climbs(roots)
    BY DEF TreeBuilt, TreeInv, Hung
  <1>2. ASSUME NEW c \in 1..Len(roots)
        PROVE  roots[c] \in 1..Len(ranges) /\ Sires(ranges, Len(ranges), roots[c]) = {}
    <2>1. roots[c] \in Nat /\ H!Seqs!Contains(roots, roots[c])
      BY <1>1 DEF H!Seqs!Contains
    <2> QED
      BY <2>1 DEF TreeBuilt, TreeInv, Hung
  <1>3. ASSUME NEW c \in 1..Len(roots), NEW d \in 1..Len(roots), c < d
        PROVE  roots[c] < roots[d] /\ ~H!ContainsRange(ranges[roots[c]], ranges[roots[d]])
    BY <1>1, <1>2, <1>3 DEF Climbs, Sires
  <1> QED
    BY <1>1, <1>2, <1>3

(* A tag inside of another one is in a node right below that.              *)
LEMMA ChildOf ==
  ASSUME TreeBuilt, NoneCross, NEW i \in 1..Len(ranges), NEW r \in 1..Len(ranges),
         H!ContainsRange(ranges[i], ranges[r])
  PROVE  \E c \in 1..Len(children[i]) :
           LET k == children[i][c]
           IN  k \in 1..Len(ranges) /\ (k = r \/ H!ContainsRange(ranges[k], ranges[r]))
  <1> DEFINE In(k, l) == H!ContainsRange(ranges[k], ranges[l])
             Between == {k \in 1..Len(ranges) : In(i, k) /\ (k = r \/ In(k, r))}
  <1>1. PICK k \in Between : \A j \in Between : k <= j
    <2>1. r \in Between /\ Between \in SUBSET Nat
      OBVIOUS
    <2> HIDE DEF Between
    <2> QED
      BY <2>1, LeastNat
  <1>2. k \in 1..Len(ranges) /\ In(i, k) /\ (k = r \/ In(k, r))
    OBVIOUS
  <1>3. ASSUME NEW j \in 1..Len(ranges), In(j, k), i < j PROVE FALSE
    <2>1. j < k
      BY <1>2, <1>3, LaterInside
    <2>2. /\ ranges[i].RawEnd \in Nat /\ ranges[j].RawEnd \in Nat /\ ranges[k].RawEnd \in Nat
          /\ ranges[r].RawEnd \in Nat
          /\ ranges[i].RawBegin \in Nat /\ ranges[j].RawBegin \in Nat /\ ranges[k].RawBegin \in Nat
          /\ ranges[r].RawBegin \in Nat /\ ranges[k].RawBegin < ranges[k].RawEnd
      BY <1>2, PlacedFacts DEF TreeBuilt, TreeInv, Placed
    <2>3. In(i, j)
      <3>1. ~(ranges[i].RawEnd <= ranges[j].RawBegin)
        BY <1>2, <1>3, <2>2 DEF H!ContainsRange
      <3> QED
        BY <1>3, <3>1, Apart
    <2>4. In(j, r)
      BY <1>2, <1>3, <2>2 DEF H!ContainsRange
    <2>5. j \in Between
      BY <2>3, <2>4
    <2> HIDE DEF Between
    <2> QED
      BY <1>1, <1>2, <2>1, <2>5
  <1>4. Latest(ranges, Len(ranges), k, i)
    <2>1. \A j \in Sires(ranges, Len(ranges), k) : j \in 1..Len(ranges) /\ In(j, k)
      BY DEF Sires
    <2>2. \A j \in 1..Len(ranges) : j <= i \/ i < j
      OBVIOUS
    <2>3. i \in Sires(ranges, Len(ranges), k)
      BY <1>2 DEF Sires
    <2> QED
      BY <1>3, <2>1, <2>2, <2>3 DEF Latest
  <1>5. H!Seqs!Contains(children[i], k)
    BY <1>2, <1>4 DEF TreeBuilt, TreeInv, Hung
  <1> QED
    BY <1>2, <1>5 DEF H!Seqs!Contains

(* What is in a tag and in none of the nodes below it is text.             *)
LEMMA GapIsText ==
  ASSUME TreeBuilt, NoneCross, NEW i \in 1..Len(ranges), NEW at \in Nat,
         ranges[i].ValueBegin < at, at <= ranges[i].ValueEnd,
         \A c \in 1..Len(children[i]) :
           LET k == children[i][c] IN at <= ranges[k].RawBegin \/ ranges[k].RawEnd < at
  PROVE  at \in TextPositions
  <1>1. doc \in Documents /\ DOMAIN doc = 1..Len(doc) /\ \A j \in 1..Len(ranges) : Marked(ranges[j])
    BY DEF TreeBuilt, AllMarked, Documents
  <1>2. \A j \in 1..Len(ranges) :
          /\ ranges[j].RawBegin \in Nat /\ ranges[j].RawEnd \in Nat
          /\ ranges[j].ValueBegin = ranges[j].RawBegin + 1 /\ ranges[j].RawBegin < ranges[j].RawEnd
          /\ ranges[j].ValueEnd \in Nat /\ ranges[j].ValueEnd <= ranges[j].RawEnd
          /\ ranges[j].RawEnd <= Len(doc) /\ Len(doc) \in Nat
          /\ ranges[j].ValueBegin < ranges[j].ValueEnd => ranges[j].ValueEnd = ranges[j].RawEnd - 1
    BY <1>1, MarkedFacts
  <1>3. at \in DOMAIN doc
    <2>1. 1 <= at /\ at <= Len(doc)
      BY <1>2
    <2> QED
      BY <1>1, <1>2, <2>1
  <1>4. ASSUME doc[at].k \in M!TagKinds PROVE FALSE
    <2>1. PICK r \in 1..Len(ranges) : at = ranges[r].RawBegin + 1 \/ at = ranges[r].RawEnd
      BY <1>1, <1>3, <1>4 DEF TreeBuilt, AllMarked
    <2>2. /\ ranges[i].RawBegin + 1 < at /\ at < ranges[i].RawEnd
      BY <1>2
    <2>3. r # i
      BY <1>2, <2>1, <2>2
    <2>4. ASSUME r < i PROVE FALSE
      <3>1. ranges[r].RawBegin < ranges[i].RawBegin
        BY <2>4 DEF TreeBuilt, TreeInv, Placed
      <3>2. at = ranges[r].RawEnd
        BY <1>2, <2>1, <2>2, <3>1
      <3>3. Cross(r, i)
        BY <1>2, <2>2, <3>1, <3>2 DEF Cross
      <3> QED
        BY <3>3 DEF NoneCross
    <2>5. i < r
      BY <2>3, <2>4
    <2>6. H!ContainsRange(ranges[i], ranges[r])
      <3>1. ranges[r].RawBegin < ranges[i].RawEnd
        BY <1>2, <2>1, <2>2
      <3>2. ~(ranges[i].RawEnd <= ranges[r].RawBegin)
        BY <1>2, <3>1
      <3> QED
        BY <2>5, <3>2, Apart
    <2>7. PICK c \in 1..Len(children[i]), k \in 1..Len(ranges) :
            k = children[i][c] /\ (k = r \/ H!ContainsRange(ranges[k], ranges[r]))
      BY <2>6, ChildOf
    <2>8. ranges[k].RawBegin <= ranges[r].RawBegin /\ ranges[r].RawEnd <= ranges[k].RawEnd
      BY <1>2, <2>7 DEF H!ContainsRange
    <2>9. at <= ranges[k].RawBegin \/ ranges[k].RawEnd < at
      BY <2>7
    <2> QED
      BY <1>2, <2>1, <2>8, <2>9
  <1> QED
    BY <1>3, <1>4 DEF TextPositions, InsideTag

(* Where the text in front of child c + 1 begins and ends, the last one    *)
(* being that behind all of the children; and how far the HTML of c of     *)
(* them has come.                                                          *)
From(i, s, c) == IF c = 0 THEN ranges[i].ValueBegin ELSE ranges[s[c]].RawEnd
Upto(i, s, c) == IF c = Len(s) THEN ranges[i].ValueEnd ELSE ranges[s[c + 1]].RawBegin
Reached(i, s, c) == IF c = 0 THEN ranges[i].ValueBegin ELSE ranges[s[c]].ValueEnd
Gap(i, s, c) == EscapeText(From(i, s, c), Upto(i, s, c))

LEMMA RangeFacts ==
  ASSUME TreeBuilt
  PROVE  /\ Len(doc) \in Nat /\ DOMAIN doc = 1..Len(doc) /\ Len(ranges) \in Nat
         /\ \A j \in 1..Len(ranges) :
              /\ ranges[j].RawBegin \in Nat /\ ranges[j].RawEnd \in Nat
              /\ ranges[j].ValueBegin \in Nat /\ ranges[j].ValueEnd \in Nat
              /\ ranges[j].ValueBegin = ranges[j].RawBegin + 1
              /\ ranges[j].RawBegin < ranges[j].RawEnd
              /\ ranges[j].ValueBegin <= ranges[j].ValueEnd
              /\ ranges[j].ValueEnd <= ranges[j].RawEnd
              /\ ranges[j].RawEnd <= Len(doc)
  <1>1. doc \in Documents /\ \A j \in 1..Len(ranges) : Marked(ranges[j])
    BY DEF TreeBuilt, AllMarked
  <1>2. Len(doc) \in Nat /\ DOMAIN doc = 1..Len(doc) /\ Len(ranges) \in Nat
    BY <1>1 DEF Documents, TreeBuilt, TreeInv, Placed
  <1> QED
    BY <1>1, <1>2, MarkedFacts

LEMMA GapFacts ==
  ASSUME TreeBuilt, NEW i \in 1..Len(ranges), NEW s, s = children[i], NEW c \in 0..Len(s)
  PROVE  /\ From(i, s, c) \in Nat /\ Upto(i, s, c) \in Nat /\ Reached(i, s, c) \in Nat
         /\ ranges[i].ValueBegin <= From(i, s, c) /\ Upto(i, s, c) <= ranges[i].ValueEnd
         /\ ranges[i].ValueBegin <= Reached(i, s, c)
         /\ Reached(i, s, c) <= From(i, s, c)
         /\ NoneCross => Reached(i, s, c) <= Upto(i, s, c)
  <1>1. /\ s \in Seq(Nat)
        /\ \A d \in 1..Len(s) : s[d] \in 1..Len(ranges) /\ H!ContainsRange(ranges[i], ranges[s[d]])
        /\ \A d, e \in 1..Len(s) :
             d < e => s[d] < s[e] /\ ~H!ContainsRange(ranges[s[d]], ranges[s[e]])
    BY ChildrenFacts
  <1>2. \A d \in 1..Len(s) :
          /\ ranges[s[d]].RawBegin \in Nat /\ ranges[s[d]].RawEnd \in Nat
          /\ ranges[s[d]].ValueEnd \in Nat
          /\ ranges[s[d]].RawBegin < ranges[s[d]].RawEnd
          /\ ranges[s[d]].RawBegin < ranges[s[d]].ValueEnd
          /\ ranges[s[d]].ValueEnd <= ranges[s[d]].RawEnd
    <2> SUFFICES ASSUME NEW d \in 1..Len(s)
                 PROVE  /\ ranges[s[d]].RawBegin \in Nat /\ ranges[s[d]].RawEnd \in Nat
                        /\ ranges[s[d]].ValueEnd \in Nat
                        /\ ranges[s[d]].RawBegin < ranges[s[d]].RawEnd
                        /\ ranges[s[d]].RawBegin < ranges[s[d]].ValueEnd
                        /\ ranges[s[d]].ValueEnd <= ranges[s[d]].RawEnd
      OBVIOUS
    <2>1. PICK j \in 1..Len(ranges) : j = s[d]
      BY <1>1
    <2> QED
      BY <2>1, RangeFacts
  <1>3. \A d \in 1..Len(s) :
          /\ ranges[i].ValueBegin <= ranges[s[d]].RawBegin
          /\ ranges[s[d]].RawBegin <= ranges[i].ValueEnd
          /\ ranges[s[d]].ValueEnd <= ranges[i].ValueEnd
    BY <1>1, InsideFacts
  <1>4. /\ ranges[i].ValueBegin \in Nat /\ ranges[i].ValueEnd \in Nat
        /\ ranges[i].ValueBegin <= ranges[i].ValueEnd
    BY RangeFacts
  <1>5. /\ Len(s) \in Nat /\ c \in Nat
        /\ (c # 0 => c \in 1..Len(s))
        /\ (c # Len(s) => c + 1 \in 1..Len(s))
    BY <1>1
  <1>6. /\ From(i, s, c) \in Nat /\ Reached(i, s, c) \in Nat
        /\ ranges[i].ValueBegin <= From(i, s, c)
        /\ ranges[i].ValueBegin <= Reached(i, s, c)
        /\ Reached(i, s, c) <= From(i, s, c)
        /\ Reached(i, s, c) <= ranges[i].ValueEnd
    <2>1. CASE c = 0
      BY <1>4, <2>1 DEF From, Reached
    <2>2. CASE c # 0
      <3>1. PICK q : q = ranges[s[c]]
        OBVIOUS
      <3>2. /\ q.RawBegin \in Nat /\ q.RawEnd \in Nat /\ q.ValueEnd \in Nat
            /\ q.RawBegin < q.RawEnd /\ q.RawBegin < q.ValueEnd /\ q.ValueEnd <= q.RawEnd
            /\ ranges[i].ValueBegin <= q.RawBegin /\ q.ValueEnd <= ranges[i].ValueEnd
        BY <1>2, <1>3, <1>5, <2>2, <3>1
      <3>3. From(i, s, c) = q.RawEnd /\ Reached(i, s, c) = q.ValueEnd
        BY <2>2, <3>1 DEF From, Reached
      <3> QED
        BY <1>4, <3>2, <3>3
    <2> QED
      BY <2>1, <2>2
  <1>7. Upto(i, s, c) \in Nat /\ Upto(i, s, c) <= ranges[i].ValueEnd
    <2>1. CASE c = Len(s)
      BY <1>4, <2>1 DEF Upto
    <2>2. CASE c # Len(s)
      BY <1>2, <1>3, <1>5, <2>2 DEF Upto
    <2> QED
      BY <2>1, <2>2
  <1>8. ASSUME NoneCross PROVE Reached(i, s, c) <= Upto(i, s, c)
    <2>1. CASE c = Len(s)
      BY <1>6, <2>1 DEF Upto
    <2>2. CASE c # Len(s) /\ c = 0
      BY <1>3, <1>5, <2>2 DEF Upto, Reached
    <2>3. CASE c # Len(s) /\ c # 0
      <3>1. c \in 1..Len(s) /\ c + 1 \in 1..Len(s) /\ c < c + 1
        BY <1>5, <2>3
      <3>2. PICK j \in 1..Len(ranges), k \in 1..Len(ranges) :
              j = s[c] /\ k = s[c + 1] /\ j < k /\ ~H!ContainsRange(ranges[j], ranges[k])
        BY <1>1, <3>1
      <3>3. ranges[j].RawEnd <= ranges[k].RawBegin
        BY <1>8, <3>2, Apart
      <3>4. Reached(i, s, c) = ranges[j].ValueEnd /\ Upto(i, s, c) = ranges[k].RawBegin
        BY <2>3, <3>2 DEF Reached, Upto
      <3> QED
        BY <1>2, <3>1, <3>2, <3>3, <3>4
    <2> QED
      BY <2>1, <2>2, <2>3
  <1> QED
    BY <1>6, <1>7, <1>8

(* The text in front of, between and behind the children of a node.        *)
LEMMA GapOrdered ==
  ASSUME TreeBuilt, NoneCross,
         NEW i \in 1..Len(ranges), NEW s, s = children[i], NEW c \in 0..Len(s)
  PROVE  Ordered(Gap(i, s, c), From(i, s, c), Upto(i, s, c))
  <1>1. /\ s \in Seq(Nat)
        /\ \A d \in 1..Len(s) : s[d] \in 1..Len(ranges)
        /\ \A d, e \in 1..Len(s) :
             d < e => s[d] < s[e] /\ ~H!ContainsRange(ranges[s[d]], ranges[s[e]])
    BY ChildrenFacts
  <1>2. PICK b \in Nat, e \in Nat :
          /\ b = From(i, s, c) /\ e = Upto(i, s, c)
          /\ ranges[i].ValueBegin <= b /\ e <= ranges[i].ValueEnd
    BY GapFacts
  <1>0. PICK t : t = Gap(i, s, c) /\ t = EscapeText(b, e)
    BY <1>2 DEF Gap
  <1>3. /\ t \in Seq(Piece)
        /\ \A p \in DOMAIN t : p \in Nat /\ t[p] = TextPiece(b + p) /\ b < b + p /\ b + p <= e
    BY <1>0, EscapeFacts
  <1>4. \A p \in DOMAIN t : t[p].at = b + p
    BY <1>3 DEF TextPiece
  <1>5. ASSUME NEW at \in Nat, b < at, at <= e PROVE at \in TextPositions
    <2>1. ASSUME NEW d \in 1..Len(s)
          PROVE  at <= ranges[s[d]].RawBegin \/ ranges[s[d]].RawEnd < at
      <3>1. PICK k \in 1..Len(ranges) : k = s[d]
        BY <1>1
      <3>2. c \in Nat /\ d \in Nat /\ Len(s) \in Nat
        BY <1>1
      <3>3. CASE d <= c
        <4>1. c \in 1..Len(s) /\ c # 0
          BY <3>2, <3>3
        <4>2. PICK m \in 1..Len(ranges) : m = s[c]
          BY <1>1, <4>1
        <4>3. b = ranges[m].RawEnd
          BY <1>2, <4>1, <4>2 DEF From
        <4>4. CASE d = c
          BY <1>5, <3>1, <4>2, <4>3, <4>4
        <4>5. CASE d < c
          <5>1. k < m /\ ~H!ContainsRange(ranges[k], ranges[m])
            BY <1>1, <3>1, <4>1, <4>2, <4>5
          <5>2. ranges[k].RawEnd <= ranges[m].RawBegin
            BY <5>1, Apart
          <5>3. /\ ranges[k].RawEnd \in Nat /\ ranges[m].RawBegin \in Nat
                /\ ranges[m].RawBegin < ranges[m].RawEnd /\ ranges[m].RawEnd \in Nat
            BY RangeFacts
          <5>4. ranges[k].RawEnd < at
            BY <1>5, <4>3, <5>2, <5>3
          <5> QED
            BY <3>1, <5>4
        <4> QED
          BY <3>2, <3>3, <4>4, <4>5
      <3>4. CASE ~(d <= c)
        <4>1. c + 1 \in 1..Len(s) /\ c # Len(s) /\ c + 1 <= d
          BY <3>2, <3>4
        <4>2. PICK m \in 1..Len(ranges) : m = s[c + 1]
          BY <1>1, <4>1
        <4>3. e = ranges[m].RawBegin
          BY <1>2, <4>1, <4>2 DEF Upto
        <4>4. m = k \/ m < k
          <5>1. CASE d = c + 1
            BY <3>1, <4>2, <5>1
          <5>2. CASE d # c + 1
            <6>1. c + 1 < d
              BY <3>2, <4>1, <5>2
            <6> QED
              BY <1>1, <3>1, <4>1, <4>2, <6>1
          <5> QED
            BY <5>1, <5>2
        <4>5. ranges[m].RawBegin <= ranges[k].RawBegin /\ ranges[k].RawBegin \in Nat
          <5>1. ranges[k].RawBegin \in Nat /\ ranges[m].RawBegin \in Nat
            BY RangeFacts
          <5>2. m < k => ranges[m].RawBegin < ranges[k].RawBegin
            BY DEF TreeBuilt, TreeInv, Placed
          <5> QED
            BY <4>4, <5>1, <5>2
        <4> QED
          BY <1>5, <3>1, <4>3, <4>5
      <3> QED
        BY <3>3, <3>4
    <2>2. ranges[i].ValueBegin < at /\ at <= ranges[i].ValueEnd
      <3>1. ranges[i].ValueBegin \in Nat /\ ranges[i].ValueEnd \in Nat
        BY RangeFacts
      <3> QED
        BY <1>2, <1>5, <3>1
    <2>3. \A d \in 1..Len(children[i]) :
            LET k == children[i][d] IN at <= ranges[k].RawBegin \/ ranges[k].RawEnd < at
      BY <2>1
    <2> QED
      BY <2>2, <2>3, GapIsText
  <1>6. \A p \in DOMAIN t : b < t[p].at /\ t[p].at <= e /\ t[p].at \in TextPositions
    BY <1>3, <1>4, <1>5
  <1>7. \A p, q \in DOMAIN t : p < q => t[p].at < t[q].at
    BY <1>3, <1>4
  <1> QED
    BY <1>0, <1>2, <1>6, <1>7 DEF Ordered, TextInOrder

(* The HTML of a node that ends with node l.                               *)
Good(w, i, l) ==
  /\ w \in Seq(Piece)
  /\ NestsTags(w, i..l)
  /\ \A j \in i..l : Covers(w, ranges[j].ValueBegin, ranges[j].ValueEnd)
  /\ Covers(w, ranges[i].RawBegin, ranges[i].RawEnd)
  /\ NoneCross => Ordered(w, ranges[i].ValueBegin, ranges[i].ValueEnd)

(* What is in front of child c + 1 of a node, whose nodes are those until  *)
(* node l.                                                                 *)
Partial(w, i, s, c, l) ==
  /\ w \in Seq(Piece)
  /\ NestsTags(w, (i + 1)..l)
  /\ \A j \in (i + 1)..l : Covers(w, ranges[j].ValueBegin, ranges[j].ValueEnd)
  /\ Covers(w, ranges[i].ValueBegin, From(i, s, c))
  /\ NoneCross => Ordered(w, ranges[i].ValueBegin, Reached(i, s, c))

LEMMA ConcatType ==
  ASSUME NEW u \in Seq(Piece), NEW v \in Seq(Piece)
  PROVE  u \o v \in Seq(Piece)
  OBVIOUS

LEMMA ConcatThree ==
  ASSUME NEW u \in Seq(Piece), NEW v \in Seq(Piece), NEW w \in Seq(Piece)
  PROVE  (u \o v) \o w = u \o (v \o w)
  BY SMTT(20), ConcatAssociative

LEMMA EscapeCovers ==
  ASSUME doc \in Documents, NEW b \in Nat, NEW e \in Nat
  PROVE  EscapeText(b, e) \in Seq(Piece) /\ Covers(EscapeText(b, e), b, e)
  <1>1. PICK t : t = EscapeText(b, e)
    OBVIOUS
  <1>2. t \in Seq(Piece)
    BY <1>1, EscapeFacts
  <1>3. ASSUME NEW at \in DOMAIN doc, b < at, at <= e PROVE Places(t, TextPiece(at)) # {}
    <2>1. at \in Nat
      BY DEF Documents
    <2> QED
      BY <1>1, <1>3, <2>1, EscapeFacts
  <1> QED
    BY <1>1, <1>2, <1>3 DEF Covers

LEMMA EmptyFacts ==
  ASSUME NEW a \in Nat, NEW x \in Nat, NEW z \in Nat
  PROVE  /\ <<>> \in Seq(Piece)
         /\ NestsTags(<<>>, a..(a - 1))
         /\ Covers(<<>>, x, x)
         /\ Ordered(<<>>, x, z)
  <1>1. <<>> \in Seq(Piece) /\ DOMAIN <<>> = {} /\ a..(a - 1) = {}
    OBVIOUS
  <1>2. NestsTags(<<>>, a..(a - 1))
    BY <1>1 DEF NestsTags
  <1>3. Ordered(<<>>, x, z)
    BY <1>1 DEF Ordered, TextInOrder
  <1> QED
    BY <1>1, <1>2, <1>3 DEF Covers

(* The text in front of a child, then the HTML of the child.               *)
LEMMA PartialGrows ==
  ASSUME TreeBuilt, NEW i \in 1..Len(ranges), NEW s, s = children[i],
         NEW c \in 1..Len(s), NEW k \in Nat, NEW l \in Nat, i < k, k <= l, s[c] = k,
         NEW u, Partial(u, i, s, c - 1, k - 1), NEW v, Good(v, k, l)
  PROVE  Partial(u \o (Gap(i, s, c - 1) \o v), i, s, c, l)
  <1>1. /\ c - 1 \in 0..Len(s) /\ c \in 0..Len(s) /\ c - 1 # Len(s) /\ (c - 1) + 1 = c /\ c # 0
        /\ Len(s) \in Nat /\ i \in Nat
    <2>1. s \in Seq(Nat)
      BY ChildrenFacts
    <2>2. Len(s) \in Nat
      BY <2>1
    <2>3. i \in Nat
      OBVIOUS
    <2> QED
      BY <2>2, <2>3
  <1>2. PICK b \in Nat, e \in Nat, x \in Nat, h \in Nat :
          /\ b = From(i, s, c - 1) /\ e = Upto(i, s, c - 1)
          /\ x = ranges[i].ValueBegin /\ h = Reached(i, s, c - 1)
          /\ x <= b /\ h <= b /\ x <= h
          /\ NoneCross => h <= e
    <2>1. ranges[i].ValueBegin \in Nat
      BY RangeFacts
    <2> QED
      BY <1>1, <2>1, GapFacts
  <1>3. PICK q \in 1..Len(ranges) : q = k
    BY ChildrenFacts
  <1>4. PICK vb \in Nat, ve \in Nat, re \in Nat :
          /\ vb = ranges[k].ValueBegin /\ ve = ranges[k].ValueEnd /\ re = ranges[k].RawEnd
          /\ vb = e + 1 /\ vb <= ve
          /\ e = ranges[k].RawBegin
    <2>1. e = ranges[k].RawBegin
      BY <1>1, <1>2 DEF Upto
    <2> QED
      BY <1>3, <2>1, RangeFacts
  <1>5. re = From(i, s, c) /\ ve = Reached(i, s, c)
    BY <1>1, <1>4 DEF From, Reached
  <1>6. PICK t : t = Gap(i, s, c - 1) /\ t = EscapeText(b, e)
    BY <1>2 DEF Gap
  <1>7. t \in Seq(Piece) /\ Covers(t, b, e)
    BY <1>6, EscapeCovers DEF TreeBuilt
  <1>8. u \in Seq(Piece) /\ v \in Seq(Piece)
    BY DEF Partial, Good
  <1>9. PICK z : z = t \o v
    OBVIOUS
  <1>10. PICK w : w = u \o z
    OBVIOUS
  <1>11. z \in Seq(Piece) /\ w \in Seq(Piece)
    BY <1>7, <1>8, <1>9, <1>10, ConcatType
  <1>12. NestsTags(w, (i + 1)..l)
    <2>1. NestsTags(t, k..(k - 1))
      BY <1>6, EscapeNests
    <2>2. k \in Nat /\ l + 1 \in Nat /\ k <= k /\ k <= l + 1 /\ (l + 1) - 1 = l
      OBVIOUS
    <2>3. NestsTags(z, k..l)
      <3>1. NestsTags(v, k..((l + 1) - 1))
        BY <2>2 DEF Good
      <3>2. NestsTags(t \o v, k..((l + 1) - 1))
        BY <1>7, <1>8, <2>1, <2>2, <3>1, NestJoin
      <3> QED
        BY <1>9, <2>2, <3>2
    <2>4. i + 1 \in Nat /\ i + 1 <= k
      BY <1>1
    <2>5. NestsTags(u, (i + 1)..(k - 1))
      BY DEF Partial
    <2>6. NestsTags(z, k..((l + 1) - 1))
      BY <2>2, <2>3
    <2>7. NestsTags(u \o z, (i + 1)..((l + 1) - 1))
      BY <1>8, <1>11, <2>2, <2>4, <2>5, <2>6, NestJoin
    <2> QED
      BY <1>10, <2>2, <2>7
  <1>13. ASSUME NEW j \in (i + 1)..l
         PROVE  Covers(w, ranges[j].ValueBegin, ranges[j].ValueEnd)
    <2>1. PICK y1, y2 : y1 = ranges[j].ValueBegin /\ y2 = ranges[j].ValueEnd
      OBVIOUS
    <2>2. j \in (i + 1)..(k - 1) \/ j \in k..l
      BY <1>1
    <2>3. CASE j \in (i + 1)..(k - 1)
      <3>1. Covers(u, y1, y2)
        BY <2>1, <2>3 DEF Partial
      <3> QED
        BY <1>8, <1>10, <1>11, <2>1, <3>1, CoverKept
    <2>4. CASE j \in k..l
      <3>1. Covers(v, y1, y2)
        BY <2>1, <2>4 DEF Good
      <3>2. Covers(z, y1, y2)
        BY <1>7, <1>8, <1>9, <3>1, CoverKept
      <3> QED
        BY <1>8, <1>10, <1>11, <2>1, <3>2, CoverKept
    <2> QED
      BY <2>2, <2>3, <2>4
  <1>14. Covers(w, x, re)
    <2>1. doc \in Documents
      BY DEF TreeBuilt
    <2>2. Covers(v, e, re)
      BY <1>4 DEF Good
    <2>3. Covers(z, b, re)
      BY <1>7, <1>8, <1>9, <2>1, <2>2, CoverJoin
    <2>4. Covers(u, x, b)
      BY <1>2 DEF Partial
    <2> QED
      BY <1>8, <1>10, <1>11, <2>1, <2>3, <2>4, CoverJoin
  <1>15. ASSUME NoneCross PROVE Ordered(w, x, ve)
    <2>1. Ordered(u, x, h)
      BY <1>2, <1>15 DEF Partial
    <2>2. Ordered(t, b, e)
      BY <1>1, <1>2, <1>6, <1>15, GapOrdered
    <2>3. Ordered(v, vb, ve)
      BY <1>4, <1>15 DEF Good
    <2>4. h <= e
      BY <1>2, <1>15
    <2>5. Ordered(u \o t, x, e)
      BY <1>2, <1>7, <1>8, <2>1, <2>2, <2>4, OrderJoin
    <2>6. u \o t \in Seq(Piece)
      BY <1>7, <1>8, ConcatType
    <2>7. x <= vb /\ e <= vb /\ e <= ve
      <3>1. x <= h /\ h <= e
        BY <1>2, <1>15
      <3>2. vb = e + 1 /\ vb <= ve
        BY <1>4
      <3> QED
        BY <3>1, <3>2
    <2>8. Ordered((u \o t) \o v, x, ve)
      BY <1>8, <2>3, <2>5, <2>6, <2>7, OrderJoin
    <2>9. (u \o t) \o v = u \o (t \o v)
      BY <1>7, <1>8, ConcatThree
    <2> QED
      BY <1>9, <1>10, <2>8, <2>9
  <1>16. Partial(w, i, s, c, l)
    BY <1>2, <1>5, <1>11, <1>12, <1>13, <1>14, <1>15 DEF Partial
  <1> QED
    BY <1>6, <1>9, <1>10, <1>16

(* The HTML of node i, when f is that of the nodes below it.               *)
Render(i, f) ==
  <<OpenPiece(i)>>
    \o Seqs!FlattenSeq([c \in 1..Len(children[i]) |->
                          Gap(i, children[i], c - 1) \o f[children[i][c]]])
    \o Gap(i, children[i], Len(children[i])) \o <<ClosePiece(i)>>

(* The HTML of a node is good when that of its children is.                *)
LEMMA RenderStep ==
  ASSUME TreeBuilt, NEW last, \A j \in 0..Len(ranges) : last[j] \in Nat /\ j <= last[j],
         NEW i \in 1..Len(ranges), NEW s, s = children[i],
         NEW a, Parts(a, s, last, i, Len(ranges)),
         NEW f, \A c \in 1..Len(s) : Good(f[s[c]], s[c], last[s[c]])
  PROVE  Good(Render(i, f), i, last[i])
  <1>0. PICK flat : flat = Seqs!FlattenSeq([c \in 1..Len(s) |-> Gap(i, s, c - 1) \o f[s[c]]])
    OBVIOUS
  <1>1. PICK n \in Nat, l \in Nat :
          /\ n = Len(s) /\ l = last[i] /\ i <= l
          /\ i \in Nat /\ \A c \in 1..n : s[c] \in 1..Len(ranges) /\ i < s[c]
    <2>1. /\ s \in Seq(Nat)
          /\ \A c \in 1..Len(s) : s[c] \in 1..Len(ranges) /\ i < s[c]
      BY ChildrenFacts
    <2>2. Len(s) \in Nat
      BY <2>1
    <2>3. i \in 0..Len(ranges) /\ i \in Nat
      BY RangeFacts
    <2> QED
      BY <2>1, <2>2, <2>3
  <1>2. ASSUME NEW c \in 0..n
        PROVE  /\ Gap(i, s, c) \in Seq(Piece)
               /\ NestsTags(Gap(i, s, c), (l + 1)..l)
               /\ Covers(Gap(i, s, c), From(i, s, c), Upto(i, s, c))
    <2>1. PICK b \in Nat, e \in Nat : b = From(i, s, c) /\ e = Upto(i, s, c)
      BY <1>1, <1>2, GapFacts
    <2>2. PICK t : t = Gap(i, s, c) /\ t = EscapeText(b, e)
      BY <2>1 DEF Gap
    <2>6. t \in Seq(Piece) /\ Covers(t, b, e)
      BY <2>2, EscapeCovers DEF TreeBuilt
    <2>7. l + 1 \in Nat /\ (l + 1) - 1 = l
      OBVIOUS
    <2>8. NestsTags(t, (l + 1)..((l + 1) - 1))
      BY <2>2, <2>7, EscapeNests
    <2> QED
      BY <2>1, <2>2, <2>6, <2>7, <2>8
  <1>3. PICK seqs : seqs = [c \in 1..n |-> Gap(i, s, c - 1) \o f[s[c]]]
    OBVIOUS
  <1>4. seqs \in [1..n -> Seq(Piece)]
    <2>1. ASSUME NEW c \in 1..n PROVE Gap(i, s, c - 1) \o f[s[c]] \in Seq(Piece)
      <3>1. c - 1 \in 0..n
        OBVIOUS
      <3>2. Gap(i, s, c - 1) \in Seq(Piece)
        BY <1>2, <3>1
      <3>3. f[s[c]] \in Seq(Piece)
        BY <1>1, <2>1 DEF Good
      <3> QED
        BY <3>2, <3>3, ConcatType
    <2> QED
      BY <1>3, <2>1
  <1>5. PICK g : Prefixes(g, seqs, n) /\ flat = g[n]
    <2>1. \E g : Prefixes(g, seqs, n) /\ Seqs!FlattenSeq(seqs) = g[n]
      BY <1>4, FlattenPrefixes
    <2>2. flat = Seqs!FlattenSeq(seqs)
      BY <1>0, <1>1, <1>3
    <2> QED
      BY <2>1, <2>2
  <1>6. PICK done : done = {c \in 0..n : Partial(g[c], i, s, c, a[c + 1] - 1)}
    OBVIOUS
  <1>7. a[1] = i + 1 /\ a[n + 1] = l + 1
    BY <1>1 DEF Parts
  <1>8. 0 \in done
    <2>1. PICK x \in Nat : x = ranges[i].ValueBegin
      BY RangeFacts
    <2>2. i + 1 \in Nat /\ (i + 1) - 1 = i /\ a[0 + 1] - 1 = i /\ 0 \in 0..n
      BY <1>1, <1>7
    <2>3. From(i, s, 0) = x /\ Reached(i, s, 0) = x
      BY <2>1 DEF From, Reached
    <2>4. g[0] = <<>>
      BY <1>5 DEF Prefixes
    <2>5. <<>> \in Seq(Piece) /\ Covers(<<>>, x, x) /\ Ordered(<<>>, x, x)
      BY <2>2, EmptyFacts
    <2>6. NestsTags(<<>>, (i + 1)..((i + 1) - 1))
      BY <2>1, <2>2, EmptyFacts
    <2>7. \A j \in (i + 1)..i : FALSE
      BY <1>1
    <2>8. Partial(<<>>, i, s, 0, i)
      BY <2>1, <2>2, <2>3, <2>5, <2>6, <2>7 DEF Partial
    <2> QED
      BY <1>6, <2>2, <2>4, <2>8
  <1>9. ASSUME NEW c \in 1..n, c - 1 \in done PROVE c \in done
    <2>1. PICK k \in 1..Len(ranges) : k = s[c] /\ i < k /\ k \in Nat
      BY <1>1
    <2>2. PICK m \in Nat : m = last[k] /\ k <= m
      <3>1. k \in 0..Len(ranges)
        BY RangeFacts
      <3> QED
        BY <3>1
    <2>3. a[c] = k /\ a[c + 1] = m + 1
      BY <1>1, <2>1, <2>2 DEF Parts
    <2>4. (c - 1) + 1 = c /\ a[(c - 1) + 1] - 1 = k - 1 /\ a[c + 1] - 1 = m /\ c \in 1..Len(s)
          /\ c \in 0..n
      <3>1. (c - 1) + 1 = c /\ c \in 1..Len(s) /\ c \in 0..n /\ (m + 1) - 1 = m
        BY <1>1
      <3> QED
        BY <2>3, <3>1
    <2>5. Partial(g[c - 1], i, s, c - 1, k - 1)
      <3>1. Partial(g[c - 1], i, s, c - 1, a[(c - 1) + 1] - 1)
        BY <1>6, <1>9
      <3> QED
        BY <2>4, <3>1
    <2>6. Good(f[k], k, m)
      BY <2>1, <2>2, <2>4
    <2>7. g[c] = g[c - 1] \o (Gap(i, s, c - 1) \o f[k])
      BY <1>3, <1>5, <2>1 DEF Prefixes
    <2>8. Partial(g[c - 1] \o (Gap(i, s, c - 1) \o f[k]), i, s, c, m)
      BY <2>1, <2>2, <2>4, <2>5, <2>6, PartialGrows
    <2> QED
      BY <1>6, <2>4, <2>7, <2>8
  <1>10. n \in done
    <2>1. 0..n \subseteq done
      BY <1>8, <1>9, CountUp
    <2> QED
      BY <1>1, <2>1
  <1>11. Partial(flat, i, s, n, l)
    <2>1. a[n + 1] - 1 = l
      BY <1>7
    <2> QED
      BY <1>5, <1>6, <1>10, <2>1
  <1>12. PICK x \in Nat, y \in Nat, b \in Nat, h \in Nat :
           /\ x = ranges[i].ValueBegin /\ y = ranges[i].ValueEnd
           /\ b = From(i, s, n) /\ h = Reached(i, s, n)
           /\ x <= b /\ h <= b /\ Upto(i, s, n) = y /\ (NoneCross => h <= y)
    <2>1. n \in 0..Len(s) /\ Upto(i, s, n) = ranges[i].ValueEnd
      BY <1>1 DEF Upto
    <2>2. ranges[i].ValueBegin \in Nat /\ ranges[i].ValueEnd \in Nat
      BY RangeFacts
    <2> QED
      BY <2>1, <2>2, GapFacts
  <1>13. PICK t : t = Gap(i, s, n)
    OBVIOUS
  <1>14. PICK w : w = flat \o t
    OBVIOUS
  <1>15. n \in 0..n /\ n \in 0..Len(s)
    BY <1>1
  <1>16. /\ t \in Seq(Piece) /\ flat \in Seq(Piece) /\ w \in Seq(Piece)
         /\ NestsTags(t, (l + 1)..l) /\ Covers(t, b, y)
         /\ NestsTags(flat, (i + 1)..l) /\ Covers(flat, x, b)
    <2>1. flat \in Seq(Piece) /\ NestsTags(flat, (i + 1)..l) /\ Covers(flat, x, b)
      BY <1>11, <1>12 DEF Partial
    <2>2. t \in Seq(Piece) /\ NestsTags(t, (l + 1)..l) /\ Covers(t, b, y)
      BY <1>2, <1>12, <1>13, <1>15
    <2> QED
      BY <1>14, <2>1, <2>2, ConcatType
  <1>17. NestsTags(w, (i + 1)..l)
    <2>1. i + 1 \in Nat /\ l + 1 \in Nat /\ i + 1 <= l + 1 /\ l + 1 <= l + 1 /\ (l + 1) - 1 = l
      BY <1>1
    <2>2. NestsTags(flat, (i + 1)..((l + 1) - 1)) /\ NestsTags(t, (l + 1)..((l + 1) - 1))
      BY <1>16, <2>1
    <2>3. NestsTags(flat \o t, (i + 1)..((l + 1) - 1))
      BY <1>16, <2>1, <2>2, NestJoin
    <2> QED
      BY <1>14, <2>1, <2>3
  <1>18. Covers(w, x, y)
    BY <1>14, <1>16, CoverJoin DEF TreeBuilt
  <1>19. ASSUME NoneCross PROVE Ordered(w, x, y)
    <2>1. Ordered(flat, x, h)
      BY <1>11, <1>12, <1>19 DEF Partial
    <2>2. Ordered(t, b, y)
      BY <1>12, <1>13, <1>15, <1>19, GapOrdered
    <2>3. h <= y
      BY <1>12, <1>19
    <2> QED
      BY <1>12, <1>14, <1>16, <2>1, <2>2, <2>3, OrderJoin
  <1>20. PICK o, d, r : o = <<OpenPiece(i)>> /\ d = <<ClosePiece(i)>> /\ r = (o \o w) \o d
    OBVIOUS
  <1>21. r = o \o flat \o t \o d
    <2>1. o \in Seq(Piece)
      <3>1. OpenPiece(i) \in Piece
        BY <1>1 DEF OpenPiece, Piece
      <3> QED
        BY <1>20, <3>1
    <2>2. (o \o flat) \o t = o \o (flat \o t)
      BY <1>16, <2>1, ConcatThree
    <2> QED
      BY <1>14, <1>20, <2>2
  <1>22. r \in Seq(Piece) /\ Wraps(r, w, Len(w), i)
    BY <1>1, <1>16, <1>20, WrapFacts
  <1>23. NestsTags(r, i..l)
    BY <1>1, <1>16, <1>17, <1>20, NestWrap
  <1>24. ASSUME NEW j \in i..l PROVE Covers(r, ranges[j].ValueBegin, ranges[j].ValueEnd)
    <2>1. j = i \/ j \in (i + 1)..l
      BY <1>1
    <2>2. CASE j = i
      <3>1. Covers(w, ranges[j].ValueBegin, ranges[j].ValueEnd)
        BY <1>12, <1>18, <2>2
      <3> QED
        BY <1>16, <1>22, <3>1, WrapText
    <2>3. CASE j \in (i + 1)..l
      <3>1. PICK y1, y2 : y1 = ranges[j].ValueBegin /\ y2 = ranges[j].ValueEnd
        OBVIOUS
      <3>2. Covers(flat, y1, y2)
        BY <1>11, <2>3, <3>1 DEF Partial
      <3>3. Covers(w, y1, y2)
        BY <1>14, <1>16, <3>2, CoverKept
      <3> QED
        BY <1>16, <1>22, <3>1, <3>3, WrapText
    <2> QED
      BY <2>1, <2>2, <2>3
  <1>25. Covers(r, ranges[i].RawBegin, ranges[i].RawEnd)
    <2>1. PICK q : q = ranges[i] /\ Marked(q) /\ doc \in Documents
      BY DEF TreeBuilt, AllMarked
    <2>2. Covers(r, x, y)
      BY <1>16, <1>18, <1>22, WrapText
    <2>3. x = q.ValueBegin /\ y = q.ValueEnd
      BY <1>12, <2>1
    <2>4. /\ q.RawBegin \in Nat /\ q.RawEnd \in Nat
          /\ x = q.RawBegin + 1 /\ q.RawBegin < q.RawEnd /\ x <= y
          /\ y = q.RawEnd \/ y = q.RawEnd - 1
      BY <2>1, <2>3, MarkedFacts
    <2>5. doc[x].k \in M!TagKinds /\ (y # q.RawEnd => doc[q.RawEnd].k \in M!TagKinds)
      <3>1. x = q.RawBegin + 1
        BY <2>4
      <3> QED
        BY <2>1, <2>3, <3>1 DEF Marked, M!TagKinds
    <2>6. ASSUME NEW at \in DOMAIN doc, q.RawBegin < at, at <= q.RawEnd,
                 doc[at].k \notin M!TagKinds
          PROVE  Places(r, TextPiece(at)) # {}
      <3>1. at \in Nat
        BY <2>1 DEF Documents
      <3>2. at # x /\ (y # q.RawEnd => at # q.RawEnd)
        BY <2>5, <2>6
      <3>3. x < at /\ at <= y
        BY <2>4, <2>6, <3>1, <3>2
      <3> QED
        BY <2>2, <2>6, <3>3 DEF Covers
    <2> QED
      BY <2>1, <2>6 DEF Covers
  <1>26. NoneCross => Ordered(r, ranges[i].ValueBegin, ranges[i].ValueEnd)
    BY <1>12, <1>16, <1>19, <1>22, WrapText
  <1>27. Good(r, i, l)
    BY <1>22, <1>23, <1>24, <1>25, <1>26 DEF Good
  <1>28. Render(i, f) = <<OpenPiece(i)>> \o flat \o t \o <<ClosePiece(i)>>
    BY <1>0, <1>1, <1>13 DEF Render
  <1> QED
    BY <1>1, <1>20, <1>21, <1>27, <1>28

(* The HTML of a node depends on that of its children only.                *)
LEMMA RenderSame ==
  ASSUME NEW i, NEW f, NEW h, \A c \in 1..Len(children[i]) : f[children[i][c]] = h[children[i][c]]
  PROVE  Render(i, f) = Render(i, h)
  <1>1. [c \in 1..Len(children[i]) |-> Gap(i, children[i], c - 1) \o f[children[i][c]]]
          = [c \in 1..Len(children[i]) |-> Gap(i, children[i], c - 1) \o h[children[i][c]]]
    OBVIOUS
  <1> QED
    BY <1>1 DEF Render

(* A node's HTML is defined from that of later nodes.                      *)
LEMMA RenderExists ==
  ASSUME TreeBuilt
  PROVE  \E f : f = [i \in 1..Len(ranges) |-> Render(i, f)]
  <1>1. PICK n \in Nat : n = Len(ranges)
    BY RangeFacts
  <1> DEFINE Late(f, m) == DOMAIN f = 1..n /\ \A i \in (n - m + 1)..n : f[i] = Render(i, f)
  <1>2. PICK T : T = {m \in 0..n : \E f : Late(f, m)}
    OBVIOUS
  <1>3. 0 \in T
    <2>1. PICK f : f = [i \in 1..n |-> <<>>]
      OBVIOUS
    <2>2. DOMAIN f = 1..n /\ \A i \in (n - 0 + 1)..n : FALSE
      BY <2>1
    <2>3. Late(f, 0) /\ 0 \in 0..n
      BY <2>2
    <2> HIDE DEF Late
    <2> QED
      BY <1>2, <2>3
  <1>4. ASSUME NEW m \in 1..n, m - 1 \in T PROVE m \in T
    <2>1. PICK f : Late(f, m - 1)
      <3> HIDE DEF Late
      <3> QED
        BY <1>2, <1>4
    <2>2. PICK k \in 1..n : k = n - m + 1 /\ n - (m - 1) + 1 = k + 1
      <3>1. n - m + 1 \in 1..n /\ n - (m - 1) + 1 = (n - m + 1) + 1
        OBVIOUS
      <3> QED
        BY <3>1
    <2>3. PICK h : h = [i \in 1..n |-> IF i = k THEN Render(k, f) ELSE f[i]]
      OBVIOUS
    <2>4. ASSUME NEW i \in k..n PROVE h[i] = Render(i, h)
      <3>1. i \in 1..n /\ i \in 1..Len(ranges)
        BY <1>1
      <3>2. ASSUME NEW c \in 1..Len(children[i])
            PROVE  f[children[i][c]] = h[children[i][c]]
        <4>1. PICK j \in 1..Len(ranges) : j = children[i][c] /\ i < j
          BY <3>1, ChildrenFacts
        <4>2. j \in 1..n /\ j # k
          BY <1>1, <4>1
        <4> QED
          BY <2>3, <4>1, <4>2
      <3>3. Render(i, f) = Render(i, h)
        BY <3>2, RenderSame
      <3>4. CASE i = k
        BY <2>3, <3>1, <3>3, <3>4
      <3>5. CASE i # k
        <4>1. i \in (k + 1)..n
          BY <3>5
        <4>2. f[i] = Render(i, f)
          BY <2>1, <2>2, <4>1
        <4> QED
          BY <2>3, <3>1, <3>3, <3>5, <4>2
      <3> QED
        BY <3>4, <3>5
    <2>5. DOMAIN h = 1..n
      BY <2>3
    <2>6. Late(h, m) /\ m \in 0..n
      BY <2>2, <2>4, <2>5
    <2> HIDE DEF Late
    <2> QED
      BY <1>2, <2>6
  <1>5. n \in T
    <2>1. 0..n \subseteq T
      BY <1>3, <1>4, CountUp
    <2> QED
      BY <2>1
  <1>6. PICK f : Late(f, n)
    <2> HIDE DEF Late
    <2> QED
      BY <1>2, <1>5
  <1>7. n - n + 1 = 1
    OBVIOUS
  <1>8. DOMAIN f = 1..n /\ \A i \in 1..n : f[i] = Render(i, f)
    BY <1>6, <1>7
  <1>9. PICK h : h = [i \in 1..n |-> Render(i, f)]
    OBVIOUS
  <1>10. ASSUME NEW i \in 1..n PROVE Render(i, f) = Render(i, h)
    <2>1. \A c \in 1..Len(children[i]) : children[i][c] \in 1..n
      BY <1>1, ChildrenFacts
    <2>2. \A j \in 1..n : f[j] = h[j]
      BY <1>8, <1>9
    <2> QED
      BY <2>1, <2>2, RenderSame
  <1>11. h = [i \in 1..n |-> Render(i, h)]
    BY <1>9, <1>10
  <1> QED
    BY <1>1, <1>11

(* RenderNode, written as above.                                           *)
LEMMA RenderNodeIs ==
  ASSUME TreeBuilt
  PROVE  RenderNode = [i \in 1..Len(ranges) |-> Render(i, RenderNode)]
  <1> DEFINE Written(i, f) ==
        LET below == children[i]
            Cursor(c) == IF c = 0 THEN ranges[i].ValueBegin ELSE AfterChild(below[c])
            InFront(c) == EscapeText(Cursor(c - 1), ranges[below[c]].RawBegin)
            AfterAll(c) == EscapeText(Cursor(c), ranges[i].ValueEnd)
        IN  <<OpenPiece(i)>>
              \o Seqs!FlattenSeq([c \in 1..Len(below) |-> InFront(c) \o f[below[c]]])
              \o AfterAll(Len(below)) \o <<ClosePiece(i)>>
  <1>1. ASSUME NEW i \in 1..Len(ranges), NEW f PROVE Render(i, f) = Written(i, f)
    <2>1. PICK s : s = children[i]
      OBVIOUS
    <2>2. Len(s) \in Nat
      BY <2>1, ChildrenFacts
    <2>3. \A c \in 1..Len(s) : c - 1 # Len(s) /\ (c - 1) + 1 = c
      BY <2>2
    <2>4. ASSUME NEW c \in 1..Len(s)
          PROVE  Gap(i, s, c - 1) =
                   EscapeText(IF c - 1 = 0 THEN ranges[i].ValueBegin ELSE AfterChild(s[c - 1]),
                              ranges[s[c]].RawBegin)
      BY <2>3 DEF Gap, From, Upto, AfterChild
    <2>5. Gap(i, s, Len(s)) =
            EscapeText(IF Len(s) = 0 THEN ranges[i].ValueBegin ELSE AfterChild(s[Len(s)]),
                       ranges[i].ValueEnd)
      BY DEF Gap, From, Upto, AfterChild
    <2>6. [c \in 1..Len(s) |-> Gap(i, s, c - 1) \o f[s[c]]]
            = [c \in 1..Len(s) |->
                 EscapeText(IF c - 1 = 0 THEN ranges[i].ValueBegin ELSE AfterChild(s[c - 1]),
                            ranges[s[c]].RawBegin) \o f[s[c]]]
      BY <2>4
    <2> QED
      BY <2>1, <2>5, <2>6 DEF Render
  <1>2. PICK g : g = CHOOSE h : h = [i \in 1..Len(ranges) |-> Written(i, h)]
    OBVIOUS
  <1>3. RenderNode = g
    BY <1>2 DEF RenderNode
  <1> HIDE DEF Written
  <1>4. ASSUME NEW f
        PROVE  [i \in 1..Len(ranges) |-> Written(i, f)] = [i \in 1..Len(ranges) |-> Render(i, f)]
    BY <1>1
  <1>5. PICK f : f = [i \in 1..Len(ranges) |-> Render(i, f)]
    BY RenderExists
  <1>6. f = [i \in 1..Len(ranges) |-> Written(i, f)]
    BY <1>4, <1>5, Zenon
  <1>7. g = [i \in 1..Len(ranges) |-> Written(i, g)]
    BY <1>2, <1>6, Zenon
  <1> QED
    BY <1>3, <1>4, <1>7, Zenon

(* The children of a node come after it, so the HTML of every node is good.*)
LEMMA RenderGood ==
  ASSUME TreeBuilt, NEW last, \A j \in 0..Len(ranges) : last[j] \in Nat /\ j <= last[j],
         \A i \in 1..Len(ranges) : \E a : Parts(a, children[i], last, i, Len(ranges)),
         NEW f, f = [i \in 1..Len(ranges) |-> Render(i, f)]
  PROVE  \A i \in 1..Len(ranges) : Good(f[i], i, last[i])
  <1> DEFINE Bad == {i \in 1..Len(ranges) : ~Good(f[i], i, last[i])}
  <1> SUFFICES ASSUME Bad # {} PROVE FALSE
    OBVIOUS
  <1>1. PICK i \in Bad : \A j \in Bad : j <= i
    <2>1. Bad \in SUBSET (0..Len(ranges)) /\ Len(ranges) \in Nat
      BY RangeFacts
    <2> HIDE DEF Bad
    <2> QED
      BY <2>1, GreatestNat
  <1>2. i \in 1..Len(ranges) /\ ~Good(f[i], i, last[i])
    OBVIOUS
  <1>3. PICK s, a : s = children[i] /\ Parts(a, s, last, i, Len(ranges))
    BY <1>2
  <1>4. ASSUME NEW c \in 1..Len(s) PROVE Good(f[s[c]], s[c], last[s[c]])
    <2>1. PICK j \in 1..Len(ranges) : j = s[c] /\ i < j
      BY <1>2, <1>3, ChildrenFacts
    <2>2. j \notin Bad
      BY <1>1, <2>1
    <2> QED
      BY <2>1, <2>2
  <1>5. f[i] = Render(i, f)
    BY <1>2
  <1>6. Good(Render(i, f), i, last[i])
    BY <1>2, <1>3, <1>4, RenderStep
  <1> QED
    BY <1>2, <1>5, <1>6

(* The HTML of the first c roots, which are those of the nodes until l.    *)
Rooted(w, c, l) ==
  /\ w \in Seq(Piece)
  /\ NestsTags(w, 1..l)
  /\ \A j \in 1..l : Covers(w, ranges[j].ValueBegin, ranges[j].ValueEnd)
  /\ NoneCross => Ordered(w, 0, IF c = 0 THEN 0 ELSE ranges[roots[c]].ValueEnd)

LEMMA RootedGrows ==
  ASSUME TreeBuilt, NEW c \in 1..Len(roots), NEW k \in Nat, NEW l \in Nat, k <= l,
         roots[c] = k,
         NEW u, Rooted(u, c - 1, k - 1), NEW v, Good(v, k, l)
  PROVE  Rooted(u \o v, c, l)
  <1>1. /\ Len(roots) \in Nat
        /\ \A d \in 1..Len(roots) : roots[d] \in 1..Len(ranges)
        /\ \A d, e \in 1..Len(roots) :
             d < e => roots[d] < roots[e] /\ ~H!ContainsRange(ranges[roots[d]], ranges[roots[e]])
    BY RootsFacts
  <1>2. PICK q \in 1..Len(ranges) : q = k
    BY <1>1
  <1>3. k \in Nat /\ l + 1 \in Nat /\ 1 <= k /\ k <= l + 1 /\ (l + 1) - 1 = l /\ 1 \in Nat
    BY <1>2
  <1>4. u \in Seq(Piece) /\ v \in Seq(Piece)
    BY DEF Rooted, Good
  <1>5. PICK w : w = u \o v /\ w \in Seq(Piece)
    BY <1>4, ConcatType
  <1>6. NestsTags(w, 1..l)
    <2>1. NestsTags(u, 1..(k - 1)) /\ NestsTags(v, k..((l + 1) - 1))
      BY <1>3 DEF Rooted, Good
    <2>2. NestsTags(u \o v, 1..((l + 1) - 1))
      BY <1>3, <1>4, <2>1, NestJoin
    <2> QED
      BY <1>3, <1>5, <2>2
  <1>7. ASSUME NEW j \in 1..l PROVE Covers(w, ranges[j].ValueBegin, ranges[j].ValueEnd)
    <2>1. PICK y1, y2 : y1 = ranges[j].ValueBegin /\ y2 = ranges[j].ValueEnd
      OBVIOUS
    <2>2. j \in 1..(k - 1) \/ j \in k..l
      OBVIOUS
    <2>3. Covers(u, y1, y2) \/ Covers(v, y1, y2)
      BY <2>1, <2>2 DEF Rooted, Good
    <2> QED
      BY <1>4, <1>5, <2>1, <2>3, CoverKept
  <1>8. ASSUME NoneCross PROVE Ordered(w, 0, ranges[k].ValueEnd)
    <2>1. PICK t \in Nat, z \in Nat, x \in Nat :
            /\ t = ranges[k].ValueBegin /\ z = ranges[k].ValueEnd /\ x = ranges[k].RawBegin
            /\ t <= z /\ x <= t
      <3>1. /\ ranges[q].ValueBegin \in Nat /\ ranges[q].ValueEnd \in Nat
            /\ ranges[q].ValueBegin <= ranges[q].ValueEnd
            /\ ranges[q].ValueBegin = ranges[q].RawBegin + 1 /\ ranges[q].RawBegin \in Nat
        BY RangeFacts
      <3> QED
        BY <1>2, <3>1
    <2>0. PICK y \in Nat : y = (IF c - 1 = 0 THEN 0 ELSE ranges[roots[c - 1]].ValueEnd) /\ y <= t
      <3>2. CASE c - 1 = 0
        <4>1. 0 \in Nat /\ 0 <= t
          OBVIOUS
        <4> QED
          BY <3>2, <4>1
      <3>3. CASE c - 1 # 0
        <4>1. c - 1 \in 1..Len(roots) /\ c - 1 < c
          BY <1>1, <3>3
        <4>2. PICK p \in 1..Len(ranges) :
                p = roots[c - 1] /\ p < k /\ ~H!ContainsRange(ranges[p], ranges[k])
          BY <1>1, <4>1
        <4>3. ranges[p].RawEnd <= x
          BY <1>2, <1>8, <2>1, <4>2, Apart
        <4>4. PICK pe \in Nat, pr \in Nat :
                pe = ranges[p].ValueEnd /\ pr = ranges[p].RawEnd /\ pe <= pr
          BY RangeFacts
        <4>5. pe <= t
          <5>1. pr <= x /\ pe <= pr
            BY <4>3, <4>4
          <5>2. x <= t
            BY <2>1
          <5> QED
            BY <5>1, <5>2
        <4> QED
          BY <3>3, <4>2, <4>4, <4>5
      <3> QED
        BY <3>2, <3>3
    <2>2. Ordered(u, 0, y)
      BY <1>8, <2>0 DEF Rooted
    <2>3. Ordered(v, t, z)
      BY <1>8, <2>1 DEF Good
    <2>4. 0 \in Nat /\ 0 <= t /\ y <= z
      <3>1. y <= t
        BY <2>0
      <3>2. t <= z
        BY <2>1
      <3> QED
        BY <3>1, <3>2
    <2> QED
      BY <1>4, <1>5, <2>0, <2>1, <2>2, <2>3, <2>4, OrderJoin
  <1>9. c # 0
    OBVIOUS
  <1>10. Rooted(w, c, l)
    BY <1>5, <1>6, <1>7, <1>8, <1>9 DEF Rooted
  <1> QED
    BY <1>5, <1>10

(* The HTML of a finished tree has its tags, well nested, and its text.    *)
LEMMA RootsShowTree ==
  ASSUME TreeBuilt, roots # <<>>
  PROVE  /\ HtmlNests(RenderedRoots) /\ HtmlKeepsText(RenderedRoots)
         /\ RenderedRoots # <<>> /\ RenderedRoots \in Seq(Piece)
  <1>1. PICK n \in Nat, m \in Nat :
          /\ n = Len(ranges) /\ m = Len(roots) /\ n = entries
          /\ \A d \in 1..m : roots[d] \in 1..n
    BY RangeFacts, RootsFacts DEF TreeBuilt
  <1>2. PICK last, a :
          /\ \A i \in 0..n : last[i] \in Nat /\ i <= last[i]
          /\ last[0] = n
          /\ Parts(a, roots, last, 0, n)
          /\ \A i \in 1..n : \E b : Parts(b, children[i], last, i, n)
    <2>1. Placed(ranges) /\ entries \in 0..Len(ranges) /\ Hung(ranges, entries, children, roots)
      BY DEF TreeBuilt, TreeInv
    <2>2. \E last : /\ \A i \in 0..Len(ranges) : last[i] \in Nat /\ i <= last[i]
                    /\ last[0] = entries
                    /\ \E a : Parts(a, roots, last, 0, entries)
                    /\ \A i \in 1..Len(ranges) : \E a : Parts(a, children[i], last, i, entries)
      BY <2>1, TreeParts
    <2> QED
      BY <1>1, <2>2
  <1>3. PICK f : f = RenderNode /\ f = [i \in 1..Len(ranges) |-> Render(i, f)]
    BY RenderNodeIs
  <1>4. \A i \in 1..n : Good(f[i], i, last[i])
    BY <1>1, <1>2, <1>3, RenderGood
  <1>5. PICK seqs : seqs = [r \in 1..m |-> f[roots[r]]]
    OBVIOUS
  <1>6. seqs \in [1..m -> Seq(Piece)]
    BY <1>1, <1>4, <1>5 DEF Good
  <1>7. PICK g : Prefixes(g, seqs, m) /\ RenderedRoots = g[m]
    <2>1. \E g : Prefixes(g, seqs, m) /\ Seqs!FlattenSeq(seqs) = g[m]
      BY <1>6, FlattenPrefixes
    <2>2. RenderedRoots = Seqs!FlattenSeq(seqs)
      BY <1>1, <1>3, <1>5 DEF RenderedRoots
    <2> QED
      BY <2>1, <2>2
  <1>8. PICK done : done = {c \in 0..m : Rooted(g[c], c, a[c + 1] - 1)}
    OBVIOUS
  <1>9. a[1] = 1 /\ a[m + 1] = n + 1
    <2>1. 0 + 1 = 1
      OBVIOUS
    <2> QED
      BY <1>1, <1>2, <2>1 DEF Parts
  <1>10. 0 \in done
    <2>1. a[0 + 1] - 1 = 0 /\ 0 \in 0..m /\ 1 - 1 = 0 /\ 1 \in Nat /\ 0 \in Nat
      BY <1>9
    <2>2. <<>> \in Seq(Piece) /\ Ordered(<<>>, 0, 0)
      BY <2>1, EmptyFacts
    <2>3. NestsTags(<<>>, 1..(1 - 1))
      BY <2>1, EmptyFacts
    <2>4. \A j \in 1..0 : FALSE
      OBVIOUS
    <2>5. Rooted(<<>>, 0, 0)
      BY <2>1, <2>2, <2>3, <2>4 DEF Rooted
    <2>6. g[0] = <<>>
      BY <1>7 DEF Prefixes
    <2> QED
      BY <1>8, <2>1, <2>5, <2>6
  <1>11. ASSUME NEW c \in 1..m, c - 1 \in done PROVE c \in done
    <2>1. PICK k \in 1..n : k = roots[c] /\ k \in Nat
      BY <1>1
    <2>2. PICK l \in Nat : l = last[k] /\ k <= l
      <3>1. k \in 0..n
        OBVIOUS
      <3> QED
        BY <1>2, <3>1
    <2>3. a[c] = k /\ a[c + 1] = l + 1
      BY <1>1, <1>2, <2>1, <2>2 DEF Parts
    <2>4. /\ (c - 1) + 1 = c /\ a[(c - 1) + 1] - 1 = k - 1 /\ a[c + 1] - 1 = l
          /\ c \in 0..m /\ c \in 1..Len(roots)
      <3>1. (c - 1) + 1 = c /\ c \in 0..m /\ c \in 1..Len(roots) /\ (l + 1) - 1 = l
        BY <1>1
      <3> QED
        BY <2>3, <3>1
    <2>5. Rooted(g[c - 1], c - 1, k - 1)
      <3>1. Rooted(g[c - 1], c - 1, a[(c - 1) + 1] - 1)
        BY <1>8, <1>11
      <3> QED
        BY <2>4, <3>1
    <2>6. Good(f[k], k, l)
      BY <1>4, <2>2
    <2>7. g[c] = g[c - 1] \o f[k]
      BY <1>5, <1>7, <2>1 DEF Prefixes
    <2>8. Rooted(g[c - 1] \o f[k], c, l)
      BY <2>1, <2>2, <2>4, <2>5, <2>6, RootedGrows
    <2> QED
      BY <1>8, <2>4, <2>7, <2>8
  <1>12. m \in done
    <2>1. 0..m \subseteq done
      BY <1>10, <1>11, CountUp
    <2> QED
      BY <2>1
  <1>13. PICK w : w = RenderedRoots /\ Rooted(w, m, n)
    <2>1. a[m + 1] - 1 = n
      BY <1>9
    <2> QED
      BY <1>7, <1>8, <1>12, <2>1
  <1>14. HtmlNests(w)
    BY <1>1, <1>13 DEF Rooted, HtmlNests
  <1>15. HtmlKeepsText(w)
    <2>1. ASSUME NEW at \in TextPositions PROVE Places(w, TextPiece(at)) # {}
      <3>1. PICK i \in 1..n : ranges[i].ValueBegin < at /\ at <= ranges[i].ValueEnd
        BY <1>1 DEF TextPositions, InsideTag
      <3>2. Covers(w, ranges[i].ValueBegin, ranges[i].ValueEnd)
        BY <1>13 DEF Rooted
      <3>3. at \in DOMAIN doc /\ doc[at].k \notin M!TagKinds
        BY DEF TextPositions
      <3> QED
        BY <3>1, <3>2, <3>3 DEF Covers
    <2>2. NoneCross => TextInOrder(w)
      BY <1>13 DEF Rooted, Ordered
    <2> QED
      BY <2>1, <2>2 DEF HtmlKeepsText
  <1>16. w # <<>>
    <2>1. m # 0
      BY <1>1, RootsFacts
    <2>2. 1 \in 1..m /\ roots[1] \in 1..n
      BY <1>1, <2>1
    <2>3. \E p : p \in Places(w, OpenPiece(roots[1]))
      BY <1>1, <1>14, <2>2 DEF HtmlNests, NestsTags
    <2> QED
      BY <2>3 DEF Places
  <1>17. w \in Seq(Piece)
    BY <1>13 DEF Rooted
  <1> QED
    BY <1>13, <1>14, <1>15, <1>16, <1>17

(* Nothing more is cut off of what is left.                                *)
LEMMA BodyStays ==
  ASSUME NEW d \in Documents
  PROVE  M!BodyOf(M!BodyOf(d)) = M!BodyOf(d)
  <1>1. PICK size \in Nat, m \in Nat : size = Len(d) /\ m = M!Lead(d) /\ m \in 0..size
    BY LeadFacts
  <1>2. PICK b : b = M!BodyOf(d) /\ b \in Documents
    BY BodyIsText
  <1>3. /\ Len(b) = size - m
        /\ \A j \in 1..(size - m) : b[j] = d[m + j]
    <2>1. d \in Seq(M!Token(TagNames))
      BY DEF Documents
    <2> QED
      BY <1>1, <1>2, <2>1, SliceFacts DEF M!BodyOf
  <1>4. M!Lead(b) = 0
    <2>1. PICK l \in Nat : l = M!Lead(b) /\ l <= size - m
      BY <1>2, <1>3, LeadFacts
    <2> SUFFICES ASSUME l # 0 PROVE FALSE
      BY <2>1
    <2>2. 1 \in 1..l /\ 1 \in 1..(size - m) /\ m + 1 \in 0..size
      BY <1>1, <2>1
    <2>3. b[1].k \in {"space", "xmldecl", "doctype"}
      BY <1>2, <2>1, <2>2, LeadFacts
    <2>4. d[m + 1].k \in {"space", "xmldecl", "doctype"}
      BY <1>3, <2>2, <2>3
    <2>5. \A j \in 1..(m + 1) : j \in 1..m \/ j = m + 1
      BY <1>1
    <2>6. \A j \in 1..(m + 1) : d[j].k \in {"space", "xmldecl", "doctype"}
      BY <1>1, <2>4, <2>5, LeadFacts
    <2>7. m + 1 <= m
      BY <1>1, <2>2, <2>6, LeadFacts
    <2> QED
      BY <2>7
  <1>5. M!BodyOf(b) = SubSeq(b, 1, Len(b))
    BY <1>4 DEF M!BodyOf
  <1>6. SubSeq(b, 1, Len(b)) = b
    <2>1. b \in Seq(M!Token(TagNames))
      BY <1>2 DEF Documents
    <2> QED
      BY <2>1, WholeSlice
  <1> QED
    BY <1>2, <1>5, <1>6

(* Every closing tag that was passed closes a tag.                         *)
ClosersKnown ==
  \A j \in 1..index :
    doc[j].k = "close" => \E i \in 1..index : M!Starts(doc[i]) /\ M!TagAt(doc, i).RawEnd = j

LEMMA ClosersStep == ResultInv /\ ClosersKnown /\ [Next]_vars => ClosersKnown'
  <1> SUFFICES ASSUME ResultInv, ClosersKnown, [Next]_vars PROVE ClosersKnown'
    OBVIOUS
  <1>1. CASE UNCHANGED <<doc, index>>
    BY <1>1 DEF ClosersKnown
  <1>2. ASSUME doc' = doc, index' = index + 1, index \in Nat,
               doc[index + 1].k # "close" \/
                 \E i \in 1..(index + 1) :
                   M!Starts(doc[i]) /\ M!TagAt(doc, i).RawEnd = index + 1
        PROVE  ClosersKnown'
    <2>1. PICK n \in Nat : n = index
      BY <1>2
    <2> SUFFICES ASSUME NEW j \in 1..(n + 1), doc[j].k = "close"
                 PROVE  \E i \in 1..(n + 1) : M!Starts(doc[i]) /\ M!TagAt(doc, i).RawEnd = j
      BY <1>2, <2>1 DEF ClosersKnown
    <2>2. j \in 1..n \/ j = n + 1
      OBVIOUS
    <2>3. \A i \in 1..n : i \in 1..(n + 1)
      OBVIOUS
    <2> QED
      BY <1>2, <2>1, <2>2, <2>3 DEF ClosersKnown
  <1>3. index \in Nat
    BY DEF ResultInv, IInv, TypeOK
  <1>4. CASE Pass \/ SelfClose \/ Open
    <2>1. doc' = doc /\ index' = index + 1 /\ doc[index + 1].k # "close"
      BY <1>4 DEF Pass, SelfClose, Open, M!Passed, token
    <2> QED
      BY <1>2, <1>3, <2>1
  <1>5. CASE Close
    <2>1. status = "running" /\ status' = "running" /\ doc' = doc /\ index' = index + 1
      BY <1>5 DEF Close, Scanning
    <2>2. ScanInv'
      BY <1>5, <2>1, CloseScan DEF ResultInv
    <2>3. PICK q, n : /\ parsed_tags' = Append(parsed_tags, q) /\ q.Range.RawEnd = index + 1
                      /\ n = Len(parsed_tags)
      BY <1>5 DEF Close
    <2>4. parsed_tags \in Seq(ParsedTag) /\ parsed_tags' \in Seq(ParsedTag)
      BY <2>1, <2>2 DEF ResultInv, ScanInv
    <2>5. Len(parsed_tags') = n + 1 /\ parsed_tags'[n + 1] = q /\ n \in Nat
      BY <2>3, <2>4
    <2>6. DeclaredTag(q)'
      <3>1. n + 1 \in 1..Len(parsed_tags')
        BY <2>5
      <3>2. DeclaredTag(parsed_tags[n + 1])'
        BY <2>2, <3>1 DEF ScanInv, RangesDeclared
      <3> QED
        BY <2>5, <3>2 DEF DeclaredTag
    <2>7. \E i \in 1..(index + 1) : M!Starts(doc[i]) /\ q.Range = M!TagAt(doc, i)
      BY <2>1, <2>6 DEF DeclaredTag
    <2> QED
      BY <1>2, <1>3, <2>1, <2>3, <2>7
  <1>6. CASE Reject \/ Finish
    BY <1>1, <1>6 DEF Reject, Finish
  <1>7. CASE UNCHANGED vars
    BY <1>1, <1>7 DEF vars
  <1> QED
    BY <1>4, <1>5, <1>6, <1>7 DEF Next

(* The ranges of a balanced text are those of its tags.                    *)
LEMMA TagsMark ==
  ASSUME doc \in Documents, M!Balanced(doc), ranges = M!Tags(doc),
         ClosersKnown, index = Len(doc)
  PROVE  AllMarked
  <1>1. PICK starts : starts = M!StartsOf(doc)
    OBVIOUS
  <1>2. starts \in SUBSET Nat /\ IsFiniteSet(starts)
    <2>1. DOMAIN doc = 1..Len(doc) /\ Len(doc) \in Nat
      BY DEF Documents
    <2>2. starts \in SUBSET (1..Len(doc))
      BY <1>1, <2>1 DEF M!StartsOf
    <2>3. IsFiniteSet(1..Len(doc)) /\ 1..Len(doc) \subseteq Nat
      BY <2>1, FS_Interval
    <2>4. IsFiniteSet(starts)
      BY <2>2, <2>3, FS_Subset
    <2> QED
      BY <2>2, <2>3, <2>4
  <1>3. PICK n \in Nat : n = Cardinality(starts)
    BY <1>2, FS_CardinalityType
  <1>4. ranges = [r \in 1..n |-> M!TagAt(doc, M!Nth(r, starts))]
    BY <1>1, <1>3, SameCardinality DEF M!Tags
  <1>5. \A r \in 1..n : M!Nth(r, starts) \in starts
    BY <1>2, <1>3, SameNth, NthFacts
  <1>6. \A i \in starts : \E r \in 1..n : M!Nth(r, starts) = i
    BY <1>2, <1>3, SameNth, NthOnto
  <1>7. Len(ranges) = n
    BY <1>4
  <1>8. DOMAIN doc = 1..Len(doc) /\ Len(doc) \in Nat /\ doc \in Seq(M!Token(TagNames))
    BY DEF Documents
  <1>9. ASSUME NEW i \in starts
        PROVE  Marked(M!TagAt(doc, i)) /\ M!TagAt(doc, i).RawBegin = i - 1
    <2>1. i \in 1..Len(doc) /\ i \in Nat /\ doc[i].k \in {"open", "self"}
      BY <1>1, <1>8 DEF M!StartsOf, M!Starts
    <2>2. CASE doc[i].k = "self"
      <3>1. PICK q : q = M!TagAt(doc, i) /\ q.RawBegin = i - 1 /\ q.ValueBegin = i
                     /\ q.ValueEnd = i /\ q.RawEnd = i
        <4>1. M!TagAt(doc, i) = [TagName |-> doc[i].n, RawBegin |-> i - 1, ValueBegin |-> i,
                                 ValueEnd |-> i, RawEnd |-> i]
          BY <2>2, Zenon DEF M!TagAt
        <4> QED
          BY <4>1
      <3>2. i - 1 \in Nat /\ (i - 1) + 1 = i /\ i <= Len(doc)
        BY <1>8, <2>1
      <3> QED
        BY <2>1, <2>2, <3>1, <3>2 DEF Marked
    <2>3. CASE doc[i].k = "open"
      <3>1. PICK last \in Nat : last = M!ClosingOf(doc, i) /\ i < last /\ last <= Len(doc)
                                /\ doc[last].k = "close"
        <4>1. M!ClosingOf(doc, i) \in (i + 1)..Len(doc) /\ doc[M!ClosingOf(doc, i)].k = "close"
          BY <1>8, <2>1, <2>3, OpenCloses
        <4> QED
          BY <1>8, <2>1, <4>1
      <3>2. PICK q : q = M!TagAt(doc, i) /\ q.RawBegin = i - 1 /\ q.ValueBegin = i
                     /\ q.ValueEnd = last - 1 /\ q.RawEnd = last
        <4>1. doc[i].k # "self"
          BY <2>3
        <4>2. M!TagAt(doc, i) = [TagName |-> doc[i].n, RawBegin |-> i - 1, ValueBegin |-> i,
                                 ValueEnd |-> last - 1, RawEnd |-> last]
          BY <3>1, <4>1, Zenon DEF M!TagAt
        <4> QED
          BY <4>2
      <3>3. i - 1 \in Nat /\ (i - 1) + 1 = i /\ i <= last
        BY <1>8, <2>1, <3>1
      <3> QED
        BY <2>1, <2>3, <3>1, <3>2, <3>3 DEF Marked
    <2> QED
      BY <2>1, <2>2, <2>3
  <1>10. \A r \in 1..Len(ranges) : Marked(ranges[r])
    BY <1>4, <1>5, <1>7, <1>9
  <1>11. ASSUME NEW at \in 1..Len(doc), doc[at].k \in M!TagKinds
         PROVE  \E r \in 1..Len(ranges) : at = ranges[r].RawBegin + 1 \/ at = ranges[r].RawEnd
    <2>1. CASE M!Starts(doc[at])
      <3>1. at \in starts
        BY <1>1, <1>8, <2>1 DEF M!StartsOf
      <3>2. PICK r \in 1..n : M!Nth(r, starts) = at
        BY <1>6, <3>1
      <3>3. ranges[r].RawBegin = at - 1 /\ (at - 1) + 1 = at
        BY <1>4, <1>8, <1>9, <3>1, <3>2
      <3> QED
        BY <1>7, <3>3
    <2>2. CASE ~M!Starts(doc[at])
      <3>1. doc[at].k = "close"
        BY <1>11, <2>2 DEF M!TagKinds, M!Starts
      <3>2. PICK i \in 1..Len(doc) : M!Starts(doc[i]) /\ M!TagAt(doc, i).RawEnd = at
        BY <3>1 DEF ClosersKnown
      <3>3. i \in starts
        BY <1>1, <1>8, <3>2 DEF M!StartsOf
      <3>4. PICK r \in 1..n : M!Nth(r, starts) = i
        BY <1>6, <3>3
      <3> QED
        BY <1>4, <1>7, <3>2, <3>4
    <2> QED
      BY <2>1, <2>2
  <1> QED
    BY <1>10, <1>11 DEF AllMarked

(* What the scanner and the tree have come to.                             *)
TextInv ==
  /\ TreeInv /\ ResultInv /\ ClosersKnown
  /\ M!BodyOf(doc) = doc
  /\ status = "parsed" => index = Len(doc)

TreeOfText ==
  /\ tree # "waiting" => status = "parsed" /\ ranges = M!Tags(doc)
  /\ tree = "nullopt" => \E i \in 1..Len(ranges) : ~doc[ranges[i].RawBegin + 1].ok
  /\ tree = "parsed" => entries = Len(ranges)

(* What an object holds in the end.                                        *)
Honest(object) ==
  /\ Shows(object)
  /\ M!Parses(doc) /\ object.error # "" => object.error = "exception"

AnswerInv ==
  /\ phase = "parsing" => html = <<>> /\ error = ""
  /\ phase \in {"returned", "done"} => Honest([html |-> html, error |-> error])
  /\ phase = "done" =>
       /\ caller = "ConvertXml" => Honest(converted)
       /\ told \in {"Parsed", "Converted"} <=>
            (IF caller = "ConvertXml" THEN converted.error ELSE error) = ""

HtmlInv == TextInv /\ TreeOfText /\ AnswerInv

(* A scanner that has ended takes no step.                                 *)
LEMMA ScanStops ==
  ASSUME [Next]_vars, status # "running"
  PROVE  UNCHANGED vars
  BY DEF Next, Pass, Reject, Close, SelfClose, Open, Finish, Scanning, vars

(* What the scanner says of the text is kept by every step.                *)
LEMMA NextTextInv ==
  TextInv /\ [ReadNext]_<<vars, treeVars, htmlVars, slotVars>> => TextInv'
  <1> SUFFICES ASSUME TextInv, [ReadNext]_<<vars, treeVars, htmlVars, slotVars>>
               PROVE  TextInv'
    OBVIOUS
  <1>1. [Next]_vars
    BY StepsScan
  <1>2. TreeInv' /\ ResultInv' /\ ClosersKnown'
    BY <1>1, NextTree, NextResultInv, ClosersStep DEF TextInv
  <1>3. doc' = doc
    BY <1>1 DEF Next, Pass, Reject, Close, SelfClose, Open, Finish, vars
  <1>4. ASSUME status' = "parsed" PROVE index' = Len(doc')
    <2>1. CASE Finish
      BY <2>1 DEF Finish
    <2>2. CASE status = "parsed"
      BY <1>1, <2>2, ScanStops DEF TextInv, vars
    <2>3. CASE status # "parsed" /\ ~Finish
      BY <1>1, <1>4, <2>3 DEF Next, Pass, Reject, Close, SelfClose, Open, Scanning, vars
    <2> QED
      BY <2>1, <2>2, <2>3
  <1>5. M!BodyOf(doc') = doc'
    BY <1>3 DEF TextInv
  <1> QED
    BY <1>2, <1>4, <1>5 DEF TextInv

(* And so is what the tree says of it.                                     *)
LEMMA NextTreeOfText ==
  TextInv /\ TreeOfText /\ [ReadNext]_<<vars, treeVars, htmlVars, slotVars>> => TreeOfText'
  <1> SUFFICES ASSUME TextInv, TreeOfText,
                      [ReadNext]_<<vars, treeVars, htmlVars, slotVars>>
               PROVE  TreeOfText'
    OBVIOUS
  <1>1. [Next]_vars
    BY StepsScan
  <1>2. CASE BuildHierarchy
    <2>1. UNCHANGED vars /\ tree' = "running" /\ status = "parsed"
          /\ ranges' = [r \in 1..Len(parsed_tags) |-> parsed_tags[r].Range]
      BY <1>2 DEF BuildHierarchy, H!Start
    <2>2. ranges' = M!Tags(doc)
      BY <2>1 DEF TextInv, ResultInv, ParsedIsDeclared
    <2> QED
      BY <2>1, <2>2 DEF TreeOfText, vars
  <1>3. CASE H!Next /\ UNCHANGED vars
    <2>1. tree = "running" /\ UNCHANGED <<doc, status, ranges>>
      BY <1>3 DEF H!Next, H!FieldsRejected, H!AddNode, H!Materialize, vars
    <2>2. CASE H!FieldsRejected
      <3>1. /\ tree' = "nullopt" /\ entries < Len(ranges)
            /\ ~doc[ranges[entries + 1].RawBegin + 1].ok
        BY <2>2 DEF H!FieldsRejected, H!FieldsParse, H!Current
      <3>2. entries + 1 \in 1..Len(ranges)
        BY <3>1 DEF TextInv, TreeInv, Placed
      <3> QED
        BY <2>1, <3>1, <3>2 DEF TreeOfText
    <2>3. CASE H!AddNode
      <3>1. tree' = "running"
        BY <2>1, <2>3 DEF H!AddNode
      <3> QED
        BY <2>1, <3>1 DEF TreeOfText
    <2>4. CASE H!Materialize
      <3>1. tree' = "parsed" /\ entries' = entries /\ entries = Len(ranges)
        BY <2>4 DEF H!Materialize
      <3> QED
        BY <2>1, <3>1 DEF TreeOfText
    <2> QED
      BY <1>3, <2>2, <2>3, <2>4 DEF H!Next
  <1>4. CASE UNCHANGED treeVars
    <2>1. UNCHANGED <<tree, ranges, entries>>
      BY <1>4 DEF treeVars
    <2>2. CASE tree = "waiting"
      BY <2>1, <2>2 DEF TreeOfText
    <2>3. CASE tree # "waiting"
      <3>1. UNCHANGED <<doc, status>>
        BY <1>1, <2>3, ScanStops DEF TreeOfText, vars
      <3> QED
        BY <2>1, <3>1 DEF TreeOfText
    <2> QED
      BY <2>2, <2>3
  <1> QED
    BY <1>2, <1>3, <1>4 DEF ReadNext, ReadSlot, ReadTags, HtmlNext, ParseStep, ParseAllNext

(* A text that parses is not rejected, and has a node that is a root.      *)
LEMMA RejectedNotParsed ==
  ASSUME TextInv, TreeOfText, RejectedAll
  PROVE  ~M!Parses(doc)
  <1> SUFFICES ASSUME M!Parses(doc) PROVE FALSE
    OBVIOUS
  <1>1. M!Balanced(doc) /\ \A i \in DOMAIN doc : M!Starts(doc[i]) => doc[i].ok
    BY DEF M!Parses, TextInv
  <1>2. status # "nullopt"
    BY <1>1 DEF TextInv, ResultInv, ParsedIsDeclared
  <1>3. tree = "nullopt"
    BY <1>2 DEF RejectedAll
  <1>4. PICK i \in 1..Len(ranges) : ~doc[ranges[i].RawBegin + 1].ok
    BY <1>3 DEF TreeOfText
  <1>5. /\ doc \in Documents /\ ranges = M!Tags(doc) /\ ClosersKnown /\ index = Len(doc)
    BY <1>3 DEF TreeOfText, TextInv, ResultInv, IInv, TypeOK
  <1>6. Marked(ranges[i])
    BY <1>1, <1>5, TagsMark DEF AllMarked
  <1>7. PICK at : at = ranges[i].RawBegin + 1 /\ at \in DOMAIN doc /\ M!Starts(doc[at])
    <2>1. ranges[i].RawBegin + 1 \in 1..Len(doc)
      BY <1>5, <1>6 DEF Marked, Documents
    <2> QED
      BY <1>5, <1>6, <2>1 DEF Marked, M!Starts, Documents
  <1> QED
    BY <1>1, <1>4, <1>7

(* A parsed text has the tree of all of its tags.                          *)
LEMMA ParsedBuilt ==
  ASSUME TextInv, TreeOfText, ParsedAll
  PROVE  TreeBuilt
  <1>1. /\ status = "parsed" /\ ranges = M!Tags(doc) /\ entries = Len(ranges)
        /\ doc \in Documents /\ ClosersKnown /\ index = Len(doc) /\ M!Balanced(doc)
    BY DEF ParsedAll, TreeOfText, TextInv, ResultInv, IInv, TypeOK, ParsedIsDeclared
  <1> QED
    BY <1>1, TagsMark DEF TreeBuilt, TextInv

(* One that parses has a root.                                             *)
LEMMA ParsedHasRoot ==
  ASSUME TextInv, TreeOfText, ParsedAll, M!Parses(doc)
  PROVE  roots # <<>>
  <1>1. TreeBuilt
    BY ParsedBuilt
  <1>2. PICK at \in DOMAIN doc : M!Starts(doc[at])
    BY DEF M!Parses, TextInv
  <1>3. \E i \in 1..Len(ranges) : TRUE
    <2>1. at \in 1..Len(doc) /\ doc[at].k \in M!TagKinds
      BY <1>1, <1>2, RangeFacts DEF M!Starts, M!TagKinds
    <2> QED
      BY <1>1, <2>1 DEF TreeBuilt, AllMarked
  <1>4. 1 \in 1..Len(ranges)
    BY <1>1, <1>3, RangeFacts
  <1>5. Sires(ranges, Len(ranges), 1) = {}
    <2> SUFFICES ASSUME NEW j \in 1..Len(ranges), H!ContainsRange(ranges[j], ranges[1])
                 PROVE  FALSE
      BY DEF Sires
    <2>1. j < 1
      BY <1>1, <1>4, LaterInside
    <2> QED
      BY <2>1
  <1>6. H!Seqs!Contains(roots, 1)
    BY <1>1, <1>4, <1>5 DEF TreeBuilt, TreeInv, Hung
  <1> QED
    BY <1>6 DEF H!Seqs!Contains

-----------------------------------------------------------------------------
LEMMA SameShows ==
  ASSUME doc' = doc, ranges' = ranges
  PROVE  /\ TextPositions' = TextPositions /\ (NoneCross' <=> NoneCross)
         /\ M!Parses(doc)' <=> M!Parses(doc)
  <1>1. \A at : InsideTag(at)' <=> InsideTag(at)
    BY DEF InsideTag
  <1>2. TextPositions' = TextPositions
    BY <1>1 DEF TextPositions
  <1>3. \A i, j : Cross(i, j)' <=> Cross(i, j)
    BY DEF Cross
  <1>4. NoneCross' <=> NoneCross
    BY <1>3 DEF NoneCross
  <1> QED
    BY <1>2, <1>4

LEMMA HtmlStaysHonest ==
  ASSUME doc' = doc, ranges' = ranges,
         Honest([html |-> html', error |-> error'])
  PROVE  Honest([html |-> html, error |-> error])'
  <1>1. PICK w, r : w = html' /\ r = error'
    OBVIOUS
  <1>2. /\ TextPositions' = TextPositions /\ (NoneCross' <=> NoneCross)
        /\ M!Parses(doc') <=> M!Parses(doc)
    BY SameShows
  <1>3. /\ \/ r # "" /\ w = <<>>
           \/ r = "" /\ w # <<>> /\ HtmlNests(w) /\ HtmlKeepsText(w)
        /\ M!Parses(doc) /\ r # "" => r = "exception"
    BY <1>1 DEF Honest, Shows
  <1>4. HtmlNests(w) => HtmlNests(html)'
    BY <1>1 DEF HtmlNests
  <1>5. HtmlKeepsText(w) => HtmlKeepsText(html)'
    BY <1>1, <1>2 DEF HtmlKeepsText, TextInOrder
  <1> QED
    BY <1>1, <1>2, <1>3, <1>4, <1>5 DEF Honest, Shows

LEMMA ConvertedStaysHonest ==
  ASSUME doc' = doc, ranges' = ranges, Honest(converted')
  PROVE  Honest(converted)'
  <1>1. PICK o : o = converted'
    OBVIOUS
  <1>2. /\ TextPositions' = TextPositions /\ (NoneCross' <=> NoneCross)
        /\ M!Parses(doc') <=> M!Parses(doc)
    BY SameShows
  <1>3. HtmlNests(o.html) => HtmlNests(converted.html)'
    BY <1>1 DEF HtmlNests
  <1>4. HtmlKeepsText(o.html) => HtmlKeepsText(converted.html)'
    BY <1>1, <1>2 DEF HtmlKeepsText, TextInOrder
  <1> QED
    BY <1>1, <1>2, <1>3, <1>4 DEF Honest, Shows

(* What an object holds is the HTML of its text, or an error and no HTML.  *)
LEMMA NextAnswerInv ==
  HtmlInv /\ [ReadNext]_<<vars, treeVars, htmlVars, slotVars>> => AnswerInv'
  <1> SUFFICES ASSUME HtmlInv, [ReadNext]_<<vars, treeVars, htmlVars, slotVars>>
               PROVE  AnswerInv'
    OBVIOUS
  <1> USE DEF HtmlInv
  <1>1. CASE UNCHANGED htmlVars /\ (phase = "parsing" \/ UNCHANGED <<vars, treeVars>>)
    <2>1. UNCHANGED <<caller, phase, html, error, converted, told>>
      BY <1>1 DEF htmlVars
    <2>2. CASE phase = "parsing"
      BY <2>1, <2>2 DEF AnswerInv
    <2>3. CASE phase # "parsing" /\ UNCHANGED <<doc, ranges>>
      <3>1. ASSUME phase \in {"returned", "done"} PROVE Honest([html |-> html, error |-> error])'
        <4>1. Honest([html |-> html', error |-> error'])
          BY <2>1, <3>1 DEF AnswerInv
        <4> QED
          BY <2>3, <4>1, HtmlStaysHonest
      <3>2. ASSUME phase = "done", caller = "ConvertXml" PROVE Honest(converted)'
        <4>1. Honest(converted')
          BY <2>1, <3>2 DEF AnswerInv
        <4> QED
          BY <2>3, <4>1, ConvertedStaysHonest
      <3> QED
        BY <2>1, <2>3, <3>1, <3>2 DEF AnswerInv
    <2> QED
      BY <1>1, <2>2, <2>3 DEF vars, treeVars
  <1>2. ASSUME HtmlStep, UNCHANGED <<vars, treeVars>> PROVE AnswerInv'
    <2>1. UNCHANGED <<doc, ranges>>
      BY <1>2 DEF vars, treeVars
    <2>2. CASE BeginParse
      BY <2>2 DEF BeginParse, AnswerInv
    <2>3. ASSUME Honest([html |-> html', error |-> error']), phase' = "returned"
          PROVE  AnswerInv'
      <3>1. Honest([html |-> html, error |-> error])'
        BY <2>1, <2>3, HtmlStaysHonest
      <3> QED
        BY <2>3, <3>1 DEF AnswerInv
    <2>4. ASSUME ~M!Parses(doc) \/ error' = "exception",
                 error' # "", html' = <<>>, phase' = "returned"
          PROVE  AnswerInv'
      BY <2>3, <2>4 DEF Honest, Shows
    <2>5. CASE ParserRejectedInput
      <3>1. ~M!Parses(doc)
        BY <2>5, RejectedNotParsed DEF ParserRejectedInput
      <3>2. html' = <<>> /\ error' = "rejected input" /\ phase' = "returned"
        BY <2>5 DEF ParserRejectedInput, Return, AnswerInv
      <3> QED
        BY <2>4, <3>1, <3>2
    <2>6. CASE NoTag
      <3>1. ~M!Parses(doc)
        BY <2>6, ParsedHasRoot DEF NoTag
      <3>2. html' = <<>> /\ error' = "returned no tag" /\ phase' = "returned"
        BY <2>6 DEF NoTag, Return, AnswerInv
      <3> QED
        BY <2>4, <3>1, <3>2
    <2>7. CASE Rendered
      <3>1. TreeBuilt /\ roots # <<>>
        BY <2>7, ParsedBuilt DEF Rendered
      <3>2. PICK w : /\ w = RenderedRoots /\ HtmlNests(w) /\ HtmlKeepsText(w)
                     /\ w # <<>> /\ w \in Seq(Piece)
        BY <3>1, RootsShowTree
      <3>3. html' = <<>> \o w /\ error' = "" /\ phase' = "returned"
        BY <2>7, <3>2 DEF Rendered, Return, AnswerInv
      <3>4. html' = w
        BY <3>2, <3>3, ConcatEmptySeq
      <3> QED
        BY <2>3, <3>2, <3>3, <3>4 DEF Honest, Shows
    <2>8. CASE RenderingThrows
      BY <2>4, <2>8 DEF RenderingThrows, Return
    <2>9. CASE AnswerParse
      <3>1. /\ phase = "returned" /\ phase' = "done" /\ caller = "ParseXml"
            /\ told' = IF error = "" THEN "Parsed" ELSE "ParseFailed"
            /\ UNCHANGED <<caller, html, error, converted>>
        BY <2>9 DEF AnswerParse
      <3>2. Honest([html |-> html', error |-> error'])
        BY <3>1 DEF AnswerInv
      <3>3. Honest([html |-> html, error |-> error])'
        BY <2>1, <3>2, HtmlStaysHonest
      <3> QED
        BY <3>1, <3>3 DEF AnswerInv
    <2>10. CASE AnswerConvert
      <3>1. /\ phase = "returned" /\ phase' = "done" /\ caller = "ConvertXml"
            /\ told' = IF converted'.error = "" THEN "Converted" ELSE "ConvertFailed"
            /\ UNCHANGED <<caller, html, error>>
        BY <2>10 DEF AnswerConvert
      <3>2. Honest([html |-> html, error |-> error])
        BY <3>1 DEF AnswerInv
      <3>3. Honest([html |-> html, error |-> error])'
        BY <2>1, <3>1, <3>2, HtmlStaysHonest
      <3>4. \/ converted' = [html |-> html, error |-> error] /\ error = ""
            \/ error # "" /\ converted' = [html |-> <<>>, error |-> error]
            \/ converted' = [html |-> <<>>, error |-> "exception"]
        BY <2>10 DEF AnswerConvert, Nothing
      <3>5. Honest(converted')
        <4>1. CASE converted' = [html |-> html, error |-> error]
          BY <3>2, <4>1
        <4>2. ASSUME converted'.html = <<>> /\ converted'.error # "" /\
                     converted'.error \in {error, "exception"}
              PROVE  Honest(converted')
          BY <3>2, <4>2 DEF Honest, Shows
        <4>3. CASE error # "" /\ converted' = [html |-> <<>>, error |-> error]
          BY <4>2, <4>3
        <4>4. CASE converted' = [html |-> <<>>, error |-> "exception"]
          <5>1. converted'.html = <<>> /\ converted'.error = "exception" /\ "exception" # ""
            BY <4>4
          <5> QED
            BY <4>2, <5>1
        <4> QED
          BY <3>4, <4>1, <4>3, <4>4
      <3>6. Honest(converted)'
        BY <2>1, <3>5, ConvertedStaysHonest
      <3> QED
        BY <3>1, <3>3, <3>6 DEF AnswerInv
    <2> QED
      BY <1>2, <2>2, <2>5, <2>6, <2>7, <2>8, <2>9, <2>10 DEF HtmlStep
  <1> QED
    BY <1>1, <1>2 DEF ReadNext, ReadSlot, ReadTags, HtmlNext, ParseStep

LEMMA InitHtmlInv == ReadInit => HtmlInv
  <1> SUFFICES ASSUME ReadInit PROVE HtmlInv
    OBVIOUS
  <1>1. doc \in Documents /\ Init /\ H!Init /\ phase = "waiting"
    BY InitScanned DEF ReadInit
  <1>2. TreeInv /\ ResultInv
    BY <1>1, InitTree, InitResultInv
  <1>3. index = 0 /\ status = "running" /\ tree = "waiting"
    BY <1>1 DEF Init, H!Init
  <1>4. ClosersKnown
    BY <1>3 DEF ClosersKnown
  <1>5. M!BodyOf(doc) = doc
    <2>1. text \in Documents /\ doc = M!BodyOf(text)
      BY ReadingsAssumption DEF ReadInit, NormalizeParserInput
    <2> QED
      BY <2>1, BodyStays
  <1> QED
    BY <1>1, <1>2, <1>3, <1>4, <1>5 DEF HtmlInv, TextInv, TreeOfText, AnswerInv

(* For every text and every object that renders it: the HTML of a call     *)
(* that succeeds opens and closes each tag of the text once, in document   *)
(* order and well nested, loses none of its text, and repeats or misplaces *)
(* none when no tags cross; a call that fails leaves no HTML and an error, *)
(* and fails for a text that parses only when something is thrown.         *)
THEOREM HtmlAlwaysShowsTree == ReadSpec => []HtmlShowsTree
  <1>1. HtmlInv /\ [ReadNext]_<<vars, treeVars, htmlVars, slotVars>> => HtmlInv'
    BY NextTextInv, NextTreeOfText, NextAnswerInv DEF HtmlInv
  <1>2. HtmlInv => HtmlShowsTree
    BY DEF HtmlInv, AnswerInv, HtmlShowsTree, Honest
  <1> QED
    BY InitHtmlInv, <1>1, <1>2, PTL DEF ReadSpec
=============================================================================
