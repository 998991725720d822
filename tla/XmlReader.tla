------------------------------ MODULE XmlReader ------------------------------
(***************************************************************************)
(* ii::xml::Reader of the native package: events pulled one by one from a  *)
(* document in memory, under limits, over libxml2's xmlTextReader.         *)
(*                                                                         *)
(* A document is a sequence of items, the pieces of its text: k is "decl", *)
(* "doctype", "start", "empty" (an empty-element tag), "end", "text",      *)
(* "cdata", "comment", "pi", or "bad" (an entity, a stray "<", ...).  n is *)
(* the name, t the characters of a text, a the attributes of an element.   *)
(* What libxml2 makes of the items (Nodes, Depth, Legal) is external.      *)
(***************************************************************************)
EXTENDS Naturals, Sequences, FiniteSets, Functions

Sets == INSTANCE FiniteSetsExt

CONSTANTS
  NameSize,      \* the names that occur, and their bytes
  ValidNames,    \* those xmlValidateQName accepts
  Prefix,        \* the namespace prefix of each name, "" if it has none,
  LocalName,     \* and what follows it
  BadUris,       \* attributes xmlns or xmlns:p whose value or p is not allowed
  CharSize,      \* the characters that occur, and their bytes when escaped
  BadChars,      \* those XML does not allow
  Limits         \* the limits a writer and its own reader are given

AllLimits == [input_bytes : Nat, output_bytes : Nat, text_bytes : Nat,
              attributes : Nat, depth : Nat, events : Nat]

ASSUME LimitsAssumption ==
  /\ ValidNames \subseteq DOMAIN NameSize
  /\ "" \notin DOMAIN NameSize
  /\ NameSize \in [DOMAIN NameSize -> Nat]
  /\ CharSize \in [DOMAIN CharSize -> Nat]
  /\ Limits \in AllLimits

ASSUME NamesAssumption ==
  /\ Prefix \in [DOMAIN NameSize -> STRING]
  /\ LocalName \in [DOMAIN NameSize -> STRING]

VARIABLES
  doc,       \* the document the reader was opened on
  limits,    \* the limits it was given
  reader,    \* "none", "open", "ended" or the error it failed with
  position,  \* nodes xmlTextReaderRead has passed
  reported   \* history: the events next() has returned

readerVars == <<doc, limits, reader, position, reported>>

Item(kind, name, text, attributes) ==
  [k |-> kind, n |-> name, t |-> text, a |-> attributes]

ItemKinds ==
  {"decl", "doctype", "start", "empty", "end", "text", "cdata", "comment", "pi", "bad"}
AttributeLists == Seq([name : DOMAIN NameSize, value : Seq(DOMAIN CharSize)])

Items ==
  [k : ItemKinds, n : DOMAIN NameSize \cup {""}, t : Seq(DOMAIN CharSize), a : AttributeLists]

(* The sum of a sequence of sizes.                                         *)
Total(sizes) ==
  LET sum[i \in 0..Len(sizes)] == IF i = 0 THEN 0 ELSE sum[i - 1] + sizes[i]
  IN  sum[Len(sizes)]

EscapedSize(text) == Total([i \in 1..Len(text) |-> CharSize[text[i]]])

AttributeSize(b) == NameSize[b.name] + EscapedSize(b.value) + 4

AttributesSize(attributes) ==
  Total([i \in 1..Len(attributes) |-> AttributeSize(attributes[i])])

ItemSize(item) ==
  CASE item.k = "decl"    -> 38
    [] item.k = "doctype" -> NameSize[item.n] + 11
    [] item.k = "start"   -> NameSize[item.n] + 2 + AttributesSize(item.a)
    [] item.k = "empty"   -> NameSize[item.n] + 3 + AttributesSize(item.a)
    [] item.k = "end"     -> NameSize[item.n] + 3
    [] item.k = "bad"     -> 1
    [] OTHER              -> EscapedSize(item.t)

Bytes(items) == Total([i \in 1..Len(items) |-> ItemSize(items[i])])

-----------------------------------------------------------------------------
(* libxml2: texts that touch are one node, and an empty text is none.      *)

AddNode(nodes, item) ==
  CASE item.k = "decl" \/ (item.k = "text" /\ item.t = <<>>) -> nodes
    [] item.k = "text" /\ item.t # <<>> /\ nodes # <<>> /\ nodes[Len(nodes)].k = "text" ->
         [nodes EXCEPT ![Len(nodes)].t = @ \o item.t]
    [] OTHER -> Append(nodes, item)

Nodes(items) ==
  LET read[i \in 0..Len(items)] ==
        IF i = 0 THEN <<>> ELSE AddNode(read[i - 1], items[i])
  IN  read[Len(items)]

OpenAt(nodes, i) ==
  Cardinality({j \in 1..i : nodes[j].k = "start"})
    - Cardinality({j \in 1..i : nodes[j].k = "end"})

Depth(nodes, i) ==
  IF nodes[i].k = "start" THEN OpenAt(nodes, i) - 1 ELSE OpenAt(nodes, i)

(* The tag that is still open when the first i nodes have been read.       *)
Innermost(nodes, i) ==
  nodes[Sets!Max({j \in 1..i : nodes[j].k = "start" /\ OpenAt(nodes, j) = OpenAt(nodes, i)})]

(* Node i and the elements it is in.                                       *)
Around(nodes, i) ==
  {i} \cup {j \in 1..i - 1 : /\ nodes[j].k = "start"
                             /\ \A k \in j..i - 1 : OpenAt(nodes, k) >= OpenAt(nodes, j)}

(* An attribute xmlns:p="uri" declares p for its element and all inside.   *)
Declared(node, prefix) ==
  {b.value : b \in {b \in Range(node.a) : Prefix[b.name] = "xmlns"
                                           /\ LocalName[b.name] = prefix}}

(* What a prefix means at node i: the innermost declaration counts.        *)
Namespace(nodes, i, prefix) ==
  LET declaring == {j \in Around(nodes, i) : Declared(nodes[j], prefix) # {}}
  IN  UNION {Declared(nodes[j], prefix) :
               j \in {j \in declaring : \A k \in declaring : k <= j}}

(* Two attributes of an element that are the same one.                     *)
SameAttribute(nodes, i, b, c) ==
  \/ b.name = c.name
  \/ /\ LocalName[b.name] = LocalName[c.name]
     /\ Namespace(nodes, i, Prefix[b.name]) \cap Namespace(nodes, i, Prefix[c.name]) # {}

(* The prefixes of an element are declared, what its attributes declare is *)
(* a namespace, and no attribute is there twice.                           *)
NamesAreBound(nodes, i) ==
  LET node == nodes[i]
      Known(prefix) == prefix \in {"", "xml"} \/ Namespace(nodes, i, prefix) # {}
  IN  /\ Known(Prefix[node.n])
      /\ \A b \in Range(node.a) :
           IF Prefix[b.name] = "xmlns" THEN b.value # <<>> ELSE Known(Prefix[b.name])
      /\ Range(node.a) \cap BadUris = {}
      /\ \A p, q \in DOMAIN node.a :
           p < q => ~SameAttribute(nodes, i, node.a[p], node.a[q])

BadCharacters(node) ==
  \/ \E c \in Range(node.t) : c \in BadChars
  \/ /\ node.k \in {"start", "empty"}
     /\ \E b \in Range(node.a) : \E c \in Range(b.value) : c \in BadChars

(* Node i may follow the first i - 1 nodes of a well-formed document.      *)
Legal(nodes, i) ==
  LET node == nodes[i]
      inside == OpenAt(nodes, i - 1) > 0
      seen == \E j \in 1..i - 1 : nodes[j].k \in {"start", "empty"}
  IN  /\ ~BadCharacters(node)
      /\ CASE node.k \in {"start", "empty"} ->
                (inside \/ ~seen) /\ NamesAreBound(nodes, i)
           [] node.k = "end"     -> inside /\ Innermost(nodes, i - 1).n = node.n
           [] node.k \in {"text", "cdata"} -> inside
           [] node.k = "doctype" ->
                ~seen /\ \A j \in 1..i - 1 : nodes[j].k # "doctype"
           [] node.k = "pi"      -> Prefix[node.n] = ""
           [] node.k = "bad"     -> FALSE
           [] OTHER              -> TRUE

Complete(nodes) ==
  OpenAt(nodes, Len(nodes)) = 0 /\ \E i \in DOMAIN nodes : nodes[i].k \in {"start", "empty"}

WellFormed(nodes) == Complete(nodes) /\ \A i \in DOMAIN nodes : Legal(nodes, i)

(* The nodes before the first error.                                       *)
LegalPrefix(nodes) ==
  Sets!Max({i \in 0..Len(nodes) : \A j \in 1..i : Legal(nodes, j)})

-----------------------------------------------------------------------------
(* doctype_check: every <!DOCTYPE> outside comments, CDATA sections and    *)
(* instructions must hold one valid name.                                  *)
DoctypeCheck(items) ==
  IF \E i \in DOMAIN items : items[i].k = "doctype" /\ items[i].n \notin ValidNames
    THEN "forbidden_dtd" ELSE "none"

(* Reader::open's checks, in their order.                                  *)
OpenError(items, given) ==
  IF items = <<>> THEN "syntax"
  ELSE IF Bytes(items) > given.input_bytes THEN "limit_exceeded"
  ELSE DoctypeCheck(items)

TooLong(size, given) == size > given.text_bytes

(* What libxml2 calls a node; a text, a CDATA section and a comment have   *)
(* names, too, and these are held against the limit like all others.       *)
NodeName(node) ==
  CASE node.k = "text"    -> "#text"
    [] node.k = "cdata"   -> "#cdata-section"
    [] node.k = "comment" -> "#comment"
    [] OTHER              -> node.n

TextNameSize == 5

NodeNameSize(node) ==
  CASE node.k = "text"    -> TextNameSize
    [] node.k = "cdata"   -> 14
    [] node.k = "comment" -> 8
    [] OTHER              -> NameSize[node.n]

(* The checks next() makes on the i-th node: the event count, the depth,   *)
(* the sizes, the attributes.                                              *)
NodeError(nodes, i, given) ==
  LET node == nodes[i]
  IN  IF \/ i > given.events
         \/ Depth(nodes, i) >= given.depth
         \/ TooLong(NodeNameSize(node), given)
         \/ TooLong(Len(node.t), given)
         \/ /\ node.k \in {"start", "empty"}
            /\ \/ Len(node.a) > given.attributes
               \/ \E b \in Range(node.a) :
                    TooLong(NameSize[b.name], given) \/ TooLong(Len(b.value), given)
        THEN "limit_exceeded" ELSE "none"

KindWithoutCdata(node) ==
  CASE node.k \in {"start", "empty"} -> "start_element"
    [] node.k = "end" -> "end_element"
    [] node.k = "pi" -> "processing_instruction"
    [] OTHER -> node.k

KindOf(node) ==
  CASE node.k \in {"start", "empty"} -> "start_element"
    [] node.k = "end" -> "end_element"
    [] node.k \in {"text", "cdata"} -> "text"
    [] node.k = "pi" -> "processing_instruction"
    [] OTHER -> node.k

Event(nodes, i) ==
  LET node == nodes[i]
  IN  [kind |-> KindOf(node),
       depth |-> Depth(nodes, i), name |-> NodeName(node), value |-> node.t,
       attributes |-> node.a, empty |-> node.k = "empty"]

OpensWellFormed(items, given) ==
  OpenError(items, given) = "none" /\ WellFormed(Nodes(items))

(* Opening a document and pulling every event from it meets no error.      *)
ReadsToEnd(items, given) ==
  LET nodes == Nodes(items)
  IN  /\ OpenError(items, given) = "none"
      /\ WellFormed(nodes)
      /\ \A i \in DOMAIN nodes : NodeError(nodes, i, given) = "none"

-----------------------------------------------------------------------------
ReaderInit ==
  /\ doc = <<>>
  /\ limits = Limits
  /\ reader = "none"
  /\ position = 0
  /\ reported = <<>>

(* Reader::open(utf8, limits).                                             *)
Open(items, given) ==
  /\ doc' = items
  /\ limits' = given
  /\ reader' = IF OpenError(items, given) = "none"
                 THEN "open" ELSE OpenError(items, given)
  /\ position' = 0
  /\ reported' = <<>>

NextAfterEnd ==
  /\ reader \notin {"none", "open"}
  /\ reader' = "syntax"
  /\ UNCHANGED <<doc, limits, position, reported>>

(* next() is called on a reader that has ended or failed: the same answer. *)
NextAgain ==
  /\ reader \notin {"none", "open"}
  /\ UNCHANGED readerVars

(* libxml2 reads ahead, so an error it meets later may be reported before  *)
(* the nodes in front of it.                                               *)
NextMalformed ==
  /\ reader = "open"
  /\ ~WellFormed(Nodes(doc))
  /\ reader' = "syntax"
  /\ UNCHANGED <<doc, limits, position, reported>>

NextNode ==
  LET nodes == Nodes(doc)
  IN  /\ reader = "open"
      /\ position < LegalPrefix(nodes)
      /\ position' = position + 1
      /\ LET found == NodeError(nodes, position', limits)
         IN  IF found = "none"
               THEN reported' = Append(reported, Event(nodes, position')) /\ UNCHANGED reader
               ELSE reader' = found /\ UNCHANGED reported
      /\ UNCHANGED <<doc, limits>>

NextEnd ==
  LET nodes == Nodes(doc)
  IN  /\ reader = "open"
      /\ WellFormed(nodes)
      /\ position = Len(nodes)
      /\ reader' = "ended"
      /\ UNCHANGED <<doc, limits, position, reported>>

ReaderNext == NextAgain \/ NextMalformed \/ NextNode \/ NextEnd
=============================================================================
