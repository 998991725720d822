------------------------------ MODULE XmlWriter ------------------------------
(***************************************************************************)
(* ii::xml::Writer of the native package, and the Reader it reads its own  *)
(* output back with before it hands it out.                                *)
(***************************************************************************)
EXTENDS XmlReader

CONSTANTS
  TagNames,    \* the names passed to doctype() and start()
  Values,      \* the texts passed to text()
  Attributes,  \* the attribute lists passed to start()
  Documents,   \* other documents a Reader is opened on,
  OtherLimits, \* and the limits it is given for them
  MaxItems     \* the bound of the model: items in the output

ASSUME CallsAssumption ==
  /\ TagNames \subseteq DOMAIN NameSize
  /\ Values \subseteq Seq(DOMAIN CharSize)
  /\ Attributes \subseteq AttributeLists
  /\ Documents \subseteq Seq(Items)
  /\ OtherLimits \subseteq AllLimits

VARIABLES
  output,    \* the items written
  dtd,       \* the name of the DOCTYPE, or ""
  stack,     \* the open elements
  root,      \* a root element was started
  finished,  \* finish() has handed the output out
  result,    \* of the last call: "ok" or the error code
  file       \* history: the document handed out

writerVars == <<output, dtd, stack, root, finished, result, file>>
nativeVars == <<writerVars, readerVars>>

Declaration == Item("decl", "", <<>>, <<>>)

NativeInit ==
  /\ ReaderInit
  /\ output = <<Declaration>>
  /\ dtd = ""
  /\ stack = <<>>
  /\ root = FALSE
  /\ finished = FALSE
  /\ result = "ok"
  /\ file = <<>>

Fail(code) ==
  /\ result' = code
  /\ UNCHANGED <<output, dtd, stack, root, finished, file>>

(* State::append.  The second comparison is made on the difference only    *)
(* when the first has shown that it does not wrap around.                  *)
AppendError(item) ==
  IF finished THEN "invalid_state"
  ELSE IF Bytes(output) > Limits.output_bytes
            \/ ItemSize(item) > Limits.output_bytes - Bytes(output)
    THEN "limit_exceeded" ELSE "none"

(* State::escaped.                                                         *)
EscapeError(text) ==
  IF \/ Len(text) > Limits.text_bytes
     \/ Len(text) > Limits.output_bytes
     \/ EscapedSize(text) > Limits.output_bytes
    THEN "limit_exceeded" ELSE "none"

Written(item) ==
  /\ output' = Append(output, item)
  /\ result' = "ok"
  /\ UNCHANGED <<finished, file>>

Doctype(name) ==
  LET item == Item("doctype", name, <<>>, <<>>)
  IN  IF root \/ dtd # "" \/ name \notin ValidNames THEN Fail("invalid_state")
      ELSE IF NameSize[name] > Limits.text_bytes THEN Fail("limit_exceeded")
      ELSE IF AppendError(item) # "none" THEN Fail(AppendError(item))
      ELSE Written(item) /\ dtd' = name /\ UNCHANGED <<stack, root>>

(* The i-th attribute: its name, that no earlier one has it, its value,    *)
(* and the room the start tag has left.                                    *)
AttributeError(tag, attributes, i) ==
  LET b == attributes[i]
      buffer == NameSize[tag] + 1 + AttributesSize(SubSeq(attributes, 1, i - 1))
  IN  IF b.name \notin ValidNames \/ \E j \in 1..i - 1 : attributes[j].name = b.name
        THEN "syntax"
      ELSE IF EscapeError(b.value) # "none" THEN EscapeError(b.value)
      ELSE IF \/ NameSize[b.name] > Limits.text_bytes
              \/ buffer > Limits.output_bytes
              \/ NameSize[b.name] + EscapedSize(b.value) + 4
                   > Limits.output_bytes - buffer
        THEN "limit_exceeded" ELSE "none"

AttributesError(tag, attributes) ==
  LET failing == {i \in DOMAIN attributes : AttributeError(tag, attributes, i) # "none"}
  IN  IF failing = {} THEN "none" ELSE AttributeError(tag, attributes, Sets!Min(failing))

DeepEnough == Len(stack) >= Limits.depth

RootIsOtherThanDeclared(tag) == stack = <<>> /\ dtd # "" /\ dtd # tag

(* A second root element, or another than the DOCTYPE names.               *)
MisplacedRoot(tag) == stack = <<>> /\ (root \/ (dtd # "" /\ dtd # tag))

StartError(tag, attributes) ==
  LET item == Item("start", tag, <<>>, attributes)
  IN  IF finished THEN "invalid_state"
      ELSE IF tag \notin ValidNames THEN "syntax"
      ELSE IF \/ NameSize[tag] > Limits.text_bytes
              \/ DeepEnough
              \/ Len(attributes) > Limits.attributes
        THEN "limit_exceeded"
      ELSE IF MisplacedRoot(tag) THEN "invalid_state"
      ELSE IF AttributesError(tag, attributes) # "none"
        THEN AttributesError(tag, attributes)
      ELSE AppendError(item)

Start(tag, attributes) ==
  IF StartError(tag, attributes) # "none" THEN Fail(StartError(tag, attributes))
  ELSE /\ Written(Item("start", tag, <<>>, attributes))
       /\ root' = TRUE
       /\ stack' = Append(stack, tag)
       /\ UNCHANGED dtd

Text(text) ==
  LET item == Item("text", "", text, <<>>)
  IN  IF stack = <<>> THEN Fail("invalid_state")
      ELSE IF EscapeError(text) # "none" THEN Fail(EscapeError(text))
      ELSE IF AppendError(item) # "none" THEN Fail(AppendError(item))
      ELSE Written(item) /\ UNCHANGED <<dtd, stack, root>>

End ==
  IF stack = <<>> THEN Fail("invalid_state")
  ELSE LET item == Item("end", stack[Len(stack)], <<>>, <<>>)
       IN  IF AppendError(item) # "none" THEN Fail(AppendError(item))
           ELSE Written(item) /\ stack' = SubSeq(stack, 1, Len(stack) - 1) /\ UNCHANGED <<dtd, root>>

SameLimits == Limits

(* The limits the output is read back with.                                *)
ReadBackLimits == [Limits EXCEPT !.input_bytes = Limits.output_bytes]

(* finish(): the output is read back before it is moved out.               *)
Finish ==
  IF finished \/ ~root \/ stack # <<>> THEN Fail("invalid_state")
  ELSE IF ~ReadsToEnd(output, ReadBackLimits) THEN Fail("refused")
  ELSE /\ finished' = TRUE
       /\ file' = output
       /\ output' = <<>>
       /\ result' = "ok"
       /\ UNCHANGED <<dtd, stack, root>>

Room == Len(output) < MaxItems

WriterNext ==
  \/ \E name \in TagNames : Room /\ Doctype(name)
  \/ \E tag \in TagNames, list \in Attributes : Room /\ Start(tag, list)
  \/ \E text \in Values : Room /\ Text(text)
  \/ End
  \/ Finish

OpenOutput == finished /\ reader = "none" /\ Open(file, Limits)
OpenOther ==
  /\ output = <<Declaration>> /\ reader = "none"
  /\ \E d \in Documents, given \in OtherLimits : Open(d, given)

NativeNext ==
  \/ reader = "none" /\ WriterNext /\ UNCHANGED readerVars
  \/ (OpenOutput \/ OpenOther \/ ReaderNext) /\ UNCHANGED writerVars

NativeSpec == NativeInit /\ [][NativeNext]_nativeVars

-----------------------------------------------------------------------------
StartsIn(items) == {i \in DOMAIN items : items[i].k = "start"}
EndsIn(items)   == {i \in DOMAIN items : items[i].k = "end"}
TextsIn(items)  == {i \in DOMAIN items : items[i].k = "text" /\ items[i].t # <<>>}

(* Elements open when item i has been written.                             *)
OpenBy(items, i) ==
  Cardinality({j \in StartsIn(items) : j <= i}) - Cardinality({j \in EndsIn(items) : j <= i})

(* Whatever calls failed before, the output is the beginning of a document *)
(* and the stack holds what it takes to close it: with the end tags of the *)
(* stack it is complete, and nothing but what no call looks at is wrong    *)
(* with it: namespaces, and characters XML does not allow.                 *)
Closing ==
  [i \in 1..Len(stack) |-> Item("end", stack[Len(stack) + 1 - i], <<>>, <<>>)]

OutputCanBeClosed ==
  ~finished =>
    LET nodes == Nodes(output \o Closing)
    IN  /\ root <=> Complete(nodes)
        /\ \A i \in DOMAIN nodes :
             \/ Legal(nodes, i)
             \/ nodes[i].k = "start" /\ ~NamesAreBound(nodes, i)
             \/ BadCharacters(nodes[i])
        /\ Bytes(output) > Limits.output_bytes => output = <<Declaration>>

(* What the calls can have written for finish() to refuse it.  The reader  *)
(* counts texts written one after the other as one, and a text as deep as  *)
(* an element would be in its place.                                       *)
DeepText(items) ==
  \E i \in TextsIn(items) : OpenBy(items, i) >= Limits.depth

Touching(items, i, j) ==
  i < j /\ \A k \in i..j : items[k].k = "text"

LongText(items) ==
  \E i, j \in DOMAIN items :
    /\ Touching(items, i, j)
    /\ Total([k \in 1..j - i + 1 |-> Len(items[i + k - 1].t)]) > Limits.text_bytes

TextRuns(items) ==
  {i \in TextsIn(items) : \A j \in TextsIn(items) : ~Touching(items, j, i)}

ManyEvents(items) ==
  Cardinality({i \in DOMAIN items : items[i].k \in {"doctype", "start", "end"}})
    + Cardinality(TextRuns(items)) > Limits.events

(* It calls every text "#text", which may be too long a name.              *)
UnnamableText(items) == TextsIn(items) # {} /\ Limits.text_bytes < TextNameSize

BadContent(items) ==
  \/ \E i \in DOMAIN items : BadCharacters(items[i])
  \/ LET nodes == Nodes(items)
     IN  \E i \in DOMAIN nodes : nodes[i].k = "start" /\ ~NamesAreBound(nodes, i)

Refusable(items) ==
  \/ DeepText(items) \/ LongText(items) \/ UnnamableText(items)
  \/ ManyEvents(items) \/ BadContent(items)

(* finish() refuses a document whose calls all succeeded for these reasons *)
(* and no other: never for its structure, its size, the number or size of  *)
(* its attributes or a DOCTYPE, which the calls have checked.              *)
FinishRefusal ==
  /\ result = "refused" => Refusable(output)
  /\ finished => ~Refusable(file)

(* A file handed out can be read by a Reader with the same limits, unless  *)
(* its input limit is below the writer's output limit.                     *)
OwnFileReads ==
  finished /\ reader # "none" =>
    \/ reader \in {"open", "ended"}
    \/ reader = "limit_exceeded" /\ Bytes(file) > Limits.input_bytes

(* What a document and its events tell: the markup, and every character.   *)
Told(kind, name, value, attributes, empty) ==
  [kind |-> kind, name |-> name, value |-> value, attributes |-> attributes,
   empty |-> empty]

Characters(text) ==
  [i \in 1..Len(text) |-> Told("character", "", <<text[i]>>, <<>>, FALSE)]

MarkOf(item) ==
  Told(CASE item.k \in {"start", "empty"} -> "start_element"
         [] item.k = "end" -> "end_element"
         [] item.k = "pi" -> "processing_instruction"
         [] OTHER -> item.k,
       NodeName(item), item.t, item.a, item.k = "empty")

Story(pieces) ==
  LET told[i \in 0..Len(pieces)] == IF i = 0 THEN <<>> ELSE told[i - 1] \o pieces[i]
  IN  told[Len(pieces)]

PieceOf(item) ==
  CASE item.k = "decl" -> <<>>
    [] item.k \in {"text", "cdata"} -> Characters(item.t)
    [] OTHER -> <<MarkOf(item)>>

StoryOf(items) == Story([i \in 1..Len(items) |-> PieceOf(items[i])])

EventPiece(event) ==
  IF event.kind = "text" THEN Characters(event.value)
  ELSE <<Told(event.kind, event.name, event.value, event.attributes, event.empty)>>

StoryRead(events) == Story([i \in 1..Len(events) |-> EventPiece(events[i])])

(* The elements open where an event is reported, after the events before.  *)
DepthRead(events, i) ==
  Cardinality({j \in 1..i - 1 : events[j].kind = "start_element" /\ ~events[j].empty})
    - Cardinality({j \in 1..i : events[j].kind = "end_element"})

(* The events of a document tell what was written: the markup and the      *)
(* characters, each in its place, all of it when the reader has ended and  *)
(* a beginning of it until then; and each has its depth.                   *)
EventsTellDocument ==
  /\ LET read == StoryRead(reported)
         written == StoryOf(doc)
     IN  /\ Len(read) <= Len(written)
         /\ read = SubSeq(written, 1, Len(read))
         /\ reader = "ended" => read = written
  /\ \A i \in 1..Len(reported) : reported[i].depth = DepthRead(reported, i)

(* The end of the document and an error are final: nothing is reported     *)
(* after them.                                                             *)
OutcomeIsFinal ==
  [][reader \notin {"none", "open"} => UNCHANGED <<reader, reported>>]_nativeVars
=============================================================================
