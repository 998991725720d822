------------------------------- MODULE GetFile -------------------------------
(***************************************************************************)
(* The slots that read a text and answer with signals: those of GetFile,   *)
(* GetStringToken, FileParser, TagParser, InputValidator, Doctype and      *)
(* ClosedTag, which call one another in this order.                        *)
(*                                                                         *)
(* The tokens are those of Markup with one field more, s, what their       *)
(* spelling has that these readers tell apart: "bom" (a text), "empty" (a  *)
(* <?xml?> without a body), "gt" (an opening tag with a ">" in a quoted    *)
(* value), "colon" (a tag whose name begins with one), "spaced" (a blank   *)
(* behind the name in a closing or self-closing tag), "junk" (a closing    *)
(* tag with more than its name), or "".                                    *)
(***************************************************************************)
EXTENDS Naturals, Sequences, FiniteSets

Sets == INSTANCE FiniteSetsExt

CONSTANTS BlockNames, BlockDisplays  \* of Markup, which reading does not use

M == INSTANCE Markup

VARIABLES
  text,     \* the text, or what the file at the path holds
  call,     \* the slot
  stage,    \* where the call is, "done" after it
  rest,     \* of the text, while declarations are cut off
  value,    \* the TagValue
  outcome,  \* the status of the result
  due,      \* signals still to be emitted
  signals,  \* signals emitted, each with its argument
  faulted   \* history: the file was not read, or an exception was thrown

vars == <<text, call, stage, rest, value, outcome, due, signals, faulted>>

GetFileCalls == {"ReadXml", "ReadFile", "ReadString"}
Calls == GetFileCalls \cup {"ParseFileInput", "ParseTag", "ValidateInput",
                            "MatchTopInput", "ParseClosedTag"}

NoValue == [TagName |-> "", Value |-> <<>>]

FirstStage ==
  [c \in Calls |->
     CASE c \in {"ReadFile", "ParseFileInput"} -> "fetch"
       [] c = "ParseTag"       -> "parse"
       [] c = "ValidateInput"  -> "validate"
       [] c = "ParseClosedTag" -> "scan"
       [] c \in {"ReadXml", "ReadString", "MatchTopInput"} -> "match"]

(* The caller provides the text.                                           *)
Untouched ==
  /\ rest = text
  /\ value = NoValue
  /\ outcome = ""
  /\ due = <<>>
  /\ signals = <<>>
  /\ faulted = FALSE

Init == call \in Calls /\ stage = FirstStage[call] /\ Untouched

(* What tokens are: a tag has a name, and a byte order mark is a text.      *)
WellSpelled(tokens) ==
  \A i \in DOMAIN tokens :
    /\ tokens[i].k \in M!TagKinds => tokens[i].n # ""
    /\ tokens[i].s = "bom" => tokens[i].k = "text"

-----------------------------------------------------------------------------
(* Doctype::MatchTopResult and the two copies of the code that passes over *)
(* what it matched.                                                        *)

(* Positions that are not blank, and the first of them or past the end.    *)
Ink(tokens) == {i \in DOMAIN tokens : tokens[i].k # "space"}

Top(tokens) ==
  Sets!Min({i \in Ink(tokens) : i > 1 \/ tokens[i].s # "bom"} \cup {Len(tokens) + 1})

IsDeclaration(token) ==
  token.k = "mixed" \/ (token.k = "xmldecl" /\ token.s # "empty")

MatchTop(tokens) == Top(tokens) <= Len(tokens) /\ IsDeclaration(tokens[Top(tokens)])

AfterDeclaration(tokens) == SubSeq(tokens, Top(tokens) + 1, Len(tokens))

(* InputValidator::ValidateResult.  HasValidTagClosure is the module       *)
(* InputValidator; this is what it decides.                                *)
HasValidTagClosure(tokens) ==
  M!Balanced(tokens) /\ \E i \in DOMAIN tokens : M!Starts(tokens[i])

ValidateResult(tokens) ==
  IF ~MatchTop(tokens) THEN "InvalidXmlFile"
  ELSE IF \E body \in {AfterDeclaration(tokens)} : HasValidTagClosure(body) THEN "Valid"
  ELSE "InvalidTagClosure"

(* TagParser::Parse: only what begins and what ends the text is looked at. *)
TrimOuter(tokens) ==
  IF Ink(tokens) = {} THEN <<>> ELSE SubSeq(tokens, Sets!Min(Ink(tokens)), Sets!Max(Ink(tokens)))

OpensTag(token) ==
  \/ token.k = "open" /\ token.s # "colon"
  \/ token.k = "self" /\ token.s = "spaced"

ClosesTag(token, name) == token.k = "close" /\ token.n = name /\ token.s = ""

Remainder == [k |-> "text", n |-> "", d |-> <<>>, ok |-> TRUE, s |-> "remainder"]

ParseResult(tokens) ==
  LET input == TrimOuter(tokens)
      size == Len(input)
  IN  IF size < 2 THEN NoValue
      ELSE IF ~(OpensTag(input[1]) /\ ClosesTag(input[size], input[1].n)) THEN NoValue
      ELSE [TagName |-> input[1].n,
            Value |-> (IF input[1].s = "gt" THEN <<Remainder>> ELSE <<>>)
                        \o SubSeq(input, 2, size - 1)]

(* scan_immediate_closed_tag.                                              *)
ImmediateClosedTag(tokens) ==
  \E i \in Ink(tokens) :
    /\ \A j \in Ink(tokens) : i <= j
    /\ tokens[i].k = "close" /\ tokens[i].s # "junk"

-----------------------------------------------------------------------------
(* The signals that tell an outcome.                                       *)
Signal(name) == <<name, "">>

ReadFileAnswer(result) ==
  IF result = "Parsed" THEN <<Signal("Parsed")>>
                       ELSE <<<<"Failed", result>>, Signal(result)>>

ReadStringAnswer(result) ==
  IF result = "Parsed" THEN <<Signal("Parsed")>>
                       ELSE <<<<"Failed", result>>, Signal("ParseFailed")>>

ParseTagAnswer(result) ==
  <<Signal(IF result = "Parsed" THEN "TagParsed" ELSE "ParseFailed")>>

ValidateInputAnswer(result) ==
  IF result = "Valid"
    THEN <<<<"ValidationFinished", result>>, Signal("ValidXml")>>
    ELSE <<<<"ValidationFinished", result>>, <<"ValidationFailed", result>>, Signal(result)>>

MatchTopInputAnswer(result) ==
  CASE result = "xmldecl" ->
         <<<<"DoctypeMatched", result>>, Signal("XmlDeclarationMatched")>>
    [] result = "mixed" ->
         <<<<"DoctypeMatched", result>>, Signal("DoctypeDeclarationMatched")>>
    [] result \notin {"xmldecl", "mixed"} -> <<Signal("DoctypeRejected")>>

ParseClosedTagAnswer(result) ==
  IF result = "Closed"
    THEN <<<<"ClosedTagFlagged", "true">>, Signal("ClosedTagParsed")>>
    ELSE <<<<"ClosedTagFlagged", "false">>, Signal("ClosedTagRejected")>>

Answer(slot, result) ==
  CASE slot \in {"ReadXml", "ReadFile"}         -> ReadFileAnswer(result)
    [] slot = "ReadString"                      -> ReadStringAnswer(result)
    [] slot \in {"ParseTag", "ParseFileInput"}  -> ParseTagAnswer(result)
    [] slot = "ValidateInput"                   -> ValidateInputAnswer(result)
    [] slot = "MatchTopInput"                   -> MatchTopInputAnswer(result)
    [] slot = "ParseClosedTag"                  -> ParseClosedTagAnswer(result)

(* What the handler of a slot answers when converting an argument throws.  *)
Exceptional(slot) ==
  CASE slot \in {"ParseTag", "ParseFileInput"} -> "ParserRejected"
    [] slot = "MatchTopInput"  -> "InvalidXmlFile"
    [] slot = "ParseClosedTag" -> "NotClosed"
    [] slot \in GetFileCalls \cup {"ValidateInput"} -> "ExceptionThrown"

(* Signals whose arguments are converted as they are emitted.              *)
Converted(slot) ==
  {"Parsed", "TagParsed", "Failed", "ValidationFailed", "DoctypeMatched",
   "DoctypeRejected", "ClosedTagParsed", "ClosedTagRejected"}
    \cup (IF slot = "ReadString" THEN {} ELSE {"ParseFailed"})

Conclude(result) ==
  /\ outcome' = result
  /\ due' = Answer(call, result)
  /\ stage' = "emit"

Proceed(next) == stage' = next /\ UNCHANGED <<outcome, due>>

Fault == faulted' = TRUE

(* ParseFile of GetFile tells a failed read from an exception, that of     *)
(* FileParser does not.                                                    *)
FetchFailures ==
  IF call = "ReadFile" THEN {"FileReadFailed", "ExceptionThrown"} ELSE {"ParserRejected"}

(* The reader the caller provided is asked for the content of the file.    *)
Fetch ==
  /\ stage = "fetch"
  /\ \/ Proceed(IF call = "ReadFile" THEN "match" ELSE "parse") /\ UNCHANGED faulted
     \/ (\E result \in FetchFailures : Conclude(result)) /\ Fault
  /\ UNCHANGED <<text, call, rest, value, signals>>

(* MatchTopResult catches what is thrown in it: nothing matched.           *)
Match ==
  /\ stage = "match"
  /\ \/ /\ MatchTop(text)
        /\ IF call = "MatchTopInput" THEN Conclude(text[Top(text)].k)
                                     ELSE Proceed("validate")
        /\ UNCHANGED faulted
     \/ ~MatchTop(text) /\ Conclude("InvalidXmlFile") /\ UNCHANGED faulted
     \/ (Conclude("InvalidXmlFile") \/ Conclude(Exceptional(call))) /\ Fault
  /\ UNCHANGED <<text, call, rest, value, signals>>

(* MatchTopResult and HasValidTagClosure catch what is thrown in them.     *)
Validate ==
  /\ stage = "validate"
  /\ \/ /\ IF ValidateResult(text) = "Valid" /\ call # "ValidateInput"
             THEN Proceed("strip")
             ELSE Conclude(ValidateResult(text))
        /\ UNCHANGED faulted
     \/ /\ \E result \in {"InvalidXmlFile", "InvalidTagClosure", "ExceptionThrown"} :
             Conclude(result)
        /\ Fault
  /\ UNCHANGED <<text, call, rest, value, signals>>

(* The loop of parser_body_after_declarations, which ends at the first     *)
(* declaration that does not match or on which MatchTop throws.            *)
StripFirstOnly ==
  /\ stage = "strip"
  /\ rest' = AfterDeclaration(rest)
  /\ Proceed("parse")
  /\ UNCHANGED <<text, call, value, signals, faulted>>

Strip ==
  /\ stage = "strip"
  /\ \/ MatchTop(rest) /\ rest' = AfterDeclaration(rest) /\ UNCHANGED <<stage, faulted>>
     \/ ~MatchTop(rest) /\ stage' = "parse" /\ UNCHANGED <<rest, faulted>>
     \/ MatchTop(rest) /\ stage' = "parse" /\ UNCHANGED rest /\ Fault
  /\ UNCHANGED <<text, call, value, outcome, due, signals>>

(* An exception of the parser is a rejection, one after it is not.         *)
Parse ==
  /\ stage = "parse"
  /\ \/ /\ Conclude(IF ParseResult(rest) = NoValue THEN "ParserRejected" ELSE "Parsed")
        /\ value' = ParseResult(rest)
        /\ UNCHANGED faulted
     \/ /\ Conclude("ParserRejected") \/ Conclude(Exceptional(call))
        /\ UNCHANGED value
        /\ Fault
  /\ UNCHANGED <<text, call, rest, signals>>

Scan ==
  /\ stage = "scan"
  /\ \/ Conclude(IF ImmediateClosedTag(text) THEN "Closed" ELSE "NotClosed")
        /\ UNCHANGED faulted
     \/ Conclude("NotClosed") /\ Fault
  /\ UNCHANGED <<text, call, rest, value, signals>>

Emit ==
  /\ stage \in {"emit", "handler"}
  /\ due # <<>>
  /\ signals' = Append(signals, Head(due))
  /\ due' = Tail(due)
  /\ UNCHANGED <<text, call, stage, rest, value, outcome, faulted>>

ConversionThrowsUnanswered ==
  /\ stage = "emit"
  /\ due # <<>>
  /\ Head(due)[1] \in Converted(call)
  /\ outcome' = Exceptional(call)
  /\ due' = <<>>
  /\ stage' = "handler"
  /\ Fault
  /\ UNCHANGED <<text, call, rest, value, signals>>

(* The argument of a signal is converted inside of the same try block.     *)
ConversionThrows ==
  /\ stage = "emit"
  /\ due # <<>>
  /\ Head(due)[1] \in Converted(call)
  /\ outcome' = Exceptional(call)
  /\ due' = Answer(call, outcome')
  /\ stage' = "handler"
  /\ Fault
  /\ UNCHANGED <<text, call, rest, value, signals>>

Return ==
  /\ stage \in {"emit", "handler"}
  /\ due = <<>>
  /\ stage' = "done"
  /\ UNCHANGED <<text, call, rest, value, outcome, due, signals, faulted>>

Next ==
  \/ Fetch \/ Match \/ Validate \/ Strip \/ Parse \/ Scan
  \/ Emit \/ ConversionThrows \/ Return

Spec == WellSpelled(text) /\ Init /\ [][Next]_vars

-----------------------------------------------------------------------------
(* The text behind the declarations it begins with, and its root.          *)

EndsDeclarations(n) ==
  /\ n > 0 => IsDeclaration(text[n])
  /\ \A i \in 1..n :
       \/ IsDeclaration(text[i]) \/ text[i].k = "space"
       \/ text[i].s = "bom" /\ (i > 1 => IsDeclaration(text[i - 1]))

Declared == Sets!Max({n \in 0..Len(text) : EndsDeclarations(n)})

Body == TrimOuter(SubSeq(text, Declared + 1, Len(text)))

(* The first tag of a balanced body ends where the body ends.              *)
IsRoot(body) ==
  body # <<>> /\ body[1].k = "open" /\ M!Balanced(body) /\ M!ClosingOf(body, 1) = Len(body)

(* No ">" in its attributes, no ":" before its name, </name> as its end.   *)
PlainRoot(body) ==
  IsRoot(body) /\ body[1].s \notin {"gt", "colon"} /\ body[Len(body)].s = ""

Inner(body) == SubSeq(body, 2, Len(body) - 1)

Answered == stage = "done" /\ call \in GetFileCalls

(* The readers cut off exactly the declarations: a declared text with a    *)
(* plain root is parsed unless something is thrown, an exception that ends *)
(* the cutting early never passes for a success, and what is parsed is the *)
(* first tag of a balanced body, with all of its content if it is a root.  *)
ParsedIsRoot ==
  Answered =>
    /\ Declared > 0 /\ PlainRoot(Body) => outcome = "Parsed" \/ faulted
    /\ outcome = "Parsed" =>
         /\ Declared > 0 /\ M!Balanced(Body)
         /\ value.TagName = Body[1].n
         /\ PlainRoot(Body) => value.Value = Inner(Body)

(* docs/get_file.md: the value of the root tag is its inner text as it is  *)
(* in the source.  The code ends the root's opening tag at the first ">",  *)
(* also when that is in an attribute value.                                *)
RootValueKept ==
  Answered /\ outcome = "Parsed" /\ IsRoot(Body) => value.Value = Inner(Body)

Good == {"Parsed", "TagParsed", "ValidXml", "XmlDeclarationMatched",
         "DoctypeDeclarationMatched", "ClosedTagParsed"}

Bad == {"FileReadFailed", "InvalidXmlFile", "InvalidTagClosure", "ParserRejected",
        "ExceptionThrown", "ParseFailed", "DoctypeRejected", "ClosedTagRejected"}

Succeeded(result) == result \in {"Parsed", "Valid", "xmldecl", "mixed", "Closed"}

(* Announced by a first signal, true to the concluding one.                *)
Announces(signal, conclusion) ==
  \/ signal[2] = conclusion[1]
  \/ signal[2] \in {"Valid", "xmldecl", "mixed", "true"} /\ conclusion[1] \in Good
  \/ signal[1] \in {"Failed", "ClosedTagFlagged"} /\ signal[2] # "true"
       /\ conclusion[1] \in Bad

(* The last signal concludes, no other does, and the one before the last   *)
(* agrees with it.                                                         *)
Concludes(told, result) ==
  LET last == Len(told)
  IN  /\ last > 0
      /\ \A i \in DOMAIN told : told[i][1] \in Good \cup Bad <=> i = last
      /\ told[last][1] \in Good <=> Succeeded(result)
      /\ last > 1 => Announces(told[last - 1], told[last])

(* A call ends with exactly one conclusion, whatever throws on the way,    *)
(* and what was announced last before it agrees with it, although an       *)
(* announcement can already be out when the call turns out to fail.        *)
OneConclusion == stage = "done" => Concludes(signals, outcome)
=============================================================================
