---------------------------- MODULE OpeningMarkup ----------------------------
(***************************************************************************)
(* The markup of one opening tag, read a character at a time by the three  *)
(* hand-written readers the library has for it:                            *)
(*                                                                         *)
(*   find_markup_end and is_self_closing_markup (OpenTag.cpp), which tell  *)
(*   ParseOpenTags where the tag ends and whether it closes itself: quote  *)
(*   and slash;                                                            *)
(*   InlineProperties::Parse, which reads the attributes of the markup the *)
(*   first one delimited: phase, field and properties;                     *)
(*   parse_result (TagParser.cpp), which stops at the first ">" whatever   *)
(*   is quoted: the operators OpeningEnd and ParseName below.              *)
(*                                                                         *)
(* The first two each make one pass from left to right, so they are        *)
(* advanced together, one action per phase of the attribute parser.        *)
(* Offset 0 is the "<"; text[i] is the character at offset i.              *)
(***************************************************************************)
EXTENDS Naturals, Sequences, FiniteSets

Sets == INSTANCE FiniteSetsExt

CONSTANTS Chars,     \* the classes of characters that occur
          BoolWords, \* the values that read "true" or "false"
          Bound      \* the bound of the model: characters after the "<"

Quotes    == {"dquote", "squote"}
NameStart == {"letter", "exp", "colon"}             \* exp: "e" or "E"
NameChar  == NameStart \cup {"digit", "point", "minus"}

ASSUME CharsAssumption ==
  /\ Chars \subseteq NameChar \cup Quotes \cup
       {"plus", "blank", "slash", "equals", "bracket", "other"}
  /\ Bound \in Nat

VARIABLES
  text,        \* the characters read
  quote,       \* find_markup_end: the quote that is open, or "none"
  slash,       \* is_self_closing_markup: the last non-blank is a "/"
  phase,       \* where InlineProperties::Parse is
  field,       \* NameBegin, NameEnd and ValueBegin of the property it reads
  properties,  \* what it has read
  status,      \* "reading", "accepted" or "rejected"
  stray        \* history: a quote was read inside an unquoted value

vars == <<text, quote, slash, phase, field, properties, status, stray>>

Phases == {"start", "tag", "between", "slash", "attribute", "named",
           "equals", "dquote", "squote", "unquoted"}

Init ==
  /\ text = <<>>
  /\ quote = "none"
  /\ slash = FALSE
  /\ phase = "start"
  /\ field = [NameBegin |-> 0, NameEnd |-> 0, ValueBegin |-> 0]
  /\ properties = <<>>
  /\ status = "reading"
  /\ stray = FALSE

here == Len(text) + 1

-----------------------------------------------------------------------------
(* infer_type of an unquoted value.                                        *)

AfterSign(value) ==
  IF value # <<>> /\ value[1] \in {"plus", "minus"} THEN 2 ELSE 1

LooksLikeIntOrSign(value) ==
  \A i \in AfterSign(value)..Len(value) : value[i] = "digit"

LooksLikeInt(value) ==
  /\ AfterSign(value) <= Len(value)
  /\ \A i \in AfterSign(value)..Len(value) : value[i] = "digit"

(* The position after the digits, with at most one point, from i on.       *)
AfterMantissa(value, i) ==
  Sets!Max({k \in i..Len(value) + 1 :
         /\ \A j \in i..k - 1 : value[j] \in {"digit", "point"}
         /\ Cardinality({j \in i..k - 1 : value[j] = "point"}) <= 1})

LooksLikeFloat(value) ==
  LET begin == AfterSign(value)
      index == AfterMantissa(value, begin)
      Saw(c) == \E j \in begin..index - 1 : value[j] = c
      exponent == index <= Len(value) /\ value[index] = "exp"
      digits == IF index < Len(value) /\ value[index + 1] \in {"plus", "minus"}
                  THEN index + 2 ELSE index + 1
  IN  /\ Saw("digit")
      /\ IF exponent
           THEN /\ digits <= Len(value)
                /\ \A j \in digits..Len(value) : value[j] = "digit"
           ELSE Saw("point") /\ index = Len(value) + 1

InferType(value) ==
  IF value \in BoolWords THEN "BoolType"
  ELSE IF LooksLikeInt(value) THEN "IntType"
  ELSE IF LooksLikeFloat(value) THEN "FloatType"
  ELSE "StringType"

-----------------------------------------------------------------------------
Property(begin, end, has, vbegin, vend, type) ==
  [NameBegin |-> begin, NameEnd |-> end, HasValue |-> has,
   ValueBegin |-> vbegin, ValueEnd |-> vend, ValueType |-> type]

Flag(end) == Property(field.NameBegin, end, FALSE, end, end, "StringType")

QuotedWithEnd == Property(field.NameBegin, field.NameEnd, TRUE,
                          field.ValueBegin, here + 1, "StringType")

Quoted == Property(field.NameBegin, field.NameEnd, TRUE,
                   field.ValueBegin, here, "StringType")

Unquoted == Property(field.NameBegin, field.NameEnd, TRUE, field.ValueBegin,
                     here, InferType(SubSeq(text, field.ValueBegin, Len(text))))

(* The property that is complete when the character here ends it.          *)
Pushed ==
  IF phase = "attribute" THEN Append(properties, Flag(here))
  ELSE IF phase = "named" THEN Append(properties, Flag(field.NameEnd))
  ELSE IF phase = "unquoted" THEN Append(properties, Unquoted)
  ELSE properties

Ends(c) == quote = "none" /\ c = "bracket"

QuoteIgnored(c) == "none"

QuoteAfter(c) ==
  IF quote # "none" THEN (IF c = quote THEN "none" ELSE quote)
                    ELSE IF c \in Quotes THEN c ELSE "none"

SlashAfter(c) == IF c = "blank" THEN slash ELSE c = "slash"

(* A character both readers move past.                                     *)
Advance(c) ==
  /\ status = "reading"
  /\ Len(text) < Bound
  /\ ~Ends(c)
  /\ text' = Append(text, c)
  /\ quote' = QuoteAfter(c)
  /\ slash' = SlashAfter(c)

(* The attribute parser gives up on this character.                        *)
Refuse(c) ==
  /\ Advance(c)
  /\ status' = "rejected"
  /\ UNCHANGED <<phase, field, properties, stray>>

(* The top of its loop: blanks, the "/" of a self-closing tag, or a name.  *)
LoopTop(c) ==
  /\ properties' = Pushed
  /\ UNCHANGED <<status, stray>>
  /\ \/ c = "blank" /\ phase' = "between" /\ UNCHANGED field
     \/ c = "slash" /\ phase' = "slash" /\ UNCHANGED field
     \/ /\ c \in NameStart
        /\ phase' = "attribute"
        /\ field' = [field EXCEPT !.NameBegin = here]

Moves(c) == c \in {"blank", "slash"} \cup NameStart

(* A "/" first would make the markup a closing tag.                        *)
ReadTagName(c) ==
  /\ phase \in {"start", "tag"}
  /\ phase = "start" => c # "slash"
  /\ \/ /\ c \in IF phase = "start" THEN NameStart ELSE NameChar
        /\ Advance(c)
        /\ phase' = "tag"
        /\ UNCHANGED <<field, properties, status, stray>>
     \/ phase = "tag" /\ c \notin NameChar /\ Moves(c) /\ Advance(c) /\ LoopTop(c)
     \/ phase = "start" /\ c \notin NameStart /\ Refuse(c)
     \/ phase = "tag" /\ c \notin NameChar /\ ~Moves(c) /\ Refuse(c)

ReadBetween(c) ==
  /\ phase = "between"
  /\ \/ Moves(c) /\ Advance(c) /\ LoopTop(c)
     \/ ~Moves(c) /\ Refuse(c)

(* Nothing but blanks may follow the "/".                                  *)
ReadAfterSlash(c) ==
  /\ phase = "slash"
  /\ \/ c = "blank" /\ Advance(c) /\ UNCHANGED <<phase, field, properties, status, stray>>
     \/ c # "blank" /\ Refuse(c)

ReadName(c) ==
  /\ phase = "attribute"
  /\ \/ c \in NameChar /\ Advance(c) /\ UNCHANGED <<phase, field, properties, status, stray>>
     \/ /\ c \in {"blank", "equals"}
        /\ Advance(c)
        /\ phase' = IF c = "blank" THEN "named" ELSE "equals"
        /\ field' = [field EXCEPT !.NameEnd = here]
        /\ UNCHANGED <<properties, status, stray>>
     \/ c = "slash" /\ Advance(c) /\ LoopTop(c)
     \/ c \notin NameChar \cup {"blank", "equals", "slash"} /\ Refuse(c)

ReadAfterName(c) ==
  /\ phase = "named"
  /\ \/ c = "blank" /\ Advance(c) /\ UNCHANGED <<phase, field, properties, status, stray>>
     \/ /\ c = "equals"
        /\ Advance(c)
        /\ phase' = "equals"
        /\ UNCHANGED <<field, properties, status, stray>>
     \/ c # "blank" /\ Moves(c) /\ Advance(c) /\ LoopTop(c)
     \/ c # "equals" /\ ~Moves(c) /\ Refuse(c)

(* After the "=": blanks, a quoted value, or an unquoted one, which is     *)
(* empty when a "/" comes first.                                           *)
ReadAfterEquals(c) ==
  /\ phase = "equals"
  /\ Advance(c)
  /\ UNCHANGED status
  /\ \/ c = "blank" /\ UNCHANGED <<phase, field, properties, stray>>
     \/ /\ c \in Quotes
        /\ phase' = c
        /\ field' = [field EXCEPT !.ValueBegin = here + 1]
        /\ UNCHANGED <<properties, stray>>
     \/ /\ c = "slash"
        /\ phase' = "slash"
        /\ properties' = Append(properties,
             Property(field.NameBegin, field.NameEnd, TRUE, here, here, InferType(<<>>)))
        /\ UNCHANGED <<field, stray>>
     \/ /\ c \notin Quotes \cup {"blank", "slash"}
        /\ phase' = "unquoted"
        /\ field' = [field EXCEPT !.ValueBegin = here]
        /\ UNCHANGED <<properties, stray>>

ReadQuoted(c) ==
  /\ phase \in Quotes
  /\ Advance(c)
  /\ IF c = phase
       THEN phase' = "between" /\ properties' = Append(properties, Quoted)
       ELSE UNCHANGED <<phase, properties>>
  /\ UNCHANGED <<field, status, stray>>

ReadUnquoted(c) ==
  /\ phase = "unquoted"
  /\ \/ c \in {"blank", "slash"} /\ Advance(c) /\ LoopTop(c)
     \/ /\ c \notin {"blank", "slash"}
        /\ Advance(c)
        /\ stray' = (stray \/ c \in Quotes)
        /\ UNCHANGED <<phase, field, properties, status>>

(* The ">" that find_markup_end returns: close_bracket.  The parser needs  *)
(* a name before it, a value after "=" and the end of a quoted value.      *)
CloseBracket ==
  /\ status = "reading"
  /\ "bracket" \in Chars
  /\ Ends("bracket")
  /\ status' = IF phase \in {"start", "equals"} \cup Quotes
                 THEN "rejected" ELSE "accepted"
  /\ properties' = Pushed
  /\ UNCHANGED <<text, quote, slash, phase, field, stray>>

Read(c) ==
  \/ ReadTagName(c) \/ ReadBetween(c) \/ ReadAfterSlash(c) \/ ReadName(c)
  \/ ReadAfterName(c) \/ ReadAfterEquals(c) \/ ReadQuoted(c) \/ ReadUnquoted(c)

Next == CloseBracket \/ \E c \in Chars : Read(c)

Spec == Init /\ [][Next]_vars

-----------------------------------------------------------------------------
(* parse_result on the same text: TagParser::Parse stops at the first ">"  *)
(* and takes what stands before the first blank as the name.               *)

OpeningEnd ==
  Sets!Min({i \in 1..Len(text) : text[i] = "bracket"} \cup {here})

ParseName ==
  LET end == Sets!Min({i \in 1..OpeningEnd : i < OpeningEnd => text[i] = "blank"})
  IN  SubSeq(text, 1, end - 1)

IsName(name) ==
  /\ name # <<>>
  /\ name[1] \in NameStart
  /\ \A i \in 2..Len(name) : name[i] \in NameChar

IsValidTagName(name) ==
  /\ name # <<>>
  /\ name[1] \in NameStart \ {"colon"}
  /\ \A i \in 2..Len(name) : name[i] \in NameChar

(* read_tag_name of ParseOpenTags, for a markup that starts with a name.   *)
TagNameEnd == Sets!Min({i \in 1..here : i < here => text[i] \notin NameChar})

-----------------------------------------------------------------------------
PropertyType ==
  [NameBegin : Nat, NameEnd : Nat, HasValue : BOOLEAN, ValueBegin : Nat,
   ValueEnd : Nat,
   ValueType : {"StringType", "IntType", "FloatType", "BoolType"}]

(* The types of the variables.                                             *)
TypeOK ==
  /\ text \in Seq(Chars)
  /\ Len(text) <= Bound
  /\ quote \in Quotes \cup {"none"}
  /\ slash \in BOOLEAN
  /\ phase \in Phases
  /\ field \in [NameBegin : Nat, NameEnd : Nat, ValueBegin : Nat]
  /\ properties \in Seq(PropertyType)
  /\ status \in {"reading", "accepted", "rejected"}
  /\ stray \in BOOLEAN

(* The two readers agree on every tag the attribute parser accepts: it met *)
(* the "/" of a self-closing tag exactly when the scanner says the tag     *)
(* closes itself, although one looks at the last character only and the    *)
(* other does not know quotes have to be skipped before it.  And a markup  *)
(* the scanner delimited ends inside a quoted value only when an unquoted  *)
(* value held a quote before.                                              *)
SelfClosingAgrees == status = "accepted" => (slash <=> phase = "slash")
QuotesAgree == status = "rejected" /\ phase \in Quotes => stray
ReadersAgree == SelfClosingAgrees /\ QuotesAgree

(* The strengthening that makes it inductive: until a quote strays into an *)
(* unquoted value, the two readers are inside the same quote.              *)
SlashInStep ==
  status # "rejected" =>
    /\ phase = "slash" => slash
    /\ slash => phase \in {"slash"} \cup Quotes

QuoteInStep ==
  status # "rejected" /\ ~stray =>
    /\ phase \in Quotes => quote = phase
    /\ phase \notin Quotes => quote = "none"

InStep == SlashInStep /\ QuoteInStep

(* Every property is a slice of the markup, in document order, and nothing *)
(* but blanks, "=", the quotes and a final "/" lies between the slices: no *)
(* character of an accepted tag is dropped or read into two properties.    *)
IsQuoted(p) == p.HasValue /\ text[p.ValueBegin - 1] \in Quotes

Held(p) == p.NameBegin..p.NameEnd - 1 \cup p.ValueBegin..p.ValueEnd - 1

FieldsAreSlices ==
  status = "accepted" =>
    /\ \A i \in DOMAIN properties :
         LET p == properties[i]
         IN  /\ p.NameBegin < p.NameEnd /\ p.NameEnd <= p.ValueBegin
             /\ p.ValueBegin <= p.ValueEnd /\ p.ValueEnd <= here
             /\ ~p.HasValue => p.ValueEnd = p.NameEnd
             /\ text[p.NameBegin] \in NameStart
             /\ i < Len(properties) => p.ValueEnd <= properties[i + 1].NameBegin
             /\ IsQuoted(p) =>
                  /\ p.ValueEnd < here
                  /\ text[p.ValueEnd] = text[p.ValueBegin - 1]
                  /\ \A k \in p.ValueBegin..p.ValueEnd - 1 : text[k] # text[p.ValueEnd]
    /\ \A k \in TagNameEnd..Len(text) :
         \/ \E i \in DOMAIN properties : k \in Held(properties[i])
         \/ text[k] \in {"blank", "equals"} \cup Quotes
         \/ text[k] = "slash" /\ \A j \in k + 1..Len(text) : text[j] = "blank"

(* The type of an unquoted value is the one its spelling has in the        *)
(* grammar the reader of a type expects: an optional sign before digits,   *)
(* or before a mantissa with a point, an exponent, or both.                *)
IsInt(v) ==
  \E d \in 1..Len(v) :
    /\ d = 1 \/ (d = 2 /\ v[1] \in {"plus", "minus"})
    /\ \A i \in d..Len(v) : v[i] = "digit"

IsFloat(v) ==
  \E b \in 1..2, k \in 1..Len(v) :
    LET mantissa == SubSeq(v, b, k)
        points == {i \in 1..Len(mantissa) : mantissa[i] = "point"}
        rest == SubSeq(v, k + 1, Len(v))
    IN  /\ b = 1 \/ v[1] \in {"plus", "minus"}
        /\ \A i \in 1..Len(mantissa) : mantissa[i] \in {"digit", "point"}
        /\ \E i \in 1..Len(mantissa) : mantissa[i] = "digit"
        /\ Cardinality(points) <= 1
        /\ \/ rest = <<>> /\ points # {}
           \/ rest # <<>> /\ rest[1] = "exp" /\ IsInt(Tail(rest))

TypesByGrammar ==
  \A i \in DOMAIN properties :
    LET p == properties[i]
        value == SubSeq(text, p.ValueBegin, p.ValueEnd - 1)
    IN  IF ~p.HasValue \/ IsQuoted(p) \/ value \in BoolWords
          THEN p.ValueType = IF value \in BoolWords /\ p.HasValue /\ ~IsQuoted(p)
                               THEN "BoolType" ELSE "StringType"
          ELSE /\ p.ValueType = "IntType" <=> IsInt(value)
               /\ p.ValueType = "FloatType" <=> IsFloat(value)

(* TagParser::Parse takes an accepted tag for the same one: the same name, *)
(* unless the name begins with ":" or is followed by the "/"; and it ends  *)
(* the tag too early only at a ">" inside a value.                         *)
SingleTagAgrees ==
  status = "accepted" =>
    /\ IsValidTagName(ParseName) <=>
         /\ text[1] # "colon"
         /\ TagNameEnd < here => text[TagNameEnd] = "blank"
    /\ IsValidTagName(ParseName) => ParseName = SubSeq(text, 1, TagNameEnd - 1)
    /\ OpeningEnd < here =>
         \E i \in DOMAIN properties :
           OpeningEnd \in properties[i].ValueBegin..properties[i].ValueEnd - 1
=============================================================================
