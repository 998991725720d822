------------------------- MODULE OpeningMarkupProofs -------------------------
(***************************************************************************)
(* The scanner of tags and the parser of their attributes agree on markup  *)
(* of any length.  TypeOK and InStep are inductive together: no action     *)
(* looks at more than the character read, the open quote and the phase.    *)
(*                                                                         *)
(* What the parser makes of the markup needs a second invariant, SliceInv: *)
(* the properties it has listed settle every character from the end of the *)
(* tag name to the one where the pending property begins, and that one has *)
(* got as far as the phase says.  From it follow where the properties lie, *)
(* that parse_result reads the same name, and, with what looks_like_int    *)
(* and looks_like_float accept, the types of the values.                   *)
(***************************************************************************)
EXTENDS OpeningMarkup, PositionsProofs, FiniteSetTheorems, TLAPS

IInv == TypeOK /\ InStep

(* What a step that reads a character does to the scanner.                 *)
LEMMA AdvanceType ==
  ASSUME TypeOK, NEW c \in Chars, Advance(c)
  PROVE  /\ text' \in Seq(Chars)
         /\ Len(text') <= Bound
         /\ quote' \in Quotes \cup {"none"}
         /\ slash' \in BOOLEAN
  <1>1. text' = Append(text, c) /\ Len(text) < Bound
    BY DEF Advance
  <1>2. text' \in Seq(Chars) /\ Len(text') = Len(text) + 1
    BY <1>1 DEF TypeOK
  <1>3. Len(text') <= Bound
    BY <1>1, <1>2, CharsAssumption DEF TypeOK
  <1>4. quote' \in Quotes \cup {"none"}
    BY DEF Advance, QuoteAfter, TypeOK, Quotes
  <1>5. slash' \in BOOLEAN
    BY DEF Advance, SlashAfter, TypeOK
  <1> QED
    BY <1>2, <1>3, <1>4, <1>5

LEMMA PushedType ==
  ASSUME TypeOK
  PROVE  Pushed \in Seq(PropertyType)
  <1> DEFINE value == SubSeq(text, field.ValueBegin, Len(text))
  <1>1. field.NameBegin \in Nat /\ field.NameEnd \in Nat /\ field.ValueBegin \in Nat
    BY DEF TypeOK
  <1>2. here \in Nat
    BY DEF TypeOK, here
  <1>3. InferType(value) \in {"StringType", "IntType", "FloatType", "BoolType"}
    BY DEF InferType
  <1>4. Flag(here) \in PropertyType /\ Flag(field.NameEnd) \in PropertyType
    BY <1>1, <1>2 DEF Flag, Property, PropertyType
  <1>5. Unquoted \in PropertyType
    <2> HIDE DEF value
    <2>1. Unquoted = Property(field.NameBegin, field.NameEnd, TRUE, field.ValueBegin,
                              here, InferType(value))
      BY DEF Unquoted, value
    <2> QED
      BY <1>1, <1>2, <1>3, <2>1 DEF Property, PropertyType
  <1>6. CASE phase = "attribute"
    BY <1>4, <1>6 DEF Pushed, TypeOK
  <1>7. CASE phase = "named"
    BY <1>4, <1>7 DEF Pushed, TypeOK
  <1>8. CASE phase = "unquoted"
    BY <1>5, <1>8 DEF Pushed, TypeOK
  <1>9. CASE phase \notin {"attribute", "named", "unquoted"}
    BY <1>9 DEF Pushed, TypeOK
  <1> QED
    BY <1>6, <1>7, <1>8, <1>9

-----------------------------------------------------------------------------
LEMMA InitIInv == Init => IInv
  <1> SUFFICES ASSUME Init PROVE IInv
    OBVIOUS
  <1>1. Len(text) <= Bound
    BY CharsAssumption DEF Init
  <1>2. TypeOK
    <2>1. text \in Seq(Chars) /\ properties \in Seq(PropertyType)
      BY DEF Init
    <2>2. field \in [NameBegin : Nat, NameEnd : Nat, ValueBegin : Nat]
      BY DEF Init
    <2>3. slash \in BOOLEAN /\ stray \in BOOLEAN
      BY DEF Init
    <2>4. phase \in Phases /\ quote \in Quotes \cup {"none"} /\ status = "reading"
      BY DEF Init, Phases
    <2> QED
      BY <1>1, <2>1, <2>2, <2>3, <2>4 DEF TypeOK
  <1>3. InStep
    BY DEF Init, InStep, SlashInStep, QuoteInStep, Quotes
  <1> QED
    BY <1>2, <1>3 DEF IInv

(* The top of the attribute loop leaves no quoted value, so the scanner is *)
(* outside quotes too, and the only "/" it met is the one it stops at.     *)
LEMMA LoopTopStep ==
  ASSUME IInv, NEW c \in Chars, Advance(c), LoopTop(c), status = "reading",
         phase \in {"tag", "between", "attribute", "named", "unquoted"}
  PROVE  IInv'
  <1>1. TypeOK'
    <2>1. properties' \in Seq(PropertyType)
      BY PushedType DEF IInv, LoopTop
    <2>2. field' \in [NameBegin : Nat, NameEnd : Nat, ValueBegin : Nat]
      BY DEF IInv, TypeOK, LoopTop, here
    <2>3. phase' \in Phases
      BY DEF LoopTop, Phases
    <2>4. status' = status /\ stray' = stray
      BY DEF LoopTop
    <2>5. status' \in {"reading", "accepted", "rejected"} /\ stray' \in BOOLEAN
      BY <2>4 DEF IInv, TypeOK
    <2> QED
      BY <2>1, <2>2, <2>3, <2>5, AdvanceType DEF IInv, TypeOK
  <1>2. SlashInStep'
    BY DEF IInv, InStep, SlashInStep, LoopTop, Advance, SlashAfter, NameStart, Quotes
  <1>3. QuoteInStep'
    BY DEF IInv, InStep, QuoteInStep, LoopTop, Advance, QuoteAfter, NameStart, Quotes
  <1> QED
    BY <1>1, <1>2, <1>3 DEF IInv, InStep

(* A refused character ends the reading, and InStep with it.               *)
LEMMA RefuseStep ==
  ASSUME IInv, NEW c \in Chars, Refuse(c)
  PROVE  IInv'
  <1>1. Advance(c) /\ status' = "rejected"
    BY DEF Refuse
  <1>2. TypeOK'
    BY <1>1, AdvanceType DEF IInv, TypeOK, Refuse
  <1>3. InStep'
    BY <1>1 DEF InStep, SlashInStep, QuoteInStep
  <1> QED
    BY <1>2, <1>3 DEF IInv

(* A step inside one phase, which neither reads a quote nor a "/".         *)
LEMMA StayStep ==
  ASSUME IInv, NEW c \in Chars, Advance(c), status = "reading",
         phase \notin Quotes \cup {"slash"}, c \notin Quotes \cup {"slash"},
         phase' \in Phases \ (Quotes \cup {"slash"}),
         field' \in [NameBegin : Nat, NameEnd : Nat, ValueBegin : Nat],
         UNCHANGED <<properties, status, stray>>
  PROVE  IInv'
  <1>1. TypeOK'
    BY AdvanceType DEF IInv, TypeOK
  <1>2. SlashInStep'
    BY DEF IInv, InStep, SlashInStep, Advance, SlashAfter, Quotes, Phases
  <1>3. QuoteInStep'
    BY DEF IInv, InStep, QuoteInStep, Advance, QuoteAfter, Quotes, Phases
  <1> QED
    BY <1>1, <1>2, <1>3 DEF IInv, InStep

LEMMA TagNameStep ==
  ASSUME IInv, NEW c \in Chars, ReadTagName(c), status = "reading"
  PROVE  IInv'
  <1>1. CASE /\ c \in IF phase = "start" THEN NameStart ELSE NameChar
             /\ Advance(c)
             /\ phase' = "tag"
             /\ UNCHANGED <<field, properties, status, stray>>
    <2>1. c \notin Quotes \cup {"slash"}
      BY <1>1 DEF NameStart, NameChar, Quotes
    <2>2. phase \notin Quotes \cup {"slash"}
      BY DEF ReadTagName, Quotes
    <2> QED
      BY <1>1, <2>1, <2>2, StayStep DEF IInv, TypeOK, Phases, Quotes
  <1>2. CASE phase = "tag" /\ c \notin NameChar /\ Moves(c) /\ Advance(c) /\ LoopTop(c)
    BY <1>2, LoopTopStep
  <1>3. CASE Refuse(c)
    BY <1>3, RefuseStep
  <1> QED
    BY <1>1, <1>2, <1>3 DEF ReadTagName

LEMMA NameStep ==
  ASSUME IInv, NEW c \in Chars, status = "reading",
         ReadBetween(c) \/ ReadName(c) \/ ReadAfterName(c)
  PROVE  IInv'
  <1>1. CASE Refuse(c)
    BY <1>1, RefuseStep
  <1>2. CASE Advance(c) /\ LoopTop(c)
    BY <1>2, LoopTopStep DEF ReadBetween, ReadName, ReadAfterName
  <1>3. CASE /\ phase \in {"attribute", "named"}
             /\ c \in NameChar \cup {"blank", "equals"}
             /\ Advance(c)
             /\ phase' \in {"attribute", "named", "equals"}
             /\ field' \in {field, [field EXCEPT !.NameEnd = here]}
             /\ UNCHANGED <<properties, status, stray>>
    <2>1. c \notin Quotes \cup {"slash"}
      BY <1>3 DEF NameStart, NameChar, Quotes
    <2>2. field' \in [NameBegin : Nat, NameEnd : Nat, ValueBegin : Nat]
      BY <1>3 DEF IInv, TypeOK, here
    <2> QED
      BY <1>3, <2>1, <2>2, StayStep DEF Phases, Quotes
  <1>4. CASE ReadBetween(c)
    BY <1>1, <1>2, <1>4 DEF ReadBetween
  <1>5. CASE ReadName(c)
    BY <1>1, <1>2, <1>3, <1>5 DEF ReadName
  <1>6. CASE ReadAfterName(c)
    BY <1>1, <1>2, <1>3, <1>6 DEF ReadAfterName
  <1> QED
    BY <1>4, <1>5, <1>6

LEMMA AfterSlashStep ==
  ASSUME IInv, NEW c \in Chars, ReadAfterSlash(c), status = "reading"
  PROVE  IInv'
  <1>1. CASE c = "blank" /\ Advance(c) /\ UNCHANGED <<phase, field, properties, status, stray>>
    <2>1. TypeOK'
      BY <1>1, AdvanceType DEF IInv, TypeOK
    <2>2. SlashInStep'
      BY <1>1 DEF IInv, InStep, SlashInStep, Advance, SlashAfter
    <2>3. QuoteInStep'
      BY <1>1 DEF IInv, InStep, QuoteInStep, Advance, QuoteAfter, Quotes, ReadAfterSlash
    <2> QED
      BY <2>1, <2>2, <2>3 DEF IInv, InStep
  <1>2. CASE Refuse(c)
    BY <1>2, RefuseStep
  <1> QED
    BY <1>1, <1>2 DEF ReadAfterSlash

(* The "=" is where both readers enter the same quote.                     *)
LEMMA AfterEqualsStep ==
  ASSUME IInv, NEW c \in Chars, ReadAfterEquals(c), status = "reading"
  PROVE  IInv'
  <1>1. Advance(c) /\ phase = "equals" /\ status' = "reading"
    BY DEF ReadAfterEquals
  <1>2. TypeOK'
    <2>1. here \in Nat
      BY DEF IInv, TypeOK, here
    <2>2. field' \in [NameBegin : Nat, NameEnd : Nat, ValueBegin : Nat]
      <3>1. field' \in {field, [field EXCEPT !.ValueBegin = here],
                        [field EXCEPT !.ValueBegin = here + 1]}
        BY DEF ReadAfterEquals
      <3>2. field \in [NameBegin : Nat, NameEnd : Nat, ValueBegin : Nat]
        BY DEF IInv, TypeOK
      <3> QED
        BY <2>1, <3>1, <3>2
    <2>3. phase' \in Phases
      BY <1>1 DEF ReadAfterEquals, Phases, Quotes
    <2>4. InferType(<<>>) \in {"StringType", "IntType", "FloatType", "BoolType"}
      BY DEF InferType
    <2>5. Property(field.NameBegin, field.NameEnd, TRUE, here, here, InferType(<<>>))
            \in PropertyType
      BY <2>1, <2>4 DEF IInv, TypeOK, Property, PropertyType
    <2>6. properties' \in Seq(PropertyType)
      <3>1. PICK p \in PropertyType : properties' \in {properties, Append(properties, p)}
        BY <2>5 DEF ReadAfterEquals
      <3>2. properties \in Seq(PropertyType)
        BY DEF IInv, TypeOK
      <3> QED
        BY <3>1, <3>2
    <2>7. stray' = stray
      BY DEF ReadAfterEquals
    <2> QED
      BY <1>1, <2>2, <2>3, <2>6, <2>7, AdvanceType DEF IInv, TypeOK
  <1>3. SlashInStep'
    BY <1>1 DEF IInv, InStep, SlashInStep, ReadAfterEquals, Advance, SlashAfter, Quotes
  <1>4. QuoteInStep'
    <2>1. CASE stray'
      BY <2>1 DEF QuoteInStep
    <2>2. CASE ~stray'
      <3>0. ~stray
        <4>1. stray' = stray
          BY DEF ReadAfterEquals
        <4> QED
          BY <2>2, <4>1
      <3>1. quote = "none"
        BY <1>1, <3>0 DEF IInv, InStep, QuoteInStep, Quotes
      <3>2. quote' = IF c \in Quotes THEN c ELSE "none"
        BY <1>1, <3>1 DEF Advance, QuoteAfter
      <3>3. CASE c \in Quotes
        BY <3>2, <3>3 DEF QuoteInStep, ReadAfterEquals, Quotes
      <3>4. CASE c \notin Quotes
        <4>1. phase' \notin Quotes
          BY <1>1, <3>4 DEF ReadAfterEquals, Quotes
        <4> QED
          BY <3>2, <3>4, <4>1 DEF QuoteInStep
      <3> QED
        BY <3>3, <3>4
    <2> QED
      BY <2>1, <2>2
  <1> QED
    BY <1>2, <1>3, <1>4 DEF IInv, InStep

LEMMA QuotedStep ==
  ASSUME IInv, NEW c \in Chars, ReadQuoted(c), status = "reading"
  PROVE  IInv'
  <1>1. Advance(c) /\ phase \in Quotes /\ UNCHANGED <<field, status, stray>>
    BY DEF ReadQuoted
  <1>2. TypeOK'
    <2>1. here \in Nat
      BY DEF IInv, TypeOK, here
    <2>2. Quoted \in PropertyType
      BY <2>1 DEF IInv, TypeOK, Quoted, Property, PropertyType
    <2>3. properties' \in Seq(PropertyType)
      <3>1. properties' \in {properties, Append(properties, Quoted)}
        BY DEF ReadQuoted
      <3>2. properties \in Seq(PropertyType)
        BY DEF IInv, TypeOK
      <3> QED
        BY <2>2, <3>1, <3>2
    <2>4. phase' \in Phases
      BY DEF IInv, TypeOK, ReadQuoted, Phases
    <2> QED
      BY <1>1, <2>3, <2>4, AdvanceType DEF IInv, TypeOK
  <1>3. SlashInStep'
    BY <1>1 DEF IInv, InStep, SlashInStep, ReadQuoted, Advance, SlashAfter, Quotes
  <1>4. QuoteInStep'
    BY <1>1 DEF IInv, InStep, QuoteInStep, ReadQuoted, Advance, QuoteAfter, Quotes
  <1> QED
    BY <1>2, <1>3, <1>4 DEF IInv, InStep

(* An unquoted value is the one place where the scanner may enter a quote  *)
(* alone: stray remembers it.                                              *)
LEMMA UnquotedStep ==
  ASSUME IInv, NEW c \in Chars, ReadUnquoted(c), status = "reading"
  PROVE  IInv'
  <1>1. CASE c \in {"blank", "slash"} /\ Advance(c) /\ LoopTop(c)
    BY <1>1, LoopTopStep DEF ReadUnquoted
  <1>2. CASE /\ c \notin {"blank", "slash"}
             /\ Advance(c)
             /\ stray' = (stray \/ c \in Quotes)
             /\ UNCHANGED <<phase, field, properties, status>>
    <2>1. TypeOK'
      BY <1>2, AdvanceType DEF IInv, TypeOK
    <2>2. SlashInStep'
      BY <1>2 DEF IInv, InStep, SlashInStep, Advance, SlashAfter, ReadUnquoted, Quotes
    <2>3. QuoteInStep'
      BY <1>2 DEF IInv, InStep, QuoteInStep, Advance, QuoteAfter, ReadUnquoted, Quotes
    <2> QED
      BY <2>1, <2>2, <2>3 DEF IInv, InStep
  <1> QED
    BY <1>1, <1>2 DEF ReadUnquoted

LEMMA CloseStep ==
  ASSUME IInv, CloseBracket
  PROVE  IInv'
  <1>1. UNCHANGED <<text, quote, slash, phase, field, stray>> /\ status = "reading"
    BY DEF CloseBracket
  <1>2. properties' \in Seq(PropertyType) /\ status' \in {"accepted", "rejected"}
    BY PushedType DEF IInv, CloseBracket
  <1>3. TypeOK'
    BY <1>1, <1>2 DEF IInv, TypeOK
  <1>4. InStep'
    BY <1>1 DEF IInv, InStep, SlashInStep, QuoteInStep
  <1> QED
    BY <1>3, <1>4 DEF IInv

LEMMA NextIInv == IInv /\ [Next]_vars => IInv'
  <1> SUFFICES ASSUME IInv, [Next]_vars PROVE IInv'
    OBVIOUS
  <1>1. CASE CloseBracket
    BY <1>1, CloseStep
  <1>2. ASSUME NEW c \in Chars, Read(c) PROVE IInv'
    <2>1. status = "reading"
      BY <1>2 DEF Read, ReadTagName, ReadBetween, ReadAfterSlash, ReadName,
                  ReadAfterName, ReadAfterEquals, ReadQuoted, ReadUnquoted,
                  Refuse, Advance
    <2> QED
      BY <1>2, <2>1, TagNameStep, NameStep, AfterSlashStep, AfterEqualsStep,
         QuotedStep, UnquotedStep DEF Read
  <1>3. CASE UNCHANGED vars
    BY <1>3 DEF vars, IInv, TypeOK, InStep, SlashInStep, QuoteInStep
  <1> QED
    BY <1>1, <1>2, <1>3 DEF Next

(* The types of the variables hold for markup of any length.               *)
THEOREM TypeCorrect == Spec => []TypeOK
  <1>1. IInv => TypeOK
    BY DEF IInv
  <1> QED
    BY InitIInv, NextIInv, <1>1, PTL DEF Spec

(* The scanner of tags and the attribute parser agree on whether a tag     *)
(* closes itself, and on where its quotes are, for markup of any length.   *)
THEOREM ReadersAlwaysAgree == Spec => []ReadersAgree
  <1> DEFINE Unclosed ==
               /\ status = "accepted" => phase \notin Quotes
               /\ status = "rejected" /\ phase \in Quotes => stray
  <1>1. Init => IInv /\ Unclosed
    BY InitIInv DEF Init
  <1>2. IInv /\ Unclosed /\ [Next]_vars => IInv' /\ Unclosed'
    <2> SUFFICES ASSUME IInv, Unclosed, [Next]_vars PROVE Unclosed'
      BY NextIInv
    <2>1. CASE CloseBracket
      BY <2>1 DEF CloseBracket, Ends, IInv, InStep, QuoteInStep, Quotes
    <2>2. ASSUME NEW c \in Chars, Read(c) PROVE Unclosed'
      <3>1. CASE ReadQuoted(c)
        BY <3>1 DEF ReadQuoted, Advance
      <3>2. CASE Refuse(c) /\ phase \notin Quotes
        BY <3>2 DEF Refuse
      <3>3. CASE status = "reading" /\ status' = status
        BY <3>3
      <3> QED
        BY <2>2, <3>1, <3>2, <3>3
           DEF Read, ReadTagName, ReadBetween, ReadAfterSlash, ReadName,
               ReadAfterName, ReadAfterEquals, ReadUnquoted, LoopTop, Advance,
               Quotes
    <2>3. CASE UNCHANGED vars
      BY <2>3 DEF vars
    <2> QED
      BY <2>1, <2>2, <2>3 DEF Next
  <1>3. IInv /\ Unclosed => ReadersAgree
    <2> SUFFICES ASSUME IInv, Unclosed PROVE ReadersAgree
      OBVIOUS
    <2>1. QuotesAgree
      BY DEF QuotesAgree
    <2>2. ASSUME status = "accepted" PROVE slash <=> phase = "slash"
      <3>1. phase = "slash" => slash
        BY <2>2 DEF IInv, InStep, SlashInStep
      <3>2. slash => phase = "slash"
        BY <2>2 DEF IInv, InStep, SlashInStep
      <3> QED
        BY <3>1, <3>2
    <2> QED
      BY <2>1, <2>2 DEF ReadersAgree, SelfClosingAgrees
  <1> QED
    BY <1>1, <1>2, <1>3, PTL DEF Spec

-----------------------------------------------------------------------------
(* The characters that belong to no property and end none.                 *)
Neutral == {"blank", "equals"} \cup Quotes

(* IsQuoted of a property of the markup t.                                 *)
QuotedIn(t, p) == p.HasValue /\ t[p.ValueBegin - 1] \in Quotes

(* A property that Parse has finished, in the markup t: its bounds are in  *)
(* order and inside t, its name is made of name characters, only blanks,   *)
(* the sign and a quote stand between name and value, and a quoted value   *)
(* ends at its first closing quote.                                        *)
Fits(t, p) ==
  /\ 1 <= p.NameBegin /\ p.NameBegin < p.NameEnd /\ p.NameEnd <= p.ValueBegin
  /\ p.ValueBegin <= p.ValueEnd /\ p.ValueEnd <= Len(t) + 1
  /\ t[p.NameBegin] \in NameStart
  /\ \A k \in p.NameBegin..(p.NameEnd - 1) : t[k] \in NameChar
  /\ \A k \in p.NameEnd..(p.ValueBegin - 1) : t[k] \in Neutral
  /\ ~p.HasValue => p.ValueEnd = p.NameEnd
  /\ QuotedIn(t, p) =>
       /\ p.ValueEnd <= Len(t) /\ t[p.ValueEnd] = t[p.ValueBegin - 1]
       /\ \A k \in p.ValueBegin..(p.ValueEnd - 1) : t[k] # t[p.ValueEnd]

(* The value that infer_type was given, and the type the property has.     *)
ValueOf(t, p) == SubSeq(t, p.ValueBegin, p.ValueEnd - 1)

Typed(t, p) ==
  p.ValueType = IF p.HasValue /\ ~QuotedIn(t, p) THEN InferType(ValueOf(t, p))
                                                 ELSE "StringType"

(* Every property fits, has its type, and ends before the next one begins. *)
Listed(t, props) ==
  \A i \in 1..Len(props) :
    /\ Fits(t, props[i]) /\ Typed(t, props[i])
    /\ i < Len(props) => props[i].ValueEnd <= props[i + 1].NameBegin

(* No property reaches the offset m; and every character from e to m is in *)
(* one, or belongs to none.                                                *)
EndBy(props, m) == \A i \in 1..Len(props) : props[i].ValueEnd <= m

Settled(t, props, e, m) ==
  \A k \in e..(m - 1) :
    t[k] \in Neutral \/ \E i \in 1..Len(props) : k \in Held(props[i])

(* The name of the tag ends at e.                                          *)
NamedTo(t, e) ==
  /\ e \in 2..(Len(t) + 1)
  /\ t[1] \in NameStart
  /\ \A k \in 1..(e - 1) : t[k] \in NameChar
  /\ e <= Len(t) => t[e] \in {"blank", "slash"}

(* What Parse has made of the markup t up to the offset m.                 *)
Done(t, props, e, m) ==
  /\ NamedTo(t, e) /\ e <= m /\ m <= Len(t) + 1
  /\ Listed(t, props) /\ EndBy(props, m) /\ Settled(t, props, e, m)

(* u is t with the character c read after it.                              *)
Longer(u, t, c) ==
  /\ Len(u) = Len(t) + 1 /\ u[Len(t) + 1] = c
  /\ \A k \in 1..Len(t) : u[k] = t[k]

LEMMA LongerByOne ==
  ASSUME NEW t \in Seq(Chars), NEW c \in Chars
  PROVE  Append(t, c) \in Seq(Chars) /\ Longer(Append(t, c), t, c)
  BY DEF Longer

LEMMA PropertyFacts ==
  ASSUME NEW p \in PropertyType
  PROVE  /\ p.NameBegin \in Nat /\ p.NameEnd \in Nat
         /\ p.ValueBegin \in Nat /\ p.ValueEnd \in Nat /\ p.HasValue \in BOOLEAN
  BY DEF PropertyType

(* What holds of the markup read so far holds of it with one more          *)
(* character: every definition above looks only at the offsets it bounds.  *)
LEMMA FitsLater ==
  ASSUME NEW t \in Seq(Chars), NEW u \in Seq(Chars), NEW c, Longer(u, t, c),
         NEW p \in PropertyType, Fits(t, p)
  PROVE  Fits(u, p) /\ (QuotedIn(u, p) <=> QuotedIn(t, p))
  <1>1. PICK n \in Nat : n = Len(t)
    OBVIOUS
  <1>2. Len(u) = n + 1 /\ \A k \in 1..n : u[k] = t[k]
    BY <1>1 DEF Longer
  <1>3. PICK a \in Nat, b \in Nat, v \in Nat, w \in Nat :
          a = p.NameBegin /\ b = p.NameEnd /\ v = p.ValueBegin /\ w = p.ValueEnd
    BY PropertyFacts
  <1>4. 1 <= a /\ a < b /\ b <= v /\ v <= w /\ w <= n + 1
    BY <1>1, <1>3 DEF Fits
  <1>5. u[a] = t[a] /\ u[v - 1] = t[v - 1]
    BY <1>2, <1>4
  <1>6. \A k \in a..(w - 1) : u[k] = t[k]
    BY <1>2, <1>4
  <1>7. QuotedIn(u, p) <=> QuotedIn(t, p)
    BY <1>3, <1>5 DEF QuotedIn
  <1>8. ASSUME QuotedIn(u, p)
        PROVE  /\ w <= Len(u) /\ u[w] = u[v - 1]
               /\ \A k \in v..(w - 1) : u[k] # u[w]
    <2>1. /\ w <= n /\ t[w] = t[v - 1] /\ \A k \in v..(w - 1) : t[k] # t[w]
      BY <1>1, <1>3, <1>7, <1>8 DEF Fits
    <2>2. u[w] = t[w]
      BY <1>2, <1>4, <2>1
    <2>3. \A k \in v..(w - 1) : u[k] # u[w]
      BY <1>4, <1>6, <2>1, <2>2
    <2> QED
      BY <1>2, <1>4, <1>5, <2>1, <2>2, <2>3
  <1>9. u[a] \in NameStart
    BY <1>3, <1>5 DEF Fits
  <1>10. \A k \in a..(b - 1) : u[k] \in NameChar
    <2>1. \A k \in a..(b - 1) : t[k] \in NameChar
      BY <1>3 DEF Fits
    <2> QED
      BY <1>4, <1>6, <2>1
  <1>11. \A k \in b..(v - 1) : u[k] \in Neutral
    <2>1. \A k \in b..(v - 1) : t[k] \in Neutral
      BY <1>3 DEF Fits
    <2> QED
      BY <1>4, <1>6, <2>1
  <1>12. ~p.HasValue => w = b
    BY <1>3 DEF Fits
  <1>13. Fits(u, p)
    BY <1>2, <1>3, <1>4, <1>8, <1>9, <1>10, <1>11, <1>12 DEF Fits
  <1> QED
    BY <1>7, <1>13

LEMMA TypedLater ==
  ASSUME NEW t \in Seq(Chars), NEW u \in Seq(Chars), NEW c, Longer(u, t, c),
         NEW p \in PropertyType, Fits(t, p), Typed(t, p)
  PROVE  Typed(u, p)
  <1>1. PICK n \in Nat : n = Len(t)
    OBVIOUS
  <1>2. Len(u) = n + 1 /\ \A k \in 1..n : u[k] = t[k]
    BY <1>1 DEF Longer
  <1>3. PICK v \in Nat, w \in Nat : v = p.ValueBegin - 1 /\ w = p.ValueEnd - 1
    BY PropertyFacts DEF Fits
  <1>4. v <= w /\ w <= n /\ v + 1 = p.ValueBegin
    BY <1>1, <1>3, PropertyFacts DEF Fits
  <1>5. ValueOf(u, p) = ValueOf(t, p)
    <2>1. PICK x : x = SubSeq(t, v + 1, w)
      OBVIOUS
    <2>2. PICK y : y = SubSeq(u, v + 1, w)
      OBVIOUS
    <2>3. x \in Seq(Chars) /\ Len(x) = w - v /\ \A j \in 1..(w - v) : x[j] = t[v + j]
      BY <1>1, <1>4, <2>1, SliceFacts
    <2>4. w <= Len(u)
      BY <1>2, <1>4
    <2>5. y \in Seq(Chars) /\ Len(y) = w - v /\ \A j \in 1..(w - v) : y[j] = u[v + j]
      BY <1>4, <2>2, <2>4, SliceFacts
    <2>6. \A j \in 1..(w - v) : v + j \in 1..n
      BY <1>4
    <2>7. \A j \in 1..(w - v) : x[j] = y[j]
      BY <1>2, <2>3, <2>5, <2>6
    <2>8. x = y
      BY <2>3, <2>5, <2>7, SeqEqual
    <2> QED
      BY <1>3, <1>4, <2>1, <2>2, <2>8 DEF ValueOf
  <1> QED
    BY <1>5, FitsLater DEF Typed

LEMMA ListedLater ==
  ASSUME NEW t \in Seq(Chars), NEW u \in Seq(Chars), NEW c, Longer(u, t, c),
         NEW props \in Seq(PropertyType), Listed(t, props)
  PROVE  Listed(u, props)
  <1>1. \A i \in 1..Len(props) : props[i] \in PropertyType
    OBVIOUS
  <1>2. ASSUME NEW i \in 1..Len(props) PROVE Fits(u, props[i]) /\ Typed(u, props[i])
    <2>1. props[i] \in PropertyType /\ Fits(t, props[i]) /\ Typed(t, props[i])
      BY <1>1 DEF Listed
    <2> QED
      BY <2>1, FitsLater, TypedLater
  <1> QED
    BY <1>2 DEF Listed

(* The name of the tag ends where it did, unless it ends with the text.    *)
LEMMA NamedLater ==
  ASSUME NEW t \in Seq(Chars), NEW u \in Seq(Chars), NEW c, Longer(u, t, c),
         NEW e, NamedTo(t, e), e <= Len(t) \/ c \in {"blank", "slash"}
  PROVE  NamedTo(u, e)
  <1>1. PICK n \in Nat : n = Len(t)
    OBVIOUS
  <1>2. Len(u) = n + 1 /\ u[n + 1] = c /\ \A k \in 1..n : u[k] = t[k]
    BY <1>1 DEF Longer
  <1>3. e \in 2..(n + 1)
    BY <1>1 DEF NamedTo
  <1>4. u[1] \in NameStart
    BY <1>2, <1>3 DEF NamedTo
  <1>5. \A k \in 1..(e - 1) : u[k] \in NameChar
    <2>1. \A k \in 1..(e - 1) : t[k] \in NameChar
      BY DEF NamedTo
    <2> QED
      BY <1>2, <1>3, <2>1
  <1>6. u[e] \in {"blank", "slash"}
    <2>1. CASE e <= n
      <3>1. t[e] \in {"blank", "slash"}
        BY <1>1, <2>1 DEF NamedTo
      <3>2. u[e] = t[e]
        BY <1>2, <1>3, <2>1
      <3> QED
        BY <3>1, <3>2
    <2>2. CASE ~(e <= n)
      <3>1. e = n + 1
        BY <1>3, <2>2
      <3> QED
        BY <1>1, <1>2, <2>2, <3>1
    <2> QED
      BY <2>1, <2>2
  <1>7. e \in 2..(Len(u) + 1)
    BY <1>2, <1>3
  <1> QED
    BY <1>4, <1>5, <1>6, <1>7 DEF NamedTo

LEMMA DoneLater ==
  ASSUME NEW t \in Seq(Chars), NEW u \in Seq(Chars), NEW c, Longer(u, t, c),
         NEW props \in Seq(PropertyType), NEW e, NEW m \in Nat, Done(t, props, e, m),
         e <= Len(t) \/ c \in {"blank", "slash"}
  PROVE  Done(u, props, e, m)
  <1>1. NamedTo(u, e)
    BY NamedLater DEF Done
  <1>2. Listed(u, props)
    BY ListedLater DEF Done
  <1>3. PICK n \in Nat : n = Len(t)
    OBVIOUS
  <1>4. Len(u) = n + 1 /\ \A k \in 1..n : u[k] = t[k]
    BY <1>3 DEF Longer
  <1>5. e \in Nat /\ 2 <= e /\ e <= m /\ m <= n + 1
    BY <1>3 DEF Done, NamedTo
  <1>6. \A k \in e..(m - 1) : u[k] = t[k]
    BY <1>4, <1>5
  <1>7. Settled(u, props, e, m)
    BY <1>6 DEF Done, Settled
  <1>8. e <= m /\ m <= Len(u) + 1
    BY <1>4, <1>5
  <1> QED
    BY <1>1, <1>2, <1>7, <1>8 DEF Done

(* Characters that belong to no property.                                  *)
LEMMA DoneNeutral ==
  ASSUME NEW t \in Seq(Chars), NEW props \in Seq(PropertyType), NEW e,
         NEW m \in Nat, NEW l \in Nat, m <= l, l <= Len(t) + 1,
         Done(t, props, e, m), \A k \in m..(l - 1) : t[k] \in Neutral
  PROVE  Done(t, props, e, l)
  <1>1. e \in Nat /\ e <= m
    BY DEF Done, NamedTo
  <1>2. EndBy(props, l)
    <2>1. \A i \in 1..Len(props) : props[i].ValueEnd \in Nat
      BY PropertyFacts
    <2> QED
      BY <2>1 DEF Done, EndBy
  <1>3. Settled(t, props, e, l)
    <2> SUFFICES ASSUME NEW k \in e..(l - 1)
                 PROVE  t[k] \in Neutral \/ \E i \in 1..Len(props) : k \in Held(props[i])
      BY DEF Settled
    <2>1. k \in e..(m - 1) \/ k \in m..(l - 1)
      BY <1>1
    <2> QED
      BY <2>1 DEF Done, Settled
  <1> QED
    BY <1>1, <1>2, <1>3 DEF Done

(* A property is added that begins where the others end.                   *)
LEMMA DonePushed ==
  ASSUME NEW t \in Seq(Chars), NEW props \in Seq(PropertyType), NEW e,
         NEW p \in PropertyType, Fits(t, p), Typed(t, p), Done(t, props, e, p.NameBegin)
  PROVE  Done(t, Append(props, p), e, p.ValueEnd)
  <1>1. PICK n \in Nat : n = Len(props)
    OBVIOUS
  <1>2. PICK more : more = Append(props, p)
    OBVIOUS
  <1>3. /\ more \in Seq(PropertyType) /\ Len(more) = n + 1 /\ more[n + 1] = p
        /\ \A i \in 1..n : more[i] = props[i]
    BY <1>1, <1>2
  <1>4. PICK a \in Nat, b \in Nat, v \in Nat, w \in Nat :
          a = p.NameBegin /\ b = p.NameEnd /\ v = p.ValueBegin /\ w = p.ValueEnd
    BY PropertyFacts
  <1>5. 1 <= a /\ a < b /\ b <= v /\ v <= w /\ w <= Len(t) + 1
    BY <1>4 DEF Fits
  <1>6. e \in Nat /\ e <= a
    BY <1>4 DEF Done, NamedTo
  <1>7. \A i \in 1..n : props[i].ValueEnd \in Nat /\ props[i].ValueEnd <= a
    BY <1>1, <1>4, PropertyFacts DEF Done, EndBy
  <1>8. EndBy(more, w)
    <2> SUFFICES ASSUME NEW i \in 1..(n + 1) PROVE more[i].ValueEnd <= w
      BY <1>3 DEF EndBy
    <2>1. CASE i \in 1..n
      BY <1>3, <1>5, <1>7, <2>1
    <2>2. CASE i = n + 1
      BY <1>3, <1>4, <2>2
    <2> QED
      BY <2>1, <2>2
  <1>9. Listed(t, more)
    <2>1. \A i \in 1..n : /\ Fits(t, props[i]) /\ Typed(t, props[i])
                          /\ i < n => props[i].ValueEnd <= props[i + 1].NameBegin
      BY <1>1 DEF Done, Listed
    <2>2. ASSUME NEW i \in 1..(n + 1)
          PROVE  /\ Fits(t, more[i]) /\ Typed(t, more[i])
                 /\ i < n + 1 => more[i].ValueEnd <= more[i + 1].NameBegin
      <3>1. CASE i \in 1..n /\ i < n
        <4>1. i + 1 \in 1..n
          BY <3>1
        <4> QED
          BY <1>3, <2>1, <3>1, <4>1
      <3>2. CASE i = n /\ i \in 1..n
        BY <1>3, <1>4, <1>7, <2>1, <3>2
      <3>3. CASE i = n + 1
        BY <1>3, <3>3
      <3> QED
        BY <3>1, <3>2, <3>3
    <2> QED
      BY <1>3, <2>2 DEF Listed
  <1>10. Settled(t, more, e, w)
    <2> SUFFICES ASSUME NEW k \in e..(w - 1)
                 PROVE  t[k] \in Neutral \/ \E i \in 1..(n + 1) : k \in Held(more[i])
      BY <1>3 DEF Settled
    <2>1. CASE k \in e..(a - 1)
      <3>1. t[k] \in Neutral \/ \E i \in 1..n : k \in Held(props[i])
        BY <1>1, <1>4, <2>1 DEF Done, Settled
      <3>2. \A i \in 1..n : i \in 1..(n + 1)
        OBVIOUS
      <3> QED
        BY <1>3, <3>1, <3>2
    <2>2. CASE k \in b..(v - 1)
      BY <1>4, <2>2 DEF Fits
    <2>3. CASE k \in a..(b - 1) \/ k \in v..(w - 1)
      <3>1. k \in Held(more[n + 1])
        BY <1>3, <1>4, <2>3 DEF Held
      <3>2. n + 1 \in 1..(n + 1)
        OBVIOUS
      <3> QED
        BY <3>1, <3>2
    <2>4. k \in e..(a - 1) \/ k \in a..(b - 1) \/ k \in b..(v - 1) \/ k \in v..(w - 1)
      BY <1>5, <1>6
    <2> QED
      BY <2>1, <2>2, <2>3, <2>4
  <1>11. e <= w
    BY <1>5, <1>6
  <1> QED
    BY <1>2, <1>4, <1>5, <1>8, <1>9, <1>10, <1>11 DEF Done

(* From s on there is the "/" of a self-closing tag and blanks, or         *)
(* nothing.                                                                *)
Trailing(t, s) ==
  s <= Len(t) => t[s] = "slash" /\ \A k \in (s + 1)..Len(t) : t[k] = "blank"

(* What is known of the property that is being read: where its name        *)
(* begins, that it has ended, what stands after it, and where the value    *)
(* begins, in quotes or not.                                               *)
Begun(t, f) ==
  /\ 1 <= f.NameBegin /\ f.NameBegin <= Len(t) /\ t[f.NameBegin] \in NameStart

HasName(t, f) ==
  /\ Begun(t, f) /\ f.NameBegin < f.NameEnd /\ f.NameEnd <= Len(t)
  /\ \A k \in f.NameBegin..(f.NameEnd - 1) : t[k] \in NameChar

InName(t, f) == Begun(t, f) /\ \A k \in f.NameBegin..Len(t) : t[k] \in NameChar

AfterName(t, f) == HasName(t, f) /\ \A k \in f.NameEnd..Len(t) : t[k] = "blank"

AfterSignOf(t, f) ==
  HasName(t, f) /\ \A k \in f.NameEnd..Len(t) : t[k] \in {"blank", "equals"}

BeforeValue(t, f) ==
  /\ HasName(t, f)
  /\ f.NameEnd < f.ValueBegin
  /\ \A k \in f.NameEnd..(f.ValueBegin - 1) : t[k] \in Neutral

InQuotes(t, f, q) ==
  /\ BeforeValue(t, f)
  /\ f.ValueBegin <= Len(t) + 1 /\ t[f.ValueBegin - 1] = q
  /\ \A k \in f.ValueBegin..Len(t) : t[k] # q

InValue(t, f) ==
  BeforeValue(t, f) /\ f.ValueBegin <= Len(t) /\ t[f.ValueBegin - 1] \notin Quotes

(* That property in each phase of the parser.                              *)
FieldFits(t, ph, f) ==
  \/ ph = "attribute" /\ InName(t, f)
  \/ ph = "named" /\ AfterName(t, f)
  \/ ph = "equals" /\ AfterSignOf(t, f)
  \/ ph \in Quotes /\ InQuotes(t, f, ph)
  \/ ph = "unquoted" /\ InValue(t, f)

(* The list is right up to m, which lies behind the name of the tag.       *)
UpTo(t, props, m) == \E e \in 1..Len(t) : e < m /\ Done(t, props, e, m)

(* The state of Parse in each phase, while it reads; what is left of it    *)
(* when it accepts; and the inductive invariant.                           *)
Slices(t, ph, f, props) ==
  \/ ph = "start" /\ t = <<>> /\ props = <<>>
  \/ ph = "tag" /\ props = <<>> /\ NamedTo(t, Len(t) + 1)
  \/ ph = "between" /\ UpTo(t, props, Len(t) + 1)
  \/ /\ ph = "slash"
     /\ \E e, s \in 1..Len(t) : Done(t, props, e, s) /\ Trailing(t, s)
  \/ FieldFits(t, ph, f) /\ UpTo(t, props, f.NameBegin)

Whole(t, props) ==
  \E e, s \in 1..(Len(t) + 1) : Done(t, props, e, s) /\ Trailing(t, s)

(* The list stays right after a refusal too, although nothing bounds what  *)
(* follows it then.                                                        *)
SliceInv ==
  /\ status = "reading" => Slices(text, phase, field, properties)
  /\ status = "accepted" => Whole(text, properties)
  /\ Listed(text, properties)

FieldType == [NameBegin : Nat, NameEnd : Nat, ValueBegin : Nat]

-----------------------------------------------------------------------------
(* What is still to be written down fits, wherever the text goes on.       *)
LEMMA FlagFits ==
  ASSUME NEW t \in Seq(Chars), NEW p \in PropertyType, NEW f \in FieldType,
         Begun(t, f), p.NameBegin = f.NameBegin, f.NameBegin < p.NameEnd,
         p.NameEnd <= Len(t) + 1,
         \A k \in f.NameBegin..(p.NameEnd - 1) : t[k] \in NameChar,
         p.HasValue = FALSE, p.ValueBegin = p.NameEnd, p.ValueEnd = p.NameEnd,
         p.ValueType = "StringType"
  PROVE  Fits(t, p) /\ Typed(t, p)
  <1>1. ~QuotedIn(t, p) /\ Typed(t, p)
    BY DEF QuotedIn, Typed
  <1>2. PICK a \in Nat, b \in Nat : a = p.NameBegin /\ b = p.NameEnd
    BY PropertyFacts
  <1>3. 1 <= a /\ a < b /\ b <= Len(t) + 1 /\ t[a] \in NameStart
    BY <1>2 DEF Begun
  <1>4. \A k \in a..(b - 1) : t[k] \in NameChar
    BY <1>2
  <1>5. \A k \in b..(b - 1) : t[k] \in Neutral
    OBVIOUS
  <1> QED
    BY <1>1, <1>2, <1>3, <1>4, <1>5 DEF Fits

(* A property with a value fits when its name and its value do.            *)
LEMMA ValueFits ==
  ASSUME NEW t \in Seq(Chars), NEW p \in PropertyType, NEW f \in FieldType,
         HasName(t, f), p.NameBegin = f.NameBegin, p.NameEnd = f.NameEnd,
         p.HasValue = TRUE, f.NameEnd < p.ValueBegin, p.ValueBegin <= p.ValueEnd,
         p.ValueEnd <= Len(t) + 1,
         \A k \in f.NameEnd..(p.ValueBegin - 1) : t[k] \in Neutral,
         QuotedIn(t, p) =>
           /\ p.ValueEnd <= Len(t) /\ t[p.ValueEnd] = t[p.ValueBegin - 1]
           /\ \A k \in p.ValueBegin..(p.ValueEnd - 1) : t[k] # t[p.ValueEnd]
  PROVE  Fits(t, p)
  <1>1. PICK a \in Nat, b \in Nat, v \in Nat, w \in Nat :
          a = p.NameBegin /\ b = p.NameEnd /\ v = p.ValueBegin /\ w = p.ValueEnd
    BY PropertyFacts
  <1>2. 1 <= a /\ a < b /\ b <= v /\ v <= w /\ w <= Len(t) + 1 /\ t[a] \in NameStart
    BY <1>1 DEF HasName, Begun
  <1>3. \A k \in a..(b - 1) : t[k] \in NameChar
    BY <1>1 DEF HasName
  <1> QED
    BY <1>1, <1>2, <1>3 DEF Fits

(* Wherever the attribute loop comes round or the tag ends, the property   *)
(* that is complete there makes the list right up to this character.       *)
LEMMA PushedDone ==
  ASSUME IInv, Slices(text, phase, field, properties),
         phase \in {"tag", "between", "attribute", "named", "unquoted"}
  PROVE  \E e \in 1..here : /\ Done(text, Pushed, e, here)
                            /\ e < here \/ phase = "tag"
  <1>1. PICK t, f, props, n :
          /\ t = text /\ f = field /\ props = properties /\ n = Len(text)
          /\ t \in Seq(Chars) /\ f \in FieldType /\ props \in Seq(PropertyType)
          /\ n \in Nat /\ n = Len(t) /\ here = n + 1
    BY DEF IInv, TypeOK, FieldType, here
  <1>2. CASE phase = "tag"
    <2>1. props = <<>> /\ NamedTo(t, n + 1)
      BY <1>1, <1>2 DEF Slices, FieldFits, Quotes
    <2>2. Pushed = <<>>
      BY <1>1, <1>2, <2>1 DEF Pushed
    <2>3. PICK none : none = <<>> /\ Len(none) = 0
      OBVIOUS
    <2>4. \A i \in 1..Len(none) : FALSE
      BY <2>3
    <2>5. Listed(t, none) /\ EndBy(none, n + 1)
      BY <2>4 DEF Listed, EndBy
    <2>6. Settled(t, none, n + 1, n + 1)
      BY <1>1 DEF Settled
    <2>7. Done(t, none, n + 1, n + 1)
      BY <1>1, <2>1, <2>5, <2>6 DEF Done
    <2> QED
      BY <1>1, <1>2, <2>2, <2>3, <2>7
  <1>3. CASE phase = "between"
    <2>1. UpTo(t, props, n + 1) /\ Pushed = props
      BY <1>1, <1>3 DEF Slices, FieldFits, Quotes, Pushed
    <2> QED
      BY <1>1, <2>1 DEF UpTo
  <1>4. ASSUME NEW p \in PropertyType, Pushed = Append(props, p),
               p.NameBegin = f.NameBegin, UpTo(t, props, f.NameBegin),
               Fits(t, p), Typed(t, p), \A k \in p.ValueEnd..n : t[k] \in Neutral
        PROVE  \E e \in 1..n : Done(t, Pushed, e, n + 1)
    <2>1. PICK e \in 1..n : Done(t, props, e, f.NameBegin)
      BY <1>1, <1>4 DEF UpTo
    <2>2. Done(t, Append(props, p), e, p.ValueEnd)
      BY <1>1, <1>4, <2>1, DonePushed
    <2>3. PICK more, w, l : more = Append(props, p) /\ w = p.ValueEnd /\ l = n + 1
      OBVIOUS
    <2>4. w \in Nat /\ l \in Nat
      BY <1>1, <2>3, PropertyFacts
    <2>5. more \in Seq(PropertyType)
      BY <1>1, <2>3
    <2>6. w <= l /\ l <= Len(t) + 1
      BY <1>1, <1>4, <2>3, <2>4 DEF Fits
    <2>7. \A k \in w..(l - 1) : t[k] \in Neutral
      BY <1>1, <1>4, <2>3, <2>4
    <2>8. Done(t, more, e, w)
      BY <2>2, <2>3
    <2>9. Done(t, more, e, l)
      BY <1>1, <2>5, <2>6, <2>7, <2>8, <2>4, DoneNeutral
    <2> QED
      BY <1>4, <2>3, <2>9
  <1>5. CASE phase = "attribute"
    <2>1. InName(t, f) /\ UpTo(t, props, f.NameBegin)
      BY <1>1, <1>5 DEF Slices, FieldFits, Quotes
    <2>2. PICK p : p = Flag(here)
      OBVIOUS
    <2>3. Pushed = Append(props, p)
      BY <1>1, <1>5, <2>2 DEF Pushed
    <2>4. /\ p \in PropertyType /\ p.NameBegin = f.NameBegin /\ p.NameEnd = n + 1
          /\ p.HasValue = FALSE /\ p.ValueBegin = p.NameEnd /\ p.ValueEnd = p.NameEnd
          /\ p.ValueType = "StringType"
      BY <1>1, <2>2 DEF Flag, Property, PropertyType, FieldType
    <2>5. Fits(t, p) /\ Typed(t, p)
      <3>1. /\ Begun(t, f) /\ f.NameBegin < p.NameEnd /\ p.NameEnd <= Len(t) + 1
            /\ \A k \in f.NameBegin..(p.NameEnd - 1) : t[k] \in NameChar
        BY <1>1, <2>1, <2>4 DEF InName, Begun, FieldType
      <3> QED
        BY <1>1, <2>4, <3>1, FlagFits
    <2>6. \A k \in p.ValueEnd..n : t[k] \in Neutral
      BY <1>1, <2>4
    <2>7. \E e \in 1..n : Done(t, Pushed, e, n + 1)
      BY <1>4, <2>1, <2>3, <2>4, <2>5, <2>6
    <2> QED
      BY <1>1, <2>7
  <1>6. CASE phase = "named"
    <2>1. AfterName(t, f) /\ UpTo(t, props, f.NameBegin)
      BY <1>1, <1>6 DEF Slices, FieldFits, Quotes
    <2>2. PICK p : p = Flag(field.NameEnd)
      OBVIOUS
    <2>3. Pushed = Append(props, p)
      BY <1>1, <1>6, <2>2 DEF Pushed
    <2>4. /\ p \in PropertyType /\ p.NameBegin = f.NameBegin /\ p.NameEnd = f.NameEnd
          /\ p.HasValue = FALSE /\ p.ValueBegin = p.NameEnd /\ p.ValueEnd = p.NameEnd
          /\ p.ValueType = "StringType"
      BY <1>1, <2>2 DEF Flag, Property, PropertyType, FieldType
    <2>5. Fits(t, p) /\ Typed(t, p)
      <3>1. /\ Begun(t, f) /\ f.NameBegin < p.NameEnd /\ p.NameEnd <= Len(t) + 1
            /\ \A k \in f.NameBegin..(p.NameEnd - 1) : t[k] \in NameChar
        BY <1>1, <2>1, <2>4 DEF AfterName, HasName, Begun, FieldType
      <3> QED
        BY <1>1, <2>4, <3>1, FlagFits
    <2>6. \A k \in p.ValueEnd..n : t[k] \in Neutral
      BY <1>1, <2>1, <2>4 DEF AfterName, Neutral
    <2>7. \E e \in 1..n : Done(t, Pushed, e, n + 1)
      BY <1>4, <2>1, <2>3, <2>4, <2>5, <2>6
    <2> QED
      BY <1>1, <2>7
  <1>7. CASE phase = "unquoted"
    <2>1. InValue(t, f) /\ UpTo(t, props, f.NameBegin)
      BY <1>1, <1>7 DEF Slices, FieldFits, Quotes
    <2>2. PICK p : p = Unquoted
      OBVIOUS
    <2>3. Pushed = Append(props, p)
      BY <1>1, <1>7, <2>2 DEF Pushed
    <2>4. PICK y : y = InferType(SubSeq(text, field.ValueBegin, Len(text)))
      OBVIOUS
    <2>5. y \in {"StringType", "IntType", "FloatType", "BoolType"}
      BY <2>4 DEF InferType
    <2>6. p = Property(f.NameBegin, f.NameEnd, TRUE, f.ValueBegin, n + 1, y)
      BY <1>1, <2>2, <2>4 DEF Unquoted
    <2>7. /\ p \in PropertyType /\ p.NameBegin = f.NameBegin /\ p.NameEnd = f.NameEnd
          /\ p.HasValue = TRUE /\ p.ValueBegin = f.ValueBegin /\ p.ValueEnd = n + 1
          /\ p.ValueType = y
      BY <1>1, <2>5, <2>6 DEF Property, PropertyType, FieldType
    <2>8. ~QuotedIn(t, p)
      BY <2>1, <2>7 DEF QuotedIn, InValue
    <2>9. Fits(t, p)
      <3>1. /\ HasName(t, f) /\ f.NameEnd < p.ValueBegin /\ p.ValueBegin <= p.ValueEnd
            /\ p.ValueEnd <= Len(t) + 1
            /\ \A k \in f.NameEnd..(p.ValueBegin - 1) : t[k] \in Neutral
        BY <1>1, <2>1, <2>7 DEF InValue, BeforeValue, FieldType
      <3> QED
        BY <1>1, <2>7, <2>8, <3>1, ValueFits
    <2>10. Typed(t, p)
      <3>1. ValueOf(t, p) = SubSeq(text, field.ValueBegin, Len(text))
        <4>1. p.ValueEnd - 1 = n
          BY <1>1, <2>7
        <4> QED
          BY <1>1, <2>7, <4>1 DEF ValueOf
      <3> QED
        BY <2>4, <2>7, <2>8, <3>1 DEF Typed
    <2>11. \A k \in p.ValueEnd..n : t[k] \in Neutral
      BY <1>1, <2>7
    <2>12. \E e \in 1..n : Done(t, Pushed, e, n + 1)
      BY <1>4, <2>1, <2>3, <2>7, <2>9, <2>10, <2>11
    <2> QED
      BY <1>1, <2>12
  <1> QED
    BY <1>2, <1>3, <1>5, <1>6, <1>7

-----------------------------------------------------------------------------
(* One more character leaves the list, and each state of the pending       *)
(* property, as they are where the phase goes on.                          *)
LEMMA UpToLater ==
  ASSUME NEW t \in Seq(Chars), NEW u \in Seq(Chars), NEW c, Longer(u, t, c),
         NEW props \in Seq(PropertyType), NEW m \in Nat, UpTo(t, props, m)
  PROVE  UpTo(u, props, m)
  <1>1. PICK e \in 1..Len(t) : e < m /\ Done(t, props, e, m)
    BY DEF UpTo
  <1>2. e <= Len(t)
    OBVIOUS
  <1>3. Done(u, props, e, m)
    BY <1>1, <1>2, DoneLater
  <1>4. e \in 1..Len(u)
    BY <1>1 DEF Longer
  <1> QED
    BY <1>1, <1>3, <1>4 DEF UpTo

LEMMA BegunLater ==
  ASSUME NEW t \in Seq(Chars), NEW u \in Seq(Chars), NEW c, Longer(u, t, c),
         NEW f \in FieldType
  PROVE  /\ Begun(t, f) => Begun(u, f)
         /\ HasName(t, f) => HasName(u, f)
         /\ BeforeValue(t, f) /\ f.ValueBegin <= Len(t) + 1 => BeforeValue(u, f)
  <1>1. PICK n \in Nat : n = Len(t)
    OBVIOUS
  <1>2. Len(u) = n + 1 /\ \A k \in 1..n : u[k] = t[k]
    BY <1>1 DEF Longer
  <1>3. PICK a \in Nat, b \in Nat, v \in Nat :
          a = f.NameBegin /\ b = f.NameEnd /\ v = f.ValueBegin
    BY DEF FieldType
  <1>4. Begun(t, f) => Begun(u, f)
    BY <1>1, <1>2, <1>3 DEF Begun
  <1>5. ASSUME HasName(t, f) PROVE HasName(u, f)
    <2>1. 1 <= a /\ a < b /\ b <= n
      BY <1>1, <1>3, <1>5 DEF HasName, Begun
    <2>2. \A k \in a..(b - 1) : t[k] \in NameChar
      BY <1>3, <1>5 DEF HasName
    <2>3. \A k \in a..(b - 1) : u[k] \in NameChar
      BY <1>2, <2>1, <2>2
    <2> QED
      BY <1>2, <1>3, <1>4, <1>5, <2>1, <2>3 DEF HasName
  <1>6. ASSUME BeforeValue(t, f), f.ValueBegin <= Len(t) + 1 PROVE BeforeValue(u, f)
    <2>1. 1 <= a /\ a < b /\ b < v /\ v <= n + 1
      BY <1>1, <1>3, <1>6 DEF BeforeValue, HasName, Begun
    <2>2. \A k \in b..(v - 1) : t[k] \in Neutral
      BY <1>3, <1>6 DEF BeforeValue
    <2>3. \A k \in b..(v - 1) : u[k] \in Neutral
      BY <1>2, <2>1, <2>2
    <2> QED
      BY <1>3, <1>5, <1>6, <2>1, <2>3 DEF BeforeValue
  <1> QED
    BY <1>4, <1>5, <1>6

(* What a character does to the name that is being read.                   *)
LEMMA NameLater ==
  ASSUME NEW t \in Seq(Chars), NEW u \in Seq(Chars), NEW c, Longer(u, t, c),
         NEW f \in FieldType, NEW g \in FieldType, InName(t, f),
         g = [f EXCEPT !.NameEnd = Len(t) + 1]
  PROVE  /\ c \in NameChar => InName(u, f)
         /\ c = "blank" => AfterName(u, g)
         /\ c = "equals" => AfterSignOf(u, g)
  <1>1. PICK n \in Nat : n = Len(t)
    OBVIOUS
  <1>2. Len(u) = n + 1 /\ u[n + 1] = c /\ \A k \in 1..n : u[k] = t[k]
    BY <1>1 DEF Longer
  <1>3. PICK a \in Nat : a = f.NameBegin
    BY DEF FieldType
  <1>4. 1 <= a /\ a <= n /\ \A k \in a..n : t[k] \in NameChar
    BY <1>1, <1>3 DEF InName, Begun
  <1>5. \A k \in a..n : u[k] \in NameChar
    BY <1>2, <1>4
  <1>6. Begun(u, f)
    BY BegunLater DEF InName
  <1>7. ASSUME c \in NameChar PROVE InName(u, f)
    <2>1. \A k \in a..(n + 1) : u[k] \in NameChar
      BY <1>2, <1>4, <1>5, <1>7
    <2> QED
      BY <1>2, <1>3, <1>6, <2>1 DEF InName
  <1>8. g.NameBegin = a /\ g.NameEnd = n + 1
    BY <1>1, <1>3 DEF FieldType
  <1>9. HasName(u, g)
    <2>1. Begun(u, g)
      BY <1>3, <1>6, <1>8 DEF Begun
    <2>2. a < n + 1 /\ (n + 1) - 1 = n
      BY <1>4
    <2> QED
      BY <1>2, <1>5, <1>8, <2>1, <2>2 DEF HasName
  <1>10. \A k \in (n + 1)..(n + 1) : u[k] = c
    BY <1>2
  <1>11. c = "blank" => AfterName(u, g)
    BY <1>2, <1>8, <1>9, <1>10 DEF AfterName
  <1>12. c = "equals" => AfterSignOf(u, g)
    BY <1>2, <1>8, <1>9, <1>10 DEF AfterSignOf
  <1> QED
    BY <1>7, <1>11, <1>12

LEMMA SignLater ==
  ASSUME NEW t \in Seq(Chars), NEW u \in Seq(Chars), NEW c, Longer(u, t, c),
         NEW f \in FieldType
  PROVE  /\ AfterName(t, f) /\ c = "blank" => AfterName(u, f)
         /\ AfterName(t, f) /\ c = "equals" => AfterSignOf(u, f)
         /\ AfterSignOf(t, f) /\ c = "blank" => AfterSignOf(u, f)
  <1>1. PICK n \in Nat : n = Len(t)
    OBVIOUS
  <1>2. Len(u) = n + 1 /\ u[n + 1] = c /\ \A k \in 1..n : u[k] = t[k]
    BY <1>1 DEF Longer
  <1>3. PICK b \in Nat : b = f.NameEnd
    BY DEF FieldType
  <1>4. ASSUME HasName(t, f) PROVE HasName(u, f) /\ 1 <= b
    <2>1. 1 <= b
      BY <1>3, <1>4 DEF HasName, Begun, FieldType
    <2> QED
      BY <1>4, <2>1, BegunLater
  <1>5. ASSUME NEW S, \A k \in b..n : t[k] \in S, 1 <= b, c \in S
        PROVE  \A k \in b..(n + 1) : u[k] \in S
    BY <1>2, <1>5
  <1>6. ASSUME AfterName(t, f), c = "blank" PROVE AfterName(u, f)
    <2>1. HasName(u, f) /\ 1 <= b /\ \A k \in b..n : t[k] \in {"blank"}
      BY <1>1, <1>3, <1>4, <1>6 DEF AfterName
    <2>2. \A k \in b..(n + 1) : u[k] \in {"blank"}
      BY <1>5, <1>6, <2>1
    <2> QED
      BY <1>2, <1>3, <2>1, <2>2 DEF AfterName
  <1>7. ASSUME AfterName(t, f), c = "equals" PROVE AfterSignOf(u, f)
    <2>1. HasName(u, f) /\ 1 <= b /\ \A k \in b..n : t[k] \in {"blank", "equals"}
      BY <1>1, <1>3, <1>4, <1>7 DEF AfterName
    <2>2. \A k \in b..(n + 1) : u[k] \in {"blank", "equals"}
      BY <1>5, <1>7, <2>1
    <2> QED
      BY <1>2, <1>3, <2>1, <2>2 DEF AfterSignOf
  <1>8. ASSUME AfterSignOf(t, f), c = "blank" PROVE AfterSignOf(u, f)
    <2>1. HasName(u, f) /\ 1 <= b /\ \A k \in b..n : t[k] \in {"blank", "equals"}
      BY <1>1, <1>3, <1>4, <1>8 DEF AfterSignOf
    <2>2. \A k \in b..(n + 1) : u[k] \in {"blank", "equals"}
      BY <1>5, <1>8, <2>1
    <2> QED
      BY <1>2, <1>3, <2>1, <2>2 DEF AfterSignOf
  <1> QED
    BY <1>6, <1>7, <1>8

(* A value begins, in quotes or without.                                   *)
LEMMA ValueBegins ==
  ASSUME NEW t \in Seq(Chars), NEW u \in Seq(Chars), NEW c, Longer(u, t, c),
         NEW f \in FieldType, AfterSignOf(t, f), NEW g \in FieldType
  PROVE  /\ c \in Quotes /\ g = [f EXCEPT !.ValueBegin = Len(t) + 2] => InQuotes(u, g, c)
         /\ g = [f EXCEPT !.ValueBegin = Len(t) + 1] => InValue(u, g)
  <1>1. PICK n \in Nat : n = Len(t)
    OBVIOUS
  <1>2. Len(u) = n + 1 /\ u[n + 1] = c /\ \A k \in 1..n : u[k] = t[k]
    BY <1>1 DEF Longer
  <1>3. PICK b \in Nat : b = f.NameEnd
    BY DEF FieldType
  <1>4. HasName(u, f)
    BY BegunLater DEF AfterSignOf
  <1>5. 1 <= b /\ b <= n
    BY <1>1, <1>3 DEF AfterSignOf, HasName, Begun, FieldType
  <1>6. \A k \in b..n : u[k] \in {"blank", "equals"}
    BY <1>1, <1>2, <1>3, <1>5 DEF AfterSignOf
  <1>7. \A k \in b..n : u[k] \in Neutral /\ u[k] \notin Quotes
    BY <1>6 DEF Neutral, Quotes
  <1>8. ASSUME c \in Quotes, g = [f EXCEPT !.ValueBegin = Len(t) + 2]
        PROVE  InQuotes(u, g, c)
    <2>1. g.NameBegin = f.NameBegin /\ g.NameEnd = b /\ g.ValueBegin = n + 2
      BY <1>1, <1>3, <1>8 DEF FieldType
    <2>2. HasName(u, g)
      BY <1>3, <1>4, <2>1 DEF HasName, Begun
    <2>3. \A k \in b..((n + 2) - 1) : u[k] \in Neutral
      <3>1. c \in Neutral
        BY <1>8 DEF Neutral
      <3>2. ASSUME NEW k \in b..((n + 2) - 1) PROVE k \in b..n \/ k = n + 1
        OBVIOUS
      <3> QED
        BY <1>2, <1>7, <3>1, <3>2
    <2>4. BeforeValue(u, g)
      BY <1>5, <2>1, <2>2, <2>3 DEF BeforeValue
    <2>5. (n + 2) - 1 = n + 1 /\ (n + 2)..(n + 1) = {}
      OBVIOUS
    <2>6. u[g.ValueBegin - 1] = c /\ g.ValueBegin <= Len(u) + 1
      BY <1>2, <2>1, <2>5
    <2>7. \A k \in g.ValueBegin..Len(u) : u[k] # c
      BY <1>2, <2>1, <2>5
    <2> QED
      BY <2>4, <2>6, <2>7 DEF InQuotes
  <1>9. ASSUME g = [f EXCEPT !.ValueBegin = Len(t) + 1] PROVE InValue(u, g)
    <2>1. g.NameBegin = f.NameBegin /\ g.NameEnd = b /\ g.ValueBegin = n + 1
      BY <1>1, <1>3, <1>9 DEF FieldType
    <2>2. HasName(u, g)
      BY <1>3, <1>4, <2>1 DEF HasName, Begun
    <2>3. (n + 1) - 1 = n /\ n \in b..n
      BY <1>5
    <2>4. BeforeValue(u, g)
      BY <1>5, <1>7, <2>1, <2>2, <2>3 DEF BeforeValue
    <2>5. u[g.ValueBegin - 1] \notin Quotes /\ g.ValueBegin <= Len(u)
      BY <1>2, <1>7, <2>1, <2>3
    <2> QED
      BY <2>4, <2>5 DEF InValue
  <1> QED
    BY <1>8, <1>9

(* A value goes on with any character that does not end it.                *)
LEMMA ValueLater ==
  ASSUME NEW t \in Seq(Chars), NEW u \in Seq(Chars), NEW c, Longer(u, t, c),
         NEW f \in FieldType
  PROVE  /\ InValue(t, f) => InValue(u, f)
         /\ \A q : InQuotes(t, f, q) /\ c # q => InQuotes(u, f, q)
  <1>1. PICK n \in Nat : n = Len(t)
    OBVIOUS
  <1>2. Len(u) = n + 1 /\ u[n + 1] = c /\ \A k \in 1..n : u[k] = t[k]
    BY <1>1 DEF Longer
  <1>3. PICK v \in Nat : v = f.ValueBegin
    BY DEF FieldType
  <1>4. ASSUME BeforeValue(t, f), v <= n + 1
        PROVE  BeforeValue(u, f) /\ v - 1 \in 1..n /\ u[v - 1] = t[v - 1]
    <2>1. v - 1 \in 1..n
      BY <1>3, <1>4 DEF BeforeValue, HasName, Begun, FieldType
    <2> QED
      BY <1>1, <1>2, <1>3, <1>4, <2>1, BegunLater
  <1>5. ASSUME InValue(t, f) PROVE InValue(u, f)
    <2>1. BeforeValue(t, f) /\ v <= n /\ t[v - 1] \notin Quotes
      BY <1>1, <1>3, <1>5 DEF InValue
    <2>2. v <= n + 1 /\ v <= Len(u)
      BY <1>2, <2>1
    <2> QED
      BY <1>3, <1>4, <2>1, <2>2 DEF InValue
  <1>6. ASSUME NEW q, InQuotes(t, f, q), c # q PROVE InQuotes(u, f, q)
    <2>1. BeforeValue(t, f) /\ v <= n + 1 /\ t[v - 1] = q /\ \A k \in v..n : t[k] # q
      BY <1>1, <1>3, <1>6 DEF InQuotes
    <2>2. BeforeValue(u, f) /\ u[v - 1] = q /\ 1 <= v
      BY <1>4, <2>1
    <2>3. \A k \in v..(n + 1) : u[k] # q
      BY <1>2, <1>6, <2>1, <2>2
    <2>4. v <= Len(u) + 1
      BY <1>2, <2>1
    <2> QED
      BY <1>2, <1>3, <2>2, <2>3, <2>4 DEF InQuotes
  <1> QED
    BY <1>5, <1>6

(* In every phase the list by itself is right.                             *)
LEMMA SlicesListed ==
  ASSUME NEW t \in Seq(Chars), NEW ph, NEW f, NEW props, Slices(t, ph, f, props)
  PROVE  Listed(t, props)
  <1>1. CASE props = <<>>
    <2>1. Len(props) = 0
      BY <1>1
    <2> QED
      BY <2>1 DEF Listed
  <1>2. CASE \E e, m : Done(t, props, e, m)
    BY <1>2 DEF Done
  <1> QED
    BY <1>1, <1>2 DEF Slices, UpTo

(* The names that the step lemmas give to the parts of a state.            *)
LEMMA AdvanceText ==
  ASSUME IInv, NEW c \in Chars, Advance(c)
  PROVE  \E n \in Nat :
           /\ n = Len(text) /\ here = n + 1
           /\ text \in Seq(Chars) /\ text' \in Seq(Chars) /\ Longer(text', text, c)
           /\ field \in FieldType /\ properties \in Seq(PropertyType)
  <1>1. text \in Seq(Chars) /\ text' = Append(text, c)
    BY DEF IInv, TypeOK, Advance
  <1>2. Len(text) \in Nat /\ here = Len(text) + 1
    BY <1>1 DEF here
  <1>3. text' \in Seq(Chars) /\ Longer(text', text, c)
    BY <1>1, LongerByOne
  <1>4. field \in FieldType /\ properties \in Seq(PropertyType)
    BY DEF IInv, TypeOK, FieldType
  <1> QED
    BY <1>1, <1>2, <1>3, <1>4

(* The top of the loop, where the finished property is pushed; a refusal;  *)
(* and the shape that the lemmas of the phases share.                      *)
LEMMA LoopTopSlices ==
  ASSUME IInv, Slices(text, phase, field, properties), NEW c \in Chars,
         Advance(c), LoopTop(c),
         phase \in {"tag", "between", "attribute", "named", "unquoted"},
         phase = "tag" => c \in {"blank", "slash"}
  PROVE  Slices(text', phase', field', properties')
  <1>0. PICK n \in Nat :
          /\ n = Len(text) /\ here = n + 1
          /\ text \in Seq(Chars) /\ text' \in Seq(Chars) /\ Longer(text', text, c)
    BY AdvanceText
  <1>1. PICK t, u, f, props :
          /\ t = text /\ u = text' /\ n = Len(t) /\ here = n + 1
          /\ t \in Seq(Chars) /\ u \in Seq(Chars) /\ Longer(u, t, c)
          /\ f = field' /\ props = Pushed /\ props = properties'
    BY <1>0 DEF LoopTop
  <1>2. props \in Seq(PropertyType)
    BY <1>1, PushedType DEF IInv
  <1>3. PICK e \in 1..(n + 1) : Done(t, props, e, n + 1) /\ (e < n + 1 \/ phase = "tag")
    BY <1>1, PushedDone
  <1>4. Done(u, props, e, n + 1)
    <2>1. e <= Len(t) \/ c \in {"blank", "slash"}
      BY <1>1, <1>3
    <2>2. n + 1 \in Nat
      OBVIOUS
    <2> QED
      BY <1>1, <1>2, <1>3, <2>1, <2>2, DoneLater
  <1>5. Len(u) = n + 1 /\ u[n + 1] = c
    BY <1>1 DEF Longer
  <1>6. CASE c = "blank" /\ phase' = "between"
    <2>1. Done(u, props, e, n + 2)
      <3>1. n + 1 \in Nat /\ n + 2 \in Nat /\ n + 1 <= n + 2 /\ n + 2 <= Len(u) + 1
        BY <1>5
      <3>2. \A k \in (n + 1)..((n + 2) - 1) : u[k] \in Neutral
        BY <1>5, <1>6 DEF Neutral
      <3> QED
        BY <1>1, <1>2, <1>4, <3>1, <3>2, DoneNeutral
    <2>2. e \in 1..Len(u) /\ e < n + 2 /\ Len(u) + 1 = n + 2
      BY <1>5
    <2>3. UpTo(u, props, Len(u) + 1)
      BY <2>1, <2>2 DEF UpTo
    <2> QED
      BY <1>1, <1>6, <2>3 DEF Slices
  <1>7. CASE c = "slash" /\ phase' = "slash"
    <2>1. Trailing(u, n + 1)
      BY <1>5, <1>7 DEF Trailing
    <2>2. e \in 1..Len(u) /\ n + 1 \in 1..Len(u)
      BY <1>5
    <2> QED
      BY <1>1, <1>4, <1>7, <2>1, <2>2 DEF Slices
  <1>8. CASE /\ c \in NameStart /\ phase' = "attribute"
             /\ field' = [field EXCEPT !.NameBegin = here]
    <2>1. f.NameBegin = n + 1
      BY <1>1, <1>8 DEF IInv, TypeOK
    <2>2. InName(u, f)
      <3>1. c \in NameChar
        BY <1>8 DEF NameChar
      <3> QED
        BY <1>5, <1>8, <2>1, <3>1 DEF InName, Begun
    <2>3. c \notin {"blank", "slash"}
      BY <1>8 DEF NameStart
    <2>4. e < n + 1 /\ e \in 1..Len(u)
      BY <1>3, <1>5, <2>3
    <2>5. UpTo(u, props, f.NameBegin)
      BY <1>4, <2>1, <2>4 DEF UpTo
    <2> QED
      BY <1>1, <1>8, <2>2, <2>5 DEF Slices, FieldFits
  <1> QED
    BY <1>6, <1>7, <1>8 DEF LoopTop

LEMMA RefuseSlices ==
  ASSUME IInv, SliceInv, NEW c \in Chars, Refuse(c)
  PROVE  SliceInv'
  <1>1. Advance(c) /\ status' = "rejected" /\ properties' = properties
    BY DEF Refuse
  <1>2. Listed(text', properties)
    BY <1>1, AdvanceText, ListedLater DEF SliceInv
  <1> QED
    BY <1>1, <1>2 DEF SliceInv

LEMMA ReadingSlices ==
  ASSUME IInv, NEW c \in Chars, Advance(c), UNCHANGED status,
         Slices(text', phase', field', properties')
  PROVE  SliceInv'
  <1>1. status' = "reading"
    BY DEF Advance
  <1>2. Listed(text', properties')
    <2>1. PICK u, ph, f, props :
            u = text' /\ ph = phase' /\ f = field' /\ props = properties'
      OBVIOUS
    <2>2. u \in Seq(Chars)
      BY <2>1, AdvanceText
    <2> QED
      BY <2>1, <2>2, SlicesListed
  <1> QED
    BY <1>1, <1>2 DEF SliceInv

(* One lemma for each phase of the parser.                                 *)
LEMMA TagNameSlices ==
  ASSUME IInv, SliceInv, NEW c \in Chars, ReadTagName(c), status = "reading"
  PROVE  SliceInv'
  <1>0. Slices(text, phase, field, properties)
    BY DEF SliceInv
  <1>1. CASE Refuse(c)
    BY <1>1, RefuseSlices
  <1>2. CASE phase = "tag" /\ c \notin NameChar /\ Moves(c) /\ Advance(c) /\ LoopTop(c)
    <2>1. c \in {"blank", "slash"}
      BY <1>2 DEF Moves, NameChar
    <2>2. Slices(text', phase', field', properties') /\ UNCHANGED status
      BY <1>0, <1>2, <2>1, LoopTopSlices DEF LoopTop
    <2> QED
      BY <1>2, <2>2, ReadingSlices
  <1>3. CASE /\ phase \in {"start", "tag"}
             /\ c \in IF phase = "start" THEN NameStart ELSE NameChar
             /\ Advance(c)
             /\ phase' = "tag"
             /\ UNCHANGED <<field, properties, status, stray>>
    <2>0. PICK n \in Nat :
            /\ n = Len(text)
            /\ text \in Seq(Chars) /\ text' \in Seq(Chars) /\ Longer(text', text, c)
      BY <1>3, AdvanceText
    <2>1. PICK t, u :
            /\ t = text /\ u = text' /\ n = Len(t)
            /\ t \in Seq(Chars) /\ u \in Seq(Chars) /\ Longer(u, t, c)
      BY <2>0
    <2>2. Len(u) = n + 1 /\ u[n + 1] = c /\ \A k \in 1..n : u[k] = t[k]
      BY <2>1 DEF Longer
    <2>3. properties = <<>> /\ NamedTo(u, n + 2)
      <3>1. CASE phase = "start"
        <4>1. t = <<>> /\ properties = <<>>
          BY <1>0, <2>1, <3>1 DEF Slices, FieldFits, Quotes
        <4>2. n = 0
          BY <2>1, <4>1
        <4>3. c \in NameStart /\ c \in NameChar
          BY <1>3, <3>1 DEF NameChar
        <4>4. Len(u) = 1 /\ u[1] = c
          BY <2>2, <4>2
        <4>5. \A k \in 1..(2 - 1) : u[k] \in NameChar
          BY <4>3, <4>4
        <4>6. NamedTo(u, 2)
          BY <4>3, <4>4, <4>5 DEF NamedTo
        <4> QED
          BY <4>1, <4>2, <4>6
      <3>2. CASE phase = "tag"
        <4>1. properties = <<>> /\ NamedTo(t, n + 1)
          BY <1>0, <2>1, <3>2 DEF Slices, FieldFits, Quotes
        <4>2. 1 <= n /\ t[1] \in NameStart /\ \A k \in 1..n : t[k] \in NameChar
          BY <4>1 DEF NamedTo
        <4>3. c \in NameChar
          BY <1>3, <3>2
        <4>4. \A k \in 1..((n + 2) - 1) : u[k] \in NameChar
          BY <2>2, <4>2, <4>3
        <4>5. u[1] \in NameStart
          BY <2>2, <4>2
        <4>6. n + 2 \in 2..(Len(u) + 1) /\ ~(n + 2 <= Len(u))
          BY <2>2
        <4>7. NamedTo(u, n + 2)
          BY <4>4, <4>5, <4>6 DEF NamedTo
        <4> QED
          BY <4>1, <4>7
      <3> QED
        BY <1>3, <3>1, <3>2
    <2>4. n + 2 = Len(u) + 1
      BY <2>2
    <2>5. Slices(text', phase', field', properties')
      BY <1>3, <2>1, <2>3, <2>4 DEF Slices
    <2> QED
      BY <1>3, <2>5, ReadingSlices
  <1> QED
    BY <1>1, <1>2, <1>3 DEF ReadTagName

LEMMA BetweenSlices ==
  ASSUME IInv, SliceInv, NEW c \in Chars, ReadBetween(c), status = "reading"
  PROVE  SliceInv'
  <1>1. CASE Refuse(c)
    BY <1>1, RefuseSlices
  <1>2. CASE phase = "between" /\ Advance(c) /\ LoopTop(c)
    <2>1. Slices(text', phase', field', properties') /\ UNCHANGED status
      BY <1>2, LoopTopSlices DEF LoopTop, SliceInv
    <2> QED
      BY <1>2, <2>1, ReadingSlices
  <1> QED
    BY <1>1, <1>2 DEF ReadBetween

LEMMA AfterSlashSlices ==
  ASSUME IInv, SliceInv, NEW c \in Chars, ReadAfterSlash(c), status = "reading"
  PROVE  SliceInv'
  <1>1. CASE Refuse(c)
    BY <1>1, RefuseSlices
  <1>2. CASE /\ phase = "slash" /\ c = "blank" /\ Advance(c)
             /\ UNCHANGED <<phase, field, properties, status, stray>>
    <2>0. PICK n \in Nat :
            /\ n = Len(text) /\ properties \in Seq(PropertyType)
            /\ text \in Seq(Chars) /\ text' \in Seq(Chars) /\ Longer(text', text, c)
      BY <1>2, AdvanceText
    <2>1. PICK t, u, props :
            /\ t = text /\ u = text' /\ n = Len(t) /\ props = properties
            /\ t \in Seq(Chars) /\ u \in Seq(Chars) /\ Longer(u, t, c)
            /\ props \in Seq(PropertyType)
      BY <2>0
    <2>2. Len(u) = n + 1 /\ u[n + 1] = c /\ \A k \in 1..n : u[k] = t[k]
      BY <2>1 DEF Longer
    <2>3. \E e, s \in 1..Len(t) : Done(t, props, e, s) /\ Trailing(t, s)
      BY <1>2, <2>1 DEF SliceInv, Slices, FieldFits, Quotes
    <2>4. PICK e \in 1..n, s \in 1..n : Done(t, props, e, s) /\ Trailing(t, s)
      BY <2>1, <2>3
    <2>5. Done(u, props, e, s)
      <3>1. e <= Len(t) /\ s \in Nat
        BY <2>1
      <3> QED
        BY <2>1, <2>4, <3>1, DoneLater
    <2>6. Trailing(u, s)
      <3>1. t[s] = "slash" /\ \A k \in (s + 1)..n : t[k] = "blank"
        BY <2>1, <2>4 DEF Trailing
      <3>2. u[s] = "slash"
        BY <2>2, <3>1
      <3>3. \A k \in (s + 1)..(n + 1) : u[k] = "blank"
        BY <1>2, <2>2, <3>1
      <3> QED
        BY <2>2, <3>2, <3>3 DEF Trailing
    <2>7. e \in 1..Len(u) /\ s \in 1..Len(u)
      BY <2>2
    <2>8. Slices(text', phase', field', properties')
      BY <1>2, <2>1, <2>5, <2>6, <2>7 DEF Slices
    <2> QED
      BY <1>2, <2>8, ReadingSlices
  <1> QED
    BY <1>1, <1>2 DEF ReadAfterSlash

(* A step inside a property: the list stays as it is.                      *)
LEMMA FieldSlices ==
  ASSUME IInv, SliceInv, NEW c \in Chars, Advance(c), UNCHANGED <<properties, status>>,
         phase \in {"attribute", "named", "equals", "unquoted"} \cup Quotes,
         field'.NameBegin = field.NameBegin, FieldFits(text', phase', field')
  PROVE  SliceInv'
  <1>0. PICK n \in Nat :
          /\ n = Len(text) /\ properties \in Seq(PropertyType) /\ field \in FieldType
          /\ text \in Seq(Chars) /\ text' \in Seq(Chars) /\ Longer(text', text, c)
    BY AdvanceText
  <1>1. UpTo(text, properties, field.NameBegin)
    BY DEF SliceInv, Advance, Slices, Quotes
  <1>2. UpTo(text', properties, field.NameBegin)
    <2>1. PICK t, u, props, m :
            /\ t = text /\ u = text' /\ props = properties /\ m = field.NameBegin
            /\ t \in Seq(Chars) /\ u \in Seq(Chars) /\ Longer(u, t, c)
            /\ props \in Seq(PropertyType) /\ m \in Nat
      BY <1>0 DEF FieldType
    <2> QED
      BY <1>1, <2>1, UpToLater
  <1>3. Slices(text', phase', field', properties')
    BY <1>2 DEF Slices
  <1> QED
    BY <1>3, ReadingSlices

LEMMA NameSlices ==
  ASSUME IInv, SliceInv, NEW c \in Chars, ReadName(c), status = "reading"
  PROVE  SliceInv'
  <1>1. CASE Refuse(c)
    BY <1>1, RefuseSlices
  <1>2. CASE phase = "attribute" /\ Advance(c) /\ LoopTop(c)
    <2>1. Slices(text', phase', field', properties') /\ UNCHANGED status
      BY <1>2, LoopTopSlices DEF LoopTop, SliceInv
    <2> QED
      BY <1>2, <2>1, ReadingSlices
  <1>3. CASE /\ phase = "attribute" /\ Advance(c)
             /\ \/ /\ c \in NameChar
                   /\ UNCHANGED <<phase, field, properties, status, stray>>
                \/ /\ c \in {"blank", "equals"}
                   /\ phase' = IF c = "blank" THEN "named" ELSE "equals"
                   /\ field' = [field EXCEPT !.NameEnd = here]
                   /\ UNCHANGED <<properties, status, stray>>
    <2>0. PICK n \in Nat :
            /\ n = Len(text) /\ here = n + 1 /\ field \in FieldType
            /\ text \in Seq(Chars) /\ text' \in Seq(Chars) /\ Longer(text', text, c)
      BY <1>3, AdvanceText
    <2>1. PICK t, u, f, g :
            /\ t = text /\ u = text' /\ f = field /\ n = Len(t)
            /\ g = [f EXCEPT !.NameEnd = Len(t) + 1]
            /\ t \in Seq(Chars) /\ u \in Seq(Chars) /\ Longer(u, t, c)
            /\ f \in FieldType /\ here = Len(t) + 1
      BY <2>0
    <2>2. InName(t, f)
      BY <1>3, <2>1 DEF SliceInv, Slices, FieldFits, Advance, Quotes
    <2>3. g \in FieldType /\ g.NameBegin = f.NameBegin
      BY <2>0, <2>1 DEF FieldType
    <2>4. /\ c \in NameChar => InName(u, f)
          /\ c = "blank" => AfterName(u, g)
          /\ c = "equals" => AfterSignOf(u, g)
      BY <2>1, <2>2, <2>3, NameLater
    <2>5. FieldFits(text', phase', field') /\ field'.NameBegin = field.NameBegin
      <3>1. CASE c \in NameChar /\ UNCHANGED <<phase, field>>
        BY <1>3, <2>1, <2>4, <3>1 DEF FieldFits
      <3>2. CASE c = "blank" /\ phase' = "named" /\ field' = g
        BY <2>1, <2>3, <2>4, <3>2 DEF FieldFits
      <3>3. CASE c = "equals" /\ phase' = "equals" /\ field' = g
        BY <2>1, <2>3, <2>4, <3>3 DEF FieldFits
      <3> QED
        BY <1>3, <2>1, <3>1, <3>2, <3>3
    <2> QED
      BY <1>3, <2>5, FieldSlices
  <1> QED
    BY <1>1, <1>2, <1>3 DEF ReadName

LEMMA AfterNameSlices ==
  ASSUME IInv, SliceInv, NEW c \in Chars, ReadAfterName(c), status = "reading"
  PROVE  SliceInv'
  <1>1. CASE Refuse(c)
    BY <1>1, RefuseSlices
  <1>2. CASE phase = "named" /\ Advance(c) /\ LoopTop(c)
    <2>1. Slices(text', phase', field', properties') /\ UNCHANGED status
      BY <1>2, LoopTopSlices DEF LoopTop, SliceInv
    <2> QED
      BY <1>2, <2>1, ReadingSlices
  <1>3. CASE /\ phase = "named" /\ Advance(c) /\ UNCHANGED <<field, properties, status, stray>>
             /\ \/ c = "blank" /\ phase' = phase
                \/ c = "equals" /\ phase' = "equals"
    <2>0. PICK n \in Nat :
            /\ n = Len(text) /\ field \in FieldType
            /\ text \in Seq(Chars) /\ text' \in Seq(Chars) /\ Longer(text', text, c)
      BY <1>3, AdvanceText
    <2>1. PICK t, u, f :
            /\ t = text /\ u = text' /\ f = field /\ f \in FieldType
            /\ t \in Seq(Chars) /\ u \in Seq(Chars) /\ Longer(u, t, c)
      BY <2>0
    <2>2. AfterName(t, f)
      BY <1>3, <2>1 DEF SliceInv, Slices, FieldFits, Advance, Quotes
    <2>3. FieldFits(text', phase', field')
      BY <1>3, <2>1, <2>2, SignLater DEF FieldFits
    <2> QED
      BY <1>3, <2>3, FieldSlices
  <1> QED
    BY <1>1, <1>2, <1>3 DEF ReadAfterName

LEMMA UnquotedSlices ==
  ASSUME IInv, SliceInv, NEW c \in Chars, ReadUnquoted(c), status = "reading"
  PROVE  SliceInv'
  <1>1. CASE phase = "unquoted" /\ Advance(c) /\ LoopTop(c)
    <2>1. Slices(text', phase', field', properties') /\ UNCHANGED status
      BY <1>1, LoopTopSlices DEF LoopTop, SliceInv
    <2> QED
      BY <1>1, <2>1, ReadingSlices
  <1>2. CASE phase = "unquoted" /\ Advance(c) /\ UNCHANGED <<phase, field, properties, status>>
    <2>0. PICK n \in Nat :
            /\ n = Len(text) /\ field \in FieldType
            /\ text \in Seq(Chars) /\ text' \in Seq(Chars) /\ Longer(text', text, c)
      BY <1>2, AdvanceText
    <2>1. PICK t, u, f :
            /\ t = text /\ u = text' /\ f = field /\ f \in FieldType
            /\ t \in Seq(Chars) /\ u \in Seq(Chars) /\ Longer(u, t, c)
      BY <2>0
    <2>2. InValue(t, f)
      BY <1>2, <2>1 DEF SliceInv, Slices, FieldFits, Advance, Quotes
    <2>3. FieldFits(text', phase', field')
      BY <1>2, <2>1, <2>2, ValueLater DEF FieldFits
    <2> QED
      BY <1>2, <2>3, FieldSlices
  <1> QED
    BY <1>1, <1>2 DEF ReadUnquoted

LEMMA QuotedSlices ==
  ASSUME IInv, SliceInv, NEW c \in Chars, ReadQuoted(c), status = "reading"
  PROVE  SliceInv'
  <1>1. Advance(c) /\ phase \in Quotes /\ UNCHANGED <<field, status>>
    BY DEF ReadQuoted
  <1>2. PICK n \in Nat :
          /\ n = Len(text) /\ here = n + 1 /\ field \in FieldType
          /\ properties \in Seq(PropertyType)
          /\ text \in Seq(Chars) /\ text' \in Seq(Chars) /\ Longer(text', text, c)
    BY <1>1, AdvanceText
  <1>3. PICK t, u, f, q, props :
          /\ t = text /\ u = text' /\ f = field /\ f \in FieldType /\ q = phase
          /\ props = properties /\ props \in Seq(PropertyType) /\ n = Len(t)
          /\ t \in Seq(Chars) /\ u \in Seq(Chars) /\ Longer(u, t, c)
    BY <1>2
  <1>4. InQuotes(t, f, q) /\ UpTo(t, props, f.NameBegin)
    BY <1>1, <1>3 DEF SliceInv, Slices, FieldFits, Quotes
  <1>5. CASE c # phase /\ UNCHANGED <<phase, properties>>
    <2>1. InQuotes(u, f, q)
      BY <1>3, <1>4, <1>5, ValueLater
    <2>2. FieldFits(text', phase', field')
      BY <1>1, <1>3, <1>5, <2>1 DEF FieldFits
    <2> QED
      BY <1>1, <1>5, <2>2, FieldSlices
  <1>6. CASE c = phase /\ phase' = "between" /\ properties' = Append(properties, Quoted)
    <2>1. PICK p : p = Quoted
      OBVIOUS
    <2>2. /\ p \in PropertyType /\ p.NameBegin = f.NameBegin /\ p.NameEnd = f.NameEnd
          /\ p.HasValue = TRUE /\ p.ValueBegin = f.ValueBegin /\ p.ValueEnd = n + 1
          /\ p.ValueType = "StringType"
      BY <1>2, <1>3, <2>1 DEF Quoted, Property, PropertyType, FieldType
    <2>3. PICK v \in Nat : v = f.ValueBegin
      BY <1>3 DEF FieldType
    <2>4. Len(u) = n + 1 /\ u[n + 1] = c /\ \A k \in 1..n : u[k] = t[k]
      BY <1>3 DEF Longer
    <2>5. /\ BeforeValue(t, f) /\ v <= n + 1 /\ t[v - 1] = q
          /\ \A k \in v..n : t[k] # q
      BY <1>3, <1>4, <2>3 DEF InQuotes
    <2>6. BeforeValue(u, f)
      BY <1>3, <2>3, <2>5, BegunLater
    <2>7. 1 <= v - 1 /\ v - 1 <= n
      BY <1>3, <2>3, <2>5 DEF BeforeValue, HasName, Begun, FieldType
    <2>8. u[v - 1] = q
      BY <2>4, <2>5, <2>7
    <2>9. /\ p.ValueEnd <= Len(u) /\ u[p.ValueEnd] = u[p.ValueBegin - 1]
          /\ \A k \in p.ValueBegin..(p.ValueEnd - 1) : u[k] # u[p.ValueEnd]
      <3>1. u[n + 1] = q /\ (n + 1) - 1 = n
        BY <1>3, <1>6, <2>4
      <3>2. \A k \in v..n : u[k] # q
        BY <2>4, <2>5, <2>7
      <3> QED
        BY <2>2, <2>3, <2>4, <2>8, <3>1, <3>2
    <2>10. Fits(u, p)
      <3>1. /\ HasName(u, f) /\ f.NameEnd < p.ValueBegin
            /\ \A k \in f.NameEnd..(p.ValueBegin - 1) : u[k] \in Neutral
        BY <2>2, <2>6 DEF BeforeValue
      <3>2. p.ValueBegin <= p.ValueEnd /\ p.ValueEnd <= Len(u) + 1
        BY <2>2, <2>3, <2>4, <2>5
      <3> QED
        BY <1>3, <2>2, <2>9, <3>1, <3>2, ValueFits
    <2>11. Typed(u, p)
      <3>1. QuotedIn(u, p)
        BY <1>1, <1>3, <2>2, <2>3, <2>8 DEF QuotedIn
      <3> QED
        BY <2>2, <3>1 DEF Typed
    <2>12. PICK e \in 1..n : e < f.NameBegin /\ Done(t, props, e, f.NameBegin)
      BY <1>3, <1>4 DEF UpTo
    <2>13. PICK more, m : more = Append(props, p) /\ m = f.NameBegin
      OBVIOUS
    <2>14. m \in Nat /\ more \in Seq(PropertyType) /\ e <= Len(t) /\ m = p.NameBegin
      BY <1>3, <2>2, <2>13 DEF FieldType
    <2>15. Done(u, props, e, m)
      BY <1>3, <2>12, <2>13, <2>14, DoneLater
    <2>16. Done(u, more, e, p.ValueEnd)
      BY <1>3, <2>2, <2>10, <2>11, <2>13, <2>14, <2>15, DonePushed
    <2>17. Done(u, more, e, n + 2)
      <3>1. PICK w \in Nat, l \in Nat : w = n + 1 /\ l = n + 2
        OBVIOUS
      <3>2. Done(u, more, e, w) /\ w <= l /\ l <= Len(u) + 1
        BY <2>2, <2>4, <2>16, <3>1
      <3>3. \A k \in w..(l - 1) : u[k] \in Neutral
        BY <1>1, <1>6, <2>4, <3>1 DEF Neutral
      <3>4. Done(u, more, e, l)
        BY <1>3, <2>14, <3>2, <3>3, DoneNeutral
      <3> QED
        BY <3>1, <3>4
    <2>18. UpTo(u, more, Len(u) + 1)
      <3>1. e \in 1..Len(u) /\ e < n + 2 /\ Len(u) + 1 = n + 2
        BY <2>4
      <3> QED
        BY <2>17, <3>1 DEF UpTo
    <2>19. Slices(text', phase', field', properties')
      BY <1>3, <1>6, <2>1, <2>13, <2>18 DEF Slices
    <2> QED
      BY <1>1, <2>19, ReadingSlices
  <1> QED
    BY <1>5, <1>6 DEF ReadQuoted

LEMMA AfterEqualsSlices ==
  ASSUME IInv, SliceInv, NEW c \in Chars, ReadAfterEquals(c), status = "reading"
  PROVE  SliceInv'
  <1>1. Advance(c) /\ phase = "equals" /\ UNCHANGED status
    BY DEF ReadAfterEquals
  <1>2. PICK n \in Nat :
          /\ n = Len(text) /\ here = n + 1 /\ field \in FieldType
          /\ properties \in Seq(PropertyType)
          /\ text \in Seq(Chars) /\ text' \in Seq(Chars) /\ Longer(text', text, c)
    BY <1>1, AdvanceText
  <1>3. PICK t, u, f, props :
          /\ t = text /\ u = text' /\ f = field /\ f \in FieldType
          /\ props = properties /\ props \in Seq(PropertyType) /\ n = Len(t)
          /\ t \in Seq(Chars) /\ u \in Seq(Chars) /\ Longer(u, t, c)
    BY <1>2
  <1>4. AfterSignOf(t, f) /\ UpTo(t, props, f.NameBegin)
    BY <1>1, <1>3 DEF SliceInv, Slices, FieldFits, Quotes
  <1>5. CASE c = "blank" /\ UNCHANGED <<phase, field, properties>>
    <2>1. FieldFits(text', phase', field')
      BY <1>1, <1>3, <1>4, <1>5, SignLater DEF FieldFits
    <2> QED
      BY <1>1, <1>5, <2>1, FieldSlices
  <1>6. ASSUME NEW g \in FieldType, field' = g, g.NameBegin = f.NameBegin,
               UNCHANGED properties,
               \/ c \in Quotes /\ phase' = c /\ InQuotes(u, g, c)
               \/ phase' = "unquoted" /\ InValue(u, g)
        PROVE  SliceInv'
    <2>1. FieldFits(text', phase', field') /\ field'.NameBegin = field.NameBegin
      BY <1>3, <1>6 DEF FieldFits
    <2> QED
      BY <1>1, <1>6, <2>1, FieldSlices
  <1>7. CASE /\ c \in Quotes /\ phase' = c /\ UNCHANGED properties
             /\ field' = [field EXCEPT !.ValueBegin = here + 1]
    <2>1. PICK g : g = [f EXCEPT !.ValueBegin = Len(t) + 2]
      OBVIOUS
    <2>2. g \in FieldType /\ g.NameBegin = f.NameBegin
      BY <1>3, <2>1 DEF FieldType
    <2>3. field' = g
      <3>1. here + 1 = Len(t) + 2
        BY <1>2, <1>3
      <3> QED
        BY <1>3, <1>7, <2>1, <3>1
    <2>4. InQuotes(u, g, c)
      BY <1>3, <1>4, <1>7, <2>1, <2>2, ValueBegins
    <2> QED
      BY <1>6, <1>7, <2>2, <2>3, <2>4
  <1>8. CASE /\ phase' = "unquoted" /\ UNCHANGED properties
             /\ field' = [field EXCEPT !.ValueBegin = here]
    <2>1. PICK g : g = [f EXCEPT !.ValueBegin = Len(t) + 1]
      OBVIOUS
    <2>2. g \in FieldType /\ g.NameBegin = f.NameBegin
      BY <1>3, <2>1 DEF FieldType
    <2>3. field' = g
      BY <1>2, <1>3, <1>8, <2>1
    <2>4. InValue(u, g)
      BY <1>3, <1>4, <2>1, <2>2, ValueBegins
    <2> QED
      BY <1>6, <1>8, <2>2, <2>3, <2>4
  <1>9. CASE /\ c = "slash" /\ phase' = "slash"
             /\ properties' = Append(properties,
                  Property(field.NameBegin, field.NameEnd, TRUE, here, here, InferType(<<>>)))
    <2>1. PICK y : y = InferType(<<>>)
      OBVIOUS
    <2>2. y \in {"StringType", "IntType", "FloatType", "BoolType"}
      BY <2>1 DEF InferType
    <2>3. PICK p : p = Property(f.NameBegin, f.NameEnd, TRUE, n + 1, n + 1, y)
      OBVIOUS
    <2>4. /\ p \in PropertyType /\ p.NameBegin = f.NameBegin /\ p.NameEnd = f.NameEnd
          /\ p.HasValue = TRUE /\ p.ValueBegin = n + 1 /\ p.ValueEnd = n + 1
          /\ p.ValueType = y
      BY <1>3, <2>2, <2>3 DEF Property, PropertyType, FieldType
    <2>5. properties' = Append(props, p)
      BY <1>2, <1>3, <1>9, <2>1, <2>3
    <2>6. Len(u) = n + 1 /\ u[n + 1] = c /\ \A k \in 1..n : u[k] = t[k]
      BY <1>3 DEF Longer
    <2>7. PICK b \in Nat : b = f.NameEnd
      BY <1>3 DEF FieldType
    <2>8. 1 <= b /\ b <= n
      BY <1>3, <1>4, <2>7 DEF AfterSignOf, HasName, Begun, FieldType
    <2>9. \A k \in b..n : u[k] \in {"blank", "equals"}
      BY <1>3, <1>4, <2>6, <2>7, <2>8 DEF AfterSignOf
    <2>10. \A k \in b..n : u[k] \in Neutral /\ u[k] \notin Quotes
      BY <2>9 DEF Neutral, Quotes
    <2>11. ~QuotedIn(u, p)
      <3>1. (n + 1) - 1 = n /\ n \in b..n
        BY <2>8
      <3> QED
        BY <2>4, <2>10, <3>1 DEF QuotedIn
    <2>12. Fits(u, p)
      <3>1. HasName(u, f)
        BY <1>3, <1>4, BegunLater DEF AfterSignOf
      <3>2. /\ f.NameEnd < p.ValueBegin /\ p.ValueBegin <= p.ValueEnd
            /\ p.ValueEnd <= Len(u) + 1 /\ p.ValueBegin - 1 = n
        BY <2>4, <2>6, <2>7, <2>8
      <3>3. \A k \in f.NameEnd..(p.ValueBegin - 1) : u[k] \in Neutral
        BY <2>7, <2>10, <3>2
      <3> QED
        BY <1>3, <2>4, <2>11, <3>1, <3>2, <3>3, ValueFits
    <2>13. Typed(u, p)
      <3>1. ValueOf(u, p) = <<>>
        <4>1. PICK x : x = SubSeq(u, n + 1, n)
          OBVIOUS
        <4>2. x = <<>>
          <5>1. n \in Nat /\ n <= n /\ n <= Len(u) /\ n - n = 0
            BY <2>6
          <5>2. x \in Seq(Chars) /\ Len(x) = 0
            BY <1>3, <4>1, <5>1, SliceFacts
          <5> QED
            BY <5>2
        <4>3. p.ValueEnd - 1 = n
          BY <2>4
        <4> QED
          BY <2>4, <4>1, <4>2, <4>3 DEF ValueOf
      <3> QED
        BY <2>1, <2>4, <2>11, <3>1 DEF Typed
    <2>14. PICK e \in 1..n : e < f.NameBegin /\ Done(t, props, e, f.NameBegin)
      BY <1>3, <1>4 DEF UpTo
    <2>15. PICK m \in Nat : m = f.NameBegin
      BY <1>3 DEF FieldType
    <2>16. Done(u, props, e, m)
      <3>1. e <= Len(t)
        BY <1>3
      <3> QED
        BY <1>3, <2>14, <2>15, <3>1, DoneLater
    <2>17. Done(u, Append(props, p), e, p.ValueEnd)
      BY <1>3, <2>4, <2>12, <2>13, <2>15, <2>16, DonePushed
    <2>18. PICK s : s = n + 1
      OBVIOUS
    <2>19. s \in 1..Len(u) /\ e \in 1..Len(u) /\ Done(u, Append(props, p), e, s)
      BY <2>4, <2>6, <2>17, <2>18
    <2>20. Trailing(u, s)
      BY <1>9, <2>6, <2>18 DEF Trailing
    <2>21. Slices(text', phase', field', properties')
      BY <1>3, <1>9, <2>5, <2>19, <2>20 DEF Slices
    <2> QED
      BY <1>1, <2>21, ReadingSlices
  <1> QED
    BY <1>5, <1>7, <1>8, <1>9 DEF ReadAfterEquals

(* The closing bracket pushes the last property, and an accepted tag is    *)
(* whole.                                                                  *)
LEMMA CloseSlices ==
  ASSUME IInv, SliceInv, CloseBracket
  PROVE  SliceInv'
  <1>1. /\ status = "reading" /\ UNCHANGED <<text, phase, field>>
        /\ properties' = Pushed /\ Slices(text, phase, field, properties)
        /\ status' = IF phase \in {"start", "equals"} \cup Quotes
                       THEN "rejected" ELSE "accepted"
    BY DEF CloseBracket, SliceInv
  <1>2. PICK t, n : /\ t = text /\ n = Len(t) /\ here = n + 1 /\ t \in Seq(Chars)
    BY DEF IInv, TypeOK, here
  <1>3. n \in Nat
    BY <1>2
  <1>4. CASE phase \in {"start", "equals"} \cup Quotes
    <2>1. Pushed = properties
      BY <1>4 DEF Pushed, Quotes
    <2> QED
      BY <1>1, <1>4, <2>1 DEF SliceInv
  <1>5. CASE phase = "slash"
    <2>1. PICK e \in 1..n, s \in 1..n : Done(t, properties, e, s) /\ Trailing(t, s)
      BY <1>1, <1>2, <1>5 DEF Slices, FieldFits, Quotes
    <2>2. e \in 1..(n + 1) /\ s \in 1..(n + 1)
      BY <1>3
    <2>3. Whole(t, properties) /\ Listed(t, properties)
      BY <1>2, <2>1, <2>2 DEF Whole, Done
    <2>4. Pushed = properties
      BY <1>5 DEF Pushed
    <2> QED
      BY <1>1, <1>2, <1>5, <2>3, <2>4 DEF SliceInv, Quotes
  <1>6. CASE phase \in {"tag", "between", "attribute", "named", "unquoted"}
    <2>1. PICK e \in 1..(n + 1) : Done(t, Pushed, e, n + 1)
      BY <1>1, <1>2, <1>6, PushedDone
    <2>2. Trailing(t, n + 1)
      BY <1>2, <1>3 DEF Trailing
    <2>3. n + 1 \in 1..(n + 1)
      BY <1>3
    <2>4. Whole(t, Pushed) /\ Listed(t, Pushed)
      BY <1>2, <2>1, <2>2, <2>3 DEF Whole, Done
    <2> QED
      BY <1>1, <1>2, <1>6, <2>4 DEF SliceInv, Quotes
  <1>7. phase \in Phases
    BY DEF IInv, TypeOK
  <1> QED
    BY <1>4, <1>5, <1>6, <1>7 DEF Phases, Quotes

LEMMA InitSlices == Init => SliceInv
  <1> SUFFICES ASSUME Init PROVE SliceInv
    OBVIOUS
  <1>1. Slices(text, phase, field, properties)
    BY DEF Init, Slices
  <1>2. text \in Seq(Chars) /\ status = "reading"
    BY DEF Init
  <1>3. Listed(text, properties)
    <2>1. PICK t, ph, f, props : /\ t = text /\ ph = phase /\ f = field /\ props = properties
      OBVIOUS
    <2> QED
      BY <1>1, <1>2, <2>1, SlicesListed
  <1> QED
    BY <1>1, <1>2, <1>3 DEF SliceInv

LEMMA NextSlices == IInv /\ SliceInv /\ [Next]_vars => SliceInv'
  <1> SUFFICES ASSUME IInv, SliceInv, [Next]_vars PROVE SliceInv'
    OBVIOUS
  <1>1. CASE CloseBracket
    BY <1>1, CloseSlices
  <1>2. ASSUME NEW c \in Chars, Read(c) PROVE SliceInv'
    <2>1. status = "reading"
      BY <1>2 DEF Read, ReadTagName, ReadBetween, ReadAfterSlash, ReadName,
                  ReadAfterName, ReadAfterEquals, ReadQuoted, ReadUnquoted,
                  Refuse, Advance
    <2> QED
      BY <1>2, <2>1, TagNameSlices, BetweenSlices, AfterSlashSlices, NameSlices,
         AfterNameSlices, AfterEqualsSlices, QuotedSlices, UnquotedSlices DEF Read
  <1>3. CASE UNCHANGED vars
    BY <1>3 DEF vars, SliceInv
  <1> QED
    BY <1>1, <1>2, <1>3 DEF Next

-----------------------------------------------------------------------------
(* The smallest element of a set, and where read_tag_name stops.           *)
LEMMA MinIs ==
  ASSUME NEW S \in SUBSET Nat, NEW m \in S, \A k \in S : m <= k
  PROVE  Sets!Min(S) = m
  <1>1. PICK x \in S : x = Sets!Min(S) /\ \A k \in S : x <= k
    BY DEF Sets!Min
  <1> QED
    BY <1>1

LEMMA TagNameEndIs ==
  ASSUME text \in Seq(Chars), NEW e, NamedTo(text, e)
  PROVE  TagNameEnd = e
  <1>1. PICK n \in Nat : n = Len(text) /\ here = n + 1
    BY DEF here
  <1>2. PICK S : S = {i \in 1..here : i < here => text[i] \notin NameChar}
    OBVIOUS
  <1>3. e \in 2..(n + 1)
    BY <1>1 DEF NamedTo
  <1>4. e \in S
    <2>1. e < n + 1 => text[e] \in {"blank", "slash"}
      BY <1>1, <1>3 DEF NamedTo
    <2>2. e < n + 1 => text[e] \notin NameChar
      BY <2>1 DEF NameChar, NameStart
    <2> QED
      BY <1>1, <1>2, <1>3, <2>2
  <1>5. ASSUME NEW k \in S PROVE e <= k
    <2>1. k \in 1..(n + 1) /\ (k < n + 1 => text[k] \notin NameChar)
      BY <1>1, <1>2, <1>5
    <2>2. \A j \in 1..(e - 1) : text[j] \in NameChar
      BY DEF NamedTo
    <2> QED
      BY <1>3, <2>1, <2>2
  <1>6. S \in SUBSET Nat
    BY <1>1, <1>2
  <1>7. Sets!Min(S) = e
    BY <1>4, <1>5, <1>6, MinIs
  <1> QED
    BY <1>2, <1>7 DEF TagNameEnd

(* A whole tag is made of its slices.                                      *)
LEMMA WholeFields ==
  ASSUME IInv, Whole(text, properties)
  PROVE  FieldsAreSlices
  <1>1. PICK n \in Nat : n = Len(text) /\ here = n + 1
    BY DEF IInv, TypeOK, here
  <1>2. text \in Seq(Chars) /\ properties \in Seq(PropertyType)
    BY DEF IInv, TypeOK
  <1>3. PICK e \in 1..(n + 1), s \in 1..(n + 1) :
          Done(text, properties, e, s) /\ Trailing(text, s)
    BY <1>1 DEF Whole
  <1>4. TagNameEnd = e
    BY <1>2, <1>3, TagNameEndIs DEF Done
  <1>5. DOMAIN properties = 1..Len(properties)
    BY <1>2
  <1>6. ASSUME NEW i \in 1..Len(properties), NEW p, p = properties[i]
        PROVE  /\ p.NameBegin < p.NameEnd /\ p.NameEnd <= p.ValueBegin
               /\ p.ValueBegin <= p.ValueEnd /\ p.ValueEnd <= here
               /\ ~p.HasValue => p.ValueEnd = p.NameEnd
               /\ text[p.NameBegin] \in NameStart
               /\ i < Len(properties) => p.ValueEnd <= properties[i + 1].NameBegin
               /\ IsQuoted(p) =>
                    /\ p.ValueEnd < here
                    /\ text[p.ValueEnd] = text[p.ValueBegin - 1]
                    /\ \A k \in p.ValueBegin..p.ValueEnd - 1 : text[k] # text[p.ValueEnd]
    <2>1. /\ Fits(text, p)
          /\ i < Len(properties) => p.ValueEnd <= properties[i + 1].NameBegin
      BY <1>3, <1>6 DEF Done, Listed
    <2>2. p \in PropertyType
      BY <1>2, <1>6
    <2>3. p.ValueEnd \in Nat
      BY <2>2, PropertyFacts
    <2>4. IsQuoted(p) <=> QuotedIn(text, p)
      BY DEF IsQuoted, QuotedIn
    <2>5. p.ValueEnd <= Len(text) => p.ValueEnd < here
      BY <1>1, <2>3
    <2>6. here = Len(text) + 1
      BY <1>1
    <2> QED
      BY <2>1, <2>4, <2>5, <2>6 DEF Fits
  <1>7. ASSUME NEW k \in e..n
        PROVE  \/ \E i \in 1..Len(properties) : k \in Held(properties[i])
               \/ text[k] \in {"blank", "equals"} \cup Quotes
               \/ text[k] = "slash" /\ \A j \in k + 1..n : text[j] = "blank"
    <2>1. CASE k \in e..(s - 1)
      BY <1>3, <2>1 DEF Done, Settled, Neutral
    <2>2. CASE k \in s..n
      <3>1. text[s] = "slash" /\ \A j \in (s + 1)..n : text[j] = "blank"
        BY <1>1, <2>2, <1>3 DEF Trailing
      <3>2. CASE k = s
        BY <3>1, <3>2
      <3>3. CASE k \in (s + 1)..n
        BY <3>1, <3>3
      <3> QED
        BY <2>2, <3>2, <3>3
    <2> QED
      BY <2>1, <2>2
  <1> QED
    BY <1>1, <1>4, <1>5, <1>6, <1>7 DEF FieldsAreSlices

-----------------------------------------------------------------------------
LEMMA MinFacts ==
  ASSUME NEW S \in SUBSET Nat, S # {}
  PROVE  Sets!Min(S) \in S /\ \A k \in S : Sets!Min(S) <= k
  <1>1. PICK m \in S : \A k \in S : m <= k
    BY LeastNat
  <1>2. Sets!Min(S) = m
    BY <1>1, MinIs
  <1> QED
    BY <1>1, <1>2

(* Where TagParser::Parse ends the tag, and its name.                      *)
LEMMA OpeningEndFacts ==
  ASSUME text \in Seq(Chars), NEW n \in Nat, n = Len(text)
  PROVE  /\ OpeningEnd \in 1..(n + 1)
         /\ \A i \in 1..n : text[i] = "bracket" => OpeningEnd <= i
         /\ OpeningEnd <= n => text[OpeningEnd] = "bracket"
  <1>1. PICK S : S = {i \in 1..n : text[i] = "bracket"} \cup {n + 1}
    OBVIOUS
  <1>2. S \in SUBSET Nat /\ S # {}
    BY <1>1
  <1>3. here = n + 1 /\ OpeningEnd = Sets!Min(S)
    BY <1>1 DEF here, OpeningEnd
  <1>4. OpeningEnd \in S /\ \A k \in S : OpeningEnd <= k
    BY <1>2, <1>3, MinFacts
  <1>5. ~(n + 1 <= n)
    OBVIOUS
  <1> QED
    BY <1>1, <1>4, <1>5

LEMMA ParseNameFacts ==
  ASSUME text \in Seq(Chars), NEW n \in Nat, n = Len(text)
  PROVE  \E d \in 1..OpeningEnd :
           /\ ParseName = SubSeq(text, 1, d - 1)
           /\ d < OpeningEnd => text[d] = "blank"
           /\ \A i \in 1..OpeningEnd : text[i] = "blank" => d <= i
  <1>1. PICK o \in 1..(n + 1) : o = OpeningEnd
    BY OpeningEndFacts
  <1>2. PICK S : S = {i \in 1..o : i < o => text[i] = "blank"}
    OBVIOUS
  <1>3. S \in SUBSET Nat /\ o \in S
    BY <1>2
  <1>4. PICK d : d = Sets!Min(S)
    OBVIOUS
  <1>5. d \in S /\ \A k \in S : d <= k
    BY <1>3, <1>4, MinFacts
  <1>6. ParseName = SubSeq(text, 1, d - 1)
    BY <1>1, <1>2, <1>4 DEF ParseName
  <1> QED
    BY <1>1, <1>2, <1>5, <1>6

(* A whole tag is the same one for TagParser::Parse: its name is followed  *)
(* by a blank, by the "/" or by nothing, and a bracket before its end can  *)
(* only stand inside a property, and there only in the value.              *)
LEMMA WholeNames ==
  ASSUME IInv, Whole(text, properties)
  PROVE  SingleTagAgrees
  <1>1. PICK n \in Nat : n = Len(text) /\ here = n + 1
    BY DEF IInv, TypeOK, here
  <1>2. text \in Seq(Chars) /\ properties \in Seq(PropertyType)
    BY DEF IInv, TypeOK
  <1>3. PICK e \in 1..(n + 1), s \in 1..(n + 1) :
          Done(text, properties, e, s) /\ Trailing(text, s)
    BY <1>1 DEF Whole
  <1>4. TagNameEnd = e
    BY <1>2, <1>3, TagNameEndIs DEF Done
  <1>5. /\ 2 <= e /\ e <= n + 1 /\ text[1] \in NameStart
        /\ \A k \in 1..(e - 1) : text[k] \in NameChar
        /\ e <= n => text[e] \in {"blank", "slash"}
    BY <1>1, <1>3 DEF Done, NamedTo
  <1>6. "blank" \notin NameChar /\ "bracket" \notin NameChar /\ "slash" \notin NameChar
    BY DEF NameChar, NameStart
  <1>7. PICK o \in 1..(n + 1) :
          /\ o = OpeningEnd
          /\ o <= n => text[o] = "bracket"
    BY <1>1, <1>2, OpeningEndFacts
  <1>8. PICK d \in 1..o :
          /\ ParseName = SubSeq(text, 1, d - 1)
          /\ d < o => text[d] = "blank"
          /\ \A i \in 1..o : text[i] = "blank" => d <= i
    BY <1>1, <1>2, <1>7, ParseNameFacts
  <1>9. e <= o
    <2>1. o <= n => text[o] \notin NameChar
      BY <1>6, <1>7
    <2> QED
      BY <1>5, <2>1
  <1>10. e <= d
    <2>1. d < o => text[d] \notin NameChar
      BY <1>6, <1>8
    <2> QED
      BY <1>5, <1>9, <2>1
  <1>11. PICK name : name = ParseName
    OBVIOUS
  <1>12. name \in Seq(Chars) /\ Len(name) = d - 1 /\ \A j \in 1..(d - 1) : name[j] = text[j]
    <2>1. PICK b \in Nat : b = d - 1
      OBVIOUS
    <2>2. b <= Len(text)
      BY <1>1, <2>1
    <2>3. name = SubSeq(text, 1, b)
      BY <1>8, <1>11, <2>1
    <2>4. name \in Seq(Chars) /\ Len(name) = b /\ \A j \in 1..b : name[j] = text[j]
      BY <1>2, <2>2, <2>3, HeadFacts
    <2> QED
      BY <2>1, <2>4
  <1>13. ASSUME e <= n, text[e] = "slash"
         PROVE  /\ ~IsValidTagName(ParseName)
                /\ TagNameEnd < here /\ text[TagNameEnd] # "blank"
    <2>1. d # e
      <3>1. ASSUME d = e, d < o PROVE FALSE
        BY <1>8, <1>13, <3>1
      <3>2. ASSUME d = e, ~(d < o) PROVE FALSE
        <4>1. o = e
          BY <3>2
        <4> QED
          BY <1>7, <1>13, <4>1
      <3> QED
        BY <3>1, <3>2
    <2>2. e \in 1..(d - 1) /\ e \in 2..Len(name)
      BY <1>5, <1>10, <1>12, <2>1
    <2>3. name[e] \notin NameChar
      BY <1>6, <1>12, <1>13, <2>2
    <2>4. ~IsValidTagName(name)
      BY <2>2, <2>3 DEF IsValidTagName
    <2>5. TagNameEnd < here /\ text[TagNameEnd] # "blank"
      BY <1>1, <1>4, <1>13
    <2> QED
      BY <1>11, <2>4, <2>5
  <1>14. ASSUME e = n + 1 \/ text[e] = "blank"
         PROVE  /\ IsValidTagName(ParseName) <=> text[1] # "colon"
                /\ TagNameEnd < here => text[TagNameEnd] = "blank"
                /\ ParseName = SubSeq(text, 1, TagNameEnd - 1)
    <2>1. d = e
      <3>1. CASE e = n + 1
        BY <1>10, <3>1
      <3>2. CASE text[e] = "blank"
        <4>1. e \in 1..o
          BY <1>9
        <4> QED
          BY <1>8, <1>10, <3>2, <4>1
      <3> QED
        BY <1>14, <3>1, <3>2
    <2>2. name[1] = text[1] /\ name # <<>>
      BY <1>5, <1>12, <2>1
    <2>3. \A i \in 2..Len(name) : name[i] \in NameChar
      BY <1>5, <1>12, <2>1
    <2>4. IsValidTagName(name) <=> text[1] # "colon"
      BY <1>5, <2>2, <2>3 DEF IsValidTagName
    <2>5. TagNameEnd < here => text[TagNameEnd] = "blank"
      BY <1>1, <1>4, <1>14
    <2>6. name = SubSeq(text, 1, TagNameEnd - 1)
      BY <1>4, <1>8, <1>11, <2>1
    <2> QED
      BY <1>11, <2>4, <2>5, <2>6
  <1>15. /\ IsValidTagName(ParseName) <=>
              /\ text[1] # "colon"
              /\ TagNameEnd < here => text[TagNameEnd] = "blank"
         /\ IsValidTagName(ParseName) => ParseName = SubSeq(text, 1, TagNameEnd - 1)
    <2>1. e = n + 1 \/ (e <= n /\ text[e] = "slash") \/ text[e] = "blank"
      BY <1>5
    <2> QED
      BY <1>13, <1>14, <2>1
  <1>16. ASSUME OpeningEnd < here
         PROVE  \E i \in 1..Len(properties) :
                  OpeningEnd \in properties[i].ValueBegin..properties[i].ValueEnd - 1
    <2>1. o \in e..n /\ text[o] = "bracket"
      BY <1>1, <1>7, <1>9, <1>16
    <2>2. CASE o \in e..(s - 1)
      <3>1. text[o] \notin Neutral
        BY <2>1 DEF Neutral, Quotes
      <3>2. PICK i \in 1..Len(properties) : o \in Held(properties[i])
        BY <1>3, <2>2, <3>1 DEF Done, Settled
      <3>3. Fits(text, properties[i])
        BY <1>3 DEF Done, Listed
      <3>4. o \notin properties[i].NameBegin..(properties[i].NameEnd - 1)
        BY <1>6, <2>1, <3>3 DEF Fits
      <3> QED
        BY <1>7, <3>2, <3>4 DEF Held
    <2>3. CASE o \in s..n
      <3>1. text[s] = "slash" /\ \A j \in (s + 1)..n : text[j] = "blank"
        BY <1>1, <1>3, <2>3 DEF Trailing
      <3>2. o = s \/ o \in (s + 1)..n
        BY <2>3
      <3> QED
        BY <2>1, <3>1, <3>2
    <2> QED
      BY <2>1, <2>2, <2>3
  <1>17. DOMAIN properties = 1..Len(properties)
    BY <1>2
  <1> QED
    BY <1>15, <1>16, <1>17 DEF SingleTagAgrees

-----------------------------------------------------------------------------
(* The spelling of numbers: looks_like_int and looks_like_float scan,      *)
(* IsInt and IsFloat describe.                                             *)
Signs == {"plus", "minus"}

LEMMA AfterSignIs ==
  ASSUME NEW v \in Seq(Chars)
  PROVE  /\ AfterSign(v) \in {1, 2}
         /\ AfterSign(v) = 2 <=> (1 <= Len(v) /\ v[1] \in Signs)
  <1>1. v # <<>> <=> 1 <= Len(v)
    OBVIOUS
  <1> QED
    BY <1>1 DEF AfterSign, Signs

(* looks_like_int accepts the values that are a number of the grammar.     *)
LEMMA IntGrammar ==
  ASSUME NEW v \in Seq(Chars)
  PROVE  LooksLikeInt(v) <=> IsInt(v)
  <1>1. PICK n \in Nat : n = Len(v)
    OBVIOUS
  <1>2. PICK a \in {1, 2} : a = AfterSign(v) /\ (a = 2 <=> (1 <= n /\ v[1] \in Signs))
    BY <1>1, AfterSignIs
  <1>3. "digit" \notin Signs
    BY DEF Signs
  <1>4. ASSUME LooksLikeInt(v) PROVE IsInt(v)
    <2>1. a \in 1..n /\ \A i \in a..n : v[i] = "digit"
      BY <1>1, <1>2, <1>4 DEF LooksLikeInt
    <2> QED
      BY <1>1, <1>2, <2>1 DEF IsInt, Signs
  <1>5. ASSUME IsInt(v) PROVE LooksLikeInt(v)
    <2>1. PICK d \in 1..n : /\ d = 1 \/ (d = 2 /\ v[1] \in Signs)
                            /\ \A i \in d..n : v[i] = "digit"
      BY <1>1, <1>5 DEF IsInt, Signs
    <2>2. d = a
      <3>1. CASE d = 1
        <4>1. v[1] = "digit" /\ 1 <= n
          BY <2>1, <3>1
        <4> QED
          BY <1>2, <1>3, <3>1, <4>1
      <3>2. CASE d = 2 /\ v[1] \in Signs
        BY <1>2, <3>2
      <3> QED
        BY <2>1, <3>1, <3>2
    <2> QED
      BY <1>1, <1>2, <2>1, <2>2 DEF LooksLikeInt
  <1> QED
    BY <1>4, <1>5

(* A finite set has at most one element when any two are the same.         *)
LEMMA AtMostOne ==
  ASSUME NEW S, IsFiniteSet(S)
  PROVE  Cardinality(S) <= 1 <=> \A x, y \in S : x = y
  <1>1. Cardinality(S) \in Nat
    BY FS_CardinalityType
  <1>2. ASSUME Cardinality(S) <= 1 PROVE \A x, y \in S : x = y
    <2>1. Cardinality(S) = 0 \/ Cardinality(S) = 1
      BY <1>1, <1>2
    <2>2. CASE Cardinality(S) = 0
      BY <2>2, FS_EmptySet
    <2>3. CASE Cardinality(S) = 1
      BY <2>3, FS_Singleton
    <2> QED
      BY <2>1, <2>2, <2>3
  <1>3. ASSUME \A x, y \in S : x = y PROVE Cardinality(S) <= 1
    <2>1. CASE S = {}
      BY <2>1, FS_EmptySet
    <2>2. CASE S # {}
      <3>1. PICK x : S = {x}
        BY <1>3, <2>2
      <3>2. Cardinality(S) = 1
        BY <3>1, FS_Singleton
      <3> QED
        BY <3>2
    <2> QED
      BY <2>1, <2>2
  <1> QED
    BY <1>2, <1>3

(* What stands in v from b to k is a mantissa.                             *)
Mantissa(v, b, k) ==
  /\ \A i \in b..k : v[i] \in {"digit", "point"}
  /\ \A i, j \in b..k : v[i] = "point" /\ v[j] = "point" => i = j

(* The character c stands in v from b to k; and v is a number whose        *)
(* mantissa stands there.                                                  *)
Occurs(c, v, b, k) == \E i \in b..k : v[i] = c

FloatAt(v, b, k) ==
  /\ b = 1 \/ v[1] \in Signs
  /\ Mantissa(v, b, k) /\ Occurs("digit", v, b, k)
  /\ \/ k = Len(v) /\ Occurs("point", v, b, k)
     \/ k < Len(v) /\ v[k + 1] = "exp" /\ IsInt(SubSeq(v, k + 2, Len(v)))

LEMMA MantissaPoints ==
  ASSUME NEW v \in Seq(Chars), NEW b \in Nat, NEW k \in Nat
  PROVE  Mantissa(v, b, k) <=>
           /\ \A i \in b..k : v[i] \in {"digit", "point"}
           /\ Cardinality({i \in b..k : v[i] = "point"}) <= 1
  <1>1. PICK S : S = {i \in b..k : v[i] = "point"}
    OBVIOUS
  <1>2. IsFiniteSet(S)
    <2>1. S \in SUBSET (b..k) /\ IsFiniteSet(b..k)
      BY <1>1, FS_Interval
    <2> QED
      BY <2>1, FS_Subset
  <1>3. Cardinality(S) <= 1 <=> \A x, y \in S : x = y
    BY <1>2, AtMostOne
  <1> QED
    BY <1>1, <1>3 DEF Mantissa

(* IsFloat with its mantissa and its rest as parameters, and the same      *)
(* thing said of the offsets alone.                                        *)
FloatParts(v, b, m, rest) ==
  /\ b = 1 \/ v[1] \in {"plus", "minus"}
  /\ \A i \in 1..Len(m) : m[i] \in {"digit", "point"}
  /\ \E i \in 1..Len(m) : m[i] = "digit"
  /\ Cardinality({i \in 1..Len(m) : m[i] = "point"}) <= 1
  /\ \/ rest = <<>> /\ {i \in 1..Len(m) : m[i] = "point"} # {}
     \/ rest # <<>> /\ rest[1] = "exp" /\ IsInt(Tail(rest))

LEMMA FloatIs ==
  ASSUME NEW v \in Seq(Chars)
  PROVE  IsFloat(v) <=> \E b \in 1..2, k \in 1..Len(v) : FloatAt(v, b, k)
  <1>1. PICK n \in Nat : n = Len(v)
    OBVIOUS
  <1>2. ASSUME NEW b \in 1..2, NEW k \in 1..n,
               NEW m, m = SubSeq(v, b, k), NEW rest, rest = SubSeq(v, k + 1, n)
        PROVE  FloatParts(v, b, m, rest) <=> FloatAt(v, b, k)
    <2>1. PICK l \in Nat, a \in Nat :
            a = b - 1 /\ m \in Seq(Chars) /\ Len(m) = l /\ (b <= k => l = k - a)
            /\ (k < b => l = 0) /\ \A j \in 1..l : m[j] = v[a + j]
      <3>1. CASE b <= k
        <4>1. PICK a \in Nat : a = b - 1
          OBVIOUS
        <4>2. a <= k /\ k <= Len(v) /\ a + 1 = b /\ k - a \in Nat
          BY <1>1, <3>1, <4>1
        <4>3. m = SubSeq(v, a + 1, k)
          BY <1>2, <4>2
        <4>4. m \in Seq(Chars) /\ Len(m) = k - a /\ \A j \in 1..(k - a) : m[j] = v[a + j]
          BY <4>2, <4>3, SliceFacts
        <4> QED
          BY <3>1, <4>1, <4>2, <4>4
      <3>2. CASE k < b
        <4>1. m = <<>> /\ m \in Seq(Chars) /\ Len(m) = 0
          BY <1>1, <1>2, <3>2
        <4>2. PICK a \in Nat : a = b - 1
          OBVIOUS
        <4>3. ~(b <= k) /\ \A j \in 1..0 : FALSE
          BY <3>2
        <4> QED
          BY <4>1, <4>2, <4>3
      <3>3. b <= k \/ k < b
        OBVIOUS
      <3> QED
        BY <3>1, <3>2, <3>3
    <2>2. \A j \in 1..l : a + j \in b..k
      BY <2>1
    <2>3. \A i \in b..k : i - a \in 1..l /\ a + (i - a) = i
      BY <2>1
    <2>4. \A i \in b..k : m[i - a] = v[i]
      BY <2>1, <2>3
    <2>5. (\A i \in 1..l : m[i] \in {"digit", "point"})
            <=> \A i \in b..k : v[i] \in {"digit", "point"}
      BY <2>1, <2>2, <2>3, <2>4
    <2>6. \A c : (\E i \in 1..l : m[i] = c) <=> Occurs(c, v, b, k)
      BY <2>1, <2>2, <2>3, <2>4 DEF Occurs
    <2>7. Cardinality({i \in 1..l : m[i] = "point"}) <= 1
            <=> \A i, j \in b..k : v[i] = "point" /\ v[j] = "point" => i = j
      <3>1. PICK S : S = {i \in 1..l : m[i] = "point"}
        OBVIOUS
      <3>2. S \in SUBSET (1..l) /\ IsFiniteSet(1..l)
        BY <3>1, FS_Interval
      <3>3. IsFiniteSet(S)
        BY <3>2, FS_Subset
      <3>4. Cardinality(S) <= 1 <=> \A x, y \in S : x = y
        BY <3>3, AtMostOne
      <3>5. ASSUME \A x, y \in S : x = y, NEW i \in b..k, NEW j \in b..k,
                   v[i] = "point", v[j] = "point"
            PROVE  i = j
        <4>1. i - a \in S /\ j - a \in S
          BY <2>3, <2>4, <3>1, <3>5
        <4> QED
          BY <2>3, <3>5, <4>1
      <3>6. ASSUME \A i, j \in b..k : v[i] = "point" /\ v[j] = "point" => i = j,
                   NEW x \in S, NEW y \in S
            PROVE  x = y
        <4>1. x \in 1..l /\ y \in 1..l /\ v[a + x] = "point" /\ v[a + y] = "point"
          BY <2>1, <3>1, <3>6
        <4>2. a + x = a + y
          BY <2>2, <3>6, <4>1
        <4> QED
          BY <4>1, <4>2
      <3> QED
        BY <3>1, <3>4, <3>5, <3>6
    <2>8. {i \in 1..l : m[i] = "point"} # {} <=> Occurs("point", v, b, k)
      BY <2>6
    <2>9. /\ rest \in Seq(Chars) /\ Len(rest) = n - k
          /\ \A j \in 1..(n - k) : rest[j] = v[k + j]
      BY <1>1, <1>2, SliceFacts
    <2>10. rest = <<>> <=> k = n
      BY <2>9
    <2>11. k < n => Tail(rest) = SubSeq(v, k + 2, n)
      <3>1. ASSUME k < n PROVE Tail(rest) = SubSeq(v, k + 2, n)
        <4>1. PICK x, y : x = Tail(rest) /\ y = SubSeq(v, k + 2, n)
          OBVIOUS
        <4>2. PICK q \in Nat : q = k + 1
          OBVIOUS
        <4>3. q <= n /\ y = SubSeq(v, q + 1, n) /\ n <= Len(v)
          BY <1>1, <3>1, <4>1, <4>2
        <4>4. y \in Seq(Chars) /\ Len(y) = n - q /\ \A j \in 1..(n - q) : y[j] = v[q + j]
          BY <4>3, SliceFacts
        <4>5. x \in Seq(Chars) /\ Len(x) = n - q /\ \A j \in 1..(n - q) : x[j] = rest[j + 1]
          BY <2>9, <3>1, <4>1, <4>2
        <4>6. ASSUME NEW j \in 1..(n - q) PROVE rest[j + 1] = v[q + j]
          <5>1. j + 1 \in 1..(n - k) /\ k + (j + 1) = q + j
            BY <4>2
          <5> QED
            BY <2>9, <5>1
        <4>7. x = y
          BY <4>4, <4>5, <4>6, SeqEqual
        <4> QED
          BY <4>1, <4>7
      <3> QED
        BY <3>1
    <2>12. k < n => rest[1] = v[k + 1]
      BY <2>9
    <2>13. (\/ rest = <<>> /\ {i \in 1..l : m[i] = "point"} # {}
            \/ rest # <<>> /\ rest[1] = "exp" /\ IsInt(Tail(rest)))
           <=> (\/ k = n /\ Occurs("point", v, b, k)
                \/ k < n /\ v[k + 1] = "exp" /\ IsInt(SubSeq(v, k + 2, n)))
      <3>1. CASE k = n
        <4>1. ~(k < n)
          BY <3>1
        <4> QED
          BY <2>8, <2>10, <3>1, <4>1
      <3>2. CASE k < n
        <4>1. k # n
          BY <3>2
        <4> QED
          BY <2>10, <2>11, <2>12, <3>2, <4>1
      <3>3. k = n \/ k < n
        OBVIOUS
      <3> QED
        BY <3>1, <3>2, <3>3
    <2>14. (b = 1 \/ v[1] \in {"plus", "minus"}) <=> (b = 1 \/ v[1] \in Signs)
      BY DEF Signs
    <2>15. Len(m) = l
      BY <2>1
    <2> QED
      BY <1>1, <2>5, <2>6, <2>7, <2>13, <2>14, <2>15 DEF FloatParts, FloatAt, Mantissa
  <1>3. IsFloat(v) <=> \E b \in 1..2, k \in 1..Len(v) :
                         FloatParts(v, b, SubSeq(v, b, k), SubSeq(v, k + 1, Len(v)))
    BY DEF IsFloat, FloatParts
  <1>4. \A b \in 1..2, k \in 1..n :
          FloatParts(v, b, SubSeq(v, b, k), SubSeq(v, k + 1, n)) <=> FloatAt(v, b, k)
    BY <1>2
  <1> QED
    BY <1>1, <1>3, <1>4

(* The largest element of a bounded set, and so where the scan of the      *)
(* mantissa in looks_like_float stops.                                     *)
LEMMA MaxFacts ==
  ASSUME NEW n \in Nat, NEW S \in SUBSET (0..n), S # {}
  PROVE  Sets!Max(S) \in S /\ \A k \in S : k <= Sets!Max(S)
  <1>1. PICK B : B = {u \in Nat : \A k \in S : k <= u}
    OBVIOUS
  <1>2. B \in SUBSET Nat /\ n \in B
    BY <1>1
  <1>3. PICK u \in B : \A w \in B : u <= w
    BY <1>2, LeastNat
  <1>4. u \in Nat /\ \A k \in S : k <= u
    BY <1>1
  <1>5. u \in S
    <2> SUFFICES ASSUME u \notin S PROVE FALSE
      OBVIOUS
    <2>1. \A k \in S : k \in Nat /\ k # u
      OBVIOUS
    <2>2. \A k \in S : k < u
      BY <1>4, <2>1
    <2>3. PICK k0 : k0 \in S
      OBVIOUS
    <2>4. u - 1 \in Nat
      BY <1>4, <2>1, <2>2, <2>3
    <2>5. \A k \in S : k <= u - 1
      BY <1>4, <2>1, <2>2
    <2>6. u - 1 \in B
      BY <1>1, <2>4, <2>5
    <2>7. u <= u - 1
      BY <1>3, <2>6
    <2> QED
      BY <1>4, <2>7
  <1>6. \E x \in S : \A y \in S : x >= y
    BY <1>4, <1>5
  <1>7. Sets!Max(S) \in S /\ \A y \in S : Sets!Max(S) >= y
    BY <1>6 DEF Sets!Max
  <1> QED
    BY <1>7

LEMMA AfterMantissaFacts ==
  ASSUME NEW v \in Seq(Chars), NEW n \in Nat, n = Len(v),
         NEW a \in {1, 2}, a <= n + 1
  PROVE  /\ AfterMantissa(v, a) \in a..(n + 1)
         /\ Mantissa(v, a, AfterMantissa(v, a) - 1)
         /\ \A k \in a..(n + 1) : Mantissa(v, a, k - 1) => k <= AfterMantissa(v, a)
  <1>1. PICK S : S = {k \in a..n + 1 :
                        /\ \A j \in a..k - 1 : v[j] \in {"digit", "point"}
                        /\ Cardinality({j \in a..k - 1 : v[j] = "point"}) <= 1}
    OBVIOUS
  <1>2. ASSUME NEW k \in a..(n + 1) PROVE k \in S <=> Mantissa(v, a, k - 1)
    <2>1. PICK l \in Nat : l = k - 1
      OBVIOUS
    <2>2. a \in Nat
      OBVIOUS
    <2>3. Mantissa(v, a, l) <=>
           /\ \A i \in a..l : v[i] \in {"digit", "point"}
           /\ Cardinality({i \in a..l : v[i] = "point"}) <= 1
      BY <2>2, MantissaPoints
    <2> QED
      BY <1>1, <2>1, <2>3
  <1>3. Mantissa(v, a, a - 1)
    <2>1. \A i \in a..(a - 1) : FALSE
      OBVIOUS
    <2> QED
      BY <2>1 DEF Mantissa
  <1>4. a \in S
    <2>1. a \in a..(n + 1)
      OBVIOUS
    <2> QED
      BY <1>2, <1>3, <2>1
  <1>5. PICK m \in Nat : m = n + 1
    OBVIOUS
  <1>6. S \in SUBSET (0..m)
    BY <1>1, <1>5
  <1>7. PICK x : x = AfterMantissa(v, a)
    OBVIOUS
  <1>8. x = Sets!Max(S)
    BY <1>1, <1>7 DEF AfterMantissa
  <1>9. x \in S /\ \A k \in S : k <= x
    BY <1>4, <1>5, <1>6, <1>8, MaxFacts
  <1>10. x \in a..(n + 1)
    BY <1>1, <1>9
  <1> QED
    BY <1>2, <1>7, <1>9, <1>10

(* After the exponent sign stand the digits, perhaps signed, of a number.  *)
ExponentBegin(v, q) ==
  IF q < Len(v) /\ v[q + 1] \in {"plus", "minus"} THEN q + 2 ELSE q + 1

LEMMA ExponentIs ==
  ASSUME NEW v \in Seq(Chars), NEW n \in Nat, n = Len(v), NEW q \in 0..n
  PROVE  IsInt(SubSeq(v, q + 1, n)) <=>
           /\ ExponentBegin(v, q) <= n
           /\ \A j \in ExponentBegin(v, q)..n : v[j] = "digit"
  <1>1. PICK w : w = SubSeq(v, q + 1, n)
    OBVIOUS
  <1>2. PICK l \in Nat : l = n - q
    <2>1. n - q \in Nat
      OBVIOUS
    <2> QED
      BY <2>1
  <1>3. w \in Seq(Chars) /\ Len(w) = l /\ \A j \in 1..l : w[j] = v[q + j]
    BY <1>1, <1>2, SliceFacts
  <1>4. PICK s \in {1, 2} : s = AfterSign(w) /\ (s = 2 <=> (1 <= l /\ w[1] \in Signs))
    BY <1>3, AfterSignIs
  <1>5. ExponentBegin(v, q) = q + s
    <2>1. q < n <=> 1 <= l
      BY <1>2
    <2>2. 1 <= l => w[1] = v[q + 1]
      BY <1>3
    <2> QED
      BY <1>4, <2>1, <2>2 DEF ExponentBegin, Signs
  <1>6. IsInt(w) <=> (s <= l /\ \A i \in s..l : w[i] = "digit")
    BY <1>3, <1>4, IntGrammar DEF LooksLikeInt
  <1>7. s <= l <=> q + s <= n
    BY <1>2
  <1>8. (\A i \in s..l : w[i] = "digit") <=> \A j \in (q + s)..n : v[j] = "digit"
    <2>1. \A i \in s..l : i \in 1..l /\ q + i \in (q + s)..n
      BY <1>2
    <2>2. \A j \in (q + s)..n : j - q \in s..l /\ j - q \in 1..l /\ q + (j - q) = j
      BY <1>2
    <2> QED
      BY <1>3, <2>1, <2>2
  <1> QED
    BY <1>1, <1>5, <1>6, <1>7, <1>8

(* looks_like_float accepts the values that are a number of the grammar:   *)
(* the mantissa it scans is the longest there is, and no other can be      *)
(* followed by the end or by the sign of an exponent.                      *)
LEMMA FloatGrammar ==
  ASSUME NEW v \in Seq(Chars)
  PROVE  LooksLikeFloat(v) <=> IsFloat(v)
  <1>1. PICK n \in Nat : n = Len(v)
    OBVIOUS
  <1>2. PICK a \in {1, 2} : a = AfterSign(v) /\ (a = 2 <=> (1 <= n /\ v[1] \in Signs))
    BY <1>1, AfterSignIs
  <1>3. a <= n + 1
    BY <1>2
  <1>4. PICK x \in a..(n + 1) :
          /\ x = AfterMantissa(v, a)
          /\ Mantissa(v, a, x - 1)
          /\ \A k \in a..(n + 1) : Mantissa(v, a, k - 1) => k <= x
    BY <1>1, <1>3, AfterMantissaFacts
  <1>5. PICK y \in Nat : y = x - 1 /\ y + 1 = x /\ y <= n
    OBVIOUS
  <1>6. LooksLikeFloat(v) <=>
          /\ Occurs("digit", v, a, y)
          /\ IF x <= n /\ v[x] = "exp"
               THEN /\ ExponentBegin(v, x) <= n
                    /\ \A j \in ExponentBegin(v, x)..n : v[j] = "digit"
               ELSE Occurs("point", v, a, y) /\ x = n + 1
    BY <1>1, <1>2, <1>4, <1>5 DEF LooksLikeFloat, Occurs, ExponentBegin
  <1>7. x <= n => (IsInt(SubSeq(v, y + 2, n)) <=>
                     /\ ExponentBegin(v, x) <= n
                     /\ \A j \in ExponentBegin(v, x)..n : v[j] = "digit")
    <2>1. y + 2 = x + 1
      BY <1>5
    <2>2. x <= n => x \in 0..n
      OBVIOUS
    <2> QED
      BY <1>1, <2>1, <2>2, ExponentIs
  <1>8. x <= n <=> y < n
    BY <1>5
  <1>9. x = n + 1 <=> y = n
    BY <1>5
  <1>10. a = 1 \/ v[1] \in Signs
    BY <1>2
  <1>11. LooksLikeFloat(v) <=> FloatAt(v, a, y)
    <2>1. Mantissa(v, a, y)
      BY <1>4, <1>5
    <2>2. CASE y < n /\ v[x] = "exp"
      <3>1. y # n /\ x <= n
        BY <1>8, <2>2
      <3> QED
        BY <1>1, <1>5, <1>6, <1>7, <1>10, <2>1, <2>2, <3>1 DEF FloatAt
    <2>3. CASE ~(y < n /\ v[x] = "exp")
      <3>1. ~(x <= n /\ v[x] = "exp")
        BY <1>8, <2>3
      <3> QED
        BY <1>1, <1>5, <1>6, <1>9, <1>10, <2>1, <2>3, <3>1 DEF FloatAt
    <2> QED
      BY <2>2, <2>3
  <1>12. ASSUME NEW b \in 1..2, NEW k \in 1..n, FloatAt(v, b, k) PROVE b = a /\ k = y
    <2>1. Mantissa(v, b, k) /\ Occurs("digit", v, b, k) /\ (b = 1 \/ v[1] \in Signs)
      BY <1>12 DEF FloatAt
    <2>2. b <= k
      BY <2>1 DEF Occurs
    <2>3. "digit" \notin Signs /\ "point" \notin Signs
      BY DEF Signs
    <2>4. b = a
      <3>1. CASE b = 1
        <4>1. v[1] \in {"digit", "point"}
          BY <2>1, <2>2, <3>1 DEF Mantissa
        <4>2. v[1] \notin Signs
          BY <2>3, <4>1
        <4> QED
          BY <1>2, <3>1, <4>2
      <3>2. CASE b = 2
        <4>1. v[1] \in Signs
          BY <2>1, <3>2
        <4> QED
          BY <1>2, <3>2, <4>1
      <3> QED
        BY <3>1, <3>2
    <2>5. k + 1 <= x
      <3>1. k + 1 \in a..(n + 1) /\ (k + 1) - 1 = k
        BY <2>2, <2>4
      <3> QED
        BY <1>4, <2>1, <2>4, <3>1
    <2>6. k = n \/ (k < n /\ v[k + 1] = "exp")
      BY <1>1, <1>12 DEF FloatAt
    <2>7. ASSUME k < y PROVE FALSE
      <3>1. k + 1 \in a..(x - 1) /\ k < n
        BY <1>5, <2>2, <2>4, <2>7
      <3>2. v[k + 1] \in {"digit", "point"}
        BY <1>4, <3>1 DEF Mantissa
      <3>3. v[k + 1] = "exp"
        BY <2>6, <3>1
      <3> QED
        BY <3>2, <3>3
    <2> QED
      BY <1>5, <2>4, <2>5, <2>7
  <1>13. FloatAt(v, a, y) => a \in 1..2 /\ y \in 1..n
    <2>1. ASSUME FloatAt(v, a, y) PROVE a <= y
      BY <2>1 DEF FloatAt, Occurs
    <2> QED
      BY <1>5, <2>1
  <1>14. IsFloat(v) <=> FloatAt(v, a, y)
    <2>1. IsFloat(v) <=> \E b \in 1..2, k \in 1..n : FloatAt(v, b, k)
      BY <1>1, FloatIs
    <2> QED
      BY <1>12, <1>13, <2>1
  <1> QED
    BY <1>11, <1>14

(* No value is both, so the order of the tests in infer_type is            *)
(* immaterial.                                                             *)
LEMMA NoFloatIsInt ==
  ASSUME NEW v \in Seq(Chars), IsFloat(v)
  PROVE  ~IsInt(v)
  <1> SUFFICES ASSUME IsInt(v) PROVE FALSE
    OBVIOUS
  <1>1. PICK n \in Nat : n = Len(v)
    OBVIOUS
  <1>2. PICK d \in 1..n : /\ d = 1 \/ (d = 2 /\ v[1] \in Signs)
                          /\ \A i \in d..n : v[i] = "digit"
    BY <1>1 DEF IsInt, Signs
  <1>3. PICK b \in 1..2, k \in 1..n : FloatAt(v, b, k)
    BY <1>1, FloatIs
  <1>4. /\ b = 1 \/ v[1] \in Signs
        /\ \A i \in b..k : v[i] \in {"digit", "point"}
        /\ b <= k
    BY <1>3 DEF FloatAt, Mantissa, Occurs
  <1>5. "digit" \notin Signs /\ "point" \notin Signs
    BY DEF Signs
  <1>6. d <= b
    <2>1. CASE d = 1
      BY <2>1
    <2>2. CASE d = 2 /\ v[1] \in Signs
      <3>1. b # 1
        <4>1. ASSUME b = 1 PROVE v[1] \in {"digit", "point"}
          <5>1. 1 \in b..k
            BY <4>1
          <5> QED
            BY <1>4, <5>1
        <4> QED
          BY <1>5, <2>2, <4>1
      <3> QED
        BY <2>2, <3>1
    <2> QED
      BY <1>2, <2>1, <2>2
  <1>7. \/ k = n /\ Occurs("point", v, b, k)
        \/ k < n /\ v[k + 1] = "exp"
    BY <1>1, <1>3 DEF FloatAt
  <1>8. CASE k = n /\ Occurs("point", v, b, k)
    <2>1. PICK i \in b..k : v[i] = "point"
      BY <1>8 DEF Occurs
    <2>2. i \in d..n
      BY <1>6, <1>8, <2>1
    <2>3. v[i] = "digit"
      BY <1>2, <2>2
    <2> QED
      BY <2>1, <2>3
  <1>9. CASE k < n /\ v[k + 1] = "exp"
    <2>1. k + 1 \in d..n
      BY <1>4, <1>6, <1>9
    <2>2. v[k + 1] = "digit"
      BY <1>2, <2>1
    <2> QED
      BY <1>9, <2>2
  <1> QED
    BY <1>7, <1>8, <1>9

(* The types that infer_type gave are those of the grammar.                *)
LEMMA ListedTypes ==
  ASSUME IInv, Listed(text, properties)
  PROVE  TypesByGrammar
  <1>1. text \in Seq(Chars) /\ properties \in Seq(PropertyType)
    BY DEF IInv, TypeOK
  <1>2. DOMAIN properties = 1..Len(properties)
    BY <1>1
  <1>3. ASSUME NEW i \in 1..Len(properties), NEW p, p = properties[i],
               NEW value, value = SubSeq(text, p.ValueBegin, p.ValueEnd - 1)
        PROVE  IF ~p.HasValue \/ IsQuoted(p) \/ value \in BoolWords
                 THEN p.ValueType = IF value \in BoolWords /\ p.HasValue /\ ~IsQuoted(p)
                                      THEN "BoolType" ELSE "StringType"
                 ELSE /\ p.ValueType = "IntType" <=> IsInt(value)
                      /\ p.ValueType = "FloatType" <=> IsFloat(value)
    <2>1. p \in PropertyType /\ Fits(text, p) /\ Typed(text, p)
      BY <1>1, <1>3 DEF Listed
    <2>2. IsQuoted(p) <=> QuotedIn(text, p)
      BY DEF IsQuoted, QuotedIn
    <2>3. p.ValueType = IF p.HasValue /\ ~IsQuoted(p) THEN InferType(value)
                                                     ELSE "StringType"
      BY <1>3, <2>1, <2>2 DEF Typed, ValueOf
    <2>4. value \in Seq(Chars)
      <3>1. PICK v \in Nat, w \in Nat : v = p.ValueBegin - 1 /\ w = p.ValueEnd - 1
        BY <2>1, PropertyFacts DEF Fits
      <3>2. v <= w /\ w <= Len(text) /\ v + 1 = p.ValueBegin
        BY <1>1, <2>1, <3>1, PropertyFacts DEF Fits
      <3>3. value = SubSeq(text, v + 1, w)
        BY <1>3, <3>1, <3>2
      <3> QED
        BY <1>1, <3>2, <3>3, SliceFacts
    <2>5. (LooksLikeInt(value) <=> IsInt(value)) /\ (LooksLikeFloat(value) <=> IsFloat(value))
      BY <2>4, IntGrammar, FloatGrammar
    <2>6. IsFloat(value) => ~IsInt(value)
      BY <2>4, NoFloatIsInt
    <2>7. CASE ~p.HasValue \/ IsQuoted(p)
      BY <2>3, <2>7
    <2>8. CASE p.HasValue /\ ~IsQuoted(p) /\ value \in BoolWords
      BY <2>3, <2>8 DEF InferType
    <2>9. CASE p.HasValue /\ ~IsQuoted(p) /\ value \notin BoolWords
      BY <2>3, <2>5, <2>6, <2>9 DEF InferType
    <2> QED
      BY <2>7, <2>8, <2>9
  <1> QED
    BY <1>2, <1>3 DEF TypesByGrammar

-----------------------------------------------------------------------------
(* The properties that Parse hands out for an accepted tag are slices of   *)
(* its markup in document order, quoted values end at their own quote, and *)
(* no character of the markup is dropped or read into two properties.      *)
THEOREM FieldsAlwaysSlices == Spec => []FieldsAreSlices
  <1>1. IInv /\ SliceInv => FieldsAreSlices
    BY WholeFields DEF SliceInv, FieldsAreSlices
  <1> QED
    BY InitIInv, NextIInv, InitSlices, NextSlices, <1>1, PTL DEF Spec

(* TagParser::Parse (parse_result) takes every tag that                    *)
(* InlineProperties::Parse accepts for the same one: the same name, unless *)
(* the name begins with a colon or the "/" follows it, and it ends the tag *)
(* too early only at a bracket inside a value.                             *)
THEOREM SingleTagAlwaysAgrees == Spec => []SingleTagAgrees
  <1>1. IInv /\ SliceInv => SingleTagAgrees
    BY WholeNames DEF SliceInv, SingleTagAgrees
  <1> QED
    BY InitIInv, NextIInv, InitSlices, NextSlices, <1>1, PTL DEF Spec

(* The type infer_type gives a value is the one its spelling has in the    *)
(* grammar of numbers, for values of any length; quoted values and flags   *)
(* are strings.                                                            *)
THEOREM TypesAlwaysByGrammar == Spec => []TypesByGrammar
  <1>1. IInv /\ SliceInv => TypesByGrammar
    BY ListedTypes DEF SliceInv
  <1> QED
    BY InitIInv, NextIInv, InitSlices, NextSlices, <1>1, PTL DEF Spec
=============================================================================
