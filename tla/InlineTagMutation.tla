-------------------------- MODULE InlineTagMutation --------------------------
(***************************************************************************)
(* InlineTagMutation: giving a style to a range of a text, or taking it    *)
(* away.  The range is counted in logical offsets, which leave tags out    *)
(* except for breaks and count an entity once.                             *)
(*                                                                         *)
(* A text is a sequence of the tokens of module Markup, one token for a    *)
(* tag or a comment and one for each character; "&", "#" and ";" are       *)
(* characters, and so is an entity name, which stands for all the names    *)
(* the code knows.  Whatever stands between a "<" and a ">" is a tag to    *)
(* this class: a declaration, and a "broken" token, which is one without a *)
(* valid name.  Left out are a "<" that no ">" follows, which would become *)
(* a tag when one is written behind it, and comments and declarations with *)
(* a ">" in them.                                                          *)
(*                                                                         *)
(* The class keeps no state.  The variables are those of its caller, who   *)
(* applies one style after the other to a text.                            *)
(***************************************************************************)
EXTENDS Integers, Markup

CONSTANTS
  Styles,      \* OrderedInlineTagNames
  BreakNames,  \* LogicalBreakTagNames
  EntityName,  \* a name as in "&name;"
  Sources,     \* the texts a caller starts from
  Requests     \* the calls: [name, first, last, active]

StyleNames == {Styles[i] : i \in DOMAIN Styles}

(* No name has two meanings.                                               *)
ASSUME NamesAssumption ==
  /\ Styles \in Seq(STRING)
  /\ \A i, j \in DOMAIN Styles : Styles[i] = Styles[j] => i = j
  /\ StyleNames \cap BreakNames = {}

ASSUME SourcesAssumption == Sources \subseteq Seq(Token(STRING))

ASSUME RequestsAssumption ==
  Requests \subseteq [name : STRING, first : Int, last : Int, active : BOOLEAN]

VARIABLES
  source,  \* the text the caller has
  result   \* what the last call returned, but for the text

sourceVars == <<source, result>>

TagOf(kind, name) == [k |-> kind, n |-> name, d |-> <<>>, ok |-> TRUE,
                      s |-> ""]

-----------------------------------------------------------------------------
(* Reading a text.                                                         *)

IsTag(token)    == token.k \notin {"text", "space"}
IsChar(token, c) == token.k = "text" /\ token.n = c
StyleTag(token) == token.k \in {"open", "close"} /\ token.n \in StyleNames
BreakTag(token) == token.k \in TagKinds /\ token.n \in BreakNames

(* The tokens that count as one logical unit, if a unit starts there.      *)
Visible(token) == ~IsTag(token) \/ BreakTag(token)

(* html_entity_length_at: up to the first ";", whatever is on the way if   *)
(* it starts like a number.                                                *)
EntityLength(text, i) ==
  LET ends == {j \in (i + 1)..Len(text) : IsChar(text[j], ";")}
      Numeric == IsChar(text[i + 1], "#")
      Named == Sets!Min(ends) = i + 2 /\ IsChar(text[i + 1], EntityName)
  IN  IF IsChar(text[i], "&") /\ ends # {} /\ (Numeric \/ Named)
        THEN Sets!Min(ends) - i + 1
        ELSE 0

(* The number of tokens that are read at once at position i.               *)
Width(text, i) ==
  IF EntityLength(text, i) > 0 THEN EntityLength(text, i) ELSE 1

(* The last position that has been read when position i has been.          *)
UnitEnds(text) ==
  LET end[i \in 0..Len(text)] ==
        IF i = 0 THEN 0
        ELSE LET before == end[i - 1]
             IN  IF i <= before THEN before ELSE i + Width(text, i) - 1
  IN  end

(* The positions at which the loops over a text stop.                      *)
UnitStarts(text) ==
  LET ends == UnitEnds(text) IN {i \in 1..Len(text) : ends[i - 1] < i}

(* One round of the loop of build_inline_style_state.  A closing tag too   *)
(* many is ignored, one too few styles the rest of the text.               *)
Read(state, token) ==
  IF StyleTag(token)
    THEN [state EXCEPT !.depth[token.n] =
            IF token.k = "open" THEN @ + 1 ELSE IF @ > 0 THEN @ - 1 ELSE 0]
  ELSE IF Visible(token)
    THEN [state EXCEPT !.coverage =
            Append(@, {s \in StyleNames : state.depth[s] > 0})]
    ELSE state

(* What it knows of the first i tokens, for every i.                       *)
ReadUpTo(text) ==
  LET starts == UnitStarts(text)
      read[i \in 0..Len(text)] ==
        IF i = 0 THEN [depth |-> [s \in StyleNames |-> 0], coverage |-> <<>>]
        ELSE IF i \in starts THEN Read(read[i - 1], text[i]) ELSE read[i - 1]
  IN  read

(* The styles of each logical unit.                                        *)
Coverage(text) == ReadUpTo(text)[Len(text)].coverage

LogicalLength(text) == Len(Coverage(text))

-----------------------------------------------------------------------------
(* Writing it anew.                                                        *)

Clamp(n, low, high) == IF n < low THEN low ELSE IF n > high THEN high ELSE n

(* apply_coverage_range, with the bounds ApplyLogicalStyleRange gives it.  *)
Restyled(coverage, request) ==
  LET first == Clamp(request.first, 0, Len(coverage))
      last  == Clamp(request.last, first, Len(coverage))
  IN  [p \in 1..Len(coverage) |->
         IF p <= first \/ p > last THEN coverage[p]
         ELSE IF request.active    THEN coverage[p] \cup {request.name}
                                   ELSE coverage[p] \ {request.name}]

InOrder(styles) ==
  LET kept == {i \in DOMAIN Styles : Styles[i] \in styles}
  IN  [p \in 1..Cardinality(kept) |-> Styles[Nth(p, kept)]]

TagsOf(kind, names) == [i \in 1..Len(names) |-> TagOf(kind, names[i])]

Backwards(names) == [i \in 1..Len(names) |-> names[Len(names) + 1 - i]]

SynchronizedInPlace(out, styles) ==
  LET missing == InOrder(styles \ {out.emitted[i] : i \in DOMAIN out.emitted})
  IN  [out EXCEPT !.text = @ \o TagsOf("open", missing),
                  !.emitted = InOrder(styles)]

(* How many names two lists begin with in common.                          *)
Common(names, others) ==
  Sets!Max({n \in 0..Len(names) :
              n <= Len(others) /\ \A i \in 1..n : names[i] = others[i]})

(* synchronize_output_inline_style_state: styles that are not wanted any   *)
(* more are closed, with those opened after them; those missing are opened.*)
Synchronized(out, styles) ==
  LET wanted == InOrder(styles)
      common == Common(out.emitted, wanted)
      Rest(names) == SubSeq(names, common + 1, Len(names))
  IN  [out EXCEPT !.text = @ \o TagsOf("close", Backwards(Rest(out.emitted)))
                             \o TagsOf("open", Rest(wanted)),
                  !.emitted = wanted]

StylesAt(coverage, offset) ==
  IF offset < Len(coverage) THEN coverage[offset + 1] ELSE {}

(* One round of the loop that rebuilds the text.                           *)
WrittenCharOnly(out, coverage, text, i) ==
  IF StyleTag(text[i]) THEN out
  ELSE [Synchronized(out, StylesAt(coverage, out.offset)) EXCEPT
          !.text = Append(@, text[i]),
          !.offset = IF Visible(text[i]) THEN @ + 1 ELSE @]

WrittenWithClosings(out, coverage, text, i) ==
  IF StyleTag(text[i]) /\ text[i].k = "open" THEN out
  ELSE [Synchronized(out, StylesAt(coverage, out.offset)) EXCEPT
          !.text = @ \o SubSeq(text, i, i + Width(text, i) - 1),
          !.offset = IF Visible(text[i]) THEN @ + 1 ELSE @]

Written(out, coverage, text, i) ==
  IF StyleTag(text[i]) THEN out
  ELSE [Synchronized(out, StylesAt(coverage, out.offset)) EXCEPT
          !.text = @ \o SubSeq(text, i, i + Width(text, i) - 1),
          !.offset = IF Visible(text[i]) THEN @ + 1 ELSE @]

(* The output after the first i tokens, for every i.                       *)
WrittenUpTo(text, coverage) ==
  LET starts == UnitStarts(text)
      out[i \in 0..Len(text)] ==
        IF i = 0 THEN [text |-> <<>>, emitted |-> <<>>, offset |-> 0]
        ELSE IF i \in starts THEN Written(out[i - 1], coverage, text, i)
                             ELSE out[i - 1]
  IN  out

RebuiltUnclosed(text, coverage) == WrittenUpTo(text, coverage)[Len(text)].text

(* rebuild_source_text_with_inline_style_coverage                          *)
Rebuilt(text, coverage) ==
  Synchronized(WrittenUpTo(text, coverage)[Len(text)], {}).text

Rewritten(text, request) == Rebuilt(text, Restyled(Coverage(text), request))

CanParseFragment(text) ==
  Parses(<<TagOf("open", "root")>> \o text \o <<TagOf("close", "root")>>)

-----------------------------------------------------------------------------
(* The two conversions of offsets.                                         *)

LogicalOffsetBefore(text, boundary) ==
  LET count[i \in 0..boundary] ==
        IF i = 0 THEN [end |-> 0, units |-> 0]
        ELSE LET before == count[i - 1]
                 last   == i + Width(text, i) - 1
             IN  IF i <= before.end THEN before
                 ELSE [end   |-> IF last < boundary THEN last ELSE i,
                       units |-> before.units + (IF Visible(text[i]) THEN 1 ELSE 0)]
  IN  count[boundary].units

(* LogicalOffsetForSourceBoundary: an entity the boundary cuts is counted  *)
(* by characters.                                                          *)
LogicalOffset(text, boundary) ==
  LET count[i \in 0..boundary] ==
        IF i = 0 THEN [end |-> 0, units |-> 0]
        ELSE LET before == count[i - 1]
                 last   == i + Width(text, i) - 1
             IN  IF i <= before.end THEN before
                 ELSE [end   |-> IF last <= boundary THEN last ELSE i,
                       units |-> before.units + (IF Visible(text[i]) THEN 1 ELSE 0)]
  IN  count[boundary].units

(* The same for a boundary so many characters inside of the tag behind it: *)
(* what it cuts off is no tag, and each of its characters counts.          *)
LogicalOffsetInside(text, boundary, inside) == LogicalOffset(text, boundary) + inside

(* SourceBoundaryForLogicalOffset: in front of the unit or the tag that    *)
(* has this many units before it, behind the style tags there.             *)
SourceBoundary(text, offset) ==
  LET starts == UnitStarts(text)
      Before(i) == Cardinality({j \in starts : j < i /\ Visible(text[j])})
      there == {i \in starts : /\ ~StyleTag(text[i])
                               /\ Before(i) = IF offset < 0 THEN 0 ELSE offset}
  IN  IF there = {} THEN Len(text) ELSE Sets!Min(there) - 1

-----------------------------------------------------------------------------
Result(applied, valid, length, reason) ==
  [Applied |-> applied, Valid |-> valid, LogicalLength |-> length,
   ErrorReason |-> reason]

InitSource == source \in Sources /\ result = Result(FALSE, FALSE, 0, "")

RefuseTag(request) ==
  /\ request.name \notin StyleNames
  /\ result' = Result(FALSE, FALSE, 0, "unsupported-inline-tag")
  /\ UNCHANGED source

(* ApplyLogicalStyleRange; the caller takes the text whether it is valid   *)
(* or not.                                                                 *)
Apply(request) ==
  /\ request.name \in StyleNames
  /\ source' = Rewritten(source, request)
  /\ result' = LET valid == CanParseFragment(source')
               IN  Result(source' # source, valid, LogicalLength(source),
                          IF valid THEN "" ELSE "fragment-parse-failed")

NextSource == \E request \in Requests : RefuseTag(request) \/ Apply(request)

SpecSource == InitSource /\ [][NextSource]_sourceVars

-----------------------------------------------------------------------------
Supported == {r \in Requests : r.name \in StyleNames}

(* What is left of a text without its style tags, for each of its first    *)
(* i tokens.                                                               *)
OtherUpTo(text) ==
  LET other[i \in 0..Len(text)] ==
        IF i = 0 THEN <<>>
        ELSE IF StyleTag(text[i]) THEN other[i - 1] ELSE Append(other[i - 1], text[i])
  IN  other

OtherTokens(text) == OtherUpTo(text)[Len(text)]

(* Each "&" starts an entity without tags in it.  Other texts are not XML; *)
(* when a style tag behind an "&" moves, more may be read as an entity.    *)
Clean(text) ==
  \A i \in DOMAIN text : IsChar(text[i], "&") =>
    /\ EntityLength(text, i) > 0
    /\ \A j \in (i + 1)..(i + EntityLength(text, i) - 1) :
         text[j].k = "text" /\ ~IsChar(text[j], "&")

(* ApplyLogicalStyleRange drops, adds and reorders nothing but style tags. *)
OnlyStyleTagsChange ==
  \A r \in Supported :
    OtherTokens(Rewritten(source, r)) = OtherTokens(source)

(* The text it writes, read again, has the style in the range or has it    *)
(* not, as asked for, and every other style everywhere as before: opening  *)
(* and closing tags of styles that cross the ends of the range move none.  *)
(* docs/inline_tag_mutation.md:9 says so of existing style tags; its       *)
(* example loses one, which the code does not (MCInlineTagMutation).       *)
RangeRestyled ==
  Clean(source) => \A r \in Supported :
    LET before == Coverage(source)
        after  == Coverage(Rewritten(source, r))
    IN  /\ Len(after) = Len(before)
        /\ \A p \in DOMAIN before : \A s \in StyleNames :
             s \in after[p] <=>
               IF s = r.name /\ r.first < p /\ p <= r.last
                 THEN r.active ELSE s \in before[p]

(* The style tags of the new text are balanced, even where those of the    *)
(* old one were not: the fragment parses if its other tags are balanced.   *)
StyleTagsBalance ==
  Clean(source) /\ CanParseFragment(OtherTokens(source)) =>
    \A r \in Supported : CanParseFragment(Rewritten(source, r))

(* The new text is in a normal form: the same call again changes nothing,  *)
(* so no pairs of tags pile up around a text that is edited again and      *)
(* again.                                                                  *)
SettlesAtOnce ==
  Clean(source) => \A r \in Supported :
    Rewritten(Rewritten(source, r), r) = Rewritten(source, r)

(* A logical offset that was turned into a source boundary is found again. *)
OffsetsRoundTrip ==
  \A n \in 0..LogicalLength(source) :
    LogicalOffset(source, SourceBoundary(source, n)) = n
=============================================================================
