# TLA+ specifications of iiXml

iiXml is a C++ library that finds the tags of an XML or HTML text and edits
such texts by blocks. This directory specifies its core in TLA+, model-checks
the specifications with TLC, and proves theorems about them with TLAPS.

Paths below are relative to the repository. `src/Elements/OpenTag.cpp` is the
class as the Qt library builds it; `Native/src/Markup` has a copy without Qt.

## 1. The system

### Components

| Component | State it keeps | Operations | What makes it correct |
|---|---|---|---|
| `OpenTag` (`src/Elements`) | none between calls; inside `ParseOpenTags` a list of open tags, an index of iterators by name, the ranges found | `ParseOpenTags`, `CloseOpenTag` | list and index agree; a closing tag closes the most recent tag of its name; ranges come back in document order |
| `TagParser` (`src/Parser`) | none between calls; inside `build_hierarchy` the nodes, the roots, a stack | `Parse…`, `ParseAll…` | every tag gets its innermost container as parent, also when tags cross |
| `InputValidator` (`src/Input`) | none | `ValidateResult`, `HasValidTagClosure` | accepts what the parser accepts |
| `GetTagInfo`, `DivideBlock` (`src/Html`) | the tags of the last text, as a tree and as lists | `Parse` | lists are in document order; offsets fit the text |
| `BlockRangeTracker` | text, tracked blocks, next id, error | `Parse`, `Update`, `SetBlocks`, queries | ids are distinct and stable, ranges cover the text of their block, a failed update changes nothing |
| `DeleteBlock` | prefix, body, blocks, deleted blocks, error | `Parse`, `Delete`, `ClearDeletedBlocks` | document, block list and log of deletions fit each other; a failed deletion is undone |
| `CombineBlock` | blocks, selection, groups, error | `SetBlocks`, `Select…`, `Deselect`, `CombineSelected`, `Clear…` | selection and groups refer to the present blocks, whatever slots do |
| `FlattenBlock` | blocks, one layer, error | `Parse`, `SetBlocks`, `LayerAll` | the layer is made of the present blocks |
| `BlockHTMLSerializer` | text, error | `SerializeBlocks`, `SerializeCombinedBlocks`, `SerializeMergedBlocks` | every block is written once, in document order |
| `InlineTagMutation` (`src/Mutation`) | none | `ApplyLogicalStyleRange`, two offset conversions, `CanParseFragment` | only the styles of the range change; the conversions are inverse |
| `Reader`, `Writer` (`Native/src/Xml.cpp`) | reader: position, failure, end; writer: output, stack, flags | `open`, `next`; `doctype`, `start`, `text`, `end`, `finish` | end and errors are final; what is finished is one well-formed element |
| `InlineProperties` (`src/Elements`) | none between calls; position, quote and the property being read inside `Parse` | `Parse` | it sees the same tag as the two other readers of an opening tag; names and values are slices of it |
| `Doctype`, `ClosedTag` (`src/Elements`) | none | `MatchTopResult`, the slots `MatchTopInput`, `ParseClosedTag` | what is matched at the start of a text; one answer per call |
| `GetFile`, `GetStringToken` (`src/Input`), `FileParser` (`src/Parser`) | none | the slots `ReadFile`, `ReadXml`, `ReadString`, `ParseFileInput` | what they hand out is the root of the text; one answer per call, whatever throws |
| `GetHTML`, `iiXmlToHTML` (`src/Html`) | the last HTML or the last error | `ParseXml`, `ConvertXml` | the HTML shows every tag of the tree and every text |
| `XmlLog` (`src/Logging`) | none | logging | not modelled |

### Interaction

`TagParser` calls `OpenTag` for the ranges and turns them into a tree.
`GetTagInfo` cuts leading blanks and declarations off a text, calls
`TagParser`, and reads the tree back as a list. `DivideBlock` picks the blocks
out of that list. `BlockRangeTracker`, `DeleteBlock` and `FlattenBlock` divide
a text anew whenever it changes. Block lists are handed by value to
`CombineBlock`, and its groups to `BlockHTMLSerializer`. The Qt classes tell
observers about changes by signals, which are direct calls into slots.

The classes that take the root of a text ask in turn `Doctype` for a leading
declaration, `InputValidator` for the balance of what follows it, cut the
declarations off and give the rest to `TagParser`, which looks at its first
and its last tag only. `GetHTML` has `TagParser` read all tags and walks over
the tree. `Writer::finish` opens a `Reader` on its own output and hands the
output out only if that reads to its end.

### What is hard

The library starts no threads. What is hard to test are: tags that cross,
which are legal here; data structures that index into each other; offsets that
are relative to different beginnings; edits of several members that have to be
undone together; exceptions between two steps; ids handed out over a long
series of updates; slots that call an object in the middle of one of its
calls; several hand-written readers of the same text that have to agree; and
limits that the writer and the reader of a document count differently.
`PROJECT.json` lists each such hazard at the line where it bites.

## 2. The modules

| Module | Models | State and actions |
|---|---|---|
| `Positions` | sets of positions, counted off in their order | constant module |
| `PositionsProofs` | lemmas about them, about slices and joints of texts, the least of a set of numbers, and loops | |
| `Markup` | documents as sequences of tokens; what the parsing stack computes for them, declaratively | constant module |
| `OpenTag` | `OpenTag::ParseOpenTags` | one action per branch of the loop: `Pass`, `Reject`, `Close`, `SelfClose`, `Open`, and `Finish` after it |
| `InputValidator` | `HasValidTagClosure` | the same with a vector of names; `OpenTag` instantiates it and is proved to implement it, step by step |
| `TagHierarchy` | `build_hierarchy`, `AppendRanges` | `AddNode` per range, `FieldsRejected`, `Materialize` |
| `StableIds` | what ids promise | abstract: `live` (ids in use and their content), `spent` |
| `BlockRangeTracker` | the class of that name | the calls, and `Preserve`, `Assign`, `Throw`, `Commit` for the loop; shown to implement `StableIds` |
| `DeleteBlock` | the class of that name | one action per call |
| `BlockGroups` | `BuildCombinedBlock`, and how ranges lie to each other | constant module |
| `CombineBlock` | the class of that name | one action per call; `Continue` and `Return` for the signals a call still has to emit |
| `BlockHTMLSerializer` | the class of that name | one action per call |
| `BlockGroupsProofs` | theorems about `CombineBlock` and `BlockHTMLSerializer` | |
| `FlattenBlock` | the class of that name | one action per call; `EmitSignal`, `ParseLayers`, `ParseThrows` and `Return` for what a call still has to do while slots call the object |
| `FlattenBlockProofs` | theorems about it | |
| `InlineTagMutation` | the class of that name | the text a caller has and the last result; `Apply`, `RefuseTag`; operators for the conversions of offsets |
| `EditingProofs` | theorems about `DeleteBlock` and `InlineTagMutation` | |
| `OpeningMarkup` | `find_markup_end`, `is_self_closing_markup`, `InlineProperties::Parse`, and where `parse_result` ends an opening tag | one character per step, one action per phase of the attribute parser |
| `OpeningMarkupProofs` | theorems about it | |
| `TagParser` | `ParseAll` | composes `OpenTag` and, through INSTANCE, `TagHierarchy`; `BuildHierarchy` hands the ranges over |
| `GetHTML` | `GetHTML::ParseXml`, `iiXmlToHTML::ConvertXml` | extends `TagParser`: clearing, the parse below, rendering, exceptions, the answer |
| `GetFile` | the slots of `GetFile`, `GetStringToken`, `FileParser`, `TagParser`, `InputValidator`, `Doctype` and `ClosedTag` | `Fetch`, `Match`, `Validate`, `Strip`, `Parse`, `Scan` for the stages, `Emit`, `ConversionThrows`, `Return` for the signals; a slot begins at its own stage |
| `Reading` | a text read by a slot and rendered | composes `GetFile` and `GetHTML`, which share the text and no state |
| `ReadingProofs` | theorems about the scanner, the tree, the slots, and the readers together | |
| `RenderingProofs` | the theorem about the HTML of a text | |
| `XmlReader` | `ii::xml::Reader` | the document and its limits, position in the external node list, outcome; `Open`, and `NextNode`, `NextEnd`, `NextMalformed`, `NextAgain` for `next` |
| `XmlWriter` | `ii::xml::Writer` | extends `XmlReader`; output, open elements, flags; one action per operation; `finish` reads back |
| `CallsProofs` | theorems about objects that answer each call from what earlier calls left: `BlockRangeTracker`, and `XmlWriter` with `XmlReader` | |
| `MCGroups` | a program that hands the groups of a `CombineBlock` to a `BlockHTMLSerializer` | composes the two |
| other `MC…` | instances for TLC | |

### How texts are abstracted

A text is a sequence of tokens (see `Markup`): tags, text, blanks, comments,
declarations, and broken markup. All tokens have the same width, so an offset
of the code is a number of tokens; a range that starts or ends inside of a
token is never produced by the code that is modelled. What tokens are made of
is decided in the model where the code decides from it: the tag name, whether
the attributes of a tag can be read, and the display values they declare.
Blanks are tokens of their own because `GetTagInfo` and `DeleteBlock` treat
leading blanks in different ways, which matters.

`<!Doctype …>`, the only spelling the scanner skips, counts as a comment;
`<!DOCTYPE …>` is cut off at the start of a text and refused elsewhere.

The readers of `GetFile` distinguish spellings that the scanner does not. The
field `s` of a token names the one that matters: a byte order mark, an empty
`<?xml?>`, a `>` in a quoted value, a name that begins with a colon, a blank
behind a name, something else behind the name of a closing tag.

Where characters decide, in `OpeningMarkup`, the text is a sequence of classes
of characters, and attribute names and values are positions in it. A document
of the native package is a sequence of items (declaration, start, empty
element, end, text, …) with the sizes that its limits count. The names that
libxml2 gives to texts, CDATA sections and comments (`#text`, …) count, too
(`NodeNameSize`): `next` holds the name of every node against `text_bytes`. A
name has a prefix, and an attribute `xmlns:p` declares `p` for its element and
all inside (`Namespace`), so the model has the refusals that come of
namespaces: a prefix that nothing around it declares, a declaration of an empty
or forbidden URI, and two prefixes of one URI that make two attributes one.

`Markup` states the results of scanner and tree builder declaratively. The run
`reading` shows that the algorithms compute them, and the modules of the block
editors use the declarative form. `BlockRangeTracker` knows even less: what is
made of a text is a constant function with two assumptions, which
`MCBlockRangeTracker` has TLC check for the definitions of `Markup`.

## 3. The runs

| Run | Question | Bounds |
|---|---|---|
| `reading` | Does the scanner find the right tags with consistent data structures, does the validator agree with it, is the tree right when tags cross, does the HTML show the whole tree, do the slots take the root of a text and answer once, and does it all end? | texts of up to 4 tokens over two names, and of up to 6 that are made of tags only; balanced ones of 6 tags over three names, some with refused attributes or text; declared, spelled and broken texts for each slot, with exceptions at every stage |
| `get_file_value` | Is the value of a root tag its inner text? (violated) | the same |
| `opening_markup` | Do the readers of an opening tag agree on where it ends and whether it closes itself, and are fields and types right? | every markup of up to 7 characters over 12 classes |
| `native_xml` | What does `finish` refuse and why, does a document that is handed out read back, do the events of a reader tell the document, and are end and error final? | all series of calls that write up to six items under tight limits, with names in two namespaces; 21 other documents under three limits |
| `tracker` | Are ids distinct and stable, and do ranges fit the text, after any series of calls, failures and exceptions? | eight texts with equal, nested, moved and missing blocks; ids up to `MaxId` |
| `delete_block` | Do document, block list and log fit each other after any series of deletions? | thirteen texts; deletions until nothing is left |
| `delete_listed` | Does a deletion take out the block that was listed? (violated) | the same |
| `groups` | Do selection and groups refer to the present blocks, whatever slots do, and is every part outside of groups written once and in order? | selecting from three block lists, two groups, slots that call from within slots, and writing what came of it; all lists of up to three ranges in documents of 5 tokens, one or two groups of them, and foreign groups |
| `serializer_loses` | Is every block written? (violated) | the same lists in documents of 4 tokens |
| `flatten_block` | Do layer, blocks and error fit each other, and does a `Parse` that slots leave alone deliver what it announced? | four texts, three block lists, slots that call from within calls |
| `inline_tags` | Is the rewritten text styled as asked for, with all else kept, after any series of calls? | all texts of up to three of seven tokens, and 15 longer ones with nested, crossing, repeated and unclosed styles, breaks, entities, declarations and broken tags; 25 calls on each, ranges that have to be clamped among them |
| `inline_example` | Does the documentation's example come out as it says? (violated) | that example |

`CHECK_DEADLOCK FALSE` is set where a model describes one reading that ends:
`reading`, `get_file_value` and `opening_markup`, and in `native_xml`, where
the writer stops at `MaxItems`. All other models can always take another call.

### Why the bounds are enough

Tags interact by name and by crossing. Two names and four tokens contain each
way two tags can lie to each other (apart, nested, crossing, equal names
nested) together with a token that interrupts them; three tags, which are six
tokens, are needed for a stale node under a crossing one in `build_hierarchy`.
The slots look at the beginning of a text, at its first and last tag, and at
the balance of what is between: `MCReading` puts together eleven beginnings,
six first tags, five contents and seven endings. An object that renders starts
new, with the HTML of an earlier call, or with its error.

An opening tag of seven characters has room for a name, an attribute with an
equals sign and a quoted value, and a slash, or for a signed number with a
point and an exponent. Each limit of the native package is so low that the calls reach it
exactly and exceed it: two levels, eight bytes of text or name, three
attributes, five events, 96 bytes of output against 90 of input. Other
documents are read with 14, 8 and 4 bytes of text: the first admits the name of
a CDATA section, the last not even that of a text. A writer with so small a
limit is left to the theorem `RefusalAlwaysExplained`.

A stolen id needs two equal blocks and two updates. A group, the block it
hides or repeats, and one more block are three. A signal loop needs one call
within another. Two styles are enough for each way two style tags can cross,
and for a style to be closed and reopened because of another.

### Fairness

`ReadSpec` states weak fairness of its next-state relation: a function that
has been called runs on in the calling thread, and nothing in these functions
waits. `Termination` needs it: a text is scanned to its end or rejected. All
other properties are safety properties; a library has no say in when it is
called.

### Disagreements found

* `DeletesListedBlock`: `body_` is erased at offsets that do not count leading
  blanks and declarations. They are cut off in `Parse`, but a deletion can
  bring others to the front. The next deletion then takes out other text.
  `DeletesListedBlockAtStart` shows that this is the only way.
* `EveryBlockWritten`: a group of blocks A and C hides a block B between
  them: the group's range covers it, its text does not contain it.
* `RootValueKept`: `docs/get_file.md` says that the value of the root tag is
  its inner text as it is in the source. `TagParser::Parse` ends the root's
  opening tag at the first `>`, although the validator before it skips those
  in quoted values, and the value begins with the rest of the attribute.
  `ParsedIsRoot` shows that other roots keep their value, `SingleTagAgrees`
  that only a value of an attribute can end a tag early.
* `DocumentedExample`: `docs/inline_tag_mutation.md` shows italic being given to
  a part of `<bold>Alpha Beta</bold>`, and a result in which ` Beta` is not bold
  any more. The class keeps bold: `<bold>Al<italic>pha Beta</italic></bold>`.
  The same result stands in `Test/inline_tag_mutation_test.cpp`, for the source
  `<bold>Alpha</bold> Beta`, to which it belongs; the offset 17 of the example,
  which is inside of `</bold>`, is from there, too. The document's own account
  (line 9) is that existing style tags are preserved while the new style is
  applied. `RangeRestyled` states that account, so the disagreement is one of
  the example with the rest of the document, its test and the code.

## 4. The theorems

Every theorem holds for all values of the constants that satisfy the named
assumptions, and none of them bounds the length of a text, the number of calls
or the depth of slots that call back.

### The scanner: `ReadingProofs`, first part

For every text (`Documents`) and every set of names:

* `IndexAlwaysMatches`: `Spec => []IndexMatchesList`
* `AlwaysClosesMostRecent`: `Spec => ClosesMostRecent`, an action property
* `ParsedIsAlwaysDeclared`: `Spec => []ParsedIsDeclared`
* `ScannerValidates`: `Spec => Validator!Steps`, the refinement of
  `InputValidator` without its fairness

`IndexMatchesList` and the types are inductive together. The step that needs
care is `Close`: the top of a name's stack identifies one entry of the list
(`TopOfStack`), and erasing it disturbs no other stack because sequence numbers
are distinct. The second theorem follows from the same invariant: the top of a
stack has the greatest number of its name.

The third relates an algorithm with a list, an index and a sort at its end to
`Markup`, which counts tags. It needs `ResultInv`: as long as the scan runs,
what has been scanned closes no tag that is not open (`PrefixBalances`); the
stack of a name is as long as its tags are deep, and its k-th entry is the tag
since which the depth has not fallen below k (`StackMeasuresDepth`), which
identifies the closing tag that the declarative definition finds; entries and
ranges are tags of the text, numbered by the tags before them (`OpenedTag`,
`RangesDeclared`); and each number belongs to one entry or one range
(`NumbersAreUsedOnce`), so that sorting by number gives the order of the text
(`SortedRanges`).

The fourth compares two programs that were written apart. The validator's
vector is the list of open tags, read off in the order of its sequence numbers
(`OpenNamesFacts`). An opening tag gets the greatest number, so its name comes
last (`OpenAppendsName`, by `AscendingAppend`). A closing tag takes the entry on
top of its name's stack, and the names after it may be any others: that entry
is the last of its name in the vector, and without it the others keep their
order (`CloseErasesName`, by `AscendingWithout`). `SameMatches` says that the
stack is empty exactly when the vector has no such name, so both refuse the
same closing tags. Since the verdict is that of the parser for texts with a
tag, the validator accepts no text the parser refuses.

### The readers of a text: `ReadingProofs`, second part

For every text, slot, object that renders, and place an exception is thrown at:

* `ReadersScan`: `ReadSpec => Spec`, where `Spec` is the scanner's
* `RenderedIsDeclared`: `ReadSpec => []ParsedIsDeclared`, a corollary of it
* `TreeAlwaysOfTags`: `ReadSpec => []TreeOfTags`
* `AlwaysOneConclusion`: `ReadSpec => []OneConclusion`
* `ParsedIsAlwaysRoot`: `ReadSpec => []ParsedIsRoot`

`ReadingsAssumption` says that the texts are documents and `WellSpelled`: a tag
has a name, which `read_tag_name` never returns empty, and a byte order mark
counts as text.

`TreeOfTags` has two parts. That a node hangs below the latest tag that
contains it rests on `TreeInv`. `Placed` says that ranges are not empty and
come in the order they begin in, which is `RenderedIsDeclared` handed over at
`BuildHierarchy`. `Hung` says that the nodes there are hang as stated, in
ascending order. `Stacked` says that a node that is not on the stack any more
ended before the last node begins. So what lazy popping takes away can contain
nothing that is still to come (`PoppingKeepsSires`), and what it leaves below a
running node does no harm, since the search from the back takes the latest
that contains the range.

That the preorder is the document order is a statement about a recursive
function over a tree, where tags may cross. The containers of a node are an
`Ancestry`: of two tags that begin before a third one, if the first contains
the third, the second contains it too or lies in the first. It follows that
what is below a node is a run of consecutive numbers (`EndsExist`), and that
the runs of its children follow one another without a gap (`PartsFollow`). The
function that gives each node its run therefore solves the recursive equation
of `Preorder` (`PartsFlatten`), and no other function does: the greatest node
at which two solutions differ would have no child at which they differ.

`OneConclusion` speaks of the signals emitted at the end of a call; `SlotInv`
speaks of those emitted and those due together, which are one complete answer
from the moment it is due. Until something throws they are the slot's answer
to its result (`Undisturbed`), in which the conclusion comes last. So where the
conversion of a signal throws, those already out are announcements only, and
the answer of the handler makes the whole complete again.

`ParsedIsRoot` compares three readers of the beginning of a text: `Doctype`,
the validator, and the parser. `RootInv` says of each stage what is left of the
text: all of it before the declarations are cut off, the text behind some of
them while they are (`Cut`), and behind all of them afterwards, unless
something threw, and then what is left has no first tag the parser accepts.
That the parser finds the root of a balanced text uses `OpenCloses`.

### The rendering: `RenderingProofs`

* `HtmlAlwaysShowsTree`: `ReadSpec => []HtmlShowsTree`, for every text and every
  object that renders it, new or used before

`RenderNode` is a recursive function over a tree of ranges that may cross. Its
equation has a solution (`RenderExists`), since children have greater numbers
than their parent, and the function is one (`RenderNodeIs`). That the HTML of a
node is `Good` is shown from the last node backwards (`RenderGood`): the HTML in
front of a child grows by the text up to the child and by the child's HTML
(`PartialGrows`). Here the run of numbers below each node, which `TreeOfTags`
rests on, says which tags a node's HTML has: exactly those of its run. So
joining the HTML of two children joins two disjoint runs (`NestJoin`), and a
node's tags enclose a run behind its own number (`NestWrap`).

That no text is lost needs no more than that each gap between children is
escaped and that a child's text is in the child: what lies in a tag and in no
gap lies in a child (`Covers`). That no text is repeated and none is misplaced
is claimed for texts without crossing tags only. Then a gap has no tags in it
(`GapIsText`), since each tag belongs to a node, and each node inside of another
one is in a node right below it (`ChildOf`).

That each tag belongs to a node (`TagsMark`) is more than `ParsedIsDeclared`
says, which is about tags that begin a range: a closing tag, too, ends one. The
scanner keeps this as `ClosersKnown`, the closing tags it has passed were each
paired with a tag. `HtmlInv` adds what the scanner and the tree have come to
(`TextInv`, `TreeOfText`) and what a call has to answer with (`AnswerInv`). A
text is refused only if it does not parse (`RejectedNotParsed`), and one that
parses has a root (`ParsedHasRoot`), so the error "returned no tag" is given
for texts that do not parse only.

### Deleting blocks: `EditingProofs`, first part

For all texts and any series of calls:

* `BlocksAlwaysFitDocument`: `Spec => []BlocksFitDocument`
* `LogAlwaysReplays`: `Spec => []LogReplays`
* `AlwaysDeletesListedBlock`: `Spec => DeletesListedBlockAtStart`, an action
  property

`IInv` says that the blocks are those of the body or there are none, that the
document is its prefix and its body, that the prefix consists of leading
tokens (`PrefixLeads`), so that dividing document or body cuts the same, and
that some history leads from the body the log began with to the present one
(`HistoryEndsInBody`). A history is a function with the recursive equation of
`Replayed`, of which there is only one, so the replayed log is that history.
The rollback of a failed deletion rests on `PutBackErased`: inserting the raw
text at the offset it was erased from restores the body, which needs that the
blocks of `Markup` lie within their text (`BlockFacts`) with the raw text that
their range names.

### Styling ranges: `EditingProofs`, second part

For all lists of styles and breaks, all texts a caller starts from and all
ranges, in any series of calls (`SpecSource`):

* `SourceIsText`: `SpecSource => []SourceTyped`, the type of the text
* `OnlyStyleTagsEverChange`: `SpecSource => []OnlyStyleTagsChange`
* `RangeAlwaysRestyled`: `SpecSource => []RangeRestyled`
* `StyleTagsAlwaysBalance`: `SpecSource => []StyleTagsBalance`
* `AlwaysSettlesAtOnce`: `SpecSource => []SettlesAtOnce`
* `OffsetsAlwaysRoundTrip`: `SpecSource => []OffsetsRoundTrip`

`NamesAssumption` says that no style is listed twice and none is a break; the
other two assumptions are the types of texts and calls.

A rewritten text is read again by the loop that has read the old one, so the
invariant is one of the loop that writes, over the units of a text. `Carries`
says of the output so far that read again it has as many units as were copied,
each with the styles asked for; that at its end it is inside of the styles the
loop keeps as emitted, each once; and that its style tags nest. `CarriesUnit` is
one unit copied, `CarriesTag` one tag written, and `CarriesCloses` and
`CarriesOpens` go through the tags of a synchronization, which closes from the
back of the list to what both lists have in common. `RewrittenCarries` follows,
and with it `RangeRestyled`.

What makes this possible is that units of the output are the units of the
text: a unit that is written behind others is read as the same unit (`Behind`,
`ReadUnit`), and those in front of it are read as if nothing followed
(`InFront`). The latter is where `Clean` is needed, since an `&` without its
entity may get one from what follows; `CleanConcat` and `CleanUnit` say that
the output is clean when the text is.

`StyleTagsBalance` combines the nesting of the style tags with what is left of
a text without them, which is the same before and after: other names are as
deep at each point of the text as at some point of the rest (`OtherNests`),
and a fragment parses when every name nests, but for the root's own pair of
tags, between which a text may close and open the root (`WrappedNests`,
`WrappedParses`). `SettlesAtOnce` is an induction over the output in which
writing the output again reproduces it (`WrittenAgain`): the style tags are
skipped (`WrittenSkipsSync`) and written again by the units behind them.

`OnlyStyleTagsChange` and `OffsetsRoundTrip` hold of texts that are not clean,
too. The two conversions of offsets step over the same units up to a boundary
that cuts no unit (`WholeUnits`), and `SourceBoundary` returns none that does;
there is a boundary for each number of units since they are counted one by one
(`UnitExists`).

### Ids of blocks: `CallsProofs`, first part

For all texts, block lists and bounds:

* `TypeCorrect`: `Spec => []TypeOK`
* `IdsStayDistinct`: `Spec => []IdsDistinct`
* `RangesFitText`: `Spec => []RangesCoverText`
* `BlocksFitText`: `Spec => []AllBlocksTracked`
* `IdsStayStable`: `Spec => IdsAreStable`, the refinement of `StableIds`

They assume what the named assumptions of `BlockRangeTracker` say about its
constants: offsets are numbers, texts are divided into blocks whose raw text
is the slice their range names (`SliceAssumption`), and the value of a block
depends on its raw text alone.

None of the invariants is inductive: in the middle of `BuildTrackedBlocks` the
result is a local vector. `IInv` adds what holds of that vector. Its ids are
distinct; each is either one that an old block has, at a position noted in
`used`, or one handed out since the call began (`NewIds`), so that an old id
is neither taken twice nor met again as a new one. Its blocks are the first
ones of the list that is being processed, at their absolute offsets
(`NewBlocks`), and the running call was given a text and the blocks of that
same text (`Follows`). The proof has a lemma for entering the loop, one for an
iteration's ids and one for its blocks, and `NextIInv` combines them.

The refinement promises more: as many blocks keep their id as can. `MatchInv`
adds `Matched`, that an old id goes to a block of the same content and that a
block with a new id has no unused old block of its content. At the commit, for
each content either all old blocks are used or all new ones have an old id, so
the number kept is the smaller of the two counts (`CommitRevises`). All other
steps leave the ids in use alone (`StepAbstract`).

### `BlockGroupsProofs`

For all block lists and for every value of the bounds on groups and on the
depth of calls:

* `SelectionAlwaysOfBlocks`: `Spec => []SelectionOfBlocks`
* `GroupsAlwaysOfBlocks`: `Spec => []GroupsOfBlocks`
* `ObserverAlwaysKnowsCounts`: `Spec => []ObserverKnowsCounts`

`BlockListsAssumption` says that `SetBlocks` is given blocks of one document
(`OfDocument`), in its order and with the raw text of their range.
`ParsedIsAlwaysDeclared` and `BlockFacts` are why `DivideBlock` delivers such
lists.

The first two rest on `ListInv`: what is selected are positions of the present
blocks in ascending order, and every group was made of such a selection.
Sorting and deduplicating come down to there being one ascending sequence of a
set's elements (`OnlyOrder`). `GroupsOfBlocks` follows by what `Group` computes: a
group's range begins with its first block (`GroupBegin`) and ends with the
block that ends last (`GroupEnd`), and blocks that do not overlap make up the
text the group gets (`ApartText`).

The third speaks of the moment the outermost call is over. `IInv` says what
holds while calls are nested: a number the observer does not know is owed to
it by a call on the stack (`Known`), and a signal that says 0 is owed by the
innermost call alone, while the number is 0 (`ZeroIsTrue`). The latter holds
because every call but `SetBlocks` sends its 0 before any slot can call back
(`ZeroBeforeSlots`), which is also why the property excepts the calls made
while `SetBlocks` runs.

For all lists of blocks and groups that are passed to the serializer, whose
specification is `SpecWriter`:

* `EndAlwaysDecidesContainment`: `SpecWriter => []EndDecidesContainment`
* `OutsideGroupsAlwaysOnce`: `SpecWriter => []OutsideGroupsOnce`
* `SeamlessMergeAlwaysKeepsText`: `SpecWriter => []SeamlessMergeKeepsText`
* `CombinedBlocksAreWellFormed`: in every state of `Spec`, the blocks and groups
  that `CombineBlock` holds are what the last two assume (`WellFormed`), when
  the blocks nest

`WriterInv` says that what is written is the loop's result for some sorting of
the units of the input; the rest is about the loop. The end it keeps is the
largest of all units so far, although it is assigned and not maximized, since
it is assigned only when it grows (`EndIsFurthest`). With the beginnings sorted,
a unit is therefore skipped exactly when it lies in an earlier one
(`SkippedWithin`, `LoopWritesOutermost`). `UnitsText` is the lemma both other
theorems use, with the ranges of the groups for `X`, or with nothing: if every
unit writes, apart from `X`, its part of a document in order, and no two units
cross outside of `X`, then all of what they cover is written, apart from `X`,
once and in order. A block that is not a unit is claimed by a group and lies in
its range (`KeptOrClaimed`). That a group's text comes from its range holds for
overlapping members, too (`GroupSpans`); that it is the part of the document
its members cover needs them to be apart (`ApartText`).

### `FlattenBlockProofs`

For all texts and block lists:

* `LayerIsOfBlocks`: `Spec => []LayerOfBlocks`
* `ErrorsMeanNoLayer`: `Spec => []ErrorMeansNoLayer`
* `ParseKeepsItsPromise`: `Spec => []ParseLayersText`

The first two are inductive: `StepEffect` sums up what any step does to the
members. The third speaks of the moment a `Parse` returns, and slots may have
layered the blocks, or started and ended other calls, since it announced them.
`IInv` says of every call on the stack what it has promised so far
(`Promise`), and that all calls below a `Parse` count as disturbed, so that a
`Parse` that fails and empties the object breaks no promise but its own.

### `OpeningMarkupProofs`

For opening tags of any length:

* `TypeCorrect`: `Spec => []TypeOK`
* `ReadersAlwaysAgree`: `Spec => []ReadersAgree`
* `FieldsAlwaysSlices`: `Spec => []FieldsAreSlices`
* `SingleTagAlwaysAgrees`: `Spec => []SingleTagAgrees`
* `TypesAlwaysByGrammar`: `Spec => []TypesByGrammar`

They assume what `CharsAssumption` says of the classes of characters.
`ReadersAgree` speaks of the end of a tag and is not inductive: `IInv` adds
`InStep`, that until then the attribute parser and the scanner are inside the
same quote and have met the same slash. There is a lemma for each phase of the
attribute parser.

The other three speak of what the attribute parser has made of the markup, and
rest on a second invariant, `SliceInv`. It says what is settled while the
parser reads (`Done`): the name of the tag ends at some offset `e`, each
property listed so far lies in the markup as it should (`Fits`), they follow
one another, and every character from `e` to the offset `m` is in one of them
or belongs to none. Where `m` is depends on the phase: between two properties
it is the character read, inside of one it is where its name begins, and
`FieldFits` says how far that one has got. Two lemmas carry the proof: nothing
of this changes when one more character is read (`DoneLater`), and wherever
the loop of the parser comes round or the tag ends, the property pushed there
settles the markup up to the character read (`PushedDone`). At the end of an
accepted tag the whole markup is settled (`Whole`), which is `FieldsAreSlices`.

`SingleTagAgrees` follows since a bracket that is neither in the name of the
tag nor in that of a property, and is no blank, sign or quote, can only be in
a value. `TypesByGrammar` needs what the scans of `infer_type` compute:
`looks_like_float` takes the longest mantissa there is, and no shorter one of
the grammar can be followed by the end or an exponent (`FloatGrammar`).

### Native XML: `CallsProofs`, second part

For all limits, sizes of names and characters, and any series of calls:

* `OutputCanAlwaysBeClosed`: `NativeSpec => []OutputCanBeClosed`
* `OutcomeIsAlwaysFinal`: `NativeSpec => OutcomeIsFinal`, an action property
* `OwnFileAlwaysReads`: `NativeSpec => []OwnFileReads`
* `RefusalAlwaysExplained`: `NativeSpec => []FinishRefusal`
* `EventsAlwaysTellDocument`: `NativeSpec => []EventsTellDocument`

`LimitsAssumption` says that limits and sizes are numbers and that no name is
empty, `NamesAssumption` that a name has a prefix and a local part;
`CallsAssumption` gives the arguments of calls their types.

The writer keeps the names of the open elements, not where they were opened.
That the end tags of the stack close the output is therefore not inductive.
`WriterInv` says that what was written are items the calls accept (`Writable`),
that each node so far is where it may be (`Placed`), and that the stack has at
each depth the name of the start tag that opened it last (`Opened`, `Well`). The
nodes libxml2 makes of the items are followed one item at a time: an item is
dropped, adds its characters to the text before it, or is a node of its own
(`AddNodeCases`). `PlacedIsLegal` says that a placed node is legal but for its
namespaces or a character XML does not allow (`Sound`). What `NamesAreBound`
computes does not matter to these proofs: no call looks at it, so it stands on
both sides of what they compare.

`OwnFileReads` compares two opens of a reader. The second differs in the limit
of its input alone, so it meets no error that the first, which read to the end,
did not meet (`FileInv`, `ReaderStep`).

`FinishRefusal` has two directions, and both come from one equivalence: a
closed document reads to its end exactly when it is not `Refusable` (`Verdict`).
What the reader counts and what was written count differently: the reader
joins texts, and reports a text one level deeper than its element. `Mirrors`
relates the two counts for every output on the way: the same bad characters, the
same deep texts, the same long texts, and as many runs of texts as text nodes. A
text is also refused for its name, `#text`, where five bytes are over the limit
(`UnnamableText`), and then any text is, so `Mirrors` also says that there are
texts written exactly when there are text nodes (`TextGrows`).
`TailRun` says what the run of texts at the end of the output is, since the next
call may prolong it. All else the reader checks, the calls have checked before
(`NodesChecked`, `Shallow`).

`EventsTellDocument` holds of any document, well-formed or not. A document and
the events of a reader are both told as one sequence, of marks and of single
characters (`Story`), so that texts may be joined on one side. Adding an item to
the nodes adds what it tells to their story, in each of the three cases
(`StoryAdd`), so nodes and items tell the same (`NodesTellItems`). `ReportInv`
says that what was reported are the events of the first nodes, one for each,
which tell a beginning of it (`StoryBegins`).

### How data is reasoned about

The provers cannot instantiate the induction theorems of the library, whose
parameter is an operator. Where an argument needs induction over numbers, it
takes the least counterexample instead: `LeastNat` of `PositionsProofs` comes
from the well-foundedness of finite sets under inclusion and needs no
parameter. A recursive function is dealt with by a closed form: it is shown to
solve the function's equation and to be the only one that does. Where no closed
form is needed, some solution exists (`RoundsExist`), the function is one, and
`CountUp` goes through its arguments. Sums of sequences are folds in the same sense
(`Sums`, `TotalIs`). What sorts is
stated by the rank of each element (`Nth`, `InSequence`), or as the one
ascending sequence of a set (`Ascending`, `OnlyOrder`).

### What is left to TLC

* `Termination`, which is liveness, and of `AgreesWithValidator` the fairness of
  the abstract specification; its steps are `ScannerValidates`.

## 5. What is not modelled

* The native markup package (`Native/src/Markup`), a port without Qt of the
  sources modelled here.
* libxml2: which nodes a native document has, what it calls them, what their
  prefixes mean and where the document is malformed is defined as `XmlReader`
  uses it, and marked external.
* Wording of errors, logging, encoding conversions, and what is inside of a
  declaration.
* The views a `TagDocument` hands out into its own copy of the source, and
  lines and columns of diagnostics.
* Which attributes `GetHTML` renders.
* What `GetFile` hands out for a text of two roots, `<a></a><a></a>`: the
  first and the last tag match, and the value spans both. `ParsedIsRoot`
  claims only the first tag's name of such a text.
* The first tag's own getters of `GetTagInfo`; the parsing of style text in
  `DivideBlock`, whose declared display values the tokens carry.
* Memory exhaustion inside the scanner and the tree builder. Of `GetHTML` it
  is the rendering that may throw.
* Moved-from readers and writers.
* In `InlineTagMutation`, a `<` that no `>` follows, comments and declarations
  that contain a `>`, and options that name one tag both a style and a break.
  Offsets inside of a tag are modelled (`LogicalOffsetInside`), but
  `OffsetsRoundTrip` is about those that come from `SourceBoundary`, which is
  never inside of one. Texts in which an `&` starts no entity are modelled, too,
  but what is claimed of them is only that no other token is lost and that
  offsets convert back: an entity that comes into being when a style tag is
  moved away is outside of the other properties.
* Exceptions that a slot throws.
* Exceptions where a call makes no difference between them and a failure, and
  `bad_alloc` in `DeleteBlock::Delete`, which has no handler.
* Observers that are connected after a slot that calls back: they see the
  signals of the inner call first. `CombineBlock` speaks of an observer that is
  connected before, and excepts calls that a slot makes while `SetBlocks` runs:
  the zeros it sends last may then be wrong.
* What observers of `FlattenBlock` know after an exception has emptied the
  object: no signal tells them.
* Which of several blocks with the same text keeps which id: `StableIds` takes
  such blocks for interchangeable, as the code does.
* File input, rendering, the native copies; see `PROJECT.json`.

## 6. What is left

1. Composition of `DeleteBlock` with `BlockRangeTracker` through the Deleted
   signal: which ids survive a deletion among equal blocks.
2. A comparison of the native markup package with the sources it was ported
   from, so that the models can be claimed for both.
