--------------------------- MODULE BlockGroupsProofs ---------------------------
(***************************************************************************)
(* CombineBlock, what its groups are, and BlockHTMLSerializer, which       *)
(* writes them.                                                            *)
(***************************************************************************)
EXTENDS CombineBlock, BlockHTMLSerializer, PositionsProofs

-----------------------------------------------------------------------------
(* What an observer of the signals knows once the outermost call is over,  *)
(* however deep slots call back.  As long as no call has come in on top of *)
(* a SetBlocks, each count the observer does not know is owed to it: a     *)
(* call on the stack still has to emit it.  A signal that says 0 is only   *)
(* owed by the innermost call, before anything could have been added.      *)
Todos  == [do : {"emit", "zero", "fail", "clear"}, signal : Signals \cup {"none"}]
Names  == {"SetBlocks", "Select", "SelectRange", "Deselect", "ClearSelection",
           "ClearCombinedBlocks", "CombineSelected", "refused"}
Frames == [call : Names, todo : Seq(Todos), in_slot : BOOLEAN]

Owes(todo, what) == \E j \in 1..Len(todo) : todo[j] = what

(* A call emits the signal, in either form.                                *)
Tells(todo, s) == Owes(todo, Emit(s)) \/ Owes(todo, EmitZero(s))

Pending(s) == \E i \in 1..Len(calls) : Tells(calls[i].todo, s)

Known == \A s \in Signals : shown[s] = Count(s) \/ Pending(s)

ZeroIsTrue ==
  \A i \in 1..Len(calls), s \in Signals :
    Owes(calls[i].todo, EmitZero(s)) => i = Len(calls) /\ Count(s) = 0

(* Only SetBlocks owes a 0 while slots run.                                *)
ZeroBeforeSlots ==
  \A i \in 1..Len(calls), s \in Signals :
    calls[i].call # "SetBlocks" =>
      /\ calls[i].in_slot => ~Owes(calls[i].todo, EmitZero(s))
      /\ calls[i].todo # <<>> => ~Owes(Tail(calls[i].todo), EmitZero(s))

IInv ==
  /\ calls \in Seq(Frames)
  /\ interrupted \in BOOLEAN
  /\ DOMAIN shown = Signals
  /\ ZeroBeforeSlots
  /\ ~interrupted => Known /\ ZeroIsTrue

-----------------------------------------------------------------------------
(* What a call does at its beginning: it sets out to tell of every number  *)
(* it changed, and of a 0 only if that is the number; a 0 comes first      *)
(* except in SetBlocks, which tells of all numbers.                        *)
Announces(name, todo) ==
  /\ name \in Names /\ todo \in Seq(Todos)
  /\ \A s \in Signals : Count(s)' = Count(s) \/ Tells(todo, s)
  /\ \A s \in Signals : Owes(todo, EmitZero(s)) => Count(s)' = 0
  /\ name # "SetBlocks" =>
       \A s \in Signals : todo = <<>> \/ ~Owes(Tail(todo), EmitZero(s))
  /\ name = "SetBlocks" => todo # <<>> /\ \A s \in Signals : Tells(todo, s)

Starts == MayCall /\ \E name, todo : Begin(name, todo) /\ Announces(name, todo)

LEMMA EmitForms ==
  ASSUME NEW s \in Signals, NEW t \in Signals
  PROVE  /\ Emit(s) \in Todos /\ EmitZero(s) \in Todos /\ Fail \in Todos /\ ClearError \in Todos
         /\ Emit(s) # EmitZero(t) /\ Fail # EmitZero(s) /\ ClearError # EmitZero(s)
         /\ Emit(s) = Emit(t) => s = t
         /\ EmitZero(s) = EmitZero(t) => s = t
  BY DEF Emit, EmitZero, Fail, ClearError, Todos

LEMMA OwesShort ==
  /\ \A w : ~Owes(<<>>, w)
  /\ \A a, w : Owes(<<a>>, w) <=> w = a
  /\ \A a, b, w : Owes(<<a, b>>, w) <=> w = a \/ w = b
  /\ \A a, b, c, w : Owes(<<a, b, c>>, w) <=> w = a \/ w = b \/ w = c
  BY DEF Owes

LEMMA TailShort ==
  /\ \A a : Tail(<<a>>) = <<>>
  /\ \A a, b : Tail(<<a, b>>) = <<b>>
  /\ \A a, b, c : Tail(<<a, b, c>>) = <<b, c>>
  OBVIOUS

LEMMA OwesTail ==
  ASSUME NEW todo \in Seq(Todos), todo # <<>>, NEW w
  PROVE  Owes(todo, w) <=> Head(todo) = w \/ Owes(Tail(todo), w)
  <1>1. /\ Len(todo) \in Nat \ {0} /\ Len(Tail(todo)) = Len(todo) - 1
        /\ Head(todo) = todo[1]
        /\ \A j \in 1..Len(todo) - 1 : Tail(todo)[j] = todo[j + 1]
    BY EmptySeq, HeadTailProperties
  <1>2. ASSUME NEW j \in 1..Len(todo), todo[j] = w
        PROVE  Head(todo) = w \/ Owes(Tail(todo), w)
    <2>1. CASE j = 1
      BY <1>1, <1>2, <2>1
    <2>2. CASE j # 1
      <3>1. j - 1 \in 1..Len(Tail(todo)) /\ Tail(todo)[j - 1] = w
        BY <1>1, <1>2, <2>2
      <3> QED
        BY <3>1 DEF Owes
    <2> QED
      BY <2>1, <2>2
  <1>3. ASSUME NEW j \in 1..Len(Tail(todo)), Tail(todo)[j] = w
        PROVE  Owes(todo, w)
    <2>1. j + 1 \in 1..Len(todo) /\ todo[j + 1] = w
      BY <1>1, <1>3
    <2> QED
      BY <2>1 DEF Owes
  <1>4. Head(todo) = w => Owes(todo, w)
    BY <1>1 DEF Owes
  <1> QED
    BY <1>2, <1>3, <1>4 DEF Owes

-----------------------------------------------------------------------------
(* Lists of up to three things to do.                                      *)
LEMMA ShortTodos ==
  /\ <<>> \in Seq(Todos)
  /\ \A a \in Todos : <<a>> \in Seq(Todos)
  /\ \A a, b \in Todos : <<a, b>> \in Seq(Todos)
  /\ \A a, b, c \in Todos : <<a, b, c>> \in Seq(Todos)
  OBVIOUS

LEMMA SetsNothing ==
  ASSUME NEW name \in Names \ {"SetBlocks"}, \A s \in Signals : Count(s)' = Count(s)
  PROVE  Announces(name, <<>>)
  BY ShortTodos, OwesShort DEF Announces

LEMMA SetsOne ==
  ASSUME NEW name \in Names \ {"SetBlocks"}, NEW a \in Todos,
         \A s \in Signals : Count(s)' = Count(s) \/ a = Emit(s) \/ a = EmitZero(s),
         \A s \in Signals : a = EmitZero(s) => Count(s)' = 0
  PROVE  Announces(name, <<a>>)
  <1>1. <<a>> \in Seq(Todos)
    BY ShortTodos
  <1>2. \A w : Owes(<<a>>, w) <=> w = a
    BY OwesShort
  <1>3. \A w : ~Owes(Tail(<<a>>), w)
    BY OwesShort, TailShort
  <1> QED
    BY <1>1, <1>2, <1>3, Zenon DEF Announces, Tells

LEMMA SetsTwo ==
  ASSUME NEW name \in Names \ {"SetBlocks"}, NEW a \in Todos, NEW b \in Todos,
         \A s \in Signals :
           \/ Count(s)' = Count(s)
           \/ a = Emit(s) \/ a = EmitZero(s) \/ b = Emit(s),
         \A s \in Signals : a = EmitZero(s) => Count(s)' = 0,
         \A s \in Signals : b # EmitZero(s)
  PROVE  Announces(name, <<a, b>>)
  <1>1. <<a, b>> \in Seq(Todos)
    BY ShortTodos
  <1>2. \A w : Owes(<<a, b>>, w) <=> w = a \/ w = b
    BY OwesShort
  <1>3. \A w : Owes(Tail(<<a, b>>), w) <=> w = b
    BY OwesShort, TailShort
  <1> QED
    BY <1>1, <1>2, <1>3, Zenon DEF Announces, Tells

LEMMA StartsWith ==
  ASSUME MayCall, NEW name, NEW todo, Begin(name, todo), Announces(name, todo)
  PROVE  Starts
  BY DEF Starts

(* The calls, one by one.                                                  *)
LEMMA RefuseStarts ==
  ASSUME NEW reason, NEW ways, ways \subseteq {Function, Slot}, MayCall, Refuse(reason, ways)
  PROVE  Starts
  <1>1. PICK todo \in {<<>>, <<Fail>>} : Begin("refused", todo)
    BY DEF Refuse, Function, Slot
  <1>2. \A s \in Signals : Count(s)' = Count(s)
    BY DEF Refuse, Count
  <1>3. \A s \in Signals : Fail \in Todos /\ Fail # EmitZero(s)
    BY EmitForms
  <1>4. "refused" \in Names \ {"SetBlocks"}
    BY DEF Names
  <1>5. CASE todo = <<>>
    BY <1>1, <1>2, <1>4, <1>5, SetsNothing, StartsWith
  <1>6. CASE todo = <<Fail>>
    <2>1. Fail \in Todos
      BY DEF Fail, Todos
    <2> QED
      BY <1>1, <1>2, <1>3, <1>4, <1>6, <2>1, SetsOne, StartsWith
  <1> QED
    BY <1>5, <1>6

LEMMA SelectStarts ==
  ASSUME NEW index, Select(index)
  PROVE  Starts
  <1>1. MayCall /\ "Select" \in Names \ {"SetBlocks"}
    BY DEF Select, Names
  <1>2. CASE Refuse("range", {Function, Slot})
    BY <1>1, <1>2, RefuseStarts
  <1>3. CASE /\ Begin("Select", <<Emit("SelectionChanged"), ClearError>>)
             /\ UNCHANGED <<blocks, combined_blocks, last_error>>
    <2>1. \A s \in Signals : Count(s)' = Count(s) \/ Emit("SelectionChanged") = Emit(s)
      BY <1>3 DEF Signals, Count
    <2>2. /\ Emit("SelectionChanged") \in Todos /\ ClearError \in Todos
          /\ \A s \in Signals : /\ Emit("SelectionChanged") # EmitZero(s)
                                /\ ClearError # EmitZero(s)
      BY EmitForms DEF Signals
    <2> QED
      BY <1>1, <1>3, <2>1, <2>2, SetsTwo, StartsWith
  <1>4. CASE Begin("Select", <<>>) /\ UNCHANGED <<blocks, selected_indexes, combined_blocks>>
    <2>1. \A s \in Signals : Count(s)' = Count(s)
      BY <1>4 DEF Count
    <2> QED
      BY <1>1, <1>4, <2>1, SetsNothing, StartsWith
  <1> QED
    BY <1>2, <1>3, <1>4 DEF Select

(* A call that changes the selection and tells of it.                      *)
LEMMA SelectionStarts ==
  ASSUME MayCall, NEW name \in Names \ {"SetBlocks"},
         Begin(name, <<Emit("SelectionChanged")>>), UNCHANGED <<blocks, combined_blocks>>
  PROVE  Starts
  <1>1. \A s \in Signals : Count(s)' = Count(s) \/ Emit("SelectionChanged") = Emit(s)
    BY DEF Signals, Count
  <1>2. /\ Emit("SelectionChanged") \in Todos
        /\ \A s \in Signals : Emit("SelectionChanged") # EmitZero(s)
    BY EmitForms DEF Signals
  <1> QED
    BY <1>1, <1>2, SetsOne, StartsWith

LEMMA SelectRangeStarts ==
  ASSUME NEW first, NEW last, SelectRange(first, last)
  PROVE  Starts
  <1>1. MayCall /\ "SelectRange" \in Names \ {"SetBlocks"}
    BY DEF SelectRange, Names
  <1>2. ASSUME NEW reason, Refuse(reason, {Function}) PROVE Starts
    BY <1>1, <1>2, RefuseStarts
  <1>3. CASE /\ Begin("SelectRange", <<Emit("SelectionChanged")>>)
             /\ UNCHANGED <<blocks, combined_blocks>>
    BY <1>1, <1>3, SelectionStarts
  <1> QED
    BY <1>2, <1>3 DEF SelectRange

LEMMA DeselectStarts ==
  ASSUME NEW index, Deselect(index)
  PROVE  Starts
  <1>1. MayCall /\ "Deselect" \in Names \ {"SetBlocks"}
    BY DEF Deselect, Names
  <1>2. CASE Refuse("unselected", {Function, Slot})
    BY <1>1, <1>2, RefuseStarts
  <1>3. CASE /\ Begin("Deselect", <<Emit("SelectionChanged")>>)
             /\ UNCHANGED <<blocks, combined_blocks>>
    BY <1>1, <1>3, SelectionStarts
  <1> QED
    BY <1>2, <1>3 DEF Deselect

LEMMA ClearSelectionStarts == ClearSelection => Starts
  <1> SUFFICES ASSUME ClearSelection PROVE Starts
    OBVIOUS
  <1>1. /\ MayCall /\ selected_indexes' = <<>> /\ UNCHANGED <<blocks, combined_blocks>>
        /\ Begin("ClearSelection", <<EmitZero("SelectionChanged")>>)
    BY DEF ClearSelection
  <1>2. "ClearSelection" \in Names \ {"SetBlocks"}
    BY DEF Names
  <1>3. /\ \A s \in Signals : Count(s)' = Count(s) \/ s = "SelectionChanged"
        /\ Count("SelectionChanged")' = 0
    BY <1>1 DEF Signals, Count
  <1>4. /\ EmitZero("SelectionChanged") \in Todos
        /\ \A s \in Signals :
             EmitZero("SelectionChanged") = EmitZero(s) => s = "SelectionChanged"
    BY EmitForms DEF Signals
  <1> QED
    BY <1>1, <1>2, <1>3, <1>4, SetsOne, StartsWith

LEMMA ClearCombinedBlocksStarts == ClearCombinedBlocks => Starts
  <1> SUFFICES ASSUME ClearCombinedBlocks PROVE Starts
    OBVIOUS
  <1>1. /\ MayCall /\ combined_blocks' = <<>> /\ UNCHANGED <<blocks, selected_indexes>>
        /\ Begin("ClearCombinedBlocks", <<EmitZero("Combined")>>)
    BY DEF ClearCombinedBlocks
  <1>2. "ClearCombinedBlocks" \in Names \ {"SetBlocks"}
    BY DEF Names
  <1>3. /\ \A s \in Signals : Count(s)' = Count(s) \/ s = "Combined"
        /\ Count("Combined")' = 0
    BY <1>1 DEF Signals, Count
  <1>4. /\ EmitZero("Combined") \in Todos
        /\ \A s \in Signals : EmitZero("Combined") = EmitZero(s) => s = "Combined"
    BY EmitForms DEF Signals
  <1> QED
    BY <1>1, <1>2, <1>3, <1>4, SetsOne, StartsWith

LEMMA CombineSelectedStarts == CombineSelected => Starts
  <1> SUFFICES ASSUME CombineSelected PROVE Starts
    OBVIOUS
  <1>1. MayCall /\ "CombineSelected" \in Names \ {"SetBlocks"}
    BY DEF CombineSelected, Names
  <1>2. CASE Refuse("uncombinable", {Function, Slot})
    BY <1>1, <1>2, RefuseStarts
  <1>3. CASE /\ selected_indexes' = <<>> /\ UNCHANGED blocks
             /\ Begin("CombineSelected", <<EmitZero("SelectionChanged"), Emit("Combined")>>)
    <2>1. /\ \A s \in Signals : Count(s)' = Count(s) \/ s = "SelectionChanged" \/ s = "Combined"
          /\ Count("SelectionChanged")' = 0
      BY <1>3 DEF Signals, Count
    <2>2. /\ EmitZero("SelectionChanged") \in Todos /\ Emit("Combined") \in Todos
          /\ \A s \in Signals :
               /\ EmitZero("SelectionChanged") = EmitZero(s) => s = "SelectionChanged"
               /\ Emit("Combined") # EmitZero(s)
      BY EmitForms DEF Signals
    <2> QED
      BY <1>1, <1>3, <2>1, <2>2, SetsTwo, StartsWith
  <1> QED
    BY <1>2, <1>3 DEF CombineSelected

LEMMA SetBlocksStarts ==
  ASSUME NEW list, SetBlocks(list)
  PROVE  Starts
  <1> DEFINE a == Emit("BlocksChanged")
             b == EmitZero("SelectionChanged")
             c == EmitZero("Combined")
  <1>1. /\ MayCall /\ selected_indexes' = <<>> /\ combined_blocks' = <<>>
        /\ Begin("SetBlocks", <<a, b, c>>)
    BY DEF SetBlocks
  <1>2. <<a, b, c>> \in Seq(Todos) /\ \A w : Owes(<<a, b, c>>, w) <=> w = a \/ w = b \/ w = c
    BY ShortTodos, OwesShort, EmitForms DEF Signals
  <1>3. \A s \in Signals : s \in {"BlocksChanged", "SelectionChanged", "Combined"}
    BY DEF Signals
  <1>4. \A s \in Signals : Tells(<<a, b, c>>, s)
    BY <1>2, <1>3 DEF Tells
  <1>5. Count("SelectionChanged")' = 0 /\ Count("Combined")' = 0
    BY <1>1 DEF Count
  <1>6. \A s \in Signals : EmitZero(s) \in {a, b, c} => s \in {"SelectionChanged", "Combined"}
    BY EmitForms DEF Signals
  <1>7. \A s \in Signals : Owes(<<a, b, c>>, EmitZero(s)) => Count(s)' = 0
    BY <1>2, <1>5, <1>6
  <1>8. "SetBlocks" \in Names /\ <<a, b, c>> # <<>>
    BY DEF Names
  <1> HIDE DEF a, b, c
  <1>9. Announces("SetBlocks", <<a, b, c>>)
    BY <1>2, <1>4, <1>7, <1>8 DEF Announces
  <1> QED
    BY <1>1, <1>9, StartsWith

LEMMA NextEffect ==
  ASSUME Next
  PROVE  Starts \/ Continue \/ Return
  BY SelectStarts, SelectRangeStarts, DeselectStarts, ClearSelectionStarts,
     ClearCombinedBlocksStarts, CombineSelectedStarts, SetBlocksStarts DEF Next

-----------------------------------------------------------------------------
LEMMA InitIInv == Init => IInv
  <1> SUFFICES ASSUME Init PROVE IInv
    OBVIOUS
  <1>1. calls = <<>> /\ calls \in Seq(Frames) /\ Len(calls) = 0
    <2>1. calls = <<>>
      BY Zenon DEF Init
    <2> QED
      BY <2>1
  <1>2. interrupted \in BOOLEAN
    BY Zenon DEF Init
  <1>3. DOMAIN shown = Signals /\ \A s \in Signals : shown[s] = 0 /\ Count(s) = 0
    BY DEF Init, Signals, Count
  <1>4. ZeroBeforeSlots /\ ZeroIsTrue
    BY <1>1 DEF ZeroBeforeSlots, ZeroIsTrue
  <1>5. Known
    BY <1>3 DEF Known
  <1> QED
    BY <1>1, <1>2, <1>3, <1>4, <1>5 DEF IInv

LEMMA CallTypes ==
  ASSUME calls \in Seq(Frames)
  PROVE  /\ Len(calls) \in Nat
         /\ calls # <<>> => Len(calls) \in 1..Len(calls)
         /\ \A i \in 1..Len(calls) :
              calls[i] \in Frames /\ calls[i].todo \in Seq(Todos)
  <1>1. Len(calls) \in Nat
    OBVIOUS
  <1>2. ASSUME calls # <<>> PROVE Len(calls) \in 1..Len(calls)
    <2>1. Len(calls) # 0
      BY <1>2, EmptySeq
    <2> QED
      BY <1>1, <2>1
  <1>3. \A f \in Frames : f.todo \in Seq(Todos)
    BY DEF Frames
  <1>4. \A i \in 1..Len(calls) : calls[i] \in Frames
    BY ElementOfSeq
  <1> QED
    BY <1>1, <1>2, <1>3, <1>4

(* A call that has nothing to tell.                                        *)
LEMMA SilentStep ==
  ASSUME IInv, NEW name, Begin(name, <<>>), Announces(name, <<>>)
  PROVE  IInv'
  <1>1. calls' = calls /\ shown' = shown
    BY DEF Begin
  <1>2. \A s \in Signals : Count(s)' = Count(s)
    BY OwesShort DEF Announces, Tells
  <1>3. name # "SetBlocks"
    BY DEF Announces
  <1>4. interrupted' \in BOOLEAN /\ (~interrupted' => ~interrupted)
    BY <1>3, Zenon DEF Begin, IInv
  <1>5. ZeroBeforeSlots'
    BY <1>1 DEF IInv, ZeroBeforeSlots
  <1>6. ~interrupted' => Known' /\ ZeroIsTrue'
    BY <1>1, <1>2, <1>4 DEF IInv, Known, Pending, ZeroIsTrue
  <1> QED
    BY <1>1, <1>4, <1>5, <1>6 DEF IInv

LEMMA StartStep ==
  ASSUME IInv, MayCall, NEW name, NEW todo, todo # <<>>, Begin(name, todo), Announces(name, todo)
  PROVE  IInv'
  <1> DEFINE n == Len(calls)
             frame == [call |-> name, todo |-> todo, in_slot |-> FALSE]
  <1>1. calls' = Append(calls, frame) /\ shown' = shown
    BY DEF Begin
  <1>2. frame \in Frames /\ frame.todo = todo /\ frame.call = name /\ frame.in_slot = FALSE
    BY DEF Announces, Frames
  <1>3. n \in Nat /\ \A i \in 1..n : calls[i] \in Frames
    BY CallTypes DEF IInv
  <1>4. /\ calls' \in Seq(Frames) /\ Len(calls') = n + 1
        /\ calls'[n + 1] = frame
        /\ \A i \in 1..n : calls'[i] = calls[i]
    BY <1>1, <1>2, <1>3 DEF IInv
  <1> HIDE DEF frame
  <1>5. interrupted' \in BOOLEAN
    BY Zenon DEF Begin, IInv
  <1>6. ~interrupted' => name = "SetBlocks" \/ ~interrupted
    BY Zenon DEF Begin
  <1>7. ~interrupted' /\ calls # <<>> =>
          ~interrupted /\ \A i \in DOMAIN calls : calls[i].call # "SetBlocks"
    BY Zenon DEF Begin
  <1>8. ZeroBeforeSlots'
    <2>1. ASSUME NEW i \in 1..n, NEW s \in Signals, calls'[i].call # "SetBlocks"
          PROVE  /\ calls'[i].in_slot => ~Owes(calls'[i].todo, EmitZero(s))
                 /\ calls'[i].todo # <<>> => ~Owes(Tail(calls'[i].todo), EmitZero(s))
      BY <1>4, <2>1 DEF IInv, ZeroBeforeSlots
    <2>2. ASSUME NEW s \in Signals, name # "SetBlocks"
          PROVE  ~Owes(Tail(todo), EmitZero(s))
      BY <2>2 DEF Announces
    <2>3. ASSUME NEW i \in 1..Len(calls'), NEW s \in Signals, calls'[i].call # "SetBlocks"
          PROVE  /\ calls'[i].in_slot => ~Owes(calls'[i].todo, EmitZero(s))
                 /\ calls'[i].todo # <<>> => ~Owes(Tail(calls'[i].todo), EmitZero(s))
      <3>1. CASE i \in 1..n
        BY <2>1, <2>3, <3>1
      <3>2. CASE i = n + 1
        BY <1>2, <1>4, <2>2, <2>3, <3>2
      <3> QED
        BY <1>3, <1>4, <3>1, <3>2
    <2> QED
      BY <2>3 DEF ZeroBeforeSlots
  <1>9. ASSUME ~interrupted', NEW s \in Signals
        PROVE  shown'[s] = Count(s)' \/ Pending(s)'
    <2>1. CASE Tells(todo, s)
      <3>1. n + 1 \in 1..Len(calls') /\ Tells(calls'[n + 1].todo, s)
        BY <1>2, <1>3, <1>4, <2>1
      <3> QED
        BY <3>1 DEF Pending
    <2>2. CASE ~Tells(todo, s)
      <3>1. name # "SetBlocks" /\ Count(s)' = Count(s)
        BY <2>2 DEF Announces
      <3>2. shown[s] = Count(s) \/ Pending(s)
        BY <1>6, <1>9, <3>1 DEF IInv, Known
      <3>3. ASSUME Pending(s) PROVE Pending(s)'
        <4>1. PICK i \in 1..n : Tells(calls[i].todo, s)
          BY <3>3 DEF Pending
        <4>2. i \in 1..Len(calls') /\ Tells(calls'[i].todo, s)
          BY <1>3, <1>4, <4>1
        <4> QED
          BY <4>2 DEF Pending
      <3> QED
        BY <1>1, <3>1, <3>2, <3>3
    <2> QED
      BY <2>1, <2>2
  <1>10. ASSUME ~interrupted', NEW i \in 1..Len(calls'), NEW s \in Signals,
                Owes(calls'[i].todo, EmitZero(s))
         PROVE  i = Len(calls') /\ Count(s)' = 0
    <2>1. CASE i = n + 1
      BY <1>2, <1>4, <1>10, <2>1 DEF Announces
    <2>2. CASE i \in 1..n
      <3>1. calls # <<>>
        BY <1>3, <2>2
      <3>2. i = n /\ calls[i].call # "SetBlocks"
        <4>1. Owes(calls[i].todo, EmitZero(s))
          BY <1>4, <1>10, <2>2
        <4>2. ZeroIsTrue /\ i \in DOMAIN calls
          BY <1>7, <1>10, <2>2, <3>1 DEF IInv
        <4> QED
          BY <1>7, <1>10, <2>2, <3>1, <4>1, <4>2 DEF ZeroIsTrue
      <3>3. calls[i].in_slot
        BY <3>1, <3>2 DEF MayCall, Top
      <3> QED
        BY <1>4, <1>10, <2>2, <3>2, <3>3 DEF IInv, ZeroBeforeSlots
    <2> QED
      BY <1>3, <1>4, <2>1, <2>2
  <1>11. ~interrupted' => Known' /\ ZeroIsTrue'
    BY <1>9, <1>10 DEF Known, ZeroIsTrue
  <1> QED
    BY <1>1, <1>4, <1>5, <1>8, <1>11 DEF IInv

LEMMA ContinueStep == IInv /\ Continue => IInv'
  <1> SUFFICES ASSUME IInv, Continue PROVE IInv'
    OBVIOUS
  <1> DEFINE n == Len(calls)
             todo == calls[n].todo
             next == Head(todo)
  <1>1. calls # <<>> /\ todo # <<>>
    BY DEF Continue, Top
  <1>2. n \in 1..n /\ n \in Nat /\ todo \in Seq(Todos) /\ \A i \in 1..n : calls[i] \in Frames
    BY <1>1, CallTypes DEF IInv
  <1>3. PICK in_slot \in BOOLEAN : Proceed(in_slot)
    BY DEF Continue
  <1>4. /\ calls' \in Seq(Frames) /\ Len(calls') = n
        /\ \A i \in 1..n : i # n => calls'[i] = calls[i]
        /\ calls'[n].todo = Tail(todo) /\ calls'[n].in_slot = in_slot
        /\ calls'[n].call = calls[n].call
    <2>1. Tail(todo) \in Seq(Todos)
      BY <1>1, <1>2, HeadTailProperties
    <2>2. calls' = [calls EXCEPT ![n] = [@ EXCEPT !.todo = Tail(todo), !.in_slot = in_slot]]
      BY <1>3 DEF Proceed
    <2>3. [calls[n] EXCEPT !.todo = Tail(todo), !.in_slot = in_slot] \in Frames
      BY <1>2, <2>1 DEF Frames
    <2> QED
      BY <1>2, <2>1, <2>2, <2>3, ExceptSeq DEF IInv, Frames
  <1>5. \A s \in Signals : Count(s)' = Count(s)
    BY DEF Continue, Count
  <1>6. interrupted' = interrupted
    BY DEF Continue
  <1>7. /\ DOMAIN shown' = Signals
        /\ \A s \in Signals :
             \/ shown'[s] = shown[s] /\ next # Emit(s) /\ next # EmitZero(s)
             \/ shown'[s] = Count(s) /\ next = Emit(s)
             \/ shown'[s] = 0 /\ next = EmitZero(s)
    <2>1. next \in Todos
      BY <1>1, <1>2, HeadTailProperties
    <2>2. CASE /\ next.do \in {"emit", "zero"}
               /\ shown' = [shown EXCEPT ![next.signal] =
                              IF next.do = "emit" THEN Count(next.signal) ELSE 0]
      <3>1. DOMAIN shown = Signals
        BY DEF IInv
      <3>2. ASSUME NEW s \in Signals, next.signal = s
            PROVE  \/ shown'[s] = Count(s) /\ next = Emit(s)
                   \/ shown'[s] = 0 /\ next = EmitZero(s)
        <4>1. next = [do |-> next.do, signal |-> s]
          BY <2>1, <3>2 DEF Todos
        <4>2. CASE next.do = "emit"
          BY <2>2, <3>1, <3>2, <4>1, <4>2 DEF Emit
        <4>3. CASE next.do = "zero"
          BY <2>2, <3>1, <3>2, <4>1, <4>3 DEF EmitZero
        <4> QED
          BY <2>2, <4>2, <4>3
      <3>3. ASSUME NEW s \in Signals, next.signal # s
            PROVE  shown'[s] = shown[s] /\ next # Emit(s) /\ next # EmitZero(s)
        BY <2>2, <3>1, <3>3 DEF Emit, EmitZero
      <3> QED
        BY <2>2, <3>1, <3>2, <3>3
    <2>3. CASE next.do \in {"fail", "clear"} /\ shown' = shown
      BY <2>3 DEF IInv, Emit, EmitZero
    <2> QED
      BY <2>2, <2>3 DEF Continue, Top
  <1>8. \A w : Owes(todo, w) <=> next = w \/ Owes(Tail(todo), w)
    BY <1>1, <1>2, OwesTail
  <1> HIDE DEF todo, next
  <1>9. ZeroBeforeSlots'
    <2>1. ASSUME NEW s \in Signals, calls[n].call # "SetBlocks"
          PROVE  /\ ~Owes(Tail(todo), EmitZero(s))
                 /\ Tail(todo) # <<>> => ~Owes(Tail(Tail(todo)), EmitZero(s))
      <3>1. ~Owes(Tail(todo), EmitZero(s))
        BY <1>1, <1>2, <2>1 DEF IInv, ZeroBeforeSlots, todo
      <3>2. Tail(todo) \in Seq(Todos)
        BY <1>1, <1>2, HeadTailProperties
      <3> QED
        BY <3>1, <3>2, OwesTail
    <2>2. ASSUME NEW i \in 1..n, i # n, NEW s \in Signals, calls'[i].call # "SetBlocks"
          PROVE  /\ calls'[i].in_slot => ~Owes(calls'[i].todo, EmitZero(s))
                 /\ calls'[i].todo # <<>> => ~Owes(Tail(calls'[i].todo), EmitZero(s))
      BY <1>4, <2>2 DEF IInv, ZeroBeforeSlots
    <2> QED
      BY <1>2, <1>4, <2>1, <2>2 DEF ZeroBeforeSlots
  <1>10. ASSUME ~interrupted', NEW s \in Signals
         PROVE  shown'[s] = Count(s)' \/ Pending(s)'
    <2>1. shown[s] = Count(s) \/ Pending(s)
      BY <1>6, <1>10 DEF IInv, Known
    <2>2. CASE next = EmitZero(s)
      <3>1. Count(s) = 0
        BY <1>2, <1>6, <1>8, <1>10, <2>2 DEF IInv, ZeroIsTrue, todo
      <3> QED
        BY <1>5, <1>7, <2>2, <3>1, EmitForms
    <2>3. CASE next = Emit(s)
      BY <1>5, <1>7, <2>3, EmitForms
    <2>4. CASE next # Emit(s) /\ next # EmitZero(s) /\ Pending(s)
      <3>1. PICK i \in 1..n : Tells(calls[i].todo, s)
        BY <2>4 DEF Pending
      <3>2. Tells(calls'[i].todo, s)
        BY <1>2, <1>4, <1>8, <2>4, <3>1 DEF Tells, todo
      <3> QED
        BY <1>4, <3>1, <3>2 DEF Pending
    <2>5. CASE next # Emit(s) /\ next # EmitZero(s) /\ shown[s] = Count(s)
      BY <1>5, <1>7, <2>5
    <2> QED
      BY <2>1, <2>2, <2>3, <2>4, <2>5
  <1>11. ASSUME ~interrupted', NEW i \in 1..Len(calls'), NEW s \in Signals,
                Owes(calls'[i].todo, EmitZero(s))
         PROVE  i = Len(calls') /\ Count(s)' = 0
    <2>1. i \in 1..n /\ Owes(calls[i].todo, EmitZero(s))
      BY <1>2, <1>4, <1>8, <1>11 DEF todo
    <2>2. ZeroIsTrue
      BY <1>6, <1>11 DEF IInv
    <2> QED
      BY <1>4, <1>5, <2>1, <2>2 DEF ZeroIsTrue
  <1> QED
    BY <1>4, <1>6, <1>7, <1>9, <1>10, <1>11 DEF IInv, Known, ZeroIsTrue

LEMMA ReturnStep == IInv /\ Return => IInv'
  <1> SUFFICES ASSUME IInv, Return PROVE IInv'
    OBVIOUS
  <1> DEFINE n == Len(calls)
  <1>1. calls # <<>> /\ calls[n].todo = <<>> /\ calls' = SubSeq(calls, 1, n - 1)
    BY DEF Return, Top
  <1>2. n \in Nat \ {0}
    BY <1>1, CallTypes DEF IInv
  <1>3. /\ calls' \in Seq(Frames) /\ Len(calls') = n - 1
        /\ \A i \in 1..n - 1 : calls'[i] = calls[i]
    <2>1. calls \in Seq(Frames)
      BY DEF IInv
    <2>2. /\ 1 \in Int /\ n - 1 \in Int /\ (n - 1) - 1 + 1 = n - 1
          /\ \A i \in 1..n - 1 : i \in 1..n /\ 1 + i - 1 = i
      BY <1>2
    <2>3. \A i \in 1..n - 1 : calls[i] \in Frames
      BY <2>1, <2>2, CallTypes
    <2>4. /\ SubSeq(calls, 1, n - 1) \in Seq(Frames)
          /\ \A i \in 1..n - 1 : SubSeq(calls, 1, n - 1)[i] = calls[1 + i - 1]
      BY <2>2, <2>3, SubSeqProperties
    <2>5. Len(SubSeq(calls, 1, n - 1)) = n - 1
      BY <1>2, <2>2, <2>3, SubSeqProperties
    <2> QED
      BY <1>1, <2>2, <2>4, <2>5
  <1>4. /\ shown' = shown /\ interrupted' = interrupted
        /\ \A s \in Signals : Count(s)' = Count(s)
    BY DEF Return, Count
  <1>5. \A i \in 1..n - 1 : i \in 1..n /\ i # n
    BY <1>2
  <1>6. ZeroBeforeSlots'
    BY <1>3, <1>5 DEF IInv, ZeroBeforeSlots
  <1>7. ASSUME ~interrupted', NEW s \in Signals, Pending(s) PROVE Pending(s)'
    <2>1. PICK i \in 1..n : Tells(calls[i].todo, s)
      BY <1>7 DEF Pending
    <2>2. i # n
      BY <1>1, <2>1, OwesShort DEF Tells
    <2>3. i \in 1..n - 1
      BY <1>2, <2>2
    <2> QED
      BY <1>3, <2>1, <2>3 DEF Pending
  <1>8. ~interrupted' => Known'
    BY <1>4, <1>7 DEF IInv, Known
  <1>9. ~interrupted' => ZeroIsTrue'
    BY <1>3, <1>4, <1>5 DEF IInv, ZeroIsTrue
  <1> QED
    BY <1>3, <1>4, <1>6, <1>8, <1>9 DEF IInv

LEMMA NextIInv == IInv /\ [Next]_vars => IInv'
  <1> SUFFICES ASSUME IInv, [Next]_vars PROVE IInv'
    OBVIOUS
  <1>1. CASE Starts
    <2>1. PICK name, todo : Begin(name, todo) /\ Announces(name, todo)
      BY <1>1 DEF Starts
    <2>2. MayCall
      BY <1>1 DEF Starts
    <2> QED
      BY <2>1, <2>2, SilentStep, StartStep
  <1>2. CASE UNCHANGED vars
    BY <1>2 DEF vars, IInv, ZeroBeforeSlots, ZeroIsTrue, Known, Pending, Count
  <1> QED
    BY <1>1, <1>2, NextEffect, ContinueStep, ReturnStep

(* For all block lists, and however deep slots call back: once the         *)
(* outermost call is over, an observer of the signals knows how many       *)
(* blocks, selected blocks and groups there are, unless a slot called the  *)
(* object while SetBlocks was running.                                     *)
THEOREM ObserverAlwaysKnowsCounts == Spec => []ObserverKnowsCounts
  <1>1. IInv => ObserverKnowsCounts
    <2> SUFFICES ASSUME IInv, calls = <<>>, ~interrupted, NEW s \in Signals
                 PROVE  shown[s] = Count(s)
      BY DEF ObserverKnowsCounts
    <2>1. ~Pending(s)
      BY DEF Pending
    <2> QED
      BY <2>1 DEF IInv, Known
  <1> QED
    BY InitIInv, NextIInv, <1>1, PTL DEF Spec

-----------------------------------------------------------------------------
(* The inductive invariant of the lists: what is selected are positions of *)
(* the blocks, ascending, and each group is the group of such a selection. *)
Selections(list) ==
  {s \in Seq(Nat) : Ascends(s) /\ Range(s) \subseteq 0..(Len(list) - 1)}

GroupsFor(list) == {Group(list, s) : s \in {t \in Selections(list) : Len(t) >= 2}}

ListInv ==
  /\ blocks \in Seq(Blocks) /\ OfDocument(blocks)
  /\ selected_indexes \in Selections(blocks)
  /\ combined_blocks \in Seq(GroupsFor(blocks))

LEMMA EmptySelection ==
  ASSUME NEW list
  PROVE  <<>> \in Selections(list)
  <1>1. <<>> \in Seq(Nat) /\ Len(<<>>) = 0 /\ Range(<<>>) = {}
    BY DEF Range
  <1> QED
    BY <1>1 DEF Selections, Ascends

LEMMA SelectionFacts ==
  ASSUME NEW list \in Seq(Blocks), NEW s \in Selections(list)
  PROVE  /\ s \in Seq(Nat) /\ Ascends(s)
         /\ Range(s) \subseteq 0..(Len(list) - 1)
         /\ \A k \in 1..Len(s) : s[k] \in 0..(Len(list) - 1)
  <1>1. s \in Seq(Nat) /\ Ascends(s) /\ Range(s) \subseteq 0..(Len(list) - 1)
    BY DEF Selections
  <1> QED
    BY <1>1, ElementsOfRange

LEMMA SortedSelection ==
  ASSUME NEW list \in Seq(Blocks), NEW s, Range(s) \subseteq 0..(Len(list) - 1)
  PROVE  SortedUnique(s) \in Selections(list)
  <1>1. PICK n \in Nat : n = Len(list)
    OBVIOUS
  <1>2. IsFiniteSet(0..(n - 1)) /\ 0..(n - 1) \subseteq Nat
    BY FS_Interval
  <1>3. Range(s) \in SUBSET Nat /\ IsFiniteSet(Range(s))
    BY <1>1, <1>2, FS_Subset
  <1> QED
    BY <1>3, AscendingFacts DEF SortedUnique, Selections

LEMMA AppendedRange ==
  ASSUME NEW s \in Seq(Nat), NEW i \in Nat
  PROVE  Range(Append(s, i)) = Range(s) \cup {i}
  <1>1. PICK t : t = Append(s, i)
    OBVIOUS
  <1>2. /\ t \in Seq(Nat) /\ Len(t) = Len(s) + 1 /\ Len(s) \in Nat
        /\ t[Len(s) + 1] = i
        /\ \A k \in 1..Len(s) : t[k] = s[k]
    BY <1>1
  <1>3. \A k \in 1..Len(t) : k = Len(s) + 1 \/ k \in 1..Len(s)
    BY <1>2
  <1>4. \A j \in Range(t) : j \in Range(s) \cup {i}
    <2>1. ASSUME NEW k \in 1..Len(t) PROVE t[k] \in Range(s) \cup {i}
      BY <1>2, <1>3, ElementsOfRange
    <2>2. \A j \in Range(t) : \E k \in 1..Len(t) : t[k] = j
      BY <1>2, ElementsOfRange
    <2> QED
      BY <2>1, <2>2
  <1>5. i \in Range(t)
    BY <1>2, ElementsOfRange
  <1>6. ASSUME NEW j \in Range(s) PROVE j \in Range(t)
    <2>1. PICK k \in 1..Len(s) : s[k] = j
      BY ElementsOfRange
    <2>2. k \in 1..Len(t) /\ t[k] = j
      BY <1>2, <2>1
    <2> QED
      BY <1>2, <2>2, ElementsOfRange
  <1> QED
    BY <1>1, <1>4, <1>5, <1>6

LEMMA ExtendedRange ==
  ASSUME NEW S \in SUBSET Nat, NEW s \in Seq(S), NEW first \in Nat, NEW last \in Nat,
         first..last \subseteq S, first <= last
  PROVE  Range(s \o FromTo(first, last)) \subseteq S
  <1>1. PICK n \in Nat : n = last - first + 1
    OBVIOUS
  <1>2. \A k \in 1..n : first + k - 1 \in first..last
    BY <1>1
  <1>3. FromTo(first, last) \in Seq(S)
    BY <1>1, <1>2 DEF FromTo
  <1>4. s \o FromTo(first, last) \in Seq(S)
    BY <1>3
  <1> QED
    BY <1>4, ElementsOfRange

LEMMA WithoutSelection ==
  ASSUME NEW list \in Seq(Blocks), NEW s \in Selections(list), NEW k \in 1..Len(s)
  PROVE  Without(s, k) \in Selections(list)
  <1>1. PICK n \in Nat : n = Len(s)
    BY SelectionFacts
  <1>2. PICK m \in Nat : n = m + 1
    BY <1>1
  <1>3. PICK t : t = Without(s, k)
    OBVIOUS
  <1>4. t = [l \in 1..m |-> s[IF l < k THEN l ELSE l + 1]]
    <2>1. Len(s) - 1 = m
      BY <1>1, <1>2
    <2> QED
      BY <1>3, <2>1 DEF Without
  <1>5. PICK R : R = 0..(Len(list) - 1)
    OBVIOUS
  <1>6. /\ Ascends(s) /\ R \subseteq Nat
        /\ \A l \in 1..n : s[l] \in R
    BY <1>1, <1>5, SelectionFacts
  <1>7. \A l \in 1..m : (IF l < k THEN l ELSE l + 1) \in 1..n
    BY <1>1, <1>2
  <1>8. t \in Seq(R) /\ t \in Seq(Nat) /\ Len(t) = m
    <2>1. ASSUME NEW l \in 1..m PROVE t[l] \in R
      <3>1. PICK c \in 1..n : c = IF l < k THEN l ELSE l + 1
        BY <1>7
      <3> QED
        BY <1>4, <1>6, <3>1
    <2>2. DOMAIN t = 1..m /\ t = [l \in 1..m |-> t[l]]
      BY <1>4
    <2>3. t \in [1..m -> R] /\ t \in [1..m -> Nat]
      BY <1>6, <2>1, <2>2
    <2> QED
      BY <2>3
  <1>9. \A a, b \in 1..m : a < b =>
          (IF a < k THEN a ELSE a + 1) < (IF b < k THEN b ELSE b + 1)
    BY <1>1, <1>2
  <1>10. Ascends(t)
    <2> SUFFICES ASSUME NEW a \in 1..m, NEW b \in 1..m, a < b PROVE t[a] < t[b]
      BY <1>8 DEF Ascends
    <2>1. PICK c \in 1..n : c = IF a < k THEN a ELSE a + 1
      BY <1>7
    <2>2. PICK d \in 1..n : d = IF b < k THEN b ELSE b + 1
      BY <1>7
    <2>3. c < d
      BY <1>9, <2>1, <2>2
    <2>4. t[a] = s[c] /\ t[b] = s[d]
      BY <1>4, <2>1, <2>2
    <2> QED
      BY <1>1, <1>6, <2>3, <2>4 DEF Ascends
  <1>11. Range(t) \subseteq R
    BY <1>8, ElementsOfRange
  <1> QED
    BY <1>3, <1>5, <1>8, <1>10, <1>11 DEF Selections

-----------------------------------------------------------------------------
(* The calls keep it.                                                      *)
LEMMA InitListInv == Init => ListInv
  <1> SUFFICES ASSUME Init PROVE ListInv
    OBVIOUS
  <1>1. blocks = <<>> /\ selected_indexes = <<>> /\ combined_blocks = <<>>
    BY DEF Init
  <1>2. OfDocument(<<>>)
    BY DEF OfDocument
  <1> QED
    BY <1>1, <1>2, EmptySelection DEF ListInv

LEMMA SetBlocksList ==
  ASSUME ListInv, NEW list \in BlockLists, SetBlocks(list)
  PROVE  ListInv'
  <1>1. blocks' = list /\ selected_indexes' = <<>> /\ combined_blocks' = <<>>
    BY DEF SetBlocks
  <1>2. list \in Seq(Blocks) /\ OfDocument(list)
    BY BlockListsAssumption
  <1> QED
    BY <1>1, <1>2, EmptySelection DEF ListInv

LEMMA SelectedList ==
  ASSUME ListInv, UNCHANGED <<blocks, combined_blocks>>,
         selected_indexes' \in Selections(blocks)
  PROVE  ListInv'
  BY DEF ListInv

LEMMA ListTypes ==
  ASSUME ListInv
  PROVE  /\ blocks \in Seq(Blocks) /\ Len(blocks) \in Nat
         /\ selected_indexes \in Selections(blocks)
         /\ selected_indexes \in Seq(Nat)
         /\ Range(selected_indexes) \subseteq 0..(Len(blocks) - 1)
  BY SelectionFacts DEF ListInv

LEMMA SelectList ==
  ASSUME ListInv, NEW index, Select(index)
  PROVE  ListInv'
  <1>1. CASE UNCHANGED <<blocks, selected_indexes, combined_blocks>>
    BY <1>1, ListTypes, SelectedList
  <1>2. CASE /\ IsValidIndex(index)
             /\ selected_indexes' = SortedUnique(Append(selected_indexes, index))
             /\ UNCHANGED <<blocks, combined_blocks>>
    <2>1. index \in 0..(Len(blocks) - 1) /\ index \in Nat
      BY <1>2, ListTypes DEF IsValidIndex
    <2>2. Range(Append(selected_indexes, index)) \subseteq 0..(Len(blocks) - 1)
      BY <2>1, ListTypes, AppendedRange
    <2> QED
      BY <1>2, <2>2, ListTypes, SortedSelection, SelectedList
  <1> QED
    BY <1>1, <1>2 DEF Select, Refuse

LEMMA SelectRangeList ==
  ASSUME ListInv, NEW first \in Nat, NEW last \in Nat, SelectRange(first, last)
  PROVE  ListInv'
  <1>1. CASE UNCHANGED <<blocks, selected_indexes, combined_blocks>>
    BY <1>1, ListTypes, SelectedList
  <1>2. CASE /\ first <= last /\ IsValidIndex(first) /\ IsValidIndex(last)
             /\ selected_indexes' =
                  SortedUnique(selected_indexes \o FromTo(first, last))
             /\ UNCHANGED <<blocks, combined_blocks>>
    <2>1. PICK S \in SUBSET Nat : S = 0..(Len(blocks) - 1)
      BY ListTypes
    <2>2. selected_indexes \in Seq(S)
      <3>1. \A k \in 1..Len(selected_indexes) : selected_indexes[k] \in S
        BY <2>1, ListTypes, SelectionFacts
      <3> QED
        BY <3>1, ListTypes
    <2>3. first..last \subseteq S
      BY <1>2, <2>1, ListTypes DEF IsValidIndex
    <2>4. Range(selected_indexes \o FromTo(first, last)) \subseteq S
      BY <1>2, <2>1, <2>2, <2>3, ExtendedRange
    <2> QED
      BY <1>2, <2>1, <2>4, ListTypes, SortedSelection, SelectedList
  <1> QED
    BY <1>1, <1>2 DEF SelectRange, Refuse

LEMMA DeselectList ==
  ASSUME ListInv, NEW index, Deselect(index)
  PROVE  ListInv'
  <1>1. CASE UNCHANGED <<blocks, selected_indexes, combined_blocks>>
    BY <1>1, ListTypes, SelectedList
  <1>2. CASE /\ \E k \in 1..Len(selected_indexes) :
                  selected_indexes' = Without(selected_indexes, k)
             /\ UNCHANGED <<blocks, combined_blocks>>
    BY <1>2, ListTypes, WithoutSelection, SelectedList
  <1> QED
    BY <1>1, <1>2 DEF Deselect, Refuse

LEMMA CombineSelectedList ==
  ASSUME ListInv, CombineSelected
  PROVE  ListInv'
  <1>1. CASE UNCHANGED <<blocks, selected_indexes, combined_blocks>>
    BY <1>1, ListTypes, SelectedList
  <1>2. CASE /\ Len(selected_indexes) >= 2
             /\ combined_blocks' =
                  Append(combined_blocks,
                         Group(blocks, SortedUnique(selected_indexes)))
             /\ selected_indexes' = <<>>
             /\ UNCHANGED blocks
    <2>1. SortedUnique(selected_indexes) = selected_indexes
      BY ListTypes, SelectionFacts, OnlyOrder DEF SortedUnique
    <2>2. Group(blocks, selected_indexes) \in GroupsFor(blocks)
      BY <1>2, ListTypes DEF GroupsFor
    <2>3. combined_blocks' \in Seq(GroupsFor(blocks))
      BY <1>2, <2>1, <2>2, AppendProperties DEF ListInv
    <2> QED
      BY <1>2, <2>3, EmptySelection DEF ListInv
  <1> QED
    BY <1>1, <1>2 DEF CombineSelected, Refuse

LEMMA NextListInv == ListInv /\ [Next]_vars => ListInv'
  <1> SUFFICES ASSUME ListInv, [Next]_vars PROVE ListInv'
    OBVIOUS
  <1>1. CASE \E i \in 0..Len(blocks), j \in 0..Len(blocks) : SelectRange(i, j)
    BY <1>1, SelectRangeList
  <1>2. CASE ClearSelection
    BY <1>2, EmptySelection, SelectedList DEF ClearSelection
  <1>3. CASE ClearCombinedBlocks
    BY <1>3 DEF ClearCombinedBlocks, ListInv
  <1>4. CASE Continue \/ Return \/ UNCHANGED vars
    BY <1>4 DEF Continue, Return, vars, ListInv
  <1> QED
    BY <1>1, <1>2, <1>3, <1>4, SetBlocksList, SelectList, DeselectList,
       CombineSelectedList DEF Next

(* For all lists of blocks, and whatever slots do in the middle of a call: *)
(* what is selected are positions of the current blocks, ascending, each   *)
(* once.                                                                   *)
THEOREM SelectionAlwaysOfBlocks == Spec => []SelectionOfBlocks
  <1>1. ListInv => SelectionOfBlocks
    <2> SUFFICES ASSUME ListInv PROVE SelectionOfBlocks
      OBVIOUS
    <2>1. DOMAIN selected_indexes = 1..Len(selected_indexes)
      BY ListTypes
    <2> QED
      BY <2>1, ListTypes, SelectionFacts DEF SelectionOfBlocks, IsValidIndex, Ascends
  <1> QED
    BY InitListInv, NextListInv, <1>1, PTL DEF Spec

-----------------------------------------------------------------------------
(* The text of a group.  FlattenSeq is a recursive function: any function  *)
(* that satisfies its equation is it.                                      *)
Flattens(f, texts, n) ==
  f = [i \in 1..n |-> IF i = 1 THEN texts[i] ELSE f[i - 1] \o texts[i]]

LEMMA FlattenIs ==
  ASSUME NEW texts, NEW n \in Nat \ {0}, Len(texts) = n, NEW f, Flattens(f, texts, n)
  PROVE  Seqs!FlattenSeq(texts) = f[n]
  <1>1. ASSUME NEW h, Flattens(h, texts, n) PROVE h = f
    <2> DEFINE Bad == {i \in 1..n : h[i] # f[i]}
    <2>1. DOMAIN h = 1..n /\ DOMAIN f = 1..n
      BY <1>1 DEF Flattens
    <2>2. \A i \in 1..n : /\ h[i] = IF i = 1 THEN texts[i] ELSE h[i - 1] \o texts[i]
                          /\ f[i] = IF i = 1 THEN texts[i] ELSE f[i - 1] \o texts[i]
      BY <1>1 DEF Flattens
    <2>3. Bad = {}
      <3> SUFFICES ASSUME Bad # {} PROVE FALSE
        OBVIOUS
      <3>1. Bad \in SUBSET Nat
        OBVIOUS
      <3>2. PICK m \in Bad : \A k \in Bad : m <= k
        <4> HIDE DEF Bad
        <4> QED
          BY <3>1, LeastNat
      <3>3. m # 1 /\ m \in 1..n
        BY <2>2
      <3>4. m - 1 \in 1..n /\ ~(m <= m - 1)
        BY <3>3
      <3>5. h[m - 1] = f[m - 1]
        BY <3>2, <3>4
      <3> QED
        BY <2>2, <3>3, <3>5
    <2>4. \A i \in 1..n : h[i] = f[i]
      BY <2>3
    <2>5. h = [i \in 1..n |-> h[i]] /\ f = [i \in 1..n |-> f[i]]
      BY <1>1 DEF Flattens
    <2> QED
      BY <2>4, <2>5
  <1>2. (CHOOSE h : Flattens(h, texts, n)) = f
    BY <1>1
  <1>3. Seqs!FlattenSeq(texts) = (CHOOSE h : Flattens(h, texts, n))[n]
    BY DEF Seqs!FlattenSeq, Flattens
  <1> QED
    BY <1>2, <1>3

(* The texts of a set that is closed under joining are joined to one of    *)
(* them.                                                                   *)
LEMMA FlattenIn ==
  ASSUME NEW n \in Nat \ {0}, NEW P, \A t, r \in P : t \o r \in P,
         NEW texts, texts = [k \in 1..n |-> texts[k]],
         \A k \in 1..n : texts[k] \in P
  PROVE  Seqs!FlattenSeq(texts) \in P
  <1>1. PICK step : step = [k \in 1..n |-> [t \in P |-> IF k = 1 THEN texts[1]
                                                     ELSE t \o texts[k]]]
    OBVIOUS
  <1>2. step \in [1..n -> [P -> P]]
    <2>1. 1 \in 1..n
      OBVIOUS
    <2>2. \A k \in 1..n : \A t \in P :
            (IF k = 1 THEN texts[1] ELSE t \o texts[k]) \in P
      BY <2>1
    <2> QED
      BY <1>1, <2>2
  <1>3. texts[1] \in P /\ 1 \in 1..n
    OBVIOUS
  <1>4. PICK h : Rounds(h, P, texts[1], step, n)
    BY <1>2, <1>3, RoundsExist
  <1>5. /\ h \in [0..n -> P]
        /\ \A k \in 1..n : h[k] = IF k = 1 THEN texts[1] ELSE h[k - 1] \o texts[k]
    <2>1. /\ h \in [0..n -> P]
          /\ \A k \in 1..n : h[k] = step[k][h[k - 1]]
      BY <1>4 DEF Rounds
    <2>2. \A k \in 1..n : k - 1 \in 0..n
      OBVIOUS
    <2> QED
      BY <1>1, <2>1, <2>2
  <1>6. PICK f : f = [k \in 1..n |-> h[k]]
    OBVIOUS
  <1>7. \A k \in 1..n : f[k] = IF k = 1 THEN texts[k] ELSE f[k - 1] \o texts[k]
    <2>1. \A k \in 1..n : k # 1 => k - 1 \in 1..n
      OBVIOUS
    <2> QED
      BY <1>5, <1>6, <2>1
  <1>8. Flattens(f, texts, n)
    <2>1. f = [k \in 1..n |-> f[k]]
      BY <1>6
    <2> QED
      BY <1>7, <2>1 DEF Flattens
  <1>9. Len(texts) = n
    OBVIOUS
  <1>10. Seqs!FlattenSeq(texts) = f[n]
    BY <1>8, <1>9, FlattenIs
  <1>11. n \in 1..n /\ n \in 0..n
    OBVIOUS
  <1> QED
    BY <1>5, <1>6, <1>10, <1>11

(* What is outside of X ascends.                                           *)
AscendsOutside(f, X) ==
  \A k, l \in 1..Len(f) : k < l /\ f[k] \notin X /\ f[l] \notin X => f[k] < f[l]

LEMMA ConcatAscendsOutside ==
  ASSUME NEW a \in Seq(Nat), NEW b \in Seq(Nat), NEW X,
         AscendsOutside(a, X), AscendsOutside(b, X),
         \A x \in Range(a) \ X, y \in Range(b) \ X : x < y
  PROVE  AscendsOutside(a \o b, X)
  <1>1. PICK n \in Nat : n = Len(a)
    OBVIOUS
  <1>2. PICK m \in Nat : m = Len(b)
    OBVIOUS
  <1>3. PICK c : c = a \o b
    OBVIOUS
  <1>4. Joined(c, a, b, n, m) /\ c \in Seq(Nat)
    BY <1>1, <1>2, <1>3, ConcatElements
  <1>5. /\ Len(c) = n + m
        /\ \A i \in 1..n : i \in 1..(n + m) /\ c[i] = a[i]
        /\ \A i \in 1..m : n + i \in 1..(n + m) /\ c[n + i] = b[i]
        /\ \A i \in 1..(n + m) : i \in 1..n \/ \E j \in 1..m : i = n + j
    BY <1>4, Zenon DEF Joined
  <1>6. ASSUME NEW i \in 1..(n + m), NEW j \in 1..(n + m), i < j,
               c[i] \notin X, c[j] \notin X
        PROVE  c[i] < c[j]
    <2>1. CASE j \in 1..n
      <3>1. i \in 1..n
        BY <1>6, <2>1
      <3> QED
        BY <1>1, <1>5, <1>6, <2>1, <3>1 DEF AscendsOutside
    <2>2. CASE i \in 1..n /\ j \notin 1..n
      <3>1. PICK l \in 1..m : j = n + l
        BY <1>5, <2>2
      <3>2. c[i] \in Range(a) /\ c[j] \in Range(b)
        BY <1>1, <1>2, <1>5, <2>2, <3>1, ElementsOfRange
      <3> QED
        BY <1>6, <3>2
    <2>3. CASE i \notin 1..n /\ j \notin 1..n
      <3>1. PICK k \in 1..m : i = n + k
        BY <1>5, <2>3
      <3>2. PICK l \in 1..m : j = n + l
        BY <1>5, <2>3
      <3>3. k < l /\ c[i] = b[k] /\ c[j] = b[l]
        BY <1>5, <1>6, <3>1, <3>2
      <3> QED
        BY <1>2, <1>6, <3>3 DEF AscendsOutside
    <2> QED
      BY <2>1, <2>2, <2>3
  <1> QED
    BY <1>3, <1>5, <1>6 DEF AscendsOutside

LEMMA ConcatAscends ==
  ASSUME NEW a \in Seq(Nat), NEW b \in Seq(Nat), Ascends(a), Ascends(b),
         \A x \in Range(a), y \in Range(b) : x < y
  PROVE  /\ a \o b \in Seq(Nat) /\ Ascends(a \o b)
         /\ Range(a \o b) = Range(a) \cup Range(b)
  <1>1. AscendsOutside(a, {}) /\ AscendsOutside(b, {})
    BY DEF Ascends, AscendsOutside
  <1>2. AscendsOutside(a \o b, {})
    BY <1>1, ConcatAscendsOutside
  <1>3. Ascends(a \o b)
    BY <1>2 DEF Ascends, AscendsOutside
  <1> QED
    BY <1>3, ConcatRange

-----------------------------------------------------------------------------
(* The blocks of a group, in the order of the document.                    *)
InDocument(e, n) ==
  /\ DOMAIN e = 1..n
  /\ \A k \in 1..n :
       /\ e[k].raw_begin \in Nat /\ e[k].raw_end \in Nat
       /\ e[k].raw_begin < e[k].raw_end
       /\ e[k].raw = [i \in 1..(e[k].raw_end - e[k].raw_begin) |->
                        e[k].raw_begin + i - 1]
  /\ \A k, l \in 1..n : k < l => e[k].raw_begin < e[l].raw_begin

LEMMA BeginEnd ==
  ASSUME NEW n \in Nat, NEW e, InDocument(e, n)
  PROVE  /\ \A k \in 1..n : /\ e[k].raw_begin \in Nat /\ e[k].raw_end \in Nat
                            /\ e[k].raw_begin < e[k].raw_end
         /\ \A k, l \in 1..n : k < l => e[k].raw_begin < e[l].raw_begin
  BY Zenon DEF InDocument

LEMMA SpanFacts ==
  ASSUME NEW n \in Nat, NEW e, InDocument(e, n), NEW k \in 1..n
  PROVE  /\ \A x : x \in Span(e[k]) <=> /\ x \in Nat /\ e[k].raw_begin <= x
                                       /\ x < e[k].raw_end
         /\ e[k].raw_begin \in Span(e[k]) /\ e[k].raw_end - 1 \in Span(e[k])
  <1>0. /\ e[k].raw_begin \in Nat /\ e[k].raw_end \in Nat
        /\ e[k].raw_begin < e[k].raw_end
    BY DEF InDocument
  <1>1. PICK b \in Nat : b = e[k].raw_begin
    BY <1>0
  <1>2. PICK c \in Nat : c = e[k].raw_end
    BY <1>0
  <1>3. Span(e[k]) = b..(c - 1) /\ b < c
    BY <1>0, <1>1, <1>2 DEF Span
  <1>4. /\ \A x : x \in b..(c - 1) <=> x \in Nat /\ b <= x /\ x < c
        /\ b \in b..(c - 1) /\ c - 1 \in b..(c - 1)
    BY <1>3
  <1> QED
    BY <1>1, <1>2, <1>3, <1>4

LEMMA CoveredFacts ==
  ASSUME NEW n \in Nat, NEW e, InDocument(e, n)
  PROVE  /\ \A x \in Covered(e) : \E k \in 1..n : x \in Span(e[k])
         /\ \A k \in 1..n : Span(e[k]) \subseteq Covered(e)
  BY DEF InDocument, Covered

(* The raw text of a block is its range in order.                          *)
LEMMA OfTextFacts ==
  ASSUME NEW b, b.raw_begin \in Nat, b.raw_end \in Nat, OfText(b)
  PROVE  b.raw \in Seq(Nat) /\ Ascends(b.raw) /\ Range(b.raw) = Span(b)
  <1>1. PICK c \in Nat : c = b.raw_begin
    OBVIOUS
  <1>2. PICK m \in Nat : m = b.raw_end - b.raw_begin /\ b.raw_end = c + m
    <2>1. PICK e \in Nat : e = b.raw_end
      OBVIOUS
    <2>2. c <= e
      BY <1>1, <2>1 DEF OfText
    <2>3. e - c \in Nat /\ e = c + (e - c)
      BY <2>2
    <2> QED
      BY <1>1, <2>1, <2>3
  <1>3. PICK r : r = b.raw
    OBVIOUS
  <1>4. r = [i \in 1..m |-> c + i - 1]
    BY <1>1, <1>2, <1>3 DEF OfText
  <1>5. \A i \in 1..m : c + i - 1 \in Nat
    OBVIOUS
  <1>6. r \in Seq(Nat) /\ Len(r) = m /\ \A i \in 1..m : r[i] = c + i - 1
    BY <1>4, <1>5
  <1>7. Ascends(r)
    BY <1>6 DEF Ascends
  <1>8. Span(b) = c..(c + m - 1)
    BY <1>1, <1>2 DEF Span
  <1>9. ASSUME NEW x \in Range(r) PROVE x \in Span(b)
    <2>1. PICK i \in 1..m : r[i] = x
      BY <1>6, ElementsOfRange
    <2>2. x = c + i - 1
      BY <1>6, <2>1
    <2> QED
      BY <1>8, <2>2
  <1>10. ASSUME NEW x \in Span(b) PROVE x \in Range(r)
    <2>1. x \in c..(c + m - 1)
      BY <1>8
    <2>2. x - c + 1 \in 1..m /\ c + (x - c + 1) - 1 = x
      BY <2>1
    <2>3. r[x - c + 1] = x
      BY <1>6, <2>2
    <2> QED
      BY <1>6, <2>2, <2>3, ElementsOfRange
  <1> QED
    BY <1>3, <1>6, <1>7, <1>9, <1>10

LEMMA RawFacts ==
  ASSUME NEW n \in Nat, NEW e, InDocument(e, n), NEW k \in 1..n
  PROVE  /\ e[k].raw \in Seq(Nat) /\ Ascends(e[k].raw)
         /\ Range(e[k].raw) = Span(e[k])
  <1>1. /\ e[k].raw_begin \in Nat /\ e[k].raw_end \in Nat
        /\ e[k].raw_begin < e[k].raw_end
    BY DEF InDocument
  <1>2. e[k].raw = [i \in 1..(e[k].raw_end - e[k].raw_begin) |->
                      e[k].raw_begin + i - 1]
    BY DEF InDocument
  <1>3. e[k].raw_begin <= e[k].raw_end
    BY <1>1
  <1> QED
    BY <1>1, <1>2, <1>3, OfTextFacts DEF OfText

(* The positions the first k blocks cover.                                 *)
FirstCovered(e, k) == UNION {Span(e[i]) : i \in 1..k}

LEMMA ApartText ==
  ASSUME NEW n \in Nat \ {0}, NEW e, InDocument(e, n), Apart(e)
  PROVE  Seqs!FlattenSeq([k \in 1..n |-> e[k].raw]) = Ascending(Covered(e))
  <1>1. PICK texts : texts = [k \in 1..n |-> e[k].raw]
    OBVIOUS
  <1>2. PICK f : f = [k \in 1..n |-> Ascending(FirstCovered(e, k))]
    OBVIOUS
  <1>3. ASSUME NEW k \in 1..n, NEW i \in 1..n, i < k
        PROVE  \A x \in Span(e[i]) : x < e[k].raw_begin
    <2>1. e[k].raw_begin \in Span(e[k]) /\ Span(e[i]) \cap Span(e[k]) = {}
      BY <1>3, SpanFacts DEF Apart, Disjoint, InDocument
    <2>2. e[k].raw_begin \notin Span(e[i])
      BY <2>1
    <2>3. /\ e[k].raw_begin \in Nat /\ e[i].raw_begin \in Nat /\ e[i].raw_end \in Nat
          /\ e[i].raw_begin < e[k].raw_begin
      BY <1>3 DEF InDocument
    <2>4. e[i].raw_end <= e[k].raw_begin
      BY <2>2, <2>3, SpanFacts
    <2> QED
      BY <2>3, <2>4, SpanFacts
  <1>4. ASSUME NEW k \in 1..n, k # 1
        PROVE  Ascending(FirstCovered(e, k)) = Ascending(FirstCovered(e, k - 1)) \o e[k].raw
    <2>1. PICK m \in 1..n : m = k - 1
      BY <1>4
    <2>2. PICK before : before = FirstCovered(e, m)
      OBVIOUS
    <2>3. PICK b \in Nat : b = e[k].raw_begin
      BY DEF InDocument
    <2>4. \A i \in 1..m : i \in 1..n /\ i < k
      BY <2>1
    <2>5. \A x \in before : x \in Nat /\ x < b
      BY <1>3, <2>2, <2>3, <2>4, SpanFacts DEF FirstCovered
    <2>6. before \in SUBSET Nat /\ IsFiniteSet(before)
      <3>1. before \in SUBSET (0..b)
        BY <2>5
      <3>2. IsFiniteSet(0..b)
        BY FS_Interval
      <3> QED
        BY <2>5, <3>1, <3>2, FS_Subset
    <2>7. PICK a : a = Ascending(before)
      OBVIOUS
    <2>8. a \in Seq(Nat) /\ Ascends(a) /\ Range(a) = before
      BY <2>6, <2>7, AscendingFacts
    <2>9. PICK r : r = e[k].raw
      OBVIOUS
    <2>10. r \in Seq(Nat) /\ Ascends(r) /\ Range(r) = Span(e[k])
      BY <2>9, RawFacts
    <2>11. \A x \in Range(a), y \in Range(r) : x < y
      <3>1. \A y \in Range(r) : y \in Nat /\ b <= y
        BY <2>3, <2>10, SpanFacts
      <3>2. \A x \in Range(a) : x \in Nat /\ x < b
        BY <2>5, <2>8
      <3> QED
        BY <3>1, <3>2
    <2>12. FirstCovered(e, k) = before \cup Span(e[k])
      <3>1. \A i \in 1..k : i = k \/ i \in 1..m
        BY <2>1
      <3>2. k \in 1..k /\ \A i \in 1..m : i \in 1..k
        BY <2>1
      <3> QED
        BY <2>2, <3>1, <3>2 DEF FirstCovered
    <2>13. /\ a \o r \in Seq(Nat) /\ Ascends(a \o r)
           /\ Range(a \o r) = before \cup Span(e[k])
      BY <2>8, <2>10, <2>11, ConcatAscends
    <2>14. Ascending(before \cup Span(e[k])) = a \o r
      BY <2>13, OnlyOrder
    <2> QED
      BY <2>1, <2>2, <2>7, <2>9, <2>12, <2>14
  <1>5. Ascending(FirstCovered(e, 1)) = e[1].raw
    <2>1. 1 \in 1..n /\ \A i : i \in 1..1 <=> i = 1
      OBVIOUS
    <2>2. FirstCovered(e, 1) = Span(e[1])
      BY <2>1 DEF FirstCovered
    <2>3. /\ e[1].raw \in Seq(Nat) /\ Ascends(e[1].raw)
          /\ Range(e[1].raw) = Span(e[1])
      BY <2>1, RawFacts
    <2> QED
      BY <2>2, <2>3, OnlyOrder
  <1>6. Flattens(f, texts, n)
    <2>1. ASSUME NEW i \in 1..n
          PROVE  f[i] = IF i = 1 THEN texts[i] ELSE f[i - 1] \o texts[i]
      <3>1. CASE i = 1
        BY <1>1, <1>2, <1>5, <3>1
      <3>2. CASE i # 1
        <4>1. i - 1 \in 1..n
          BY <3>2
        <4> QED
          BY <1>1, <1>2, <1>4, <3>2, <4>1
      <3> QED
        BY <3>1, <3>2
    <2>2. f = [i \in 1..n |-> f[i]]
      BY <1>2
    <2> QED
      BY <2>1, <2>2 DEF Flattens
  <1>7. Len(texts) = n
    BY <1>1
  <1>8. f[n] = Ascending(FirstCovered(e, n))
    BY <1>2
  <1>9. FirstCovered(e, n) = Covered(e)
    BY DEF FirstCovered, Covered, InDocument
  <1> QED
    BY <1>1, <1>6, <1>7, <1>8, <1>9, FlattenIs

(* The range of a group is that of the blocks it covers.                   *)
LEMMA GroupBegin ==
  ASSUME NEW n \in Nat \ {0}, NEW e, InDocument(e, n)
  PROVE  Sets!Min({e[k].raw_begin : k \in 1..n}) = Sets!Min(Covered(e))
  <1>1. PICK b \in Nat : b = e[1].raw_begin
    <2>1. 1 \in 1..n
      OBVIOUS
    <2> QED
      BY <2>1, BeginEnd
  <1>2. 1 \in 1..n
    OBVIOUS
  <1>3. ASSUME NEW k \in 1..n PROVE e[k].raw_begin \in Nat /\ b <= e[k].raw_begin
    <2>1. k = 1 \/ 1 < k
      OBVIOUS
    <2> QED
      BY <1>1, <1>2, <2>1, BeginEnd
  <1>4. PICK B : B = {e[k].raw_begin : k \in 1..n}
    OBVIOUS
  <1>5. b \in B /\ \A x \in B : x \in Nat /\ b <= x
    BY <1>1, <1>2, <1>3, <1>4
  <1>6. b \in Covered(e) /\ \A x \in Covered(e) : x \in Nat /\ b <= x
    <2>1. b \in Covered(e)
      BY <1>1, <1>2, SpanFacts, CoveredFacts
    <2>2. ASSUME NEW x \in Covered(e) PROVE x \in Nat /\ b <= x
      <3>1. PICK k \in 1..n : x \in Span(e[k])
        BY CoveredFacts
      <3>2. x \in Nat /\ e[k].raw_begin <= x
        BY <3>1, SpanFacts
      <3> QED
        BY <1>3, <3>2
    <2> QED
      BY <2>1, <2>2
  <1>7. \A S : b \in S /\ (\A x \in S : x \in Nat /\ b <= x) => Sets!Min(S) = b
    <2> SUFFICES ASSUME NEW S, b \in S, \A x \in S : x \in Nat /\ b <= x
                 PROVE  Sets!Min(S) = b
      OBVIOUS
    <2>1. \A x \in S : (\A y \in S : x <= y) => x = b
      OBVIOUS
    <2> QED
      BY <2>1 DEF Sets!Min
  <1> QED
    BY <1>4, <1>5, <1>6, <1>7

LEMMA GroupEnd ==
  ASSUME NEW n \in Nat \ {0}, NEW e, InDocument(e, n)
  PROVE  Sets!Max({e[k].raw_end : k \in 1..n}) = Sets!Max(Covered(e)) + 1
  <1>1. PICK B : B = {e[k].raw_end : k \in 1..n}
    OBVIOUS
  <1>2. 1 \in 1..n /\ \A k \in 1..n : e[k].raw_end \in Nat \ {0} /\ e[k].raw_end \in B
    <2>1. ASSUME NEW k \in 1..n PROVE e[k].raw_end \in Nat \ {0}
      <3>1. PICK b \in Nat : b = e[k].raw_begin
        BY BeginEnd
      <3>2. PICK c \in Nat : c = e[k].raw_end
        BY BeginEnd
      <3>3. b < c
        BY <3>1, <3>2, BeginEnd
      <3> QED
        BY <3>2, <3>3
    <2> QED
      BY <1>1, <2>1
  <1>3. B \in SUBSET Nat /\ IsFiniteSet(B)
    <2>1. PICK f : f = [k \in 1..n |-> e[k].raw_end]
      OBVIOUS
    <2>2. f \in Surjection(1..n, B)
      BY <1>1, <2>1 DEF Surjection
    <2>3. IsFiniteSet(1..n)
      BY FS_Interval
    <2> QED
      BY <1>1, <1>2, <2>2, <2>3, FS_Surjection
  <1>4. PICK m \in B : \A x \in B : x <= m
    <2>1. PICK s : s = Ascending(B)
      OBVIOUS
    <2>2. s \in Seq(Nat) /\ Ascends(s) /\ Range(s) = B
      BY <1>3, <2>1, AscendingFacts
    <2>3. Len(s) \in 1..Len(s)
      <3>1. \E i \in 1..Len(s) : s[i] = e[1].raw_end
        BY <1>2, <2>2, ElementsOfRange
      <3> QED
        BY <2>2, <3>1
    <2>4. ASSUME NEW x \in B PROVE x <= s[Len(s)]
      <3>1. PICK i \in 1..Len(s) : s[i] = x
        BY <2>2, ElementsOfRange
      <3>2. i = Len(s) \/ i < Len(s)
        BY <2>2
      <3>3. s[Len(s)] \in Nat /\ x \in Nat
        BY <1>3, <2>2, <2>3
      <3> QED
        BY <2>2, <2>3, <3>1, <3>2, <3>3 DEF Ascends
    <2>5. s[Len(s)] \in B
      BY <2>2, <2>3, ElementsOfRange
    <2> QED
      BY <2>4, <2>5
  <1>5. m \in Nat \ {0} /\ \A x \in B : x \in Nat
    BY <1>1, <1>2, <1>3
  <1>6. Sets!Max(B) = m
    <2>1. \A x \in B : (\A y \in B : x >= y) => x = m
      BY <1>4, <1>5
    <2> QED
      BY <1>4, <1>5, <2>1 DEF Sets!Max
  <1>7. PICK d \in Nat : d = m - 1
    BY <1>5
  <1>8. d \in Covered(e)
    <2>1. PICK k \in 1..n : m = e[k].raw_end
      BY <1>1
    <2>2. d \in Span(e[k])
      BY <1>7, <2>1, SpanFacts
    <2> QED
      BY <2>2, CoveredFacts
  <1>9. ASSUME NEW x \in Covered(e) PROVE x \in Nat /\ x <= d
    <2>1. PICK k \in 1..n : x \in Span(e[k])
      BY CoveredFacts
    <2>2. x \in Nat /\ x < e[k].raw_end
      BY <2>1, SpanFacts
    <2>3. e[k].raw_end \in Nat /\ e[k].raw_end <= m
      BY <1>2, <1>4
    <2> QED
      BY <1>5, <1>7, <2>2, <2>3
  <1>10. Sets!Max(Covered(e)) = d
    <2>1. \A x \in Covered(e) : (\A y \in Covered(e) : x >= y) => x = d
      BY <1>8, <1>9
    <2> QED
      BY <1>8, <1>9, <2>1 DEF Sets!Max
  <1> QED
    BY <1>1, <1>5, <1>6, <1>7, <1>10

LEMMA GroupFacts ==
  ASSUME NEW list \in Seq(Blocks), OfDocument(list), NEW g \in GroupsFor(list)
  PROVE  LET members == g.source_indexes
         IN  /\ Len(members) >= 2
             /\ \A k, l \in DOMAIN members : k < l => members[k] < members[l]
             /\ MadeOf(g, list)
             /\ g.raw_begin = Sets!Min(Covered(g.elements))
             /\ g.raw_end = Sets!Max(Covered(g.elements)) + 1
             /\ Apart(g.elements) => g.raw = Ascending(Covered(g.elements))
  <1>1. PICK s \in Selections(list) : Len(s) >= 2 /\ g = Group(list, s)
    BY DEF GroupsFor
  <1>2. s \in Seq(Nat) /\ Ascends(s)
        /\ \A k \in 1..Len(s) : s[k] \in 0..(Len(list) - 1)
    BY <1>1, SelectionFacts
  <1>3. PICK n \in Nat \ {0} : n = Len(s) /\ n >= 2
    BY <1>1, <1>2
  <1>4. DOMAIN s = 1..n
    BY <1>2, <1>3
  <1>5. PICK e : e = [k \in 1..n |-> list[s[k] + 1]]
    OBVIOUS
  <1>6. /\ g.source_indexes = s /\ g.elements = e
        /\ g.raw_begin = Sets!Min({e[k].raw_begin : k \in 1..n})
        /\ g.raw_end = Sets!Max({e[k].raw_end : k \in 1..n})
        /\ g.raw = Seqs!FlattenSeq([k \in 1..n |-> e[k].raw])
    BY <1>1, <1>4, <1>5 DEF Group
  <1>7. \A k \in 1..n : s[k] + 1 \in 1..Len(list)
    BY <1>2, <1>3
  <1>8. MadeOf(g, list)
    BY <1>4, <1>5, <1>6, <1>7 DEF MadeOf
  <1>9. InDocument(e, n)
    <2>1. ASSUME NEW k \in 1..n
          PROVE  /\ e[k].raw_begin \in Nat /\ e[k].raw_end \in Nat
                 /\ e[k].raw_begin < e[k].raw_end
                 /\ e[k].raw = [i \in 1..(e[k].raw_end - e[k].raw_begin) |->
                                  e[k].raw_begin + i - 1]
      <3>1. PICK i \in 1..Len(list) : i = s[k] + 1
        BY <1>7
      <3>2. e[k] = list[i] /\ list[i] \in Blocks
        BY <1>5, <3>1
      <3> QED
        BY <3>2 DEF OfDocument, Blocks
    <2>2. ASSUME NEW k \in 1..n, NEW l \in 1..n, k < l
          PROVE  e[k].raw_begin < e[l].raw_begin
      <3>1. PICK i \in 1..Len(list) : i = s[k] + 1
        BY <1>7
      <3>2. PICK j \in 1..Len(list) : j = s[l] + 1
        BY <1>7
      <3>3. i < j
        BY <1>2, <1>3, <2>2, <3>1, <3>2 DEF Ascends
      <3> QED
        BY <1>5, <3>1, <3>2, <3>3 DEF OfDocument
    <2> QED
      BY <1>5, <2>1, <2>2 DEF InDocument
  <1>10. Apart(e) => g.raw = Ascending(Covered(e))
    BY <1>6, <1>9, ApartText
  <1>11. /\ g.raw_begin = Sets!Min(Covered(e))
         /\ g.raw_end = Sets!Max(Covered(e)) + 1
    <2>1. /\ Sets!Min({e[k].raw_begin : k \in 1..n}) = Sets!Min(Covered(e))
          /\ Sets!Max({e[k].raw_end : k \in 1..n}) = Sets!Max(Covered(e)) + 1
      BY <1>9, GroupBegin, GroupEnd
    <2> QED
      BY <1>6, <2>1, Zenon
  <1> QED
    BY <1>2, <1>3, <1>4, <1>6, <1>8, <1>10, <1>11 DEF Ascends

(* For all documents: the groups are made of the current blocks, span what *)
(* these cover, and hold their text in document order when the blocks lie  *)
(* apart, whatever the order of selection was and whatever slots did.      *)
THEOREM GroupsAlwaysOfBlocks == Spec => []GroupsOfBlocks
  <1>1. ListInv => GroupsOfBlocks
    <2> SUFFICES ASSUME ListInv, NEW g \in Range(combined_blocks)
                 PROVE  LET members == g.source_indexes
                        IN  /\ Len(members) >= 2
                            /\ \A k, l \in DOMAIN members :
                                 k < l => members[k] < members[l]
                            /\ MadeOf(g, blocks)
                            /\ g.raw_begin = Sets!Min(Covered(g.elements))
                            /\ g.raw_end = Sets!Max(Covered(g.elements)) + 1
                            /\ Apart(g.elements) => g.raw = Ascending(Covered(g.elements))
      BY DEF GroupsOfBlocks
    <2>1. /\ combined_blocks \in Seq(GroupsFor(blocks))
          /\ blocks \in Seq(Blocks) /\ OfDocument(blocks)
      BY DEF ListInv
    <2>2. g \in GroupsFor(blocks)
      BY <2>1, ElementsOfRange
    <2> QED
      BY <2>1, <2>2, GroupFacts
  <1> QED
    BY InitListInv, NextListInv, <1>1, PTL DEF Spec

-----------------------------------------------------------------------------
(* BlockHTMLSerializer.  The loop is a recursive function of the number of *)
(* units it has seen.                                                      *)
TextUnits == [raw_begin : Nat, raw_end : Nat, raw : Seq(Nat)]

Progress == [html : Seq(Nat), furthestEnd : Int]

(* The loop, round by round.                                               *)
LEMMA WriteUnitType ==
  ASSUME NEW w \in Progress, NEW u \in TextUnits
  PROVE  WriteUnit(w, u) \in Progress
  <1>1. w.html \in Seq(Nat) /\ u.raw \in Seq(Nat) /\ u.raw_end \in Nat
    BY DEF Progress, TextUnits
  <1>2. w.html \o u.raw \in Seq(Nat) /\ u.raw_end \in Int
    BY <1>1
  <1> QED
    BY <1>2 DEF WriteUnit, Progress

LEMMA LoopFacts ==
  ASSUME NEW s \in Seq(TextUnits), NEW n \in Nat, n = Len(s)
  PROVE  /\ \A k \in 0..n : Loop(s)[k] \in Progress
         /\ Loop(s)[0] = [html |-> <<>>, furthestEnd |-> NoEnd]
         /\ \A k \in 1..n : Loop(s)[k] = WriteUnit(Loop(s)[k - 1], s[k])
  <1> DEFINE Start == [html |-> <<>>, furthestEnd |-> NoEnd]
             IsLoop(f) ==
               f = [k \in 0..n |-> IF k = 0 THEN Start ELSE WriteUnit(f[k - 1], s[k])]
  <1>0. \A k \in 1..n : s[k] \in TextUnits
    OBVIOUS
  <1>1. PICK step : step = [k \in 1..n |-> [w \in Progress |-> WriteUnit(w, s[k])]]
    OBVIOUS
  <1>2. step \in [1..n -> [Progress -> Progress]]
    <2>1. \A k \in 1..n : [w \in Progress |-> WriteUnit(w, s[k])] \in [Progress -> Progress]
      BY <1>0, WriteUnitType
    <2> QED
      BY <1>1, <2>1
  <1>3. Start \in Progress
    BY DEF Progress, NoEnd
  <1>4. PICK f : Rounds(f, Progress, Start, step, n)
    <2> HIDE DEF Start
    <2> QED
      BY <1>2, <1>3, RoundsExist
  <1>5. /\ f \in [0..n -> Progress] /\ f[0] = Start
        /\ \A k \in 1..n : f[k] = WriteUnit(f[k - 1], s[k])
    <2>1. /\ f \in [0..n -> Progress] /\ f[0] = Start
          /\ \A k \in 1..n : f[k] = step[k][f[k - 1]]
      BY <1>4 DEF Rounds
    <2>2. \A k \in 1..n : k - 1 \in 0..n
      OBVIOUS
    <2> HIDE DEF Start
    <2> QED
      BY <1>1, <2>1, <2>2
  <1>6. IsLoop(f)
    <2> HIDE DEF Start
    <2>1. f = [k \in 0..n |-> f[k]]
      BY <1>5
    <2>2. \A k \in 0..n : k = 0 \/ k \in 1..n
      OBVIOUS
    <2> QED
      BY <1>5, <2>1, <2>2
  <1>7. PICK g : g = Loop(s)
    OBVIOUS
  <1>8. IsLoop(g)
    <2>1. g = CHOOSE h : IsLoop(h)
      BY <1>7 DEF Loop
    <2> HIDE DEF IsLoop
    <2> QED
      BY <1>6, <2>1
  <1>9. g[0] = Start /\ \A k \in 1..n : g[k] = WriteUnit(g[k - 1], s[k])
    <2> HIDE DEF Start
    <2>1. \A k \in 1..n : k \in 0..n /\ k # 0
      OBVIOUS
    <2>2. 0 \in 0..n
      OBVIOUS
    <2> QED
      BY <1>8, <2>1, <2>2
  <1>10. 0..n \subseteq {k \in 0..n : g[k] \in Progress}
    <2>1. \A k \in 1..n : k - 1 \in 0..n /\ k \in 0..n
      OBVIOUS
    <2> HIDE DEF Start
    <2>2. PICK S : S = {k \in 0..n : g[k] \in Progress}
      OBVIOUS
    <2>3. \A k \in 1..n : k - 1 \in S => k \in S
      BY <1>0, <1>9, <2>1, <2>2, WriteUnitType
    <2>4. 0 \in S
      BY <1>3, <1>9, <2>2
    <2>5. 0..n \subseteq S
      BY <2>3, <2>4, CountUp
    <2> QED
      BY <2>2, <2>5
  <1> QED
    BY <1>7, <1>9, <1>10

(* And the text of the outermost units, unit by unit.                      *)
LEMMA OutermostFacts ==
  ASSUME NEW s \in Seq(TextUnits), NEW n \in Nat, n = Len(s)
  PROVE  /\ \A k \in 0..n : OutermostText(s)[k] \in Seq(Nat)
         /\ OutermostText(s)[0] = <<>>
         /\ \A k \in 1..n :
              OutermostText(s)[k] =
                IF Outermost(s, k) THEN OutermostText(s)[k - 1] \o s[k].raw
                ELSE OutermostText(s)[k - 1]
  <1> DEFINE IsText(f) ==
               f = [k \in 0..n |->
                      IF k = 0 THEN <<>>
                      ELSE IF Outermost(s, k) THEN f[k - 1] \o s[k].raw ELSE f[k - 1]]
  <1>0. \A k \in 1..n : s[k].raw \in Seq(Nat)
    <2>1. \A k \in 1..n : s[k] \in TextUnits
      OBVIOUS
    <2> QED
      BY <2>1 DEF TextUnits
  <1>1. PICK step : step = [k \in 1..n |-> [w \in Seq(Nat) |->
                              IF Outermost(s, k) THEN w \o s[k].raw ELSE w]]
    OBVIOUS
  <1>2. step \in [1..n -> [Seq(Nat) -> Seq(Nat)]]
    <2>1. \A k \in 1..n : \A w \in Seq(Nat) :
            (IF Outermost(s, k) THEN w \o s[k].raw ELSE w) \in Seq(Nat)
      BY <1>0
    <2> QED
      BY <1>1, <2>1
  <1>3. <<>> \in Seq(Nat)
    OBVIOUS
  <1>4. PICK f : Rounds(f, Seq(Nat), <<>>, step, n)
    BY <1>2, <1>3, RoundsExist
  <1>5. /\ f \in [0..n -> Seq(Nat)] /\ f[0] = <<>>
        /\ \A k \in 1..n : f[k] = IF Outermost(s, k) THEN f[k - 1] \o s[k].raw
                                  ELSE f[k - 1]
    <2>1. /\ f \in [0..n -> Seq(Nat)] /\ f[0] = <<>>
          /\ \A k \in 1..n : f[k] = step[k][f[k - 1]]
      BY <1>4 DEF Rounds
    <2>2. \A k \in 1..n : k - 1 \in 0..n
      OBVIOUS
    <2> QED
      BY <1>1, <2>1, <2>2
  <1>6. IsText(f)
    <2>1. f = [k \in 0..n |-> f[k]]
      BY <1>5
    <2>2. \A k \in 0..n : k = 0 \/ k \in 1..n
      OBVIOUS
    <2> QED
      BY <1>5, <2>1, <2>2
  <1>7. PICK g : g = OutermostText(s)
    OBVIOUS
  <1>8. IsText(g)
    <2>1. g = CHOOSE h : IsText(h)
      BY <1>7 DEF OutermostText
    <2> HIDE DEF IsText
    <2> QED
      BY <1>6, <2>1
  <1>9. g[0] = <<>>
        /\ \A k \in 1..n : g[k] = IF Outermost(s, k) THEN g[k - 1] \o s[k].raw
                                  ELSE g[k - 1]
    <2>1. \A k \in 1..n : k \in 0..n /\ k # 0
      OBVIOUS
    <2>2. 0 \in 0..n
      OBVIOUS
    <2> QED
      BY <1>8, <2>1, <2>2
  <1>10. 0..n \subseteq {k \in 0..n : g[k] \in Seq(Nat)}
    <2>1. \A k \in 1..n : k - 1 \in 0..n /\ k \in 0..n
      OBVIOUS
    <2>2. PICK S : S = {k \in 0..n : g[k] \in Seq(Nat)}
      OBVIOUS
    <2>3. ASSUME NEW k \in 1..n, k - 1 \in S PROVE k \in S
      <3>1. g[k - 1] \in Seq(Nat) /\ s[k].raw \in Seq(Nat)
        BY <1>0, <2>2, <2>3
      <3>2. g[k - 1] \o s[k].raw \in Seq(Nat)
        BY <3>1
      <3>3. g[k] = g[k - 1] \o s[k].raw \/ g[k] = g[k - 1]
        BY <1>9
      <3> QED
        BY <2>1, <2>2, <3>1, <3>2, <3>3
    <2>4. 0 \in S
      <3>1. g[0] = <<>> /\ 0 \in 0..n
        BY <1>9
      <3> QED
        BY <1>3, <2>2, <3>1
    <2>5. 0..n \subseteq S
      BY <2>3, <2>4, CountUp
    <2> QED
      BY <2>2, <2>5
  <1> QED
    BY <1>7, <1>9, <1>10

SortedUnits(s) == \A i, j \in 1..Len(s) : i < j => ~Before(s[j], s[i])

(* The end that is kept is the largest so far, so a unit is skipped when,  *)
(* and only when, it lies within an earlier one.                           *)
LEMMA EndIsFurthest ==
  ASSUME NEW s \in Seq(TextUnits), NEW n \in Nat, n = Len(s), NEW k \in 0..n
  PROVE  /\ \A j \in 1..k : s[j].raw_end <= Loop(s)[k].furthestEnd
         /\ k = 0 => Loop(s)[k].furthestEnd = -1
         /\ k # 0 => \E j \in 1..k : s[j].raw_end = Loop(s)[k].furthestEnd
  <1> DEFINE Right(m, far) ==
               /\ \A j \in 1..m : s[j].raw_end <= far
               /\ m = 0 => far = -1
               /\ m # 0 => \E j \in 1..m : s[j].raw_end = far
             S == {m \in 0..n : Right(m, Loop(s)[m].furthestEnd)}
  <1>1. \A j \in 1..n : s[j].raw_end \in Nat
    <2>1. \A j \in 1..n : s[j] \in TextUnits
      OBVIOUS
    <2> QED
      BY <2>1 DEF TextUnits
  <1>2. 0 \in S
    <2>1. Loop(s)[0].furthestEnd = -1
      BY LoopFacts DEF NoEnd
    <2> QED
      BY <2>1
  <1>3. ASSUME NEW m \in 1..n, m - 1 \in S PROVE m \in S
    <2>1. PICK p \in Nat : p = m - 1 /\ m = p + 1
      OBVIOUS
    <2>2. p \in 0..n /\ m \in 0..n
      BY <2>1
    <2>3. PICK w : w = Loop(s)[p]
      OBVIOUS
    <2>4. PICK v : v = Loop(s)[m]
      OBVIOUS
    <2>5. w.furthestEnd \in Int /\ v = WriteUnit(w, s[m])
      BY <2>1, <2>2, <2>3, <2>4, LoopFacts DEF Progress
    <2>6. PICK far \in Int : far = w.furthestEnd
      BY <2>5
    <2>7. PICK end \in Nat : end = s[m].raw_end
      BY <1>1
    <2>8. v.furthestEnd = IF end <= far THEN far ELSE end
      BY <2>5, <2>6, <2>7 DEF WriteUnit
    <2>9. Right(p, far)
      BY <1>3, <2>1, <2>3, <2>6
    <2>10. \A j \in 1..m : j \in 1..p \/ j = m
      BY <2>1
    <2>11. m \in 1..m /\ m # 0 /\ \A j \in 1..p : j \in 1..m
      BY <2>1
    <2>12. \A j \in 1..m : s[j].raw_end \in Nat
      BY <1>1
    <2>13. CASE end <= far
      <3>1. p # 0
        BY <2>9, <2>13
      <3>2. PICK j \in 1..p : s[j].raw_end = far
        BY <2>9, <3>1
      <3>3. \A i \in 1..m : s[i].raw_end <= far
        BY <2>7, <2>9, <2>10, <2>13
      <3>4. Right(m, far)
        BY <2>11, <3>2, <3>3
      <3> QED
        BY <2>2, <2>4, <2>8, <2>13, <3>4
    <2>14. CASE ~(end <= far)
      <3>1. \A i \in 1..m : s[i].raw_end <= end
        BY <2>7, <2>9, <2>10, <2>12, <2>14
      <3>2. Right(m, end)
        BY <2>7, <2>11, <3>1
      <3> QED
        BY <2>2, <2>4, <2>8, <2>14, <3>2
    <2> QED
      BY <2>13, <2>14
  <1>4. 0..n \subseteq S
    <2> HIDE DEF S
    <2> QED
      BY <1>2, <1>3, CountUp
  <1> QED
    BY <1>4

LEMMA SkippedWithin ==
  ASSUME NEW s \in Seq(TextUnits), SortedUnits(s), NEW n \in Nat, n = Len(s),
         NEW k \in 1..n
  PROVE  s[k].raw_end <= Loop(s)[k - 1].furthestEnd <=> ~Outermost(s, k)
  <1>1. PICK p \in Nat : p = k - 1 /\ k = p + 1
    OBVIOUS
  <1>2. p \in 0..n
    BY <1>1
  <1>3. \A j \in 1..n : s[j] \in TextUnits
    OBVIOUS
  <1>4. \A j \in 1..n : s[j].raw_end \in Nat /\ s[j].raw_begin \in Nat
    BY <1>3 DEF TextUnits
  <1>5. PICK far \in Int : far = Loop(s)[p].furthestEnd
    BY <1>2, LoopFacts DEF Progress
  <1>6. /\ \A j \in 1..p : s[j].raw_end <= far
        /\ p = 0 => far = -1
        /\ p # 0 => \E j \in 1..p : s[j].raw_end = far
    BY <1>2, <1>5, EndIsFurthest
  <1>7. \A j \in 1..p : j \in 1..n /\ j < k
    BY <1>1
  <1>8. ASSUME NEW j \in 1..p PROVE s[j].raw_begin <= s[k].raw_begin
    <2>1. ~Before(s[k], s[j])
      BY <1>7 DEF SortedUnits
    <2> QED
      BY <1>4, <1>7, <2>1 DEF Before
  <1>9. ASSUME s[k].raw_end <= far PROVE ~Outermost(s, k)
    <2>1. p # 0
      BY <1>4, <1>6, <1>9
    <2>2. PICK j \in 1..p : s[j].raw_end = far
      BY <1>6, <2>1
    <2>3. Within(s[k], s[j])
      BY <1>8, <1>9, <2>2 DEF Within
    <2>4. j \in 1..(k - 1)
      BY <1>1
    <2> QED
      BY <2>3, <2>4 DEF Outermost
  <1>10. ASSUME ~Outermost(s, k) PROVE s[k].raw_end <= far
    <2>1. PICK j \in 1..p : Within(s[k], s[j])
      BY <1>1, <1>10 DEF Outermost
    <2>2. s[k].raw_end <= s[j].raw_end /\ s[j].raw_end <= far
      BY <1>6, <2>1 DEF Within
    <2>3. s[k].raw_end \in Nat /\ s[j].raw_end \in Nat
      BY <1>4, <1>7
    <2> QED
      BY <2>2, <2>3
  <1> QED
    BY <1>1, <1>5, <1>9, <1>10

LEMMA LoopWritesOutermost ==
  ASSUME NEW s \in Seq(TextUnits), SortedUnits(s)
  PROVE  Loop(s)[Len(s)].html = OutermostText(s)[Len(s)]
  <1>1. PICK n \in Nat : n = Len(s)
    OBVIOUS
  <1>2. PICK S : S = {k \in 0..n : Loop(s)[k].html = OutermostText(s)[k]}
    OBVIOUS
  <1>3. 0 \in S
    <2>1. Loop(s)[0].html = <<>> /\ OutermostText(s)[0] = <<>> /\ 0 \in 0..n
      BY <1>1, LoopFacts, OutermostFacts
    <2> QED
      BY <1>2, <2>1
  <1>4. ASSUME NEW k \in 1..n, k - 1 \in S PROVE k \in S
    <2>1. PICK w : w = Loop(s)[k - 1]
      OBVIOUS
    <2>2. PICK t : t = OutermostText(s)[k - 1]
      OBVIOUS
    <2>3. w.html = t
      BY <1>2, <1>4, <2>1, <2>2
    <2>4. Loop(s)[k] = WriteUnit(w, s[k])
      BY <1>1, <2>1, LoopFacts
    <2>5. OutermostText(s)[k] = IF Outermost(s, k) THEN t \o s[k].raw ELSE t
      BY <1>1, <2>2, OutermostFacts
    <2>6. s[k].raw_end <= w.furthestEnd <=> ~Outermost(s, k)
      BY <1>1, <2>1, SkippedWithin
    <2>7. Loop(s)[k].html = OutermostText(s)[k]
      <3>1. CASE Outermost(s, k)
        <4>1. Loop(s)[k] = [html |-> w.html \o s[k].raw, furthestEnd |-> s[k].raw_end]
          BY <2>4, <2>6, <3>1 DEF WriteUnit
        <4> QED
          BY <2>3, <2>5, <3>1, <4>1
      <3>2. CASE ~Outermost(s, k)
        <4>1. Loop(s)[k] = w
          BY <2>4, <2>6, <3>2 DEF WriteUnit
        <4> QED
          BY <2>3, <2>5, <3>2, <4>1
      <3> QED
        BY <3>1, <3>2
    <2>8. k \in 0..n
      OBVIOUS
    <2> QED
      BY <1>2, <2>7, <2>8
  <1>5. 0..n \subseteq S
    BY <1>3, <1>4, CountUp
  <1>6. n \in 0..n
    OBVIOUS
  <1> QED
    BY <1>1, <1>2, <1>5, <1>6

-----------------------------------------------------------------------------
LEMMA SortingFacts ==
  ASSUME NEW units \in Seq(TextUnits), NEW s \in Sortings(units)
  PROVE  /\ s \in Seq(TextUnits) /\ SortedUnits(s)
         /\ Len(s) = Len(units) /\ Range(s) = Range(units)
  <1>1. PICK n \in Nat : n = Len(units) /\ DOMAIN units = 1..n
    OBVIOUS
  <1>2. PICK p \in Bijection(1..n, 1..n) :
          /\ \A i, j \in 1..n : i < j => ~Before(units[p[j]], units[p[i]])
          /\ s = [i \in 1..n |-> units[p[i]]]
    BY <1>1 DEF Sortings
  <1>3. p \in [1..n -> 1..n] /\ \A j \in 1..n : \E i \in 1..n : p[i] = j
    BY <1>2 DEF Bijection, Surjection
  <1>4. ASSUME NEW i \in 1..n PROVE p[i] \in 1..n /\ units[p[i]] \in TextUnits
    <2>1. p[i] \in 1..n
      BY <1>3
    <2>2. \A j \in 1..n : units[j] \in TextUnits
      BY <1>1
    <2> QED
      BY <2>1, <2>2
  <1>5. s \in Seq(TextUnits) /\ Len(s) = n /\ \A i \in 1..n : s[i] = units[p[i]]
    BY <1>2, <1>4
  <1>6. SortedUnits(s)
    BY <1>2, <1>5 DEF SortedUnits
  <1>7. Range(s) \subseteq Range(units)
    BY <1>1, <1>4, <1>5, ElementsOfRange
  <1>8. ASSUME NEW u \in Range(units) PROVE u \in Range(s)
    <2>1. PICK j \in 1..n : units[j] = u
      BY <1>1, ElementsOfRange
    <2>2. PICK i \in 1..n : p[i] = j
      BY <1>3
    <2> QED
      BY <1>5, <2>1, <2>2, ElementsOfRange
  <1> QED
    BY <1>1, <1>5, <1>6, <1>7, <1>8

LEMMA UnitType ==
  ASSUME NEW b \in Blocks \cup CombinedBlocks
  PROVE  Unit(b) \in TextUnits
  BY DEF Unit, TextUnits, Blocks, CombinedBlocks

LEMMA NothingToSort == Sortings(<<>>) = {<<>>}
  <1>1. PICK e : e = [i \in {} |-> 0]
    OBVIOUS
  <1>2. e \in Bijection({}, {})
    BY <1>1 DEF Bijection, Injection, Surjection, IsInjective
  <1>3. \A q \in Bijection({}, {}) : q \in [{} -> {}]
    BY DEF Bijection, Surjection
  <1>4. <<>> \in Seq(Nat) /\ Len(<<>>) = 0 /\ DOMAIN <<>> = {}
    OBVIOUS
  <1>5. \A q : [i \in {} |-> <<>>[q[i]]] = <<>>
    OBVIOUS
  <1> QED
    BY <1>2, <1>4, <1>5 DEF Sortings

LEMMA MergedFacts ==
  ASSUME NEW blks \in Seq(Blocks), NEW groups \in Seq(CombinedBlocks)
  PROVE  /\ MergedUnits(blks, groups) \in Seq(TextUnits)
         /\ Range(MergedUnits(blks, groups)) =
              {Unit(blks[i]) : i \in Kept(blks, groups)}
                \cup {Unit(groups[i]) : i \in 1..Len(groups)}
  <1>1. PICK n \in Nat : n = Len(blks)
    OBVIOUS
  <1>2. PICK m \in Nat : m = Len(groups) /\ DOMAIN groups = 1..m
    OBVIOUS
  <1>3. PICK K : K = Kept(blks, groups)
    OBVIOUS
  <1>4. K \subseteq 1..n /\ IsFiniteSet(K) /\ K \in SUBSET Nat
    <2>1. K \subseteq 1..n
      BY <1>1, <1>3 DEF Kept
    <2>2. IsFiniteSet(1..n) /\ 1..n \subseteq Nat
      BY FS_Interval
    <2> QED
      BY <2>1, <2>2, FS_Subset
  <1>5. PICK kept : kept = Ascending(K)
    OBVIOUS
  <1>6. kept \in Seq(Nat) /\ Range(kept) = K
    BY <1>4, <1>5, AscendingFacts
  <1>7. PICK c \in Nat : c = Len(kept) /\ DOMAIN kept = 1..c
    BY <1>6
  <1>8. \A k \in 1..c : kept[k] \in K
    BY <1>6, <1>7, ElementsOfRange
  <1>9. PICK a : a = [k \in 1..c |-> Unit(blks[kept[k]])]
    OBVIOUS
  <1>10. PICK b : b = [i \in 1..m |-> Unit(groups[i])]
    OBVIOUS
  <1>11. MergedUnits(blks, groups) = a \o b
    BY <1>2, <1>3, <1>5, <1>7, <1>9, <1>10 DEF MergedUnits
  <1>12. ASSUME NEW i \in K PROVE Unit(blks[i]) \in TextUnits
    <2>1. blks[i] \in Blocks
      BY <1>1, <1>4
    <2> QED
      BY <2>1, UnitType
  <1>13. ASSUME NEW i \in 1..m PROVE Unit(groups[i]) \in TextUnits
    <2>1. groups[i] \in CombinedBlocks
      BY <1>2
    <2> QED
      BY <2>1, UnitType
  <1>14. a \in Seq(TextUnits) /\ Len(a) = c /\ b \in Seq(TextUnits) /\ Len(b) = m
    BY <1>8, <1>9, <1>10, <1>12, <1>13
  <1>15. Range(a) = {Unit(blks[i]) : i \in K}
    <2>1. ASSUME NEW u \in Range(a) PROVE \E i \in K : u = Unit(blks[i])
      <3>1. PICK k \in 1..c : a[k] = u
        BY <1>14, ElementsOfRange
      <3> QED
        BY <1>8, <1>9, <3>1
    <2>2. ASSUME NEW i \in K PROVE Unit(blks[i]) \in Range(a)
      <3>1. PICK k \in 1..c : kept[k] = i
        BY <1>6, <1>7, ElementsOfRange
      <3>2. a[k] = Unit(blks[i])
        BY <1>9, <3>1
      <3> QED
        BY <1>14, <3>2, ElementsOfRange
    <2> QED
      BY <2>1, <2>2
  <1>16. Range(b) = {Unit(groups[i]) : i \in 1..m}
    <2>1. ASSUME NEW u \in Range(b) PROVE \E i \in 1..m : u = Unit(groups[i])
      <3>1. PICK k \in 1..m : b[k] = u
        BY <1>14, ElementsOfRange
      <3> QED
        BY <1>10, <3>1
    <2>2. ASSUME NEW i \in 1..m PROVE Unit(groups[i]) \in Range(b)
      <3>1. b[i] = Unit(groups[i])
        BY <1>10
      <3> QED
        BY <1>14, <3>1, ElementsOfRange
    <2> QED
      BY <2>1, <2>2
  <1>17. a \o b \in Seq(TextUnits) /\ Range(a \o b) = Range(a) \cup Range(b)
    BY <1>14, ConcatRange
  <1> QED
    BY <1>2, <1>3, <1>11, <1>15, <1>16, <1>17

(* A call with blocks only, or with groups only, is a merge with nothing.  *)
LEMMA BlocksOnly ==
  ASSUME NEW blks \in Seq(Blocks)
  PROVE  MergedUnits(blks, <<>>) = [i \in DOMAIN blks |-> Unit(blks[i])]
  <1>1. PICK n \in Nat : n = Len(blks) /\ DOMAIN blks = 1..n
    OBVIOUS
  <1>2. CombinedIndexes(<<>>) = {}
    BY DEF CombinedIndexes
  <1>3. Kept(blks, <<>>) = 1..n
    BY <1>1, <1>2 DEF Kept
  <1>4. PICK id : id = [i \in 1..n |-> i]
    OBVIOUS
  <1>5. id \in Seq(Nat) /\ Len(id) = n /\ \A i \in 1..n : id[i] = i
    BY <1>4
  <1>6. Ascends(id)
    BY <1>5 DEF Ascends
  <1>7. Range(id) = 1..n
    <2>1. \A i \in 1..n : id[i] = i /\ id[i] \in Range(id)
      BY <1>5, ElementsOfRange
    <2>2. \A i \in Range(id) : \E k \in 1..n : id[k] = i
      BY <1>5, ElementsOfRange
    <2> QED
      BY <2>1, <2>2
  <1>8. Ascending(1..n) = id
    BY <1>5, <1>6, <1>7, OnlyOrder
  <1>9. PICK a : a = [i \in 1..n |-> Unit(blks[i])]
    OBVIOUS
  <1>10. \A i \in 1..n : blks[i] \in Blocks
    BY <1>1
  <1>11. a \in Seq(TextUnits)
    BY <1>9, <1>10, UnitType
  <1>12. [k \in DOMAIN id |-> Unit(blks[id[k]])] = a
    BY <1>4, <1>9
  <1>13. [i \in DOMAIN <<>> |-> Unit(<<>>[i])] = <<>>
    OBVIOUS
  <1>14. MergedUnits(blks, <<>>) = a \o <<>>
    BY <1>3, <1>8, <1>12, <1>13 DEF MergedUnits
  <1>15. a \o <<>> = a
    BY <1>11
  <1> QED
    BY <1>1, <1>9, <1>14, <1>15

LEMMA GroupsOnly ==
  ASSUME NEW groups \in Seq(CombinedBlocks)
  PROVE  MergedUnits(<<>>, groups) = [i \in DOMAIN groups |-> Unit(groups[i])]
  <1>1. PICK m \in Nat : m = Len(groups) /\ DOMAIN groups = 1..m
    OBVIOUS
  <1>2. Len(<<>>) = 0
    OBVIOUS
  <1>3. Kept(<<>>, groups) = {}
    BY <1>2 DEF Kept
  <1>4. <<>> \in Seq(Nat) /\ Ascends(<<>>) /\ Range(<<>>) = {}
    BY DEF Ascends, Range
  <1>5. Ascending({}) = <<>>
    BY <1>4, OnlyOrder
  <1>6. [k \in DOMAIN <<>> |-> Unit(<<>>[<<>>[k]])] = <<>>
    OBVIOUS
  <1>7. PICK b : b = [i \in 1..m |-> Unit(groups[i])]
    OBVIOUS
  <1>8. \A i \in 1..m : groups[i] \in CombinedBlocks
    BY <1>1
  <1>9. b \in Seq(TextUnits)
    BY <1>7, <1>8, UnitType
  <1>10. MergedUnits(<<>>, groups) = <<>> \o b
    BY <1>1, <1>3, <1>5, <1>6, <1>7 DEF MergedUnits
  <1>11. <<>> \o b = b
    BY <1>9
  <1> QED
    BY <1>1, <1>7, <1>10, <1>11

-----------------------------------------------------------------------------
WriterInv ==
  /\ input.blocks \in Seq(Blocks) /\ input.combined \in Seq(CombinedBlocks)
  /\ IF Written THEN \E s \in Sortings(Units) : html = Loop(s)[Len(s)].html
     ELSE html = <<>>

LEMMA InitWriterInv == InitWriter => WriterInv
  <1> SUFFICES ASSUME InitWriter PROVE WriterInv
    OBVIOUS
  <1>1. input.blocks = <<>> /\ input.combined = <<>> /\ html = <<>> /\ Written
    BY DEF InitWriter, NoInput, Written
  <1>2. <<>> \in Seq(Blocks) /\ <<>> \in Seq(CombinedBlocks)
    OBVIOUS
  <1>3. Units = <<>>
    <2>1. [i \in DOMAIN <<>> |-> Unit(<<>>[i])] = <<>>
      OBVIOUS
    <2> QED
      BY <1>1, <1>2, <2>1, BlocksOnly DEF Units
  <1>4. <<>> \in Sortings(Units)
    BY <1>3, NothingToSort
  <1>5. Loop(<<>>)[Len(<<>>)].html = <<>>
    <2>1. <<>> \in Seq(TextUnits) /\ Len(<<>>) = 0 /\ 0 \in Nat
      OBVIOUS
    <2>2. Loop(<<>>)[0] = [html |-> <<>>, furthestEnd |-> NoEnd]
      BY <2>1, LoopFacts
    <2> QED
      BY <2>1, <2>2
  <1> QED
    BY <1>1, <1>2, <1>4, <1>5 DEF WriterInv

LEMMA SerializedText ==
  ASSUME NEW units, units = Units', NEW text \in SerializeNonOverlappingUnits(units),
         SetHTML(text), input'.blocks \in Seq(Blocks),
         input'.combined \in Seq(CombinedBlocks)
  PROVE  WriterInv'
  <1>1. PICK s \in Sortings(units) : text = Loop(s)[Len(s)].html
    BY DEF SerializeNonOverlappingUnits
  <1>2. html' = text /\ Written'
    BY DEF SetHTML, Written
  <1>3. \E t \in Sortings(units) : html' = Loop(t)[Len(t)].html
    BY <1>1, <1>2
  <1> QED
    BY <1>2, <1>3 DEF WriterInv

LEMMA RefusedText ==
  ASSUME NEW reason, reason # "none", SetError(reason), input'.blocks \in Seq(Blocks),
         input'.combined \in Seq(CombinedBlocks)
  PROVE  WriterInv'
  BY DEF SetError, Written, WriterInv

LEMMA SerializeBlocksInv ==
  ASSUME NEW blks \in ListsToWrite, SerializeBlocks(blks)
  PROVE  WriterInv'
  <1>1. blks \in Seq(Blocks) /\ <<>> \in Seq(CombinedBlocks)
    BY ListsAssumption
  <1>2. input'.blocks = blks /\ input'.combined = <<>>
    BY DEF SerializeBlocks
  <1>3. CASE SetError("reversed block")
    BY <1>1, <1>2, <1>3, RefusedText
  <1>4. CASE \E text \in SerializeNonOverlappingUnits(
                           [i \in DOMAIN blks |-> Unit(blks[i])]) : SetHTML(text)
    <2>1. Units' = [i \in DOMAIN blks |-> Unit(blks[i])]
      BY <1>1, <1>2, BlocksOnly DEF Units
    <2> QED
      BY <1>1, <1>2, <1>4, <2>1, SerializedText
  <1> QED
    BY <1>3, <1>4 DEF SerializeBlocks

LEMMA SerializeCombinedBlocksInv ==
  ASSUME NEW groups \in CombinedLists, SerializeCombinedBlocks(groups)
  PROVE  WriterInv'
  <1>1. groups \in Seq(CombinedBlocks) /\ <<>> \in Seq(Blocks)
    BY ListsAssumption
  <1>2. input'.blocks = <<>> /\ input'.combined = groups
    BY DEF SerializeCombinedBlocks
  <1>3. CASE SetError("reversed group")
    BY <1>1, <1>2, <1>3, RefusedText
  <1>4. CASE \E text \in SerializeNonOverlappingUnits(
                           [i \in DOMAIN groups |-> Unit(groups[i])]) : SetHTML(text)
    <2>1. Units' = [i \in DOMAIN groups |-> Unit(groups[i])]
      BY <1>1, <1>2, GroupsOnly DEF Units
    <2> QED
      BY <1>1, <1>2, <1>4, <2>1, SerializedText
  <1> QED
    BY <1>3, <1>4 DEF SerializeCombinedBlocks

LEMMA SerializeMergedBlocksInv ==
  ASSUME NEW merge \in Merges, SerializeMergedBlocks(merge[1], merge[2])
  PROVE  WriterInv'
  <1>1. merge[1] \in Seq(Blocks) /\ merge[2] \in Seq(CombinedBlocks)
    BY ListsAssumption
  <1>2. input'.blocks = merge[1] /\ input'.combined = merge[2]
    BY DEF SerializeMergedBlocks
  <1>3. CASE \E reason \in {"reversed block", "reversed group", "no such block"} :
               SetError(reason)
    <2>1. PICK reason : reason # "none" /\ SetError(reason)
      BY <1>3
    <2> QED
      BY <1>1, <1>2, <2>1, RefusedText
  <1>4. CASE \E text \in SerializeNonOverlappingUnits(
                           MergedUnits(merge[1], merge[2])) : SetHTML(text)
    <2>1. Units' = MergedUnits(merge[1], merge[2])
      BY <1>2 DEF Units
    <2> QED
      BY <1>1, <1>2, <1>4, <2>1, SerializedText
  <1>5. \/ \E reason \in {"reversed block", "reversed group", "no such block"} :
             SetError(reason)
        \/ \E text \in SerializeNonOverlappingUnits(
                         MergedUnits(merge[1], merge[2])) : SetHTML(text)
    BY DEF SerializeMergedBlocks
  <1> QED
    BY <1>3, <1>4, <1>5

LEMMA NextWriterInv == WriterInv /\ [NextWriter]_writerVars => WriterInv'
  <1> SUFFICES ASSUME WriterInv, [NextWriter]_writerVars PROVE WriterInv'
    OBVIOUS
  <1>1. CASE UNCHANGED writerVars
    BY <1>1 DEF writerVars, WriterInv, Written, Units
  <1>2. CASE \E blks \in ListsToWrite : SerializeBlocks(blks)
    BY <1>2, SerializeBlocksInv
  <1>3. CASE \E groups \in CombinedLists : SerializeCombinedBlocks(groups)
    BY <1>3, SerializeCombinedBlocksInv
  <1>4. CASE \E merge \in Merges : SerializeMergedBlocks(merge[1], merge[2])
    BY <1>4, SerializeMergedBlocksInv
  <1>5. CASE Clear
    <2>1. InitWriter'
      BY <1>5 DEF Clear, InitWriter
    <2>2. (InitWriter => WriterInv)'
      BY InitWriterInv, PTL
    <2> QED
      BY <2>1, <2>2
  <1>6. \/ UNCHANGED writerVars
        \/ \E blks \in ListsToWrite : SerializeBlocks(blks)
        \/ \E groups \in CombinedLists : SerializeCombinedBlocks(groups)
        \/ \E merge \in Merges : SerializeMergedBlocks(merge[1], merge[2])
        \/ Clear
    BY DEF NextWriter
  <1> QED
    BY <1>1, <1>2, <1>3, <1>4, <1>5, <1>6

LEMMA WrittenUnits ==
  WriterInv =>
    IF Written
    THEN /\ Units \in Seq(TextUnits)
         /\ \E s \in Sortings(Units) :
              /\ s \in Seq(TextUnits) /\ SortedUnits(s) /\ Range(s) = Range(Units)
              /\ html = OutermostText(s)[Len(s)]
    ELSE html = <<>>
  <1> SUFFICES ASSUME WriterInv, Written
               PROVE  /\ Units \in Seq(TextUnits)
                      /\ \E s \in Sortings(Units) :
                           /\ s \in Seq(TextUnits) /\ SortedUnits(s)
                           /\ Range(s) = Range(Units)
                           /\ html = OutermostText(s)[Len(s)]
    BY DEF WriterInv
  <1>1. Units \in Seq(TextUnits)
    BY MergedFacts DEF WriterInv, Units
  <1>2. PICK s \in Sortings(Units) : html = Loop(s)[Len(s)].html
    BY DEF WriterInv
  <1>3. PICK units \in Seq(TextUnits) : units = Units
    BY <1>1
  <1>4. s \in Seq(TextUnits) /\ SortedUnits(s) /\ Range(s) = Range(Units)
    BY <1>2, <1>3, SortingFacts
  <1>5. Loop(s)[Len(s)].html = OutermostText(s)[Len(s)]
    BY <1>4, LoopWritesOutermost
  <1> QED
    BY <1>1, <1>2, <1>4, <1>5

(* For all lists of blocks and groups: keeping the end of what was written *)
(* last decides which units lie in an earlier one, whatever order std::sort*)
(* leaves units of one range in; and a call that fails leaves no text.     *)
THEOREM EndAlwaysDecidesContainment == SpecWriter => []EndDecidesContainment
  <1>1. WriterInv => EndDecidesContainment
    BY WrittenUnits DEF EndDecidesContainment
  <1> QED
    BY InitWriterInv, NextWriterInv, <1>1, PTL DEF SpecWriter

-----------------------------------------------------------------------------
(* Units of which each writes, apart from X, its part of a document D, and *)
(* no two of which cross outside of X: what is written, apart from X, is   *)
(* the part of D they cover, in order.                                     *)
Writes(u, D, X) ==
  /\ u.raw_begin <= u.raw_end
  /\ AscendsOutside(u.raw, X) /\ Range(u.raw) \ X = (D \cap Span(u)) \ X

Crossing(u, v, X) ==
  ~(Span(u) \subseteq X \/ Span(v) \subseteq X \/ Disjoint(u, v) \/ Nested(u, v))

LEMMA LaterUnit ==
  ASSUME NEW u \in TextUnits, NEW v \in TextUnits, NEW X, ~Crossing(u, v, X),
         ~Before(v, u), ~Within(v, u), NEW x \in Span(u) \ X, NEW y \in Span(v) \ X
  PROVE  x < y
  <1>1. PICK b \in Nat : b = u.raw_begin
    BY DEF TextUnits
  <1>2. PICK e \in Nat : e = u.raw_end
    BY DEF TextUnits
  <1>3. PICK c \in Nat : c = v.raw_begin
    BY DEF TextUnits
  <1>4. PICK f \in Nat : f = v.raw_end
    BY DEF TextUnits
  <1>5. Span(u) = b..(e - 1) /\ Span(v) = c..(f - 1)
    BY <1>1, <1>2, <1>3, <1>4 DEF Span
  <1>6. x \in b..(e - 1) /\ y \in c..(f - 1)
    BY <1>5
  <1>7. b <= c /\ (b = c => f <= e)
    BY <1>1, <1>2, <1>3, <1>4 DEF Before
  <1>8. ~(b <= c /\ f <= e)
    BY <1>1, <1>2, <1>3, <1>4 DEF Within
  <1>9. e < f /\ b < c
    BY <1>7, <1>8
  <1>10. \/ (b..(e - 1)) \cap (c..(f - 1)) = {}
         \/ b..(e - 1) \subseteq c..(f - 1)
         \/ c..(f - 1) \subseteq b..(e - 1)
    BY <1>5 DEF Crossing, Disjoint, Nested
  <1>11. CASE (b..(e - 1)) \cap (c..(f - 1)) = {}
    <2>1. c \in c..(f - 1)
      BY <1>6
    <2>2. c \notin b..(e - 1)
      BY <1>11, <2>1
    <2>3. ~(c <= e - 1)
      BY <1>9, <2>2
    <2> QED
      BY <1>6, <2>3
  <1>12. CASE b..(e - 1) \subseteq c..(f - 1)
    <2>1. b \in b..(e - 1)
      BY <1>6
    <2> QED
      BY <1>9, <1>12, <2>1
  <1>13. CASE c..(f - 1) \subseteq b..(e - 1)
    <2>1. f - 1 \in c..(f - 1)
      BY <1>6
    <2> QED
      BY <1>9, <1>13, <2>1
  <1> QED
    BY <1>10, <1>11, <1>12, <1>13

LEMMA WithinSpan ==
  ASSUME NEW u \in TextUnits, NEW v \in TextUnits, Within(u, v)
  PROVE  Span(u) \subseteq Span(v)
  <1>1. PICK b \in Nat : b = u.raw_begin
    BY DEF TextUnits
  <1>2. PICK e \in Nat : e = u.raw_end
    BY DEF TextUnits
  <1>3. PICK c \in Nat : c = v.raw_begin
    BY DEF TextUnits
  <1>4. PICK f \in Nat : f = v.raw_end
    BY DEF TextUnits
  <1>5. Span(u) = b..(e - 1) /\ Span(v) = c..(f - 1) /\ c <= b /\ e <= f
    BY <1>1, <1>2, <1>3, <1>4 DEF Span, Within
  <1> QED
    BY <1>5

FirstSpans(s, k) == UNION {Span(s[i]) : i \in 1..k}

UnitsOf(s, D, X) ==
  /\ \A i \in 1..Len(s) : Writes(s[i], D, X)
  /\ \A i, j \in 1..Len(s) : ~Crossing(s[i], s[j], X)

TextOf(t, D, X) ==
  t \in Seq(Nat) /\ AscendsOutside(t, X) /\ Range(t) \ X = D \ X

LEMMA UnitsText ==
  ASSUME NEW s \in Seq(TextUnits), SortedUnits(s), NEW D, NEW X, UnitsOf(s, D, X)
  PROVE  TextOf(OutermostText(s)[Len(s)], D \cap Covered(s), X)
  <1>1. PICK n \in Nat : n = Len(s) /\ DOMAIN s = 1..n
    OBVIOUS
  <1>2. \A i \in 1..n : s[i] \in TextUnits
    BY <1>1
  <1>3. PICK w : w = OutermostText(s)
    OBVIOUS
  <1>4. /\ \A k \in 0..n : w[k] \in Seq(Nat)
        /\ w[0] = <<>>
        /\ \A k \in 1..n : w[k] = IF Outermost(s, k) THEN w[k - 1] \o s[k].raw
                                  ELSE w[k - 1]
    BY <1>1, <1>3, OutermostFacts
  <1> DEFINE Good(k) == /\ AscendsOutside(w[k], X)
                        /\ Range(w[k]) \ X = (D \cap FirstSpans(s, k)) \ X
             S == {k \in 0..n : Good(k)}
  <1>5. 0 \in S
    <2>1. FirstSpans(s, 0) = {}
      BY DEF FirstSpans
    <2>2. Len(<<>>) = 0 /\ Range(<<>>) = {}
      BY DEF Range
    <2>3. AscendsOutside(<<>>, X)
      BY <2>2 DEF AscendsOutside
    <2> QED
      BY <1>4, <2>1, <2>2, <2>3
  <1>6. ASSUME NEW k \in 1..n, k - 1 \in S PROVE k \in S
    <2>1. PICK p \in Nat : p = k - 1 /\ k = p + 1
      OBVIOUS
    <2>2. p \in 0..n /\ k \in 0..n /\ \A i \in 1..p : i \in 1..n /\ i < k
      BY <2>1
    <2>3. Good(p)
      BY <1>6, <2>1
    <2>4. PICK a \in Seq(Nat) : a = w[p]
      BY <1>4, <2>2
    <2>5. PICK u \in TextUnits : u = s[k]
      BY <1>2
    <2>6. FirstSpans(s, k) = FirstSpans(s, p) \cup Span(u)
      <3>1. \A i \in 1..k : i \in 1..p \/ i = k
        BY <2>1
      <3>2. k \in 1..k /\ \A i \in 1..p : i \in 1..k
        BY <2>1
      <3> QED
        BY <2>5, <3>1, <3>2 DEF FirstSpans
    <2>7. CASE ~Outermost(s, k)
      <3>1. PICK j \in 1..p : Within(u, s[j])
        BY <2>1, <2>5, <2>7 DEF Outermost
      <3>2. Span(u) \subseteq Span(s[j])
        BY <1>2, <2>2, <3>1, WithinSpan
      <3>3. FirstSpans(s, k) = FirstSpans(s, p)
        BY <2>6, <3>1, <3>2 DEF FirstSpans
      <3>4. w[k] = w[p]
        BY <1>4, <2>1, <2>7
      <3> QED
        BY <2>2, <2>3, <3>3, <3>4
    <2>8. CASE Outermost(s, k)
      <3>1. w[k] = a \o u.raw
        BY <1>4, <2>1, <2>4, <2>5, <2>8
      <3>2. u.raw \in Seq(Nat) /\ AscendsOutside(u.raw, X)
            /\ Range(u.raw) \ X = (D \cap Span(u)) \ X
        BY <1>1, <2>5 DEF TextUnits, Writes, UnitsOf
      <3>3. AscendsOutside(a, X) /\ Range(a) \ X = (D \cap FirstSpans(s, p)) \ X
        BY <2>3, <2>4
      <3>4. ASSUME NEW x \in Range(a) \ X, NEW y \in Range(u.raw) \ X PROVE x < y
        <4>1. x \in FirstSpans(s, p) \ X
          BY <3>3
        <4>2. PICK i \in 1..p : x \in Span(s[i])
          BY <4>1 DEF FirstSpans
        <4>3. y \in Span(u) \ X
          BY <3>2
        <4>4. s[i] \in TextUnits /\ ~Crossing(s[i], u, X) /\ ~Before(u, s[i])
          BY <1>1, <1>2, <2>2, <2>5 DEF SortedUnits, UnitsOf
        <4>5. ~Within(u, s[i])
          BY <2>1, <2>5, <2>8 DEF Outermost
        <4> QED
          BY <4>1, <4>2, <4>3, <4>4, <4>5, LaterUnit
      <3>5. AscendsOutside(a \o u.raw, X)
        BY <3>2, <3>3, <3>4, ConcatAscendsOutside
      <3>6. Range(a \o u.raw) = Range(a) \cup Range(u.raw)
        BY <3>2, ConcatRange
      <3>7. Range(w[k]) \ X = (D \cap FirstSpans(s, k)) \ X
        BY <2>6, <3>1, <3>2, <3>3, <3>6
      <3> QED
        BY <2>2, <3>1, <3>5, <3>7
    <2> QED
      BY <2>7, <2>8
  <1>7. 0..n \subseteq S
    <2> HIDE DEF S
    <2> QED
      BY <1>5, <1>6, CountUp
  <1>8. n \in 0..n
    OBVIOUS
  <1>9. FirstSpans(s, n) = Covered(s)
    BY <1>1 DEF FirstSpans, Covered
  <1> QED
    BY <1>1, <1>3, <1>4, <1>7, <1>8, <1>9 DEF TextOf

-----------------------------------------------------------------------------
(* The blocks a group was made of.                                         *)
Elements(e, g, blks, n) ==
  /\ DOMAIN e = 1..n
  /\ \A k \in 1..n : /\ g.source_indexes[k] \in Nat
                     /\ g.source_indexes[k] + 1 \in 1..Len(blks)
                     /\ e[k] = blks[g.source_indexes[k] + 1] /\ e[k] \in Blocks

Spans(g, e, n) ==
  /\ g.raw_begin = Sets!Min({e[k].raw_begin : k \in 1..n})
  /\ g.raw_end = Sets!Max({e[k].raw_end : k \in 1..n})
  /\ g.raw = Seqs!FlattenSeq([k \in 1..n |-> e[k].raw])

LEMMA GroupElements ==
  ASSUME NEW blks \in Seq(Blocks), NEW g \in CombinedBlocks, GroupOf(g, blks),
         NEW n, n = Len(g.source_indexes), NEW e, e = g.elements
  PROVE  n \in Nat \ {0} /\ Elements(e, g, blks, n) /\ Spans(g, e, n)
  <1>1. PICK s \in Seq(Nat) : s = g.source_indexes
    BY DEF CombinedBlocks
  <1>2. s # <<>> /\ g = Group(blks, s) /\ \A k \in DOMAIN s : s[k] < Len(blks)
    BY <1>1 DEF GroupOf, FitsBlocks
  <1>3. n \in Nat \ {0} /\ DOMAIN s = 1..n
    BY <1>1, <1>2
  <1>4. e = [k \in 1..n |-> blks[s[k] + 1]]
    BY <1>2, <1>3 DEF Group
  <1>5. Spans(g, e, n)
    <2>1. /\ g.raw_begin = Sets!Min({g.elements[k].raw_begin : k \in 1..n})
          /\ g.raw_end = Sets!Max({g.elements[k].raw_end : k \in 1..n})
          /\ g.raw = Seqs!FlattenSeq([k \in 1..n |-> g.elements[k].raw])
      BY <1>2, <1>3 DEF Group
    <2> QED
      BY <2>1 DEF Spans
  <1>6. ASSUME NEW k \in 1..n
        PROVE  s[k] \in Nat /\ s[k] + 1 \in 1..Len(blks) /\ e[k] = blks[s[k] + 1]
    <2>1. s[k] \in Nat /\ s[k] < Len(blks)
      BY <1>1, <1>2, <1>3
    <2>2. Len(blks) \in Nat
      OBVIOUS
    <2> QED
      BY <1>4, <2>1, <2>2
  <1>7. \A k \in 1..n : e[k] \in Blocks
    <2>1. \A i \in 1..Len(blks) : blks[i] \in Blocks
      OBVIOUS
    <2> QED
      BY <1>6, <2>1
  <1>8. DOMAIN e = 1..n
    BY <1>4
  <1> QED
    BY <1>1, <1>3, <1>5, <1>6, <1>7, <1>8 DEF Elements

(* A group spans the blocks it was made of, and its text is from there.    *)
LEMMA GroupSpans ==
  ASSUME NEW blks \in Seq(Blocks), \A i \in 1..Len(blks) : OfText(blks[i]),
         NEW g \in CombinedBlocks, GroupOf(g, blks),
         NEW n, n = Len(g.source_indexes)
  PROVE  /\ g.raw_begin <= g.raw_end
         /\ \A k \in 1..n : Span(g.elements[k]) \subseteq Span(g)
         /\ Range(g.raw) \subseteq Span(g)
  <1>1. PICK e : e = g.elements
    OBVIOUS
  <1>a. n \in Nat \ {0} /\ Elements(e, g, blks, n) /\ Spans(g, e, n)
    BY <1>1, GroupElements
  <1>2. /\ n \in Nat \ {0} /\ DOMAIN e = 1..n
        /\ \A k \in 1..n : e[k] \in Blocks /\ OfText(e[k])
    BY <1>a DEF Elements
  <1>3. /\ g.raw_begin = Sets!Min({e[k].raw_begin : k \in 1..n})
        /\ g.raw_end = Sets!Max({e[k].raw_end : k \in 1..n})
        /\ g.raw = Seqs!FlattenSeq([k \in 1..n |-> e[k].raw])
    BY <1>a DEF Spans
  <1>4. \A k \in 1..n : /\ e[k].raw_begin \in Nat /\ e[k].raw_end \in Nat
                        /\ e[k].raw_begin <= e[k].raw_end
    BY <1>2 DEF Blocks, OfText
  <1>5. 1 \in 1..n
    BY <1>2
  <1>6. PICK first : first = g.raw_begin
    OBVIOUS
  <1>7. first \in Nat /\ \A k \in 1..n : first <= e[k].raw_begin
    <2>1. PICK B : B = {e[k].raw_begin : k \in 1..n}
      OBVIOUS
    <2>2. B \in SUBSET Nat /\ B # {}
      BY <1>4, <1>5, <2>1
    <2>3. PICK b \in B : \A x \in B : b <= x
      BY <2>2, LeastNat
    <2>4. first \in B /\ \A x \in B : first <= x
      BY <1>3, <1>6, <2>1, <2>3 DEF Sets!Min
    <2> QED
      BY <2>1, <2>2, <2>4
  <1>8. PICK last : last = g.raw_end
    OBVIOUS
  <1>9. last \in Nat /\ \A k \in 1..n : e[k].raw_end <= last
    <2>1. PICK B : B = {e[k].raw_end : k \in 1..n}
      OBVIOUS
    <2>2. PICK f : f = [k \in 1..n |-> e[k].raw_end]
      OBVIOUS
    <2>3. \A k \in 1..n : f[k] \in Nat /\ f[k] = e[k].raw_end
      BY <1>4, <2>2
    <2>4. PICK k \in 1..n : \A j \in 1..n : f[j] <= f[k]
      BY <1>2, <2>3, LargestOf
    <2>5. f[k] \in B /\ \A x \in B : f[k] >= x
      BY <2>1, <2>3, <2>4
    <2>6. last \in B /\ \A x \in B : last >= x
      BY <1>3, <1>8, <2>1, <2>5 DEF Sets!Max
    <2> QED
      BY <1>4, <2>1, <2>6
  <1>10. Span(g) = first..(last - 1)
    BY <1>6, <1>8 DEF Span
  <1>11. ASSUME NEW k \in 1..n PROVE Span(e[k]) \subseteq Span(g)
    <2>1. PICK b \in Nat : b = e[k].raw_begin
      BY <1>4
    <2>2. PICK c \in Nat : c = e[k].raw_end
      BY <1>4
    <2>3. first <= b /\ c <= last
      BY <1>7, <1>9, <2>1, <2>2
    <2>4. Span(e[k]) = b..(c - 1)
      BY <2>1, <2>2 DEF Span
    <2> QED
      BY <1>7, <1>9, <1>10, <2>3, <2>4
  <1>12. first <= last
    BY <1>4, <1>5, <1>7, <1>9
  <1>13. \A k \in 1..n : e[k].raw \in Seq(Nat) /\ Range(e[k].raw) \subseteq Span(g)
    <2>1. \A k \in 1..n : e[k].raw \in Seq(Nat) /\ Range(e[k].raw) = Span(e[k])
      BY <1>2, <1>4, OfTextFacts
    <2> QED
      BY <1>11, <2>1
  <1>14. Range(g.raw) \subseteq Span(g)
    <2>1. PICK texts : texts = [k \in 1..n |-> e[k].raw]
      OBVIOUS
    <2>2. PICK P : P = {t \in Seq(Nat) : Range(t) \subseteq Span(g)}
      OBVIOUS
    <2>3. \A k \in 1..n : texts[k] \in P
      BY <1>13, <2>1, <2>2
    <2>4. \A t, r \in P : t \o r \in P
      BY <2>2, ConcatRange
    <2>5. Seqs!FlattenSeq(texts) \in P
      BY <1>2, <2>1, <2>3, <2>4, FlattenIn
    <2> QED
      BY <1>3, <2>1, <2>2, <2>5
  <1> QED
    BY <1>1, <1>6, <1>8, <1>11, <1>12, <1>14

LEMMA CoveredFinite ==
  ASSUME NEW n \in Nat \ {0}, NEW e, InDocument(e, n)
  PROVE  Covered(e) \in SUBSET Nat /\ IsFiniteSet(Covered(e))
  <1>1. PICK f : f = [k \in 1..n |-> e[k].raw_end]
    OBVIOUS
  <1>2. \A k \in 1..n : f[k] \in Nat /\ f[k] = e[k].raw_end
    BY <1>1, BeginEnd
  <1>3. PICK k \in 1..n : \A j \in 1..n : f[j] <= f[k]
    BY <1>2, LargestOf
  <1>4. PICK m \in Nat : m = f[k]
    BY <1>2
  <1>5. ASSUME NEW x \in Covered(e) PROVE x \in 0..m
    <2>1. PICK j \in 1..n : x \in Span(e[j])
      BY CoveredFacts
    <2>2. x \in Nat /\ x < f[j]
      BY <1>2, <2>1, SpanFacts
    <2> QED
      BY <1>2, <1>3, <1>4, <2>2
  <1>6. IsFiniteSet(0..m) /\ 0..m \subseteq Nat
    BY FS_Interval
  <1> QED
    BY <1>5, <1>6, FS_Subset

WellFormedWith(blks, groups) ==
  /\ \A i \in 1..Len(blks) : OfText(blks[i])
  /\ Laminar(blks)
  /\ \A j \in 1..Len(groups) : GroupOf(groups[j], blks)

LEMMA UnitSpan ==
  ASSUME NEW b
  PROVE  /\ Span(Unit(b)) = Span(b) /\ Unit(b).raw = b.raw
         /\ Unit(b).raw_begin = b.raw_begin /\ Unit(b).raw_end = b.raw_end
  BY DEF Unit, Span

LEMMA CrossingSame ==
  ASSUME NEW u, NEW v, NEW b, NEW c, NEW X, Span(u) = Span(b), Span(v) = Span(c)
  PROVE  Crossing(u, v, X) <=> Crossing(b, c, X)
  BY DEF Crossing, Disjoint, Nested

LEMMA CrossingBoth ==
  ASSUME NEW u, NEW v, NEW X
  PROVE  Crossing(u, v, X) => Crossing(v, u, X)
  BY DEF Crossing, Disjoint, Nested

(* The unit of a block writes its part of the document.                    *)
LEMMA BlockWrites ==
  ASSUME NEW blks \in Seq(Blocks), NEW i \in 1..Len(blks), OfText(blks[i]), NEW X
  PROVE  Writes(Unit(blks[i]), Covered(blks), X)
  <1>1. PICK b \in Blocks : b = blks[i]
    OBVIOUS
  <1>2. b.raw_begin \in Nat /\ b.raw_end \in Nat
    BY DEF Blocks
  <1>3. b.raw \in Seq(Nat) /\ Ascends(b.raw) /\ Range(b.raw) = Span(b)
    BY <1>1, <1>2, OfTextFacts
  <1>4. Span(b) \subseteq Covered(blks)
    BY <1>1 DEF Covered
  <1>5. b.raw_begin <= b.raw_end
    BY <1>1 DEF OfText
  <1>6. AscendsOutside(b.raw, X)
    BY <1>3 DEF Ascends, AscendsOutside
  <1> QED
    BY <1>1, <1>3, <1>4, <1>5, <1>6, UnitSpan DEF Writes

(* Each block is kept, or in the range of a group that claims it.          *)
LEMMA KeptOrClaimed ==
  ASSUME NEW blks \in Seq(Blocks), NEW groups \in Seq(CombinedBlocks),
         WellFormedWith(blks, groups), NEW i \in 1..Len(blks)
  PROVE  \/ i \in Kept(blks, groups)
         \/ \E j \in 1..Len(groups) : Span(blks[i]) \subseteq Span(groups[j])
  <1> SUFFICES ASSUME i \notin Kept(blks, groups)
               PROVE  \E j \in 1..Len(groups) : Span(blks[i]) \subseteq Span(groups[j])
    OBVIOUS
  <1>1. i - 1 \in CombinedIndexes(groups)
    BY DEF Kept
  <1>2. PICK j \in 1..Len(groups) : i - 1 \in Range(groups[j].source_indexes)
    BY <1>1 DEF CombinedIndexes
  <1>3. PICK g \in CombinedBlocks : g = groups[j]
    OBVIOUS
  <1>4. PICK q \in Seq(Nat) : q = g.source_indexes
    BY DEF CombinedBlocks
  <1>5. PICK k \in 1..Len(q) : q[k] = i - 1
    <2>1. PICK p : p = i - 1
      OBVIOUS
    <2>2. p \in Range(q)
      BY <1>2, <1>3, <1>4, <2>1
    <2> QED
      BY <2>1, <2>2, ElementsOfRange
  <1>6. GroupOf(g, blks) /\ \A l \in 1..Len(blks) : OfText(blks[l])
    BY <1>3 DEF WellFormedWith
  <1>7. PICK e : e = g.elements
    OBVIOUS
  <1>8. Elements(e, g, blks, Len(q))
    BY <1>4, <1>6, <1>7, GroupElements
  <1>9. e[k] = blks[q[k] + 1]
    BY <1>4, <1>8 DEF Elements
  <1>10. (i - 1) + 1 = i
    OBVIOUS
  <1>11. e[k] = blks[i]
    BY <1>5, <1>9, <1>10
  <1>12. Span(e[k]) \subseteq Span(g)
    BY <1>4, <1>6, <1>7, GroupSpans
  <1> QED
    BY <1>3, <1>11, <1>12

(* What is written, when no group crosses another unit outside of X.       *)
GroupsFit(groups, blks, X) ==
  /\ \A j \in 1..Len(groups) : Writes(Unit(groups[j]), Covered(blks), X)
  /\ \A i \in 1..Len(blks), j \in 1..Len(groups) : ~Crossing(blks[i], groups[j], X)
  /\ \A i, j \in 1..Len(groups) : ~Crossing(groups[i], groups[j], X)

LEMMA WrittenText ==
  ASSUME NEW blks \in Seq(Blocks), NEW groups \in Seq(CombinedBlocks),
         WellFormedWith(blks, groups), NEW X, GroupsFit(groups, blks, X),
         NEW s \in Seq(TextUnits), SortedUnits(s),
         Range(s) = Range(MergedUnits(blks, groups))
  PROVE  TextOf(OutermostText(s)[Len(s)], Covered(blks), X)
  <1>1. PICK n \in Nat : n = Len(blks) /\ DOMAIN blks = 1..n
    OBVIOUS
  <1>2. PICK m \in Nat : m = Len(groups)
    OBVIOUS
  <1>3. PICK K : K = Kept(blks, groups) /\ K \subseteq 1..n
    BY <1>1 DEF Kept
  <1>4. Range(s) = {Unit(blks[i]) : i \in K} \cup {Unit(groups[j]) : j \in 1..m}
    BY <1>2, <1>3, MergedFacts
  <1>5. PICK c \in Nat : c = Len(s) /\ DOMAIN s = 1..c
    OBVIOUS
  <1>6. ASSUME NEW k \in 1..c
        PROVE  \/ \E i \in 1..n : s[k] = Unit(blks[i])
               \/ \E j \in 1..m : s[k] = Unit(groups[j])
    <2>1. s[k] \in Range(s)
      BY <1>5, ElementsOfRange
    <2> QED
      BY <1>3, <1>4, <2>1
  <1>7. ASSUME NEW k \in 1..c PROVE Writes(s[k], Covered(blks), X)
    <2>1. \A i \in 1..n : Writes(Unit(blks[i]), Covered(blks), X)
      BY <1>1, BlockWrites DEF WellFormedWith
    <2> QED
      BY <1>2, <1>6, <2>1 DEF GroupsFit
  <1>8. ASSUME NEW k \in 1..c, NEW l \in 1..c PROVE ~Crossing(s[k], s[l], X)
    <2>1. ASSUME NEW i \in 1..n, NEW j \in 1..n PROVE ~Crossing(blks[i], blks[j], X)
      BY <1>1 DEF WellFormedWith, Laminar, Crossing
    <2>2. CASE \E i \in 1..n, j \in 1..n : s[k] = Unit(blks[i]) /\ s[l] = Unit(blks[j])
      <3>1. PICK i \in 1..n, j \in 1..n : s[k] = Unit(blks[i]) /\ s[l] = Unit(blks[j])
        BY <2>2
      <3>2. Span(s[k]) = Span(blks[i]) /\ Span(s[l]) = Span(blks[j])
        BY <3>1, UnitSpan
      <3> QED
        BY <2>1, <3>2, CrossingSame
    <2>3. CASE \E i \in 1..n, j \in 1..m : s[k] = Unit(blks[i]) /\ s[l] = Unit(groups[j])
      <3>1. PICK i \in 1..n, j \in 1..m : s[k] = Unit(blks[i]) /\ s[l] = Unit(groups[j])
        BY <2>3
      <3>2. Span(s[k]) = Span(blks[i]) /\ Span(s[l]) = Span(groups[j])
        BY <3>1, UnitSpan
      <3>3. ~Crossing(blks[i], groups[j], X)
        BY <1>1, <1>2 DEF GroupsFit
      <3> QED
        BY <3>2, <3>3, CrossingSame
    <2>4. CASE \E i \in 1..m, j \in 1..n : s[k] = Unit(groups[i]) /\ s[l] = Unit(blks[j])
      <3>1. PICK i \in 1..m, j \in 1..n : s[k] = Unit(groups[i]) /\ s[l] = Unit(blks[j])
        BY <2>4
      <3>2. Span(s[k]) = Span(groups[i]) /\ Span(s[l]) = Span(blks[j])
        BY <3>1, UnitSpan
      <3>3. ~Crossing(blks[j], groups[i], X)
        BY <1>1, <1>2 DEF GroupsFit
      <3> QED
        BY <3>2, <3>3, CrossingSame, CrossingBoth
    <2>5. CASE \E i \in 1..m, j \in 1..m : s[k] = Unit(groups[i]) /\ s[l] = Unit(groups[j])
      <3>1. PICK i \in 1..m, j \in 1..m : s[k] = Unit(groups[i]) /\ s[l] = Unit(groups[j])
        BY <2>5
      <3>2. Span(s[k]) = Span(groups[i]) /\ Span(s[l]) = Span(groups[j])
        BY <3>1, UnitSpan
      <3>3. ~Crossing(groups[i], groups[j], X)
        BY <1>2 DEF GroupsFit
      <3> QED
        BY <3>2, <3>3, CrossingSame
    <2> QED
      BY <1>6, <2>2, <2>3, <2>4, <2>5
  <1>9. TextOf(OutermostText(s)[Len(s)], Covered(blks) \cap Covered(s), X)
    <2>1. UnitsOf(s, Covered(blks), X)
      BY <1>5, <1>7, <1>8 DEF UnitsOf
    <2> QED
      BY <2>1, UnitsText
  <1>10. ASSUME NEW i \in 1..n PROVE Span(blks[i]) \subseteq Covered(s)
    <2>1. ASSUME NEW u \in Range(s) PROVE Span(u) \subseteq Covered(s)
      <3>1. PICK k \in 1..c : s[k] = u
        BY <1>5, ElementsOfRange
      <3> QED
        BY <1>5, <3>1 DEF Covered
    <2>2. CASE i \in K
      <3>1. Unit(blks[i]) \in Range(s)
        BY <1>4, <2>2
      <3> QED
        BY <2>1, <3>1, UnitSpan
    <2>3. CASE i \notin K
      <3>1. PICK j \in 1..m : Span(blks[i]) \subseteq Span(groups[j])
        BY <1>1, <1>2, <1>3, <2>3, KeptOrClaimed
      <3>2. Unit(groups[j]) \in Range(s)
        BY <1>4
      <3> QED
        BY <2>1, <3>1, <3>2, UnitSpan
    <2> QED
      BY <2>2, <2>3
  <1>11. Covered(blks) \subseteq Covered(s)
    <2>1. ASSUME NEW x \in Covered(blks) PROVE x \in Covered(s)
      <3>1. PICK i \in 1..n : x \in Span(blks[i])
        BY <1>1, <2>1 DEF Covered
      <3> QED
        BY <1>10, <3>1
    <2> QED
      BY <2>1
  <1>12. Covered(blks) \cap Covered(s) = Covered(blks)
    BY <1>11
  <1> QED
    BY <1>9, <1>12

LEMMA WellFormedInput ==
  ASSUME WriterInv, WellFormed
  PROVE  WellFormedWith(input.blocks, input.combined)
  <1>1. /\ DOMAIN input.blocks = 1..Len(input.blocks)
        /\ DOMAIN input.combined = 1..Len(input.combined)
    BY DEF WriterInv
  <1> QED
    BY <1>1 DEF WellFormed, WellFormedWith

(* For all documents whose blocks nest, and all groups of them: outside of *)
(* the groups every part of the document that is in a block is written     *)
(* once, in order, however the groups overlap each other.                  *)
THEOREM OutsideGroupsAlwaysOnce == SpecWriter => []OutsideGroupsOnce
  <1>1. WriterInv => OutsideGroupsOnce
    <2> SUFFICES ASSUME WriterInv, Written, WellFormed
                 PROVE  LET inside == Covered(input.combined)
                        IN  /\ \A k, l \in DOMAIN html :
                                 k < l /\ html[k] \notin inside /\ html[l] \notin inside
                                   => html[k] < html[l]
                            /\ Range(html) \ inside = Covered(input.blocks) \ inside
      BY DEF OutsideGroupsOnce
    <2>1. PICK blks \in Seq(Blocks) : blks = input.blocks
      BY DEF WriterInv
    <2>2. PICK groups \in Seq(CombinedBlocks) : groups = input.combined
      BY DEF WriterInv
    <2>3. PICK X : X = Covered(groups)
      OBVIOUS
    <2>4. WellFormedWith(blks, groups)
      BY <2>1, <2>2, WellFormedInput
    <2>5. PICK s \in Sortings(Units) :
            /\ s \in Seq(TextUnits) /\ SortedUnits(s)
            /\ Range(s) = Range(MergedUnits(blks, groups))
            /\ html = OutermostText(s)[Len(s)]
      BY <2>1, <2>2, WrittenUnits DEF Units
    <2>6. PICK t : t = html
      OBVIOUS
    <2>7. ASSUME NEW j \in 1..Len(groups)
          PROVE  Span(groups[j]) \subseteq X /\ Writes(Unit(groups[j]), Covered(blks), X)
      <3>1. PICK g \in CombinedBlocks : g = groups[j]
        OBVIOUS
      <3>2. Span(g) \subseteq X
        BY <2>3, <3>1 DEF Covered
      <3>3. /\ GroupOf(g, blks)
            /\ \A i \in 1..Len(blks) : OfText(blks[i])
        BY <2>4, <3>1 DEF WellFormedWith
      <3>4. g.raw_begin <= g.raw_end /\ Range(g.raw) \subseteq Span(g)
        BY <3>3, GroupSpans
      <3>5. g.raw \in Seq(Nat)
        BY DEF CombinedBlocks
      <3>6. \A k \in 1..Len(g.raw) : g.raw[k] \in X
        BY <3>2, <3>4, <3>5, ElementsOfRange
      <3>7. AscendsOutside(g.raw, X)
        BY <3>6 DEF AscendsOutside
      <3>8. Writes(Unit(g), Covered(blks), X)
        BY <3>2, <3>4, <3>7, UnitSpan DEF Writes
      <3> QED
        BY <3>1, <3>2, <3>8
    <2>8. /\ \A i \in 1..Len(blks), j \in 1..Len(groups) : ~Crossing(blks[i], groups[j], X)
          /\ \A i, j \in 1..Len(groups) : ~Crossing(groups[i], groups[j], X)
      BY <2>7 DEF Crossing
    <2>9. /\ t \in Seq(Nat) /\ AscendsOutside(t, X)
          /\ Range(t) \ X = Covered(blks) \ X
      <3>1. GroupsFit(groups, blks, X)
        BY <2>7, <2>8 DEF GroupsFit
      <3>2. TextOf(OutermostText(s)[Len(s)], Covered(blks), X)
        BY <2>4, <2>5, <3>1, WrittenText
      <3> QED
        BY <2>5, <2>6, <3>2 DEF TextOf
    <2>10. DOMAIN t = 1..Len(t)
      BY <2>9
    <2> QED
      BY <2>1, <2>2, <2>3, <2>6, <2>9, <2>10 DEF AscendsOutside
  <1> QED
    BY InitWriterInv, NextWriterInv, <1>1, PTL DEF SpecWriter

(* For all documents whose blocks nest: groups of separate blocks with no  *)
(* other block between them do not change what is written.                 *)
THEOREM SeamlessMergeAlwaysKeepsText == SpecWriter => []SeamlessMergeKeepsText
  <1>1. WriterInv => SeamlessMergeKeepsText
    <2> SUFFICES ASSUME WriterInv, Written, WellFormed, Laminar(input.combined),
                        \A i \in DOMAIN input.combined : Seamless(input.combined[i])
                 PROVE  html = Ascending(Covered(input.blocks))
      BY DEF SeamlessMergeKeepsText
    <2>1. PICK blks \in Seq(Blocks) : blks = input.blocks
      BY DEF WriterInv
    <2>2. PICK groups \in Seq(CombinedBlocks) : groups = input.combined
      BY DEF WriterInv
    <2>3. WellFormedWith(blks, groups)
      BY <2>1, <2>2, WellFormedInput
    <2>4. PICK s \in Sortings(Units) :
            /\ s \in Seq(TextUnits) /\ SortedUnits(s)
            /\ Range(s) = Range(MergedUnits(blks, groups))
            /\ html = OutermostText(s)[Len(s)]
      BY <2>1, <2>2, WrittenUnits DEF Units
    <2>5. PICK t : t = html
      OBVIOUS
    <2>6. ASSUME NEW j \in 1..Len(groups)
          PROVE  /\ Writes(Unit(groups[j]), Covered(blks), {})
                 /\ \A i \in 1..Len(blks) : ~Crossing(blks[i], groups[j], {})
      <3>1. PICK g \in CombinedBlocks : g = groups[j]
        OBVIOUS
      <3>2. PICK e : e = g.elements
        OBVIOUS
      <3>3. PICK n : n = Len(g.source_indexes)
        OBVIOUS
      <3>4. /\ OfDocument(e) /\ Apart(e)
            /\ Covered(blks) \cap Span(g) = Covered(e)
            /\ \A i \in 1..Len(blks) : Disjoint(blks[i], g) \/ Nested(blks[i], g)
        <4>1. DOMAIN groups = 1..Len(groups) /\ DOMAIN blks = 1..Len(blks)
          OBVIOUS
        <4>2. Seamless(g)
          BY <2>2, <3>1, <4>1
        <4> QED
          BY <2>1, <3>2, <4>1, <4>2 DEF Seamless
      <3>5. /\ GroupOf(g, blks)
            /\ \A i \in 1..Len(blks) : OfText(blks[i])
        BY <2>3, <3>1 DEF WellFormedWith
      <3>6. n \in Nat \ {0} /\ Elements(e, g, blks, n) /\ Spans(g, e, n)
        BY <3>2, <3>3, <3>5, GroupElements
      <3>7. InDocument(e, n)
        <4>1. DOMAIN e = 1..n /\ \A k \in 1..n : e[k] \in Blocks
          BY <3>6 DEF Elements
        <4>2. e \in Seq(Blocks) /\ Len(e) = n
          <5>1. e \in Seq(Blocks)
            BY <3>2 DEF CombinedBlocks
          <5> QED
            BY <3>6, <4>1, <5>1
        <4>3. \A k \in 1..n : e[k].raw_begin \in Nat /\ e[k].raw_end \in Nat
          BY <4>1 DEF Blocks
        <4> QED
          BY <3>4, <4>1, <4>2, <4>3 DEF OfDocument, InDocument
      <3>8. g.raw = Ascending(Covered(e))
        <4>1. Seqs!FlattenSeq([k \in 1..n |-> e[k].raw]) = Ascending(Covered(e))
          BY <3>4, <3>6, <3>7, ApartText
        <4> QED
          BY <3>6, <4>1 DEF Spans
      <3>9. Covered(e) \in SUBSET Nat /\ IsFiniteSet(Covered(e))
        BY <3>6, <3>7, CoveredFinite
      <3>10. g.raw \in Seq(Nat) /\ Ascends(g.raw) /\ Range(g.raw) = Covered(e)
        BY <3>8, <3>9, AscendingFacts
      <3>11. g.raw_begin <= g.raw_end
        BY <3>3, <3>5, GroupSpans
      <3>12. AscendsOutside(g.raw, {})
        BY <3>10 DEF Ascends, AscendsOutside
      <3>13. Writes(Unit(g), Covered(blks), {})
        BY <3>4, <3>10, <3>11, <3>12, UnitSpan DEF Writes
      <3>14. \A i \in 1..Len(blks) : ~Crossing(blks[i], g, {})
        BY <3>4 DEF Crossing
      <3> QED
        BY <3>1, <3>13, <3>14
    <2>7. \A i, j \in 1..Len(groups) : ~Crossing(groups[i], groups[j], {})
      <3>1. DOMAIN groups = 1..Len(groups)
        OBVIOUS
      <3> QED
        BY <2>2, <3>1 DEF Laminar, Crossing
    <2>8. /\ t \in Seq(Nat) /\ AscendsOutside(t, {})
          /\ Range(t) \ {} = Covered(blks) \ {}
      <3>1. GroupsFit(groups, blks, {})
        BY <2>6, <2>7 DEF GroupsFit
      <3>2. TextOf(OutermostText(s)[Len(s)], Covered(blks), {})
        BY <2>3, <2>4, <3>1, WrittenText
      <3> QED
        BY <2>4, <2>5, <3>2 DEF TextOf
    <2>9. Ascends(t) /\ Range(t) = Covered(blks)
      BY <2>8 DEF Ascends, AscendsOutside
    <2>10. Ascending(Range(t)) = t
      BY <2>8, <2>9, OnlyOrder
    <2> QED
      BY <2>1, <2>5, <2>9, <2>10
  <1> QED
    BY InitWriterInv, NextWriterInv, <1>1, PTL DEF SpecWriter

(* What CombineBlock holds at any time, in the middle of a call included,  *)
(* is well formed when it is passed on and the blocks nest: its groups     *)
(* claim positions of the blocks next to them and are made of these.       *)
THEOREM CombinedBlocksAreWellFormed ==
  Spec => [](input = [blocks |-> blocks, combined |-> combined_blocks] /\ Laminar(blocks)
               => WellFormed)
  <1>1. ASSUME ListInv, input = [blocks |-> blocks, combined |-> combined_blocks],
               Laminar(blocks)
        PROVE  WellFormed
    <2>1. blocks \in Seq(Blocks) /\ combined_blocks \in Seq(GroupsFor(blocks))
      BY <1>1 DEF ListInv
    <2>2. \A i \in DOMAIN blocks : OfText(blocks[i])
      <3>1. ASSUME NEW i \in 1..Len(blocks) PROVE OfText(blocks[i])
        <4>1. blocks[i].raw_begin \in Nat /\ blocks[i].raw_end \in Nat
          <5>1. blocks[i] \in Blocks
            BY <2>1
          <5> QED
            BY <5>1 DEF Blocks
        <4>2. /\ blocks[i].raw_begin < blocks[i].raw_end
              /\ blocks[i].raw = [n \in 1..(blocks[i].raw_end - blocks[i].raw_begin) |->
                                    blocks[i].raw_begin + n - 1]
          BY <1>1 DEF ListInv, OfDocument
        <4> QED
          BY <4>1, <4>2 DEF OfText
      <3> QED
        BY <2>1, <3>1
    <2>3. ASSUME NEW g \in GroupsFor(blocks) PROVE GroupOf(g, blocks)
      <3>1. PICK s \in Selections(blocks) : Len(s) >= 2 /\ g = Group(blocks, s)
        BY DEF GroupsFor
      <3>2. s \in Seq(Nat) /\ \A k \in 1..Len(s) : s[k] \in 0..(Len(blocks) - 1)
        BY <2>1, <3>1, SelectionFacts
      <3>3. g.source_indexes = s
        BY <3>1 DEF Group
      <3>4. s # <<>>
        BY <3>1
      <3>5. ASSUME NEW k \in DOMAIN s PROVE s[k] < Len(blocks)
        BY <2>1, <3>2
      <3> QED
        BY <3>1, <3>3, <3>4, <3>5 DEF GroupOf, FitsBlocks
    <2>4. \A i \in DOMAIN combined_blocks : GroupOf(combined_blocks[i], blocks)
      BY <2>1, <2>3
    <2> QED
      BY <1>1, <2>2, <2>4 DEF WellFormed
  <1>2. ListInv =>
          (input = [blocks |-> blocks, combined |-> combined_blocks] /\ Laminar(blocks)
             => WellFormed)
    BY <1>1
  <1> QED
    BY InitListInv, NextListInv, <1>2, PTL DEF Spec
=============================================================================
