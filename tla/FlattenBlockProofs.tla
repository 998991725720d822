-------------------------- MODULE FlattenBlockProofs --------------------------
(***************************************************************************)
(* Proofs about FlattenBlock, for all texts and lists of blocks, however   *)
(* deep slots call back.                                                   *)
(***************************************************************************)
EXTENDS FlattenBlock, SequenceTheorems, TLAPS

(* What a step can do to the members of the object, whichever call makes   *)
(* it.                                                                     *)
Cleared == has_layer' = FALSE
Layered == blocks' = blocks /\ blocks # <<>> /\ has_layer' = TRUE
           /\ layer_block' = LayerOf(blocks) /\ last_error' = "none"
Kept == UNCHANGED <<blocks, layer_block, has_layer, last_error>>

LEMMA LayerEffect ==
  ASSUME NEW as_slot, NEW todos, Layer(as_slot, todos), blocks' = blocks
  PROVE  Cleared \/ Layered
BY DEF Layer, ClearLayer, Cleared, Layered

LEMMA StepEffect ==
  ASSUME [Next]_vars
  PROVE  Cleared \/ Layered \/ Kept
<1>1. ASSUME NEW t \in Texts, NEW as_slot \in BOOLEAN, Parse(t, as_slot)
      PROVE  Cleared
  BY <1>1 DEF Parse, Clear, ClearLayer, Cleared
<1>2. CASE ParseNull
  BY <1>2 DEF ParseNull, Clear, ClearLayer, Cleared
<1>3. ASSUME NEW list \in BlockLists, SetBlocks(list)
      PROVE  Cleared
  BY <1>3 DEF SetBlocks, ClearLayer, Cleared
<1>4. ASSUME NEW as_slot \in BOOLEAN, LayerAll(as_slot)
      PROVE  Cleared \/ Layered
  BY <1>4, LayerEffect DEF LayerAll
<1>5. CASE EmitSignal
  BY <1>5 DEF EmitSignal, Kept
<1>6. CASE ParseLayers
  BY <1>6, LayerEffect DEF ParseLayers
<1>7. CASE ParseThrows
  BY <1>7 DEF ParseThrows, Handle, Clear, ClearLayer, Cleared
<1>8. CASE Return
  BY <1>8 DEF Return, Kept
<1>9. CASE UNCHANGED vars
  BY <1>9 DEF vars, Kept
<1>. QED
  BY <1>1, <1>2, <1>3, <1>4, <1>5, <1>6, <1>7, <1>8, <1>9 DEF Next

(* The layer is that of the present blocks: in every state, so in those in *)
(* which a slot runs in the middle of a call.                              *)
THEOREM LayerIsOfBlocks == Spec => []LayerOfBlocks
<1>1. Init => LayerOfBlocks
  BY DEF Init, LayerOfBlocks
<1>2. LayerOfBlocks /\ [Next]_vars => LayerOfBlocks'
  <2>. SUFFICES ASSUME LayerOfBlocks, [Next]_vars PROVE LayerOfBlocks'
    OBVIOUS
  <2>1. CASE Cleared
    BY <2>1 DEF Cleared, LayerOfBlocks
  <2>2. CASE Layered
    BY <2>2 DEF Layered, LayerOfBlocks
  <2>3. CASE Kept
    BY <2>3 DEF Kept, LayerOfBlocks
  <2>. QED
    BY <2>1, <2>2, <2>3, StepEffect
<1>. QED
  BY <1>1, <1>2, PTL DEF Spec

(* A reported error is about what one sees: there is no layer.             *)
THEOREM ErrorsMeanNoLayer == Spec => []ErrorMeansNoLayer
<1>1. Init => ErrorMeansNoLayer
  BY DEF Init, ErrorMeansNoLayer
<1>2. ErrorMeansNoLayer /\ [Next]_vars => ErrorMeansNoLayer'
  <2>. SUFFICES ASSUME ErrorMeansNoLayer, [Next]_vars PROVE ErrorMeansNoLayer'
    OBVIOUS
  <2>1. CASE Cleared
    BY <2>1 DEF Cleared, ErrorMeansNoLayer
  <2>2. CASE Layered
    BY <2>2 DEF Layered, ErrorMeansNoLayer
  <2>3. CASE Kept
    BY <2>3 DEF Kept, ErrorMeansNoLayer
  <2>. QED
    BY <2>1, <2>2, <2>3, StepEffect
<1>. QED
  BY <1>1, <1>2, PTL DEF Spec

-----------------------------------------------------------------------------
(* The calls there can be on the stack.                                    *)
Todos == {"blocks_changed", "layer", "layered", "failed"}

Frames ==
  [call : {"Parse", "SetBlocks", "LayerAll"}, given : Seq(Blocks),
   as_slot : BOOLEAN, todo : Seq(Todos), in_slot : BOOLEAN,
   disturbed : BOOLEAN]

(* What a call of Parse has promised at each point of it, unless another   *)
(* call has replaced its blocks.                                           *)
ParseTodos == {<<"blocks_changed", "layer">>, <<"layer">>, <<"layered">>,
               <<"failed">>, <<>>}
OtherTodos == {<<"blocks_changed">>, <<"layered">>, <<"failed">>, <<>>}
Unlayered  == {<<"blocks_changed", "layer">>, <<"layer">>}

TodoOK(f) ==
  IF f.call = "Parse" THEN f.todo \in ParseTodos ELSE f.todo \in OtherTodos

Outcome(given) ==
  \/ last_error = "none" /\ has_layer /\ blocks = given
  \/ last_error # "none" /\ ~has_layer /\ blocks = <<>>

Promise(f) ==
  f.call = "Parse" /\ ~f.disturbed =>
    IF f.todo \in Unlayered THEN blocks = f.given ELSE Outcome(f.given)

(* The inductive invariant.  A call of Parse disturbs all calls below it,  *)
(* so what it leaves behind when it fails breaks none of their promises.   *)
IInv ==
  /\ blocks \in Seq(Blocks)
  /\ calls \in Seq(Frames)
  /\ \A i \in 1..Len(calls) : TodoOK(calls[i])
  /\ \A i, j \in 1..Len(calls) :
       i < j /\ calls[j].call = "Parse" => calls[i].disturbed
  /\ \A i \in 1..Len(calls) : Promise(calls[i])

LEMMA PromiseAfterLayer ==
  ASSUME NEW f, Promise(f), NEW as_slot, NEW todos, Layer(as_slot, todos),
         blocks' = blocks
  PROVE  Promise(f)'
<1>1. CASE blocks = <<>> /\ has_layer' = FALSE /\ last_error' = "no_block"
  BY <1>1 DEF Promise, Outcome
<1>2. CASE Layered
  BY <1>2 DEF Promise, Outcome, Layered
<1>. QED
  BY <1>1, <1>2 DEF Layer, ClearLayer, Layered

Disturbed(f) == [f EXCEPT !.disturbed = TRUE]

LEMMA DisturbedFrame ==
  ASSUME NEW f \in Frames
  PROVE  /\ Disturbed(f) \in Frames
         /\ Disturbed(f).disturbed = TRUE
         /\ Disturbed(f).call = f.call
         /\ Disturbed(f).todo = f.todo
         /\ Disturbed(f).given = f.given
BY DEF Disturbed, Frames

(* A call that replaces the blocks.                                        *)
LEMMA Replaces ==
  ASSUME IInv, NEW f \in Frames, calls' = Append(Disturb, f),
         blocks' \in Seq(Blocks), TodoOK(f), Promise(f)'
  PROVE  IInv'
<1>. DEFINE n == Len(calls)
<1>1. n \in Nat /\ calls \in Seq(Frames)
  BY DEF IInv
<1>2. \A i \in 1..n : Disturb[i] = Disturbed(calls[i])
  BY <1>1 DEF Disturb, Disturbed
<1>3. \A i \in 1..n : /\ Disturb[i].disturbed = TRUE
                       /\ Disturb[i].call = calls[i].call
                       /\ Disturb[i].todo = calls[i].todo
                       /\ Disturb[i] \in Frames
  <2>. SUFFICES ASSUME NEW i \in 1..n
                PROVE  /\ Disturb[i].disturbed = TRUE
                       /\ Disturb[i].call = calls[i].call
                       /\ Disturb[i].todo = calls[i].todo
                       /\ Disturb[i] \in Frames
    OBVIOUS
  <2>1. calls[i] \in Frames
    BY <1>1
  <2>. QED
    BY <1>2, <2>1, DisturbedFrame
<1>4. Disturb \in Seq(Frames) /\ Len(Disturb) = n
  <2>1. Disturb = [i \in 1..n |-> Disturb[i]]
    BY DEF Disturb
  <2>. QED
    BY <1>1, <1>3, <2>1
<1>5. /\ calls' \in Seq(Frames) /\ Len(calls') = n + 1
      /\ calls'[n + 1] = f
      /\ \A i \in 1..n : calls'[i] = Disturb[i]
  BY <1>1, <1>4
<1>6. \A i \in 1..(n + 1) : i \in 1..n \/ i = n + 1
  BY <1>1
<1>7. \A i \in 1..Len(calls') : TodoOK(calls'[i])
  BY <1>3, <1>5, <1>6 DEF TodoOK, IInv
<1>8. \A i, j \in 1..Len(calls') :
        i < j /\ calls'[j].call = "Parse" => calls'[i].disturbed
  BY <1>1, <1>3, <1>5, <1>6
<1>9. \A i \in 1..Len(calls') : Promise(calls[i])'
  BY <1>3, <1>5, <1>6 DEF Promise
<1>. QED
  BY <1>5, <1>7, <1>8, <1>9 DEF IInv, TodoOK

(* The innermost call goes on, or has come to its end.                     *)
Advanced(f, todos, in_slot) == [f EXCEPT !.todo = todos, !.in_slot = in_slot]

LEMMA AdvancedFrame ==
  ASSUME NEW f \in Frames, NEW todos \in Seq(Todos), NEW in_slot \in BOOLEAN
  PROVE  /\ Advanced(f, todos, in_slot) \in Frames
         /\ Advanced(f, todos, in_slot).disturbed = f.disturbed
         /\ Advanced(f, todos, in_slot).call = f.call
         /\ Advanced(f, todos, in_slot).todo = todos
         /\ Advanced(f, todos, in_slot).given = f.given
BY DEF Advanced, Frames

LEMMA GoesOn ==
  ASSUME IInv, calls # <<>>, NEW todos \in Seq(Todos), NEW in_slot \in BOOLEAN,
         Proceed(todos, in_slot), blocks' \in Seq(Blocks),
         NEW f, f = Advanced(Top, todos, in_slot), TodoOK(f), Promise(f)',
         (\A g : Promise(g) => Promise(g)') \/ Top.call = "Parse"
  PROVE  IInv'
<1>. DEFINE n == Len(calls)
<1>1. n \in Nat /\ n \in 1..n /\ calls \in Seq(Frames) /\ Top = calls[n]
  BY DEF IInv, Top
<1>2. Top \in Frames
  BY <1>1
<1>3. f \in Frames /\ f.disturbed = Top.disturbed /\ f.call = Top.call
  BY <1>2, AdvancedFrame
<1>4. calls' = [calls EXCEPT ![n] = f]
  BY <1>1 DEF Proceed, Advanced
<1>5. /\ calls' \in Seq(Frames) /\ Len(calls') = n
      /\ calls'[n] = f
      /\ \A i \in 1..n : i # n => calls'[i] = calls[i]
  BY <1>1, <1>3, <1>4
<1>6. \A i \in 1..n : /\ calls'[i].call = calls[i].call
                       /\ calls'[i].disturbed = calls[i].disturbed
  BY <1>1, <1>3, <1>5
<1>7. \A i \in 1..n : TodoOK(calls'[i])
  BY <1>5 DEF IInv
<1>8. \A i, j \in 1..n :
        i < j /\ calls'[j].call = "Parse" => calls'[i].disturbed
  BY <1>6 DEF IInv
<1>9. ASSUME NEW g, NEW i \in 1..n, g = calls'[i] PROVE Promise(g)'
  <2>1. CASE i = n
    BY <1>5, <1>9, <2>1
  <2>2. CASE i # n /\ \A h : Promise(h) => Promise(h)'
    <3>1. g = calls[i] /\ Promise(calls[i])
      BY <1>5, <1>9, <2>2 DEF IInv
    <3>. QED
      BY <2>2, <3>1
  <2>3. CASE i # n /\ Top.call = "Parse"
    <3>1. g = calls[i] /\ i < n
      BY <1>1, <1>5, <1>9, <2>3
    <3>2. calls[i].disturbed
      BY <1>1, <2>3, <3>1 DEF IInv
    <3>. QED
      BY <3>1, <3>2 DEF Promise
  <2>. QED
    BY <2>1, <2>2, <2>3
<1>10. \A i \in 1..Len(calls') : Promise(calls[i])'
  BY <1>5, <1>9 DEF Promise, Outcome
<1>. QED
  BY <1>5, <1>7, <1>8, <1>10 DEF IInv, TodoOK

(* A slot layers the blocks.                                               *)
LEMMA LayersFromSlot ==
  ASSUME IInv, NEW f \in Frames, f.call = "LayerAll", TodoOK(f),
         calls' = Append(calls, f), blocks' = blocks,
         \A g : Promise(g) => Promise(g)'
  PROVE  IInv'
<1>. DEFINE n == Len(calls)
<1>1. n \in Nat /\ calls \in Seq(Frames)
  BY DEF IInv
<1>2. /\ calls' \in Seq(Frames) /\ Len(calls') = n + 1
      /\ calls'[n + 1] = f
      /\ \A i \in 1..n : calls'[i] = calls[i]
  BY <1>1
<1>3. \A i \in 1..(n + 1) : i \in 1..n \/ i = n + 1
  BY <1>1
<1>4. \A i \in 1..(n + 1) : TodoOK(calls'[i])
  BY <1>2, <1>3 DEF IInv
<1>5. \A i, j \in 1..(n + 1) :
        i < j /\ calls'[j].call = "Parse" => calls'[i].disturbed
  <2>. SUFFICES ASSUME NEW i \in 1..(n + 1), NEW j \in 1..(n + 1),
                       i < j, calls'[j].call = "Parse"
                PROVE  calls'[i].disturbed
    OBVIOUS
  <2>1. j # n + 1
    BY <1>2
  <2>2. i \in 1..n /\ j \in 1..n
    BY <1>1, <2>1
  <2>. QED
    BY <1>2, <2>2 DEF IInv
<1>6. ASSUME NEW g, NEW i \in 1..(n + 1), g = calls'[i] PROVE Promise(g)'
  <2>1. CASE i = n + 1
    BY <1>2, <1>6, <2>1 DEF Promise
  <2>2. CASE i \in 1..n
    <3>1. g = calls[i] /\ Promise(calls[i])
      BY <1>2, <1>6, <2>2 DEF IInv
    <3>. QED
      BY <3>1
  <2>. QED
    BY <1>3, <2>1, <2>2
<1>7. \A i \in 1..Len(calls') : Promise(calls[i])'
  BY <1>2, <1>6 DEF Promise, Outcome
<1>. QED
  BY <1>2, <1>4, <1>5, <1>7 DEF IInv, TodoOK

LEMMA Returns == ASSUME IInv, Return PROVE IInv'
<1>. DEFINE n == Len(calls)
<1>1. n \in Nat /\ n - 1 \in Nat /\ calls \in Seq(Frames)
  BY DEF IInv, Return
<1>2. /\ calls' \in Seq(Frames) /\ Len(calls') = n - 1
      /\ \A i \in 1..(n - 1) : i \in 1..n /\ calls'[i] = calls[i]
  <2>1. calls' = SubSeq(calls, 1, n - 1)
    BY DEF Return
  <2>2. /\ 1 \in Int /\ n - 1 \in Int /\ (n - 1) - 1 + 1 = n - 1
        /\ \A i \in 1..(n - 1) : i \in 1..n /\ 1 + i - 1 = i
    BY <1>1
  <2>3. \A i \in 1..(n - 1) : calls[i] \in Frames
    BY <1>1, <2>2
  <2>4. /\ SubSeq(calls, 1, n - 1) \in Seq(Frames)
        /\ \A i \in 1..(n - 1) : SubSeq(calls, 1, n - 1)[i] = calls[1 + i - 1]
    BY <2>2, <2>3, SubSeqProperties
  <2>5. Len(SubSeq(calls, 1, n - 1)) = n - 1
    BY <1>1, <2>2, <2>3, SubSeqProperties
  <2>. QED
    BY <2>1, <2>2, <2>4, <2>5
<1>3. \A i \in 1..(n - 1) : TodoOK(calls'[i])
  BY <1>2 DEF IInv
<1>4. \A i, j \in 1..(n - 1) :
        i < j /\ calls'[j].call = "Parse" => calls'[i].disturbed
  BY <1>2 DEF IInv
<1>5. \A i \in 1..(n - 1) : Promise(calls'[i])
  BY <1>2 DEF IInv
<1>6. \A i \in 1..Len(calls') : Promise(calls[i])'
  BY <1>2, <1>5 DEF Promise, Outcome, Return
<1>. QED
  BY <1>2, <1>3, <1>4, <1>6 DEF IInv, TodoOK, Return

-----------------------------------------------------------------------------
LEMMA NewFrame ==
  ASSUME NEW name \in {"Parse", "SetBlocks", "LayerAll"},
         NEW list \in Seq(Blocks), NEW as_slot \in BOOLEAN,
         NEW todos \in Seq(Todos)
  PROVE  /\ Frame(name, list, as_slot, todos) \in Frames
         /\ Frame(name, list, as_slot, todos).call = name
         /\ Frame(name, list, as_slot, todos).given = list
         /\ Frame(name, list, as_slot, todos).todo = todos
BY DEF Frame, Frames

LEMMA TodoTypes ==
  /\ ParseTodos \subseteq Seq(Todos) /\ OtherTodos \subseteq Seq(Todos)
  /\ \A as_slot : /\ AfterFailure(as_slot) \in ParseTodos
                  /\ AfterFailure(as_slot) \in OtherTodos
                  /\ AfterFailure(as_slot) \notin Unlayered
  /\ <<"layered">> \in ParseTodos \cap OtherTodos
  /\ <<"layered">> \notin Unlayered /\ <<>> \notin Unlayered
  /\ <<>> \in Seq(Blocks) /\ <<>> \in ParseTodos
BY DEF ParseTodos, OtherTodos, Unlayered, Todos, AfterFailure

LEMMA TodosLeft ==
  /\ \A t \in ParseTodos \ {<<>>} : Tail(t) \in ParseTodos
  /\ \A t \in OtherTodos \ {<<>>} : Tail(t) \in OtherTodos
  /\ \A t \in ParseTodos \ {<<>>, <<"layer">>} :
       Tail(t) \in Unlayered <=> t \in Unlayered
<1>1. \A x : Tail(<<x>>) = <<>>
  OBVIOUS
<1>2. \A x, y : Tail(<<x, y>>) = <<y>>
  OBVIOUS
<1>3. Tail(<<"blocks_changed", "layer">>) = <<"layer">>
  BY <1>2
<1>4. /\ Tail(<<"blocks_changed">>) = <<>> /\ Tail(<<"layer">>) = <<>>
      /\ Tail(<<"layered">>) = <<>> /\ Tail(<<"failed">>) = <<>>
  BY <1>1
<1>5. \A t \in OtherTodos \ {<<>>} : Tail(t) = <<>>
  BY <1>4 DEF OtherTodos
<1>6. \A t \in ParseTodos \ {<<>>} :
        \/ t = <<"blocks_changed", "layer">> /\ Tail(t) = <<"layer">>
        \/ t # <<"blocks_changed", "layer">> /\ Tail(t) = <<>>
  BY <1>3, <1>4 DEF ParseTodos
<1>7. \A t \in ParseTodos \ {<<>>} : Tail(t) \in ParseTodos
  BY <1>6 DEF ParseTodos
<1>8. \A t \in OtherTodos \ {<<>>} : Tail(t) \in OtherTodos
  BY <1>5 DEF OtherTodos
<1>9. \A t \in ParseTodos \ {<<>>, <<"layer">>} :
        Tail(t) \in Unlayered <=> t \in Unlayered
  <2>. SUFFICES ASSUME NEW t \in ParseTodos \ {<<>>, <<"layer">>}
                PROVE  Tail(t) \in Unlayered <=> t \in Unlayered
    OBVIOUS
  <2>1. <<>> \notin Unlayered /\ <<"layer">> \in Unlayered
        /\ <<"blocks_changed", "layer">> \in Unlayered
    BY DEF Unlayered
  <2>2. t \in Unlayered => t = <<"blocks_changed", "layer">>
    BY DEF Unlayered
  <2>. QED
    BY <1>6, <2>1, <2>2
<1>. QED
  BY <1>7, <1>8, <1>9

LEMMA LayerIsNext ==
  ASSUME NEW f, TodoOK(f), f.todo # <<>>, Head(f.todo) = "layer"
  PROVE  f.call = "Parse" /\ f.todo \in Unlayered
<1>1. \A x : Head(<<x>>) = x
  OBVIOUS
<1>2. \A x, y : Head(<<x, y>>) = x
  OBVIOUS
<1>. QED
  BY <1>1, <1>2 DEF TodoOK, ParseTodos, OtherTodos, Unlayered

LEMMA FrameTypes ==
  \A f \in Frames : f.todo \in Seq(Todos) /\ f.given \in Seq(Blocks)
BY DEF Frames

LEMMA TopFrame ==
  ASSUME IInv, calls # <<>>
  PROVE  Top \in Frames /\ TodoOK(Top) /\ Promise(Top)
<1>1. Len(calls) \in 1..Len(calls)
  BY DEF IInv
<1>. QED
  BY <1>1 DEF IInv, Top

LEMMA NextIInv == IInv /\ [Next]_vars => IInv'
<1>. SUFFICES ASSUME IInv, [Next]_vars PROVE IInv'
  OBVIOUS
<1>1. ASSUME NEW t \in Texts, NEW as_slot \in BOOLEAN, Parse(t, as_slot)
      PROVE  IInv'
  <2>1. CASE /\ Divided[t].ok /\ blocks' = Divided[t].blocks
             /\ calls' = Append(Disturb,
                           Frame("Parse", Divided[t].blocks, as_slot,
                                 <<"blocks_changed", "layer">>))
    <3>. DEFINE f == Frame("Parse", Divided[t].blocks, as_slot,
                           <<"blocks_changed", "layer">>)
    <3>1. Divided[t].blocks \in Seq(Blocks)
      BY DividedAssumption
    <3>2. <<"blocks_changed", "layer">> \in ParseTodos \cap Unlayered
      BY DEF ParseTodos, Unlayered
    <3>3. f \in Frames /\ f.call = "Parse" /\ f.given = Divided[t].blocks
          /\ f.todo = <<"blocks_changed", "layer">>
      BY <3>1, <3>2, NewFrame, TodoTypes
    <3>4. TodoOK(f)
      BY <3>2, <3>3 DEF TodoOK
    <3>5. PICK g \in Frames : g = f
      BY <3>3
    <3>6. TodoOK(g)
      BY <3>4, <3>5
    <3>7. Promise(g)'
      BY <2>1, <3>2, <3>3, <3>5 DEF Promise
    <3>. QED
      BY <2>1, <3>1, <3>5, <3>6, <3>7, Replaces
  <2>2. CASE /\ Clear /\ last_error' # "none"
             /\ calls' = Append(Disturb,
                           Frame("Parse", <<>>, as_slot, AfterFailure(as_slot)))
    <3>. DEFINE f == Frame("Parse", <<>>, as_slot, AfterFailure(as_slot))
    <3>1. f \in Frames /\ f.call = "Parse" /\ f.given = <<>>
          /\ f.todo = AfterFailure(as_slot)
      <4>1. /\ AfterFailure(as_slot) \in Seq(Todos) /\ <<>> \in Seq(Blocks)
            /\ "Parse" \in {"Parse", "SetBlocks", "LayerAll"}
        BY TodoTypes
      <4>. QED
        BY <4>1 DEF Frame, Frames
    <3>2. TodoOK(f)
      BY <3>1, TodoTypes DEF TodoOK
    <3>3. PICK g \in Frames : g = f
      BY <3>1
    <3>4. TodoOK(g)
      BY <3>2, <3>3
    <3>5. Promise(g)'
      BY <2>2, <3>1, <3>3, TodoTypes DEF Promise, Outcome, Clear, ClearLayer
    <3>. QED
      BY <2>2, <3>3, <3>4, <3>5, Replaces DEF Clear
  <2>. QED
    BY <1>1, <2>1, <2>2 DEF Parse
<1>2. CASE ParseNull
  <2>. DEFINE f == Frame("Parse", <<>>, FALSE, <<>>)
  <2>1. f \in Frames /\ f.call = "Parse" /\ f.todo = <<>>
    <3>1. /\ <<>> \in Seq(Todos) /\ <<>> \in Seq(Blocks) /\ FALSE \in BOOLEAN
          /\ "Parse" \in {"Parse", "SetBlocks", "LayerAll"}
      BY TodoTypes
    <3>. QED
      BY <3>1 DEF Frame, Frames
  <2>2. TodoOK(f)
    BY <2>1 DEF TodoOK, ParseTodos
  <2>3. PICK g \in Frames : g = f
    BY <2>1
  <2>4. TodoOK(g)
    BY <2>2, <2>3
  <2>5. Promise(g)'
    BY <1>2, <2>1, <2>3, TodoTypes
    DEF Promise, Outcome, ParseNull, Clear, ClearLayer
  <2>. QED
    <3>1. blocks' = <<>> /\ calls' = Append(Disturb, g)
      BY <1>2, <2>3 DEF ParseNull, Clear
    <3>2. blocks' \in Seq(Blocks)
      BY <3>1, TodoTypes
    <3>. QED
      BY <2>4, <2>5, <3>1, <3>2, Replaces
<1>3. ASSUME NEW list \in BlockLists, SetBlocks(list) PROVE IInv'
  <2>. DEFINE f == Frame("SetBlocks", list, FALSE, <<"blocks_changed">>)
  <2>1. list \in Seq(Blocks) /\ <<"blocks_changed">> \in OtherTodos
    BY BlockListsAssumption DEF OtherTodos
  <2>2. f \in Frames /\ f.call = "SetBlocks" /\ f.todo = <<"blocks_changed">>
    <3>1. /\ <<"blocks_changed">> \in Seq(Todos) /\ FALSE \in BOOLEAN
          /\ "SetBlocks" \in {"Parse", "SetBlocks", "LayerAll"}
      BY <2>1, TodoTypes
    <3>. QED
      BY <2>1, <3>1 DEF Frame, Frames
  <2>3. TodoOK(f)
    BY <2>1, <2>2 DEF TodoOK
  <2>4. PICK g \in Frames : g = f
    BY <2>2
  <2>5. TodoOK(g)
    BY <2>3, <2>4
  <2>6. Promise(g)'
    BY <2>2, <2>4 DEF Promise
  <2>. QED
    BY <1>3, <2>1, <2>4, <2>5, <2>6, Replaces DEF SetBlocks
<1>4. ASSUME NEW as_slot \in BOOLEAN, LayerAll(as_slot) PROVE IInv'
  <2>1. PICK todos \in {AfterFailure(as_slot), <<"layered">>} :
               /\ Layer(as_slot, todos)
               /\ calls' = Append(calls,
                                  Frame("LayerAll", blocks, as_slot, todos))
    BY <1>4 DEF LayerAll
  <2>. DEFINE f == Frame("LayerAll", blocks, as_slot, todos)
  <2>2. todos \in OtherTodos /\ blocks' = blocks /\ blocks \in Seq(Blocks)
    BY <1>4, TodoTypes DEF LayerAll, IInv
  <2>3. f \in Frames /\ f.call = "LayerAll" /\ f.todo = todos
    BY <2>2, NewFrame, TodoTypes
  <2>4. TodoOK(f)
    BY <2>2, <2>3 DEF TodoOK
  <2>5. \A g : Promise(g) => Promise(g)'
    BY <2>1, <2>2, PromiseAfterLayer
  <2>. QED
    BY <2>1, <2>2, <2>3, <2>4, <2>5, LayersFromSlot
<1>5. CASE EmitSignal
  <2>. DEFINE todos == Tail(Top.todo)
              f == Advanced(Top, todos, TRUE)
  <2>1. Top \in Frames /\ TodoOK(Top) /\ Promise(Top)
    BY <1>5, TopFrame DEF EmitSignal, Goes
  <2>2. Top.todo \in Seq(Todos) /\ Top.todo # <<>>
    BY <1>5, <2>1, FrameTypes DEF EmitSignal, Goes
  <2>3. todos \in Seq(Todos) /\ TRUE \in BOOLEAN
    BY <2>2
  <2>4. f.call = Top.call /\ f.todo = todos /\ f.given = Top.given
        /\ f.disturbed = Top.disturbed
    BY <2>1, <2>3, AdvancedFrame, Zenon
  <2>5. Top.todo # <<"layer">>
    BY <1>5 DEF EmitSignal, Goes
  <2>6. TodoOK(f)
    BY <2>1, <2>2, <2>4, TodosLeft DEF TodoOK
  <2>7. ASSUME Top.call = "Parse" PROVE Promise(f)
    <3>1. todos \in Unlayered <=> Top.todo \in Unlayered
      BY <2>1, <2>2, <2>5, <2>7, TodosLeft DEF TodoOK
    <3>. QED
      BY <2>1, <2>4, <3>1 DEF Promise
  <2>8. Promise(f)
    BY <2>4, <2>7 DEF Promise
  <2>9. Kept /\ calls # <<>> /\ Proceed(todos, TRUE) /\ blocks' \in Seq(Blocks)
    BY <1>5 DEF EmitSignal, Goes, Kept, IInv
  <2>10. \A g : Promise(g) => Promise(g)'
    BY <2>9 DEF Kept, Promise, Outcome
  <2>11. PICK g : g = f
    OBVIOUS
  <2>12. Promise(g)' /\ TodoOK(g)
    BY <2>6, <2>8, <2>10, <2>11
  <2>. QED
    BY <2>3, <2>9, <2>10, <2>11, <2>12, GoesOn
<1>6. CASE ParseLayers
  <2>1. Top \in Frames /\ TodoOK(Top) /\ Promise(Top)
    BY <1>6, TopFrame DEF ParseLayers, Goes
  <2>2. PICK todos \in {AfterFailure(Top.as_slot), <<"layered">>} :
          Layer(Top.as_slot, todos) /\ Proceed(todos, FALSE)
    BY <1>6 DEF ParseLayers
  <2>. DEFINE f == Advanced(Top, todos, FALSE)
  <2>3. todos \in Seq(Todos) /\ FALSE \in BOOLEAN
    BY <2>2, TodoTypes
  <2>4. f.call = Top.call /\ f.todo = todos /\ f.given = Top.given
        /\ f.disturbed = Top.disturbed
    BY <2>1, <2>3, AdvancedFrame, Zenon
  <2>5. TodoOK(f)
    BY <2>2, <2>4, TodoTypes DEF TodoOK
  <2>6. Head(Top.todo) = "layer" /\ Top.todo # <<>>
    BY <1>6 DEF ParseLayers, Goes
  <2>7. Top.call = "Parse" /\ Top.todo \in Unlayered
    BY <2>1, <2>6, LayerIsNext
  <2>8. \A g : Promise(g) => Promise(g)'
    BY <1>6, <2>2, PromiseAfterLayer DEF ParseLayers
  <2>9. PICK g : g = f
    OBVIOUS
  <2>10. ~g.disturbed => blocks = g.given /\ blocks' = blocks
    BY <1>6, <2>1, <2>4, <2>7, <2>9 DEF Promise, ParseLayers
  <2>11. g.todo \notin Unlayered
    BY <2>2, <2>4, <2>9, TodoTypes
  <2>12. \/ blocks = <<>> /\ has_layer' = FALSE /\ last_error' = "no_block"
         \/ has_layer' = TRUE /\ last_error' = "none"
    BY <2>2 DEF Layer, ClearLayer
  <2>13. Promise(g)'
    BY <2>10, <2>11, <2>12 DEF Promise, Outcome
  <2>14. calls # <<>> /\ blocks' \in Seq(Blocks)
    BY <1>6 DEF ParseLayers, Goes, IInv
  <2>15. TodoOK(g)
    BY <2>5, <2>9
  <2>. QED
    BY <2>2, <2>3, <2>8, <2>9, <2>13, <2>14, <2>15, GoesOn
<1>7. CASE ParseThrows
  <2>1. Top \in Frames /\ TodoOK(Top)
    BY <1>7, TopFrame DEF ParseThrows, Goes
  <2>. DEFINE todos == AfterFailure(Top.as_slot)
              f == Advanced(Top, todos, FALSE)
  <2>2. todos \in Seq(Todos) /\ FALSE \in BOOLEAN
    BY TodoTypes
  <2>3. f.call = Top.call /\ f.todo = todos
    BY <2>1, <2>2, AdvancedFrame, Zenon
  <2>4. TodoOK(f)
    BY <2>3, TodoTypes DEF TodoOK
  <2>5. Head(Top.todo) = "layer" /\ Top.todo # <<>>
    BY <1>7 DEF ParseThrows, Goes
  <2>6. Top.call = "Parse"
    BY <2>1, <2>5, LayerIsNext
  <2>7. PICK g : g = f
    OBVIOUS
  <2>8. g.todo \notin Unlayered
    BY <2>3, <2>7, TodoTypes
  <2>9. blocks' = <<>> /\ has_layer' = FALSE /\ last_error' = "exception"
    BY <1>7 DEF ParseThrows, Handle, Clear, ClearLayer
  <2>10. Promise(g)'
    BY <2>8, <2>9 DEF Promise, Outcome
  <2>11. calls # <<>> /\ Proceed(todos, FALSE) /\ blocks' \in Seq(Blocks)
    BY <1>7, <2>9, TodoTypes DEF ParseThrows, Goes
  <2>12. TodoOK(g)
    BY <2>4, <2>7
  <2>. QED
    BY <2>2, <2>6, <2>7, <2>10, <2>11, <2>12, GoesOn
<1>8. CASE Return
  BY <1>8, Returns
<1>9. CASE UNCHANGED vars
  BY <1>9 DEF vars, IInv, TodoOK, Promise, Outcome
<1>. QED
  BY <1>1, <1>2, <1>3, <1>4, <1>5, <1>6, <1>7, <1>8, <1>9 DEF Next

(* A call of Parse that no other call disturbs ends with the blocks of its *)
(* text and their layer, or with neither and an error, even if slots layer *)
(* the blocks on the way.                                                  *)
THEOREM ParseKeepsItsPromise == Spec => []ParseLayersText
<1>1. Init => IInv
  <2>1. ASSUME Init PROVE IInv
    BY <2>1 DEF Init, IInv
  <2>. QED
    BY <2>1
<1>2. IInv => ParseLayersText
  <2>. SUFFICES ASSUME IInv, Returning("Parse"), ~Top.disturbed
                PROVE  Outcome(Top.given)
    BY DEF ParseLayersText, Outcome
  <2>1. Promise(Top)
    BY TopFrame DEF Returning
  <2>2. Top.todo \notin Unlayered
    BY TodoTypes DEF Returning
  <2>. QED
    BY <2>1, <2>2 DEF Promise, Returning
<1>. QED
  BY <1>1, <1>2, NextIInv, PTL DEF Spec
=============================================================================
