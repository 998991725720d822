----------------------------- MODULE FlattenBlock -----------------------------
(***************************************************************************)
(* FlattenBlock: a list of blocks and one layer that holds all of them.    *)
(*                                                                         *)
(* Parse(html) announces the blocks it found before it layers them, and    *)
(* slots are called directly: one may give the object other blocks, or     *)
(* layer the new ones, while Parse is on the stack.  A call that emits a   *)
(* signal is therefore a frame of the things it still has to do.           *)
(***************************************************************************)
EXTENDS BlockGroups

CONSTANTS
  Texts,       \* the texts passed to Parse
  Divided,     \* what DivideBlock makes of each of them
  BlockLists,  \* the lists passed to SetBlocks
  MaxDepth     \* bound on calls made from within slots, for the model checker

ASSUME DividedAssumption == Divided \in [Texts -> [ok : BOOLEAN, blocks : Seq(Blocks)]]

ASSUME BlockListsAssumption == BlockLists \subseteq Seq(Blocks)

ASSUME MaxDepthAssumption == MaxDepth \in Nat \ {0}

VARIABLES
  blocks,       \* blocks_
  layer_block,  \* layer_block_
  has_layer,    \* has_layer_
  last_error,   \* what error_ reports, "none" when it is empty
  calls         \* the calls on the stack, the innermost one last

vars == <<blocks, layer_block, has_layer, last_error, calls>>

(* LayerBlock{}; the constructor leaves other values in its place, which   *)
(* nothing reads as has_layer_ is false.                                   *)
NoLayer == [raw_begin |-> 0, raw_end |-> 0, raw |-> <<>>,
            source_indexes |-> <<>>, elements |-> <<>>, value |-> <<>>,
            value_begin |-> 0, value_end |-> 0]

Init ==
  /\ blocks = <<>>
  /\ layer_block = NoLayer /\ has_layer = FALSE
  /\ last_error = "none"
  /\ calls = <<>>

-----------------------------------------------------------------------------
(* The stack.  given is the list a call has announced, disturbed whether   *)
(* another call has replaced it since; only properties use the two.        *)
Top == calls[Len(calls)]

(* A call comes from outside, or from a slot a signal is being given to.   *)
MayCall ==
  \/ calls = <<>>
  \/ calls # <<>> /\ Len(calls) < MaxDepth /\ Top.in_slot

Frame(name, list, as_slot, todos) ==
  [call |-> name, given |-> list, as_slot |-> as_slot, todo |-> todos,
   in_slot |-> FALSE, disturbed |-> FALSE]

Disturb == [i \in 1..Len(calls) |-> [calls[i] EXCEPT !.disturbed = TRUE]]

(* What is left to do after a failure: the slots emit LayerFailed.         *)
AfterFailure(as_slot) == IF as_slot THEN <<"failed">> ELSE <<>>

(* The frame goes on with other things to do.                              *)
Proceed(todos, in_slot) ==
  calls' = [calls EXCEPT ![Len(calls)] = [@ EXCEPT !.todo = todos,
                                                   !.in_slot = in_slot]]

-----------------------------------------------------------------------------
ClearLayer == layer_block' = NoLayer /\ has_layer' = FALSE

Clear == blocks' = <<>> /\ ClearLayer

(* BuildLayerBlock                                                         *)
LayerOf(list) == Group(list, [i \in 1..Len(list) |-> i - 1])

SetBlocksKeepingLayer(list) ==
  /\ MayCall
  /\ blocks' = list
  /\ UNCHANGED <<layer_block, has_layer>>
  /\ last_error' = "none"
  /\ calls' = Append(Disturb,
                     Frame("SetBlocks", list, FALSE, <<"blocks_changed">>))

SetBlocks(list) ==
  /\ MayCall
  /\ blocks' = list
  /\ ClearLayer
  /\ last_error' = "none"
  /\ calls' = Append(Disturb,
                     Frame("SetBlocks", list, FALSE, <<"blocks_changed">>))

(* Parse(html), as a function or as the slot ParseHtml, up to its first    *)
(* signal.                                                                 *)
Parse(t, as_slot) ==
  /\ MayCall
  /\ \/ /\ Divided[t].ok
        /\ blocks' = Divided[t].blocks
        /\ ClearLayer
        /\ last_error' = "none"
        /\ calls' = Append(Disturb,
                           Frame("Parse", Divided[t].blocks, as_slot,
                                 <<"blocks_changed", "layer">>))
     \/ \E reason \in {"exception"} \cup (IF Divided[t].ok THEN {} ELSE {"rejected"}) :
          /\ Clear
          /\ last_error' = reason
          /\ calls' = Append(Disturb,
                             Frame("Parse", <<>>, as_slot, AfterFailure(as_slot)))

ParseNull ==
  /\ MayCall
  /\ Clear
  /\ last_error' = "null"
  /\ calls' = Append(Disturb, Frame("Parse", <<>>, FALSE, <<>>))

(* LayerAll(), as a function or as the slot LayerBlocks, on its own or at  *)
(* the end of Parse; todos is what is left to do then.                     *)
Layer(as_slot, todos) ==
  \/ /\ blocks = <<>>
     /\ ClearLayer
     /\ last_error' = "no_block"
     /\ todos = AfterFailure(as_slot)
  \/ /\ blocks # <<>>
     /\ layer_block' = LayerOf(blocks)
     /\ has_layer' = TRUE
     /\ last_error' = "none"
     /\ todos = <<"layered">>

LayerAll(as_slot) ==
  /\ MayCall
  /\ \E todos \in {AfterFailure(as_slot), <<"layered">>} :
       /\ Layer(as_slot, todos)
       /\ calls' = Append(calls, Frame("LayerAll", blocks, as_slot, todos))
  /\ UNCHANGED blocks

-----------------------------------------------------------------------------
(* The innermost call goes on.                                             *)
Goes(todo) == calls # <<>> /\ Top.todo # <<>> /\ Head(Top.todo) = todo

EmitSignal ==
  /\ Goes("blocks_changed") \/ Goes("layered") \/ Goes("failed")
  /\ Proceed(Tail(Top.todo), TRUE)
  /\ UNCHANGED <<blocks, layer_block, has_layer, last_error>>

ParseLayers ==
  /\ Goes("layer")
  /\ \E todos \in {AfterFailure(Top.as_slot), <<"layered">>} :
       Layer(Top.as_slot, todos) /\ Proceed(todos, FALSE)
  /\ UNCHANGED blocks

(* The handler of Parse; it also runs for an exception in LayerAll.        *)
HandleKeepingState ==
  /\ last_error' = "exception"
  /\ UNCHANGED <<blocks, layer_block, has_layer>>

HandleKeepingBlocks ==
  /\ ClearLayer
  /\ last_error' = "exception"
  /\ UNCHANGED blocks

Handle ==
  /\ Clear
  /\ last_error' = "exception"

ParseThrows ==
  /\ Goes("layer")
  /\ Handle
  /\ Proceed(AfterFailure(Top.as_slot), FALSE)

Return ==
  /\ calls # <<>> /\ Top.todo = <<>>
  /\ calls' = SubSeq(calls, 1, Len(calls) - 1)
  /\ UNCHANGED <<blocks, layer_block, has_layer, last_error>>

Next ==
  \/ \E t \in Texts, as_slot \in BOOLEAN : Parse(t, as_slot)
  \/ ParseNull
  \/ \E list \in BlockLists : SetBlocks(list)
  \/ \E as_slot \in BOOLEAN : LayerAll(as_slot)
  \/ EmitSignal \/ ParseLayers \/ ParseThrows \/ Return

Spec == Init /\ [][Next]_vars

-----------------------------------------------------------------------------
(* Whoever looks at the layer, a slot in the middle of a call included,    *)
(* finds the layer of the blocks there are.                                *)
LayerOfBlocks == has_layer => blocks # <<>> /\ layer_block = LayerOf(blocks)

(* An error that is reported is that of the state one sees: there is no    *)
(* layer then, whatever slots did between the failure and now.             *)
ErrorMeansNoLayer == last_error # "none" => ~has_layer

(* When Parse returns and no slot has given the object other blocks in the *)
(* meantime, the blocks of its text are there and layered, or it has       *)
(* failed, and left neither blocks nor a layer, with an error to say why.  *)
Returning(name) == calls # <<>> /\ Top.call = name /\ Top.todo = <<>>

ParseLayersText ==
  Returning("Parse") /\ ~Top.disturbed =>
    \/ last_error = "none" /\ has_layer /\ blocks = Top.given
    \/ last_error # "none" /\ ~has_layer /\ blocks = <<>>

=============================================================================
