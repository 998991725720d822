----------------------------- MODULE CombineBlock -----------------------------
(***************************************************************************)
(* CombineBlock: a list of blocks, a selection from it, and the groups     *)
(* that selections were combined into.                                     *)
(*                                                                         *)
(* Its signals are emitted while the call that emits them is on the stack, *)
(* and a slot connected to one may call the object again before the next   *)
(* signal of the same call goes out.  A call that emits something is       *)
(* therefore a frame of what it still has to do once its state is changed; *)
(* between two signals of a frame, other calls may come and go.            *)
(***************************************************************************)
EXTENDS Integers, Functions, BlockGroups

CONSTANTS
  BlockLists,   \* the lists passed to SetBlocks
  MaxCombined,  \* bound on the number of groups, for the model checker
  MaxDepth      \* bound on calls made from within slots, likewise

(* SetBlocks is given what DivideBlock found in some document.             *)
ASSUME BlockListsAssumption ==
  \A list \in BlockLists : list \in Seq(Blocks) /\ OfDocument(list)

ASSUME BoundsAssumption == MaxCombined \in Nat /\ MaxDepth \in Nat \ {0}

VARIABLES
  blocks,            \* blocks_
  selected_indexes,  \* selected_indexes_, counted from 0
  combined_blocks,   \* combined_blocks_
  last_error,        \* what error_ reports, "none" when it is empty
  calls,             \* the calls on the stack, the innermost one last
  shown,             \* the numbers the signals last told of
  interrupted        \* a call came in while SetBlocks was on the stack; the
                     \* code has no such variable, only properties use it

vars == <<blocks, selected_indexes, combined_blocks, last_error, calls, shown,
          interrupted>>

Init ==
  /\ blocks = <<>> /\ selected_indexes = <<>> /\ combined_blocks = <<>>
  /\ last_error = "none"
  /\ calls = <<>>
  /\ shown = [BlocksChanged |-> 0, SelectionChanged |-> 0, Combined |-> 0]
  /\ interrupted = FALSE

-----------------------------------------------------------------------------
(* What a call still does after it changed the state: emit a signal with   *)
(* the number at that time, emit it with the number 0, clear error_.       *)
Signals == {"BlocksChanged", "SelectionChanged", "Combined"}

Emit(signal)     == [do |-> "emit", signal |-> signal]
EmitZero(signal) == [do |-> "zero", signal |-> signal]
Fail             == [do |-> "fail", signal |-> "none"]
ClearError       == [do |-> "clear", signal |-> "none"]

Top == calls[Len(calls)]

(* A call comes from outside, or from a slot a signal is being given to.   *)
MayCall ==
  \/ calls = <<>>
  \/ calls # <<>> /\ Len(calls) < MaxDepth /\ Top.in_slot

Begin(name, todos) ==
  /\ calls' = IF todos = <<>> THEN calls
              ELSE Append(calls, [call |-> name, todo |-> todos,
                                  in_slot |-> FALSE])
  /\ interrupted' =
       IF calls = <<>> THEN interrupted /\ name # "SetBlocks"
       ELSE interrupted \/ \E i \in DOMAIN calls : calls[i].call = "SetBlocks"
  /\ UNCHANGED shown

(* The number a signal tells of.                                           *)
Count(signal) ==
  CASE signal = "BlocksChanged"    -> Len(blocks)
    [] signal = "SelectionChanged" -> Len(selected_indexes)
    [] signal = "Combined"         -> Len(combined_blocks)

Proceed(in_slot) ==
  calls' = [calls EXCEPT ![Len(calls)].todo = Tail(@),
                         ![Len(calls)].in_slot = in_slot]

(* The innermost call goes on, which ends the slot it was waiting for.     *)
Continue ==
  /\ calls # <<>> /\ Top.todo # <<>>
  /\ LET next == Head(Top.todo)
     IN  \/ /\ next.do \in {"emit", "zero"}
            /\ shown' = [shown EXCEPT ![next.signal] =
                           IF next.do = "emit" THEN Count(next.signal) ELSE 0]
            /\ Proceed(TRUE)
            /\ UNCHANGED last_error
         \/ /\ next.do = "fail"
            /\ Proceed(TRUE)
            /\ UNCHANGED <<last_error, shown>>
         \/ /\ next.do = "clear"
            /\ last_error' = "none"
            /\ Proceed(FALSE)
            /\ UNCHANGED shown
  /\ UNCHANGED <<blocks, selected_indexes, combined_blocks, interrupted>>

Return ==
  /\ calls # <<>> /\ Top.todo = <<>>
  /\ calls' = SubSeq(calls, 1, Len(calls) - 1)
  /\ UNCHANGED <<blocks, selected_indexes, combined_blocks, last_error, shown,
                 interrupted>>

-----------------------------------------------------------------------------
(* The calls.  A call that is refused sets error_; most are slots of the   *)
(* object, too, and CombineFailed is emitted when they are called as such. *)
Function == <<>>
Slot     == <<Fail>>

Refuse(reason, ways) ==
  /\ last_error' = reason
  /\ \E todo \in ways : Begin("refused", todo)
  /\ UNCHANGED <<blocks, selected_indexes, combined_blocks>>

SetBlocksKeepingGroups(list) ==
  /\ MayCall
  /\ blocks' = list
  /\ selected_indexes' = <<>>
  /\ last_error' = "none"
  /\ Begin("SetBlocks", <<Emit("BlocksChanged"), EmitZero("SelectionChanged")>>)
  /\ UNCHANGED combined_blocks

SetBlocks(list) ==
  /\ MayCall
  /\ blocks' = list
  /\ selected_indexes' = <<>>
  /\ combined_blocks' = <<>>
  /\ last_error' = "none"
  /\ Begin("SetBlocks", <<Emit("BlocksChanged"), EmitZero("SelectionChanged"),
                          EmitZero("Combined")>>)

IsValidIndex(index) == index \in 0..(Len(blocks) - 1)

(* SortedUnique, as applied to what push_back leaves behind.               *)
InSelectionOrder(indexes) == indexes

SortedUnique(indexes) == Ascending(Range(indexes))

FromTo(first, last) == [n \in 1..(last - first + 1) |-> first + n - 1]

(* What erase() leaves of the selection.                                   *)
Without(indexes, k) ==
  [l \in 1..(Len(indexes) - 1) |-> indexes[IF l < k THEN l ELSE l + 1]]

Select(index) ==
  /\ MayCall
  /\ \/ ~IsValidIndex(index) /\ Refuse("range", {Function, Slot})
     \/ /\ IsValidIndex(index)
        /\ index \notin Range(selected_indexes)
        /\ selected_indexes' = SortedUnique(Append(selected_indexes, index))
        /\ Begin("Select", <<Emit("SelectionChanged"), ClearError>>)
        /\ UNCHANGED <<blocks, combined_blocks, last_error>>
     \/ /\ IsValidIndex(index)
        /\ index \in Range(selected_indexes)
        /\ last_error' = "none"
        /\ Begin("Select", <<>>)
        /\ UNCHANGED <<blocks, selected_indexes, combined_blocks>>

SelectRange(first, last) ==
  /\ MayCall
  /\ \/ first > last /\ Refuse("reversed", {Function})
     \/ /\ first <= last
        /\ ~IsValidIndex(first) \/ ~IsValidIndex(last)
        /\ Refuse("range", {Function})
     \/ /\ first <= last /\ IsValidIndex(first) /\ IsValidIndex(last)
        /\ selected_indexes' =
             SortedUnique(selected_indexes \o FromTo(first, last))
        /\ last_error' = "none"
        /\ Begin("SelectRange", <<Emit("SelectionChanged")>>)
        /\ UNCHANGED <<blocks, combined_blocks>>

Deselect(index) ==
  /\ MayCall
  /\ \/ /\ index \notin Range(selected_indexes)
        /\ Refuse("unselected", {Function, Slot})
     \/ /\ index \in Range(selected_indexes)
        /\ \E k \in 1..Len(selected_indexes) :
             /\ selected_indexes[k] = index
             /\ \A l \in 1..(k - 1) : selected_indexes[l] # index
             /\ selected_indexes' = Without(selected_indexes, k)
        /\ last_error' = "none"
        /\ Begin("Deselect", <<Emit("SelectionChanged")>>)
        /\ UNCHANGED <<blocks, combined_blocks>>

ClearSelectionSilently ==
  /\ MayCall
  /\ selected_indexes' = <<>>
  /\ last_error' = "none"
  /\ Begin("ClearSelection", <<>>)
  /\ UNCHANGED <<blocks, combined_blocks>>

ClearSelection ==
  /\ MayCall
  /\ selected_indexes' = <<>>
  /\ last_error' = "none"
  /\ Begin("ClearSelection", <<EmitZero("SelectionChanged")>>)
  /\ UNCHANGED <<blocks, combined_blocks>>

ClearCombinedBlocks ==
  /\ MayCall
  /\ combined_blocks' = <<>>
  /\ last_error' = "none"
  /\ Begin("ClearCombinedBlocks", <<EmitZero("Combined")>>)
  /\ UNCHANGED <<blocks, selected_indexes>>

CombineSelected ==
  /\ MayCall
  /\ \/ /\ \/ Len(selected_indexes) < 2
           \/ \E i \in Range(selected_indexes) : ~IsValidIndex(i)
        /\ Refuse("uncombinable", {Function, Slot})
     \/ /\ Len(selected_indexes) >= 2
        /\ \A i \in Range(selected_indexes) : IsValidIndex(i)
        /\ Len(combined_blocks) < MaxCombined
        /\ combined_blocks' =
             Append(combined_blocks,
                    Group(blocks, SortedUnique(selected_indexes)))
        /\ selected_indexes' = <<>>
        /\ last_error' = "none"
        /\ Begin("CombineSelected",
                 <<EmitZero("SelectionChanged"), Emit("Combined")>>)
        /\ UNCHANGED blocks

Indexes == (-1)..Len(blocks)

Next ==
  \/ \E list \in BlockLists : SetBlocks(list)
  \/ \E i \in Indexes : Select(i) \/ Deselect(i)
  \/ \E i \in 0..Len(blocks), j \in 0..Len(blocks) : SelectRange(i, j)
  \/ ClearSelection \/ ClearCombinedBlocks \/ CombineSelected
  \/ Continue \/ Return

Spec == Init /\ [][Next]_vars

-----------------------------------------------------------------------------
(* Whoever looks at the selection, a slot in the middle of a call included,*)
(* finds positions of the blocks there are, in document order, each once.  *)
SelectionOfBlocks ==
  /\ \A k \in DOMAIN selected_indexes : IsValidIndex(selected_indexes[k])
  /\ \A k, l \in DOMAIN selected_indexes :
       k < l => selected_indexes[k] < selected_indexes[l]

(* Likewise the groups: they are made of the blocks there are, and hold    *)
(* their texts in document order whatever the order of selection was.      *)
GroupsOfBlocks ==
  \A g \in Range(combined_blocks) :
    LET members == g.source_indexes
    IN  /\ Len(members) >= 2
        /\ \A k, l \in DOMAIN members : k < l => members[k] < members[l]
        /\ MadeOf(g, blocks)
        /\ g.raw_begin = Sets!Min(Covered(g.elements))
        /\ g.raw_end = Sets!Max(Covered(g.elements)) + 1
        /\ Apart(g.elements) => g.raw = Ascending(Covered(g.elements))

(* When the outermost call is over, an observer of the signals knows how   *)
(* many blocks, selected blocks and groups there are, no matter which      *)
(* calls slots made on the way; the exception are calls a slot makes while *)
(* SetBlocks is running, whose last two signals say 0 regardless.  The     *)
(* observer is one that was connected before the slots that make calls: it *)
(* gets the signals of a nested call after the one that slot answers to.   *)
ObserverKnowsCounts ==
  calls = <<>> /\ ~interrupted => \A s \in Signals : shown[s] = Count(s)
=============================================================================
