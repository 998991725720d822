------------------------------ MODULE StableIds ------------------------------
(***************************************************************************)
(* What BlockRangeTracker promises about tracking ids, without saying how  *)
(* it matches blocks.  Between two resets                                  *)
(*                                                                         *)
(*   - an id that is kept denotes the same content as before,              *)
(*   - an id that was handed out once and is not in use any more is never  *)
(*     used again, so a caller holding it cannot be shown another block,   *)
(*   - as many ids are kept as the contents of the two documents allow.    *)
(***************************************************************************)
EXTENDS Naturals, FiniteSets

Sets == INSTANCE FiniteSetsExt

CONSTANT Contents  \* what a block can hold, position left out

VARIABLES
  live,   \* the ids in use and what they denote, a function
  spent   \* the ids that were handed out since the last reset

vars == <<live, spent>>

Init == live = [id \in {} |-> {}] /\ spent = {}

Holding(naming, content) == {id \in DOMAIN naming : naming[id] = content}

(* A new list of blocks is announced under the naming new.                 *)
Revise(new) ==
  /\ \A id \in DOMAIN new :
       IF id \in DOMAIN live THEN new[id] = live[id] ELSE id \notin spent
  /\ \A c \in Contents :
       Cardinality(Holding(new, c) \cap Holding(live, c)) =
         Sets!Min({Cardinality(Holding(new, c)), Cardinality(Holding(live, c))})
  /\ live' = new
  /\ spent \subseteq spent'
  /\ DOMAIN new \subseteq spent'

(* Ids may be used up without being announced.                             *)
Waste == live' = live /\ spent \subseteq spent'

Reset == live' = [id \in {} |-> {}] /\ spent' = {}

(* Revise, for the naming of the next state.                               *)
ReviseStep == Revise(live')

Next == ReviseStep \/ Waste \/ Reset

Spec == Init /\ [][Next]_vars
=============================================================================
