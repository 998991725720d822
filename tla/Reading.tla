------------------------------- MODULE Reading -------------------------------
(***************************************************************************)
(* A text is read twice: by a slot that takes its root tag (GetFile), and  *)
(* by one that renders all of its tags (GetHTML, and below it TagParser,   *)
(* TagHierarchy and OpenTag).  The readers share no state.                 *)
(***************************************************************************)
EXTENDS GetHTML

CONSTANT Readings  \* the text, the slot that takes its root or NoSlot, and the
                   \* object that renders it with what it holds from before

VARIABLES text, call, stage, rest, value, outcome, due, signals, faulted

S == INSTANCE GetFile

slotVars == <<text, call, stage, rest, value, outcome, due, signals, faulted>>

NoSlot == "none"

ASSUME ReadingsAssumption ==
  \A r \in Readings :
    /\ r.text \in Documents /\ S!WellSpelled(r.text)
    /\ r.call \in S!Calls \cup {NoSlot}

(* A converter makes a new object that renders.                            *)
Holds(object) ==
  /\ caller = object.caller
  /\ html = IF caller = "ParseXml" THEN object.html ELSE <<>>
  /\ error = IF caller = "ParseXml" THEN object.error ELSE ""
  /\ converted = IF caller = "ParseXml" THEN Nothing
                 ELSE [html |-> object.html, error |-> object.error]

ReadInit ==
  /\ \E r \in Readings :
       /\ text = r.text
       /\ call = r.call
       /\ doc = NormalizeParserInput(text)
       /\ Holds(r.object)
  /\ stage = IF call = NoSlot THEN "done" ELSE S!FirstStage[call]
  /\ S!Untouched
  /\ Init
  /\ H!Init
  /\ phase = "waiting"
  /\ told = ""

ReadSlot ==
  /\ stage # "done"
  /\ S!Next
  /\ UNCHANGED <<vars, treeVars, htmlVars>>

ReadTags == stage = "done" /\ HtmlNext /\ UNCHANGED slotVars

ReadNext == ReadSlot \/ ReadTags

(* Both readers run to their end in the calling thread.                    *)
ReadSpec ==
  ReadInit /\ [][ReadNext]_<<vars, treeVars, htmlVars, slotVars>>
    /\ WF_<<vars, treeVars, htmlVars, slotVars>>(ReadNext)

(* Stated in GetFile.                                                      *)
ParsedIsRoot  == S!ParsedIsRoot
RootValueKept == S!RootValueKept
OneConclusion == call # NoSlot => S!OneConclusion
=============================================================================
