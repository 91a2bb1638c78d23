------------------------------ MODULE ToolAlone ------------------------------
(***************************************************************************)
(* What a tool sees of its data when the runtime calls it directly: every  *)
(* thread, region and task has a data word of its own, empty at its begin, *)
(* and what the tool stores in it at the begin it finds at every later     *)
(* event up to the end.                                                    *)
(***************************************************************************)
EXTENDS Naturals

CONSTANTS
  Handle,        \* threads, regions and tasks
  None

VARIABLES
  live,          \* those whose begin the tool has seen, and not their end
  word,          \* what the tool has stored for them
  seen           \* what it found at its last event, by handle

vars == <<live, word, seen>>

Init ==
  /\ live = {}
  /\ word = [h \in Handle |-> None]
  /\ seen = <<>>

(* An event that begins some and ends some of the handles it passes.        *)
Occurs(begun, ended) ==
  /\ begun \cap live = {} /\ ended \subseteq live \cup begun
  /\ live' = (live \cup begun) \ ended
  /\ word' = [h \in Handle |-> IF h \in ended THEN None
                               ELSE IF h \in begun THEN h ELSE word[h]]

Next ==
  LET args == {h \in Handle : h \in DOMAIN seen'} IN
    /\ seen' = [h \in args |-> word[h]]
    /\ \E begun \in SUBSET args : \E ended \in SUBSET args : Occurs(begun, ended)

Spec == Init /\ [][Next]_vars
=============================================================================
