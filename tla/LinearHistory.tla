--------------------------- MODULE LinearHistory ---------------------------
(***************************************************************************)
(* What an undo stack promises: the versions of a document lie on a line,  *)
(* undo and redo walk along it and show exactly the version that was there *)
(* before, and a new edit cuts off the versions ahead of it.               *)
(***************************************************************************)
EXTENDS Naturals, Sequences

CONSTANT Contents

VARIABLES
  content,   \* what the document shows
  versions,  \* the versions reachable by undo and redo, oldest first
  cursor     \* how many edits separate the document from the oldest

vars == <<content, versions, cursor>>

Init ==
  /\ content \in Contents
  /\ versions = <<content>>
  /\ cursor = 0

Edit ==
  /\ content' \in Contents
  /\ versions' = Append(SubSeq(versions, 1, cursor + 1), content')
  /\ cursor' = cursor + 1

Undo ==
  /\ cursor > 0
  /\ cursor' = cursor - 1
  /\ content' = versions[cursor]
  /\ versions' = versions

Redo ==
  /\ cursor + 1 < Len(versions)
  /\ cursor' = cursor + 1
  /\ content' = versions[cursor + 2]
  /\ versions' = versions

\* Another document is opened: nothing before it can be reached any more.
Open ==
  /\ content' \in Contents
  /\ versions' = <<content'>>
  /\ cursor' = 0

Next == Edit \/ Undo \/ Redo \/ Open

Spec == Init /\ [][Next]_vars
=============================================================================
