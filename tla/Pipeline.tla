------------------------------ MODULE Pipeline ------------------------------
(***************************************************************************)
(* What a session promises its client, whatever the segments the requests  *)
(* arrive in and however little of a response a write takes: the requests  *)
(* are answered one at a time, each once, in the order they were made,     *)
(* and never before they are complete.                                     *)
(***************************************************************************)
EXTENDS Naturals, Sequences, SequencesExt

VARIABLES
  asked,   \* the complete requests received so far
  begun,   \* the requests whose answers have begun
  ended,   \* how many of these answers have ended
  isOpen   \* the session is there

vars == <<asked, begun, ended, isOpen>>

Init == asked = <<>> /\ begun = <<>> /\ ended = 0 /\ isOpen = TRUE

(* The client may ask for more at any time. *)
Hear == isOpen /\ IsPrefix(asked, asked')

Begin ==
  /\ ended' = Len(begun)
  /\ Len(begun) < Len(asked')
  /\ begun' = Append(begun, asked'[Len(begun) + 1])

End == ended' = Len(begun) /\ begun' = begun

Keep == UNCHANGED <<begun, ended>>

(* At most one answer ends and one begins in a step; nothing happens once  *)
(* the session is closed.                                                  *)
Next == Hear /\ isOpen' \in BOOLEAN /\ (Begin \/ End \/ Keep)

Spec == Init /\ [][Next]_vars
=============================================================================
