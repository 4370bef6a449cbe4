------------------------------- MODULE FileOp -------------------------------
(***************************************************************************)
(* What whoever asks for a copy, a move or a removal may rely on, wherever *)
(* it fails, is cancelled or is killed: the target is the old one, in its  *)
(* place or set aside, until all of the source replaces it in one step; a  *)
(* move takes the source away in that step or leaves it; and the answer    *)
(* says what has come of it.                                               *)
(***************************************************************************)

VARIABLES
  kind,    \* "copy", "move" or "remove"
  target,  \* "old" or "new"
  backup,  \* whether the old target, or what is left of it, is aside
  source,  \* "there" or "gone"
  answers  \* the answers given

vars == <<kind, target, backup, source, answers>>

Init ==
  /\ kind \in {"copy", "move", "remove"}
  /\ target = "old" /\ backup = FALSE /\ source = "there" /\ answers = {}

\* What a true answer says.
Outcome ==
  [installed |-> IF kind = "remove" THEN source = "gone" ELSE target = "new",
   sourceRemoved |-> source = "gone", backup |-> backup]

\* The old target is set aside, and may be put back.
SetAside ==
  /\ kind # "remove" /\ target = "old" /\ ~backup
  /\ backup' = TRUE /\ UNCHANGED <<target, source>>

PutBack ==
  /\ target = "old" /\ backup
  /\ backup' = FALSE /\ UNCHANGED <<target, source>>

Install ==
  /\ kind # "remove" /\ target = "old"
  /\ target' = "new" /\ UNCHANGED backup
  /\ source' = source \/ (kind = "move" /\ source' = "gone")

\* The old target is gone for good.
Retire ==
  /\ target = "new" /\ backup
  /\ backup' = FALSE /\ UNCHANGED <<target, source>>

\* The last of what is to be removed has been.
Remove ==
  /\ kind = "remove" /\ source = "there"
  /\ source' = "gone" /\ UNCHANGED <<target, backup>>

\* Nothing happens any more once the answer has been given, with the last step or
\* after it.
Next ==
  /\ answers = {} /\ answers' \in {{}, {Outcome'}} /\ UNCHANGED kind
  /\ SetAside \/ PutBack \/ Install \/ Retire \/ Remove \/ UNCHANGED <<target, backup, source>>

Spec == Init /\ [][Next]_vars
=============================================================================
