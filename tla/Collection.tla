------------------------------ MODULE Collection ------------------------------
(***************************************************************************)
(* What the "radar" command's collection promises, seen from a row of CSI  *)
(* data: for a while rows are labelled, their sequence number counts from  *)
(* the number that was asked for down to zero, and the label goes away.    *)
(***************************************************************************)
EXTENDS Naturals

CONSTANT Numbers     (* The numbers of samples one can ask for.            *)

VARIABLES
  labelled,          (* Do rows carry the target's name?                   *)
  left               (* Samples left of the collection.                    *)

vars == <<labelled, left>>

Init == ~labelled /\ left = 0

Begin ==
  /\ ~labelled
  /\ labelled' = TRUE
  /\ left' \in Numbers

Sample ==
  /\ labelled /\ left > 0
  /\ left' = left - 1
  /\ UNCHANGED labelled

End ==
  /\ labelled /\ left = 0
  /\ labelled' = FALSE
  /\ left' = 0

Next == Begin \/ Sample \/ End

Spec == Init /\ [][Next]_vars /\ WF_vars(Sample \/ End)
=============================================================================
