---------------------------- MODULE ErrorQueueAbs ----------------------------
(***************************************************************************)
(* What the error queue of a context promises to its caller, without the   *)
(* ring it is kept in: the errors that are pending, oldest first, at most  *)
(* MaxDepth of them, the oldest one given up for a new one when the queue  *)
(* is full.                                                                *)
(***************************************************************************)
EXTENDS Naturals, Sequences

CONSTANTS MaxDepth,   \* the number of errors kept (DMI_ERROR_MAX_DEPTH)
          Descriptors \* the error descriptors that can be raised

VARIABLE pending

Init == pending = <<>>

Raise == \E e \in Descriptors :
           pending' = IF Len(pending) = MaxDepth
                        THEN Append(Tail(pending), e)
                        ELSE Append(pending, e)

GetFirst == /\ pending # <<>>
            /\ pending' = Tail(pending)

GetLast == /\ pending # <<>>
           /\ pending' = SubSeq(pending, 1, Len(pending) - 1)

Clear == pending' = <<>>

Next == Raise \/ GetFirst \/ GetLast \/ Clear

Spec == Init /\ [][Next]_pending
=============================================================================
