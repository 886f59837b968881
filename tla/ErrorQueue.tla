----------------------------- MODULE ErrorQueue -----------------------------
(***************************************************************************)
(* The error queue of a DMI context (libopendmi/src/error.c): a ring of    *)
(* DMI_ERROR_MAX_DEPTH descriptors, in which `first` is the slot of the    *)
(* oldest error and `count` the number of errors that are pending.  Slots  *)
(* outside that window keep what was in them, a message included, until    *)
(* they are taken again: a descriptor that was handed out by dmi_error_get *)
(* lives there.                                                            *)
(***************************************************************************)
EXTENDS Integers, Sequences, FiniteSets

CONSTANTS MaxDepth,     \* DMI_ERROR_MAX_DEPTH
          Reasons,      \* error reason codes other than DMI_ERROR_NONE
          NoReason,     \* DMI_ERROR_NONE, the reason of a zeroed slot
          Text, NoText  \* an allocated message, and nullptr

ASSUME MaxDepthAssumption == MaxDepth \in Nat \ {0}
ASSUME ReasonAssumption == NoReason \notin Reasons /\ Text # NoText

VARIABLES errors,   \* the slots of the ring
          first,    \* the slot of the oldest pending error
          count,    \* the number of pending errors
          messages, \* message texts that are allocated and not yet freed
          handed    \* descriptors handed out by dmi_error_get_*, which the
                    \* caller may read until the next raise or clear

vars == <<errors, first, count, messages, handed>>

Slots == 0 .. MaxDepth - 1
Descriptors == [reason : Reasons, message : {Text, NoText}]
EmptySlot == [reason |-> NoReason, message |-> NoText]

TypeOK == /\ errors \in [Slots -> Descriptors \cup {EmptySlot}]
          /\ first \in Slots
          /\ count \in 0 .. MaxDepth
          /\ messages \in Int
          /\ handed \subseteq [slot : Slots, error : Descriptors \cup {EmptySlot}]

-----------------------------------------------------------------------------
\* The slot n places after the oldest error.
SlotAt(n) == (first + n) % MaxDepth

LastSlot == (first + count - 1) % MaxDepth

\* The number of texts that are freed when the slots of S are cleared.
TextsIn(S) == Cardinality({i \in S : errors[i].message = Text})

Init == /\ errors = [i \in Slots |-> EmptySlot]
        /\ first = 0
        /\ count = 0
        /\ messages = 0
        /\ handed = {}

\* Mutant of SlotGet: the oldest error keeps its place when it is overwritten.
SlotGetStuck == IF count = MaxDepth
                  THEN [slot |-> first, first |-> first, count |-> count]
                  ELSE [slot |-> SlotAt(count), first |-> first, count |-> count + 1]

\* Take a slot for a new error: the one of the oldest error when the queue is
\* full, the next free one otherwise.  Whatever the slot held is freed.
SlotGet == IF count = MaxDepth
             THEN [slot |-> first, first |-> SlotAt(1), count |-> count]
             ELSE [slot |-> SlotAt(count), first |-> first, count |-> count + 1]

\* Mutant of Raise: the slot is filled without being cleared.
RaiseUncleared(reason, message) ==
  LET taken == SlotGet IN
  /\ errors' = [errors EXCEPT ![taken.slot] =
                              [reason |-> reason, message |-> message]]
  /\ first' = taken.first
  /\ count' = taken.count
  /\ messages' = messages + (IF message = Text THEN 1 ELSE 0)
  /\ handed' = {}

\* An error with or without a message; a message whose formatting fails for
\* want of memory is left out, and the error is queued all the same.
Raise(reason, message) ==
  LET taken == SlotGet IN
  /\ errors' = [errors EXCEPT ![taken.slot] =
                              [reason |-> reason, message |-> message]]
  /\ first' = taken.first
  /\ count' = taken.count
  /\ messages' = messages - TextsIn({taken.slot}) + (IF message = Text THEN 1 ELSE 0)
  /\ handed' = {}

\* Mutants of GetFirst: the queue is not checked for being empty, and the slot
\* is cleared although it has been returned.
GetFirstUnchecked ==
  /\ first' = SlotAt(1)
  /\ count' = count - 1
  /\ handed' = handed \cup {[slot |-> first, error |-> errors[first]]}
  /\ UNCHANGED <<errors, messages>>
GetFirstClearing ==
  /\ count > 0
  /\ first' = SlotAt(1)
  /\ count' = count - 1
  /\ handed' = handed \cup {[slot |-> first, error |-> errors[first]]}
  /\ errors' = [errors EXCEPT ![first] = EmptySlot]
  /\ messages' = messages - TextsIn({first})

\* The descriptor is returned in place: its slot is not cleared.
GetFirst == /\ count > 0
            /\ first' = SlotAt(1)
            /\ count' = count - 1
            /\ handed' = handed \cup {[slot |-> first, error |-> errors[first]]}
            /\ UNCHANGED <<errors, messages>>

GetLast == /\ count > 0
           /\ count' = count - 1
           /\ handed' = handed \cup {[slot |-> LastSlot, error |-> errors[LastSlot]]}
           /\ UNCHANGED <<errors, first, messages>>

\* Every slot is cleared, those of descriptors that were handed out included.
Clear == /\ errors' = [i \in Slots |-> EmptySlot]
         /\ messages' = messages - TextsIn(Slots)
         /\ first' = 0
         /\ count' = 0
         /\ handed' = {}

Next == \/ \E r \in Reasons, m \in {Text, NoText} : Raise(r, m)
        \/ GetFirst
        \/ GetLast
        \/ Clear

Spec == Init /\ [][Next]_vars

-----------------------------------------------------------------------------
\* The pending errors, oldest first: what dmi_error_peek_first and
\* dmi_error_peek_last see are its two ends.
Pending == [i \in 1 .. count |-> errors[SlotAt(i - 1)]]

\* The ring implements the bounded queue of ErrorQueueAbs: raising into a full
\* queue gives up the oldest error and no other, and the errors come out in the
\* order (or the reverse order) in which they were raised.
Abs == INSTANCE ErrorQueueAbs WITH pending <- Pending
Implements == Abs!Spec

\* No message is lost or freed twice: the texts that are allocated are exactly
\* those a slot refers to, so that clearing the queue frees them all.
NoMessageLeak == messages = TextsIn(Slots)

\* A descriptor handed out by dmi_error_get_first or dmi_error_get_last keeps
\* its contents until the next error is raised or the queue is cleared, however
\* many more descriptors are taken out meanwhile.
HandedOutIntact == \A h \in handed : errors[h.slot] = h.error

\* An error can never be handed out twice: what was handed out is not pending.
HandedOutNotPending ==
  \A h \in handed : \A n \in 0 .. count - 1 : h.slot # SlotAt(n)

\* Taking errors out is safe: both hold, and neither could without the other.
HandedOut == HandedOutIntact /\ HandedOutNotPending

=============================================================================
