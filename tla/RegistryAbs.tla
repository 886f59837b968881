---------------------------- MODULE RegistryAbs ----------------------------
(* What the registry of structures promises to the rest of the library,      *)
(* with nothing of how it finds a structure: structures are known in the     *)
(* order of the table, and a reference names the first one that carries its  *)
(* handle.                                                                   *)
EXTENDS Naturals, Sequences

CONSTANTS
  Structures,   \* records of a handle, a type and a type number
  References,   \* handle values that are looked up
  Reserved,     \* handle values that mean "the reference is not set"
  TypeLists,    \* sets of types a structure may be expected to be of
  AnyType,      \* no check of the type
  Nothing       \* no structure, and no answer

VARIABLES
  known,        \* structures registered, in the order of the table
  opened,       \* DMI_CONTEXT_FLAG_STRICT of the flags the context was opened with
  strict,       \* the same of the flags it has now
  answer        \* the question asked and what was returned

vars == <<known, opened, strict, answer>>

(* The positions of the structures that carry a handle, are of a type or of  *)
(* one of a list of types, or have a type number.                            *)
OfHandle(h)    == {p \in DOMAIN known : known[p].handle = h}
OfType(type)   == {p \in DOMAIN known : known[p].type = type}
OfTypes(types) == {p \in DOMAIN known : types = AnyType \/ known[p].type \in types}
OfId(id)       == {p \in DOMAIN known : known[p].id = id}

IsFirst(p, positions) == p \in positions /\ \A q \in positions : p <= q

(* Vendors write 0x0000 for a reference that is not set: in relaxed mode it  *)
(* is no error when the structure of that handle is not the expected one.    *)
Excused(h, mode) == h = 0 /\ ~mode

(* Once the flags have been changed, either of them may tell the mode here.  *)
(* Instantiated with one mode for both, the module promises that this is it. *)
Modes == {opened, strict}

-----------------------------------------------------------------------------
Answer(h, got, reported) ==
  /\ answer = Nothing
  /\ answer' = [handle |-> h, got |-> got, reported |-> reported]
  /\ UNCHANGED <<known, opened, strict>>

(* A reference gives the first structure of its handle, or nothing.  It is   *)
(* reported when it is set and names no structure, unless that is allowed,   *)
(* or when it names one that does not fit.                                   *)
AskHandle(h, fitting, missingAllowed) ==
  \/ h \in Reserved /\ Answer(h, Nothing, FALSE)
  \/ /\ h \notin Reserved
     /\ OfHandle(h) = {}
     /\ Answer(h, Nothing, ~missingAllowed)
  \/ /\ h \notin Reserved
     /\ \E p \in OfHandle(h) :
          /\ IsFirst(p, OfHandle(h))
          /\ IF p \in fitting
               THEN Answer(h, p, FALSE)
               ELSE \E mode \in Modes : Answer(h, Nothing, ~Excused(h, mode))

AskType(h, types, missingAllowed) ==
  \/ AskHandle(h, OfTypes(types), missingAllowed)
  \/ types = {} /\ Answer(h, Nothing, TRUE)      \* a list of no types

AskId(h, id) == AskHandle(h, IF id = AnyType THEN DOMAIN known ELSE OfId(id), FALSE)

AskFirst(fitting, missingAllowed) ==
  \/ fitting = {} /\ Answer(Nothing, Nothing, ~missingAllowed)
  \/ \E p \in fitting : IsFirst(p, fitting) /\ Answer(Nothing, p, FALSE)

TakeAnswer ==
  /\ answer' = Nothing
  /\ UNCHANGED <<known, opened, strict>>

Register ==
  /\ \E s \in Structures : known' = Append(known, s)
  /\ UNCHANGED <<opened, strict, answer>>

Forget ==
  /\ known' = <<>>
  /\ answer' = Nothing
  /\ UNCHANGED <<opened, strict>>

SetFlags ==
  /\ strict' = ~strict
  /\ UNCHANGED <<known, opened, answer>>

Init ==
  /\ known = <<>>
  /\ strict \in BOOLEAN
  /\ opened = strict
  /\ answer = Nothing

Types == {s.type : s \in Structures}
Ids   == {s.id : s \in Structures}

Next ==
  \/ \E h \in References, types \in {AnyType} \cup TypeLists, missingAllowed \in BOOLEAN :
       AskType(h, types, missingAllowed)
  \/ \E h \in References, id \in {AnyType} \cup Ids : AskId(h, id)
  \/ \E type \in Types, missingAllowed \in BOOLEAN : AskFirst(OfType(type), missingAllowed)
  \/ \E id \in Ids, missingAllowed \in BOOLEAN : AskFirst(OfId(id), missingAllowed)
  \/ TakeAnswer
  \/ Register
  \/ SetFlags
  \/ Forget

Spec == Init /\ [][Next]_vars
=============================================================================
