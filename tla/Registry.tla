------------------------------ MODULE Registry ------------------------------
(* The registry of structures (libopendmi/src/registry.c): the scan of the   *)
(* table, the hash index and the sequence it fills, the look-ups by handle   *)
(* and by type, and the destruction of the entities through the index.       *)
(*                                                                           *)
(* A table is a sequence of whole structures and what follows them: fewer    *)
(* bytes than a header and a string set need ("tail"), a structure longer    *)
(* than the data or with an unterminated string set ("cut"), or one whose    *)
(* length is below that of a header ("short").  An entity is the position of *)
(* its structure in the table.                                               *)
EXTENDS Naturals, Sequences, FiniteSets

CONSTANTS
  Structures,   \* records of a handle, a type number (id) and the type of
                \* the specification that decodes the structure
  References,   \* handle values that are looked up
  Reserved,     \* DMI_HANDLE_INVALID and DMI_HANDLE_UNSUPPORTED
  TypeLists,    \* sets of types a structure may be expected to be of
  EndOfTable,   \* the type number of the end-of-table structure
  AnyType,      \* DMI_TYPE_ANY, no check of the type
  Nothing,      \* nullptr
  Capacity,     \* cells of the hash index
  MaxLength,    \* bound on the structures of a table
  Limits        \* structure counts an entry point gives, 0 if it gives none

ASSUME CapacityAssumption == Capacity \in Nat \ {0}
ASSUME HandlesAssumption  == /\ \A s \in Structures : s.handle \in Nat
                             /\ References \subseteq Nat
(* What a look-up was asked, returned and raised.                            *)
ErrorLists == {<<>>, <<"NotFound">>, <<"TypeInvalid">>, <<"ArgumentInvalid">>}
Answers    == [handle : Nat \cup {Nothing}, got : Nat \cup {Nothing}, errors : ErrorLists]

ASSUME NothingAssumption  == Nothing \notin Nat /\ Nothing \notin Answers
ASSUME BoundsAssumption   == MaxLength \in Nat /\ Limits \subseteq Nat

VARIABLES
  table,        \* structures of the table
  ending,       \* what follows them
  limit,        \* context->state.entity_count
  strict,       \* DMI_CONTEXT_FLAG_STRICT, as it is now
  opened,       \* the same flag when the scan was started
  phase,        \* "new", "scanning", "done", "failed" or "destroyed"
  position,     \* structure at the offset the scan has reached
  index,        \* chains of the hash index
  sequence,     \* entities from head to tail
  count,        \* registry->count
  status,       \* registry->status
  raised,       \* errors raised by the scan
  answer,       \* what a look-up was asked, returned and raised
  freed         \* how many times each entity has been destroyed

data == <<table, ending, limit>>
vars == <<data, strict, opened, phase, position, index, sequence, count, status,
          raised, answer, freed>>

Tables     == UNION {[1..n -> Structures] : n \in 0..MaxLength}
Endings    == {"tail", "cut", "short"}
Hashes     == 0..(Capacity - 1)
Hash(h)    == h % Capacity

HandleOf(e) == table[e].handle
TypeOf(e)   == table[e].type
IdOf(e)     == table[e].id

(* A structure of length zero is taken for the end of the table, whatever    *)
(* its type number.                                                          *)
IsEnd(e) == IdOf(e) = EndOfTable

-----------------------------------------------------------------------------
(* dmi_registry_put                                                          *)

Chain(e) == index[Hash(HandleOf(e))]

\* Mutant of Clashes: only the first clash is found.
ClashesOnce(e) ==
  {k \in DOMAIN Chain(e) : /\ HandleOf(Chain(e)[k]) = HandleOf(e)
                           /\ \A m \in 1..(k - 1) : HandleOf(Chain(e)[m]) # HandleOf(e)}

(* Every earlier entity of the same handle is reported once more.            *)
Clashes(e) == {k \in DOMAIN Chain(e) : HandleOf(Chain(e)[k]) = HandleOf(e)}

ClashErrors(e) == [k \in 1..Cardinality(Clashes(e)) |-> "HandleDuplicate"]

(* An entity that is in the chain already is refused, which the scan never   *)
(* meets, as it reads each offset once.                                      *)
Put(e) ==
  /\ \A k \in DOMAIN Chain(e) : Chain(e)[k] # e
  /\ index' = [index EXCEPT ![Hash(HandleOf(e))] = Append(@, e)]
  /\ sequence' = Append(sequence, e)

-----------------------------------------------------------------------------
(* dmi_registry_scan                                                         *)

StartScan ==
  /\ phase = "new"
  /\ phase' = "scanning"
  /\ opened' = strict
  /\ raised' = <<>>
  /\ UNCHANGED <<data, strict, position, index, sequence, count, status, answer, freed>>

Within == phase = "scanning" /\ (limit = 0 \/ Len(sequence) < limit)

\* Mutant of Finish: the count is one too many.
FinishOneMore(n, flags) ==
  /\ phase' = "done"
  /\ count' = n + 1
  /\ status' = status \cup flags \cup {"Scanned"}
  /\ UNCHANGED <<data, strict, opened, position, answer, freed>>

Finish(n, flags) ==
  /\ phase' = "done"
  /\ count' = n
  /\ status' = status \cup flags \cup {"Scanned"}
  /\ UNCHANGED <<data, strict, opened, position, answer, freed>>

Fail ==
  /\ phase' = "failed"
  /\ UNCHANGED <<data, strict, opened, position, count, status, answer>>

\* Mutant of StopAtLimit: the count of the entry point is passed.
StopAtLimitLate ==
  /\ phase = "scanning"
  /\ limit # 0
  /\ Len(sequence) > limit
  /\ Finish(Len(sequence), {})
  /\ UNCHANGED <<index, sequence, raised>>

(* All the structures the entry point counts have been found.                *)
StopAtLimit ==
  /\ phase = "scanning"
  /\ limit # 0
  /\ Len(sequence) = limit
  /\ Finish(Len(sequence), {})
  /\ UNCHANGED <<index, sequence, raised>>

\* Mutant of StopAtTail: the truncation is not recorded.
StopAtTailQuietly ==
  /\ Within
  /\ position > Len(table)
  /\ ending = "tail"
  /\ Finish(Len(sequence), {})
  /\ UNCHANGED <<index, sequence, raised>>

(* What is left of the table cannot hold a structure.                        *)
StopAtTail ==
  /\ Within
  /\ position > Len(table)
  /\ ending = "tail"
  /\ Finish(Len(sequence), {"Truncated"})
  /\ UNCHANGED <<index, sequence, raised>>

StopAtCut ==
  /\ Within
  /\ position > Len(table)
  /\ ending = "cut"
  /\ raised' = Append(raised, "Truncated")
  /\ Finish(Len(sequence), {"Truncated"})
  /\ UNCHANGED <<index, sequence>>

(* The structure after one of invalid length cannot be located: the rest of  *)
(* the table is given up in relaxed mode, and the whole of it in strict one. *)
StopAtShort ==
  /\ Within
  /\ position > Len(table)
  /\ ending = "short"
  /\ \/ /\ ~strict
        /\ raised' = Append(raised, "LengthInvalid")
        /\ Finish(Len(sequence), {"Truncated"})
     \/ /\ strict
        /\ raised' = raised \o <<"LengthInvalid", "DecodeFailed">>
        /\ Fail
  /\ UNCHANGED <<index, sequence, freed>>

(* The entity, or its strings, cannot be allocated.                          *)
CreateFails ==
  /\ Within
  /\ position <= Len(table) \/ ending = "cut"
  /\ raised' = raised \o <<"OutOfMemory", "DecodeFailed">>
  /\ Fail
  /\ UNCHANGED <<index, sequence, freed>>

\* Mutant of PutFails: the entity is in the index by the time it is refused.
PutFailsLinked ==
  /\ Within
  /\ position <= Len(table)
  /\ raised' = raised \o <<"OutOfMemory", "RegisterFailed">>
  /\ index' = [index EXCEPT ![Hash(HandleOf(position))] = Append(@, position)]
  /\ freed' = [freed EXCEPT ![position] = @ + 1]
  /\ Fail
  /\ UNCHANGED sequence

(* The entity has been created, but the entry of the index that would hold   *)
(* it cannot be allocated: nothing else knows of it, so the scan destroys it. *)
PutFails ==
  /\ Within
  /\ position <= Len(table)
  /\ raised' = raised \o <<"OutOfMemory", "RegisterFailed">>
  /\ freed' = [freed EXCEPT ![position] = @ + 1]
  /\ Fail
  /\ UNCHANGED <<index, sequence>>

Register ==
  /\ Within
  /\ position <= Len(table)
  /\ Put(position)
  /\ raised' = raised \o ClashErrors(position)
  /\ \/ /\ IsEnd(position)
        /\ Finish(Len(sequence) + 1, {})
     \/ /\ ~IsEnd(position)
        /\ position' = position + 1
        /\ UNCHANGED <<data, strict, opened, phase, count, status, answer, freed>>

Scan ==
  \/ StopAtLimit
  \/ StopAtTail
  \/ StopAtCut
  \/ StopAtShort
  \/ CreateFails
  \/ PutFails
  \/ Register

-----------------------------------------------------------------------------
(* Look-ups                                                                  *)

(* Look-ups are calls of one thread: the next one is made when the caller    *)
(* has taken the answer of the last.                                         *)
Usable == phase = "done" /\ answer = Nothing

Entities == DOMAIN table

\* Mutant of WalkFinds: the walk does not stop at the first hit.
WalkFindsAny(h, e) ==
  \E k \in DOMAIN index[Hash(h)] : index[Hash(h)][k] = e /\ HandleOf(e) = h

(* The walk of a chain stops at e, or runs off its end.                      *)
WalkFinds(h, e) ==
  LET chain == index[Hash(h)] IN
    \E k \in DOMAIN chain :
      /\ chain[k] = e
      /\ HandleOf(e) = h
      /\ \A m \in 1..(k - 1) : HandleOf(chain[m]) # h

WalkEnds(h) ==
  LET chain == index[Hash(h)] IN \A k \in DOMAIN chain : HandleOf(chain[k]) # h

Accepts(types, e) == types = AnyType \/ TypeOf(e) \in types

(* Vendors write 0x0000 for a reference which is not set.                    *)
Excused(h) == h = 0 /\ ~strict

(* dmi_registry_lookup, dmi_registry_lookup_any                              *)
LookupGives(h, types, optional, got, errors) ==
  \/ h \in Reserved /\ got = Nothing /\ errors = <<>>
  \/ /\ h \notin Reserved
     /\ WalkEnds(h)
     /\ got = Nothing
     /\ errors = IF optional THEN <<>> ELSE <<"NotFound">>
  \/ /\ h \notin Reserved
     /\ \E e \in Entities :
          /\ WalkFinds(h, e)
          /\ IF Accepts(types, e)
               THEN got = e /\ errors = <<>>
               ELSE got = Nothing
                    /\ errors = IF Excused(h) THEN <<>> ELSE <<"TypeInvalid">>

Give(a) ==
  /\ answer' = a
  /\ UNCHANGED <<data, strict, opened, phase, position, index, sequence, count,
                 status, raised, freed>>

Answer(h, got, errors) == Give([handle |-> h, got |-> got, errors |-> errors])

TakeAnswer ==
  /\ phase = "done"
  /\ answer # Nothing
  /\ Give(Nothing)

Lookup(h, types, optional) ==
  /\ Usable
  /\ \E got \in Entities \cup {Nothing}, errors \in ErrorLists :
       /\ LookupGives(h, types, optional, got, errors)
       /\ Answer(h, got, errors)

(* dmi_registry_resolve, dmi_registry_resolve_any: a reserved handle is      *)
(* accepted before the list of types is looked at.                           *)
Resolve(h, types) ==
  /\ Usable
  /\ \E got \in Entities \cup {Nothing}, errors \in ErrorLists :
       /\ IF types = {} /\ h \notin Reserved
            THEN got = Nothing /\ errors = <<"ArgumentInvalid">>
            ELSE LookupGives(h, types, FALSE, got, errors)
       /\ Answer(h, got, errors)

(* dmi_registry_resolve_id: any structure of the handle is resolved, then    *)
(* its type number is checked.                                               *)
ResolveId(h, id) ==
  /\ Usable
  /\ \E any \in Entities \cup {Nothing}, errors \in ErrorLists :
       /\ LookupGives(h, AnyType, FALSE, any, errors)
       /\ IF any = Nothing \/ id = AnyType
            THEN Answer(h, any, errors)
            ELSE IF IdOf(any) = id
                   THEN Answer(h, any, errors)
                   ELSE Answer(h, Nothing, IF Excused(h) THEN <<>> ELSE <<"TypeInvalid">>)

(* dmi_registry_lookup_first, dmi_registry_lookup_first_id: the sequence is  *)
(* walked from its head.                                                     *)
LookupFirst(fitting, optional) ==
  /\ Usable
  /\ \/ \E k \in DOMAIN sequence :
          /\ sequence[k] \in fitting
          /\ \A m \in 1..(k - 1) : sequence[m] \notin fitting
          /\ Answer(Nothing, sequence[k], <<>>)
     \/ /\ \A k \in DOMAIN sequence : sequence[k] \notin fitting
        /\ Answer(Nothing, Nothing, IF optional THEN <<>> ELSE <<"NotFound">>)

-----------------------------------------------------------------------------
(* dmi_registry_destroy: every entity is reached through the index.          *)
Slots(e) ==
  UNION {{<<b, k>> : k \in {j \in DOMAIN index[b] : index[b][j] = e}} : b \in Hashes}

Destroy ==
  /\ phase \in {"new", "done", "failed"}
  /\ phase' = "destroyed"
  /\ freed' = [e \in Entities |-> freed[e] + Cardinality(Slots(e))]
  /\ answer' = Nothing
  /\ UNCHANGED <<data, strict, opened, position, index, sequence, count, status, raised>>

(* dmi_set_flags, between two calls: the flags are read when they are used.  *)
SetFlags ==
  /\ Usable
  /\ strict' = ~strict
  /\ UNCHANGED <<data, opened, phase, position, index, sequence, count, status,
                 raised, answer, freed>>

-----------------------------------------------------------------------------
Init ==
  /\ table \in Tables
  /\ ending \in Endings
  /\ limit \in Limits
  /\ strict \in BOOLEAN
  /\ opened = strict
  /\ phase = "new"
  /\ position = 1
  /\ index = [b \in Hashes |-> <<>>]
  /\ sequence = <<>>
  /\ count = 0
  /\ status = {}
  /\ raised = <<>>
  /\ answer = Nothing
  /\ freed = [e \in DOMAIN table |-> 0]

Types == {s.type : s \in Structures}
Ids   == {s.id : s \in Structures}

Query ==
  \/ \E h \in References, types \in {AnyType} \cup TypeLists, optional \in BOOLEAN :
       Lookup(h, types, optional)
  \/ \E h \in References, types \in {AnyType} \cup TypeLists : Resolve(h, types)
  \/ \E h \in References, id \in {AnyType} \cup Ids : ResolveId(h, id)
  \/ \E type \in Types, optional \in BOOLEAN :
       LookupFirst({e \in Entities : TypeOf(e) = type}, optional)
  \/ \E id \in Ids, optional \in BOOLEAN :
       LookupFirst({e \in Entities : IdOf(e) = id}, optional)

Next == StartScan \/ Scan \/ Query \/ TakeAnswer \/ SetFlags \/ Destroy

(* A scan that has been started runs on to its end.                          *)
Spec == Init /\ [][Next]_vars /\ WF_vars(Scan)

-----------------------------------------------------------------------------
TypeOK ==
  /\ table \in Tables
  /\ ending \in Endings
  /\ limit \in Limits
  /\ strict \in BOOLEAN
  /\ opened \in BOOLEAN
  /\ phase \in {"new", "scanning", "done", "failed", "destroyed"}
  /\ position \in 1..(Len(table) + 1)
  /\ index \in [Hashes -> Seq(Entities)]
  /\ sequence \in Seq(Entities)
  /\ count \in 0..Len(table)
  /\ status \subseteq {"Scanned", "Truncated"}
  /\ answer \in Answers \cup {Nothing}
  /\ freed \in [Entities -> Nat]

(* The sequence is the table from its start, in its order, and the index     *)
(* splits it into chains that keep that order (registry.c:668-727).          *)
IndexFollowsSequence ==
  /\ \A k \in DOMAIN sequence : sequence[k] = k
  /\ \A b \in Hashes : \A k \in DOMAIN index[b] :
       /\ index[b][k] <= Len(sequence)
       /\ Hash(HandleOf(index[b][k])) = b
       /\ \A m \in 1..(k - 1) : index[b][m] < index[b][k]
  /\ \A e \in 1..Len(sequence) : \E k \in DOMAIN Chain(e) : Chain(e)[k] = e

(* A scan that succeeds has registered every structure up to the first end   *)
(* of the table, the count of the entry point, or the last whole one, and    *)
(* calls the table truncated exactly when neither of the first two was met   *)
(* (registry.c:366-428, registry.h:28-31).                                   *)
Wanted(n) ==
  /\ n <= Len(table)
  /\ limit = 0 \/ n <= limit
  /\ \A e \in 1..(n - 1) : ~IsEnd(e)

ScanVerdict ==
  "Scanned" \in status =>
    LET n == Len(sequence) IN
      /\ Wanted(n) /\ ~Wanted(n + 1)
      /\ count = n
      /\ "Truncated" \in status <=> ~(n = limit /\ n > 0) /\ ~(n > 0 /\ IsEnd(n))

(* Each pair of structures that share a handle is reported once, whatever    *)
(* the cells their chains hash to (registry.c:703-706).                      *)
DuplicatesReported ==
  phase \in {"scanning", "done"} =>
    Cardinality({k \in DOMAIN raised : raised[k] = "HandleDuplicate"}) =
      Cardinality({pair \in (1..Len(sequence)) \X (1..Len(sequence)) :
                     /\ pair[1] < pair[2]
                     /\ HandleOf(pair[1]) = HandleOf(pair[2])})

(* In relaxed mode nothing in the data makes the scan fail, only the lack of *)
(* memory does (registry.c:395-408).                                         *)
RelaxedScanSurvives ==
  phase = "failed" /\ ~opened => \E k \in DOMAIN raised : raised[k] = "OutOfMemory"

(* The scan reports what it has met and fails for nothing else.              *)
ScanReports == DuplicatesReported /\ RelaxedScanSurvives

(* Once the registry is gone each entity that was created has been destroyed *)
(* once, the one the scan could not put into the registry included, and no   *)
(* other has been (registry.c:316-344, 409-412).                             *)
Refused ==
  {e \in Entities : /\ e = Len(sequence) + 1
                    /\ \E k \in DOMAIN raised : raised[k] = "RegisterFailed"}

FreedOnce ==
  phase = "destroyed" =>
    \A e \in Entities : freed[e] = IF e <= Len(sequence) \/ e \in Refused THEN 1 ELSE 0

(* A scan ends, whatever the table holds.                                    *)
ScanEnds == phase = "scanning" ~> phase \in {"done", "failed"}

(* What RegistryAbs sees of the registry and of the last answer.             *)
Registered == [k \in DOMAIN sequence |-> table[sequence[k]]]

Given ==
  IF answer = Nothing
    THEN Nothing
    ELSE [handle |-> answer.handle, got |-> answer.got, reported |-> answer.errors # <<>>]

Known == IF phase = "destroyed" THEN <<>> ELSE Registered

Abs == INSTANCE RegistryAbs WITH known <- Known, answer <- Given

(* The registry gives the answers of RegistryAbs: the first structure of the *)
(* handle in table order, whatever the capacity of the index.  What the      *)
(* flags say about a null reference is left open here once they have been    *)
(* changed.                                                                  *)
Implements == Abs!Spec

AsOpened == INSTANCE RegistryAbs WITH known <- Known, answer <- Given, strict <- opened

(* Flags that are changed take effect the next time the context is opened:   *)
(* until then a null reference is reported, or not, as the flags it has been *)
(* opened with say (context.h:298).                                          *)
FlagsWaitForOpening == AsOpened!Spec

=============================================================================
