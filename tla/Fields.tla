------------------------------- MODULE Fields -------------------------------
(***************************************************************************)
(* The engine which reads a structure as the fields of its specification   *)
(* lay it out, and writes it back: field by field, each at the byte the    *)
(* ones before it have left, for data which may end anywhere.              *)
(*                                                                         *)
(* Structures come one at a time.  A structure is decoded, and may then be *)
(* encoded, keeping the bytes the model does not hold, or the way a        *)
(* version of the specification wants them; what is written that way is    *)
(* decoded once more, as a structure of a table of that version.           *)
(*                                                                         *)
(* Of the bytes of a structure, the body, only what the engine goes by is  *)
(* kept: how many there are, the numbers an array begins with, the length  *)
(* declared for binary data, the members whose plain field says that the   *)
(* value is elsewhere, and whether the decimal digits are digits.          *)
(***************************************************************************)
EXTENDS Layout, FiniteSets, TLC

CONSTANTS
  Specs,           \* specifications, by name
  Bodies,          \* bodies of the structures of the ones with fields, by name
  TableVersions,   \* versions the table of one may declare
  WrittenVersions  \* versions one is written for

VARIABLES
  entity,  \* name of the specification of the structure
  spec,    \* the specification
  table,   \* version of the table
  body,    \* bytes of the structure
  round,   \* 1 as found, 2 once written for a version and decoded again
  phase,
  d,       \* state of the decoding, and the decoded structure
  e,       \* state of the encoding, and the bytes written
  first    \* structure as decoded in the first round

vars == <<entity, spec, table, body, round, phase, d, e, first>>

HeaderLength  == 4    \* sizeof(dmi_header_t)
MaximumLength == 255  \* UINT8_MAX

Body ==
  [length : Nat, count : Nat, stride : Nat, declared : Nat,
   extended : SUBSET STRING, decimal : BOOLEAN]

NoBody == [length |-> 0, count |-> 0, stride |-> 0, declared |-> 0,
           extended |-> {}, decimal |-> TRUE]

(* The engine reads structures of a specification with fields, which has   *)
(* no handler of its own to decode them.                                   *)
IsDescribed(sp) == sp.fields # NoFields /\ "decode" \notin sp.handlers
NoSpec ==
  [since |-> NoVersion, minimum |-> 0, fields |-> NoFields, attributes |-> NoAttributes,
   reads |-> << >>]

Larger(m, n)  == IF m > n THEN m ELSE n
Smaller(m, n) == IF m < n THEN m ELSE n

-----------------------------------------------------------------------------
(* The bytes of a list of fields are read one value after another, and     *)
(* each read takes all of its bytes or none: where the reads end is what   *)
(* there is to know of them.  Bits are read by the byte, as the ranges     *)
(* need them, and their padding reads the rest of the unit.                *)

BytesOf(bits)         == (bits + 7) \div 8
BitsRead(taken, bits) == BytesOf(taken + bits) - BytesOf(taken)
Padding(taken, unit)  == (unit - (taken % unit)) % unit
Bytewise(n)           == 0 .. n

(* Reads of lengths, those ends after others, and the ends the data has.   *)
After(end, ends) == {end + n : n \in ends}
Total(ends)      == Max(ends)
Taken(ends, n)   == Max({end \in ends : end <= n})

(* What the reads of a field add, those of a vector being given.           *)
ReadOn(r, f, vector) ==
  LET more ==
        CASE f.kind = "bits"   -> Bytewise(BitsRead(r.taken, f.bits))
          [] f.kind = "pad"    -> Bytewise(BitsRead(r.taken, Padding(r.taken, f.bits)))
          [] f.kind = "vector" -> vector
          [] OTHER             -> {f.length}
  IN [ends  |-> r.ends \union After(Total(r.ends), more),
      taken |-> CASE f.kind = "bits" -> r.taken + f.bits
                  [] f.kind = "pad"  -> 0
                  [] OTHER           -> r.taken]

Ends(fields, vectors) ==
  LET read[k \in 0 .. Len(fields)] ==
        IF k = 0 THEN [ends |-> {0}, taken |-> 0]
        ELSE ReadOn(read[k - 1], fields[k], vectors[k])
  IN read[Len(fields)].ends

(* Nested lists: of the elements of a vector, and of the elements of an    *)
(* array, of which one is read at a time.                                  *)
Repeated(n, ends)  == UNION {After(i * Total(ends), ends) : i \in 0 .. n - 1}
VectorEnds(f)      == Repeated(f.count, Ends(f.fields, [k \in DOMAIN f.fields |-> {}]))
ElementEnds(fields) == Ends(fields, [k \in DOMAIN fields |-> VectorEnds(fields[k])])

(* Ranges of bits are in the tables of some versions only.                 *)
IsDefined(f, version) ==
  /\ f.from # NoVersion => version >= f.from
  /\ f.before # NoVersion => version < f.before

ArrayIsSkipped(f, stride) == f.stride_minimum # 0 /\ stride < f.stride_minimum

Fields         == spec.fields
Reads(i)       == spec.reads[i]
ElementSize(i) == Total(Reads(i))

-----------------------------------------------------------------------------
(* Decoding.  A structure remembers the bit each of its fields was read    *)
(* from, the last of which may have been cut, and the byte each element    *)
(* was, so that the fields and elements it holds are the ones remembered.  *)

NotDecoded ==
  [starts |-> << >>, cut |-> FALSE, pos |-> HeaderLength, taken |-> 0,
   level |-> NoVersion, defined |-> NoVersion, optional |-> FALSE,
   group |-> "", marked |-> {}, flags |-> {}, wide |-> {}, kept |-> 0, data |-> FALSE,
   count |-> 0, stride |-> 0, leftover |-> 0, elements |-> << >>]

Here    == Len(d.starts) + 1
Left    == body.length - d.pos
AtBit   == 8 * d.pos - Padding(d.taken, 8)

Decodes(kinds) ==
  /\ phase = "decode" /\ Here <= Len(Fields) /\ Fields[Here].kind \in kinds
  /\ UNCHANGED <<entity, spec, table, body, round, e, first>>

Entered(dd) == [dd EXCEPT !.starts = Append(@, AtBit)]

(* The fields of a group mark its member once every one has been read.     *)
Marked(dd) == [dd EXCEPT !.marked = @ \union ({dd.group} \ {""})]

(* The list ends: the ranges of bits read may be of a later version than   *)
(* the groups.                                                             *)
Decoded(dd, flags) ==
  /\ phase' = "decoded"
  /\ d' = [dd EXCEPT !.flags = @ \union flags, !.level = Larger(@, dd.defined)]

\* Mutant of Short: a required array has to hold every element it declares.
ShortOfElements(dd, incomplete) ==
  IF dd.optional
    THEN Decoded(dd, {"INCOMPLETE"})
    ELSE phase' = "failed" /\ d' = [dd EXCEPT !.level = NoVersion]

(* A field could not be read: nothing after it is, and the structure is    *)
(* short where it is allowed to be, and broken elsewhere.                  *)
Short(dd, incomplete) ==
  IF dd.optional \/ incomplete
    THEN Decoded(dd, {"INCOMPLETE"})
    ELSE phase' = "failed" /\ d' = [dd EXCEPT !.level = NoVersion]

(* Reads to the last of the ends, and goes on as dd if all of it is there. *)
Consume(ends, dd) ==
  IF Total(ends) <= Left
    THEN d' = [Entered(dd) EXCEPT !.pos = @ + Total(ends)] /\ UNCHANGED phase
    ELSE Short([Entered(d) EXCEPT !.pos = @ + Taken(ends, Left), !.cut = TRUE], FALSE)

DecodeStart ==
  /\ phase = "start"
  /\ IF body.length < spec.minimum
       THEN phase' = "failed" /\ d' = NotDecoded
       ELSE phase' = "decode" /\ d' = [NotDecoded EXCEPT !.level = spec.since]
  /\ UNCHANGED <<entity, spec, table, body, round, e, first>>

DecodeOffset ==
  /\ Decodes({"offset"})
  /\ IF d.pos = Fields[Here].offset
       THEN d' = Entered(d) /\ UNCHANGED phase
       ELSE phase' = "failed" /\ d' = [d EXCEPT !.level = NoVersion]

DecodePreset ==
  /\ Decodes({"preset"})
  /\ d' = Entered(d) /\ UNCHANGED phase

\* Mutants of DecodeGroup: a group the data ends before is read, and the
\* structure is taken to be of the version of the group before.
DecodeGroupAnyway ==
  /\ Decodes({"group"})
  /\ LET g == Fields[Here] IN
       d' = [Entered(Marked(d)) EXCEPT
               !.group = g.present, !.optional = TRUE,
               !.level = IF g.since # NoVersion THEN g.since ELSE @]
  /\ UNCHANGED phase
DecodeGroupLate ==
  /\ Decodes({"group"})
  /\ IF Left = 0
       THEN Decoded(Marked(d), {"PARTIAL"})
       ELSE /\ d' = [Entered(Marked(d)) EXCEPT !.group = Fields[Here].present, !.optional = TRUE]
            /\ UNCHANGED phase

DecodeGroup ==
  /\ Decodes({"group"})
  /\ LET g == Fields[Here] IN
       IF Left = 0
         THEN Decoded(Marked(d), {"PARTIAL"})
         ELSE /\ d' = [Entered(Marked(d)) EXCEPT
                         !.group = g.present, !.optional = TRUE,
                         !.level = IF g.since # NoVersion THEN g.since ELSE @]
              /\ UNCHANGED phase

(* Numbers which are the length of the data a later field reads.           *)
TellsLength(f) == \E g \in Range(Fields) : g.length = Declared /\ g.member = f.member

DecodeValue ==
  /\ Decodes({"integer", "string", "bcd", "uuid", "binary", "skip"})
  /\ LET f == Fields[Here] IN
       /\ f.length \notin {Rest, Declared}
       /\ Consume({0, f.length},
                  [d EXCEPT !.kept = IF TellsLength(f) THEN body.declared ELSE @,
                            !.wide = IF f.extended /\ f.when \in body.extended
                                       THEN @ \union {f.member} ELSE @])

(* The rest of the bytes, or as many as a field before declares, of which  *)
(* the ones there are kept.                                                *)
DecodeBinary ==
  /\ Decodes({"binary"})
  /\ Fields[Here].length \in {Rest, Declared}
  /\ LET n  == IF Fields[Here].length = Rest THEN Left ELSE Smaller(body.declared, Left)
         dd == [Entered(d) EXCEPT !.pos = @ + n, !.kept = n, !.data = TRUE]
     IN IF Fields[Here].length = Declared /\ body.declared > Left
          THEN Short(dd, TRUE)
          ELSE d' = dd /\ UNCHANGED phase

DecodeVector ==
  /\ Decodes({"vector"})
  /\ Consume(Repeated(Fields[Here].count, Reads(Here)), d)

DecodeBits ==
  /\ Decodes({"bits"})
  /\ LET f == Fields[Here] IN
       IF ~IsDefined(f, table)
         THEN d' = Entered(d) /\ UNCHANGED phase
         ELSE Consume(Bytewise(BitsRead(d.taken, f.bits)),
                      [d EXCEPT !.taken = @ + f.bits, !.defined = Larger(@, f.from)])

DecodePad ==
  /\ Decodes({"pad"})
  /\ LET padding == Padding(d.taken, Fields[Here].bits)
     IN Consume(Bytewise(BitsRead(d.taken, padding)), [d EXCEPT !.taken = 0])

\* Mutant of Passed: the elements are as long as they declare to be.
PassedBlindly(length, rest) == length

(* Bytes passed of elements which are of no use.                           *)
Passed(length, rest) == Smaller(length, rest)

(* An array begins with its numbers, and holds as many elements as fit     *)
(* when it declares none.  Elements too short to be of use are passed.     *)
DecodeArray ==
  /\ Decodes({"array"})
  /\ LET f      == Fields[Here]
         header == f.count_length + f.stride_length
         rest   == Left - header
         count  == IF f.count_length = 0 THEN rest \div f.stride ELSE body.count
         stride == IF f.stride_length = 0 THEN f.stride ELSE body.stride
         dd     == [Entered(d) EXCEPT
                      !.pos = @ + header, !.count = count, !.stride = stride,
                      !.leftover = IF f.count_length = 0 THEN rest % f.stride ELSE 0]
     IN IF rest < 0
          THEN Short([Entered(d) EXCEPT
                        !.pos = @ + Taken({0, f.count_length, header}, Left), !.cut = TRUE],
                     FALSE)
        ELSE IF ArrayIsSkipped(f, stride)
          THEN d' = [dd EXCEPT !.pos = @ + Passed(count * stride, rest)] /\ UNCHANGED phase
        ELSE d' = dd /\ phase' = "elements"

TheArray == Len(d.starts)

\* Mutant of DecodeElement: an element is counted before it has been read.
DecodeElementEarly ==
  /\ phase = "elements" /\ Len(d.elements) < d.count
  /\ LET size == ElementSize(TheArray)
         dd   == [d EXCEPT !.elements = Append(@, d.pos)]
     IN IF (d.stride # 0 /\ Left < d.stride) \/ size > Left
          THEN Short([dd EXCEPT !.pos = @ + Taken(Reads(TheArray), Left)], TRUE)
          ELSE /\ d' = [dd EXCEPT !.pos = @ + (IF d.stride # 0 THEN d.stride ELSE size)]
               /\ UNCHANGED phase
  /\ UNCHANGED <<entity, spec, table, body, round, e, first>>

(* An element is there in full or not at all.  Where the data ends before  *)
(* its length does the structure is short; where it ends before the fields *)
(* of the element do, only if they have taken every byte there is.         *)
DecodeElement ==
  /\ phase = "elements" /\ Len(d.elements) < d.count
  /\ LET size == ElementSize(TheArray) IN
       IF d.stride # 0 /\ Left < d.stride
         THEN Short(d, TRUE)
       ELSE IF size > Left
         THEN LET p == d.pos + Taken(Reads(TheArray), Left)
              IN Short([d EXCEPT !.pos = p], p = body.length)
       ELSE /\ d' = [d EXCEPT !.elements = Append(@, d.pos),
                              !.pos = @ + (IF d.stride # 0 THEN d.stride ELSE size)]
            /\ UNCHANGED phase
  /\ UNCHANGED <<entity, spec, table, body, round, e, first>>

(* Bytes left over mark the structure, which is read on nevertheless.      *)
DecodeArrayEnd ==
  /\ phase = "elements" /\ Len(d.elements) = d.count
  /\ phase' = "decode"
  /\ d' = IF d.leftover = 0 THEN d ELSE [d EXCEPT !.flags = @ \union {"INCOMPLETE"}]
  /\ UNCHANGED <<entity, spec, table, body, round, e, first>>

DecodeEnd ==
  /\ phase = "decode" /\ Here > Len(Fields)
  /\ Decoded(Marked(d), {})
  /\ UNCHANGED <<entity, spec, table, body, round, e, first>>

-----------------------------------------------------------------------------
(* Encoding.  The source is read in step with what is written, while it    *)
(* lasts, and there is none of it for the structures written for a         *)
(* version.  Whether the bytes written are the bytes of the source is kept *)
(* track of: reserved bytes are, and the ones of a value are when it was   *)
(* read from where it is written.                                          *)

NotEncoded ==
  [mode |-> "none", version |-> NoVersion, at |-> 1, out |-> HeaderLength, taken |-> 0,
   stopped |-> FALSE, same |-> TRUE, element |-> 0, count |-> 0, stride |-> 0,
   extended |-> {}]

Preserves == e.mode = "preserve"
Remaining == IF Preserves THEN Larger(body.length - e.out, 0) ELSE 0
ToBit     == 8 * e.out + (e.taken % 8)
Version   == IF Preserves THEN table ELSE e.version

(* The field being written holds what was read from this place.            *)
InPlace == e.at \in DOMAIN d.starts /\ d.starts[e.at] = ToBit
Held    == InPlace /\ ~(d.cut /\ e.at = Len(d.starts))

Encodes(kinds) ==
  /\ phase = "encode" /\ ~e.stopped
  /\ e.at <= Len(Fields) /\ Fields[e.at].kind \in kinds
  /\ UNCHANGED <<entity, spec, table, body, round, d, first>>

Written(ee, n, faithful) ==
  [ee EXCEPT !.at = @ + 1, !.out = @ + n, !.same = @ /\ faithful]
Put(n, faithful) == e' = Written(e, n, faithful) /\ UNCHANGED phase
Reserve(n)       == Put(n, TRUE)

(* What is left of the source is kept as it is, and nothing follows it.    *)
Stop == e' = [e EXCEPT !.stopped = TRUE, !.out = @ + Remaining] /\ UNCHANGED phase

\* Mutant of CutAt: fields are written whether the source has them or not.
CutNever(n) == FALSE

(* Source data which ends in the middle of a field is kept as it is.       *)
CutAt(n) == Preserves /\ Remaining < n

EncodeStart ==
  /\ phase = "decoded" /\ round = 1
  /\ phase' = "encode"
  /\ \/ e' = [NotEncoded EXCEPT !.mode = "preserve"]
     \/ \E v \in WrittenVersions[entity] :
          e' = [NotEncoded EXCEPT !.mode = "canonical", !.version = v]
  /\ UNCHANGED <<entity, spec, table, body, round, d, first>>

EncodeOffset ==
  /\ Encodes({"offset"})
  /\ IF e.out = Fields[e.at].offset
       THEN Put(0, TRUE)
       ELSE phase' = "refused" /\ UNCHANGED e

EncodePreset == Encodes({"preset"}) /\ Put(0, TRUE)

(* A group ends the structure where the source does, or where a later      *)
(* version begins, or where the structure does not hold it.                *)
GroupIsAbsent(g) == g.present # "" /\ g.present \notin d.marked

EncodeGroup ==
  /\ Encodes({"group"})
  /\ LET g == Fields[e.at]
         ends == \/ GroupIsAbsent(g)
                 \/ Preserves /\ Remaining = 0
                 \/ ~Preserves /\ g.since # NoVersion /\ g.since > e.version
     IN e' = [e EXCEPT !.at = @ + 1, !.stopped = ends] /\ UNCHANGED phase

(* The ranges of bits are written by the byte, once it is full.            *)
EncodeBits ==
  /\ Encodes({"bits"})
  /\ LET f == Fields[e.at]
         n == (e.taken + f.bits) \div 8 - e.taken \div 8
     IN IF ~IsDefined(f, Version)
          THEN Put(0, TRUE)
          ELSE /\ e' = Written([e EXCEPT !.taken = @ + f.bits], n, f.member = "" \/ Held)
               /\ UNCHANGED phase

\* Mutant of EncodePad: the bits of the unit are not made up to bytes.
EncodePadNot ==
  /\ Encodes({"pad"})
  /\ e' = Written([e EXCEPT !.taken = 0], 0, TRUE) /\ UNCHANGED phase

EncodePad ==
  /\ Encodes({"pad"})
  /\ LET padding == Padding(e.taken, Fields[e.at].bits) IN
       /\ e' = Written([e EXCEPT !.taken = 0],
                       (e.taken + padding) \div 8 - e.taken \div 8, TRUE)
       /\ UNCHANGED phase

EncodeSkip == Encodes({"skip"}) /\ Reserve(Fields[e.at].length)

EncodeVector ==
  /\ Encodes({"vector"})
  /\ LET n == Fields[e.at].count * ElementSize(e.at) IN
       IF CutAt(n)
          THEN e' = [e EXCEPT !.stopped = TRUE, !.out = @ + Remaining,
                              !.same = @ /\ InPlace] /\ UNCHANGED phase
          ELSE Put(n, Held)

(* Values written from the structure alone: identifiers, decimal digits,   *)
(* of which others than digits may not fit, and data of no fixed length.   *)
EncodeUuid ==
  /\ Encodes({"uuid"})
  /\ IF CutAt(Fields[e.at].length) THEN Stop ELSE Put(Fields[e.at].length, Held)

EncodeBcd ==
  /\ Encodes({"bcd"})
  /\ LET f == Fields[e.at] IN
       IF CutAt(f.length) THEN Stop
       ELSE \/ Put(f.length, Held /\ body.decimal)
            \/ ~body.decimal /\ Held /\ phase' = "refused" /\ UNCHANGED e

EncodeBinary ==
  /\ Encodes({"binary"})
  /\ Fields[e.at].length \in {Rest, Declared}
  /\ IF d.kept > 0 /\ ~d.data
       THEN phase' = "refused" /\ UNCHANGED e
       ELSE Put(d.kept, d.kept = 0 \/ InPlace)

(* Of the fields holding one value the governing one decides which carries *)
(* it: the plain one when the value fits it, unless the source had it      *)
(* elsewhere.  A value which was elsewhere may fit nevertheless.           *)
Governs(m)  == \E g \in Range(Fields) : g.extended /\ g.when = m
Replaced(m) == \E g \in Range(Fields) : g.extended /\ g.member = m /\ g.when \in e.extended

Elsewhere(m) ==
  IF Preserves THEN {m \in body.extended}
  ELSE IF ~(\E i \in DOMAIN d.starts : Fields[i].member = m) THEN {FALSE}
  ELSE IF m \in d.wide THEN {TRUE, FALSE}
  ELSE {m \in body.extended}

(* A number is faithful unless it is the length of data cut short since.   *)
NumberHeld(f) == Held /\ (TellsLength(f) => d.kept = body.declared)

EncodeValue ==
  /\ Encodes({"integer", "string", "binary"})
  /\ LET f == Fields[e.at] IN
       /\ f.length \notin {Rest, Declared}
       /\ IF CutAt(f.length) THEN Stop
          ELSE IF f.extended /\ f.when \notin e.extended THEN Reserve(f.length)
          ELSE IF ~f.extended /\ Governs(f.member)
            THEN \E extended \in Elsewhere(f.member) :
                   /\ e' = Written([e EXCEPT !.extended =
                                      IF extended THEN @ \union {f.member} ELSE @],
                                   f.length, Held)
                   /\ UNCHANGED phase
          ELSE IF Preserves /\ ~f.extended /\ Replaced(f.member)
            THEN Reserve(f.length)
          ELSE Put(f.length, NumberHeld(f))

\* Mutant of CountWritten: the number the source declares is written for any
\* version.
CountAsDeclared(f, counter) ==
  IF f.count_length = 0 THEN counter ELSE Larger(body.count, counter)

(* The numbers of an array are the ones kept in members, or the source's,  *)
(* or what has been decoded.                                               *)
CountWritten(f, counter) ==
  IF f.count_length = 0 THEN counter
  ELSE IF f.count_member # "" THEN d.count
  ELSE IF Preserves THEN Larger(body.count, counter)
  ELSE counter
StrideWritten(f) ==
  IF f.stride_length = 0 THEN f.stride
  ELSE IF f.stride_member # "" THEN d.stride
  ELSE IF Preserves THEN body.stride
  ELSE ElementSize(e.at)

EncodeArray ==
  /\ Encodes({"array"})
  /\ LET f       == Fields[e.at]
         header  == f.count_length + f.stride_length
         count   == CountWritten(f, Len(d.elements))
         stride  == StrideWritten(f)
         same    == /\ InPlace
                    /\ f.count_length # 0 => count = body.count
                    /\ f.stride_length # 0 => stride = body.stride
         ee      == [e EXCEPT !.count = count, !.stride = stride, !.element = 0]
         left    == Larger(Remaining - header, 0)
     IN IF CutAt(header) THEN Stop
        ELSE IF ArrayIsSkipped(f, stride)
          THEN /\ e' = Written(ee, header + Smaller(count * stride, IF stride = 0 THEN 0 ELSE left),
                               same)
               /\ UNCHANGED phase
        ELSE /\ e' = [ee EXCEPT !.out = @ + header, !.same = @ /\ same]
             /\ phase' = "encode_elements"

(* Elements are written to their length, as far as the source has it.      *)
EncodeElement ==
  /\ phase = "encode_elements" /\ ~e.stopped /\ e.element < Len(d.elements)
  /\ LET n == ElementSize(e.at) IN
       IF CutAt(n)
         THEN Stop
         ELSE /\ e' = [e EXCEPT !.element = @ + 1, !.out = @ + Larger(n, e.stride),
                                !.same = @ /\ d.elements[e.element + 1] = e.out]
              /\ UNCHANGED phase
  /\ UNCHANGED <<entity, spec, table, body, round, d, first>>

EncodeArrayEnd ==
  /\ phase = "encode_elements"
  /\ e.stopped \/ e.element = Len(d.elements)
  /\ phase' = "encode" /\ e' = [e EXCEPT !.at = @ + 1]
  /\ UNCHANGED <<entity, spec, table, body, round, d, first>>

(* Bytes after the fields are kept, and the length has to fit its byte.    *)
EncodeEnd ==
  /\ phase = "encode"
  /\ e.stopped \/ e.at > Len(Fields)
  /\ LET out == e.out + Remaining IN
       /\ phase' = IF out > MaximumLength THEN "refused" ELSE "encoded"
       /\ e' = [e EXCEPT !.out = out, !.same = @ /\ (Preserves => out = body.length)]
  /\ UNCHANGED <<entity, spec, table, body, round, d, first>>

-----------------------------------------------------------------------------
(* Structures come and go, and what is written for a version comes back.   *)

(* What the engine goes by, with the ends of the reads of nested lists.    *)
Read(s) ==
  [since |-> s.since, minimum |-> s.minimum, fields |-> s.fields, attributes |-> s.attributes,
   reads |-> [i \in DOMAIN s.fields |-> ElementEnds(s.fields[i].fields)]]

Take ==
  /\ phase = "idle"
  /\ \E n \in DOMAIN Bodies :
       /\ entity' = n
       /\ spec' = Read(Specs[n])
       /\ body' \in Bodies[n]
       /\ table' \in TableVersions[n]
  /\ phase' = "start"
  /\ UNCHANGED <<round, d, e, first>>

Reread ==
  /\ phase = "encoded" /\ ~Preserves
  /\ phase' = "start" /\ round' = 2 /\ table' = e.version /\ first' = d
  /\ body' = [length |-> e.out, count |-> e.count, stride |-> e.stride,
              declared |-> d.kept, extended |-> e.extended, decimal |-> TRUE]
  /\ d' = NotDecoded /\ e' = NotEncoded
  /\ UNCHANGED <<entity, spec>>

Release ==
  /\ phase \in {"decoded", "failed", "encoded", "refused"}
  /\ phase' = "idle" /\ entity' = "" /\ spec' = NoSpec /\ table' = NoVersion
  /\ body' = NoBody /\ round' = 1
  /\ d' = NotDecoded /\ e' = NotEncoded /\ first' = NotDecoded

Init ==
  /\ phase = "idle" /\ entity = "" /\ spec = NoSpec /\ table = NoVersion
  /\ body = NoBody /\ round = 1
  /\ d = NotDecoded /\ e = NotEncoded /\ first = NotDecoded

Decode ==
  \/ DecodeStart \/ DecodeOffset \/ DecodePreset \/ DecodeGroup \/ DecodeValue
  \/ DecodeBinary \/ DecodeVector \/ DecodeBits \/ DecodePad \/ DecodeArray
  \/ DecodeElement \/ DecodeArrayEnd \/ DecodeEnd

Encode ==
  \/ EncodeOffset \/ EncodePreset \/ EncodeGroup \/ EncodeBits \/ EncodePad
  \/ EncodeSkip \/ EncodeVector \/ EncodeUuid \/ EncodeBcd \/ EncodeBinary \/ EncodeValue
  \/ EncodeArray \/ EncodeElement \/ EncodeArrayEnd \/ EncodeEnd

Next == Take \/ Decode \/ EncodeStart \/ Encode \/ Reread \/ Release

Spec == Init /\ [][Next]_vars

-----------------------------------------------------------------------------
(* What the fields say of a structure by themselves: the bit each begins   *)
(* at and the last one ends at, whether the data goes that far or not.     *)

Elements(f, start) ==
  IF f.count_length = 0 THEN Larger(body.length - start, 0) \div f.stride ELSE body.count
Stride(f) == IF f.stride_length = 0 THEN f.stride ELSE body.stride
Step(i)   == IF Stride(Fields[i]) = 0 THEN ElementSize(i) ELSE Stride(Fields[i])

Extent(i, start) == LET f == Fields[i] IN
  CASE f.kind \in {"offset", "preset", "group"} -> 0
    [] f.kind = "vector"   -> f.count * ElementSize(i)
    [] f.kind = "array"    ->
         LET header == f.count_length + f.stride_length
             room   == Larger(body.length - start - header, 0)
         IN header + IF ArrayIsSkipped(f, Stride(f))
                       THEN Smaller(Elements(f, start) * Stride(f), room)
                       ELSE Elements(f, start) * Step(i)
    [] f.length = Rest     -> Larger(body.length - start, 0)
    [] f.length = Declared -> body.declared
    [] OTHER               -> f.length

Begin(p, f, version, extent) ==
  CASE f.kind = "bits" -> IF ~IsDefined(f, version) THEN p
                          ELSE [bit |-> p.bit + f.bits, taken |-> p.taken + f.bits]
    [] f.kind = "pad"  -> [bit |-> p.bit + Padding(p.taken, f.bits), taken |-> 0]
    [] OTHER           -> [p EXCEPT !.bit = @ + 8 * extent]

FirstBegins == [bit |-> 8 * HeaderLength, taken |-> 0]
BeginAfter(p, i) == Begin(p, Fields[i], table, Extent(i, p.bit \div 8))
Begun(ps, i) == Append(ps, BeginAfter(Last(ps), i))
Begins ==
  LET begun[k \in 0 .. Len(Fields)] ==
        IF k = 0 THEN <<FirstBegins>> ELSE Begun(begun[k - 1], k)
  IN begun[Len(Fields)]

(* The data holds the fields before the i-th, and ends where it begins.    *)
Reaches(ps, i) == BytesOf(ps[i].bit) <= body.length
EndsAt(ps, i)  == BytesOf(ps[i].bit) = body.length

GroupAt(i)    == Fields[i].kind = "group"
Required(i)   == \A j \in 1 .. i : ~GroupAt(j)
LeftOver(ps)  == \E i \in DOMAIN Fields : LET f == Fields[i] IN
  /\ f.kind = "array" /\ f.count_length = 0
  /\ ps[i].bit \div 8 <= body.length
  /\ (body.length - ps[i].bit \div 8) % f.stride # 0

(* The data ends within a number of an element, which is not the last read *)
(* of the bytes there are.                                                 *)
EndsInNumber(ps, i) ==
  LET f    == Fields[i]
      into == (body.length - ps[i].bit \div 8 - f.count_length) % Step(i)
  IN Stride(f) = 0 /\ into \notin Reads(i)

HeaderEnds(ps, i) ==
  body.length < ps[i].bit \div 8 + Fields[i].count_length + Fields[i].stride_length

Verdict == phase \in {"decoded", "failed"}

-----------------------------------------------------------------------------
(* Rules the specifications keep, which the engine goes by and does not    *)
(* look after.                                                             *)

Kinds == {"integer", "string", "bcd", "uuid", "binary", "skip", "bits", "pad",
          "vector", "array", "group", "offset", "preset"}

IsList(s) == s \in Seq(Range(s))

IsField(f) ==
  /\ f.kind \in Kinds /\ f.extended \in BOOLEAN
  /\ {f.member, f.present, f.when, f.count_member, f.stride_member} \subseteq STRING
  /\ {f.bits, f.offset, f.since, f.from, f.before, f.count, f.count_length, f.stride,
      f.stride_length, f.stride_minimum} \subseteq Nat
  /\ f.length \in Nat \union {Rest, Declared}
  /\ f.length \in {Rest, Declared} => f.kind = "binary"
  /\ f.kind = "pad" => f.bits > 0 /\ f.bits % 8 = 0
  /\ f.kind = "vector" => f.count > 0
  /\ IsList(f.fields)

(* Elements and vectors hold values and bits only, so that a nested list   *)
(* is known by the widths it is read in.                                   *)
NestedKinds == {"integer", "string", "bcd", "uuid", "binary", "skip", "bits", "pad", "vector"}
NestedArePlain(f) ==
  \A g \in Range(f.fields) :
    /\ IsField(g) /\ g.kind \in NestedKinds /\ ~g.extended /\ g.length \in Nat
    /\ \A h \in Range(g.fields) :
         IsField(h) /\ h.kind \in NestedKinds \ {"vector"} /\ h.length \in Nat

(* An array either has elements of a length known beforehand, or says how  *)
(* long they are; an element of use has room for its fields.               *)
ArrayRules(f) ==
  LET size == Total(ElementEnds(f.fields)) IN
  /\ size > 0
  /\ f.count_length = 0 => f.stride_length = 0 /\ f.stride > 0
  /\ f.stride_length = 0 => f.stride_minimum = 0 /\ (f.stride = 0 \/ f.stride >= size)
  /\ f.stride_length # 0 => f.stride_minimum >= size

(* Where a field begins when the ones before it are of one size each.      *)
IsFixed(f) ==
  /\ f.kind \notin {"vector", "array"} /\ f.length \in Nat
  /\ f.from = NoVersion /\ f.before = NoVersion
  /\ f.kind \in {"offset", "preset", "group"} => f.length = 0
FixedBegin(fields, i) ==
  LET begin[k \in 0 .. i - 1] ==
        IF k = 0 THEN FirstBegins
        ELSE Begin(begin[k - 1], fields[k], NoVersion, fields[k].length)
  IN begin[i - 1]

(* Of arrays, and of data of no fixed length, the engine is modelled with  *)
(* one to a list.                                                          *)
IsOpen(f) == f.length \in {Rest, Declared}

FieldRules(fields) ==
  /\ \A f \in Range(fields) :
       IsField(f) /\ NestedArePlain(f) /\ (f.kind = "array" => ArrayRules(f))
  /\ \A i \in DOMAIN fields :
       /\ fields[i].kind = "bits" =>
            i < Len(fields) /\ fields[i + 1].kind \in {"bits", "pad"}
       /\ fields[i].kind = "offset" =>
            /\ \A j \in 1 .. i - 1 : IsFixed(fields[j])
            /\ FixedBegin(fields, i).bit = 8 * fields[i].offset
  /\ \A i, j \in DOMAIN fields :
       \/ fields[i].kind = "array" /\ fields[j].kind = "array"
       \/ IsOpen(fields[i]) /\ IsOpen(fields[j])
       => i = j

(* Groups follow one another in the order of the versions they are of, and *)
(* an attribute is of the version its field is of, or of an earlier one.   *)
IsGroupOf(f, version) == f.kind = "group" /\ f.since # NoVersion /\ f.since >= version
VersionRules(s) ==
  /\ \A i \in DOMAIN s.fields : LET f == s.fields[i] IN
       f.kind = "group" /\ f.since # NoVersion =>
         /\ f.since >= s.since
         /\ \A j \in 1 .. i - 1 : s.fields[j].kind = "group" => s.fields[j].since <= f.since
  /\ \A a \in s.attributes : a.kind # "variant" =>
       /\ a.level \in Nat
       /\ \A i \in DOMAIN s.fields : s.fields[i].member = a.member =>
            \/ a.level <= s.since
            \/ s.fields[i].kind = "bits" /\ a.level <= s.fields[i].from
            \/ \E j \in 1 .. i - 1 : IsGroupOf(s.fields[j], a.level)

ASSUME SpecsAssumption ==
  \A n \in DOMAIN Bodies : LET s == Specs[n] IN
    /\ n \in STRING /\ IsDescribed(s)
    /\ s.since \in Nat /\ s.minimum \in Nat /\ s.minimum >= HeaderLength
    /\ IsList(s.fields) /\ FieldRules(s.fields) /\ VersionRules(s)

ASSUME BodiesAssumption ==
  \A n \in DOMAIN Bodies :
    /\ Bodies[n] \subseteq Body /\ \A b \in Bodies[n] : b.length <= MaximumLength
    /\ TableVersions[n] \subseteq Nat /\ WrittenVersions[n] \subseteq Nat

-----------------------------------------------------------------------------
(* Properties                                                              *)

Phases == {"idle", "start", "decode", "elements", "decoded", "failed",
           "encode", "encode_elements", "encoded", "refused"}

(* Every position is a position of the structure, and every number the     *)
(* engine keeps has the type it has in the state of the decoder and of the *)
(* encoder.                                                                *)
TypeOK ==
  /\ phase = "idle" => entity = "" /\ spec = NoSpec
  /\ table \in Nat /\ body \in Body
  /\ round \in {1, 2} /\ phase \in Phases
  /\ \A dd \in {d, first} :
       /\ Len(dd.starts) <= Len(Fields) /\ Range(dd.starts) \subseteq Nat
       /\ dd.pos \in Nat /\ dd.taken \in Nat /\ dd.level \in Nat /\ dd.defined \in Nat
       /\ dd.flags \subseteq {"PARTIAL", "INCOMPLETE"}
       /\ dd.cut \in BOOLEAN /\ dd.optional \in BOOLEAN /\ dd.data \in BOOLEAN
       /\ {dd.kept, dd.count, dd.stride, dd.leftover} \subseteq Nat
       /\ Range(dd.elements) \subseteq Nat
  /\ phase \notin {"idle", "failed"} => d.pos <= Larger(body.length, HeaderLength)
  /\ e.mode \in {"none", "preserve", "canonical"} /\ e.version \in Nat
  /\ e.at \in 1 .. Len(Fields) + 1 /\ {e.out, e.taken, e.element, e.count, e.stride} \subseteq Nat
  /\ e.same \in BOOLEAN /\ e.stopped \in BOOLEAN

(* A structure is rejected exactly when it is too short to be one: when it *)
(* is shorter than its specification says it has to be, or ends within the *)
(* fields before the first group; elements of an array may be missing, but *)
(* a number of one is not cut in two.                                      *)
Broken(ps) ==
  \/ body.length < spec.minimum
  \/ \E i \in DOMAIN Fields :
       /\ Required(i) /\ Reaches(ps, i) /\ ~Reaches(ps, i + 1)
       /\ CASE Fields[i].kind = "array" -> HeaderEnds(ps, i) \/ EndsInNumber(ps, i)
            [] OTHER                    -> Fields[i].length # Declared
RejectedIfBroken == Verdict => \A ps \in {Begins} : (phase = "failed") = Broken(ps)

(* The states of a decoded structure tell where its data ends: partial at  *)
(* the beginning of a group, with no field before it missing, incomplete   *)
(* anywhere else before the end of the fields, and neither at their end.   *)
FlagsTellTheLength ==
  phase = "decoded" =>
    \A ps \in {Begins} :
    LET partial == \E i \in DOMAIN Fields : GroupAt(i) /\ EndsAt(ps, i)
        ends    == Len(Fields) + 1
    IN /\ ("PARTIAL" \in d.flags) = partial
       /\ ("INCOMPLETE" \in d.flags) = (LeftOver(ps) \/ (~Reaches(ps, ends) /\ ~partial))

(* The elements counted are the ones there in full, whatever number of     *)
(* them the data declares, and none of an array of no use or not reached.  *)
ArraysAreWhole ==
  phase = "decoded" => \A ps \in {Begins} : \A i \in DOMAIN Fields :
    Fields[i].kind = "array" =>
      LET f     == Fields[i]
          start == ps[i].bit \div 8
          room  == (body.length - start - f.count_length - f.stride_length) \div Step(i)
      IN Len(d.elements) =
           IF HeaderEnds(ps, i) \/ ArrayIsSkipped(f, Stride(f)) THEN 0
           ELSE Smaller(Elements(f, start), room)

(* What has been read is shown: an attribute is shown at the level of the  *)
(* structure, which is the one of the last group reached, or of the last   *)
(* range of bits.                                                          *)
WasRead(i)  == i \in DOMAIN d.starts /\ ~(d.cut /\ i = Len(d.starts))
IsShown(a)  == a.level <= d.level
Describes(a, i) == a.kind # "variant" /\ a.member = Fields[i].member
ReadIsShown ==
  phase = "decoded" => \A i \in DOMAIN Fields : \A a \in spec.attributes :
    WasRead(i) /\ Describes(a, i) /\ IsDefined(Fields[i], table) => IsShown(a)

(* A structure encoded as it was decoded has the bytes it was decoded      *)
(* from, unless its digits are none, or its data ends within the elements  *)
(* of an array, reserved bytes or bits, or data it declares the length of. *)
EndsInPart ==
  /\ "INCOMPLETE" \in d.flags
  /\ LET f == Fields[Len(d.starts)] IN
       f.kind \in {"array", "skip", "bits", "pad"} \/ f.length = Declared
Preserved ==
  phase = "encoded" /\ Preserves => e.same \/ ~body.decimal \/ EndsInPart

(* What is written for a version is a structure of that version, with the  *)
(* elements it had, which is complete as far as the version goes; the ones *)
(* too short for their type, and the numbers of elements kept as they were *)
(* declared, are not repaired.                                             *)
Declares == \E f \in Range(Fields) : f.count_member # ""
CanonicalSettles ==
  round = 2 =>
    /\ phase = "decoded" =>
         /\ d.level <= Larger(spec.since, table)
         /\ Len(d.elements) \in {0, Len(first.elements)}
         /\ "INCOMPLETE" \in d.flags => Declares
         /\ d.flags = {} /\ d.elements = << >> => first.elements = << >>
    /\ phase = "failed" => body.length < spec.minimum \/ Declares

(* A decoded structure can be encoded, unless its digits are none, it has  *)
(* lost the data it knows the length of, or what is written for a version, *)
(* or made up of a part at the end, is longer than a structure can be: no  *)
(* field is out of the place its specification has it at.                  *)
TooLong == e.out > MaximumLength /\ (Preserves => EndsInPart)
RefusedOnly ==
  phase = "refused" => ~body.decimal \/ (d.kept > 0 /\ ~d.data) \/ TooLong

=============================================================================
