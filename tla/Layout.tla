------------------------------- MODULE Layout -------------------------------
(***************************************************************************)
(* The language the specifications of structures are declared in: the      *)
(* fields, which lay out the bytes of a structure, the attributes, which   *)
(* describe the values of its members, and the names of the values.  It    *)
(* is the vocabulary of the modules the tables are kept in, see Entities,  *)
(* and of the engine which walks them, see Fields.                         *)
(*                                                                         *)
(* Of a name only the code it stands for is kept, and of an attribute what *)
(* decides whether and how its value is shown; the wording is left out.    *)
(* A member of a decoded structure is its name, and stands for its offset. *)
(***************************************************************************)
EXTENDS Integers, SequencesExt

(* Values a table cannot spell in the integers of TLC, or does not have:   *)
(* every bit set, only the highest bit set, and no value at all.           *)
AllOnes == -1
Lowest  == -2
None    == -3

(* Lengths of binary fields other than a number of bytes.                  *)
Rest     == -1
Declared == -2

(* Versions of the SMBIOS specification; revisions are always zero here.   *)
V(major, minor) == 256 * major + minor
NoVersion       == V(0, 0)

-----------------------------------------------------------------------------
(* Members of a decoded structure, and the number of the bytes they take;  *)
(* zero is the size of the ones which share a byte or more as bits.        *)

NoMembers         == [m \in {} |-> 0]
Sized(n, members) == [m \in members |-> n]

(* Unit the ranges of bits share: its bytes, its bits, and the bits named. *)
Unit(bytes, bits, named) == [bytes |-> bytes, bits |-> bits, named |-> named]
NoBits                   == Unit(0, 0, {})

-----------------------------------------------------------------------------
(* Fields.                                                                 *)

NoField ==
  [kind |-> "none", member |-> "", length |-> 0, bits |-> 0, offset |-> 0,
   since |-> NoVersion, present |-> "", from |-> NoVersion, before |-> NoVersion,
   unknown |-> None, extended |-> FALSE, when |-> "", when_raw |-> None,
   count |-> 0, count_length |-> 0, count_member |-> "", counter |-> "",
   stride |-> 0, stride_length |-> 0, stride_minimum |-> 0, stride_member |-> "",
   elements |-> NoMembers, fields |-> << >>]

NoFields == << >>

Number(m, n) == [NoField EXCEPT !.kind = "integer", !.member = m, !.length = n]
Str(m)       == [NoField EXCEPT !.kind = "string", !.member = m, !.length = 1]
Bcd(m, n)    == [NoField EXCEPT !.kind = "bcd", !.member = m, !.length = n]
Uuid(m)      == [NoField EXCEPT !.kind = "uuid", !.member = m, !.length = 16]
Binary(m, n) == [NoField EXCEPT !.kind = "binary", !.member = m, !.length = n]
Skip(n)      == [NoField EXCEPT !.kind = "skip", !.length = n]
Bits(m, n)   == [NoField EXCEPT !.kind = "bits", !.member = m, !.bits = n]
Pad(n)       == [NoField EXCEPT !.kind = "pad", !.bits = 8 * n]
Offset(n)    == [NoField EXCEPT !.kind = "offset", !.offset = n]
Preset(m)    == [NoField EXCEPT !.kind = "preset", !.member = m]

(* Runs of fields of one kind.                                             *)
Numbers(n, ms) == [i \in DOMAIN ms |-> Number(ms[i], n)]
Strs(ms)       == [i \in DOMAIN ms |-> Str(ms[i])]

(* Groups the data may end before, with the version they appear in and the *)
(* member telling that the structure holds them, if there are any.         *)
GroupSince(v) == [NoField EXCEPT !.kind = "group", !.since = v]
Group         == GroupSince(NoVersion)
Present(m, g) == [g EXCEPT !.present = m]

(* Elements in place, and elements apart: as many as the number before     *)
(* them says, of the length the number after it says, or as many as fit.   *)
Vector(m, n, fields) ==
  [NoField EXCEPT !.kind = "vector", !.member = m, !.count = n, !.fields = fields]
Array(m, counter, elements, fields) ==
  [NoField EXCEPT !.kind = "array", !.member = m, !.counter = counter,
                  !.elements = elements, !.fields = fields]
Counted(n, m, a)          == [a EXCEPT !.count_length = n, !.count_member = m]
Strided(n, minimum, m, a) == [a EXCEPT !.stride_length = n, !.stride_minimum = minimum,
                                       !.stride_member = m]
ToTheEnd(n, a)            == [a EXCEPT !.stride = n]

(* Field carrying the value of a member when the plain field of member     *)
(* when, which is its own or the one governing it, holds raw.              *)
Extended(m, n, when, raw) ==
  [Number(m, n) EXCEPT !.extended = TRUE, !.when = when, !.when_raw = raw]

(* The value standing for unknown, and the versions of a range of bits.    *)
Unknown(raw, f) == [f EXCEPT !.unknown = raw]
From(v, f)      == [f EXCEPT !.from = v]
Before(v, f)    == [f EXCEPT !.before = v]

-----------------------------------------------------------------------------
(* Attributes, in sets, since nothing depends on the order of theirs.      *)

NoAttribute ==
  [kind |-> "plain", member |-> "", counter |-> "", level |-> NoVersion,
   unspec |-> None, unknown |-> None, names |-> {}, values |-> {},
   unit |-> NoBits, members |-> NoMembers, of |-> {}]

NoAttributes == {}
NoValues     == {}

Attr(m)                   == [NoAttribute EXCEPT !.member = m]
Plain(ms)                 == {Attr(m) : m \in ms}
Value(m, unspec, unknown) == [Attr(m) EXCEPT !.unspec = unspec, !.unknown = unknown]
Enum(m, names, values, unspec, unknown) ==
  [Value(m, unspec, unknown) EXCEPT !.kind = "enum", !.names = names, !.values = values]
Flags(m, names, unit) ==
  [Attr(m) EXCEPT !.kind = "flags", !.names = names, !.unit = unit]
Struct(m, members, attrs) ==
  [Attr(m) EXCEPT !.kind = "struct", !.members = members, !.of = attrs]
Variant(selector, attrs)  == [Attr(selector) EXCEPT !.kind = "variant", !.of = attrs]
Each(counter, a)          == [a EXCEPT !.counter = counter]
Level(v, attrs)           == {[a EXCEPT !.level = v] : a \in attrs}
=============================================================================
