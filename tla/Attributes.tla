----------------------------- MODULE Attributes -----------------------------
(***************************************************************************)
(* How the values of a decoded structure are reached and read by its       *)
(* attributes (libopendmi/src/attribute.c, attribute-walk.c), and which    *)
(* structures a filter lets through (libopendmi/src/filter.c).             *)
(*                                                                         *)
(* What has been decoded is a record of its members.  A number is kept as  *)
(* the bytes hold it, without a sign; an array is the sequence of its      *)
(* elements, or Null if none was allocated; a nested structure is a record *)
(* of its own.                                                             *)
(***************************************************************************)
EXTENDS Integers, FiniteSets, FiniteSetsExt, SequencesExt

CONSTANTS
  Null,       \* nullptr
  Widths,     \* the widths of numbers in bytes
  Largest,    \* INTMAX_MAX, UINTMAX_MAX
  NoHandle,   \* DMI_HANDLE_INVALID
  OemFrom,    \* __DMI_TYPE_ID_OEM_START
  Inactive    \* DMI_TYPE_ID_INACTIVE

Plain == "plain"    \* SIZE_MAX as the index of a value that is no element

-----------------------------------------------------------------------------
(* Attributes: which member they are about, of how many bytes, and how     *)
(* many elements it has (a vector has a fixed number, an array a counter). *)

NoAttribute ==
  [type |-> "none", code |-> "", member |-> "", size |-> 1, counter |-> "", counter_size |-> 1,
   count |-> 0, attrs |-> << >>, variants |-> << >>, flags |-> {}, names |-> Null,
   unspec |-> Null, unknown |-> Null, minimum |-> Null, maximum |-> Null, targets |-> Null]

Variant(attribute, selector) ==
  [attribute |-> attribute, selector |-> selector, is_default |-> FALSE]
Default(attribute) == [attribute |-> attribute, selector |-> 0, is_default |-> TRUE]

Signed(value, size) ==
  IF value >= 2^(8 * size - 1) THEN value - 2^(8 * size) ELSE value

(* dmi_attribute_read_int, read_uint: selectors and counters of any other  *)
(* width are none.  dmi_attribute_get_int, get_uint: values of any other   *)
(* width are the largest there is.                                         *)
ReadInt(value, size)  == IF size \in Widths THEN Signed(value, size) ELSE 0
ReadUint(value, size) == IF size \in Widths THEN value ELSE 0
GetInt(attr, value)   == IF attr.size \in Widths THEN Signed(value, attr.size) ELSE Largest
GetUint(attr, value)  == IF attr.size \in Widths THEN value ELSE Largest

(* dmi_attribute_resolve: the first variant of the selector, or else the   *)
(* last default.                                                           *)
Resolve(attr, info) ==
  LET selector == ReadInt(info[attr.member], attr.size)
      variants == attr.variants
      Meant    == {i \in DOMAIN variants : ~variants[i].is_default
                                           /\ variants[i].selector = selector}
      Fallback == {i \in DOMAIN variants : variants[i].is_default}
  IN  IF attr.type # "variant" THEN attr
      ELSE IF Meant # {} THEN variants[Min(Meant)].attribute
      ELSE IF Fallback # {} THEN variants[Max(Fallback)].attribute
      ELSE NoAttribute

IsArray(attr) == attr.counter # "" \/ attr.count # 0

CountOf(attr, info) ==
  IF attr.count # 0 THEN attr.count ELSE ReadUint(info[attr.counter], attr.counter_size)

(* dmi_attribute_is_unspecified, is_unknown                                *)
IsUnspecified(attr, value) ==
  IF attr.unspec # Null THEN value = attr.unspec
  ELSE \/ attr.type = "string" /\ value = Null
       \/ attr.type = "handle" /\ value = NoHandle
       \/ attr.type = "binary" /\ value = << >>

IsUnknown(attr, value) == attr.unknown # Null /\ value = attr.unknown

IsSpecial(attr, value) == IsUnknown(attr, value) \/ IsUnspecified(attr, value)

-----------------------------------------------------------------------------
(* The walk.  A visitor goes on from a place, skips what is within it or   *)
(* stops the walk; a place is what is entered, left or reached there.  The *)
(* walk is the places seen, the values reached, and whether it goes on.    *)

Place(kind, attr, index) == [kind |-> kind, code |-> attr.code, index |-> index]

Started == [seen |-> << >>, values |-> << >>, on |-> TRUE]

Visit(w, visitor, place) ==
  IF w.on THEN [w EXCEPT !.seen = Append(@, place), !.on = place \notin visitor.stop] ELSE w

Reach(w, visitor, attr, value, index) ==
  LET place == Place("value", attr, index)
  IN  IF w.on
      THEN [Visit(w, visitor, place) EXCEPT
              !.values = Append(@, [attr |-> attr, value |-> value, index |-> index])]
      ELSE w

(* What is within a place is walked unless the place was skipped or has    *)
(* stopped the walk, and the place is left if the walk still goes on.      *)
Within(start, end, visitor, entered, inside) ==
  IF ~entered.on \/ start \in visitor.skip THEN entered ELSE Visit(inside, visitor, end)

RECURSIVE WalkMembers(_, _, _, _)

WalkValue(w, attr, value, index, visitor) ==
  LET start   == Place("struct_start", attr, index)
      entered == Visit(w, visitor, start)
  IN  IF attr.type # "struct" THEN Reach(w, visitor, attr, value, index)
      ELSE Within(start, Place("struct_end", attr, index), visitor, entered,
                  WalkMembers(entered, attr.attrs, value, visitor))

WalkItem(w, attr, value, index, visitor) ==
  LET start   == Place("item_start", attr, index)
      entered == Visit(w, visitor, start)
  IN  Within(start, Place("item_end", attr, index), visitor, entered,
             WalkValue(entered, attr, value, index, visitor))

WalkArray(w, attr, info, visitor) ==
  LET start    == Place("array_start", attr, Plain)
      entered  == Visit(w, visitor, start)
      elements == info[attr.member]
      count    == IF elements = Null THEN 0 ELSE CountOf(attr, info)
      items[i \in 0 .. count] ==
        IF i = 0 THEN entered
        ELSE WalkItem(items[i - 1], attr, elements[i], i - 1, visitor)
  IN  Within(start, Place("array_end", attr, Plain), visitor, entered, items[count])

WalkMember(w, attr, info, visitor) ==
  LET resolved == Resolve(attr, info)
      start    == Place("member_start", attr, Plain)
      entered  == Visit(w, visitor, start)
      inside   == IF IsArray(resolved) THEN WalkArray(entered, resolved, info, visitor)
                  ELSE WalkValue(entered, resolved, info[resolved.member], Plain, visitor)
  IN  IF resolved = NoAttribute THEN w
      ELSE Within(start, Place("member_end", attr, Plain), visitor, entered, inside)

WalkMembers(w, attrs, info, visitor) ==
  LET walk[i \in 0 .. Len(attrs)] ==
        IF i = 0 THEN w
        ELSE IF walk[i - 1].on THEN WalkMember(walk[i - 1], attrs[i], info, visitor)
        ELSE walk[i - 1]
  IN  IF info = Null THEN w ELSE walk[Len(attrs)]

(* dmi_attributes_walk, with a visitor and with one that only takes the    *)
(* values.                                                                 *)
Walked(attrs, info, visitor) == WalkMembers(Started, attrs, info, visitor)
ValuesOf(attrs, info) == Walked(attrs, info, [stop |-> {}, skip |-> {}]).values

-----------------------------------------------------------------------------
(* Filters.  The mask names the kinds of structures that are let through   *)
(* at all, and of those the ones the filter names by their handle, their   *)
(* type or the module of their specification, if it names any.             *)

NewFilter ==
  [mask |-> {"common", "oem", "inactive", "unknown"}, handles |-> {}, types |-> {},
   modules |-> {}]

IsEmpty(filter) == filter.handles = {} /\ filter.types = {} /\ filter.modules = {}

InMask(mask, entity) ==
  /\ (IF entity.type_id < OemFrom THEN "common" ELSE "oem") \in mask
  /\ entity.type_id = Inactive => "inactive" \in mask
  /\ entity.spec = Null => "unknown" \in mask

IsNamed(filter, entity) ==
  \/ entity.handle \in filter.handles
  \/ entity.type_id \in filter.types
  \/ entity.spec # Null /\ \E module \in filter.modules : entity.spec \in module

IsMatched(filter, entity) ==
  InMask(filter.mask, entity) /\ (IsEmpty(filter) \/ IsNamed(filter, entity))

-----------------------------------------------------------------------------
(* What is promised of the walk (attribute.h, attribute-walk.c).           *)

(* A place that is entered is left exactly if the walk was not stopped in  *)
(* it and it was not skipped, so what a visitor opens for a place it can   *)
(* close for it, whatever it skips; the places are nested.                 *)
Kinds == {"member", "array", "item", "struct"}
Opens(place)  == \E k \in Kinds : place.kind = k \o "_start"
Closes(place) == \E k \in Kinds : place.kind = k \o "_end"
Closed(place) == [place EXCEPT !.kind = (CHOOSE k \in Kinds : place.kind = k \o "_start") \o "_end"]

OpenAfter(seen, visitor) ==
  LET open[i \in 0 .. Len(seen)] ==
        LET before == open[i - 1]
        IN  IF i = 0 THEN << >>
            ELSE IF Opens(seen[i])
                 THEN IF seen[i] \in visitor.skip THEN before ELSE Append(before, Closed(seen[i]))
            ELSE IF Closes(seen[i]) /\ before # << >> /\ before[Len(before)] = seen[i]
                 THEN Front(before)
            ELSE before
  IN  open[Len(seen)]

WalkIsNested(attrs, info, visitor) ==
  LET w == Walked(attrs, info, visitor)
      closing == {i \in DOMAIN w.seen : Closes(w.seen[i])}
      opening == {i \in DOMAIN w.seen : Opens(w.seen[i]) /\ w.seen[i] \notin visitor.skip}
  IN  /\ w.on => OpenAfter(w.seen, visitor) = << >>
                 /\ Cardinality(opening) = Cardinality(closing)
      /\ ~w.on => w.seen # << >> /\ w.seen[Len(w.seen)] \in visitor.stop
      /\ \A i \in 1 .. Len(w.seen) - 1 : w.seen[i] \notin visitor.stop

(* A visitor that skips something sees the rest of the structure just as   *)
(* one that skips nothing, and one that stops sees what comes before it.   *)
WalkIsPart(attrs, info, visitor) ==
  LET whole == Walked(attrs, info, [stop |-> {}, skip |-> {}])
      part  == Walked(attrs, info, visitor)
  IN  /\ visitor.skip = {} => IsPrefix(part.seen, whole.seen)
      /\ ToSet(part.seen) \subseteq ToSet(whole.seen)
=============================================================================
