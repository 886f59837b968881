-------------------------------- MODULE Lint --------------------------------
(***************************************************************************)
(* The checks of a table (libopendmi/src/lint.c and lint/*.c): the rules,  *)
(* which of them are checked, in which order and at which severity, and    *)
(* what each of them reports.                                              *)
(*                                                                         *)
(* What is checked is a record: the bytes of the table and its structures, *)
(* what the scan has said of it, the entry point, and the specifications   *)
(* the types are mapped to.  A structure carries what decoding has found:  *)
(* its specification, flags, strings, and the values its attributes        *)
(* describe, one for each value the walk of the attributes reaches.        *)
(* Issues are kept as a set: two that say the same are one here.           *)
(***************************************************************************)
EXTENDS EntityLayout, Attributes, TLC

CONSTANTS
  NoHandles,        \* DMI_HANDLE_INVALID and DMI_HANDLE_UNSUPPORTED
  ReservedFrom,     \* DMI_LINT_RESERVED_HANDLE
  ObsoleteTypes,    \* dmi_lint_obsolete_types
  ReferencedTypes,  \* dmi_lint_referenced_types
  StringMax,        \* DMI_LINT_STRING_MAX
  Printable,        \* isprint
  Placeholders,     \* dmi_string_is_placeholder
  NoUuids,          \* of zeros only, of ones only
  Banks             \* DMI_LINT_JEP106_BANKS

-----------------------------------------------------------------------------
(* Rules: what they are checked against, the severity of their issues for  *)
(* data that is read and for data that is produced, and whether they are   *)
(* left out unless all checks are asked for.                               *)

Silent  == 0
Note    == 1
Warning == 2
Error   == 3

Rule(scope, reader, producer) ==
  [scope |-> scope, reader |-> reader, producer |-> producer, optional |-> FALSE]
Optional(rule) == [rule EXCEPT !.optional = TRUE]

EntryRules ==
  [r \in {"entry.checksum", "entry.length", "entry.table-address", "entry.table-size",
          "entry.entity-count", "entry.entity-max-size"} |-> Rule("entry", Warning, Error)]
TableRules ==
  [r \in {"table.truncated", "table.invalid-header"} |-> Rule("table", Error, Error)]
  @@ [r \in {"table.terminator", "table.missing-required", "table.duplicate-singleton"} |->
        Rule("table", Warning, Error)]
  @@ ("table.trailing-data" :> Rule("table", Note, Error))
  @@ ("table.missing-recommended" :> Optional(Rule("table", Note, Warning)))
  @@ ("table.reserved-handle" :> Rule("entity", Warning, Error))
EntityRules ==
  ("entity.below-minimum" :> Rule("entity", Error, Error))
  @@ [r \in {"entity.unknown-length", "entity.undecoded", "entity.newer-type"} |->
        Rule("entity", Warning, Error)]
  @@ ("entity.newer-fields" :> Rule("entity", Note, Error))
  @@ [r \in {"entity.unknown-type", "entity.obsolete"} |->
        Optional(Rule("entity", Note, Warning))]
StringRules ==
  [r \in {"string.too-long", "string.non-printable"} |-> Rule("entity", Warning, Error)]
  @@ ("string.blank" :> Rule("entity", Note, Warning))
  @@ [r \in {"string.padded", "string.unreferenced"} |->
        Optional(Rule("entity", Note, Warning))]
ValueRules ==
  [r \in {"value.invalid-enum", "value.bcd", "value.range", "value.jep106"} |->
     Rule("entity", Warning, Error)]
  @@ [r \in {"value.reserved", "value.reserved-bits"} |-> Rule("entity", Note, Error)]
  @@ ("value.uuid" :> Optional(Rule("entity", Note, Warning)))
LinkRules ==
  [r \in {"link.dangling", "link.wrong-type", "link.self"} |-> Rule("entity", Warning, Error)]
  @@ ("link.orphan" :> Optional(Rule("entity", Note, Note)))
OverlayRules ==
  [r \in {"overlay.dangling", "overlay.out-of-bounds"} |-> Rule("entity", Warning, Error)]
  @@ ("overlay.empty" :> Optional(Rule("entity", Note, Warning)))
QualityRules == "quality.placeholder" :> Optional(Rule("entity", Note, Warning))

Rules ==
  EntryRules @@ TableRules @@ EntityRules @@ StringRules @@ ValueRules @@ LinkRules
  @@ OverlayRules @@ QualityRules

(* dmi_lint_rule_list                                                      *)
RuleList ==
  <<"entry.checksum", "entry.length", "entry.table-address", "entry.table-size",
    "entry.entity-count", "entry.entity-max-size", "table.truncated",
    "table.invalid-header", "table.terminator", "table.trailing-data",
    "table.missing-required", "table.missing-recommended", "table.duplicate-singleton",
    "table.reserved-handle", "entity.below-minimum", "entity.unknown-length",
    "entity.undecoded", "entity.newer-fields", "entity.newer-type", "entity.unknown-type",
    "entity.obsolete", "string.too-long", "string.non-printable", "string.blank",
    "string.padded", "string.unreferenced", "value.invalid-enum", "value.reserved",
    "value.reserved-bits", "value.bcd", "value.range", "value.jep106", "value.uuid",
    "link.dangling", "link.wrong-type", "link.self", "link.orphan", "overlay.dangling",
    "overlay.out-of-bounds", "overlay.empty", "quality.placeholder">>

(* dmi_lint_rule_severity, dmi_lint_enabled: the caller's filter has the   *)
(* last word, and is not asked of the rules left out anyway.               *)
Severity(rule, profile) == IF profile = "producer" THEN rule.producer ELSE rule.reader

Enabled(code, rule, options) ==
  /\ rule.optional => options.all
  /\ Severity(rule, options.profile) # Silent
  /\ code \in options.filter

-----------------------------------------------------------------------------
(* An issue: the structure it is about (0 is none of them), the attribute, *)
(* the string, element, entry or type, and the offset in the table.        *)

Issue(e, attribute, item, offset) ==
  [entity |-> e, attribute |-> attribute, item |-> item, offset |-> offset]
OfTable(offset)    == Issue(0, Null, Null, offset)
OfTypeId(type)     == Issue(0, Null, type, Null)
OfEntry(attribute) == Issue(0, attribute, Null, 0)

When(condition, issue) == IF condition THEN {issue} ELSE {}

(* dmi_lint_collect                                                        *)
Ends(t)       == {e \in DOMAIN t.entities : t.entities[e].type_id = EndOfTable}
Terminator(t) == IF Ends(t) = {} THEN 0 ELSE Min(Ends(t))
TypeCount(t, type) ==
  Cardinality({e \in DOMAIN t.entities : t.entities[e].type_id = type})
LongestEntity(t) ==
  Max({0} \union {t.entities[e].total_length : e \in DOMAIN t.entities})

(* dmi_lint_entity_offset: a structure read from anywhere else than the    *)
(* table has none.  dmi_lint_string_offset counts from its body.           *)
EntityOffset(t, e) == IF t.entities[e].foreign THEN Null ELSE t.entities[e].offset

StringOffset(t, e, n) ==
  LET s     == t.entities[e]
      taken == [i \in 1 .. n - 1 |-> Len(s.strings[i].raw) + 1]
  IN  IF s.foreign THEN Null
      ELSE s.offset + s.body_length + FoldSeq(LAMBDA x, y : x + y, 0, taken)

OfEntity(t, e)          == Issue(e, Null, Null, EntityOffset(t, e))
OfAttribute(t, e, a, i) == Issue(e, a, i, EntityOffset(t, e))
OfString(t, e, n)       == Issue(e, Null, n, StringOffset(t, e, n))

(* dmi_entity_spec_type: the type a specification gives a structure.       *)
Role(t, e) == IF t.entities[e].spec = Null THEN Null ELSE t.entities[e].spec.type

-----------------------------------------------------------------------------
(* Rules of the entry point (lint/entry.c).                                *)

SumsToZero(bytes) == FoldSeq(LAMBDA x, y : x + y, 0, bytes) % 256 = 0

Checksum(t) ==
  LET p == t.entry
      checked == IF p.length < Len(p.bytes) THEN p.length ELSE Len(p.bytes)
  IN  When(checked > 0 /\ ~SumsToZero(Slice(p.bytes, 0, checked)), OfTable(0))
      \union When(/\ p.intermediate.at > 0
                  /\ Len(p.bytes) >= p.intermediate.at + p.intermediate.length
                  /\ ~SumsToZero(Slice(p.bytes, p.intermediate.at, p.intermediate.length)),
                  OfTable(p.intermediate.at))

EntryFindings(t, r) ==
  LET p    == t.entry
      size == Len(t.data)
  IN  CASE r = "entry.checksum"      -> Checksum(t)
        [] r = "entry.length"        ->
             When(p.length < p.min_length \/ p.length > Len(p.bytes), OfEntry("length"))
        [] r = "entry.table-address" -> When(p.address = 0, OfEntry("table-area-address"))
        [] r = "entry.table-size"    ->
             IF p.size > 0 /\ p.size # size THEN {OfEntry("table-area-size")}
             ELSE When(p.max_size > 0 /\ size > p.max_size, OfEntry("table-area-max-size"))
        [] r = "entry.entity-count"  ->
             When(p.count > 0 /\ p.count # Len(t.entities), OfEntry("entity-count"))
        [] r = "entry.entity-max-size" ->
             When(p.entity_max > 0 /\ LongestEntity(t) > p.entity_max,
                  OfEntry("entity-max-size"))

-----------------------------------------------------------------------------
(* Rules of the table (lint/table.c).                                      *)

(* dmi_lint_table_find_stop: a header of no length is taken for a broken   *)
(* one only if it is of another type and the bytes past it are not all     *)
(* zero; one shorter than itself is past the last structure.               *)
WalkEnd(t) ==
  Max({0} \union {t.entities[e].offset + t.entities[e].total_length :
                    e \in {n \in DOMAIN t.entities : ~t.entities[n].foreign}})

FoundStop(t) ==
  LET end     == Terminator(t)
      offset  == IF end = 0 THEN WalkEnd(t) ELSE t.entities[end].offset
      past    == offset + HeaderLength .. Len(t.data) - 1
      Stop(k) == [kind |-> k, offset |-> offset]
  IN  IF end # 0
      THEN IF /\ ~t.entities[end].foreign
              /\ ByteAt(t.data, offset + 1) = 0
              /\ ByteAt(t.data, offset) # EndOfTable
              /\ \E i \in past : ByteAt(t.data, i) # 0
           THEN Stop("zero")
           ELSE Stop("none")
      ELSE IF /\ Len(t.data) - offset >= HeaderLength
              /\ ByteAt(t.data, offset + 1) \in 1 .. HeaderLength - 1
           THEN Stop("short")
           ELSE Stop("none")

TrailingData(t) ==
  LET end  == Terminator(t)
      past == t.entities[end].offset + t.entities[end].total_length
  IN  IF end = 0 THEN {}
      ELSE When(~t.entities[end].foreign /\ FoundStop(t).kind # "zero" /\ Len(t.data) > past,
                OfTable(past))

(* A type is asked for from the version that introduced the requirement up *)
(* to the one that withdrew it, if any.                                    *)
IsAsked(t, from, till) == from # 0 /\ t.version >= from /\ (till = 0 \/ t.version <= till)

Required(t)    == {n \in DOMAIN t.specs : IsAsked(t, t.specs[n].required_from,
                                                  t.specs[n].required_till)}
Recommended(t) == {n \in DOMAIN t.specs : IsAsked(t, t.specs[n].recommended_from, 0)}

TableFindings(t, r) ==
  CASE r = "table.truncated" ->
         When(FoundStop(t).kind # "short" /\ t.truncated, OfTable(Null))
    [] r = "table.invalid-header" ->
         When(FoundStop(t).kind # "none", OfTable(FoundStop(t).offset))
    [] r = "table.terminator"    -> When(Terminator(t) = 0, OfTable(Null))
    [] r = "table.trailing-data" -> TrailingData(t)
    [] r = "table.missing-required" ->
         {OfTypeId(n) : n \in {m \in Required(t) : TypeCount(t, m) = 0}}
    [] r = "table.missing-recommended" ->
         {OfTypeId(n) : n \in {m \in Recommended(t) : TypeCount(t, m) = 0}}
    [] r = "table.duplicate-singleton" ->
         {OfTypeId(n) : n \in {m \in DOMAIN t.specs : t.specs[m].unique
                                                           /\ TypeCount(t, m) > 1}}

-----------------------------------------------------------------------------
(* Rules of any structure (lint/entity.c, and the reserved handles of      *)
(* lint/table.c, which the end of the table may have).                     *)

Newer(t, version) == version # 0 /\ version > t.version

IsDecodable(spec) == spec # Null /\ (spec.decodes \/ spec.has_fields)

EntityFindings(t, e, r) ==
  LET s    == t.entities[e]
      spec == s.spec
      broken ==
        CASE r = "table.reserved-handle" -> Role(t, e) # "end_of_table" /\ s.handle >= ReservedFrom
          [] r = "entity.below-minimum"  -> spec # Null /\ s.body_length < spec.minimum_length
          [] r = "entity.unknown-length" -> s.incomplete
          [] r = "entity.undecoded"      -> IsDecodable(spec) /\ s.info = Null
          [] r = "entity.newer-fields"   -> Newer(t, s.level)
          [] r = "entity.newer-type"     -> spec # Null /\ Newer(t, spec.minimum_version)
          [] r = "entity.unknown-type"   -> spec = Null
          [] r = "entity.obsolete"       -> s.type_id \in ObsoleteTypes
  IN  When(broken, OfEntity(t, e))

-----------------------------------------------------------------------------
(* Rules of the strings (lint/string.c, lint/quality.c).  A string has its *)
(* raw text and the one left when it is trimmed.                           *)

IsPrintable(char) == char \in Printable \/ char >= 128

StringFindings(t, e, r) ==
  LET s == t.entities[e]
      Broken(n) ==
        LET raw    == s.strings[n].raw
            pretty == Trimmed(raw)
        IN  CASE r = "string.too-long"      -> Len(raw) > StringMax
              [] r = "string.non-printable" -> \E i \in DOMAIN raw : ~IsPrintable(raw[i])
              [] r = "string.blank"         -> raw # << >> /\ pretty = << >>
              [] r = "string.padded"        -> pretty # << >> /\ pretty # raw
              [] r = "string.unreferenced"  ->
                   s.info # Null /\ s.spec # Null /\ ~s.strings[n].used
              [] r = "quality.placeholder"  -> pretty # << >> /\ pretty \in Placeholders
  IN  {OfString(t, e, n) : n \in {m \in DOMAIN s.strings : Broken(m)}}

-----------------------------------------------------------------------------
(* Rules of the values (lint/value.c), for each value the walk reaches.    *)
(* Names of an enumeration or of the bits of a set are a function of the   *)
(* numbers that have one.                                                  *)

Values(t, e) ==
  LET s == t.entities[e]
  IN  IF s.spec = Null THEN << >> ELSE ValuesOf(s.spec.attributes, s.info)

Bit(number, n)   == (number \div 2^n) % 2
Digit(number, n) == (number \div 16^n) % 16
Bits             == 0 .. 8 * Max(Widths) - 1
Nibbles          == 0 .. 2 * Max(Widths) - 1

IsNamedSet(attr, type) == attr.type = type /\ attr.names # Null

(* Bits above those that have a name are the vendor's, so only the gaps    *)
(* below the last of them are reserved.                                    *)
ReservedBits(attr, value) ==
  LET named == DOMAIN attr.names \intersect Bits
      number == GetUint(attr, value)
  IN  IF named = {} THEN {}
      ELSE {b \in 0 .. Max(named) : Bit(number, b) = 1 /\ b \notin named}

IsDecimal(number) == \A n \in Nibbles : Digit(number, n) <= 9

(* Limits are read the way the value is.                                   *)
OutOfRange(attr, value) ==
  LET Get(v) == IF "signed" \in attr.flags THEN GetInt(attr, v) ELSE GetUint(attr, v)
  IN  \/ attr.minimum # Null /\ Get(value) < Get(attr.minimum)
      \/ attr.maximum # Null /\ Get(value) > Get(attr.maximum)

(* The low byte counts the continuation codes, but for a bit of parity,    *)
(* and the next byte has an odd number of bits set.                        *)
IsJep106(code) ==
  /\ code % 128 <= Banks
  /\ Cardinality({n \in 8 .. 15 : Bit(code, n) = 1}) % 2 = 1

ValueBroken(attr, value, r) ==
  LET number == GetUint(attr, value)
      id     == GetInt(attr, value)
  IN  CASE r = "value.invalid-enum" ->
             /\ IsNamedSet(attr, "enum") /\ "open" \notin attr.flags
             /\ ~IsSpecial(attr, value) /\ id \notin DOMAIN attr.names
        [] r = "value.reserved" ->
             /\ IsNamedSet(attr, "enum") /\ ~IsSpecial(attr, value)
             /\ id \in DOMAIN attr.names /\ attr.names[id] = "reserved"
        [] r = "value.reserved-bits" ->
             IsNamedSet(attr, "set") /\ ReservedBits(attr, value) # {}
        [] r = "value.bcd" ->
             "bcd" \in attr.flags /\ ~IsSpecial(attr, value) /\ ~IsDecimal(number)
        [] r = "value.range" ->
             /\ attr.minimum # Null \/ attr.maximum # Null
             /\ ~IsSpecial(attr, value) /\ OutOfRange(attr, value)
        [] r = "value.jep106" ->
             /\ "jep106" \in attr.flags /\ ~IsSpecial(attr, value)
             /\ number # 0 /\ ~IsJep106(number)
        [] r = "value.uuid" -> attr.type = "uuid" /\ value \in NoUuids

ValueFindings(t, e, r) ==
  LET values == Values(t, e)
  IN  {OfAttribute(t, e, values[i].attr.code, values[i].index) :
         i \in {j \in DOMAIN values : ValueBroken(values[j].attr, values[j].value, r)}}

-----------------------------------------------------------------------------
(* Rules of the references (lint/link.c): the handles among the values,    *)
(* which refer to the first structure that has the handle.                 *)

WithHandle(t, handle) == {e \in DOMAIN t.entities : t.entities[e].handle = handle}
LookUp(t, handle) ==
  IF handle \in NoHandles \/ WithHandle(t, handle) = {} THEN 0 ELSE Min(WithHandle(t, handle))

Handles(t, e) ==
  LET values == Values(t, e)
  IN  {values[i] : i \in {j \in DOMAIN values : values[j].attr.type = "handle"}}

LinkBroken(t, e, reference, r) ==
  LET handle == reference.value
      target == LookUp(t, handle)
  IN  /\ handle \notin NoHandles
      /\ CASE r = "link.dangling"   -> target = 0
           [] r = "link.wrong-type" ->
                /\ target # 0 /\ reference.attr.targets # Null
                /\ Role(t, target) \notin reference.attr.targets
           [] r = "link.self"       -> handle = t.entities[e].handle

RefersTo(t, e, handle) == \E reference \in Handles(t, e) : reference.value = handle

IsOrphan(t, e) ==
  /\ t.entities[e].type_id \in ReferencedTypes
  /\ t.entities[e].spec # Null
  /\ \A other \in DOMAIN t.entities \ {e} : ~RefersTo(t, other, t.entities[e].handle)

LinkFindings(t, e, r) ==
  IF r = "link.orphan" THEN When(IsOrphan(t, e), OfEntity(t, e))
  ELSE {OfAttribute(t, e, reference.attr.code, Null) :
          reference \in {h \in Handles(t, e) : LinkBroken(t, e, h, r)}}

-----------------------------------------------------------------------------
(* Rules of additional information (lint/overlay.c).                       *)

Overlays(t, e) ==
  LET s == t.entities[e]
  IN  IF Role(t, e) = "additional_info" /\ s.info # Null THEN s.info.entries ELSE << >>

(* An entry must not reach the header of the structure nor past its end.   *)
OutOfBounds(t, entry) ==
  LET target == LookUp(t, entry.handle)
  IN  /\ target # 0
      /\ \/ entry.offset < HeaderLength
         \/ entry.offset + entry.length > t.entities[target].body_length

OverlayFindings(t, e, r) ==
  LET entries == Overlays(t, e)
      Broken(n) ==
        CASE r = "overlay.dangling"      -> LookUp(t, entries[n].handle) = 0
          [] r = "overlay.out-of-bounds" -> OutOfBounds(t, entries[n])
          [] r = "overlay.empty"         -> entries[n].length = 0 /\ entries[n].string = Null
      name ==
        CASE r = "overlay.dangling"      -> "referenced-handle"
          [] r = "overlay.out-of-bounds" -> "referenced-offset"
          [] r = "overlay.empty"         -> Null
  IN  {OfAttribute(t, e, name, n) : n \in {m \in DOMAIN entries : Broken(m)}}

-----------------------------------------------------------------------------
(* dmi_lint: what is checked of what, in this order.  Structure 0 stands   *)
(* for the entry point and the table.  Rules that the specification of a   *)
(* type provides follow the ones of any structure.                         *)

Findings(t, e, r) ==
  CASE r \in DOMAIN EntryRules  -> EntryFindings(t, r)
    [] r \in DOMAIN EntityRules \union {"table.reserved-handle"} -> EntityFindings(t, e, r)
    [] r \in DOMAIN TableRules \ {"table.reserved-handle"} -> TableFindings(t, r)
    [] r \in DOMAIN StringRules \union DOMAIN QualityRules -> StringFindings(t, e, r)
    [] r \in DOMAIN ValueRules   -> ValueFindings(t, e, r)
    [] r \in DOMAIN LinkRules    -> LinkFindings(t, e, r)
    [] r \in DOMAIN OverlayRules -> OverlayFindings(t, e, r)

OfScope(scope, options) ==
  SelectSeq(RuleList, LAMBDA r : Rules[r].scope = scope /\ Enabled(r, Rules[r], options))

OfType(t, e, options) ==
  LET spec == t.entities[e].spec
      own  == SelectSeq(spec.lint_rules, LAMBDA own : Enabled(own.code, own.rule, options))
  IN  IF spec = Null THEN << >> ELSE [i \in DOMAIN own |-> own[i].code]

Against(e, codes) == [i \in DOMAIN codes |-> [entity |-> e, rule |-> codes[i]]]

Checks(t, options) ==
  Against(0, OfScope("entry", options))
  \o FlattenSeq([e \in DOMAIN t.entities |->
       Against(e, OfScope("entity", options) \o OfType(t, e, options))])
  \o Against(0, OfScope("table", options))
=============================================================================
