------------------------------ MODULE MCTable ------------------------------
(***************************************************************************)
(* What the layout of a table, the walk of attributes and the checks of    *)
(* lint have to agree on, evaluated over all small tables, structures and  *)
(* values.  Bytes are 0 to 3: the header is two bytes long, 1 is trimmed   *)
(* and 3 is the type of the end of the table.                              *)
(***************************************************************************)
EXTENDS Integers, FiniteSets, FiniteSetsExt, SequencesExt, TLC

CONSTANT null

L == INSTANCE TypeRules WITH
  HeaderLength <- 2, EndOfTable <- 3, Whitespace <- {1}, Null <- null, Widths <- {1, 2},
  Largest <- 10^9, NoHandle <- 65535, OemFrom <- 128, Inactive <- 126,
  NoHandles <- {65534, 65535}, ReservedFrom <- 65280, ObsoleteTypes <- {5},
  ReferencedTypes <- {7}, StringMax <- 2, Printable <- {1, 2}, Placeholders <- {<<3>>},
  NoUuids <- {"zeros", "ones"}, Banks <- 20, ShortMax <- 65535, SizeMax <- 10^9,
  NoProbe <- -32768, Version26 <- 26, Version31 <- 31, Version310 <- 310

DataUpTo(n) == UNION {[1 .. k -> 0 .. 3] : k \in 0 .. n}

(* A structure of which nothing but its place in the table is known, and   *)
(* the table of some structures, as a relaxed scan leaves it.              *)
Unknown ==
  [foreign |-> FALSE, spec |-> null, strings |-> << >>, info |-> null, handle |-> 0, level |-> 0,
   incomplete |-> FALSE, body |-> << >>, type_id |-> 0, offset |-> 0, body_length |-> 2,
   total_length |-> 4]

TableOf(entities) ==
  [data |-> << >>, entities |-> entities, truncated |-> FALSE, version |-> 300, specs |-> << >>,
   groups |-> << >>]

Scanned(data) ==
  LET walk == L!Walk(data)
      Strings(e) == L!StringsOf(data, e.offset + e.body_length, e.string_count)
      Known(e) ==
        [Unknown EXCEPT
           !.offset = e.offset, !.type_id = e.type_id, !.body_length = e.body_length,
           !.total_length = e.total_length,
           !.strings = [n \in 1 .. e.string_count |-> [raw |-> Strings(e)[n], used |-> FALSE]]]
  IN  [TableOf([i \in DOMAIN walk.found |-> Known(walk.found[i])]) EXCEPT
         !.data = data, !.truncated = walk.stop # "EndOfTable"]

-----------------------------------------------------------------------------
(* The layout of a table.                                                  *)

(* The structures of a table follow each other from its beginning without  *)
(* a gap, none is past its end, and only the last is the end of the table  *)
(* (dmi_registry_scan, dmi_entity_create).                                 *)
StructuresTile(t) ==
  LET s == t.entities
  IN  /\ \A i \in DOMAIN s :
           /\ s[i].offset = (IF i = 1 THEN 0 ELSE s[i - 1].offset + s[i - 1].total_length)
           /\ s[i].offset + s[i].total_length <= Len(t.data)
           /\ s[i].type_id = 3 => i = Len(s)

(* The strings of a structure are what is between its body and the zero    *)
(* that ends the set, none of them is empty, and lint tells the offset of  *)
(* each rightly (dmi_entity_decode_length, dmi_entity_decode_strings,      *)
(* dmi_lint_string_offset).                                                *)
StringsAreFound(t) ==
  \A e \in DOMAIN t.entities :
    LET s == t.entities[e]
        At(n) == L!StringOffset(t, e, n)
    IN  /\ \A n \in DOMAIN s.strings :
             /\ s.strings[n].raw # << >> /\ 0 \notin ToSet(s.strings[n].raw)
             /\ L!Slice(t.data, At(n), Len(s.strings[n].raw)) = s.strings[n].raw
             /\ L!ByteAt(t.data, At(n) + Len(s.strings[n].raw)) = 0
        /\ s.strings # << >> => At(Len(s.strings) + 1) + 1 = s.offset + s.total_length

(* A string set ends with the first two zeros in a row, be they the last   *)
(* two bytes there are (dmi_entity_decode_length).                         *)
SetEndsAtZeros(data) ==
  LET set   == L!StringSet(data, 0)
      zeros == {n \in 2 .. Len(data) : data[n - 1] = 0 /\ data[n] = 0}
  IN  /\ set.whole <=> zeros # {}
      /\ set.whole => set.length = Min(zeros)

(* What is wrong with the end of a table is told once: it has no end of    *)
(* the table, and either a header shorter than itself or the end of the    *)
(* data in the way of it, or its end comes too early, and either was taken *)
(* for one by mistake or is followed by data.  Nothing is told of a table  *)
(* whose last structure is the end of the table (lint/table.c).            *)
EndIsToldOnce(t) ==
  LET Told(r) == L!TableFindings(t, r) # {}
      told    == {r \in {"table.truncated", "table.invalid-header", "table.trailing-data"} : Told(r)}
      ends    == {e \in DOMAIN t.entities : t.entities[e].type_id = 3}
      last    == t.entities[Len(t.entities)]
      honest  == L!ByteAt(t.data, last.offset) = 3
      past    == last.offset + last.total_length
      zeros   == \A i \in last.offset + 2 .. Len(t.data) - 1 : L!ByteAt(t.data, i) = 0
  IN  /\ Cardinality(told) <= 1
      /\ Told("table.terminator") <=> ends = {}
      /\ ends = {} => "table.trailing-data" \notin told /\ told # {}
      /\ ends # {} =>
           /\ "table.truncated" \notin told
           /\ told = {} <=> past = Len(t.data) /\ (last.body_length # 2 \/ honest \/ zeros
                                                   \/ L!ByteAt(t.data, last.offset + 1) # 0)

(* A trimmed string is the longest part of it with neither end blank       *)
(* (dmi_entity_string_trim).                                               *)
TrimmedIsCore(text) ==
  LET core  == L!Trimmed(text)
      parts == {SubSeq(text, p[1], p[2]) : p \in (1 .. Len(text)) \X (1 .. Len(text))} \ {<< >>}
      sound == {p \in parts : p[1] # 1 /\ p[Len(p)] # 1}
  IN  /\ core = << >> <=> sound = {}
      /\ core # << >> => core \in sound /\ \A p \in sound : Len(p) <= Len(core)

ASSUME LayoutChecked ==
  /\ \A data \in DataUpTo(6) :
       LET t == Scanned(data) IN StructuresTile(t) /\ StringsAreFound(t) /\ EndIsToldOnce(t)
  /\ \A bytes \in DataUpTo(4) : TrimmedIsCore(bytes) /\ SetEndsAtZeros(bytes)

-----------------------------------------------------------------------------
(* The walk of attributes.                                                 *)

Of(code, member) ==
  [L!NoAttribute EXCEPT !.type = "integer", !.code = code, !.member = member]

MCAttrs ==
  << [Of("chip", "chips") EXCEPT
        !.type = "struct", !.counter = "count",
        !.attrs = << Of("speed", "s"), [Of("name", "n") EXCEPT !.type = "string"] >>],
     [Of("kind", "kind") EXCEPT
        !.type = "variant",
        !.variants = << L!Variant(Of("low", "low"), 1), L!Default(Of("other", "low")),
                        L!Variant([Of("pair", "pair") EXCEPT !.count = 2], -1) >>],
     [Of("maker", "maker") EXCEPT !.type = "struct", !.attrs = << Of("id", "id") >>] >>

MCInfos ==
  [low : {3}, count : {2}, chips : {null, <<[s |-> 7, n |-> "x"], [s |-> 8, n |-> null]>>},
   kind : {1, 2, 255}, pair : {<<5, 6>>}, maker : {[id |-> 9]}]

MCVisitors(info) ==
  LET seen   == ToSet(L!Walked(MCAttrs, info, [stop |-> {}, skip |-> {}]).seen)
      opened == {p \in seen : L!Opens(p)}
      Few    == {{}} \union {{p} : p \in opened}
  IN  [stop : {{}}, skip : {s1 \union s2 : s1, s2 \in Few}]
      \union [stop : {{p} : p \in seen}, skip : {{}}]

ASSUME WalkChecked ==
  \A info \in MCInfos : \A visitor \in MCVisitors(info) :
    L!WalkIsNested(MCAttrs, info, visitor) /\ L!WalkIsPart(MCAttrs, info, visitor)

-----------------------------------------------------------------------------
(* The rules and the order they are checked in.                            *)

OwnCodes(type) == [i \in DOMAIN L!OwnRules[type] |-> L!OwnRules[type][i].code]
AllOwnCodes    == UNION {ToSet(OwnCodes(y)) : y \in DOMAIN L!OwnRules}

(* Every rule is registered once, no code names two rules, whether of the  *)
(* library or of a type, so that a rule that is looked up by its code is   *)
(* the one meant; every rule is checked in both profiles, and what is read *)
(* is never judged harder than what is produced (dmi_lint_rule_list,       *)
(* dmi_lint_rule_find, dmi_lint_rule_severity).                            *)
RulesAgree ==
  /\ ToSet(L!RuleList) = DOMAIN L!Rules
  /\ Len(L!RuleList) = Cardinality(DOMAIN L!Rules)
  /\ AllOwnCodes \intersect DOMAIN L!Rules = {}
  /\ Cardinality(AllOwnCodes) = MapThenSumSet(LAMBDA y : Len(OwnCodes(y)), DOMAIN L!OwnRules)
  /\ \A rule \in {L!Rules[r] : r \in DOMAIN L!Rules}
                 \union UNION {{own.rule : own \in ToSet(L!OwnRules[y])} : y \in DOMAIN L!OwnRules} :
       L!Silent < rule.reader /\ rule.reader <= rule.producer

(* Every enabled rule is checked once of whatever it is about: those of    *)
(* the entry point, those of each structure in the order of the table, its *)
(* own ones last, and then those of the table.  A rule that is optional is *)
(* not checked unless all are, whatever the filter (dmi_lint).             *)
ChecksAreOrdered(t, options) ==
  LET checks == L!Checks(t, options)
      Own(e) == IF t.entities[e].spec = null THEN << >> ELSE t.entities[e].spec.lint_rules
      Enabled(r) ==
        /\ L!Rules[r].optional => options.all
        /\ r \in options.filter
      Stage(c) == IF c.entity # 0 THEN 2 * c.entity + (IF c.rule \in DOMAIN L!Rules THEN 0 ELSE 1)
                  ELSE IF L!Rules[c.rule].scope = "entry" THEN 1 ELSE 100
  IN  /\ IsInjective(checks)
      /\ \A i, j \in DOMAIN checks : i < j => Stage(checks[i]) <= Stage(checks[j])
      /\ ToSet(checks) =
           {[entity |-> 0, rule |-> r] :
              r \in {q \in DOMAIN L!Rules : L!Rules[q].scope # "entity" /\ Enabled(q)}}
           \union {[entity |-> e, rule |-> r] :
                     e \in DOMAIN t.entities,
                     r \in {q \in DOMAIN L!Rules : L!Rules[q].scope = "entity" /\ Enabled(q)}}
           \union UNION {{[entity |-> e, rule |-> own.code] :
                            own \in {o \in ToSet(Own(e)) : o.code \in options.filter}} :
                         e \in DOMAIN t.entities}

SpecOf(type) ==
  [type |-> type, decodes |-> TRUE, has_fields |-> TRUE, minimum_length |-> 2,
   minimum_version |-> 0, attributes |-> << >>,
   lint_rules |-> IF type \in DOMAIN L!OwnRules THEN L!OwnRules[type] ELSE << >>]

As(type, handle, info) ==
  [Unknown EXCEPT !.spec = SpecOf(type), !.handle = handle, !.info = info]

MCOptions ==
  [all : BOOLEAN, profile : {"reader", "producer"},
   filter : {DOMAIN L!Rules \union AllOwnCodes,
             {"link.dangling", "link.orphan", "cache.size", "entry.length", "table.terminator"}}]

(* What a rule reports is about the structure it is checked against, or    *)
(* about none for rules of the entry point and of the table; of an entry   *)
(* point that tells the truth of its table nothing is reported             *)
(* (dmi_lint_check_rule, lint/entry.c).                                    *)
EntryOf(t) ==
  [length |-> 2, min_length |-> 2, bytes |-> <<255, 1>>, intermediate |-> [at |-> 0, length |-> 0],
   address |-> 1, size |-> Len(t.data), max_size |-> Len(t.data), count |-> Len(t.entities),
   entity_max |-> L!LongestEntity(t)]

IssuesAreOfTheirCheck(t) ==
  LET whole == t @@ [entry |-> EntryOf(t)]
  IN  \A r \in DOMAIN L!Rules :
        IF L!Rules[r].scope = "entity"
        THEN \A e \in DOMAIN t.entities : \A i \in L!Findings(whole, e, r) : i.entity = e
        ELSE /\ \A i \in L!Findings(whole, 0, r) : i.entity = 0
             /\ L!Rules[r].scope = "entry" => L!Findings(whole, 0, r) = {}

ASSUME RulesChecked ==
  /\ RulesAgree
  /\ LET t == TableOf(<<As("cache", 1, null), Unknown, As("memory_device", 2, null)>>)
     IN  /\ \A options \in MCOptions : ChecksAreOrdered(t, options)
         /\ IssuesAreOfTheirCheck(t)
  /\ \A data \in {<<0, 2>> \o rest : rest \in DataUpTo(4)} : IssuesAreOfTheirCheck(Scanned(data))

(* A rule of a type reports nothing of a structure that has not been       *)
(* decoded and has no bytes for it to judge (entity/*-rules.c).            *)
ASSUME NothingIsGuessed ==
  \A y \in DOMAIN L!OwnRules : \A r \in ToSet(OwnCodes(y)) :
    L!OwnFindings(TableOf(<<As(y, 1, null)>>), 1, r) = {}

-----------------------------------------------------------------------------
(* Values.                                                                 *)

(* A value of an enumeration is at most one of invalid and reserved, and   *)
(* one that stands for no value is neither (lint/value.c).                 *)
EnumsAreJudgedOnce(attr, value) ==
  LET Told(r) == L!ValueBroken(attr, value, r)
  IN  /\ ~(Told("value.invalid-enum") /\ Told("value.reserved"))
      /\ L!IsSpecial(attr, value) => ~Told("value.invalid-enum") /\ ~Told("value.reserved")

MCEnums ==
  {[Of("e", "e") EXCEPT !.type = "enum", !.names = names, !.unspec = unspec, !.unknown = unknown,
                        !.flags = flags] :
     names \in {null, 0 :> "zero" @@ 1 :> "reserved", 1 :> "one" @@ -1 :> "reserved"},
     unspec \in {null, 0}, unknown \in {null, 1, 255}, flags \in {{}, {"open"}}}

(* A number is a binary-coded decimal exactly if it is that of a decimal   *)
(* (lint/value.c).                                                         *)
Coded(n) == (n % 10) + 16 * ((n \div 10) % 10) + 256 * (n \div 100)
DecimalsAreTold == {n \in 0 .. 4095 : L!IsDecimal(n)} = {Coded(n) : n \in 0 .. 999}

(* Of the two codes with the same bits of an identification one has the    *)
(* parity of JEP 106, and the parity of the bank is never asked for        *)
(* (lint/value.c).                                                         *)
ParityIsTold ==
  \A id \in 0 .. 127 : \A bank \in {0, 20, 21} :
    LET Accepted == {p \in {0, 1} : L!IsJep106(256 * (id + 128 * p) + bank)}
        Flipped  == {p \in {0, 1} : L!IsJep106(256 * (id + 128 * p) + bank + 128)}
    IN  /\ Cardinality(Accepted) = IF bank <= 20 THEN 1 ELSE 0
        /\ Accepted = Flipped

ASSUME ValuesChecked ==
  /\ \A attr \in MCEnums : \A value \in {0, 1, 2, 255} : EnumsAreJudgedOnce(attr, value)
  /\ DecimalsAreTold
  /\ ParityIsTold

-----------------------------------------------------------------------------
(* References between structures.                                          *)

(* A reference that leads nowhere is dangling and nothing else; one that   *)
(* leads somewhere is judged by the first structure with the handle, and   *)
(* no structure another one refers to is an orphan, though it may share    *)
(* its handle with one that comes first (lint/link.c).                     *)
LinksAreJudged(t, e) ==
  LET reference == CHOOSE h \in L!Handles(t, e) : TRUE
      handle    == reference.value
      owners    == {o \in DOMAIN t.entities : t.entities[o].handle = handle}
      told      == {r \in {"link.dangling", "link.wrong-type", "link.self"} :
                      L!LinkFindings(t, e, r) # {}}
  IN  /\ handle = 65535 => told = {}
      /\ handle # 65535 /\ owners = {} => told = {"link.dangling"}
      /\ owners # {} =>
           /\ "link.dangling" \notin told
           /\ "link.self" \in told <=> e \in owners
           /\ "link.wrong-type" \in told <=>
                \A o \in owners : (\A p \in owners : o <= p) => L!Role(t, o) # "target"
           /\ \A o \in owners \ {e} : L!LinkFindings(t, o, "link.orphan") = {}

Referring(handle, role, reference) ==
  [As(role, handle, [ref |-> reference]) EXCEPT
     !.type_id = 7,
     !.spec.attributes = << [Of("ref", "ref") EXCEPT !.type = "handle", !.size = 2,
                                                     !.targets = {"target"}] >>]

MCReferring ==
  {Referring(handle, role, reference) :
     handle \in {1, 2}, role \in {"target", "other"}, reference \in {1, 2, 3, 65535}}

ASSUME LinksChecked ==
  \A s1, s2 \in MCReferring : \A e \in {1, 2} : LinksAreJudged(TableOf(<<s1, s2>>), e)

-----------------------------------------------------------------------------
(* Additional information.                                                 *)

(* An entry that opening would refuse to attach is reported, and no other, *)
(* except that one about additional information itself is refused without  *)
(* being reported (entity.c:580-601, lint/overlay.c).                      *)
OverlaysAgree(t, e) ==
  LET entry   == t.entities[e].info.entries[1]
      target  == L!LookUp(t, entry.handle)
      refused == target # 0 /\ \/ entry.offset < 2
                               \/ entry.offset + entry.length > t.entities[target].body_length
      nested  == target # 0 /\ t.entities[target].type_id = 40
      told    == {r \in {"overlay.dangling", "overlay.out-of-bounds"} :
                    L!OverlayFindings(t, e, r) # {}}
  IN  /\ told = {} <=> target # 0 /\ ~refused
      /\ Cardinality(told) <= 1
      /\ nested /\ ~refused => told = {}

MCOverlays ==
  {TableOf(<<[Unknown EXCEPT !.handle = 1, !.body_length = length],
             [As("additional_info", 2,
                 [entries |-> <<[handle |-> handle, offset |-> offset, length |-> count,
                                 string |-> null]>>]) EXCEPT !.type_id = 40, !.body_length = 9]>>) :
     length \in 2 .. 4, handle \in {1, 2, 3, 65535}, offset \in 0 .. 4, count \in 0 .. 2}

ASSUME OverlaysChecked == \A t \in MCOverlays : OverlaysAgree(t, 2)

-----------------------------------------------------------------------------
(* Rules that specifications bring.                                        *)

(* Two ranges that overlap are reported once, by the structure with the    *)
(* larger handle; two structures that share a handle are not compared,     *)
(* though every pair is said to be (entity/memory-array-addr-rules.c).     *)
OverlapsAreToldOnce(t) ==
  LET range(e) == t.entities[e].info
      Proper(e) == range(e).start_address <= range(e).end_address
      Cells(e)  == range(e).start_address .. range(e).end_address
      told == UNION {{<<e, i.item>> : i \in L!OwnFindings(t, e, "memory-array-address.overlap")} :
                     e \in {1, 2}}
      apart == t.entities[1].handle # t.entities[2].handle
  IN  Cardinality(told) =
        IF Proper(1) /\ Proper(2) /\ apart /\ Cells(1) \intersect Cells(2) # {} THEN 1 ELSE 0

MCRanges ==
  {As("memory_array_addr", handle, [start_address |-> from, end_address |-> to]) :
     handle \in {1, 2}, from \in 0 .. 2, to \in 0 .. 2}

(* The first record of a management controller that does not fit is        *)
(* reported, and none if all of them fit (entity/mgmt-controller-rules.c). *)
RECURSIVE FirstUnfit(_, _, _, _)
FirstUnfit(body, at, n, count) ==
  IF n > count THEN 0
  ELSE IF at + 2 > Len(body) THEN n
  ELSE IF at + 2 + body[at + 2] > Len(body) THEN n
  ELSE FirstUnfit(body, at + 2 + body[at + 2], n + 1, count)

RecordsAreJudged(rest) ==
  LET body  == <<0, 0, 0, 0, 0, 0>> \o rest
      t     == TableOf(<<[As("mgmt_controller", 1, null) EXCEPT !.body = body]>>)
      found == L!OwnFindings(t, 1, "mgmt-controller.records")
      unfit == FirstUnfit(body, 7, 1, body[7])
  IN  {i.item : i \in found} = IF unfit = 0 THEN {} ELSE {unfit}

(* Of the thresholds of a device, the ones of the template are reported as *)
(* such and by no other rule, and others exactly if two neighbours that    *)
(* are known come in the wrong order (mgmt-device-threshold-rules.c).      *)
ThresholdsAreJudged(order) ==
  LET info ==
        [lower_non_recoverable |-> order[1], lower_critical |-> order[2],
         lower_non_critical |-> order[3], upper_non_critical |-> order[4],
         upper_critical |-> order[5], upper_non_recoverable |-> order[6]]
      t    == TableOf(<<As("mgmt_device_threshold", 1, info)>>)
      Told(r) == L!OwnFindings(t, 1, "mgmt-device-threshold." \o r) # {}
      Wrong(i) == order[i] # -32768 /\ order[i + 1] # -32768 /\ order[i] > order[i + 1]
  IN  /\ ~(Told("template") /\ Told("order"))
      /\ ~Told("template") => (Told("order") <=> \E i \in {1, 2, 4, 5} : Wrong(i))

ASSUME OwnRulesChecked ==
  /\ \A s1, s2 \in MCRanges : OverlapsAreToldOnce(TableOf(<<s1, s2>>))
  /\ \A rest \in UNION {[1 .. n -> 0 .. 2] : n \in 1 .. 5} : RecordsAreJudged(rest)
  /\ \A order \in [1 .. 6 -> {-32768, 1, 2}] : ThresholdsAreJudged(order)
  /\ ThresholdsAreJudged(<<5, 3, 1, 2, 4, 6>>)
=============================================================================
