----------------------------- MODULE Structures -----------------------------
(* What opening a context does with the structures the registry has found    *)
(* (libopendmi/src/context.c, registry.c, entity.c, link.c): the entries of  *)
(* additional information are attached to their targets, the vendor and the  *)
(* platform are told from the structures that name them, and then all of the *)
(* structures are decoded and linked.  Memory may run out at any allocation. *)
(*                                                                           *)
(* A structure is its position in the table and holds one value; an entry of *)
(* additional information gives another structure another value.  Handles    *)
(* are positions: what a handle resolves to is the subject of Registry.      *)
EXTENDS Naturals, Sequences

CONSTANTS
  Shapes,      \* records of a role, long, value, entries and refs
  Roles,       \* what structures are for
  Values,      \* what the body of a structure reads
  Malformed,   \* the values no handler decodes
  Known,       \* the values that name a processor vendor
  MaxLength    \* bound on the structures of a table

ASSUME RolesAssumption  == {"firmware", "system", "baseboard", "processor", "info",
                            "property", "opaque"} \subseteq Roles
ASSUME ValuesAssumption == Malformed \subseteq Values /\ Known \subseteq Values \ Malformed
ASSUME BoundsAssumption == MaxLength \in Nat

Entries == [to : Nat, fits : BOOLEAN, value : Values]

(* A string property has one reference, to the structure it is of.           *)
ASSUME ShapesAssumption ==
  /\ Shapes \subseteq [role : Roles, long : BOOLEAN, value : Values,
                       entries : Seq(Entries), refs : Seq(Nat)]
  /\ \A s \in Shapes : s.role = "property" => Len(s.refs) = 1

VARIABLES
  table,       \* the structures
  strict,      \* DMI_CONTEXT_FLAG_STRICT
  overlaying,  \* DMI_CONTEXT_FLAG_OVERLAY
  linking,     \* DMI_CONTEXT_FLAG_LINK
  stage,       \* what dmi_open_read_structures is at
  cursor,      \* position of the iterator
  entry,       \* entry to attach, 0 unless the entries at cursor are read
  clean,       \* the success flag of the stage
  decoded,     \* structures with DMI_ENTITY_STATE_DECODED
  info,        \* the value each was decoded from
  overlays,    \* entries attached to each structure, as <<source, index>>
  copy,        \* the overlaid copy of the body: its entries, <<>> if not made
  linked,      \* structures with DMI_ENTITY_STATE_LINKED
  targets,     \* what the references of each have been resolved to
  properties,  \* string properties attached to each
  status,      \* registry->status
  raised,      \* faults in the error queue: <<kind, structure, index>>
  starving     \* whether the last error is of memory that has run out

flags    == <<table, strict, overlaying, linking>>
entities == <<decoded, info, overlays, copy, linked, targets, properties>>
errors   == <<raised, starving>>
vars     == <<flags, stage, cursor, entry, clean, entities, status, errors>>

Stages == {"overlay", "vendor", "system", "baseboard", "processors", "modules",
           "decode", "link", "open", "failed"}
Nowhere  == 0
Nothing  == "nothing"

Positions   == 1..Len(table)
Role(e)     == table[e].role
IsOf(role)  == {e \in Positions : Role(e) = role}
First(role) == CHOOSE e \in IsOf(role) : \A f \in IsOf(role) : e <= f

(* A handle is looked up: it is not set, or it is of a structure, or it is   *)
(* of none.                                                                  *)
Found(h) == h \in Positions

-----------------------------------------------------------------------------
(* dmi_entity_decode and dmi_entity_apply_overlays                           *)

ValueOf(pair) == table[pair[1]].entries[pair[2]].value

(* The copy is made of the entries attached by then, unless it is there      *)
(* already.                                                                  *)
Body(e) == IF copy[e] = <<>> THEN overlays[e] ELSE copy[e]

\* Mutant of Applied: the entry attached first takes precedence.
AppliedFirst(e) == Body(e)[1]

(* Entries are applied in the order they are attached.                       *)
Applied(e) == Body(e)[Len(Body(e))]

Read(e) == IF Body(e) = <<>> THEN table[e].value ELSE ValueOf(Applied(e))

(* A structure that is decoded, or that no specification decodes, is left as *)
(* it is.  A handler that fails need not raise an error, and the last error  *)
(* tells what it has failed for: if memory has run out before and nothing    *)
(* has been raised since, a malformed structure is mistaken for that.        *)
Outcomes(e) ==
  IF e \in decoded \/ Role(e) = "opaque" THEN {"done"}
  ELSE IF ~table[e].long THEN {"short"}
  ELSE IF Read(e) \notin Malformed THEN {"memory", "decoded"}
  ELSE {"memory", "malformed"} \cup IF starving THEN {"mistaken"} ELSE {}

Succeeded == {"done", "decoded"}

(* What callers take for memory that has run out.                            *)
Starving == {"memory", "mistaken"}

\* Mutant of Raise: faults of the content are only logged.
RaiseQuietly(e, outcome) ==
  /\ raised' = IF outcome \in {"short", "memory"} THEN raised \cup {<<outcome, e, 0>>} ELSE raised
  /\ starving' = (outcome \in Starving)

Raise(e, outcome) ==
  IF outcome \in Succeeded \cup {"mistaken"} THEN UNCHANGED errors
  ELSE raised' = raised \cup {<<outcome, e, 0>>} /\ starving' = (outcome = "memory")

(* Other errors, of which the last is never of memory.                       *)
Report(faults) ==
  /\ raised' = raised \cup faults
  /\ starving' = (starving /\ faults = {})

(* Memory may run out before the copy is made, while it is made, in which    *)
(* case it is dropped, and after that.                                       *)
Decode(e, outcome) ==
  /\ outcome \in Outcomes(e)
  /\ Raise(e, outcome)
  /\ copy' \in IF outcome \in {"done", "short"} THEN {copy}
               ELSE {[copy EXCEPT ![e] = Body(e)]}
                    \cup IF outcome = "memory" THEN {copy} ELSE {}
  /\ IF outcome = "decoded"
     THEN /\ decoded' = decoded \cup {e}
          /\ info' = [info EXCEPT ![e] = Read(e)]
     ELSE UNCHANGED <<decoded, info>>
  /\ UNCHANGED <<overlays, linked, targets, properties>>

-----------------------------------------------------------------------------
(* Stages                                                                    *)

Enter(next) ==
  /\ stage' = next
  /\ cursor' = 1
  /\ entry' = 0
  /\ clean' = TRUE
  /\ UNCHANGED flags

(* The context is closed as soon as opening it fails.                        *)
FailOpening ==
  /\ stage' = "failed"
  /\ UNCHANGED <<flags, cursor, entry, clean>>

Advance ==
  /\ cursor' = cursor + 1
  /\ entry' = 0
  /\ UNCHANGED <<flags, stage>>

\* Mutant of Fatal: failures of a stage are left in the error queue.
FatalNever == FALSE

(* What a stage has met is fatal in strict mode only.                        *)
Fatal == strict /\ ~clean

At(which) == stage = which /\ cursor \in Positions
Past(which) == stage = which /\ cursor \notin Positions

-----------------------------------------------------------------------------
(* dmi_registry_overlay                                                      *)

SkipOverlays ==
  /\ stage = "overlay"
  /\ ~overlaying
  /\ Enter("vendor")
  /\ UNCHANGED <<entities, status, errors>>

PassByInfo ==
  /\ overlaying
  /\ At("overlay")
  /\ Role(cursor) # "info"
  /\ Advance
  /\ UNCHANGED <<clean, entities, status, errors>>

DecodeInfo(outcome) ==
  /\ overlaying
  /\ At("overlay")
  /\ entry = 0
  /\ Role(cursor) = "info"
  /\ Decode(cursor, outcome)
  /\ \/ /\ outcome \in Succeeded
        /\ entry' = 1
        /\ UNCHANGED <<flags, stage, cursor, clean>>
     \/ /\ outcome \in Starving
        /\ FailOpening
     \/ /\ outcome \notin Succeeded \cup Starving
        /\ Advance
        /\ clean' = FALSE
  /\ UNCHANGED status

Current == table[cursor].entries[entry]
Reading == /\ overlaying
           /\ At("overlay")
           /\ entry \in DOMAIN table[cursor].entries

(* dmi_entity_add_overlay: values are applied on decoding, so not to what is *)
(* decoded, and only within the body.                                        *)
Attachable(e) == e \notin decoded /\ Role(e) # "info" /\ Current.fits

\* Mutant of Attach: entries are counted from zero.
AttachBefore(e) == overlays' = [overlays EXCEPT ![e] = Append(@, <<cursor, entry - 1>>)]

Attach(e) == overlays' = [overlays EXCEPT ![e] = Append(@, <<cursor, entry>>)]

AttachEntry ==
  /\ Reading
  /\ Found(Current.to)
  /\ Attachable(Current.to)
  /\ Attach(Current.to)
  /\ entry' = entry + 1
  /\ status' = status \cup {"Overlaid"}
  /\ UNCHANGED <<flags, stage, cursor, clean, decoded, info, copy, linked, targets,
                 properties, errors>>

AttachWithoutMemory ==
  /\ Reading
  /\ Found(Current.to)
  /\ Attachable(Current.to)
  /\ raised' = raised \cup {<<"memory", cursor, entry>>}
  /\ starving' = TRUE
  /\ FailOpening
  /\ UNCHANGED <<entities, status>>

\* Mutant of RefuseEntry: the loop does not count the entry.
RefuseEntryAgain ==
  /\ Reading
  /\ ~(Found(Current.to) /\ Attachable(Current.to))
  /\ Report({<<"entry", cursor, entry>>})
  /\ clean' = FALSE
  /\ UNCHANGED <<flags, stage, cursor, entry, entities, status>>

(* All entries are processed, so that every invalid one is reported.         *)
RefuseEntry ==
  /\ Reading
  /\ ~(Found(Current.to) /\ Attachable(Current.to))
  /\ Report({<<"entry", cursor, entry>>})
  /\ clean' = FALSE
  /\ entry' = entry + 1
  /\ UNCHANGED <<flags, stage, cursor, entities, status>>

PassEntries ==
  /\ overlaying
  /\ At("overlay")
  /\ entry > Len(table[cursor].entries)
  /\ Advance
  /\ UNCHANGED <<clean, entities, status, errors>>

FinishOverlays ==
  /\ overlaying
  /\ Past("overlay")
  /\ IF Fatal THEN FailOpening ELSE Enter("vendor")
  /\ UNCHANGED <<entities, status, errors>>

-----------------------------------------------------------------------------
(* dmi_setup_extensions: dmi_setup_vendor, dmi_platform_detect,              *)
(* dmi_setup_platform_modules and dmi_types_rebuild                          *)

MissFirmware ==
  /\ stage = "vendor"
  /\ IsOf("firmware") = {}
  /\ IF strict
     THEN /\ Report({<<"firmware", 0, 0>>})
          /\ FailOpening
     ELSE /\ Enter("system")
          /\ UNCHANGED errors
  /\ UNCHANGED <<entities, status>>

DecodeFirmware(outcome) ==
  /\ stage = "vendor"
  /\ IsOf("firmware") # {}
  /\ Decode(First("firmware"), outcome)
  /\ IF strict /\ outcome \notin Succeeded THEN FailOpening ELSE Enter("system")
  /\ UNCHANGED status

AfterInfo == [system |-> "baseboard", baseboard |-> "processors"]

(* System and baseboard information is optional, decoded or not.             *)
DecodePlatformInfo(outcome) ==
  /\ stage \in DOMAIN AfterInfo
  /\ IsOf(stage) # {}
  /\ Decode(First(stage), outcome)
  /\ Enter(AfterInfo[stage])
  /\ UNCHANGED status

MissPlatformInfo ==
  /\ stage \in DOMAIN AfterInfo
  /\ IsOf(stage) = {}
  /\ Enter(AfterInfo[stage])
  /\ UNCHANGED <<entities, status, errors>>

PassByProcessor ==
  /\ At("processors")
  /\ Role(cursor) # "processor"
  /\ Advance
  /\ UNCHANGED <<clean, entities, status, errors>>

(* The first processor of a known vendor is taken.                           *)
DecodeProcessor(outcome) ==
  /\ At("processors")
  /\ Role(cursor) = "processor"
  /\ Decode(cursor, outcome)
  /\ IF outcome \in Succeeded /\ info'[cursor] \in Known
     THEN Enter("modules")
     ELSE Advance /\ UNCHANGED clean
  /\ UNCHANGED status

FinishProcessors ==
  /\ Past("processors")
  /\ Enter("modules")
  /\ UNCHANGED <<entities, status, errors>>

(* The platform is described and its modules are enabled, which fails        *)
(* without memory or when the enabled modules conflict.                      *)
SetupModules ==
  /\ stage = "modules"
  /\ \/ /\ Enter("decode")
        /\ UNCHANGED errors
     \/ /\ FailOpening
        /\ Report({<<"modules", 0, 0>>})
  /\ UNCHANGED <<entities, status>>

-----------------------------------------------------------------------------
(* dmi_registry_decode                                                       *)

(* Decoding goes on after a malformed structure, and stops without memory.   *)
DecodeStructure(outcome) ==
  /\ At("decode")
  /\ Decode(cursor, outcome)
  /\ \/ /\ outcome \in Starving
        /\ FailOpening
     \/ /\ outcome \notin Starving
        /\ Advance
        /\ clean' = (clean /\ outcome \in Succeeded)
  /\ UNCHANGED status

FinishDecode ==
  /\ Past("decode")
  /\ IF Fatal
     THEN FailOpening /\ UNCHANGED status
     ELSE /\ Enter(IF linking THEN "link" ELSE "open")
          /\ status' = status \cup {"Decoded"}
  /\ UNCHANGED <<entities, errors>>

-----------------------------------------------------------------------------
(* dmi_registry_link and dmi_entity_link                                     *)

Refs(e) == table[e].refs

(* References are to structures of a type the attribute names, which those   *)
(* without a specification never are.                                        *)
Resolves(h) == Found(h) /\ Role(h) # "opaque"
Broken(e)   == {k \in DOMAIN Refs(e) : Refs(e)[k] # Nowhere /\ ~Resolves(Refs(e)[k])}

Linkable(e) == Role(e) = "property" \/ (Role(e) # "opaque" /\ Refs(e) # <<>>)

\* Mutant of LinksNow: undecoded structures are linked too.
LinksUndecoded == At("link") /\ Linkable(cursor)

LinksNow == At("link") /\ Linkable(cursor) /\ cursor \in decoded

PassByUnlinked ==
  /\ At("link")
  /\ ~(Linkable(cursor) /\ cursor \in decoded)
  /\ Advance
  /\ UNCHANGED <<clean, entities, status, errors>>

(* Of the references the attributes declare, those that are reached are      *)
(* resolved, each whatever becomes of the others.                            *)
Follow(reached) ==
  LET given(k) == IF k \in reached /\ Resolves(Refs(cursor)[k]) THEN Refs(cursor)[k] ELSE Nowhere
  IN targets' = [targets EXCEPT ![cursor] = [k \in DOMAIN Refs(cursor) |-> given(k)]]

BrokenLinks(reached) == {<<"reference", cursor, k>> : k \in Broken(cursor) \cap reached}

LinkReferences ==
  LET broken == BrokenLinks(DOMAIN Refs(cursor))
  IN /\ LinksNow
     /\ Role(cursor) # "property"
     /\ Follow(DOMAIN Refs(cursor))
     /\ Report(broken)
     /\ linked' = IF broken = {} THEN linked \cup {cursor} ELSE linked
     /\ clean' = (clean /\ broken = {})
     /\ Advance
     /\ UNCHANGED <<decoded, info, overlays, copy, properties, status>>

(* Unlike in the other stages, memory that runs out fails this structure     *)
(* only: arrays of targets are not made, and their references not resolved,  *)
(* while those outside of them are.                                          *)
LinkWithoutMemory ==
  /\ LinksNow
  /\ Role(cursor) # "property"
  /\ \E reached \in SUBSET DOMAIN Refs(cursor) :
       /\ reached # DOMAIN Refs(cursor)
       /\ Follow(reached)
       /\ Report({<<"memory", cursor, 0>>} \cup BrokenLinks(reached))
  /\ clean' = FALSE
  /\ Advance
  /\ UNCHANGED <<decoded, info, overlays, copy, linked, properties, status>>

Parent(e) == Refs(e)[1]

(* dmi_string_property_link                                                  *)
CanHave(p) == Found(p) /\ Role(p) # "property"

\* Mutant of AddProperty: properties are put at the head of the list.
AddPropertyFirst(p) == properties' = [properties EXCEPT ![p] = <<cursor>> \o @]

AddProperty(p) == properties' = [properties EXCEPT ![p] = Append(@, cursor)]

LinkProperty ==
  /\ LinksNow
  /\ Role(cursor) = "property"
  /\ CanHave(Parent(cursor))
  /\ AddProperty(Parent(cursor))
  /\ targets' = [targets EXCEPT ![cursor] = <<Parent(cursor)>>]
  /\ linked' = linked \cup {cursor}
  /\ Advance
  /\ UNCHANGED <<clean, decoded, info, overlays, copy, status, errors>>

(* The list of properties of the parent cannot be made longer.               *)
LinkPropertyWithoutMemory ==
  /\ LinksNow
  /\ Role(cursor) = "property"
  /\ CanHave(Parent(cursor))
  /\ Report({<<"memory", cursor, 0>>})
  /\ clean' = FALSE
  /\ Advance
  /\ UNCHANGED <<entities, status>>

RefuseProperty ==
  /\ LinksNow
  /\ Role(cursor) = "property"
  /\ ~CanHave(Parent(cursor))
  /\ Report({<<"reference", cursor, 1>>})
  /\ clean' = FALSE
  /\ Advance
  /\ UNCHANGED <<entities, status>>

FinishLink ==
  /\ Past("link")
  /\ IF Fatal
     THEN FailOpening /\ UNCHANGED status
     ELSE Enter("open") /\ status' = status \cup {"Linked"}
  /\ UNCHANGED <<entities, errors>>

-----------------------------------------------------------------------------
Tables == UNION {[1..n -> Shapes] : n \in 0..MaxLength}

Init ==
  /\ table \in Tables
  /\ strict \in BOOLEAN /\ overlaying \in BOOLEAN /\ linking \in BOOLEAN
  /\ stage = "overlay"
  /\ cursor = 1
  /\ entry = 0
  /\ clean = TRUE
  /\ decoded = {}
  /\ info = [e \in Positions |-> Nothing]
  /\ overlays = [e \in Positions |-> <<>>]
  /\ copy = [e \in Positions |-> <<>>]
  /\ linked = {}
  /\ targets = [e \in Positions |-> <<>>]
  /\ properties = [e \in Positions |-> <<>>]
  /\ status = {"Scanned"}
  /\ raised = {}
  /\ starving = FALSE

DecodeOutcomes == {"done", "decoded", "short", "malformed", "memory", "mistaken"}

Next ==
  \/ SkipOverlays \/ PassByInfo \/ AttachEntry \/ AttachWithoutMemory \/ RefuseEntry
  \/ PassEntries \/ FinishOverlays \/ MissFirmware \/ MissPlatformInfo
  \/ PassByProcessor \/ FinishProcessors \/ SetupModules \/ FinishDecode
  \/ PassByUnlinked \/ LinkReferences \/ LinkWithoutMemory \/ LinkProperty
  \/ LinkPropertyWithoutMemory \/ RefuseProperty \/ FinishLink
  \/ \E o \in DecodeOutcomes :
       \/ DecodeInfo(o) \/ DecodeFirmware(o) \/ DecodePlatformInfo(o)
       \/ DecodeProcessor(o) \/ DecodeStructure(o)

Spec == Init /\ [][Next]_vars /\ WF_vars(Next)

-----------------------------------------------------------------------------
(* What a table holds, whatever the order it is gone through in              *)

TypeOK ==
  /\ table \in Tables
  /\ strict \in BOOLEAN /\ overlaying \in BOOLEAN /\ linking \in BOOLEAN
  /\ stage \in Stages
  /\ cursor \in 1..(Len(table) + 1)
  /\ entry \in Nat
  /\ clean \in BOOLEAN
  /\ decoded \subseteq Positions
  /\ info \in [Positions -> Values \cup {Nothing}]
  /\ overlays \in [Positions -> Seq(Positions \X (Nat \ {0}))]
  /\ copy \in [Positions -> Seq(Positions \X (Nat \ {0}))]
  /\ linked \subseteq Positions
  /\ targets \in [Positions -> Seq(Positions \cup {Nowhere})]
  /\ properties \in [Positions -> Seq(Positions)]
  /\ status \subseteq {"Scanned", "Overlaid", "Decoded", "Linked"}
  /\ raised \subseteq ({"short", "malformed", "memory", "entry", "reference", "firmware",
                        "modules"} \X Nat \X Nat)
  /\ starving \in BOOLEAN

(* Additional information is decoded from the table as it is.                *)
Informs(i) == Role(i) = "info" /\ table[i].long /\ table[i].value \notin Malformed

Pairs == UNION {{<<i, k>> : k \in DOMAIN table[i].entries} : i \in {j \in Positions : Informs(j)}}

EntryOf(p) == table[p[1]].entries[p[2]]
Fitting(p) == Found(EntryOf(p).to) /\ EntryOf(p).fits /\ Role(EntryOf(p).to) # "info"
EntriesOf(e) == {p \in Pairs : overlaying /\ Fitting(p) /\ EntryOf(p).to = e}

Before(p, q) == p[1] < q[1] \/ (p[1] = q[1] /\ p[2] <= q[2])
LastOf(pairs) == CHOOSE p \in pairs : \A q \in pairs : Before(q, p)

(* What a structure is to be decoded from: the value of the last entry of    *)
(* the table that refers to it, or else its own.                             *)
Content(e) ==
  IF EntriesOf(e) = {} THEN table[e].value
  ELSE ValueOf(LastOf(EntriesOf(e)))

Decodable(e) == Role(e) # "opaque" /\ table[e].long /\ Content(e) \notin Malformed

Unlinked(e) == IF Role(e) # "property" THEN Broken(e)
               ELSE IF CanHave(Parent(e)) THEN {} ELSE {1}

\* Structures that cannot be decoded, and what is reported of one.
Spoiled(e) == Role(e) # "opaque" /\ ~Decodable(e)
Own(e)     == <<IF table[e].long THEN "malformed" ELSE "short", e, 0>>

(* The faults of a table, as the stage that has to report them sees them.    *)
OverlayFaults ==
  IF overlaying
  THEN {Own(e) : e \in {f \in IsOf("info") : Spoiled(f)}}
         \cup {<<"entry", p[1], p[2]>> : p \in {q \in Pairs : ~Fitting(q)}}
  ELSE {}

DecodeFaults == {Own(e) : e \in {f \in Positions : Spoiled(f)}}

LinkFaults ==
  IF linking
  THEN UNION {{<<"reference", e, k>> : k \in Unlinked(e)} :
                e \in {f \in Positions : Linkable(f) /\ Decodable(f)}}
  ELSE {}

FaultsOf(which) == CASE which = "overlay" -> OverlayFaults
                     [] which = "decode"  -> DecodeFaults
                     [] which = "link"    -> LinkFaults
                     [] OTHER             -> {}

Faults == OverlayFaults \cup DecodeFaults \cup LinkFaults

Starved == \E f \in raised : f[1] = "memory"

-----------------------------------------------------------------------------
(* Properties                                                                *)

(* A structure is decoded from the value of the last entry of additional     *)
(* information that refers to it, whichever stage decodes it, and however    *)
(* many attempts it takes: entity.c:551, 871, registry.c:435.                *)
DecodedAsOverlaid == \A e \in decoded : info[e] = Content(e)

(* A context opened in strict mode has a table without a fault, decoded and  *)
(* linked in full: context.h:59.                                             *)
StrictMeansClean ==
  stage = "open" /\ strict =>
    /\ Faults = {}
    /\ IsOf("firmware") # {}
    /\ \A e \in Positions : Role(e) # "opaque" => e \in decoded
    /\ linking => \A e \in Positions : Linkable(e) => e \in linked

(* What the table holds never fails opening it in relaxed mode: only memory  *)
(* and conflicting modules do: registry.c:491, 543, 591, context-extension.c *)
(* :193, 203.                                                                *)
RelaxedSurvives ==
  stage = "failed" /\ ~strict => Starved \/ <<"modules", 0, 0>> \in raised

(* Whether opening succeeds is what the mode promises.                       *)
OpeningVerdict == StrictMeansClean /\ RelaxedSurvives

(* What is reported of the table is a fault of it, even of a structure that  *)
(* several stages have tried to decode: entity.c:262, 318, link.c:220.       *)
OnlyFaultsReported ==
  \A f \in raised : f[1] \in {"short", "malformed", "entry", "reference"} => f \in Faults

(* A stage that comes to its end has reported all that is wrong for it, in   *)
(* both modes, but the references of a structure that could not be linked    *)
(* for want of memory: registry.c:465, 532, 585.                             *)
StagesReportAll ==
  [][Past(stage) /\ stage' # stage =>
       \A f \in FaultsOf(stage) : f \in raised \/ <<"memory", f[2], 0>> \in raised]_vars

(* The linked structures of an open context are the decoded ones all of      *)
(* whose references have been resolved, each to what it refers to:           *)
(* entity.c:369, link.c:175.                                                 *)
LinkVerdict ==
  /\ \A e \in linked : /\ e \in decoded
                       /\ Unlinked(e) = {}
                       /\ targets[e] = Refs(e)
  /\ stage = "open" /\ linking =>
       \A e \in decoded : Linkable(e) /\ Unlinked(e) = {} /\ <<"memory", e, 0>> \notin raised
                            => e \in linked

(* A structure has each linked string property that names it once, in the    *)
(* order of the table: string-property-handlers.c:17, entity.c:541.          *)
PropertiesInOrder ==
  \A p \in Positions :
    /\ {properties[p][k] : k \in DOMAIN properties[p]}
         = {e \in linked : Role(e) = "property" /\ Parent(e) = p}
    /\ \A k \in 2..Len(properties[p]) : properties[p][k - 1] < properties[p][k]

(* Opening ends: each loop of it makes progress.                             *)
OpeningEnds == <>(stage \in {"open", "failed"})

(* Decoding ends early for want of memory only: otherwise "a failure         *)
(* concerns this structure only" (registry.c:527-534).                       *)
MemoryStopsDecoding ==
  [][(stage = "decode" /\ cursor \in Positions /\ stage' = "failed")
       => <<"memory", cursor, 0>> \in raised']_vars

=============================================================================
