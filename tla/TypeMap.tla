------------------------------ MODULE TypeMap -------------------------------
(* The map of type numbers to specifications (libopendmi/src/context-types.c *)
(* and platform.c): which specifications the structures of a type number may *)
(* be decoded by, given the enabled modules and the platform.                *)
EXTENDS Naturals, Sequences, SequencesExt

CONSTANTS
  Types,       \* type numbers
  NoType,      \* DMI_TYPE_ID_INVALID
  NoSpec,      \* nullptr
  BuiltIn,     \* the specification of each type number, or NoSpec
  Signatures   \* DMI_TYPE_CANDIDATES less the one without a signature

ASSUME TypesAssumption == NoType \notin Types /\ Signatures \in Nat

(* A specification is a record of its type, whether it is signed, and the    *)
(* platforms within its generations.  A module has entities, relocations     *)
(* (records of a spec and a type), platforms it is enabled for, and may      *)
(* yield its types.                                                          *)

InGenerations(platform, spec) == platform \in spec.platforms

(* The members of a sequence at some of its places, and those that pass a    *)
(* test, in their order.                                                     *)
At(seq, places) ==
  LET kept[k \in 0..Len(seq)] ==
        IF k = 0 THEN <<>> ELSE kept[k - 1] \o IF k \in places THEN <<seq[k]>> ELSE <<>>
  IN kept[Len(seq)]

Only(seq, Test(_)) == At(seq, {k \in DOMAIN seq : Test(seq[k])})

Relocations(mods, spec) ==
  FlattenSeq([i \in DOMAIN mods |-> Only(mods[i].relocations, LAMBDA r : r.spec = spec)])

(* dmi_spec_relocate for every index.  Relocation to no type maps the        *)
(* specification nowhere.                                                    *)
TypesOf(mods, spec) ==
  LET moves == Relocations(mods, spec)
      kept  == Only(moves, LAMBDA r : r.type # NoType)
  IN IF moves = <<>> THEN <<spec.type>> ELSE [k \in DOMAIN kept |-> kept[k].type]

EntitiesFor(mod, platform) == Only(mod.entities, LAMBDA s : InGenerations(platform, s))

(* What the modules ask to have mapped, in their order: each specification   *)
(* of the platform, at each of its type numbers.                             *)
Placements(mods, mod, spec) ==
  LET types == TypesOf(mods, spec)
  IN [k \in DOMAIN types |-> [spec |-> spec, type |-> types[k], yield |-> mod.yield]]

ItemsOf(mods, mod, platform) ==
  LET specs == EntitiesFor(mod, platform)
  IN FlattenSeq([k \in DOMAIN specs |-> Placements(mods, mod, specs[k])])

Items(mods, platform) == FlattenSeq([i \in DOMAIN mods |-> ItemsOf(mods, mods[i], platform)])

Yielding(items)   == Only(items, LAMBDA i : i.yield)
Unyielding(items) == Only(items, LAMBDA i : ~i.yield)

(* Modules that yield their types are mapped last, into the types left free. *)
Plan(items) == Unyielding(items) \o Yielding(items)

Candidates(cell) == {cell.plain} \cup {cell.signed[k] : k \in DOMAIN cell.signed}

(* dmi_types_map_one: there is no room for the specification, and its module *)
(* does not yield.                                                           *)
Room(cell, spec) == IF spec.signed THEN Len(cell.signed) < Signatures ELSE cell.plain = NoSpec

\* Mutant of Refused: a specification that finds no room is left out.
RefusedNever(cell, item) == FALSE

Refused(cell, item) ==
  /\ item.spec \notin Candidates(cell)
  /\ ~Room(cell, item.spec)
  /\ ~item.yield

Placed(cell, spec) ==
  IF spec \in Candidates(cell) \/ ~Room(cell, spec) THEN cell
  ELSE IF spec.signed THEN [cell EXCEPT !.signed = Append(@, spec)]
  ELSE [cell EXCEPT !.plain = spec]

Base == [t \in Types |-> [plain |-> BuiltIn[t], signed |-> <<>>]]

(* dmi_types_map stops at the first conflict, with the map as it is by then. *)
MapOne(sofar, item) ==
  IF ~sofar.ok THEN sofar
  ELSE IF Refused(sofar.map[item.type], item) THEN [sofar EXCEPT !.ok = FALSE]
  ELSE [sofar EXCEPT !.map[item.type] = Placed(@, item.spec)]

MapAll(plan) ==
  LET mapped[k \in 0..Len(plan)] ==
        IF k = 0 THEN [ok |-> TRUE, map |-> Base] ELSE MapOne(mapped[k - 1], plan[k])
  IN mapped[Len(plan)]

MapOf(mods, platform) == MapAll(Plan(Items(mods, platform)))

=============================================================================
