------------------------------- MODULE Context ------------------------------
(* The life of a context (libopendmi/src/context.c, context-extension.c):    *)
(* extensions and a platform are added to it, it is opened, anonymized and   *)
(* closed, again and again, and every step that allocates or reads may fail. *)
(* What is allocated is a member of heap, so that what the context keeps and *)
(* what there is to be freed can be told apart; the type map is the one of   *)
(* TypeMap.  Structures and Registry model what becomes of the structures.   *)
EXTENDS TypeMap, FiniteSets

CONSTANTS
  Modules,     \* the registered modules, in the order of dmi_module_next
  Platforms,   \* platforms that may be told from the data or be set
  NoPlatform,  \* nullptr
  Buffers,     \* numbers that tell the allocations of a kind apart
  MaxModules,  \* bound on the modules enabled explicitly
  MaxErrors    \* bound on the failed opens and anonymizations

ASSUME PlatformsAssumption == NoPlatform \notin Platforms
ASSUME BuffersAssumption   == 0 \notin Buffers
ASSUME BoundsAssumption    == MaxModules \in Nat /\ MaxErrors \in Nat
(* dmi_module_register refuses a code that is taken.                         *)
ASSUME ModulesAssumption   ==
  /\ Modules \in Seq(Range(Modules))
  /\ \A i, j \in DOMAIN Modules : Modules[i].code = Modules[j].code => i = j
  /\ \A m \in Range(Modules) : /\ m.entities \in Seq(Range(m.entities))
                               /\ m.relocations \in Seq(Range(m.relocations))
                               /\ \A s \in Range(m.entities) : s # NoSpec /\ s.type \in Types
                               /\ \A r \in Range(m.relocations) : r.type \in Types \cup {NoType}

VARIABLES
  stage,      \* what dmi_open_ex or dmi_anonymize_context is at
  strict,     \* DMI_CONTEXT_FLAG_STRICT
  auto,       \* DMI_CONTEXT_FLAG_AUTO_MODULES
  modules,    \* context->modules: enabled explicitly
  platform,   \* context->platform: set with dmi_set_platform
  map,        \* context->type_map
  state,      \* context->state: what the open context holds
  old,        \* what dmi_anonymize_context keeps until it has succeeded
  heap,       \* <<kind, number>> of what is allocated
  source,     \* the table each registry has been read from
  failures    \* how many opens and anonymizations have failed

vars == <<stage, strict, auto, modules, platform, map, state, old, heap, source, failures>>

Kinds     == {"table", "entry", "session", "registry"}
Opening   == {"backend", "entry", "table", "scan", "vendor", "platform", "modules",
              "rebuild", "structures"}
Anonymous == {"copied", "rescan", "revendor", "reread"}

Closed == [table |-> 0, entry |-> 0, session |-> 0, registry |-> 0, vendor |-> 0,
           platform |-> NoPlatform, modules |-> <<>>]

Free(kind)         == {n \in Buffers : <<kind, n>> \notin heap}
Allocate(kind, n)  == n \in Free(kind) /\ heap' = heap \cup {<<kind, n>>}
Unread             == [n \in Buffers |-> 0]
Held(s)            == {<<k, s[k]>> : k \in {k \in Kinds : s[k] # 0}}

Enabled == modules \o state.modules

(* dmi_context_platform                                                      *)
Told(set, detected) == IF set # NoPlatform THEN set ELSE detected
Current == Told(platform, state.platform)

\* Mutant of HasExtension: only the modules enabled explicitly are looked at.
HasExplicit(mod) == mod \in Range(modules)

HasExtension(mod) == mod \in Range(Enabled)

-----------------------------------------------------------------------------
(* dmi_add_extension, dmi_set_platform, dmi_set_flags                        *)

Idle == stage \in {"closed", "open"}

(* The module is checked after all of the enabled ones.                      *)
AddExtension(mod) ==
  LET mapped == MapOf(Append(Enabled, mod), Current)
  IN /\ Idle
     /\ Len(modules) < MaxModules
     /\ ~HasExtension(mod)
     /\ mapped.ok
     /\ modules' = Append(modules, mod)
     /\ map' = mapped.map
     /\ UNCHANGED <<stage, strict, auto, platform, state, old, heap, source, failures>>

(* dmi_types_rebuild                                                         *)
Rebuild(set, detected, mods) ==
  LET mapped == MapOf(mods, Told(set, detected))
  IN mapped.ok /\ map' = mapped.map

\* Mutant of SetPlatform: the map is not made for the new platform.
SetPlatformOnly(p) ==
  /\ Idle
  /\ platform' = p
  /\ UNCHANGED <<stage, strict, auto, modules, map, state, old, heap, source, failures>>

(* If the types cannot be mapped for it, the platform is left as it was.     *)
SetPlatform(p) ==
  /\ Idle
  /\ platform' = p
  /\ Rebuild(p, state.platform, Enabled)
  /\ UNCHANGED <<stage, strict, auto, modules, state, old, heap, source, failures>>

SetFlags ==
  /\ Idle
  /\ strict' \in BOOLEAN
  /\ auto' \in BOOLEAN
  /\ UNCHANGED <<stage, modules, platform, map, state, old, heap, source, failures>>

-----------------------------------------------------------------------------
(* dmi_close                                                                 *)

Forget == state' = Closed

(* The map is made in place, so that a conflict leaves it unfinished.        *)
CloseContext ==
  /\ heap' = heap \ Held(state)
  /\ Forget
  /\ map' = MapOf(modules, platform).map
  /\ source' = Unread
  /\ UNCHANGED <<strict, auto, modules, platform, old>>

(* Modules that conflict on a platform that is set conflict among others     *)
(* too, in whatever order and whatever platform is told.  Closing takes it   *)
(* for granted: it maps the modules that are left and does not look whether  *)
(* they fit, since "what is left has been mapped without conflicts before"   *)
(* (context.c:230).  This says more of the modules than that their codes     *)
(* differ: a module that is gone may have moved the specifications of        *)
(* another out of the way.                                                   *)
Orders == UNION {Injection(1 .. n, Range(Modules)) : n \in 0 .. Len(Modules)}

ClosingIsSafe ==
  \A mods \in Orders, set \in Platforms \cup {NoPlatform} :
    ~MapOf(mods, set).ok =>
      \A all \in Orders, detected \in Platforms \cup {NoPlatform} :
        Range(mods) \subseteq Range(all) => ~MapOf(all, Told(set, detected)).ok

Close ==
  /\ Idle
  /\ CloseContext
  /\ stage' = "closed"
  /\ UNCHANGED failures

(* Modules are dropped before closing.                                       *)
Destroy ==
  /\ Idle
  /\ stage' = "destroyed"
  /\ heap' = heap \ Held(state)
  /\ state' = Closed
  /\ modules' = <<>>
  /\ platform' = NoPlatform
  /\ map' = Base
  /\ source' = Unread
  /\ UNCHANGED <<strict, auto, old, failures>>

-----------------------------------------------------------------------------
(* dmi_open_ex                                                               *)

Proceed(from, to) ==
  /\ stage = from
  /\ stage' = to
  /\ UNCHANGED <<strict, auto, modules, platform, old, failures>>

Keep(field, n) == state' = [state EXCEPT ![field] = n]

Open == \E n \in Buffers :
  /\ failures < MaxErrors
  /\ Proceed("closed", "backend")
  /\ Allocate("table", n)
  /\ Keep("table", n)
  /\ UNCHANGED <<map, source>>

(* A backend that fails to open leaves no session behind.                    *)
OpenBackend == \E n \in Buffers :
  /\ Proceed("backend", "entry")
  /\ Allocate("session", n)
  /\ Keep("session", n)
  /\ UNCHANGED <<map, source>>

(* A backend without an entry point leaves the context without one.          *)
ReadEntry ==
  /\ Proceed("entry", "table")
  /\ \/ /\ \E n \in Buffers : Allocate("entry", n) /\ Keep("entry", n)
     \/ /\ state.entry = 0
        /\ UNCHANGED <<state, heap>>
  /\ UNCHANGED <<map, source>>

ReadTable ==
  /\ Proceed("table", "scan")
  /\ UNCHANGED <<state, heap, map, source>>

(* The registry is created and scanned.                                      *)
NewRegistry(n) ==
  /\ Allocate("registry", n)
  /\ Keep("registry", n)
  /\ source' = [source EXCEPT ![n] = state.table]

Scan == \E n \in Buffers :
  /\ Proceed("scan", "vendor")
  /\ NewRegistry(n)
  /\ UNCHANGED map

(* dmi_setup_vendor: the name of the vendor is the one the registry holds,   *)
(* and is left as it is in relaxed mode if the firmware information is not   *)
(* there or cannot be decoded.                                               *)
NameVendor ==
  \/ Keep("vendor", state.registry)
  \/ ~strict /\ UNCHANGED state

SetupVendor ==
  /\ Proceed("vendor", "platform")
  /\ NameVendor
  /\ UNCHANGED <<heap, map, source>>

DetectPlatform == \E p \in Platforms :
  /\ Proceed("platform", IF auto THEN "modules" ELSE "rebuild")
  /\ Keep("platform", p)
  /\ UNCHANGED <<heap, map, source>>

(* dmi_setup_platform_modules: modules that conflict are skipped.            *)
Suits(sofar, mod) ==
  /\ Current \in mod.platforms
  /\ ~HasExtension(mod)
  /\ MapOf(modules \o sofar \o <<mod>>, Current).ok

Enable(sofar, mod) == IF Suits(sofar, mod) THEN Append(sofar, mod) ELSE sofar

ModulesFor ==
  LET enabled[k \in 0..Len(Modules)] ==
        IF k = 0 THEN <<>> ELSE Enable(enabled[k - 1], Modules[k])
  IN enabled[Len(Modules)]

EnableModules ==
  /\ Proceed("modules", "rebuild")
  /\ Keep("modules", ModulesFor)
  /\ UNCHANGED <<heap, map, source>>

RebuildTypes ==
  /\ Proceed("rebuild", "structures")
  /\ Rebuild(platform, state.platform, Enabled)
  /\ UNCHANGED <<state, heap, source>>

FinishOpen ==
  /\ Proceed("structures", "open")
  /\ UNCHANGED <<state, heap, map, source>>

(* Any of the steps of opening may fail, in which case the context is        *)
(* closed; so may allocating the table.                                      *)
FailOpen ==
  /\ stage \in Opening
  /\ CloseContext
  /\ stage' = "closed"
  /\ failures' = failures + 1

-----------------------------------------------------------------------------
(* dmi_anonymize_context                                                     *)

(* The structures are read anew from the anonymized copy of the table.       *)
Anonymize == \E n \in Buffers :
  /\ failures < MaxErrors
  /\ stage = "open"
  /\ stage' = "copied"
  /\ Allocate("table", n)
  /\ old' = state
  /\ state' = [state EXCEPT !.table = n, !.registry = 0]
  /\ UNCHANGED <<strict, auto, modules, platform, map, source, failures>>

Rescan == \E n \in Buffers :
  /\ Proceed("copied", "revendor")
  /\ NewRegistry(n)
  /\ UNCHANGED map

NameVendorAnew ==
  /\ Proceed("revendor", "reread")
  /\ NameVendor
  /\ UNCHANGED <<heap, map, source>>

(* The structures have been decoded and linked.                              *)
FinishAnonymize ==
  /\ stage = "reread"
  /\ stage' = "open"
  /\ heap' = heap \ {<<"table", old.table>>, <<"registry", old.registry>>}
  /\ old' = Closed
  /\ source' = [source EXCEPT ![old.registry] = 0]
  /\ UNCHANGED <<strict, auto, modules, platform, map, state, failures>>

\* Mutant of Restore: the registry is put back, but not the table.
RestoreRegistry == state' = [state EXCEPT !.registry = old.registry, !.vendor = old.vendor]

Restore ==
  state' = [state EXCEPT !.table = old.table, !.registry = old.registry, !.vendor = old.vendor]

\* Mutant of Discard: the registry of the copy is not destroyed.
DiscardTable == heap' = heap \ {<<"table", state.table>>}

Discard == heap' = heap \ {<<"table", state.table>>, <<"registry", state.registry>>}

FailAnonymize ==
  /\ stage \in Anonymous
  /\ stage' = "open"
  /\ Discard
  /\ Restore
  /\ old' = Closed
  /\ source' = [n \in Buffers |-> IF n = state.registry THEN 0 ELSE source[n]]
  /\ failures' = failures + 1
  /\ UNCHANGED <<strict, auto, modules, platform, map>>

-----------------------------------------------------------------------------
Init ==
  /\ stage = "closed"
  /\ strict \in BOOLEAN
  /\ auto \in BOOLEAN
  /\ modules = <<>>
  /\ platform = NoPlatform
  /\ map = Base
  /\ state = Closed
  /\ old = Closed
  /\ heap = {}
  /\ source = Unread
  /\ failures = 0

Next ==
  \/ \E i \in DOMAIN Modules : AddExtension(Modules[i])
  \/ \E p \in Platforms \cup {NoPlatform} : SetPlatform(p)
  \/ SetFlags \/ Close \/ Destroy
  \/ Open \/ OpenBackend \/ ReadEntry \/ ReadTable \/ Scan \/ SetupVendor
  \/ DetectPlatform \/ EnableModules \/ RebuildTypes \/ FinishOpen \/ FailOpen
  \/ Anonymize \/ Rescan \/ NameVendorAnew \/ FinishAnonymize \/ FailAnonymize

Spec == Init /\ [][Next]_vars

-----------------------------------------------------------------------------
(* Properties                                                                *)

States == [table : Buffers \cup {0}, entry : Buffers \cup {0}, session : Buffers \cup {0},
           registry : Buffers \cup {0}, vendor : Buffers \cup {0},
           platform : Platforms \cup {NoPlatform},
           modules : Seq(Range(Modules))]

TypeOK ==
  /\ stage \in {"closed", "open", "destroyed"} \cup Opening \cup Anonymous
  /\ strict \in BOOLEAN /\ auto \in BOOLEAN
  /\ modules \in Seq(Range(Modules))
  /\ platform \in Platforms \cup {NoPlatform}
  /\ DOMAIN map = Types
  /\ \A t \in Types : Len(map[t].signed) <= Signatures
  /\ state \in States /\ old \in States
  /\ heap \subseteq Kinds \X Buffers
  /\ source \in [Buffers -> Buffers \cup {0}]
  /\ failures \in 0..MaxErrors
  \* No module is enabled twice, explicitly or for the platform
  /\ Cardinality(Range(Enabled)) = Len(Enabled)

(* Whatever step fails, what is allocated is what the context can free:      *)
(* context.c:206, 255, 304.                                                  *)
NothingLeaks == heap = Held(state) \cup Held(old)

(* A context that is closed, or that has failed to open, is as it was before *)
(* it was opened: context.c:206-235, 350-353.                                *)
ClosedIsEmpty == stage = "closed" => state = Closed /\ heap = {}

(* An open context has structures, and they are those of its table, also     *)
(* after it has been anonymized or has failed to be: context.c:267-299.      *)
OpenIsWhole ==
  stage = "open" => /\ state.table # 0 /\ state.session # 0 /\ state.registry # 0
                    /\ source[state.registry] = state.table
                    /\ state.platform # NoPlatform

(* Between calls a context is empty or whole, whichever step of the last     *)
(* call has failed.                                                          *)
ContextIsWhole == ClosedIsEmpty /\ OpenIsWhole

Asked == Range(Items(Enabled, Current))

(* Structures are decoded by specifications that the library has built in or *)
(* that an enabled module brings to that type number and platform, and never *)
(* by what is left of another platform or of a module that is gone:          *)
(* context-types.c:291, context.c:228, context-extension.c:138.              *)
MapSound ==
  Idle => \A t \in Types : \A s \in Candidates(map[t]) \ {NoSpec, BuiltIn[t]} :
            \E a \in Asked : a.spec = s /\ a.type = t

(* What the enabled modules bring is mapped, except that a module may yield  *)
(* a type number that is taken: context-types.c:311-341, 409.                *)
MapComplete ==
  Idle => \A a \in Asked : \/ a.spec \in Candidates(map[a.type])
                           \/ a.yield /\ ~Room(map[a.type], a.spec)

(* The name of the vendor is held by structures that are there: the pointers *)
(* to what has been decoded from the table that was anonymized "are no       *)
(* longer valid" (anonymize.h:69-71), so the context must not keep one.      *)
VendorNameLives == state.vendor # 0 => <<"registry", state.vendor>> \in heap

=============================================================================
