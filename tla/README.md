# OpenDMI: specification and proofs

This directory holds TLA+ specifications of the core of OpenDMI, the TLC
configurations that check them, and proofs of their main properties that TLAPS
checks. The specifications are read from the C code of `libopendmi/src` and
`opendmi/src`, and cite its files and lines. `PROJECT.json` has the same facts as tables: which
lines each definition stands for, which run checks each property, a mutated
definition that breaks each property, the hazards of the code, the findings and
the theorems.

    tlc -workers 2 -config MCSave.cfg MCSave      # a run
    tlapm SaveProofs.tla                          # the proofs of a component

## The system

A **context** (`context.c`) is opened on a **backend** (files of the operating
system, or a dump), which gives an **entry point** and the bytes of a **table**.
The **registry** (`registry.c`) scans the table into a list of **entities**, one
for each structure, with an index of their handles. Each entity is decoded by
the specification its type number is mapped to (`context-types.c`), which may be
built in or come from an **extension module**, by the tables of **fields** and
**attributes** it declares (`field-decode.c`, `field-encode.c`); modules are enabled explicitly, or
because of the **platform** that is told from the structures decoded first.
Structures of "additional information" overlay the bodies of others. Finally the
references between entities are resolved (`link.c`). Errors go to a queue of the
context (`error.c`). A context may be anonymized in place, linted, printed, and
saved as a dump (`context-save.c`). A command line tool, a daemon and a kernel
module are built on the library.

| Component | State it keeps | Operations | Hard part | Makes it correct |
|---|---|---|---|---|
| error queue | ring of descriptors with their messages, first, count | raise, take and peek at both ends, clear | overflow, messages of slots that are not pending, descriptors handed out in place | a bounded queue; no message lost; what was handed out stays intact |
| registry | index, sequence, count, status | scan, put, look-ups, resolve, destroy, iterate | the ways a table ends, shared handles, failure in mid-scan | the first structure of a handle wins; the scan's verdict; each entity freed once |
| structures | state, information, overlays, copy, links and properties of each entity | overlay, decode, link | several stages try the same structure; strict and relaxed rules; memory that runs out | decoded with all overlays, whatever the order; only real faults reported |
| context | what the open context holds, explicit modules, platform, flags | open, close, anonymize, add a module, set the platform or flags, destroy | failure at each of some fifteen steps, then being used again | nothing leaks; closing forgets all; anonymizing is all or nothing |
| type map | candidates of each type number | map, rebuild | yielding and relocating modules, conflicts | what is mapped was asked for, and the other way round |
| saving | temporary file, name, flags of a save | write, close, link or rename, remove | crashes and other processes between any two system calls | the whole dump at once or nothing; no file replaced unasked |
| anonymizer | correspondence of old and new values | anonymize a table | the layout is to be kept | same lengths, same equalities |
| lint | findings | rules of the entry point, the table, structures, strings, values, references, overlays and types | rules over structures that could not be decoded, and over a walk that stopped early | what is wrong is told once, by the rule it is a matter of |
| buffers, reader, writer, codecs | data, length, position, marks | read, write, seek | sums near the largest size | a sequence of bytes, never outside |
| fields | position in bytes and bits, version level, marks of groups, choices between fields | decode, encode as it was, encode for a version | structures that end anywhere, numbers that come with the data, groups and bits of versions | rejected, partial and incomplete are told by the length; the round trip |
| specifications of types | none: tables of fields, attributes, names and members | | four tables declared apart that have to agree | every code named, every member there and wide enough |
| attributes, filters | none | walk, format, match | levels of versions | what has been read is shown |
| entry point | version, length, address | find, check, decode | anchors, checksums, lengths of old versions | the right specification is chosen |
| backends | session | open, read the entry point and table, close | short files, missing entry point | the session is closed on failure |
| pager of the tool | child process, signals | start, wait, restore | signals at any time | the child is reaped, the terminal restored |
| pidfile of the daemon | locked file | create, lock, remove | unlinking while others wait for the lock | one daemon at a time |

How they interact: the library is a set of calls in one thread for each context.
The registry, entities and links are driven by `dmi_open_read_structures` as a
chain of stages; they share the table, the flags and the error queue of the
context, and each stage leaves entities half done for the next. Decoding looks up
the type map, which is rebuilt in the middle of opening from what the first
stages have decoded. Real concurrency is in saving (files shared with other
threads and processes), in the pager (signals) and in the pidfile (processes).

## The modules

| Module | Models | Built on |
|---|---|---|
| `ErrorQueueAbs` | a bounded queue that drops its oldest error | |
| `ErrorQueue` | `error.c` | refines `ErrorQueueAbs` |
| `ErrorQueueProofs` | four theorems | `ErrorQueue` |
| `RegistryAbs` | references name the first structure of a handle | |
| `Registry` | `registry.c`: scan, index, look-ups, destruction | refines `RegistryAbs` |
| `RegistryIter` | its iterators and their filters, as operators | `Registry` |
| `RegistryProofs` | seven theorems | `RegistryIter`, `Recursions` |
| `Structures` | `dmi_open_read_structures`: overlay, vendor, platform, decode, link | |
| `StructuresProofs` | seven theorems | `Structures`, `Recursions` |
| `TypeMap` | `context-types.c`, `platform.c` | |
| `Context` | `context.c`, `context-extension.c`, `dmi_anonymize_context` | extends `TypeMap` |
| `ExtensionModules` | the ten extension modules: what each brings, for which platforms, and what it relocates; how a platform is told | instantiates `TypeMap` |
| `ContextProofs` | five theorems | `Context`, `Recursions` |
| `SaveAbs` | a dump appears at once or not at all, and what it may replace | |
| `Save` | `context-save.c` | refines `SaveAbs` |
| `SaveProofs` | six theorems | `Save` |
| `Layout` | the macros of `field.h` and `attribute.h`: the language of the tables | |
| `CommonEntities`, `SystemEntities`, `MemoryEntities`, `ManagementEntities`, `HpeEntities`, `DellEntities`, `IntelEntities`, `VendorEntities` | the specification of every type in `entity/` and `module/`, with its members, enumerators and names | `Layout` |
| `Entities` | all of them by name, and what their tables have to agree on | the eight above, `ExtensionModules` |
| `Fields` | `field.c`, `field-decode.c`, `field-encode.c`, and what they use of the decoder and the encoder | `Layout` |
| `FieldsProofs` | seven theorems | `Fields`, `Recursions` |
| `Pager` | `pager/posix.c`, with the flushes of the output by `command.c` and the commands, and the exit status | |
| `PagerProofs` | three theorems | `Pager` |
| `Recursions` | lemmas: induction over the steps of a recursive function, and that it exists | |
| `EntityLayout` | `entity.c`: a table as structures, a structure as body and strings, signatures; operators only | |
| `Attributes` | `attribute.c`, `attribute-walk.c`, `filter.c`: how decoded values are reached and read; operators only | |
| `Lint` | `lint.c`, `lint/*.c`: rules, order and findings; operators only | `EntityLayout`, `Attributes` |
| `TypeRules` | `entity/*-rules.c`: the rules the types bring | `Lint` |
| `MCTable` | what the four above have to agree on, over all small tables | instantiates `TypeRules`, part of the run `registry` |
| `MC*` | values of the constants for TLC; `MCFields` takes the specifications from `Entities` | |

Each operation that can return to a caller in a different state is an action;
operations that fail in several ways have an action for each way, with the
condition under which it is taken. Definitions named `...Always`, `...Late`,
`...First` and so on, with a comment "Mutant of", are not part of any
specification: they are the plausible mistakes that show that a property can
fail.

### ErrorQueue

`errors`, `first` and `count` are the fields of the queue in the context;
`messages` counts the allocated texts, and `handed` the descriptors a caller still
holds a pointer to. `Raise` is `dmi_error_raise*` with `dmi_error_slot_get`:
overflow drops the oldest, and the reused slot is cleared, which frees its text.
`GetFirst` and `GetLast` return descriptors in place: they stay in their slots, and
so do their messages, until the slot is taken again. An error with a message whose
text cannot be allocated is queued without one, which is the same as raising it
without. `Implements` maps the window of the ring to a queue. `dmi_error_peek_last` is in it as the last
of the queue: decoding tells from it what a structure has failed for.

### Registry

An entity is the position of its structure in `table`; `ending` is what comes
after the last whole structure: fewer bytes than a header, a structure cut off, or
one with an impossible length. `index` holds the chains of `hash % capacity`, and
`sequence` the list from head to tail. `Scan` is one turn of the loop of
`dmi_registry_scan` with each of its exits, including the failures of allocation
in creating and in putting. Look-ups walk a chain (or the sequence) and answer once;
`answer` is what the caller sees, with the errors raised. `SetFlags` may come
between look-ups. `freed` counts how often each entity is destroyed: by `Destroy`, as often as it is
reached through the index, and by `PutFails` if it could not be put there. `RegistryAbs` has no index: a handle
names the first structure in table order that has it. It has both the flags the context was
opened with (`opened`) and those of now (`strict`), for the one thing they decide, whether a null reference to a
structure that does not fit is reported. Once they have been changed `Implements` leaves that open; `FlagsWaitForOpening`
is the same module with the flags of the opening for both, which is what `context.h` promises and the code does not do. The state of an iterator is its
caller's: `RegistryIter` has its three calls as operators, and `IterGivesMatches`, checked wherever
the scan has ended, runs every filter through them: the n-th call has to give the n-th place that matches.

### Structures

A structure has a role (what the stages of opening do with it), one value for the
content of its body, the entries of additional information it carries and its
references. Which entity a handle resolves to belongs to `Registry`, so here
handles are positions. An entry gives another value to a structure: "better" mends
it, "bad" makes it undecodable. `stage`, `cursor` and `entry` are the program counter:
each step handles one structure (or one entry) of a stage. `Decode` is
`dmi_entity_decode` with `dmi_entity_apply_overlays`: the overlaid copy is made at
the first attempt that gets so far and then kept, which is why a structure decoded
early must have all its entries already. `Outcomes` has the ways to fail; memory may
run out wherever the code allocates. `starving` is true if the last error in
the queue is of memory: the code asks that error, not the call that failed, and so
does the model. Each stage ends in `Fatal`, its rule for strict mode.

`Content`, `Decodable` and `FaultsOf` say what a table holds without going
through it in an order: the last entry in table order wins. The properties compare
what the stages have done with that.

### TypeMap and Context

`MapOf` maps the plan of specifications one after the other, from the built-in map on, as
`dmi_types_map` does: what yields comes last, relocations move a specification to another number,
a platform filters, and the first conflict stops the mapping with the map half
made. `Context` has one action for each step of `dmi_open_ex` and
`dmi_anonymize_context` that can fail, with `FailOpen` and `FailAnonymize` possible at
each; `heap` has what is allocated, so that `NothingLeaks` can compare it with what
the context can still reach. `source` remembers which table a registry was read
from. The version fixup and logging are left out.

`ExtensionModules` has the modules of the library as data: the specifications each
brings, in its order, with their numbers, which of them are told by a signature and which are
bound to generations of servers; the platforms it suits; and what it relocates.
`ModuleSeen` gives such a module the record `TypeMap` has of one, for platforms that
are given by their names. Nothing in the build compares the modules, so two things
are assumed, and TLC evaluates both when it runs `context`: no module conflicts with
itself, whatever the generation (`ModulesFitAlone`), and no two modules fit only
because a third, enabled for the platform, is there (`ClosingFits`). Groups of
modules are left out, and the name of a product is what is told from it: whether
it is of a line of servers, and its generation.

### Save

A temporary file is named by the saver that has created it (its inode); a file
that is written at the path itself is `InPlace`. Each system
call of `context-save.c` is an action of a saver, any of which may crash in between;
`CreateForeign`, `CreateSpecial` and `RemoveFile` are other processes, which make and remove regular files, devices, pipes and
links at the path between any two calls. Savers share the names of
temporary files: they are threads of a process, or processes one after another
that got the same number. `link` fails for an existing file and, on file systems
with no hard links, otherwise too; the code then checks and renames. Whether the file
system has them (`hardLinks`) is chosen at the start. `SaveAbs` has the steps others can come between, and no temporary files:
a saver looks at the path once; if it may not overwrite, its dump is put where there is still nothing, in one step.
Only on a file system without hard links may it look again and put the dump in its next step, whatever has come in between:
that is the gap between the check and the rename. `NeverReplaced` states what the code claims, that there is no gap.
The branch for Windows is left out, and `remove` is taken to succeed: the code
ignores its failure, which leaves the file behind.

### Layout, the tables and Entities

A field or an attribute of a specification is a record of what its macro sets, by
the same name; a member is its name, and stands for its offset. The names of codes
are the set of codes that have one. A table reads much like the C it stands for,
and `map` gives the lines of each. Words, formats and the order of attributes are
left out, since nothing depends on them.

`Entities` puts all specifications into one function, and assumes what nothing in
the build compares: each value of an enumeration has a name or stands for "not
there" (`CodesAreNamed`), fields and attributes only speak of members the structure
has, wide enough for what is read into them (`MembersExist`), and the tables agree
with each other (`TablesAgree`), down to the limits of the engine: one array to a
type, and eight fields that decide where others are. Each specification is built in at
its number or brought by exactly one extension module, which has the same number for
it (`SpecsAreBrought`, `BroughtAreSpecs`). TLC evaluates the assumptions
when it runs `fields`.

### Fields

A structure is decoded, perhaps encoded, and perhaps decoded again. `spec` is the
specification of its type, `body` what the engine goes by in its bytes: how many there
are, the numbers an array begins with, the length of data declared elsewhere,
the plain fields that say the value is in a wider one, and whether decimal digits are
digits. `d` is `dmi_field_state` with what the structure holds: the bit each field was
read from, the place of each element, the level, the marks of groups. `e` is the
encoder's state and where the bytes go; `e.same` is false once something is written
that is not known to be what the source has there. There is an action for each kind of field
and each loop of an array, in both directions.

A read takes all of its bytes or none, so a nested list is known by the widths it is read
in: `ElementEnds` has the offsets at which reading may stop, and `Taken` where it does.
That is what decides between an element that is short of data and one that
is broken. `Begins` works out from the fields alone, with no reader, at which bit
each would begin if there were enough data; the properties compare the engine with it.

Values are left out, and so are failures of allocation: `Structures` has those. Callers that
change a structure before they encode it are left out too.

The engine takes for granted that the specifications make sense: that ranges of bits end
in padding, that an offset is where the fields before it end, that the elements of an array are not of
no length, that groups follow one another by version and no attribute is of a later version than its field. Nothing in
the code checks this. `FieldRules` and `VersionRules` say what the rules are, and
`SpecsAssumption` that they hold; TLC evaluates it on every specification the library declares.

### Pager

`fd` is the table of descriptors of the tool, `pager` the child with its own;
`pipe` what is in the pipe, `frames` the stack of signal handlers that have interrupted
`main` and each other. A signal may arrive before any step. `Spawn` is `pipe()` and
`posix_spawn` with its file actions, with descriptors chosen as the system does, the lowest
first: which descriptor is which decides what the file actions do. `Attach`,
`RecordPid`, `RegisterExit`, `HandleSignal` and `IgnorePipe` are the steps of
`dmi_pager_start` between which a signal makes a difference. A handler goes through the same three
steps as the exit (`CloseOutput`, `WaitPager`, `ForgetPager`) and raises its signal again. The
pager, which reads, quits or ends, is external, and so are reads and writes of the pipe.

The output is written through a stream of the C library: at any time while the command prints, and in the
flushes. `broken` is the sticky error flag of the stream, and a write that fails drops what the stream holds, as the C libraries do
(so a second flush has nothing left to write). There are up to three flushes: that of `dmi_print_all` (`PrintAllEnds`, for `show`) or of
`entry` (`EntryEnds`), that of the tool (`OutputEnds`), and that of the exit, whose outcome nobody looks at
(`ExitEnds`). Each gets the error of the write it made, or `FlushError` if it had none to make, and only EPIPE is taken for
the pager having been quit. `CommandFails` is a command that fails by itself, lint that has found an error among them; the tool does not flush then.
Exit status 1 is `failed` in this case and `unwritten` if it is the output that failed, which is what the tool prints.

### EntityLayout, Attributes, Lint and TypeRules

These have no state: they are what the code computes from the bytes of a table and from
what was decoded of it. `Created` is `dmi_entity_create` with its refusals, `Walk` what the scan makes of
bytes (`Registry` has the scan with the failures that are not of the data), and `StringSet`, `StringsOf` and
`Trimmed` are the strings. `Walked` is `dmi_attributes_walk` with a visitor that stops at some places and skips
others; the values that lint looks at are those a visitor that does neither reaches. A rule of `Lint` or
`TypeRules` is its scope, its two severities and whether it is optional; what it reports of a table is a set of
issues, and `Checks` is the order in which `dmi_lint` asks the enabled ones. Wording is left out, and so is
that a look-up of a structure of another type also raises an error in the context (`registry.c:104`).

`MCTable` states what has to hold of them and TLC evaluates it, when it runs `registry`, over all data of up to six
bytes out of four values, and over small structures, values and references:

- structures tile the table and strings fill the set, up to one that ends with the data (`StructuresTile`,
  `StringsAreFound`, `SetEndsAtZeros`), and lint knows where each string is;
- however a table ends, at most one of truncated, invalid header and trailing data is told of it, and none only if its end is
  where it should be (`EndIsToldOnce`);
- a walk that is stopped or that skips is nested and part of the one that does neither (`WalkIsNested`, `WalkIsPart`);
- each rule has a code of its own and is not milder for what is produced than for what is read (`RulesAgree`); each
  enabled rule is checked once of each thing, in order (`ChecksAreOrdered`), and reports of nothing else; rules of
  types report nothing of structures that were not decoded (`NothingIsGuessed`);
- values, references, entries of additional information, ranges, records and thresholds are judged as
  a second definition says.

## The runs

| Run | Instance | Shows |
|---|---|---|
| `error_queue` | depth 3, two reasons, with and without text | the ring is the bounded queue, also when it wraps; no text lost; errors handed out stay as they are and are not handed out again |
| `registry` | tables of up to 3 structures of 6 kinds, 2 cells, handles that are equal, that only share a cell, and reserved; limits none and 2; three endings | verdict, what is reported, freeing, look-ups as promised, a structure refused for want of memory freed once, iterators give what matches and know whether there is more, the scan ends; `MCTable` |
| `registry_flags` | the same | **violated**: flags that are changed count at the next look-up |
| `structures` | tables of up to 3 of 15 shapes; strict, overlay and link flags either way | decoded as overlaid, strict and relaxed verdicts, links, properties, faults, opening ends |
| `structures_memory` | the same | **violated**: a malformed structure mistaken for lack of memory |
| `context` | the modules of Dell, HPE and Intel at the six numbers they compete for; a desktop of Dell, a server of HP, and no platform; 2 buffers, up to 2 explicit modules, one failure, room for one specification told by a signature | nothing leaks, closed is empty, open is whole, map sound and complete |
| `context_vendor` | the same | **violated**: the vendor's name may outlive its structures |
| `save` | 3 savers, 2 names, 2 moves of other processes; with and without hard links, any savers overwriting, any file at the path | temporary files are one's own and removed, no part of a dump at the path, saving in one step, replacing only what may be |
| `save_exclusive` | the same | **violated**: without hard links a file made before the rename is replaced |
| `fields` | every specification with fields; bodies from one byte below the minimum to one past two elements; counts, lengths and versions around every limit | rejected, partial, incomplete and counted as the length says; what was read is shown; both encodings |
| `pager` | 3 signals, 3 pieces of output, a pipe for 2, the standard descriptors open; `show`, `entry` and other commands | the pager is gone before the tool, no success if output was lost, the tool ends |
| `pager_quit` | the same, with `show` only | **violated**: quitting the pager is a failure |

**Why the bounds are enough.** The ring of three slots is the smallest in which
head, tail and an inner slot differ and in which two errors can be out while
others are raised over them. Three structures over two cells give chains with a
clash, without one, and with an entity in between, and a table that ends before,
at and after the limit; the theorems then lift the results to any size. In
`Structures`, every property that is violated by some bug needs at most an entry,
its target and a structure that is decoded early, or a parent and two properties: 
three structures. The shapes have each role a stage tells apart, with malformed,
mended, broken, missing and unfit variants. Two buffers of each kind are what anonymizing
holds at once. In `fields` nothing is sampled but numbers: every type, every
length at which something may end, no elements or two of them, and element lengths one below,
at and one above the smallest of use; versions are the ones before and after
those any table names. The pipe is shorter than the output, so that the tool comes to wait for the pager,
and three signals can nest three handlers deep. With three savers and two names, the third finds both names
taken by crashed savers; with two moves, a file can appear and go away
again in the gap between any two calls. Bounds that limit behaviour are constants
(`MaxLength`, `Limits`, `MaxModules`, `MaxErrors`, `MaxMoves`, `Output`, `PipeSize`,
`LastDescriptor`) and appear in guards.

**Symmetry** is used for savers and buffers, in runs without liveness
properties; no definition picks one of them with CHOOSE.

**Deadlock** is checked for the error queue, which never stops. A registry that is
destroyed, an opening that has ended, a destroyed context, savers that have ended and a tool
that has ended have nothing more to do, so it is not checked there; that nothing gets stuck earlier is
`ScanEnds`, `OpeningEnds` and `ToolEnds`. `Fields` goes on with another structure, so it is
checked there: no structure gets stuck half way.

**Fairness** is assumed of code that runs in a loop in one
thread with nothing to wait for: a scan that has started continues (`WF_vars(Scan)`),
and so does opening (`WF_vars(Next)` of `Structures`). In `Pager` the tool is scheduled whenever a
step is possible (`WF_vars(Main)`), and the pager reads what there is to read and ends at the
end of its input, as pagers that are not looked at do (`WF_vars(PagerReads)`, `WF_vars(PagerEnds)`);
nobody has to quit it, and no signal has to arrive. Callers need not make any call,
savers may stop anywhere, and nothing is assumed of other processes.

## What the runs have found

Five places where the program does something else than a comment or a manual says.

1. `registry.c:528` tells lack of memory from the last error in the queue, which
   may be left from an earlier stage that went on without memory: a malformed
   structure then fails a relaxed opening (`structures_memory`).
2. `context.c:298`: anonymizing in relaxed mode may keep a vendor name that points
   into the destroyed structures (`context_vendor`).
3. `command.c:551`: `show` exits with status 1 when its pager is quit, though the manual
   (`opendmi.1.adoc:143`) says 0. Its own flush takes the EPIPE for what it is; the tool's flush
   after it finds only the sticky error, which is EIO (`pager_quit`).
4. `registry.c:101` reads the flags at each look-up, though `context.h:298` says they
   take effect when the context is next opened (`registry_flags`).
5. `context-save.c:484`: without hard links there is a gap between the check and the
   rename, in which a file created by someone else is replaced, though `context-save.c:152`
   says it never is (`save_exclusive`). With hard links it never is (`HardLinksReplaceNone`), and
   without them nowhere but in that gap (`Implements`).

Met on the way, without a run of their own:

- `command/entry.c:127` takes any failure of its flush for one and does not ask whether the pager has
  been quit, so `entry` exits with status 1 too. The other commands may: if the broken pipe is met while
  printing and nothing is left for the tool's flush, that is EIO again. `QuitIsSuccess` is violated with
  `Commands = {"entry"}` and with `Commands = {"other"}` in the place of `{"show"}`.
- `pager/posix.c:299`: in a tool started without a standard input the pipe's read end is descriptor 0,
  which the file actions connect to itself and then close, though the comment at line 99 says that they connect it.
  The pager reads nothing and ends, the write fails with EPIPE, which counts as the pager having been
  quit, and the output is lost. `Pager` takes the descriptors the tool is started with as a constant, and the theorem
  about the status assumes a standard input among them.
- `field-decode.c:980`: a structure whose data ends within a number of an element is broken, though
  `field-decode.c:898` says it is only short of elements. The model decodes as the code does
  (`ArraysAreWhole`, `RejectedIfBroken`).
- `field-encode.c:590`: preserving is byte for byte only if the data does not end in reserved
  bytes, ranges of bits, padding, declared data or the elements of an array, and BCD
  digits are digits, though `encoder.h:35` says it always is. The property `Preserved`
  says where it is, and holds.
- In strict mode each stage is fatal (`context.c:407`), so errors that later stages would report are
  not, though `context.h:59` says all are. Within a stage they are: `StagesReportAll`.
- `context.c:230` ignores a failed rebuild on closing, since the modules left fitted
  before. They may have fitted only because a module enabled for the
  platform had moved a type away. None of the modules of the library does this
  (`ClosingFits` of `ExtensionModules`, which TLC evaluates).
- A device, a pipe or a link that comes to the path after a saver has looked (`context-save.c:310`) is replaced by the rename of one
  that may overwrite, though `context.h:428` says that these are written directly; and a regular file that takes the place of a device
  or a link before it is opened (`context-save.c:328`) is truncated and written in place.
- `registry.h:33` says of the status DECODED that all entities have been decoded,
  while in relaxed mode it is set with malformed ones left.
- An attribute with no level of its own is shown whether its group was read or not
  (`attribute.h:204`), with the value it was preset to.
- An entry of additional information about additional information is refused by opening (`entity.c:580`), while
  lint reports nothing of it (`OverlaysAgree`).
- Ranges of two structures that share a handle are not compared, though "Every pair is reported once"
  (`memory-array-addr-rules.c`); neither are the instances of such onboard devices.
- The rule `firmware.release-date` reads the string it judges, which marks it as used: `string.unreferenced` is
  checked before, so that linting twice may report less.
- Between the start of the pager and its handlers (`pager/posix.c:204`) a signal ends the tool and
  leaves the pager running, so `TerminalIsFree` speaks of a tool that has got past them.

## The proofs

TLAPS proves thirty-nine theorems for all values of the constants, from the
assumptions stated as `ASSUME` in the modules, each of which TLC evaluates on its instance: a ring of at
least one slot, an index of at least one cell, handles that are numbers, sentinels that differ from what they
stand in for, a string property with one reference (it has one member that is a handle), modules
with different codes (`dmi_module_register`, `module.c:43`, refuses a code that is taken), a tool with a
standard output and something to write, whose handled signals do not include `SIGPIPE`, and specifications of structures
that keep the rules of `Fields`. Every
inductive invariant was checked with TLC, on the instance of the run, before it was proved.

**Recursions.** Loops over a list are recursive functions on `0 .. n` in the models. `StepByStep` is induction
for a set of naturals up to n, and `RunExists` says that a function defined step by step exists, which has to
be shown before anything can be said of a recursive definition. Both are stated of sets and functions, not of
operators, so that they can be cited; they are what makes induction over data possible at all here.

**ErrorQueueProofs.** The arithmetic comes first: a place of the window wraps at
most once, so distinct places are distinct slots (`SlotAtInjective`). Type
correctness is inductive by itself. For the descriptors that were handed out, it
takes that they are outside the window, the second half of `HandedOut`, so
that only a raise, which drops them, can overwrite one. No message is lost because each raise clears exactly one slot: the sum over
the slots changes by what the cleared slot held. For `RingImplementsQueue`, each
operation on the ring is shown to be the operation on the window mapped to a
sequence, with overflow as `Tail` and `Append`.

**RegistryProofs.** `IndexFollowsSequence` is not inductive: nothing in it says that
the structure about to be put is the next one. `ScanProgress` adds that the scan is
one past the last registered structure, and that no structure before it ends the table. From
the two and `TypeOK` follow the verdict of the scan, that each entity is in one
place of the index (so that destroying frees it once), and that a walk of a chain
finds the same entity as a search of the sequence, which is the refinement. For `EntitiesFreedOnce` the invariant also says that nothing is destroyed before the registry is, but for
the structure a scan could not put into it and failed for (`FreedInv`). `RegistryImplementsPromise` takes that a
scan starts with the flags of the opening (`Unopened`). `ScanReportsAll` compares
two numbers, so both are followed through a registration: the positions of a chain that clash are in
bijection with the new pairs, as the chain rises and every earlier entity of the handle is in it.
`IteratorsGiveMatches` is a fact of every state, by induction over the calls: after n of them an
iterator stands at the place of rank n among the ones that match, or is past the last.

**StructuresProofs.** There are two inductive invariants. `OverlayInv` is about overlays: the entries attached to
a structure are those that refer to it among the ones the stage has gone past, the last of them at the end
(`OverlaysFollowTable`), and no structure has a copy while entries are still being attached, except
those which carry them (`CopiesAreOverlaid`). Without the second half a copy could be missing an entry, and
`DecodedAsOverlaid` would not be kept by `Decode`. `VerdictInv` adds what each stage owes for what it has gone past:
a fault is reported and not `clean`, or the structure is decoded or linked (`OverlayReports`, `DecodeReports`,
`LinkReports`), strict mode leaves no stage with a fault (`StrictStages`), and what is said to starve does
(`StarvingIsKnown`). The properties of a parent are in table order since links are made in it, whichever
structure's link brought the parent in. `StagesAreThorough` is an action property, from the same invariant.

**ContextProofs.** `NothingLeaks` is about states between calls, when it is too late: `WholeInv` says for each
of the steps of opening and anonymizing what the context holds by then (`Steps`), that the context
before anonymizing is whole and is still held while the new one is built (`Kept`), and that what is allocated is
what these two hold. Each step can fail, and failing from any of them frees just that. For `MapSound`, `Lists` says that
no module is enabled twice, `Maps` that the map is built from the enabled modules for the current platform at the
stages where it is (`Mapped`). It is not while a context is being opened, between the detection of the platform
and the rebuilding of the types, and the theorem needs to say so. The lemmas below it follow `MapAll` over a plan
of any length: what is in the map comes from the plan or is built in, and what a plan asks for
does not depend on the order of the modules.

`MapIsComplete` is the other half: everything the enabled modules bring is in the map. It needs every map that
was made to have been made without a conflict, and one is made whose result nobody looks at: `context.c:230` takes for granted that
modules which fitted together with others fit without them. `Fitted` is the invariant that carries this: the enabled
modules are among some that were mapped with success for the platform, set or detected. Then, on closing, `ClosingIsSafe` says that
the explicit ones alone cannot conflict. It is a premise of the theorem, as it is a fact about the modules and not about the
code: `MCContext` states it as an assumption, and TLC evaluates it on the modules of the library. What a plan without conflicts
holds at its end follows by induction over its steps (`Complete`): no later step takes away what an earlier one has put there.

**FieldsProofs.** The theorems hold for any list of fields that keeps the rules, not only those of the library, and for
data of any length. First, what `Begins` is: the places follow each other field by field (`BeginsOf`, from
`RunExists`), each is a bit within a byte of which so many bits are taken (`Place`), and they never go back. An offset is
where the fixed fields before it end (`OffsetPlaces`). None of the properties is inductive, as they only say
something of a decoding that is over. `Outcome` says what is known on the way: before a field, `AtField`
has the reader at the byte and the bit where the field begins, no group before it
begins at the end of the data, the flags, the level and the number of elements as the fields so far make them.
Within an array, `AtElement` has it as many whole elements past the array's numbers as there are elements so
far. A decoding that stops early stops within a field that begins in the data and does not end there, which
decides between `Settled` and `Broken` (`ShortSettles`). Each of the thirteen actions of the decoder has a lemma that says where
the field it reads ends (`BitsReach`, `ArrayReaches`, ...) and one that it keeps `Outcome`. For these the encoder only needs its types,
since it decides nothing that they tell; what it writes is a new body, which is decoded from the
start like any other.

`EncodingPreserves` and `RefusalsAreOfData` are about the encoder, from the invariant `Tracking`. The decoder remembers where
it has read each field: `Trace` says that these are the places `Begins` has, each field whole, and `Ended` how the trace of a decoding
that is over ends: at the end of the specification or the beginning of a group (`EndsWhole`), or within the field the data is short
of (`EndsShort`). `Follows` says that the encoder in preserve mode is, before each field and each element, at the byte and
the bit where the decoder was, and that nothing it has written differs from the source; `Aligned` that in any mode it is
where the fields of fixed size before it end, so that no offset is ever missed. What is left to refuse is data:
digits that are none, a member whose length was lost, and a structure written for a version, or made up at its end, that would be
too long (`TooLong`). One fact about the specifications was found to be needed and is now a rule: a structure has one
field that takes what is left, or is as long as another member says (`IsOpen`). And one about bodies: they are of at most
255 bytes (`BodiesAssumption`), which the length in the header is a byte of.

**SaveProofs.** `TempsAreOwn` is not inductive: removing a name could remove that of
another saver. `NamesAreOwned` adds what each name stands for: a saver's file is
at no name but the one it tries, and only while it is at work or after it has crashed.
`PathIsComplete` needs that what is about to be linked or renamed is complete
(`CommitsAreComplete`). `HardLinksReplaceNone` needs that a rename is only come
to with the flag or without hard links (`WaysAreAllowed`). For `SavingIsAtomic` each call is a step of `SaveAbs` or none: the calls that
tell the status of the path are its looks, `link` and `rename` put the dump, `open` at the path and the `close` after it write in place, and
all failures and crashes are `GiveUp`. How a saver goes on is told by the call it comes to (`Intent`), and the lemmas follow it through
the calls (`TurnsAreTaken`, `IntentNext`). That a saver writes in place only while it has the path open (`DirectIsOpen`) and saves once
(`SavedLast`) is what these need in addition. The invariant was checked with TLC first.

**PagerProofs.** `TerminalIsFree` says nothing of a tool that still runs, so it needs
`RunningIsKnown`: as long as the pager runs the tool has its identifier, exit waits
for it, and neither main nor any handler has got past waiting, however many handlers there are and in
whatever order they have interrupted each other. `StartsUnarmed` gives that to the first handler,
and `ArmedIsComplete` excludes the end by a signal that nobody handles. `StatusIsTrue` has a premise,
`StdinIsOpen`: without it the read end of the pipe can be descriptor 0, which the file actions
close after connecting it to itself. With it the pipe connects
the tool to the pager and nothing else (`PipeIsConnected`), the pager leaves in one way
and only the person leaves it with output unread (`PagerLeavesOnce`), main knows whether its output
is paged (`MainKnowsPager`), a piece that is not in the pipe or past it is still to be written,
or its loss is known to the stream or to the command, and a pager's stream is broken only by the person quitting (`LossIsKnown`). `StatusIsSettled`
follows the status through the flushes: success is said of a whole stream or of a pager that was quit, and failed output of a broken stream.
`FlushedKeepsStatusInv` is the step all flushes share. Both invariants were checked with TLC first.

**Only model-checked:** the liveness properties `ScanEnds`, `OpeningEnds` and `ToolEnds`, since neither
fairness nor ENABLED is within the provers' reach, and `CanonicalSettles` of `Fields`: decoding what was written for a version
gives a structure that would be written the same. Its proof would need the layout of a body that is
only being written, where groups are left out and numbers ahead of an array are new, to be compared with
the layout of the one it was read from: a second `Begins` and a relation between the two. What `MCTable` assumes of `EntityLayout`,
`Attributes`, `Lint` and `TypeRules` is evaluated and not proved: it is about recursive computations over data.

## Not modelled, and the plan

Not modelled for good: names, texts, formats, logging, the Windows and EFI
branches, bindings (placeholders), tests and documentation. The tables hold every type, but five
of them are decoded by a handler of their own rather than by their fields (`additional_info`,
`dell_calling_iface`, `dell_indexed_io`, `intel_rsd_processor_cpuid`, `mgmt_controller`), and those handlers
are not in `Fields`; the handlers that derive members are not
modelled for any type. The daemon returns at once: `pidfile.c` is called by
nothing, and no text says what it promises, so there is nothing to hold it to.

What could follow, in this order:

1. `EntryPoint`: choice of the specification, checksum and the version fixup.
2. `Anonymize` (`anonymize.c:560-1287`): what is kept and replaced, against the layout of the table.
3. A composition of `Structures` and `TypeMap`, for structures decoded before the
   map is rebuilt.
4. A proof of `CanonicalSettles`, see above.
