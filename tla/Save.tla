-------------------------------- MODULE Save --------------------------------
(* Saving a dump (libopendmi/src/context-save.c): several savers, threads of *)
(* a process or processes one after another with its number, write dumps for *)
(* the same path while other processes create and remove files, devices and  *)
(* links there, and any of them may crash between two system calls.          *)
(*                                                                           *)
(* A temporary file is named by the saver that has created it, which is the  *)
(* inode: it may be at the path, at the name of a temporary file, or both.   *)
(* Of a file that is written at the path itself nothing but that is known.   *)
EXTENDS Naturals

CONSTANTS
  Savers,
  Nothing,    \* no file
  Foreign,    \* a regular file of another process
  InPlace,    \* a regular file that a saver has opened at the path
  Stream,     \* a device or a pipe, or a symbolic link to one
  Link,       \* a symbolic link to a regular file, or to nothing
  Attempts,   \* DMI_SAVE_TEMP_ATTEMPTS
  MaxMoves    \* bound on what the other processes do

ASSUME AttemptsAssumption == Attempts \in Nat /\ MaxMoves \in Nat
ASSUME FilesAssumption    == /\ {Nothing, Foreign, InPlace, Stream, Link} \cap Savers = {}
                             /\ Nothing \notin {Foreign, InPlace, Stream, Link}
                             /\ {Foreign, InPlace} \cap {Stream, Link} = {}
                             /\ Foreign # InPlace /\ Stream # Link

VARIABLES
  hardLinks,    \* whether link(2) fails for nothing but a file that exists
  overwriting,  \* savers that may overwrite the file
  path,         \* what is at the path
  temps,        \* what is at each name of a temporary file
  pc,           \* the system call each saver comes to
  attempt,      \* number in the name of the temporary file
  direct,       \* savers that write to the path itself
  complete,     \* savers whose file holds the whole of the dump
  ok,           \* savers that have met no failure
  saved,        \* savers whose dump is in place
  moves         \* how many times the other processes have moved

files == <<path, temps>>
given == <<hardLinks, overwriting>>
vars  == <<given, path, temps, pc, attempt, direct, complete, ok, saved, moves>>

Names   == 0..(Attempts - 1)
Ended   == {"done", "failed", "crashed"}
Regular == {Foreign, InPlace} \cup Savers

Goto(s, from, to) ==
  /\ pc[s] = from
  /\ pc' = [pc EXCEPT ![s] = to]
  /\ UNCHANGED <<given, moves>>

-----------------------------------------------------------------------------
(* dmi_save_open and dmi_save_temp_open                                      *)

Refuse(s) == path \in Regular /\ s \notin overwriting

(* The status of the target is told once, and what it was told decides how   *)
(* the dump is written.  A link, which a stream may be seen through, is      *)
(* looked through once more unless the dump is overwriting.                  *)
Stat(s) ==
  /\ \/ Refuse(s) /\ Goto(s, "stat", "failed")
     \/ path \in {Nothing} \cup Regular /\ ~Refuse(s) /\ Goto(s, "stat", "temp")
     \/ /\ path = Stream \/ (path = Link /\ s \in overwriting)
        /\ Goto(s, "stat", "open")
     \/ path \in {Stream, Link} /\ s \notin overwriting /\ Goto(s, "stat", "follow")
  /\ UNCHANGED <<files, attempt, direct, complete, ok, saved>>

Follow(s) ==
  /\ Goto(s, "follow", IF path = Stream THEN "open" ELSE "create")
  /\ UNCHANGED <<files, attempt, direct, complete, ok, saved>>

(* Whatever is at the path by now is created, truncated or followed, unless  *)
(* a link has been found that is not to be: then there must be nothing.      *)
OpenDirect(s) ==
  /\ \/ Goto(s, "open", "write")
     \/ Goto(s, "create", "write") /\ path = Nothing
  /\ path' = IF path \in {Stream, Link} THEN path ELSE InPlace
  /\ direct' = direct \cup {s}
  /\ UNCHANGED <<temps, attempt, complete, ok, saved>>

FailDirect(s) ==
  /\ Goto(s, "open", "failed") \/ Goto(s, "create", "failed")
  /\ UNCHANGED <<files, attempt, direct, complete, ok, saved>>

\* Mutant of OpenTemp: a file of that name is opened and truncated.
OpenAnyTemp(s) ==
  /\ attempt[s] \in Names
  /\ Goto(s, "temp", "write")
  /\ temps' = [temps EXCEPT ![attempt[s]] = s]
  /\ UNCHANGED <<path, attempt, direct, complete, ok, saved>>

(* The file is never one that has existed before.                            *)
OpenTemp(s) ==
  /\ attempt[s] \in Names
  /\ temps[attempt[s]] = Nothing
  /\ Goto(s, "temp", "write")
  /\ temps' = [temps EXCEPT ![attempt[s]] = s]
  /\ UNCHANGED <<path, attempt, direct, complete, ok, saved>>

\* Mutant of TryNextTemp: one name too many is tried, and taken to exist.
TryOneTempMore(s) ==
  /\ attempt[s] <= Attempts
  /\ attempt[s] \in Names => temps[attempt[s]] # Nothing
  /\ Goto(s, "temp", "temp")
  /\ attempt' = [attempt EXCEPT ![s] = @ + 1]
  /\ UNCHANGED <<files, direct, complete, ok, saved>>

TryNextTemp(s) ==
  /\ attempt[s] \in Names
  /\ temps[attempt[s]] # Nothing
  /\ Goto(s, "temp", "temp")
  /\ attempt' = [attempt EXCEPT ![s] = @ + 1]
  /\ UNCHANGED <<files, direct, complete, ok, saved>>

RunOutOfTemps(s) ==
  /\ attempt[s] \notin Names
  /\ Goto(s, "temp", "failed")
  /\ UNCHANGED <<files, attempt, direct, complete, ok, saved>>

FailTemp(s) ==
  /\ attempt[s] \in Names
  /\ Goto(s, "temp", "failed")
  /\ UNCHANGED <<files, attempt, direct, complete, ok, saved>>

-----------------------------------------------------------------------------
(* dmi_dump_write and dmi_save_close                                         *)

Write(s) ==
  /\ Goto(s, "write", "close")
  /\ \/ complete' = complete \cup {s} /\ ok' = ok
     \/ ok' = ok \ {s} /\ UNCHANGED complete
  /\ UNCHANGED <<files, attempt, direct, saved>>

AfterClose(s, closed) ==
  IF s \in direct THEN IF closed /\ s \in ok THEN "done" ELSE "failed"
  ELSE IF ~(closed /\ s \in ok) THEN "clean"
  ELSE IF s \in overwriting THEN "rename" ELSE "link"

CloseFile(s) == \E closed \in BOOLEAN :
  /\ Goto(s, "close", AfterClose(s, closed))
  /\ ok' = IF closed THEN ok ELSE ok \ {s}
  /\ saved' = IF AfterClose(s, closed) = "done" THEN saved \cup {s} ELSE saved
  /\ UNCHANGED <<files, attempt, direct, complete>>

-----------------------------------------------------------------------------
(* dmi_save_commit: link(2), which makes a file only if there is none, or    *)
(* rename(2), which replaces one                                             *)

LinkFile(s) ==
  /\ path = Nothing
  /\ Goto(s, "link", "clean")
  /\ path' = s
  /\ saved' = saved \cup {s}
  /\ UNCHANGED <<temps, attempt, direct, complete, ok>>

(* A file that exists may be what a link fails for on any file system.       *)
LinkExisting(s) ==
  /\ path # Nothing
  /\ Goto(s, "link", "clean")
  /\ ok' = ok \ {s}
  /\ UNCHANGED <<files, attempt, direct, complete, saved>>

(* File systems with no hard links leave nothing but a rename, so the target *)
(* is checked to be missing once again.                                      *)
LinkUnsupported(s) ==
  /\ ~hardLinks
  /\ Goto(s, "link", "recheck")
  /\ UNCHANGED <<files, attempt, direct, complete, ok, saved>>

\* Mutant of Recheck: the status of the target is not told again.
RecheckNot(s) ==
  /\ Goto(s, "recheck", "rename")
  /\ UNCHANGED <<files, attempt, direct, complete, ok, saved>>

Recheck(s) ==
  /\ Goto(s, "recheck", IF path = Nothing THEN "rename" ELSE "clean")
  /\ ok' = IF path = Nothing THEN ok ELSE ok \ {s}
  /\ UNCHANGED <<files, attempt, direct, complete, saved>>

Rename(s) ==
  /\ Goto(s, "rename", "done")
  /\ path' = s
  /\ temps' = [temps EXCEPT ![attempt[s]] = Nothing]
  /\ saved' = saved \cup {s}
  /\ UNCHANGED <<attempt, direct, complete, ok>>

FailRename(s) ==
  /\ Goto(s, "rename", "clean")
  /\ ok' = ok \ {s}
  /\ UNCHANGED <<files, attempt, direct, complete, saved>>

\* Mutant of Clean: the temporary file is only removed after a failure.
CleanFailed(s) ==
  /\ Goto(s, "clean", IF s \in ok THEN "done" ELSE "failed")
  /\ temps' = IF s \in ok THEN temps ELSE [temps EXCEPT ![attempt[s]] = Nothing]
  /\ UNCHANGED <<path, attempt, direct, complete, ok, saved>>

(* The name of the temporary file is removed, whether the dump is in place   *)
(* under the other name or has failed.                                       *)
Clean(s) ==
  /\ Goto(s, "clean", IF s \in ok THEN "done" ELSE "failed")
  /\ temps' = [temps EXCEPT ![attempt[s]] = Nothing]
  /\ UNCHANGED <<path, attempt, direct, complete, ok, saved>>

-----------------------------------------------------------------------------
Crash(s) ==
  /\ pc[s] \notin Ended
  /\ pc' = [pc EXCEPT ![s] = "crashed"]
  /\ UNCHANGED <<given, files, attempt, direct, complete, ok, saved, moves>>

Move(from, to) ==
  /\ moves < MaxMoves
  /\ moves' = moves + 1
  /\ path \in from
  /\ path' = to
  /\ UNCHANGED <<given, temps, pc, attempt, direct, complete, ok, saved>>

CreateForeign == Move({Nothing}, Foreign)
CreateSpecial == \E file \in {Stream, Link} : Move({Nothing}, file)
RemoveFile    == Move({Stream, Link} \cup Regular, Nothing)

Init ==
  /\ hardLinks \in BOOLEAN
  /\ overwriting \in SUBSET Savers
  /\ path \in {Nothing, Foreign, Stream, Link}
  /\ temps = [n \in Names |-> Nothing]
  /\ pc = [s \in Savers |-> "stat"]
  /\ attempt = [s \in Savers |-> 0]
  /\ direct = {}
  /\ complete = {}
  /\ ok = Savers
  /\ saved = {}
  /\ moves = 0

(* What a saver does, and the system calls that fail under it.               *)
Work(s) ==
  \/ Stat(s) \/ Follow(s) \/ OpenDirect(s) \/ OpenTemp(s) \/ TryNextTemp(s) \/ RunOutOfTemps(s)
  \/ Write(s) \/ CloseFile(s) \/ LinkFile(s) \/ LinkExisting(s) \/ LinkUnsupported(s)
  \/ Recheck(s) \/ Rename(s) \/ Clean(s)

Break(s) == FailDirect(s) \/ FailTemp(s) \/ FailRename(s) \/ Crash(s)

Next == CreateForeign \/ CreateSpecial \/ RemoveFile \/ \E s \in Savers : Work(s) \/ Break(s)

Spec == Init /\ [][Next]_vars

-----------------------------------------------------------------------------
(* Properties                                                                *)

TypeOK ==
  /\ hardLinks \in BOOLEAN
  /\ overwriting \subseteq Savers
  /\ path \in {Nothing, Stream, Link} \cup Regular
  /\ temps \in [Names -> Savers \cup {Nothing}]
  /\ pc \in [Savers -> {"stat", "follow", "open", "create", "temp", "write", "close",
                        "link", "recheck", "rename", "clean"} \cup Ended]
  /\ attempt \in [Savers -> 0..Attempts]
  /\ direct \subseteq Savers /\ complete \subseteq Savers /\ ok \subseteq Savers
  /\ saved \subseteq Savers
  /\ moves \in 0..MaxMoves

Temporary(s) == s \notin direct /\ pc[s] \in {"write", "close", "link", "recheck", "rename", "clean"}

(* What a saver writes, renames and removes under the name of its temporary  *)
(* file is the file it has created, whoever else saves under that name:      *)
(* context-save.c:403-444.                                                   *)
TempsAreOwn == \A s \in Savers : Temporary(s) => temps[attempt[s]] = s

(* A saver that has not crashed leaves no temporary file behind:             *)
(* context-save.c:383, 466.                                                  *)
TempsRemoved ==
  \A s \in Savers : pc[s] \in {"done", "failed"} => \A n \in Names : temps[n] # s

(* How a saver goes on in SaveAbs is told by the call it comes to.           *)
IntentOf(s) ==
  CASE pc[s] \in {"stat", "follow"}          -> "look"
    [] pc[s] \in {"open", "create"}          -> pc[s]
    [] pc[s] \in {"write", "close"}          -> IF s \in direct THEN "write" ELSE "put"
    [] pc[s] \in {"temp", "link", "recheck"} -> "put"
    [] pc[s] = "rename"                      -> IF s \in overwriting THEN "put" ELSE "putNow"
    [] pc[s] \in {"clean"} \cup Ended        -> "over"

Intent == [s \in Savers |-> IntentOf(s)]

(* What SaveAbs sees of a saver, of the path and of the file system.        *)
Abs == INSTANCE SaveAbs WITH
  exclusive <- hardLinks,
  path <- IF path \in Savers \ complete THEN "incomplete" ELSE path,
  intent <- Intent

(* A dump into a file appears at the path in one step, all of it.  It        *)
(* replaces what has come there since the first look only if it may          *)
(* overwrite, or in the gap between the second look and the rename that file *)
(* systems without hard links leave: SaveAbs.                                *)
Implements == Abs!Spec

(* A file that exists is never replaced by a dump that may not overwrite,    *)
(* even if it has been created while the dump was being written:             *)
(* context-save.c:152-154.                                                   *)
NeverReplaced ==
  [][path' \in Savers /\ path' # path => path = Nothing \/ path' \in overwriting]_vars

=============================================================================
