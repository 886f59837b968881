----------------------------- MODULE SaveProofs -----------------------------
(* Proofs about Save, for any number of savers, names and moves.             *)
EXTENDS Save, TLAPS

-----------------------------------------------------------------------------
(* The inductive invariant                                                   *)

\* What each name of a temporary file stands for.
NamesAreOwned ==
  /\ \A s \in Savers : Temporary(s) => attempt[s] \in Names
  /\ \A n \in Names, s \in Savers :
       temps[n] = s => n = attempt[s] /\ (Temporary(s) \/ pc[s] = "crashed")

\* What is about to be put at the path is the whole of the dump.
CommitsAreComplete ==
  \A s \in Savers :
    pc[s] \in {"link", "recheck", "rename"} \/ (pc[s] = "close" /\ s \in ok) => s \in complete

\* A saver writes to the path itself once it has opened the file there.
DirectIsOpen ==
  \A s \in Savers : s \in direct => pc[s] \in {"write", "close"} \cup Ended

\* How a saver goes on depends on whether it may overwrite and on the file
\* system, neither of which changes.
WaysAreAllowed ==
  \A s \in Savers :
    /\ pc[s] \in {"follow", "create", "link", "recheck"} => s \notin overwriting
    /\ pc[s] = "recheck" => ~hardLinks
    /\ pc[s] = "rename" => s \in overwriting \/ ~hardLinks

\* A dump is saved once.
SavedLast ==
  \A s \in Savers : s \in saved => pc[s] \in {"clean"} \cup Ended

\* No incomplete dump is ever at the path, whenever a saver fails or crashes:
\* context.h:425-428.
PathIsComplete == path \in Savers => path \in complete

Inv == /\ TypeOK /\ TempsAreOwn /\ NamesAreOwned /\ CommitsAreComplete /\ PathIsComplete
       /\ DirectIsOpen /\ WaysAreAllowed /\ SavedLast

-----------------------------------------------------------------------------
LEMMA InitInv == Init => Inv
  BY FilesAssumption, AttemptsAssumption
  DEF Init, Inv, TypeOK, TempsAreOwn, NamesAreOwned, CommitsAreComplete, PathIsComplete,
      DirectIsOpen, WaysAreAllowed, SavedLast, Temporary, Regular, Ended, Names

\* A step changes what is said of no saver but the one that takes it.
LEMMA WorkKeepsInv ==
  ASSUME Inv, NEW s \in Savers, Work(s) \/ Break(s)
  PROVE  Inv'
PROOF
<1> USE FilesAssumption, AttemptsAssumption
    DEF Inv, TypeOK, TempsAreOwn, NamesAreOwned, CommitsAreComplete, PathIsComplete,
        DirectIsOpen, WaysAreAllowed, SavedLast, Temporary, Regular, Ended, Names,
        Goto, files, given
<1>1. CASE Stat(s)
  BY <1>1 DEF Stat, Refuse
<1>0. CASE Follow(s)
  BY <1>0 DEF Follow
<1>2. CASE OpenDirect(s)
  BY <1>2 DEF OpenDirect
<1>3. CASE OpenTemp(s)
  BY <1>3 DEF OpenTemp
<1>4. CASE TryNextTemp(s)
  BY <1>4 DEF TryNextTemp
<1>5. CASE RunOutOfTemps(s)
  BY <1>5 DEF RunOutOfTemps
<1>6. CASE Write(s)
  BY <1>6 DEF Write
<1>7. CASE CloseFile(s)
  BY <1>7 DEF CloseFile, AfterClose
<1>8. CASE LinkFile(s)
  BY <1>8 DEF LinkFile
<1>9. CASE LinkExisting(s)
  BY <1>9 DEF LinkExisting
<1>10. CASE LinkUnsupported(s)
  BY <1>10 DEF LinkUnsupported
<1>11. CASE Recheck(s)
  BY <1>11 DEF Recheck
<1>12. CASE Rename(s)
  <2>1. TypeOK' /\ CommitsAreComplete' /\ PathIsComplete' /\ DirectIsOpen' /\ WaysAreAllowed' /\ SavedLast'
    BY <1>12 DEF Rename
  <2>2. Temporary(s) /\ attempt[s] \in Names /\ temps[attempt[s]] = s
    BY <1>12 DEF Rename
  <2>3. temps' = [temps EXCEPT ![attempt[s]] = Nothing] /\ attempt' = attempt /\ direct' = direct
    BY <1>12 DEF Rename
  <2>4. TempsAreOwn'
    BY <1>12, <2>2, <2>3 DEF Rename
  <2>5. NamesAreOwned'
    BY <1>12, <2>2, <2>3 DEF Rename
  <2> QED
    BY <2>1, <2>4, <2>5
<1>13. CASE Clean(s)
  <2>1. TypeOK' /\ CommitsAreComplete' /\ PathIsComplete' /\ DirectIsOpen' /\ WaysAreAllowed' /\ SavedLast'
    BY <1>13 DEF Clean
  <2>2. Temporary(s) /\ attempt[s] \in Names /\ temps[attempt[s]] = s
    BY <1>13 DEF Clean
  <2>3. temps' = [temps EXCEPT ![attempt[s]] = Nothing] /\ attempt' = attempt /\ direct' = direct
    BY <1>13 DEF Clean
  <2>4. TempsAreOwn'
    BY <1>13, <2>2, <2>3 DEF Clean
  <2>5. NamesAreOwned'
    BY <1>13, <2>2, <2>3 DEF Clean
  <2> QED
    BY <2>1, <2>4, <2>5
<1>17. CASE FailDirect(s)
  BY <1>17 DEF FailDirect
<1>14. CASE FailTemp(s)
  BY <1>14 DEF FailTemp
<1>15. CASE FailRename(s)
  BY <1>15 DEF FailRename
<1>16. CASE Crash(s)
  BY <1>16 DEF Crash
<1> QED
  BY <1>0, <1>1, <1>2, <1>3, <1>4, <1>5, <1>6, <1>7, <1>8, <1>9, <1>10, <1>11, <1>12, <1>13,
     <1>14, <1>15, <1>16, <1>17
  DEF Work, Break

\* What the other processes do.
Others == CreateForeign \/ CreateSpecial \/ RemoveFile

LEMMA MoveKeepsInv ==
  ASSUME Inv, Others
  PROVE  Inv'
PROOF
<1> USE FilesAssumption, AttemptsAssumption DEF Regular
<1>1. /\ path' \in {Nothing, Foreign, Stream, Link} /\ moves' \in 0..MaxMoves
      /\ UNCHANGED <<given, temps, pc, attempt, direct, complete, ok, saved>>
  BY DEF Inv, TypeOK, Others, CreateForeign, CreateSpecial, RemoveFile, Move
<1>2. TypeOK'
  BY <1>1 DEF Inv, TypeOK, given
<1>3. TempsAreOwn' /\ NamesAreOwned'
  BY <1>1 DEF Inv, TempsAreOwn, NamesAreOwned, Temporary
<1>4. CommitsAreComplete' /\ PathIsComplete' /\ SavedLast'
  BY <1>1 DEF Inv, CommitsAreComplete, PathIsComplete, SavedLast
<1>5. DirectIsOpen'
  BY <1>1 DEF Inv, DirectIsOpen
<1>6. WaysAreAllowed'
  BY <1>1 DEF Inv, WaysAreAllowed, given
<1> QED
  BY <1>2, <1>3, <1>4, <1>5, <1>6 DEF Inv

LEMMA NextKeepsInv == Inv /\ [Next]_vars => Inv'
PROOF
<1> SUFFICES ASSUME Inv, [Next]_vars PROVE Inv'
  OBVIOUS
<1>1. CASE Others
  BY <1>1, MoveKeepsInv
<1>2. ASSUME NEW s \in Savers, Work(s) \/ Break(s) PROVE Inv'
  BY <1>2, WorkKeepsInv
<1>3. CASE UNCHANGED vars
  BY <1>3 DEF vars, given, Inv, TypeOK, TempsAreOwn, NamesAreOwned, CommitsAreComplete,
              PathIsComplete, DirectIsOpen, WaysAreAllowed, SavedLast, Temporary
<1> QED
  BY <1>1, <1>2, <1>3 DEF Next, Others

THEOREM Invariance == Spec => []Inv
  BY InitInv, NextKeepsInv, PTL DEF Spec

-----------------------------------------------------------------------------
(* What the runs check                                                       *)

\* The state keeps its types; the names tried never go past the last.
THEOREM TypeCorrect == Spec => []TypeOK
PROOF
<1>1. Inv => TypeOK
  BY DEF Inv
<1> QED
  BY <1>1, Invariance, PTL

\* What a saver writes, renames and removes as its temporary file is the file
\* it has created, however many savers share the names (context-save.c:403-444).
THEOREM TempsStayOwn == Spec => []TempsAreOwn
PROOF
<1>1. Inv => TempsAreOwn
  BY DEF Inv
<1> QED
  BY <1>1, Invariance, PTL

\* A saver that has ended without a crash has removed its temporary file
\* (context-save.c:383, 466).
THEOREM TempsAreRemoved == Spec => []TempsRemoved
PROOF
<1>1. Inv => TempsRemoved
  BY DEF Inv, NamesAreOwned, TempsRemoved, Temporary
<1> QED
  BY <1>1, Invariance, PTL

\* A dump that is at the path is a complete one, whoever has crashed
\* (context.h:425-428).
THEOREM PathStaysComplete == Spec => []PathIsComplete
PROOF
<1>1. Inv => PathIsComplete
  BY DEF Inv
<1> QED
  BY <1>1, Invariance, PTL

-----------------------------------------------------------------------------
(* What is replaced                                                          *)

\* The one step that may replace a file is the rename, and on file systems
\* with hard links only a saver that may overwrite comes to it.
LEMMA WorkReplaces ==
  ASSUME Inv, hardLinks, NEW s \in Savers, Work(s) \/ Break(s), path' \in Savers, path' # path
  PROVE  path = Nothing \/ path' \in overwriting
PROOF
<1>1. CASE LinkFile(s)
  BY <1>1 DEF LinkFile
<1>2. CASE Rename(s)
  BY <1>2 DEF Rename, Goto, Inv, WaysAreAllowed
<1>3. CASE OpenDirect(s)
  BY <1>3, FilesAssumption DEF OpenDirect
<1>4. CASE ~LinkFile(s) /\ ~Rename(s) /\ ~OpenDirect(s)
  BY <1>4 DEF Work, Break, Stat, Follow, OpenTemp, TryNextTemp, RunOutOfTemps, Write, CloseFile,
              LinkExisting, LinkUnsupported, Recheck, Clean, FailDirect, FailTemp, FailRename,
              Crash, files
<1> QED
  BY <1>1, <1>2, <1>3, <1>4

\* Where the file system has hard links, a file is never replaced by a dump
\* that may not overwrite, even if it has been created while the dump was
\* being written (context-save.c:152-154, 463-468).
THEOREM HardLinksReplaceNone == Spec /\ hardLinks => NeverReplaced
PROOF
<1>1. Inv /\ hardLinks /\ [Next]_vars
        => [path' \in Savers /\ path' # path => path = Nothing \/ path' \in overwriting]_vars
  <2> SUFFICES ASSUME Inv, hardLinks, [Next]_vars, path' \in Savers, path' # path
               PROVE  path = Nothing \/ path' \in overwriting
    OBVIOUS
  <2>1. CASE Others
    BY <2>1, FilesAssumption DEF Others, CreateForeign, CreateSpecial, RemoveFile, Move
  <2>2. ASSUME NEW s \in Savers, Work(s) \/ Break(s)
        PROVE  path = Nothing \/ path' \in overwriting
    BY <2>2, WorkReplaces
  <2>3. CASE UNCHANGED vars
    BY <2>3 DEF vars
  <2> QED
    BY <2>1, <2>2, <2>3 DEF Next, Others
<1>2. hardLinks /\ [Next]_vars => hardLinks'
  BY DEF Next, Work, Break, Stat, Follow, OpenDirect, OpenTemp, TryNextTemp, RunOutOfTemps, Write,
         CloseFile, LinkFile, LinkExisting, LinkUnsupported, Recheck, Rename, Clean, FailDirect,
         FailTemp, FailRename, Crash, CreateForeign, CreateSpecial, RemoveFile, Move, Goto,
         given, vars
<1> QED
  BY <1>1, <1>2, Invariance, PTL DEF Spec, NeverReplaced

-----------------------------------------------------------------------------
(* Saving keeps its promise                                                  *)

\* What stands for the path in SaveAbs.
Shown == IF path \in Savers \ complete THEN "incomplete" ELSE path

AbsVars == <<hardLinks, overwriting, Shown, Intent, saved>>

\* The intent of a saver is told by the call it comes to.
LEMMA IntentNow ==
  ASSUME NEW s \in Savers
  PROVE  /\ pc[s] \in {"stat", "follow"} => Intent[s] = "look"
         /\ pc[s] = "open" => Intent[s] = "open"
         /\ pc[s] = "create" => Intent[s] = "create"
         /\ pc[s] \in {"write", "close"} =>
              Intent[s] = IF s \in direct THEN "write" ELSE "put"
         /\ pc[s] \in {"temp", "link", "recheck"} => Intent[s] = "put"
         /\ pc[s] = "rename" => Intent[s] = IF s \in overwriting THEN "put" ELSE "putNow"
         /\ pc[s] \in {"clean"} \cup Ended => Intent[s] = "over"
BY Zenon DEF Intent, IntentOf, Ended

LEMMA IntentNext ==
  ASSUME NEW s \in Savers
  PROVE  /\ pc'[s] \in {"stat", "follow"} => Intent'[s] = "look"
         /\ pc'[s] = "open" => Intent'[s] = "open"
         /\ pc'[s] = "create" => Intent'[s] = "create"
         /\ pc'[s] \in {"write", "close"} =>
              Intent'[s] = IF s \in direct' THEN "write" ELSE "put"
         /\ pc'[s] \in {"temp", "link", "recheck"} => Intent'[s] = "put"
         /\ pc'[s] = "rename" => Intent'[s] = IF s \in overwriting' THEN "put" ELSE "putNow"
         /\ pc'[s] \in {"clean"} \cup Ended => Intent'[s] = "over"
BY Zenon DEF Intent, IntentOf, Ended

LEMMA IntentIsFunction ==
  /\ Intent = [s \in Savers |-> Intent[s]]
  /\ Intent' = [s \in Savers |-> Intent'[s]]
BY DEF Intent

Calls == {"stat", "follow", "open", "create", "temp", "write", "close",
          "link", "recheck", "rename", "clean"} \cup Ended

\* The intent of a saver is one of SaveAbs.
LEMMA IntentsTyped == ASSUME Inv, NEW s \in Savers PROVE Intent[s] \in Abs!Intents
PROOF
<1>1. pc[s] \in Calls
  BY DEF Inv, TypeOK, Calls
<1> QED
  BY <1>1, IntentNow DEF Calls, Abs!Intents

\* The saver that goes from one call to another turns from one intent to
\* another, and the others keep theirs.
LEMMA TurnsAreTaken ==
  ASSUME Inv, NEW s \in Savers, NEW from, NEW to, Goto(s, from, to),
         direct' = direct \/ direct' = direct \cup {s}
  PROVE  /\ Abs!Turn(s, Intent[s], Intent'[s])
         /\ pc[s] = from /\ pc'[s] = to
PROOF
<1>1. pc' = [pc EXCEPT ![s] = to] /\ UNCHANGED <<hardLinks, overwriting>>
  BY DEF Goto, given
<1>2. /\ pc[s] = from /\ pc'[s] = to
      /\ \A r \in Savers \ {s} : pc'[r] = pc[r] /\ pc[r] \in Calls
  BY <1>1 DEF Inv, TypeOK, Goto, Calls
<1>3. ASSUME NEW r \in Savers, r # s PROVE Intent'[r] = Intent[r]
  <2>1. pc'[r] = pc[r] /\ pc[r] \in Calls
    BY <1>2, <1>3
  <2>2. (r \in direct' <=> r \in direct) /\ (r \in overwriting' <=> r \in overwriting)
    BY <1>1, <1>3
  <2> QED
    BY <2>1, <2>2, IntentNow, IntentNext DEF Calls
<1>4. Intent' = [Intent EXCEPT ![s] = Intent'[s]]
  BY <1>3, IntentIsFunction, Zenon
<1> QED
  BY <1>1, <1>2, <1>4 DEF Abs!Turn

\* A saver that keeps its intent, the path and what has been saved is not seen.
LEMMA Unseen ==
  ASSUME Inv, Inv', NEW s \in Savers, Abs!Turn(s, Intent[s], Intent[s]),
         path' = path, saved' = saved
  PROVE  UNCHANGED AbsVars
PROOF
<1>1. Shown = path /\ Shown' = path'
  BY DEF Inv, PathIsComplete, Shown
<1>2. Intent' = Intent
  BY DEF Abs!Turn, Intent
<1> QED
  BY <1>1, <1>2 DEF AbsVars, Abs!Turn

\* What fails, crashes or has come to its end is over.
LEMMA EndsAreGivenUp ==
  ASSUME Inv, Inv', NEW s \in Savers, NEW from, NEW to \in {"clean"} \cup Ended,
         Goto(s, from, to), direct' = direct, path' = path, saved' = saved
  PROVE  Abs!GiveUp(s)
PROOF
<1>1. Shown = path /\ Shown' = path'
  BY DEF Inv, PathIsComplete, Shown
<1>2. Abs!Turn(s, Intent[s], Intent'[s]) /\ pc'[s] = to
  BY TurnsAreTaken
<1>3. Abs!Turn(s, Intent[s], "over")
  BY <1>2, IntentNext
<1> QED
  BY <1>1, <1>3, IntentsTyped DEF Abs!GiveUp, Shown

Seen(s) == \/ Abs!Look(s) \/ Abs!LookAgain(s) \/ Abs!Put(s) \/ Abs!Open(s)
           \/ Abs!Written(s) \/ Abs!GiveUp(s)

\* The first look.
LEMMA LooksAreLooks ==
  ASSUME Inv, Inv', NEW s \in Savers, Stat(s) \/ Follow(s)
  PROVE  Seen(s) \/ UNCHANGED AbsVars
PROOF
<1>1. Shown = path /\ Shown' = path' /\ path' = path /\ saved' = saved /\ direct' = direct
  BY DEF Inv, PathIsComplete, Shown, Stat, Follow, files
<1>2. Intent[s] = "look"
  BY IntentNow DEF Stat, Follow, Goto
<1>3. CASE Refuse(s) /\ Goto(s, "stat", "failed")
  BY <1>1, <1>3, EndsAreGivenUp DEF Seen, Ended
<1>4. CASE path \in {Nothing} \cup Regular /\ ~Refuse(s) /\ Goto(s, "stat", "temp")
  <2>1. Abs!Turn(s, "look", "put")
    BY <1>1, <1>2, <1>4, TurnsAreTaken, IntentNext
  <2>2. path = Nothing \/ (path \notin {Stream, Link} /\ s \in overwriting)
    BY <1>4, FilesAssumption DEF Refuse, Regular
  <2> QED
    BY <1>1, <2>1, <2>2 DEF Seen, Abs!Look, Shown
<1>5. CASE (path = Stream \/ (path = Link /\ s \in overwriting)) /\ Goto(s, "stat", "open")
  <2>1. Abs!Turn(s, "look", "open")
    BY <1>1, <1>2, <1>5, TurnsAreTaken, IntentNext
  <2> QED
    BY <1>1, <1>5, <2>1 DEF Seen, Abs!Look, Shown
<1>6. CASE Goto(s, "stat", "follow")
  <2>1. Abs!Turn(s, "look", "look")
    BY <1>1, <1>2, <1>6, TurnsAreTaken, IntentNext
  <2> QED
    BY <1>1, <1>2, <2>1, Unseen
<1>7. CASE Goto(s, "follow", "open") /\ path = Stream
  <2>1. Abs!Turn(s, "look", "open")
    BY <1>1, <1>2, <1>7, TurnsAreTaken, IntentNext
  <2> QED
    BY <1>1, <1>7, <2>1 DEF Seen, Abs!Look, Shown
<1>8. CASE Goto(s, "follow", "create")
  <2>1. Abs!Turn(s, "look", "create")
    BY <1>1, <1>2, <1>8, TurnsAreTaken, IntentNext
  <2>2. s \notin overwriting
    BY <1>8 DEF Goto, Inv, WaysAreAllowed
  <2> QED
    BY <1>1, <2>1, <2>2 DEF Seen, Abs!Look, Shown
<1> QED
  BY <1>3, <1>4, <1>5, <1>6, <1>7, <1>8 DEF Stat, Follow

\* What is written at the path itself.
LEMMA OpensAreOpens ==
  ASSUME Inv, Inv', NEW s \in Savers, OpenDirect(s)
  PROVE  Seen(s)
PROOF
<1>1. Shown = path /\ Shown' = path'
  BY DEF Inv, PathIsComplete, Shown
<1>2. /\ path' = (IF path \in {Stream, Link} THEN path ELSE InPlace) /\ saved' = saved
      /\ direct' = direct \cup {s} /\ s \in direct'
  BY DEF OpenDirect
<1>3. CASE Goto(s, "open", "write")
  <2>1. Intent[s] = "open"
    BY <1>3, IntentNow DEF Goto
  <2>2. Abs!Turn(s, "open", "write")
    BY <1>2, <1>3, <2>1, TurnsAreTaken, IntentNext
  <2> QED
    BY <1>1, <1>2, <2>2 DEF Seen, Abs!Open, Shown
<1>4. CASE Goto(s, "create", "write") /\ path = Nothing
  <2>1. Intent[s] = "create"
    BY <1>4, IntentNow DEF Goto
  <2>2. Abs!Turn(s, "create", "write")
    BY <1>2, <1>4, <2>1, TurnsAreTaken, IntentNext
  <2> QED
    BY <1>1, <1>2, <1>4, <2>2 DEF Seen, Abs!Open, Shown
<1> QED
  BY <1>3, <1>4 DEF OpenDirect

LEMMA CloseIsSeen ==
  ASSUME Inv, Inv', NEW s \in Savers, CloseFile(s)
  PROVE  Seen(s) \/ UNCHANGED AbsVars
PROOF
<1>1. Shown = path /\ Shown' = path' /\ path' = path /\ direct' = direct
  BY DEF Inv, PathIsComplete, Shown, CloseFile, files
<1>2. PICK closed \in BOOLEAN :
        /\ Goto(s, "close", AfterClose(s, closed))
        /\ saved' = IF AfterClose(s, closed) = "done" THEN saved \cup {s} ELSE saved
  BY DEF CloseFile
<1>3. Intent[s] = IF s \in direct THEN "write" ELSE "put"
  BY <1>2, IntentNow DEF Goto
<1>4. CASE AfterClose(s, closed) = "done"
  <2>1. s \in direct
    BY <1>4 DEF AfterClose
  <2>2. Abs!Turn(s, "write", "over")
    BY <1>1, <1>2, <1>3, <1>4, <2>1, TurnsAreTaken, IntentNext DEF Ended
  <2> QED
    BY <1>1, <1>2, <1>4, <2>2 DEF Seen, Abs!Written, Shown
<1>5. CASE AfterClose(s, closed) \in {"failed", "clean"}
  BY <1>1, <1>2, <1>5, EndsAreGivenUp DEF Seen, Ended
<1>6. CASE AfterClose(s, closed) \in {"rename", "link"}
  <2>1. s \notin direct /\ (AfterClose(s, closed) = "rename" => s \in overwriting)
    BY <1>6 DEF AfterClose
  <2>2. overwriting' = overwriting
    BY <1>2 DEF Goto, given
  <2>3. Abs!Turn(s, "put", "put")
    BY <1>1, <1>2, <1>3, <1>6, <2>1, <2>2, TurnsAreTaken, IntentNext
  <2> QED
    BY <1>1, <1>2, <1>3, <1>6, <2>1, <2>3, Unseen
<1> QED
  BY <1>4, <1>5, <1>6 DEF AfterClose

\* The second look, and the call that puts the dump at the path.
LEMMA CommitsArePuts ==
  ASSUME Inv, Inv', NEW s \in Savers, LinkFile(s) \/ Recheck(s) \/ Rename(s)
  PROVE  Seen(s)
PROOF
<1>1. Shown = path /\ Shown' = path'
  BY DEF Inv, PathIsComplete, Shown
<1>2. direct' = direct
  BY DEF LinkFile, Recheck, Rename
<1>3. CASE LinkFile(s)
  <2>1. Goto(s, "link", "clean") /\ path = Nothing /\ path' = s /\ saved' = saved \cup {s}
    BY <1>3 DEF LinkFile
  <2>2. Intent[s] = "put"
    BY <2>1, IntentNow DEF Goto
  <2>3. Abs!Turn(s, "put", "over")
    BY <1>2, <2>1, <2>2, TurnsAreTaken, IntentNext
  <2> QED
    BY <1>1, <2>1, <2>3 DEF Seen, Abs!Put, Shown
<1>4. CASE Recheck(s) /\ path = Nothing
  <2>1. Goto(s, "recheck", "rename") /\ path' = path /\ saved' = saved
    BY <1>4 DEF Recheck, files
  <2>2. ~hardLinks /\ s \notin overwriting /\ s \notin overwriting'
    BY <2>1 DEF Goto, given, Inv, WaysAreAllowed
  <2>3. Intent[s] = "put"
    BY <2>1, IntentNow DEF Goto
  <2>4. Abs!Turn(s, "put", "putNow")
    BY <1>2, <2>1, <2>2, <2>3, TurnsAreTaken, IntentNext
  <2> QED
    BY <1>1, <1>4, <2>1, <2>2, <2>4 DEF Seen, Abs!LookAgain, Shown
<1>5. CASE Recheck(s) /\ path # Nothing
  <2>1. Goto(s, "recheck", "clean") /\ path' = path /\ saved' = saved
    BY <1>5 DEF Recheck, files
  <2> QED
    BY <1>2, <2>1, EndsAreGivenUp DEF Seen
<1>6. CASE Rename(s)
  <2>1. Goto(s, "rename", "done") /\ path' = s /\ saved' = saved \cup {s}
    BY <1>6 DEF Rename
  <2>2. Intent[s] = IF s \in overwriting THEN "put" ELSE "putNow"
    BY <2>1, IntentNow DEF Goto
  <2>3. Abs!Turn(s, Intent[s], "over")
    BY <1>2, <2>1, TurnsAreTaken, IntentNext DEF Ended
  <2> QED
    BY <1>1, <2>1, <2>2, <2>3 DEF Seen, Abs!Put, Shown
<1> QED
  BY <1>3, <1>4, <1>5, <1>6

\* Calls that change neither the path nor the intent of the saver.
LEMMA TempsAreUnseen ==
  ASSUME Inv, Inv', NEW s \in Savers,
         OpenTemp(s) \/ TryNextTemp(s) \/ Write(s) \/ LinkUnsupported(s)
  PROVE  UNCHANGED AbsVars
PROOF
<1>1. path' = path /\ saved' = saved /\ direct' = direct
  BY DEF OpenTemp, TryNextTemp, Write, LinkUnsupported, files
<1>2. CASE OpenTemp(s) \/ TryNextTemp(s) \/ LinkUnsupported(s)
  <2>1. PICK from \in {"temp", "link"}, to \in {"temp", "write", "recheck"} : Goto(s, from, to)
    BY <1>2 DEF OpenTemp, TryNextTemp, LinkUnsupported
  <2>2. s \notin direct /\ Intent[s] = "put"
    BY <2>1, IntentNow DEF Goto, Inv, DirectIsOpen, Ended
  <2>3. Abs!Turn(s, "put", "put")
    BY <1>1, <2>1, <2>2, TurnsAreTaken, IntentNext
  <2> QED
    BY <1>1, <2>2, <2>3, Unseen
<1>3. CASE Write(s)
  <2>1. Goto(s, "write", "close")
    BY <1>3 DEF Write
  <2>2. pc[s] = "write" /\ pc'[s] = "close" /\ Abs!Turn(s, Intent[s], Intent'[s])
    BY <1>1, <2>1, TurnsAreTaken
  <2>3. Abs!Turn(s, Intent[s], Intent[s])
    BY <1>1, <2>2, IntentNow, IntentNext
  <2> QED
    BY <1>1, <2>3, Unseen
<1> QED
  BY <1>2, <1>3

LEMMA FailuresAreGivenUp ==
  ASSUME Inv, Inv', NEW s \in Savers,
         \/ FailDirect(s) \/ RunOutOfTemps(s) \/ FailTemp(s) \/ LinkExisting(s)
         \/ FailRename(s) \/ Clean(s) \/ Crash(s)
  PROVE  Abs!GiveUp(s)
PROOF
<1>1. path' = path /\ saved' = saved /\ direct' = direct
  BY DEF FailDirect, RunOutOfTemps, FailTemp, LinkExisting, FailRename, Clean, Crash, files
<1>2. \E from, to : to \in {"clean"} \cup Ended /\ Goto(s, from, to)
  BY Zenon DEF FailDirect, RunOutOfTemps, FailTemp, LinkExisting, FailRename, Clean, Crash, Goto, Ended,
               given
<1> QED
  BY <1>1, <1>2, EndsAreGivenUp

LEMMA MoveIsMove ==
  ASSUME Inv, Inv', Others
  PROVE  Abs!Create \/ Abs!Remove
PROOF
<1>1. Shown = path /\ Shown' = path'
  BY DEF Inv, PathIsComplete, Shown
<1>2. UNCHANGED <<hardLinks, overwriting, pc, direct, saved>>
  BY DEF Others, CreateForeign, CreateSpecial, RemoveFile, Move, given
<1>3. Intent' = Intent
  BY <1>2 DEF Intent, IntentOf
<1>4. CASE CreateForeign \/ CreateSpecial
  BY <1>1, <1>2, <1>3, <1>4 DEF CreateForeign, CreateSpecial, Move, Abs!Create, Shown
<1>5. CASE RemoveFile
  BY <1>1, <1>2, <1>3, <1>5, FilesAssumption DEF RemoveFile, Move, Regular, Abs!Remove, Shown
<1> QED
  BY <1>4, <1>5 DEF Others

\* Whatever fails or crashes, and whatever others put at the path meanwhile, a
\* dump into a file appears there in one step, all of it, and replaces what is
\* there only if it may overwrite, or in the gap between the second look and
\* the rename that file systems without hard links leave (context.h:413-450).
THEOREM SavingIsAtomic == Spec => Implements
PROOF
<1>1. Init => Abs!Init
  <2> SUFFICES ASSUME Init PROVE Abs!Init
    OBVIOUS
  <2>1. Shown = path
    BY FilesAssumption DEF Init, Shown
  <2>2. \A s \in Savers : Intent[s] = "look"
    BY IntentNow DEF Init
  <2>3. Intent = [s \in Savers |-> "look"]
    BY <2>2, IntentIsFunction, Zenon
  <2> QED
    BY <2>1, <2>3 DEF Init, Abs!Init, Shown
<1>2. Inv /\ Inv' /\ [Next]_vars => [Abs!Next]_(Abs!vars)
  <2> SUFFICES ASSUME Inv, Inv', [Next]_vars PROVE [Abs!Next]_(Abs!vars)
    OBVIOUS
  <2>1. UNCHANGED AbsVars => UNCHANGED Abs!vars
    BY DEF AbsVars, Abs!vars, Shown
  <2>2. CASE Others
    BY <2>2, MoveIsMove DEF Abs!Next
  <2>3. ASSUME NEW s \in Savers, Work(s) \/ Break(s) PROVE Seen(s) \/ UNCHANGED AbsVars
    <3>1. CASE Stat(s) \/ Follow(s)
      BY <3>1, LooksAreLooks
    <3>2. CASE OpenDirect(s)
      BY <3>2, OpensAreOpens
    <3>3. CASE CloseFile(s)
      BY <3>3, CloseIsSeen
    <3>4. CASE LinkFile(s) \/ Recheck(s) \/ Rename(s)
      BY <3>4, CommitsArePuts
    <3>5. CASE OpenTemp(s) \/ TryNextTemp(s) \/ Write(s) \/ LinkUnsupported(s)
      BY <3>5, TempsAreUnseen
    <3>6. CASE \/ FailDirect(s) \/ RunOutOfTemps(s) \/ FailTemp(s) \/ LinkExisting(s)
               \/ FailRename(s) \/ Clean(s) \/ Crash(s)
      BY <3>6, FailuresAreGivenUp DEF Seen
    <3> QED
      BY <2>3, <3>1, <3>2, <3>3, <3>4, <3>5, <3>6 DEF Work, Break
  <2>4. CASE UNCHANGED vars
    <3>1. UNCHANGED <<hardLinks, overwriting, path, pc, direct, complete, saved>>
      BY <2>4 DEF vars, given
    <3>2. Intent' = Intent
      BY <3>1 DEF Intent, IntentOf
    <3> QED
      BY <2>1, <3>1, <3>2 DEF AbsVars, Shown
  <2> QED
    BY <2>1, <2>2, <2>3, <2>4 DEF Next, Others, Seen, Abs!Next
<1> QED
  BY <1>1, <1>2, Invariance, PTL DEF Spec, Implements, Abs!Spec

=============================================================================
