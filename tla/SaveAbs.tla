------------------------------ MODULE SaveAbs -------------------------------
(* What dmi_save promises of the file it is given a path to                  *)
(* (libopendmi/include/opendmi/context.h:413-450, context-save.c:88-103 and  *)
(* 147-156), in as few steps as others can come between.                     *)
(*                                                                           *)
(* A saver looks at the path once, and what it finds decides how the dump is *)
(* saved.  Over a regular file, if it may replace one, or where there is     *)
(* nothing, the dump is put: it appears all at once, in place of what there  *)
(* is by then if it may overwrite, and only if there is still nothing if it  *)
(* may not.  Where a file system cannot tell that in the step that puts the  *)
(* dump, the saver looks again, and what appears between this look and the   *)
(* next step is replaced: nothing else ever is.  Devices, pipes and links    *)
(* that are followed are written in place, and so is a file the saver makes  *)
(* because it may not follow a link.                                         *)
CONSTANTS Savers, Nothing, Foreign, InPlace, Stream, Link

VARIABLES
  exclusive,    \* whether a file may be made only if there is none
  overwriting,  \* the savers that have been given DMI_SAVE_FLAG_OVERWRITE
  path,         \* what is at the path: a saver stands for its complete dump
  intent,       \* how each saver goes on
  saved         \* the savers whose dump has been saved

vars == <<exclusive, overwriting, path, intent, saved>>

Intents == {"look", "put", "putNow", "open", "create", "write", "over"}

Turn(s, from, to) ==
  /\ intent[s] = from
  /\ intent' = [intent EXCEPT ![s] = to]
  /\ UNCHANGED <<exclusive, overwriting>>

Look(s) ==
  /\ \/ /\ path = Nothing \/ (path \notin {Stream, Link} /\ s \in overwriting)
        /\ Turn(s, "look", "put")
     \/ /\ path = Stream \/ (path = Link /\ s \in overwriting)
        /\ Turn(s, "look", "open")
     \/ /\ s \notin overwriting
        /\ Turn(s, "look", "create")
  /\ UNCHANGED <<path, saved>>

LookAgain(s) ==
  /\ ~exclusive /\ s \notin overwriting /\ path = Nothing
  /\ Turn(s, "put", "putNow")
  /\ UNCHANGED <<path, saved>>

Put(s) ==
  /\ \/ Turn(s, "put", "over") /\ (path = Nothing \/ s \in overwriting)
     \/ Turn(s, "putNow", "over")
  /\ path' = s
  /\ saved' = saved \cup {s}

(* A file that is opened to be written in place is truncated.                *)
Open(s) ==
  /\ \/ Turn(s, "open", "write")
     \/ Turn(s, "create", "write") /\ path = Nothing
  /\ path' = IF path \in {Stream, Link} THEN path ELSE InPlace
  /\ UNCHANGED saved

Written(s) ==
  /\ Turn(s, "write", "over")
  /\ saved' = saved \cup {s}
  /\ UNCHANGED path

(* Anything may fail, and any saver may crash.                               *)
GiveUp(s) ==
  /\ \E from \in Intents : Turn(s, from, "over")
  /\ UNCHANGED <<path, saved>>

(* Other processes create and remove files, devices, pipes and links.        *)
Create ==
  /\ path = Nothing
  /\ path' \in {Foreign, Stream, Link}
  /\ UNCHANGED <<exclusive, overwriting, intent, saved>>

Remove ==
  /\ path # Nothing
  /\ path' = Nothing
  /\ UNCHANGED <<exclusive, overwriting, intent, saved>>

Init ==
  /\ exclusive \in BOOLEAN
  /\ overwriting \subseteq Savers
  /\ path \in {Nothing, Foreign, Stream, Link}
  /\ intent = [s \in Savers |-> "look"]
  /\ saved = {}

Next ==
  \/ Create \/ Remove
  \/ \E s \in Savers : Look(s) \/ LookAgain(s) \/ Put(s) \/ Open(s) \/ Written(s) \/ GiveUp(s)

Spec == Init /\ [][Next]_vars

=============================================================================
