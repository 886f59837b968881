------------------------------- MODULE Pager -------------------------------
(***************************************************************************)
(* The pager of the command line tool: opendmi/src/pager/posix.c, and what *)
(* becomes of the output and of the exit status: opendmi/src/command.c,    *)
(* with the commands of opendmi/src/command that flush by themselves.      *)
(*                                                                         *)
(* The tool makes a pipe, spawns the pager with the read end as its        *)
(* standard input, puts the write end in place of its own standard output  *)
(* and, before it ends, closes that output and waits for the pager.  It    *)
(* ends by returning from main or by a signal, which may arrive between    *)
(* any two steps, those of another signal's handler included.  Descriptor  *)
(* tables are those of the system: pipe() takes the lowest free numbers.   *)
(* The pager and the person in front of it are the environment: they read, *)
(* quit whenever they like, and leave once the input has ended.            *)
(*                                                                         *)
(* The output passes through a stream of the C library.  It is written at  *)
(* any time while the command prints, and what is left of it by the next   *)
(* flush.  A write that fails loses what the stream holds and leaves the   *)
(* stream failed for good; the next flush finds nothing to write then, and *)
(* tells only that there has been a failure.                               *)
(***************************************************************************)
EXTENDS Naturals, Sequences, FiniteSets

CONSTANTS
  Commands,      \* the commands which the tool may be run with
  Signals,       \* dmi_pager_signals
  Output,        \* pieces of output the command writes
  PipeSize,      \* pieces a pipe holds
  LastDescriptor,\* descriptors are 0 .. LastDescriptor
  Inherited      \* the sets of descriptors the tool may be started with

VARIABLES
  pc,            \* where the tool is outside of signal handlers
  frames,        \* the handlers which are running, the innermost first
  fd,            \* descriptors of the tool
  disposition,   \* what the tool does on each signal
  pid,           \* whether dmi_pager_pid is that of the pager
  atexit,        \* whether dmi_pager_wait_exit is called at exit
  pager,         \* the pager: its life and its descriptors
  pipe,          \* pieces in the pipe
  command,       \* what the command does once it has printed
  left,          \* pieces not yet written
  shown,         \* pieces that have reached the terminal or the pager
  broken,        \* the sticky error flag of the stream
  status,        \* status of the tool
  ended          \* how the tool has ended

tool == <<pc, frames, fd, disposition, pid, atexit, command, left, broken, status, ended>>
vars == <<tool, pager, pipe, shown>>

Descriptors == 0 .. LastDescriptor
Stdin  == 0
Stdout == 1

\* A tool with no standard output has nothing to page, and is left out.
ASSUME DescriptorsAssumption ==
  /\ LastDescriptor \in Nat \ {0}
  /\ Inherited \subseteq {open \in SUBSET Descriptors : Stdout \in open}
ASSUME SignalsAssumption == "PIPE" \notin Signals
\* dmi_print_all flushes the output by itself, for show, and so does entry; the
\* other commands leave it to the tool.
ASSUME CommandsAssumption == Commands \subseteq {"show", "entry", "other"}
ASSUME SizesAssumption   == Output \in Nat \ {0} /\ PipeSize \in Nat

Starting == {"start", "attach", "record", "handle"}
\* The command prints, and flushes by itself; the tool flushes, and exits.
Writing  == {"write", "command", "flush", "exit"}
Waiting  == {"close", "wait", "forget"}
Gone     == {"quit", "done", "killed"}

TypeOK ==
  /\ pc \in Starting \cup Writing \cup Waiting \cup {"end"}
  /\ frames \in Seq([signo : Signals, at : Waiting \cup {"end"}])
  /\ fd \in [Descriptors -> {"closed", "inherited", "read", "write"}]
  /\ disposition \in [Signals \cup {"PIPE"} -> {"default", "ignored", "wait"}]
  /\ pager \in [life : {"none", "running", "reaped"} \cup Gone, end : {"none"} \cup Gone,
                fd : [Descriptors -> {"closed", "inherited", "read", "write"}]]
  /\ {pid, atexit, broken} \subseteq BOOLEAN /\ command \in Commands
  /\ pipe \in 0 .. PipeSize /\ left \in 0 .. Output /\ shown \in 0 .. Output
  \* A failure is of the command itself, or of its output
  /\ status \in {"none", "success", "failed", "unwritten"}
  /\ ended \in {"no", "exit", "raised", "signal", "pipe"}
  \* A signal is blocked while its own handler runs
  /\ \A i, j \in 1 .. Len(frames) : frames[i].signo = frames[j].signo => i = j

----------------------------------------------------------------------------
\* Descriptors and processes, as the system keeps them.

Close(table, d) == [table EXCEPT ![d] = "closed"]
Dup2(table, from, to) == [table EXCEPT ![to] = table[from]]

\* The number a new descriptor gets, if there is one left.
Lowest(table) ==
  {d \in Descriptors : table[d] = "closed" /\ \A other \in 0 .. d - 1 : table[other] # "closed"}

Holds(table, end) == \E d \in Descriptors : table[d] = end

IsReader == \/ pager.life = "running" /\ Holds(pager.fd, "read")
            \/ Holds(fd, "read")
IsWriter == \/ pager.life = "running" /\ Holds(pager.fd, "write")
            \/ ended = "no" /\ Holds(fd, "write")

\* The tool runs: in main, or in the innermost handler.
InMain == ended = "no" /\ frames = <<>>

At(step) == /\ ended = "no"
            /\ IF frames = <<>> THEN pc = step ELSE Head(frames).at = step

Goto(step) ==
  IF frames = <<>>
  THEN pc' = step /\ UNCHANGED frames
  ELSE frames' = [frames EXCEPT ![1].at = step] /\ UNCHANGED pc

----------------------------------------------------------------------------
Init ==
  /\ pc = "start" /\ frames = <<>>
  /\ \E open \in Inherited :
       fd = [d \in Descriptors |-> IF d \in open THEN "inherited" ELSE "closed"]
  /\ \E ignored \in SUBSET Signals : disposition =
       [signo \in Signals \cup {"PIPE"} |->
          IF signo \in ignored THEN "ignored" ELSE "default"]
  /\ pid = FALSE /\ atexit = FALSE
  /\ pager = [life |-> "none", end |-> "none",
              fd |-> [d \in Descriptors |-> "closed"]]
  /\ command \in Commands
  /\ pipe = 0 /\ left = Output /\ shown = 0
  /\ broken = FALSE /\ status = "none" /\ ended = "no"

\* Output is not paged: it is not a terminal, paging is disabled or the pager
\* is, or the default pager is not installed.
StartUnpaged ==
  /\ InMain /\ pc = "start"
  /\ pc' = "write"
  /\ UNCHANGED <<frames, fd, disposition, pid, atexit, command, left, broken, status, ended,
                 pager, pipe, shown>>

\* The command line of the pager cannot be expanded, the pipe cannot be made
\* or the pager cannot be spawned: the ends made so far are closed again, and
\* the command fails.
StartFails ==
  /\ InMain /\ pc = "start"
  /\ pc' = "end" /\ status' = "failed"
  /\ UNCHANGED <<frames, fd, disposition, pid, atexit, command, left, broken, ended,
                 pager, pipe, shown>>

\* Mutant: the pager keeps its copy of the write end.
SpawnedTableOpen(table, r, w) == Close(Dup2(table, r, Stdin), r)

\* The descriptors the pager is left with by the actions of posix_spawn.
SpawnedTable(table, r, w) == Close(Close(Dup2(table, r, Stdin), r), w)

Spawn ==
  /\ InMain /\ pc = "start"
  /\ \E r \in Lowest(fd) : \E w \in Lowest([fd EXCEPT ![r] = "read"]) :
       LET both == [fd EXCEPT ![r] = "read", ![w] = "write"]
       IN  /\ pager' = [life |-> "running", end |-> "none", fd |-> SpawnedTable(both, r, w)]
           /\ fd' = Close(both, r)
  /\ pc' = "attach"
  /\ UNCHANGED <<frames, disposition, pid, atexit, command, left, broken, status, ended,
                 pipe, shown>>

\* dmi_pager_attach.  On failure the pager is killed and waited for.
Attach ==
  /\ InMain /\ pc = "attach"
  /\ \E w \in Descriptors :
       fd[w] = "write" /\ fd' = Close(Dup2(fd, w, Stdout), w)
  /\ pc' = "record"
  /\ UNCHANGED <<frames, disposition, pid, atexit, command, left, broken, status, ended,
                 pager, pipe, shown>>

AttachFails ==
  /\ InMain /\ pc = "attach"
  /\ fd' = [d \in Descriptors |-> IF fd[d] = "write" THEN "closed" ELSE fd[d]]
  /\ pager' = [pager EXCEPT !.life = "reaped",
                            !.end = IF @ = "none" THEN "killed" ELSE @]
  /\ pc' = "end" /\ status' = "failed"
  /\ UNCHANGED <<frames, disposition, pid, atexit, command, left, broken, ended, pipe, shown>>

\* The identifier of the pager is stored, and main asks to be called at exit.
RecordPid ==
  /\ InMain /\ pc = "record" /\ ~pid
  /\ pid' = TRUE
  /\ UNCHANGED <<pc, frames, fd, disposition, atexit, command, left, broken, status, ended,
                 pager, pipe, shown>>

RegisterExit ==
  /\ InMain /\ pc = "record" /\ pid
  /\ atexit' = TRUE /\ pc' = "handle"
  /\ UNCHANGED <<frames, fd, disposition, pid, command, left, broken, status, ended,
                 pager, pipe, shown>>

\* Handlers are installed one by one.  Signals ignored at the start stay so.
HandleSignal(signo) ==
  /\ InMain /\ pc = "handle"
  /\ disposition[signo] = "default"
  /\ disposition' = [disposition EXCEPT ![signo] = "wait"]
  /\ UNCHANGED <<pc, frames, fd, pid, atexit, command, left, broken, status, ended,
                 pager, pipe, shown>>

\* Mutants: the signals left are not handled; SIGPIPE keeps its action.
IgnorePipeEarly ==
  /\ InMain /\ pc = "handle"
  /\ disposition' = [disposition EXCEPT !["PIPE"] = "ignored"]
  /\ pc' = "write"
  /\ UNCHANGED <<frames, fd, pid, atexit, command, left, broken, status, ended,
                 pager, pipe, shown>>

IgnorePipeNot ==
  /\ InMain /\ pc = "handle"
  /\ \A signo \in Signals : disposition[signo] # "default"
  /\ pc' = "write"
  /\ UNCHANGED <<frames, fd, disposition, pid, atexit, command, left, broken, status, ended,
                 pager, pipe, shown>>

IgnorePipe ==
  /\ InMain /\ pc = "handle"
  /\ \A signo \in Signals : disposition[signo] # "default"
  /\ disposition' = [disposition EXCEPT !["PIPE"] = "ignored"]
  /\ pc' = "write"
  /\ UNCHANGED <<frames, fd, pid, atexit, command, left, broken, status, ended,
                 pager, pipe, shown>>

----------------------------------------------------------------------------
\* The command prints.  Once it has, or has failed by something else than its
\* output (an issue lint has found, memory), it goes on to the flush it makes
\* itself, to that of the tool, or to the exit.

Printed ==
  /\ InMain /\ pc = "write"
  /\ pc' = IF command = "other" THEN "flush" ELSE "command"
  /\ UNCHANGED <<frames, fd, disposition, pid, atexit, command, left, broken, status, ended,
                 pager, pipe, shown>>

\* What has been printed may still be in the stream.  Only dmi_print_all
\* flushes it in this case, unless it has not begun to print.
CommandFails ==
  /\ InMain /\ pc = "write"
  /\ status' = "failed"
  /\ \/ pc' = "exit" /\ command # "show" /\ left' \in 0 .. left
     \/ pc' = "exit" /\ command = "show" /\ left = Output /\ left' = 0
     \/ pc' = "command" /\ command = "show" /\ left' \in 0 .. left
  /\ UNCHANGED <<frames, fd, disposition, pid, atexit, command, broken, ended,
                 pager, pipe, shown>>

\* dmi_pager_has_quit, for the standard output
HasQuit(error) == pid /\ error = "EPIPE"

\* dmi_print_all succeeds after all, whatever has failed, if the pager has been
\* quit.
PrintAllEnds(error) ==
  /\ pc = "command" /\ command = "show"
  /\ IF HasQuit(error) \/ (error = "none" /\ status = "none")
     THEN pc' = "flush" /\ status' = "none"
     ELSE pc' = "exit" /\ status' = IF status = "failed" THEN "failed" ELSE "unwritten"

\* entry takes every failure of its output for one.
EntryEnds(error) ==
  /\ pc = "command" /\ command = "entry"
  /\ IF error = "none"
     THEN pc' = "flush" /\ UNCHANGED status
     ELSE pc' = "exit" /\ status' = "unwritten"

\* dmi_command_flush_output
OutputEnds(error) ==
  /\ pc = "flush" /\ pc' = "exit"
  /\ status' = IF error = "none" \/ HasQuit(error) THEN "success" ELSE "unwritten"

\* The stream is flushed by dmi_pager_wait_exit, or the C library, and nobody
\* looks at the outcome.
ExitEnds ==
  /\ pc = "exit" /\ pc' = IF atexit THEN "close" ELSE "end"
  /\ UNCHANGED status

\* A flush returns.
Flushed(error) == PrintAllEnds(error) \/ EntryEnds(error) \/ OutputEnds(error) \/ ExitEnds

\* Mutant: the error flag of the stream is not looked at.
FlushErrorOwn == "none"

\* What dmi_command_flush finds if there is nothing, or nothing any more, to be
\* written: a failure of the past has left no reason, so EIO is taken.
FlushError == IF broken THEN "EIO" ELSE "none"

Flush ==
  /\ InMain /\ pc \in Writing \ {"write"} /\ left = 0
  /\ Flushed(FlushError)
  /\ UNCHANGED <<frames, fd, disposition, pid, atexit, command, left, broken, ended,
                 pager, pipe, shown>>

\* A write fails.  What the stream holds is lost, and no more may be printed;
\* a flush returns with the error.
WriteFails(error) ==
  /\ broken' = TRUE
  /\ IF pc = "write"
     THEN left' \in 0 .. left - 1 /\ UNCHANGED <<pc, status>>
     ELSE left' = 0 /\ Flushed(error)

\* The stream may write.  A write to the terminal succeeds or fails; one to the
\* pipe waits for room in it, and fails or ends the tool if nobody reads.
MayWrite == InMain /\ pc \in Writing /\ left > 0

WriteTerminal ==
  /\ MayWrite /\ fd[Stdout] = "inherited"
  /\ \/ left' = left - 1 /\ shown' = shown + 1 /\ UNCHANGED <<pc, broken, status>>
     \/ WriteFails("other") /\ UNCHANGED shown
  /\ UNCHANGED <<frames, fd, disposition, pid, atexit, command, ended, pager, pipe>>

WritePipe ==
  /\ MayWrite /\ fd[Stdout] = "write"
  /\ IsReader /\ pipe < PipeSize
  /\ pipe' = pipe + 1 /\ left' = left - 1
  /\ UNCHANGED <<pc, frames, fd, disposition, pid, atexit, command, broken, status, ended,
                 pager, shown>>

WriteBroken ==
  /\ MayWrite /\ fd[Stdout] = "write" /\ ~IsReader
  /\ IF disposition["PIPE"] = "ignored"
     THEN WriteFails("EPIPE") /\ UNCHANGED ended
     ELSE ended' = "pipe" /\ UNCHANGED <<pc, left, broken, status>>
  /\ UNCHANGED <<frames, fd, disposition, pid, atexit, command, pager, pipe, shown>>

----------------------------------------------------------------------------
\* Mutant: a handler may interrupt itself.
ArriveAnytime(signo) ==
  /\ ended = "no" /\ disposition[signo] = "wait"
  /\ frames' = <<[signo |-> signo, at |-> "close"]>> \o frames
  /\ UNCHANGED <<pc, fd, disposition, pid, atexit, command, left, broken, status, ended,
                 pager, pipe, shown>>

\* A signal arrives.  Its handler may interrupt main or another handler, but
\* not itself.
Arrive(signo) ==
  /\ ended = "no"
  /\ \A i \in 1 .. Len(frames) : frames[i].signo # signo
  /\ \/ /\ disposition[signo] = "default"
        /\ ended' = "signal" /\ UNCHANGED frames
     \/ /\ disposition[signo] = "wait"
        /\ frames' = <<[signo |-> signo, at |-> "close"]>> \o frames
        /\ UNCHANGED ended
  /\ UNCHANGED <<pc, fd, disposition, pid, atexit, command, left, broken, status,
                 pager, pipe, shown>>

\* dmi_pager_wait_exit and dmi_pager_wait_signal: the standard output is
\* closed, so that the pager sees its input end, and the pager is waited for.
CloseOutput ==
  /\ At("close")
  /\ fd' = Close(fd, Stdout)
  /\ Goto("wait")
  /\ UNCHANGED <<disposition, pid, atexit, command, left, broken, status, ended,
                 pager, pipe, shown>>

\* waitpid returns once the pager is gone, or at once if it is reaped already.
WaitPager ==
  /\ At("wait")
  /\ pid => pager.life # "running"
  /\ pager' = IF pid THEN [pager EXCEPT !.life = "reaped"] ELSE pager
  /\ Goto("forget")
  /\ UNCHANGED <<fd, disposition, pid, atexit, command, left, broken, status, ended, pipe, shown>>

ForgetPager ==
  /\ At("forget")
  /\ pid' = FALSE
  /\ Goto("end")
  /\ UNCHANGED <<fd, disposition, atexit, command, left, broken, status, ended,
                 pager, pipe, shown>>

\* The tool exits, or the handler raises its signal again with the default
\* action, which ends the tool as soon as the handler returns.
End ==
  /\ At("end")
  /\ ended' = IF frames = <<>> THEN "exit" ELSE "raised"
  /\ UNCHANGED <<pc, frames, fd, disposition, pid, atexit, command, left, broken, status,
                 pager, pipe, shown>>

----------------------------------------------------------------------------
\* The pager.

Leave(how) == pager' = [pager EXCEPT !.life = how, !.end = how]

PagerReads ==
  /\ pager.life = "running" /\ pager.fd[Stdin] = "read" /\ pipe > 0
  /\ pipe' = pipe - 1 /\ shown' = shown + 1
  /\ UNCHANGED <<tool, pager>>

\* The person quits.
PagerQuits ==
  /\ pager.life = "running" /\ pager.fd[Stdin] = "read"
  /\ Leave("quit")
  /\ UNCHANGED <<tool, pipe, shown>>

\* Its input has ended, or it never had one.
PagerEnds ==
  /\ pager.life = "running"
  /\ pager.fd[Stdin] = "read" => pipe = 0 /\ ~IsWriter
  /\ Leave("done")
  /\ UNCHANGED <<tool, pipe, shown>>

----------------------------------------------------------------------------
Main ==
  \/ StartUnpaged \/ StartFails \/ Spawn \/ Attach \/ AttachFails
  \/ RecordPid \/ RegisterExit \/ (\E signo \in Signals : HandleSignal(signo)) \/ IgnorePipe
  \/ Printed \/ CommandFails \/ WriteTerminal \/ WritePipe \/ WriteBroken \/ Flush
  \/ CloseOutput \/ WaitPager \/ ForgetPager \/ End

Next ==
  \/ Main
  \/ \E signo \in Signals : Arrive(signo)
  \/ PagerReads \/ PagerQuits \/ PagerEnds

\* The tool is scheduled, and the pager reads what there is to read and leaves
\* at the end of its input; nobody has to quit it before that.
Spec == Init /\ [][Next]_vars /\ WF_vars(Main) /\ WF_vars(PagerReads) /\ WF_vars(PagerEnds)

----------------------------------------------------------------------------
\* Properties

\* Once every handler is installed.
IsArmed == atexit /\ pc \notin Starting

\* The shell does not get the terminal back while the pager still uses it:
\* whichever way the tool ends, and whatever signals have arrived while it was
\* waiting, the pager is gone before.  A handler which is there earlier than
\* the rest waits too.
TerminalIsFree ==
  ended = "raised" \/ (ended # "no" /\ IsArmed) => pager.life # "running"

\* The status of the tool does not lie about its output, whichever of its
\* flushes meets a failure: it is a success only if everything has reached the
\* terminal or the pager, or if the person has quit the pager before; output is
\* told not to have been written only if some of it has not been; and quitting
\* the pager never kills the tool.
StatusTells ==
  /\ ended # "pipe"
  /\ ended = "exit" =>
       /\ status = "success" => shown = Output \/ (atexit /\ pager.end = "quit")
       /\ status = "unwritten" => shown < Output

\* Quitting the pager is not a failure, and the tool exits with success unless
\* the command itself has failed, as opendmi/man/man1/opendmi.1.adoc says.
QuitIsSuccess == ended = "exit" /\ pager.end = "quit" => status # "unwritten"

\* The tool ends: it never waits for a pager which itself waits for more
\* input, because every copy of the write end is closed in both processes.
ToolEnds == <>(ended # "no")
============================================================================
