---------------------------- MODULE PagerProofs ----------------------------
(* Proofs about Pager, for any signals, any output, and pipes and tables of *)
(* descriptors of any size.                                                 *)
EXTENDS Pager, SequenceTheorems, TLAPS

----------------------------------------------------------------------------
(* The inductive invariant of TypeOK and TerminalIsFree.                    *)

\* Before the pager is known to the handlers there are none of them.
StartsUnarmed ==
  /\ pc = "start" => pager.life = "none"
  /\ pc \in {"start", "attach", "record"} =>
       ~atexit /\ frames = <<>> /\ \A signo \in Signals : disposition[signo] # "wait"
  /\ pc = "handle" => atexit

\* A pager that runs is known to the tool, and nobody has got past waiting
\* for it.
RunningIsKnown ==
  pager.life = "running" =>
    /\ pc \notin {"attach", "record"} => pid
    /\ pc \in Writing => atexit
    /\ pc \notin {"forget", "end"}
    /\ \A i \in 1 .. Len(frames) : frames[i].at \notin {"forget", "end"}

\* Once the tool is armed no signal has its default action.
ArmedIsComplete ==
  IsArmed => /\ \A signo \in Signals : disposition[signo] # "default"
             /\ disposition["PIPE"] = "ignored"

\* What is not yet in the pipe or past it is still to be written.
OutputIsBounded == shown + pipe + left <= Output

Inv == /\ TypeOK /\ StartsUnarmed /\ RunningIsKnown /\ ArmedIsComplete /\ OutputIsBounded
       /\ TerminalIsFree
----------------------------------------------------------------------------
LEMMA SizesAreNatural == Output \in Nat /\ PipeSize \in Nat
  BY SizesAssumption

LEMMA LossesOnlyLower ==
  ASSUME NEW a \in Nat, NEW b \in Nat, NEW c \in Nat, NEW lower \in 0 .. c - 1, NEW n \in Nat,
         a + b + c <= n
  PROVE  a + b + lower < n /\ a + b + lower <= n
  OBVIOUS

LEMMA InitInv == Init => Inv
PROOF
<1> SUFFICES ASSUME Init PROVE Inv
  OBVIOUS
<1> USE SignalsAssumption, SizesAreNatural
    DEF Starting, Writing, Waiting, Gone, Descriptors
<1>1. /\ fd \in [Descriptors -> {"closed", "inherited", "read", "write"}]
      /\ disposition \in [Signals \cup {"PIPE"} -> {"default", "ignored", "wait"}]
      /\ \A signo \in Signals : disposition[signo] # "wait"
  BY DEF Init
<1>2. frames = <<>> /\ Len(frames) = 0
  BY DEF Init
<1>3. frames \in Seq([signo : Signals, at : Waiting \cup {"end"}])
  BY <1>2
<1>4. pager \in [life : {"none", "running", "reaped"} \cup Gone, end : {"none"} \cup Gone,
                 fd : [Descriptors -> {"closed", "inherited", "read", "write"}]]
  BY DEF Init
<1>5. {pid, atexit, broken} \subseteq BOOLEAN
  BY DEF Init
<1>6. /\ pc = "start"
      /\ pipe \in 0 .. PipeSize /\ left \in 0 .. Output /\ shown \in 0 .. Output
      /\ broken = FALSE /\ status = "none" /\ ended = "no" /\ command \in Commands
  BY DEF Init
<1>7. TypeOK
  BY <1>1, <1>2, <1>3, <1>4, <1>5, <1>6 DEF TypeOK
<1>8. StartsUnarmed /\ RunningIsKnown /\ ArmedIsComplete /\ OutputIsBounded /\ TerminalIsFree
  BY <1>1, <1>2
  DEF Init, StartsUnarmed, RunningIsKnown, ArmedIsComplete, OutputIsBounded,
      TerminalIsFree, IsArmed
<1> QED
  BY <1>7, <1>8 DEF Inv

\* What a handler goes on to is all that changes of the handlers.
LEMMA GotoKeepsFrames ==
  ASSUME frames \in Seq([signo : Signals, at : Waiting \cup {"end"}]),
         NEW step \in Waiting \cup {"end"}, Goto(step)
  PROVE  /\ frames' \in Seq([signo : Signals, at : Waiting \cup {"end"}])
         /\ Len(frames') = Len(frames)
         /\ \A i \in 1 .. Len(frames) : frames'[i].signo = frames[i].signo
         /\ \A i \in 1 .. Len(frames) : frames'[i].at = frames[i].at \/ frames'[i].at = step
         /\ frames = <<>> => frames' = <<>> /\ pc' = step
         /\ frames # <<>> => pc' = pc
PROOF
<1>1. CASE frames = <<>>
  BY <1>1 DEF Goto
<1>2. CASE frames # <<>>
  <2> DEFINE Frame == [signo : Signals, at : Waiting \cup {"end"}]
             inner == [frames[1] EXCEPT !.at = step]
  <2>1. frames \in [1 .. Len(frames) -> Frame] /\ Len(frames) \in Nat /\ Len(frames) > 0
    <3>1. frames \in Seq(Frame)
      OBVIOUS
    <3> HIDE DEF Frame
    <3>2. Len(frames) # 0
      BY <1>2, <3>1, EmptySeq
    <3> QED
      BY <3>1, <3>2
  <2>2. frames[1] \in Frame
    BY <2>1
  <2>3. inner \in Frame /\ inner.signo = frames[1].signo /\ inner.at = step
    BY <2>2
  <2>4. frames' = [frames EXCEPT ![1] = inner] /\ pc' = pc
    BY <1>2 DEF Goto
  <2> HIDE DEF inner
  <2>5. frames' \in [1 .. Len(frames) -> Frame] /\ frames'[1] = inner
        /\ \A i \in 2 .. Len(frames) : frames'[i] = frames[i]
    BY <2>1, <2>3, <2>4
  <2>6. frames' \in Seq(Frame) /\ Len(frames') = Len(frames)
    BY <2>1, <2>5
  <2> QED
    BY <1>2, <2>1, <2>3, <2>4, <2>5, <2>6
<1> QED
  BY <1>1, <1>2

\* A flush that returns takes main on, and settles its status.
LEMMA FlushedGoesOn ==
  ASSUME TypeOK, NEW error, Flushed(error)
  PROVE  /\ pc \in {"command", "flush", "exit"}
         /\ pc' \in {"flush", "exit", "close", "end"}
         /\ pc' \in {"close", "end"} => pc = "exit"
         /\ pc' = "end" => ~atexit
         /\ pc' = "close" => atexit
         /\ status' \in {"none", "success", "failed", "unwritten"}
PROOF
<1>1. CASE PrintAllEnds(error)
  BY <1>1 DEF PrintAllEnds
<1>2. CASE EntryEnds(error)
  BY <1>2 DEF EntryEnds, TypeOK
<1>3. CASE OutputEnds(error)
  BY <1>3 DEF OutputEnds
<1>4. CASE ExitEnds
  BY <1>4 DEF ExitEnds, TypeOK
<1> QED
  BY <1>1, <1>2, <1>3, <1>4 DEF Flushed

\* What a write that fails changes.
LEMMA WriteFailsLoses ==
  ASSUME TypeOK, MayWrite, NEW error, WriteFails(error)
  PROVE  /\ broken' = TRUE /\ left' \in 0 .. left - 1
         /\ \/ pc = "write" /\ UNCHANGED <<pc, status>>
            \/ pc # "write" /\ left' = 0 /\ Flushed(error)
  BY SizesAssumption DEF TypeOK, MayWrite, WriteFails

\* What takes less than it did still fits.
LEMMA LessIsWithin ==
  ASSUME NEW a \in Nat, NEW b \in Nat, NEW c \in Nat, NEW d \in 0 .. c, NEW size \in Nat,
         a + b + c <= size
  PROVE  a + b + d <= size
PROOF
  OBVIOUS

\* Neither disturbs what is known of the pager.
LEMMA FlushedKeepsInv ==
  ASSUME Inv, NEW error, Flushed(error), frames = <<>>, ended = "no",
         left' \in 0 .. left, broken' \in BOOLEAN,
         UNCHANGED <<frames, fd, disposition, pid, atexit, command, ended, pager, pipe, shown>>
  PROVE  Inv'
PROOF
<1>6. OutputIsBounded'
  <2>1. shown \in Nat /\ pipe \in Nat /\ left \in Nat /\ Output \in Nat
    BY SizesAreNatural DEF Inv, TypeOK
  <2>2. shown + pipe + left <= Output
    BY DEF Inv, OutputIsBounded
  <2>3. shown + pipe + left' <= Output
    BY <2>1, <2>2, LessIsWithin
  <2> QED
    BY <2>3 DEF OutputIsBounded
<1> USE SizesAreNatural
    DEF Inv, TypeOK, StartsUnarmed, RunningIsKnown, ArmedIsComplete, OutputIsBounded,
        TerminalIsFree, IsArmed, Starting, Writing, Waiting, Gone
<1>1. /\ pc \in {"command", "flush", "exit"}
      /\ pc' \in {"flush", "exit", "close", "end"}
      /\ pc' = "end" => ~atexit
      /\ status' \in {"none", "success", "failed", "unwritten"}
  BY FlushedGoesOn
<1>2. ({pid, atexit, broken} \subseteq BOOLEAN)'
  OBVIOUS
<1>3. TypeOK'
  BY <1>1, <1>2
<1>4. (StartsUnarmed /\ ArmedIsComplete)'
  BY <1>1
<1>7. TerminalIsFree'
  OBVIOUS
<1>5. RunningIsKnown'
  BY <1>1
<1> QED
  BY <1>3, <1>4, <1>5, <1>6, <1>7

LEMMA FailureKeepsInv ==
  ASSUME Inv, MayWrite, NEW error, WriteFails(error),
         UNCHANGED <<frames, fd, disposition, pid, atexit, command, ended, pager, pipe, shown>>
  PROVE  Inv'
PROOF
<1>1. TypeOK /\ frames = <<>> /\ ended = "no" /\ left' \in 0 .. left - 1 /\ broken' = TRUE
  BY WriteFailsLoses DEF Inv, MayWrite, InMain
<1>2. left' \in 0 .. left /\ broken' \in BOOLEAN
  BY <1>1 DEF TypeOK
<1>3. CASE pc = "write" /\ UNCHANGED <<pc, status>>
  <2> USE SizesAreNatural DEF Inv
  <2>1. shown \in Nat /\ pipe \in Nat /\ left \in Nat /\ left' \in Nat /\ left' <= left
    BY <1>1, <1>2 DEF TypeOK
  <2>2. TypeOK'
    <3>1. ({pid, atexit, broken} \subseteq BOOLEAN)'
      BY <1>2 DEF TypeOK
    <3> QED
      BY <1>1, <1>2, <1>3, <3>1 DEF TypeOK
  <2>3. (StartsUnarmed /\ RunningIsKnown /\ ArmedIsComplete /\ TerminalIsFree)'
    BY <1>1, <1>3 DEF StartsUnarmed, RunningIsKnown, ArmedIsComplete, TerminalIsFree, IsArmed
  <2>4. OutputIsBounded'
    <3>1. shown + pipe + left <= Output
      BY DEF OutputIsBounded
    <3>2. shown + pipe + left' <= Output
      BY ONLY <1>1, <2>1, <3>1, SizesAreNatural, LossesOnlyLower
    <3> QED
      BY <3>2, Zenon DEF OutputIsBounded
  <2> QED
    BY <2>2, <2>3, <2>4
<1>4. CASE Flushed(error)
  BY <1>1, <1>2, <1>4, FlushedKeepsInv
<1> QED
  BY <1>1, <1>3, <1>4, WriteFailsLoses

\* Each step of the tool keeps the invariant.
LEMMA MainKeepsInv ==
  ASSUME Inv, Main
  PROVE  Inv'
PROOF
<1> USE SignalsAssumption, SizesAreNatural
    DEF Inv, TypeOK, StartsUnarmed, RunningIsKnown, ArmedIsComplete, OutputIsBounded,
        TerminalIsFree, IsArmed, Starting, Writing, Waiting, Gone, Descriptors, Stdout, Stdin
<1>1. CASE StartUnpaged
  BY <1>1 DEF StartUnpaged, InMain
<1>2. CASE StartFails
  BY <1>2 DEF StartFails, InMain
<1>3. CASE Spawn
  BY <1>3 DEF Spawn, SpawnedTable, Lowest, Dup2, Close, InMain
<1>4. CASE Attach
  BY <1>4 DEF Attach, Dup2, Close, InMain
<1>5. CASE AttachFails
  BY <1>5 DEF AttachFails, InMain
<1>6. CASE RecordPid
  BY <1>6 DEF RecordPid, InMain
<1>7. CASE RegisterExit
  BY <1>7 DEF RegisterExit, InMain
<1>8. CASE IgnorePipe
  BY <1>8 DEF IgnorePipe, InMain
<1>9. CASE WriteTerminal
  <2>1. /\ MayWrite /\ frames = <<>> /\ ended = "no" /\ pc \in Writing /\ left > 0
        /\ UNCHANGED <<frames, fd, disposition, pid, atexit, command, ended, pager, pipe>>
    BY <1>9 DEF WriteTerminal, MayWrite, InMain
  <2>2. CASE left' = left - 1 /\ shown' = shown + 1 /\ UNCHANGED <<pc, broken, status>>
    BY <2>1, <2>2
  <2>3. CASE WriteFails("other") /\ UNCHANGED shown
    BY <2>1, <2>3, FailureKeepsInv
  <2> QED
    BY <1>9, <2>2, <2>3 DEF WriteTerminal
<1>10. CASE WritePipe
  BY <1>10 DEF WritePipe, MayWrite, InMain
<1>11. CASE WriteBroken
  <2>1. /\ MayWrite /\ frames = <<>> /\ ended = "no" /\ pc \in Writing /\ left > 0 /\ ~IsReader
        /\ UNCHANGED <<frames, fd, disposition, pid, atexit, command, pager, pipe, shown>>
    BY <1>11 DEF WriteBroken, MayWrite, InMain
  <2>2. CASE WriteFails("EPIPE") /\ UNCHANGED ended
    BY <2>1, <2>2, FailureKeepsInv
  <2>3. CASE /\ disposition["PIPE"] # "ignored"
             /\ ended' = "pipe" /\ UNCHANGED <<pc, left, broken, status>>
    BY <2>1, <2>3
  <2> QED
    BY <1>11, <2>2, <2>3 DEF WriteBroken
<1>12. CASE Flush
  <2>1. /\ Flushed(FlushError) /\ frames = <<>> /\ ended = "no"
        /\ UNCHANGED <<frames, fd, disposition, pid, atexit, command, left, broken, ended,
                       pager, pipe, shown>>
    BY <1>12 DEF Flush, InMain
  <2> QED
    BY <2>1, FlushedKeepsInv
<1>18. CASE Printed
  BY <1>18 DEF Printed, InMain
<1>19. CASE CommandFails
  BY <1>19 DEF CommandFails, InMain
<1>13. CASE CloseOutput
  <2>1. Goto("wait") /\ frames \in Seq([signo : Signals, at : Waiting \cup {"end"}])
    BY <1>13 DEF CloseOutput
  <2>2. /\ fd' \in [Descriptors -> {"closed", "inherited", "read", "write"}]
        /\ UNCHANGED <<disposition, pid, atexit, command, left, broken, status, ended, pager, pipe, shown>>
    BY <1>13 DEF CloseOutput, Close
  <2>3. pc = "close" \/ frames # <<>>
    BY <1>13 DEF CloseOutput, At
  <2> QED
    BY <2>1, <2>2, <2>3, GotoKeepsFrames
<1>14. CASE WaitPager
  <2>1. Goto("forget") /\ frames \in Seq([signo : Signals, at : Waiting \cup {"end"}])
    BY <1>14 DEF WaitPager
  <2>2. pager.life # "running" \/ ~pid
    BY <1>14 DEF WaitPager
  <2>3. pager.life # "running"
    BY <1>14, <2>2 DEF WaitPager, At
  <2>4. pager'.life # "running"
    BY <1>14, <2>3 DEF WaitPager
  <2>5. pager' \in [life : {"none", "running", "reaped"} \cup Gone, end : {"none"} \cup Gone,
                    fd : [Descriptors -> {"closed", "inherited", "read", "write"}]]
    BY <1>14 DEF WaitPager
  <2>6. UNCHANGED <<fd, disposition, pid, atexit, command, left, broken, status, ended, pipe, shown>>
    BY <1>14 DEF WaitPager
  <2>7. pc = "wait" \/ frames # <<>>
    BY <1>14 DEF WaitPager, At
  <2> QED
    BY <2>1, <2>4, <2>5, <2>6, <2>7, GotoKeepsFrames
<1>15. CASE ForgetPager
  <2>1. Goto("end") /\ frames \in Seq([signo : Signals, at : Waiting \cup {"end"}])
    BY <1>15 DEF ForgetPager
  <2>2. pager.life # "running"
    BY <1>15 DEF ForgetPager, At
  <2>3. pid' = FALSE /\ UNCHANGED <<fd, disposition, atexit, command, left, broken, status, ended, pager,
                                   pipe, shown>>
    BY <1>15 DEF ForgetPager
  <2>4. pc = "forget" \/ frames # <<>>
    BY <1>15 DEF ForgetPager, At
  <2>5. pc' \in {pc, "end"} /\ frames' \in Seq([signo : Signals, at : Waiting \cup {"end"}])
        /\ \A i, j \in 1 .. Len(frames') : frames'[i].signo = frames'[j].signo => i = j
    BY <2>1, GotoKeepsFrames
  <2>6. TypeOK'
    <3>1. ({pid, atexit, broken} \subseteq BOOLEAN)'
      BY <2>3
    <3> QED
      BY <2>3, <2>5, <3>1
  <2> QED
    BY <2>1, <2>2, <2>3, <2>4, <2>6, GotoKeepsFrames
<1>16. CASE End
  BY <1>16 DEF End, At
<1>17. ASSUME NEW signo \in Signals, HandleSignal(signo)
  PROVE  Inv'
  BY <1>17 DEF HandleSignal, InMain
<1> QED
  BY <1>1, <1>2, <1>3, <1>4, <1>5, <1>6, <1>7, <1>8, <1>9, <1>10, <1>11, <1>12, <1>13, <1>14, <1>15, <1>16, <1>17, <1>18, <1>19
  DEF Main

\* A handler is put before the others, and none of them is of its signal.
LEMMA ArriveKeepsInv ==
  ASSUME Inv, NEW signo \in Signals, Arrive(signo)
  PROVE  Inv'
PROOF
<1> USE SignalsAssumption, SizesAreNatural
    DEF Inv, TypeOK, StartsUnarmed, RunningIsKnown, ArmedIsComplete, OutputIsBounded,
        TerminalIsFree, IsArmed
<1>1. CASE disposition[signo] = "default"
  BY <1>1 DEF Arrive
<1>2. CASE disposition[signo] = "wait"
  <2> DEFINE Frame == [signo : Signals, at : Waiting \cup {"end"}]
             inner == [signo |-> signo, at |-> "close"]
  <2>1. frames' = <<inner>> \o frames /\ inner \in Frame /\ frames \in Seq(Frame)
    BY <1>2 DEF Arrive, Waiting
  <2>2. inner.signo = signo /\ inner.at = "close"
    OBVIOUS
  <2>3. \A i \in 1 .. Len(frames) : frames[i].signo # signo
    BY DEF Arrive
  <2> HIDE DEF Frame, inner
  <2>4. /\ frames' \in Seq(Frame) /\ Len(frames') = Len(frames) + 1 /\ frames'[1] = inner
        /\ \A i \in 2 .. Len(frames) + 1 : frames'[i] = frames[i - 1]
    BY <2>1
  <2>5. \A i, j \in 1 .. Len(frames') : frames'[i].signo = frames'[j].signo => i = j
    <3>1. Len(frames) \in Nat /\ frames'[1].signo = signo
      BY <2>1, <2>2, <2>4
    <3>2. \A i \in 2 .. Len(frames') :
             frames'[i] = frames[i - 1] /\ i - 1 \in 1 .. Len(frames)
      BY <2>4, <3>1
    <3>3. \A i \in 2 .. Len(frames') : frames'[i].signo # frames'[1].signo
      BY <2>3, <3>1, <3>2
    <3>4. \A i, j \in 2 .. Len(frames') : frames'[i].signo = frames'[j].signo => i = j
      <4> SUFFICES ASSUME NEW i \in 2 .. Len(frames'), NEW j \in 2 .. Len(frames'),
                          frames'[i].signo = frames'[j].signo
                   PROVE  i = j
        OBVIOUS
      <4>1. i - 1 = j - 1
        BY <3>2
      <4> QED
        BY <4>1
    <3> QED
      BY <2>4, <3>1, <3>3, <3>4
  <2>6. \A i \in 1 .. Len(frames') :
           frames'[i].at = "close" \/ \E j \in 1 .. Len(frames) : frames'[i].at = frames[j].at
    BY <2>1, <2>2, <2>4
  <2>7. UNCHANGED <<pc, fd, disposition, pid, atexit, command, left, broken, status, ended,
                    pager, pipe, shown>>
    BY <1>2 DEF Arrive
  <2>8. TypeOK'
    BY <2>4, <2>5, <2>7 DEF Frame
  <2>9. pc \notin {"start", "attach", "record"}
    BY <1>2
  <2>10. (StartsUnarmed /\ RunningIsKnown)'
    BY <2>6, <2>7, <2>9
  <2>11. (ArmedIsComplete /\ OutputIsBounded /\ TerminalIsFree)'
    BY <2>7
  <2> QED
    BY <2>8, <2>10, <2>11
<1> QED
  BY <1>1, <1>2 DEF Arrive

\* The pager only ever goes away by itself.
LEMMA PagerKeepsInv ==
  ASSUME Inv, PagerReads \/ PagerQuits \/ PagerEnds
  PROVE  Inv'
PROOF
<1> USE SizesAreNatural DEF Inv, Gone
<1>1. UNCHANGED tool
  BY DEF PagerReads, PagerQuits, PagerEnds
<1>2. /\ pager' \in [life : {"none", "running", "reaped"} \cup Gone, end : {"none"} \cup Gone,
                    fd : [Descriptors -> {"closed", "inherited", "read", "write"}]]
      /\ pager'.life = "running" => pager.life = "running"
      /\ pager.life = "none" => pager'.life = "none"
  BY DEF TypeOK, PagerReads, PagerQuits, PagerEnds, Leave
<1>3. /\ pipe' \in 0 .. PipeSize /\ shown' \in 0 .. Output
      /\ shown' + pipe' + left <= Output
  BY DEF TypeOK, OutputIsBounded, PagerReads, PagerQuits, PagerEnds
<1>4. TypeOK'
  BY <1>1, <1>2, <1>3 DEF TypeOK, tool
<1>5. (StartsUnarmed /\ RunningIsKnown)'
  BY <1>1, <1>2 DEF StartsUnarmed, RunningIsKnown, tool
<1>6. (ArmedIsComplete /\ OutputIsBounded /\ TerminalIsFree)'
  BY <1>1, <1>2, <1>3 DEF ArmedIsComplete, OutputIsBounded, TerminalIsFree, IsArmed, tool
<1> QED
  BY <1>4, <1>5, <1>6

LEMMA StutterKeepsInv == ASSUME Inv, UNCHANGED vars PROVE Inv'
PROOF
<1> USE DEF Inv, vars, tool
<1>1. TypeOK'
  BY DEF TypeOK
<1>2. (StartsUnarmed /\ RunningIsKnown /\ ArmedIsComplete /\ OutputIsBounded /\ TerminalIsFree)'
  BY DEF StartsUnarmed, RunningIsKnown, ArmedIsComplete, OutputIsBounded, TerminalIsFree, IsArmed
<1> QED
  BY <1>1, <1>2

LEMMA Invariance == Spec => []Inv
PROOF
<1>1. Inv /\ [Next]_vars => Inv'
  BY MainKeepsInv, ArriveKeepsInv, PagerKeepsInv, StutterKeepsInv DEF Next
<1> QED
  BY <1>1, InitInv, PTL DEF Spec

----------------------------------------------------------------------------
\* Whatever the signals, their handlers nest without repeating one, and the
\* pieces of output, the descriptors and the pager are what their types say.
THEOREM TypeCorrect == Spec => []TypeOK
PROOF
<1>1. Inv => TypeOK
  BY DEF Inv
<1> QED
  BY <1>1, Invariance, PTL

\* Whatever the signals and whenever they arrive, a tool that has installed
\* its handlers, or ends by one of them, does not end before its pager.
THEOREM PagerIsGoneFirst == Spec => []TerminalIsFree
PROOF
<1>1. Inv => TerminalIsFree
  BY DEF Inv
<1> QED
  BY <1>1, Invariance, PTL

----------------------------------------------------------------------------
(* What StatusTells takes in addition.                                      *)

\* The pipe goes from the tool to the pager, and nowhere else.
PipeIsConnected ==
  /\ pc = "start" =>
       fd[Stdin] = "inherited" /\ \A d \in Descriptors : fd[d] # "write"
  /\ pc \in {"start", "attach"} => fd[Stdout] = "inherited"
  /\ \A d \in Descriptors : fd[d] # "read"
  /\ pager.life = "running" =>
       pager.fd[Stdin] = "read" /\ \A d \in Descriptors : pager.fd[d] # "write"
  /\ pager.life = "none" => \A d \in Descriptors : fd[d] # "write"

\* A pager that is gone has left in one way, and a pager that has read its
\* input to the end has read everything.
PagerLeavesOnce ==
  /\ pager.life \in Gone => pager.end = pager.life
  /\ pager.life \in {"none", "running"} => pager.end = "none"
  /\ pager.life = "reaped" => pager.end \in Gone
  /\ pager.life = "none" => pipe = 0
  /\ pager.end = "killed" => pc = "end" /\ ~atexit
  /\ pager.end = "done" =>
       pipe = 0 /\ (ended = "no" => \A d \in Descriptors : fd[d] # "write")

\* The output of main goes to the pager if there is one, as it knows.
MainKnowsPager ==
  /\ pid \/ atexit => pager.life # "none"
  /\ ended = "no" /\ frames = <<>> =>
       /\ pc \in {"record", "handle"} => fd[Stdout] = "write"
       /\ pc = "handle" => pid
       /\ pc \in Writing => \/ fd[Stdout] = "write" /\ atexit /\ pid
                            \/ fd[Stdout] = "inherited" /\ ~atexit /\ pager.life = "none"

\* Every piece of output is somewhere, or its loss is known to the stream or to
\* the command; and a pager's stream breaks only by the pager being quit.
LossIsKnown ==
  /\ pc \in Starting => left = Output /\ ~broken
  /\ broken => shown + pipe + left < Output
  /\ broken /\ atexit => pager.end = "quit"
  /\ ~broken /\ status # "failed" => shown + pipe + left = Output

\* The status is settled when the tool exits.
StatusIsSettled ==
  /\ pc \in Starting \cup {"write", "flush"} => status = "none"
  /\ pc = "command" => status = "none" \/ (status = "failed" /\ command = "show")
  /\ pc \in {"exit", "end"} \cup Waiting => status # "none"
  /\ status = "success" =>
       left = 0 /\ (broken => atexit) /\ (atexit \/ pager.life = "none")
  /\ status = "unwritten" => broken
  /\ ended = "exit" => pc = "end"
  /\ ended # "pipe"

StatusInv == /\ PipeIsConnected /\ PagerLeavesOnce /\ MainKnowsPager /\ LossIsKnown
             /\ StatusIsSettled

\* StatusInv holds where the tool is started with a standard input, and every
\* step keeps it.
StdinIsOpen == \A open \in Inherited : Stdin \in open

LEMMA InitStatusInv == ASSUME StdinIsOpen, Init PROVE StatusInv
  BY DescriptorsAssumption, SizesAssumption
  DEF StdinIsOpen, Init, StatusInv, PipeIsConnected, PagerLeavesOnce, MainKnowsPager,
      LossIsKnown, StatusIsSettled, Starting, Writing, Waiting, Gone, Descriptors, Stdout, Stdin

\* A flush that returns says success only of a stream that is not broken, or
\* of a pager that has been quit.
LEMMA FlushedKeepsStatusInv ==
  ASSUME Inv, StatusInv, frames = <<>>, ended = "no", NEW error, Flushed(error),
         left' = 0, broken' \in BOOLEAN, broken => broken', broken' => broken \/ left > 0,
         ~broken' => error = "none" /\ left = 0,
         broken' => error # "none",
         error = "EPIPE" => atexit,
         broken' => shown + pipe < Output,
         broken' /\ atexit => pager.end = "quit",
         UNCHANGED <<frames, fd, disposition, pid, atexit, command, ended, pager, pipe, shown>>
  PROVE  StatusInv'
PROOF
<1> USE SizesAssumption
    DEF StatusInv, Starting, Writing, Waiting, Gone
<1>1. /\ pc \in {"command", "flush", "exit"}
      /\ pc' \in {"flush", "exit", "close", "end"}
      /\ pc' \in {"close", "end"} => pc = "exit"
      /\ pc' = "end" => ~atexit
      /\ pc' = "close" => atexit
      /\ status' \in {"none", "success", "failed", "unwritten"}
  BY FlushedGoesOn DEF Inv
<1>2. /\ pc = "exit" => status' = status
      /\ pc' = "flush" => status' = "none" /\ pc = "command"
      /\ pc' = "exit" => status' # "none"
      /\ pc # "exit" /\ status' = "success" => error \in {"none", "EPIPE"}
      /\ pc # "exit" /\ status' = "unwritten" => error # "none"
      /\ pc \in {"command", "flush"} /\ status = "failed" => pc = "command"
      /\ pc # "exit" /\ status = "failed" /\ status' # "failed" => error # "none"
      /\ pc = "exit" => pc' \in {"close", "end"}
  <2>1. CASE PrintAllEnds(error)
    BY <2>1 DEF PrintAllEnds, HasQuit, StatusIsSettled
  <2>2. CASE EntryEnds(error)
    <3>1. pc = "command" /\ command = "entry" /\ status = "none"
      BY <2>2 DEF EntryEnds, StatusIsSettled
    <3> QED
      BY <2>2, <3>1 DEF EntryEnds
  <2>3. CASE OutputEnds(error)
    BY <2>3 DEF OutputEnds, HasQuit, StatusIsSettled
  <2>4. CASE ExitEnds
    BY <2>4 DEF ExitEnds
  <2> QED
    BY <2>1, <2>2, <2>3, <2>4 DEF Flushed
<1>3. pipe \in Nat /\ shown \in Nat /\ left \in Nat /\ atexit \in BOOLEAN
      /\ status \in {"none", "success", "failed", "unwritten"} /\ broken \in BOOLEAN
  BY DEF Inv, TypeOK
<1>4. PipeIsConnected'
  BY <1>1 DEF PipeIsConnected
<1>5. PagerLeavesOnce'
  BY <1>1 DEF PagerLeavesOnce
<1>6. MainKnowsPager'
  BY <1>1 DEF MainKnowsPager
<1>7. LossIsKnown'
  BY <1>1, <1>2, <1>3 DEF LossIsKnown
<1>8. StatusIsSettled'
  BY <1>1, <1>2, <1>3 DEF StatusIsSettled, MainKnowsPager
<1> QED
  BY <1>4, <1>5, <1>6, <1>7, <1>8

\* A write that fails is known to be the pager's end, if there is a pager.
LEMMA FailureKeepsStatusInv ==
  ASSUME Inv, StatusInv, MayWrite, NEW error, WriteFails(error), error # "none",
         error = "EPIPE" => atexit,
         atexit => pager.end = "quit",
         UNCHANGED <<frames, fd, disposition, pid, atexit, command, ended, pager, pipe, shown>>
  PROVE  StatusInv'
PROOF
<1>1. /\ frames = <<>> /\ ended = "no" /\ left > 0 /\ pc \in Writing
      /\ left' \in 0 .. left - 1 /\ broken' = TRUE
  BY WriteFailsLoses DEF MayWrite, InMain, Inv
<1>2. /\ pipe \in Nat /\ shown \in Nat /\ left \in Nat /\ Output \in Nat
      /\ shown + pipe + left <= Output
  BY SizesAssumption DEF Inv, TypeOK, OutputIsBounded
<1>3. shown + pipe + left' < Output
  BY ONLY <1>1, <1>2, LossesOnlyLower
<1>4. CASE pc = "write" /\ UNCHANGED <<pc, status>>
  <2>1. status = "none"
    BY <1>4 DEF StatusInv, StatusIsSettled
  <2> QED
    BY <1>1, <1>3, <1>4, <2>1
    DEF StatusInv, PipeIsConnected, PagerLeavesOnce, MainKnowsPager, LossIsKnown,
        StatusIsSettled, Starting, Waiting
<1>5. CASE left' = 0 /\ Flushed(error)
  <2>1. broken' \in BOOLEAN /\ (broken => broken') /\ shown + pipe < Output
    BY <1>1, <1>2, <1>3, <1>5
  <2>2. left > 0
    BY <1>1
  <2> QED
    BY <1>1, <1>5, <2>1, <2>2, FlushedKeepsStatusInv
<1> QED
  BY <1>4, <1>5, WriteFailsLoses DEF Inv

LEMMA MainKeepsStatusInv ==
  ASSUME Inv, StatusInv, Main
  PROVE  StatusInv'
PROOF
<1> USE DescriptorsAssumption, SizesAssumption
    DEF Inv, TypeOK, StartsUnarmed, RunningIsKnown, ArmedIsComplete, IsArmed, OutputIsBounded,
        StatusInv, PipeIsConnected, PagerLeavesOnce, MainKnowsPager, LossIsKnown,
        StatusIsSettled, Starting, Writing, Waiting, Gone, Descriptors, Stdout, Stdin
<1>1. CASE StartUnpaged
  BY <1>1 DEF StartUnpaged, InMain
<1>2. CASE StartFails
  BY <1>2 DEF StartFails, InMain
<1>3. CASE Spawn
  BY <1>3 DEF Spawn, SpawnedTable, Lowest, Dup2, Close, InMain
<1>4. CASE Attach
  <2>1. PICK w \in Descriptors : fd[w] = "write" /\ fd' = Close(Dup2(fd, w, Stdout), w)
    BY <1>4 DEF Attach
  <2>2. /\ ended = "no" /\ frames = <<>> /\ pc = "attach" /\ pc' = "record"
        /\ UNCHANGED <<frames, pid, atexit, command, left, broken, status, ended, pager, pipe, shown>>
    BY <1>4 DEF Attach, InMain
  <2>3. w # Stdout /\ Stdout \in Descriptors /\ Stdin \in Descriptors
    BY <2>1, <2>2
  <2>4. fd'[Stdout] = "write" /\ \A d \in Descriptors : fd'[d] # "read"
    BY <2>1, <2>2, <2>3 DEF Dup2, Close
  <2>5. pager.life # "none"
    BY <2>1
  <2>6. pager.end # "done"
    BY <2>1, <2>2
  <2>7. PipeIsConnected'
    BY <2>2, <2>4, <2>5
  <2>8. PagerLeavesOnce'
    BY <2>2, <2>5, <2>6
  <2>9. (MainKnowsPager /\ LossIsKnown /\ StatusIsSettled)'
    BY <2>2, <2>4
  <2> QED
    BY <2>7, <2>8, <2>9
<1>5. CASE AttachFails
  BY <1>5 DEF AttachFails, InMain
<1>6. CASE RecordPid
  BY <1>6 DEF RecordPid, InMain
<1>7. CASE RegisterExit
  BY <1>7 DEF RegisterExit, InMain
<1>8. CASE IgnorePipe
  BY <1>8 DEF IgnorePipe, InMain
<1>9. CASE WriteTerminal
  <2>1. /\ MayWrite /\ frames = <<>> /\ ended = "no" /\ pc \in Writing /\ left > 0
        /\ ~atexit /\ pager.life = "none"
        /\ UNCHANGED <<frames, fd, disposition, pid, atexit, command, ended, pager, pipe>>
    BY <1>9 DEF WriteTerminal, MayWrite, InMain
  <2>2. CASE left' = left - 1 /\ shown' = shown + 1 /\ UNCHANGED <<pc, broken, status>>
    BY <2>1, <2>2
  <2>3. CASE WriteFails("other") /\ UNCHANGED shown
    BY <2>1, <2>3, FailureKeepsStatusInv
  <2> QED
    BY <1>9, <2>2, <2>3 DEF WriteTerminal
<1>10. CASE WritePipe
  BY <1>10 DEF WritePipe, MayWrite, InMain, IsReader, Holds
<1>11. CASE WriteBroken
  <2>1. /\ MayWrite /\ frames = <<>> /\ ended = "no" /\ pc \in Writing /\ left > 0
        /\ atexit /\ fd[Stdout] = "write" /\ pager.life \notin {"none", "running"}
        /\ UNCHANGED <<frames, fd, disposition, pid, atexit, command, pager, pipe, shown>>
    BY <1>11 DEF WriteBroken, MayWrite, InMain, IsReader, Holds
  <2>2. disposition["PIPE"] = "ignored"
    BY <2>1
  <2>3. pager.end = "quit"
    <3>1. pager.end \in Gone
      BY <2>1
    <3>2. pager.end # "killed" /\ pager.end # "done"
      BY <2>1
    <3> QED
      BY <3>1, <3>2
  <2>4. WriteFails("EPIPE") /\ UNCHANGED ended
    BY <1>11, <2>2 DEF WriteBroken
  <2> QED
    BY <2>1, <2>3, <2>4, FailureKeepsStatusInv
<1>12. CASE Flush
  <2>1. /\ Flushed(FlushError) /\ frames = <<>> /\ ended = "no" /\ left = 0
        /\ UNCHANGED <<frames, fd, disposition, pid, atexit, command, left, broken, ended,
                       pager, pipe, shown>>
    BY <1>12 DEF Flush, InMain
  <2>2. FlushError = IF broken THEN "EIO" ELSE "none"
    BY DEF FlushError
  <2>3. /\ FlushError # "EPIPE" /\ (~broken => FlushError = "none")
        /\ (broken => FlushError # "none") /\ broken \in BOOLEAN
    BY <2>2
  <2>4. broken => shown + pipe < Output
    BY <2>1
  <2>5. broken /\ atexit => pager.end = "quit"
    OBVIOUS
  <2> QED
    BY <2>1, <2>3, <2>4, <2>5, FlushedKeepsStatusInv
<1>18. CASE Printed
  BY <1>18 DEF Printed, InMain
<1>19. CASE CommandFails
  BY <1>19 DEF CommandFails, InMain
<1>13. CASE CloseOutput
  BY <1>13 DEF CloseOutput, Close, At, Goto
<1>14. CASE WaitPager
  BY <1>14 DEF WaitPager, At, Goto
<1>15. CASE ForgetPager
  BY <1>15 DEF ForgetPager, At, Goto
<1>16. CASE End
  BY <1>16 DEF End, At
<1>17. ASSUME NEW signo \in Signals, HandleSignal(signo)
  PROVE  StatusInv'
  BY <1>17 DEF HandleSignal, InMain
<1> QED
  BY <1>1, <1>2, <1>3, <1>4, <1>5, <1>6, <1>7, <1>8, <1>9, <1>10, <1>11, <1>12, <1>13, <1>14, <1>15, <1>16, <1>17, <1>18, <1>19
  DEF Main

LEMMA ArriveKeepsStatusInv ==
  ASSUME Inv, StatusInv, NEW signo \in Signals, Arrive(signo)
  PROVE  StatusInv'
PROOF
<1>1. frames' # <<>> \/ (frames' = frames /\ ended' = "signal")
  <2> DEFINE Frame == [signo : Signals, at : Waiting \cup {"end"}]
  <2>1. frames \in Seq(Frame)
    BY DEF Inv, TypeOK
  <2>2. [signo |-> signo, at |-> "close"] \in Frame
    BY DEF Waiting
  <2>3. <<[signo |-> signo, at |-> "close"]>> \o frames # <<>>
    BY <2>1, <2>2
  <2> QED
    BY <2>3 DEF Arrive
<1>2. UNCHANGED <<pc, fd, disposition, pid, atexit, command, left, broken, status, pager, pipe, shown>>
      /\ (ended' = ended \/ ended' = "signal") /\ ended = "no"
  BY DEF Arrive
<1> QED
  BY <1>1, <1>2
  DEF StatusInv, PipeIsConnected, PagerLeavesOnce, MainKnowsPager, LossIsKnown, StatusIsSettled

LEMMA PagerKeepsStatusInv ==
  ASSUME Inv, StatusInv, PagerReads \/ PagerQuits \/ PagerEnds
  PROVE  StatusInv'
PROOF
<1> USE SizesAssumption
    DEF Inv, TypeOK, RunningIsKnown, OutputIsBounded, StatusInv, PipeIsConnected, PagerLeavesOnce,
        MainKnowsPager, LossIsKnown, StatusIsSettled, Gone, Descriptors, Stdin
<1>1. CASE PagerReads
  BY <1>1 DEF PagerReads, tool
<1>2. CASE PagerQuits
  BY <1>2 DEF PagerQuits, Leave, tool
<1>3. CASE PagerEnds
  <2>1. pipe = 0 /\ (ended = "no" => \A d \in Descriptors : fd[d] # "write")
    BY <1>3 DEF PagerEnds, IsWriter, Holds
  <2> QED
    BY <1>3, <2>1 DEF PagerEnds, Leave, tool
<1> QED
  BY <1>1, <1>2, <1>3

LEMMA StutterKeepsStatusInv == ASSUME StatusInv, UNCHANGED vars PROVE StatusInv'
  BY DEF StatusInv, PipeIsConnected, PagerLeavesOnce, MainKnowsPager, LossIsKnown,
         StatusIsSettled, vars, tool

\* Started with a standard input, and whichever flush of the command, of the
\* tool or of the exit meets a failure, a tool that exits with success has had
\* its output seen or its pager quit, one that says its output is not written
\* is right, and quitting the pager never kills the tool.
THEOREM StatusIsTrue == ASSUME StdinIsOpen PROVE Spec => []StatusTells
PROOF
<1>1. Inv /\ StatusInv /\ [Next]_vars => StatusInv'
  BY MainKeepsStatusInv, ArriveKeepsStatusInv, PagerKeepsStatusInv, StutterKeepsStatusInv
  DEF Next
<1>2. Init => StatusInv
  BY InitStatusInv
<1>3. Inv /\ StatusInv => StatusTells
  BY SizesAssumption
  DEF Inv, TypeOK, RunningIsKnown, OutputIsBounded, StatusInv, PagerLeavesOnce,
      MainKnowsPager, LossIsKnown, StatusIsSettled, StatusTells, Starting, Waiting, Gone
<1> QED
  BY <1>1, <1>2, <1>3, Invariance, PTL DEF Spec

============================================================================
