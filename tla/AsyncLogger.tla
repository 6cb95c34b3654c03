----------------------------- MODULE AsyncLogger -----------------------------
(***************************************************************************)
(* utils/AsyncLogger: any number of threads append log lines to a buffer   *)
(* under a mutex; a backend thread takes the buffers and writes them to    *)
(* the log file, which is exchanged for a new one when it has grown.  Also *)
(* LogFile, and what Logger's destructor does with a FATAL line when the   *)
(* logger is installed with setOutput and setFlush.                        *)
(*                                                                         *)
(* Append holds the mutex from start to end, so the lines of all threads   *)
(* are numbered in the order they get it.  A buffer is the sequence of its *)
(* lines; Capacity lines fit (a line is much shorter than a buffer).       *)
(* nextBuffer_, new_current and new_next are spare buffers that are reset  *)
(* before use: only the lines they do not hold matter, so they are left    *)
(* out.  MaxLines bounds the lines ever appended; MaxFile lines stand for  *)
(* LoggerFileMaxSize.                                                      *)
(***************************************************************************)
EXTENDS Naturals, Sequences, SequencesExt

CONSTANTS Capacity, MaxLines, MaxFile

ASSUME LoggerAssumption ==
  Capacity \in Nat \ {0} /\ MaxLines \in Nat /\ MaxFile \in Nat

VARIABLES
  appended,        \* number of lines appended so far
  buffer_,         \* the buffer Append fills
  buffers_,        \* full buffers, oldest first
  active_buffers,  \* the backend's own list
  written,         \* how many of them ThreadFunc has written
  rolled,          \* what the files before the current one hold, in order
  file,            \* what was given to fwrite for the current file, in order
  flushed,         \* how much of it has left stdio's buffer
  running_,
  stopped,         \* history: the lines appended before Stop
  pc,              \* the backend: see Places
  fatal            \* the thread that logs a FATAL line: see Fatality

queue == <<appended, buffer_, buffers_>>
logFile_ == <<rolled, file, flushed>>
stopping == <<running_, stopped>>
vars == <<queue, active_buffers, written, logFile_, stopping, pc, fatal>>

Line == 1..MaxLines
Places == {"top", "wait", "write", "drain", "exit"}
Fatality == {"none", "output", "abort"}
Alive == fatal # "abort"

Init == /\ appended = 0
        /\ buffer_ = <<>> /\ buffers_ = <<>> /\ active_buffers = <<>>
        /\ written = 0
        /\ rolled = <<>> /\ file = <<>> /\ flushed = 0
        /\ running_ = TRUE /\ stopped = 0
        /\ pc = "top"
        /\ fatal = "none"

-----------------------------------------------------------------------------
(* Append: a full buffer goes to buffers_ and an empty one takes its place. *)
FullTooLate(n) == n > Capacity
FullAt(n) == n = Capacity

AddLineDropping(line) ==
  IF FullAt(Len(buffer_))
  THEN UNCHANGED <<buffer_, buffers_>>
  ELSE /\ buffer_' = Append(buffer_, line)
       /\ UNCHANGED buffers_

AddLine(line) ==
  IF FullAt(Len(buffer_))
  THEN /\ buffers_' = Append(buffers_, buffer_)
       /\ buffer_' = <<line>>
  ELSE /\ buffer_' = Append(buffer_, line)
       /\ UNCHANGED buffers_

(* Append does not ask whether the logger was stopped: it works the same    *)
(* while the backend finishes its round, and after the backend has ended.   *)
(* Between the two ThreadFunc writes and resets the buffers without the     *)
(* mutex, and an Append then is a data race on them, which is left out.     *)
BuffersAreLocked == pc # "drain"

AppendLine ==
  /\ Alive /\ BuffersAreLocked /\ appended < MaxLines
  /\ appended' = appended + 1
  /\ AddLine(appended + 1)
  /\ UNCHANGED <<active_buffers, written, logFile_, stopping, pc, fatal>>

(* ~Logger of a FATAL line: g_output appends it, g_flush calls              *)
(* AsyncLogger::Flush, which flushes the file, and abort ends the process.  *)
FatalOutput ==
  /\ fatal = "none" /\ BuffersAreLocked /\ appended < MaxLines
  /\ appended' = appended + 1
  /\ AddLine(appended + 1)
  /\ fatal' = "output"
  /\ UNCHANGED <<active_buffers, written, logFile_, stopping, pc>>

FatalFlushAndAbort ==
  /\ fatal = "output"
  /\ flushed' = Len(file)
  /\ fatal' = "abort"
  /\ UNCHANGED <<queue, active_buffers, written, rolled, file, stopping, pc>>

(* Stop, once, by the owner of the logger; other threads may go on logging. *)
Stop == /\ fatal = "none" /\ running_
        /\ running_' = FALSE /\ stopped' = appended
        /\ UNCHANGED <<queue, active_buffers, written, logFile_, pc, fatal>>

-----------------------------------------------------------------------------
(* ThreadFunc.  The loop tests running_, then takes the mutex and waits up  *)
(* to three seconds if buffers_ is empty: only a full buffer or the timeout *)
(* ends the wait, Stop's notify does not.                                   *)
LeaveLoop == /\ Alive /\ pc = "top" /\ ~running_
             /\ pc' = "drain"
             /\ UNCHANGED <<queue, active_buffers, written, logFile_, stopping, fatal>>

Wait == /\ Alive /\ pc = "top" /\ running_ /\ buffers_ = <<>>
        /\ pc' = "wait"
        /\ UNCHANGED <<queue, active_buffers, written, logFile_, stopping, fatal>>

(* Still under the mutex: the current buffer joins the full ones and the    *)
(* two lists are swapped, whatever is left in active_buffers included.      *)
SwapWithoutCurrent ==
  /\ active_buffers' = buffers_
  /\ buffers_' = active_buffers
  /\ UNCHANGED buffer_

SwapBuffers ==
  /\ active_buffers' = Append(buffers_, buffer_)
  /\ buffers_' = active_buffers
  /\ buffer_' = <<>>

WaitEndsWhenNotified == pc = "wait" /\ buffers_ # <<>>
WaitEnds == pc = "wait"

Collect == /\ Alive
           /\ WaitEnds \/ (pc = "top" /\ running_ /\ buffers_ # <<>>)
           /\ SwapBuffers
           /\ written' = 0
           /\ pc' = "write"
           /\ UNCHANGED <<appended, logFile_, stopping, fatal>>

(* LogFile::Write: fwrite, and a flush when the last one is old.            *)
LogFileWrite(lines) == /\ file' = file \o lines
                       /\ flushed' \in {flushed, Len(file')}
                       /\ UNCHANGED rolled

WriteFromBack ==
  /\ LogFileWrite(active_buffers[Len(active_buffers) - written])
  /\ written' = written + 1

WriteNext == /\ LogFileWrite(active_buffers[written + 1])
             /\ written' = written + 1

WriteBuffer == /\ Alive /\ pc = "write" /\ written < Len(active_buffers)
               /\ WriteNext
               /\ UNCHANGED <<queue, active_buffers, stopping, pc, fatal>>

AllWritten == Alive /\ pc = "write" /\ written = Len(active_buffers)
TooLong == Len(file) > MaxFile

(* The new LogFile is there before the destructor of the old one flushes it *)
(* (it does not close it).  When the new file cannot be opened, under its   *)
(* own name or the default one, the constructor's assertion fails.          *)
RollUnflushed == rolled' = rolled \o SubSeq(file, 1, flushed)

RollFlushed == rolled' = rolled \o file

RollFile == /\ AllWritten /\ TooLong
            /\ RollFlushed
            /\ file' = <<>> /\ flushed' = 0
            /\ UNCHANGED <<queue, active_buffers, written, stopping, pc, fatal>>

RollFails == /\ AllWritten /\ TooLong
             /\ fatal' = "abort"
             /\ UNCHANGED <<queue, active_buffers, written, logFile_, stopping, pc>>

(* Two buffers are taken back from the list to be used again; the others    *)
(* stay in it.                                                              *)
KeptBuffers == LET n == Len(active_buffers)
               IN IF n > 2 THEN SubSeq(active_buffers, 1, n - 2) ELSE <<>>

Recycle == /\ AllWritten /\ ~TooLong
           /\ active_buffers' = KeptBuffers
           /\ pc' = "top"
           /\ UNCHANGED <<queue, written, logFile_, stopping, fatal>>

(* After the loop: what is left is written and the file is flushed.         *)
DrainBuffer == /\ Alive /\ pc = "drain" /\ buffers_ # <<>>
               /\ LogFileWrite(Head(buffers_))
               /\ buffers_' = Tail(buffers_)
               /\ UNCHANGED <<appended, buffer_, active_buffers, written,
                              stopping, pc, fatal>>

DrainCurrent == /\ Alive /\ pc = "drain" /\ buffers_ = <<>>
                /\ file' = file \o buffer_
                /\ flushed' = Len(file')
                /\ buffer_' = <<>>
                /\ pc' = "exit"
                /\ UNCHANGED <<appended, buffers_, active_buffers, written, rolled,
                               stopping, fatal>>

-----------------------------------------------------------------------------
Backend == \/ LeaveLoop \/ Wait \/ Collect \/ WriteBuffer \/ RollFile
           \/ RollFails \/ Recycle \/ DrainBuffer \/ DrainCurrent

Next == AppendLine \/ FatalOutput \/ FatalFlushAndAbort \/ Stop \/ Backend

Spec == Init /\ [][Next]_vars

(* The backend thread is scheduled, and its wait times out.                 *)
FairSpec == Spec /\ WF_vars(Backend)
-----------------------------------------------------------------------------
Files == rolled \o file
OnDisk == rolled \o SubSeq(file, 1, flushed)
LinesOf(list, indices) == UNION {ToSet(list[i]) : i \in indices}

(* The indices of the buffers the backend has still to write. *)
Pending == IF pc = "write" THEN (written + 1)..Len(active_buffers) ELSE {}
Buffered == ToSet(buffer_) \cup LinesOf(buffers_, DOMAIN buffers_)
                           \cup LinesOf(active_buffers, Pending)

(* Every variable has its type. *)
TypeOK == /\ appended \in 0..MaxLines
          /\ buffer_ \in Seq(Line) /\ Len(buffer_) <= Capacity
          /\ buffers_ \in Seq(Seq(Line)) /\ active_buffers \in Seq(Seq(Line))
          /\ written \in Nat /\ (pc = "write" => written <= Len(active_buffers))
          /\ rolled \in Seq(Line) /\ file \in Seq(Line) /\ flushed \in 0..Len(file)
          /\ running_ \in BOOLEAN /\ stopped \in 0..appended
          /\ pc \in Places /\ fatal \in Fatality

(* No line is ever dropped between the buffers, the two lists the backend   *)
(* swaps and the file, even when it is slow and buffers pile up             *)
(* (AsyncLogger.cpp:71-72).                                                 *)
NoLineLost == \A n \in 1..appended : n \in Buffered \cup ToSet(Files)

(* The files are in the order of Append: the first copy of a line comes     *)
(* after the first copy of every earlier one.                               *)
WrittenInOrder ==
  \A i \in DOMAIN Files :
    \A n \in 1..(Files[i] - 1) : n \in ToSet(SubSeq(Files, 1, i - 1))

(* When the backend has ended, every line appended before Stop is out of    *)
(* stdio's buffer, of the files that were exchanged too, also when others   *)
(* appended more in the meantime (AsyncLogger.cpp:122-132,                  *)
(* LogFile.cpp:22-27).                                                      *)
StopFlushesAll == pc = "exit" => \A n \in 1..stopped : n \in ToSet(OnDisk)

(* A line appended before Stop reaches the file though no later line fills  *)
(* its buffer: the three-second timeout collects it (AsyncLogger.cpp:69).   *)
EventuallyWritten ==
  \A n \in 1..MaxLines : running_ /\ appended >= n ~> n \in ToSet(Files) \/ ~Alive

(* Stop's join returns. *)
StopReturns == ~running_ ~> pc = "exit" \/ ~Alive

(* The comment of AsyncLogger.cpp:56: active_buffers must be empty whenever *)
(* buffers are taken in.                                                    *)
ActiveBuffersEmptyAtSwap == pc \in {"top", "wait"} => active_buffers = <<>>
=============================================================================
