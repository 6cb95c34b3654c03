--------------------------- MODULE AsyncLoggerProofs ---------------------------
(* The asynchronous logger loses no line, writes lines in order and has     *)
(* everything on disk after Stop, for buffers and files of any size.        *)
EXTENDS AsyncLogger, SequenceTheorems, TLAPS

-----------------------------------------------------------------------------
(* Sequences and the sets of their elements. *)
LEMMA SetOfAppend ==
  ASSUME NEW S, NEW s \in Seq(S), NEW e \in S
  PROVE  ToSet(Append(s, e)) = ToSet(s) \cup {e}
<1> DEFINE t == Append(s, e)
<1>1. /\ DOMAIN s = 1..Len(s) /\ Len(s) \in Nat
      /\ DOMAIN t = 1..(Len(s) + 1)
      /\ \A i \in 1..Len(s) : t[i] = s[i]
      /\ t[Len(s) + 1] = e
  BY AppendProperties, LenProperties
<1> HIDE DEF t
<1> QED BY <1>1 DEF ToSet, t

LEMMA SetOfConcat ==
  ASSUME NEW S, NEW s \in Seq(S), NEW t \in Seq(S)
  PROVE  ToSet(s \o t) = ToSet(s) \cup ToSet(t)
<1> DEFINE u == s \o t
<1>1. /\ DOMAIN s = 1..Len(s) /\ Len(s) \in Nat
      /\ DOMAIN t = 1..Len(t) /\ Len(t) \in Nat
      /\ DOMAIN u = 1..(Len(s) + Len(t))
      /\ \A i \in 1..(Len(s) + Len(t)) :
           u[i] = IF i <= Len(s) THEN s[i] ELSE t[i - Len(s)]
  BY ConcatProperties, LenProperties
<1> HIDE DEF u
<1>2. \A i \in 1..Len(s) : i \in DOMAIN u /\ u[i] = s[i]
  BY <1>1
<1>3. \A i \in 1..Len(t) : i + Len(s) \in DOMAIN u /\ u[i + Len(s)] = t[i]
  BY <1>1
<1>4. \A i \in DOMAIN u : u[i] \in ToSet(s) \cup ToSet(t)
  <2> TAKE i \in DOMAIN u
  <2>1. CASE i <= Len(s)
    BY <1>1, <2>1 DEF ToSet
  <2>2. CASE ~(i <= Len(s))
    <3>1. i - Len(s) \in DOMAIN t /\ u[i] = t[i - Len(s)]
      BY <1>1, <2>2
    <3> QED BY <3>1 DEF ToSet
  <2> QED BY <2>1, <2>2
<1>5. ToSet(u) \subseteq ToSet(s) \cup ToSet(t)
  BY <1>4 DEF ToSet
<1>6. ToSet(s) \cup ToSet(t) \subseteq ToSet(u)
  BY <1>1, <1>2, <1>3 DEF ToSet
<1> QED BY <1>5, <1>6 DEF u

-----------------------------------------------------------------------------
(* Type correctness. *)
LEMMA InitTyped == Init => TypeOK
BY LoggerAssumption DEF Init, TypeOK, Places, Fatality

LEMMA AddLineTyped ==
  ASSUME TypeOK, NEW line \in Line, AddLine(line)
  PROVE  /\ buffer_' \in Seq(Line) /\ Len(buffer_') <= Capacity
         /\ buffers_' \in Seq(Seq(Line))
<1>1. buffer_ \in Seq(Line) /\ Len(buffer_) \in Nat /\ buffers_ \in Seq(Seq(Line))
      /\ Len(buffer_) <= Capacity
  BY DEF TypeOK
<1>2. CASE FullAt(Len(buffer_))
  <2>1. <<line>> \in Seq(Line) /\ Len(<<line>>) = 1
    OBVIOUS
  <2>2. Append(buffers_, buffer_) \in Seq(Seq(Line))
    BY <1>1, AppendProperties
  <2>3. 1 <= Capacity
    BY LoggerAssumption
  <2> QED BY <1>2, <2>1, <2>2, <2>3 DEF AddLine
<1>3. CASE ~FullAt(Len(buffer_))
  <2>1. Append(buffer_, line) \in Seq(Line)
        /\ Len(Append(buffer_, line)) = Len(buffer_) + 1
    BY <1>1, AppendProperties
  <2> QED BY <1>1, <1>3, <2>1, LoggerAssumption DEF AddLine, FullAt
<1> QED BY <1>2, <1>3

LEMMA LogFileWriteTyped ==
  ASSUME TypeOK, NEW lines \in Seq(Line), LogFileWrite(lines)
  PROVE  file' \in Seq(Line) /\ rolled' \in Seq(Line) /\ flushed' \in 0..Len(file')
<1>1. file' \in Seq(Line) /\ Len(file') = Len(file) + Len(lines)
  BY ConcatProperties DEF LogFileWrite, TypeOK, Line
<1>2. Len(file) \in Nat /\ Len(lines) \in Nat
  BY DEF TypeOK
<1> QED BY <1>1, <1>2 DEF LogFileWrite, TypeOK, Line

(* What Recycle leaves in the list are buffers of the list. *)
LEMMA KeptIsAPrefix ==
  ASSUME TypeOK
  PROVE  /\ KeptBuffers \in Seq(Seq(Line))
         /\ Len(KeptBuffers) <= Len(active_buffers)
         /\ \A i \in 1..Len(KeptBuffers) : KeptBuffers[i] = active_buffers[i]
<1> DEFINE n == Len(active_buffers)
<1>1. active_buffers \in Seq(Seq(Line)) /\ n \in Nat
      /\ \A i \in 1..n : active_buffers[i] \in Seq(Line)
  BY ElementOfSeq DEF TypeOK
<1>2. CASE n > 2
  <2>1. KeptBuffers = SubSeq(active_buffers, 1, n - 2)
    BY <1>2 DEF KeptBuffers
  <2> HIDE DEF n
  <2>2. n - 2 \in Int /\ 1 <= n - 2 /\ 1..(n - 2) \subseteq 1..n
    BY <1>1, <1>2
  <2>3. /\ SubSeq(active_buffers, 1, n - 2) \in Seq(Seq(Line))
        /\ Len(SubSeq(active_buffers, 1, n - 2)) = n - 2
        /\ \A i \in 1..(n - 2) :
             SubSeq(active_buffers, 1, n - 2)[i] = active_buffers[i]
    BY <1>1, <2>2, SubSeqProperties
  <2> QED BY <1>1, <2>1, <2>2, <2>3 DEF n
<1>3. CASE ~(n > 2)
  BY <1>1, <1>3 DEF KeptBuffers
<1> QED BY <1>2, <1>3

LEMMA NextTyped == TypeOK /\ [Next]_vars => TypeOK'
<1> SUFFICES ASSUME TypeOK, [Next]_vars PROVE TypeOK'
  OBVIOUS
<1> USE DEF queue, logFile_, stopping, Places, Fatality
<1>1. CASE AppendLine \/ FatalOutput
  <2>1. appended + 1 \in Line /\ AddLine(appended + 1)
    BY <1>1, LoggerAssumption DEF AppendLine, FatalOutput, TypeOK, Line
  <2>2. /\ buffer_' \in Seq(Line) /\ Len(buffer_') <= Capacity
        /\ buffers_' \in Seq(Seq(Line))
    BY <2>1, AddLineTyped
  <2> QED BY <1>1, <2>1, <2>2 DEF AppendLine, FatalOutput, TypeOK, Line
<1>2. CASE FatalFlushAndAbort
  BY <1>2 DEF FatalFlushAndAbort, TypeOK
<1>3. CASE Stop
  <2>1. stopped' \in 0..appended'
    BY <1>3, LoggerAssumption DEF Stop, TypeOK
  <2> QED BY <1>3, <2>1 DEF Stop, TypeOK
<1>4. CASE LeaveLoop
  BY <1>4 DEF LeaveLoop, TypeOK
<1>5. CASE Wait
  BY <1>5 DEF Wait, TypeOK
<1>6. CASE Collect
  <2>1. active_buffers' \in Seq(Seq(Line))
    BY <1>6, AppendProperties DEF Collect, SwapBuffers, TypeOK, Line
  <2> QED BY <1>6, <2>1, LoggerAssumption DEF Collect, SwapBuffers, TypeOK, Line
<1>7. CASE WriteBuffer
  <2>1. active_buffers[written + 1] \in Seq(Line)
    BY <1>7 DEF WriteBuffer, TypeOK
  <2>2. file' \in Seq(Line) /\ rolled' \in Seq(Line) /\ flushed' \in 0..Len(file')
    BY <1>7, <2>1, LogFileWriteTyped DEF WriteBuffer, WriteNext
  <2> QED BY <1>7, <2>2 DEF WriteBuffer, WriteNext, TypeOK, Line
<1>8. CASE RollFile
  <2>1. rolled' \in Seq(Line)
    BY <1>8, ConcatProperties DEF RollFile, RollFlushed, TypeOK, Line
  <2> QED BY <1>8, <2>1 DEF RollFile, TypeOK, Line
<1>9. CASE RollFails
  BY <1>9 DEF RollFails, TypeOK
<1>10. CASE Recycle
  <2>1. KeptBuffers \in Seq(Seq(Line))
    BY KeptIsAPrefix
  <2> QED BY <1>10, <2>1 DEF Recycle, TypeOK, Line
<1>11. CASE DrainBuffer
  <2>1. Head(buffers_) \in Seq(Line) /\ Tail(buffers_) \in Seq(Seq(Line))
    BY <1>11, HeadTailProperties DEF DrainBuffer, TypeOK, Line
  <2>2. file' \in Seq(Line) /\ rolled' \in Seq(Line) /\ flushed' \in 0..Len(file')
    BY <1>11, <2>1, LogFileWriteTyped DEF DrainBuffer
  <2> QED BY <1>11, <2>1, <2>2 DEF DrainBuffer, TypeOK, Line
<1>12. CASE DrainCurrent
  <2>1. file' \in Seq(Line)
    BY <1>12, ConcatProperties DEF DrainCurrent, TypeOK, Line
  <2>2. Len(file') \in Nat
    BY <2>1
  <2> QED BY <1>12, <2>1, <2>2, LoggerAssumption DEF DrainCurrent, TypeOK, Line
<1>13. CASE UNCHANGED vars
  BY <1>13 DEF vars, TypeOK
<1> QED BY <1>1, <1>2, <1>3, <1>4, <1>5, <1>6, <1>7, <1>8, <1>9, <1>10, <1>11,
           <1>12, <1>13 DEF Next, Backend

(* Every variable always has its type; no buffer is ever filled beyond its  *)
(* capacity (AsyncLogger.cpp:32).                                           *)
THEOREM TypeCorrect == Spec => []TypeOK
<1> QED BY InitTyped, NextTyped, PTL DEF Spec

-----------------------------------------------------------------------------
(* The inductive invariant.  The lines of a list of buffers that may be     *)
(* followed by `rest`: every smaller line is in S or earlier in the list.   *)
Below(S, b) == \A k \in DOMAIN b : \A n \in 1..(b[k] - 1) :
                 n \in S \/ \E j \in 1..(k - 1) : b[j] = n

Written == ToSet(Files)
Taken == LinesOf(active_buffers, Pending)
Full == LinesOf(buffers_, DOMAIN buffers_)

(* What the backend does not still have to write is in the files, so that   *)
(* the swap, which gives it back to Append, does no harm.                   *)
RestIsStale == \A i \in DOMAIN active_buffers \ Pending :
                 ToSet(active_buffers[i]) \subseteq Written

(* Along files, the backend's list, the full buffers and the current one,   *)
(* a line comes after all the earlier lines.                                *)
FilesOrdered == Below({}, Files)
TakenOrdered == \A i \in Pending :
  Below(Written \cup LinesOf(active_buffers, (written + 1)..(i - 1)), active_buffers[i])
FullOrdered == \A i \in DOMAIN buffers_ :
  Below(Written \cup Taken \cup LinesOf(buffers_, 1..(i - 1)), buffers_[i])
CurrentOrdered == Below(Written \cup Taken \cup Full, buffer_)

(* The backend leaves its loop only after Stop, and ends with every line    *)
(* written that was appended before it.                                     *)
EndsAfterStop == pc \in {"drain", "exit"} => ~running_
EndsWritten == pc = "exit" => flushed = Len(file) /\ 1..stopped \subseteq Written

InOrder == FilesOrdered /\ TakenOrdered /\ FullOrdered /\ CurrentOrdered
LogInv == NoLineLost /\ RestIsStale /\ InOrder /\ EndsAfterStop /\ EndsWritten

-----------------------------------------------------------------------------
(* Lists of lines. *)
LEMMA BelowMore ==
  ASSUME NEW S, NEW T, NEW b, S \subseteq T, Below(S, b)
  PROVE  Below(T, b)
BY DEF Below

LEMMA BelowEmpty ==
  ASSUME NEW S
  PROVE  Below(S, <<>>)
BY DEF Below

LEMMA BelowAppend ==
  ASSUME NEW S, NEW b \in Seq(Line), NEW line \in Line, Below(S, b),
         \A n \in 1..(line - 1) : n \in S \cup ToSet(b)
  PROVE  Below(S, Append(b, line))
<1> DEFINE c == Append(b, line)
<1>1. /\ Len(b) \in Nat /\ DOMAIN b = 1..Len(b) /\ DOMAIN c = 1..(Len(b) + 1)
      /\ \A i \in 1..Len(b) : c[i] = b[i]
      /\ c[Len(b) + 1] = line
  BY AppendProperties, LenProperties
<1> HIDE DEF c
<1> SUFFICES ASSUME NEW k \in DOMAIN c, NEW n \in 1..(c[k] - 1), n \notin S
             PROVE  \E j \in 1..(k - 1) : c[j] = n
  BY DEF Below, c
<1>2. CASE k \in DOMAIN b
  <2>1. PICK j \in 1..(k - 1) : b[j] = n
    BY <1>1, <1>2 DEF Below
  <2> QED BY <1>1, <1>2, <2>1
<1>3. CASE k = Len(b) + 1
  <2>1. n \in ToSet(b)
    BY <1>1, <1>3
  <2>2. PICK j \in DOMAIN b : b[j] = n
    BY <2>1 DEF ToSet
  <2> QED BY <1>1, <1>3, <2>2
<1> QED BY <1>1, <1>2, <1>3

LEMMA BelowConcat ==
  ASSUME NEW S, NEW a \in Seq(Line), NEW b \in Seq(Line),
         Below(S, a), Below(S \cup ToSet(a), b)
  PROVE  Below(S, a \o b)
<1> DEFINE c == a \o b
<1>1. /\ Len(a) \in Nat /\ DOMAIN a = 1..Len(a)
      /\ Len(b) \in Nat /\ DOMAIN b = 1..Len(b)
      /\ DOMAIN c = 1..(Len(a) + Len(b))
      /\ \A i \in 1..(Len(a) + Len(b)) :
           c[i] = IF i <= Len(a) THEN a[i] ELSE b[i - Len(a)]
  BY ConcatProperties, LenProperties
<1> HIDE DEF c
<1> SUFFICES ASSUME NEW k \in DOMAIN c, NEW n \in 1..(c[k] - 1), n \notin S
             PROVE  \E j \in 1..(k - 1) : c[j] = n
  BY DEF Below, c
<1>2. CASE k <= Len(a)
  <2>1. k \in DOMAIN a /\ c[k] = a[k]
    BY <1>1, <1>2
  <2>2. PICK j \in 1..(k - 1) : a[j] = n
    BY <2>1 DEF Below
  <2> QED BY <1>1, <1>2, <2>2
<1>3. CASE ~(k <= Len(a))
  <2>1. k - Len(a) \in DOMAIN b /\ c[k] = b[k - Len(a)]
    BY <1>1, <1>3
  <2>2. n \in ToSet(a) \/ \E j \in 1..(k - Len(a) - 1) : b[j] = n
    BY <2>1 DEF Below
  <2>3. CASE n \in ToSet(a)
    <3>1. PICK j \in DOMAIN a : a[j] = n
      BY <2>3 DEF ToSet
    <3>2. j \in 1..(k - 1) /\ c[j] = n
      BY <1>1, <1>3, <3>1
    <3> QED BY <3>2
  <2>4. CASE \E j \in 1..(k - Len(a) - 1) : b[j] = n
    <3>1. PICK j \in 1..(k - Len(a) - 1) : b[j] = n
      BY <2>4
    <3>2. j + Len(a) \in 1..(k - 1) /\ c[j + Len(a)] = n
      BY <1>1, <1>3, <2>1, <3>1
    <3> QED BY <3>2
  <2> QED BY <2>2, <2>3, <2>4
<1> QED BY <1>2, <1>3

(* Lines that are in a well-ordered list may follow it. *)
LEMMA BelowStale ==
  ASSUME NEW f \in Seq(Line), NEW b \in Seq(Line),
         Below({}, f), ToSet(b) \subseteq ToSet(f)
  PROVE  Below(ToSet(f), b)
<1> SUFFICES ASSUME NEW k \in DOMAIN b, NEW n \in 1..(b[k] - 1)
             PROVE  n \in ToSet(f)
  BY DEF Below
<1>1. PICK m \in DOMAIN f : f[m] = b[k]
  BY DEF ToSet
<1>2. PICK j \in 1..(m - 1) : f[j] = n
  BY <1>1 DEF Below
<1>3. j \in DOMAIN f
  BY <1>1, <1>2, LenProperties
<1> QED BY <1>2, <1>3 DEF ToSet

LEMMA ConcatSets ==
  ASSUME NEW a \in Seq(Line), NEW b \in Seq(Line)
  PROVE  a \o b \in Seq(Line) /\ ToSet(a \o b) = ToSet(a) \cup ToSet(b)
BY ConcatProperties, SetOfConcat

LEMMA SameLines ==
  ASSUME NEW a, NEW b, NEW I, \A i \in I : a[i] = b[i]
  PROVE  LinesOf(a, I) = LinesOf(b, I)
BY DEF LinesOf

LEMMA EmptySet == ToSet(<<>>) = {}
BY DEF ToSet

-----------------------------------------------------------------------------
(* The steps. *)
LEMMA LogInvInit == Init => LogInv
<1> SUFFICES ASSUME Init PROVE LogInv
  OBVIOUS
<1>1. Files = <<>>
  BY DEF Init, Files
<1>2. DOMAIN active_buffers = {} /\ DOMAIN buffers_ = {} /\ Pending = {}
  BY DEF Init, Pending
<1>3. NoLineLost /\ RestIsStale /\ EndsAfterStop /\ EndsWritten
  BY <1>2 DEF Init, NoLineLost, RestIsStale, EndsAfterStop, EndsWritten
<1>4. InOrder
  BY <1>1, <1>2, BelowEmpty
  DEF Init, InOrder, FilesOrdered, TakenOrdered, FullOrdered, CurrentOrdered
<1> QED BY <1>3, <1>4 DEF LogInv

(* A step that moves no line leaves the places of all lines as they are. *)
LEMMA NothingMoves ==
  ASSUME LogInv, Files' = Files, Pending' = Pending,
         UNCHANGED <<appended, buffer_, buffers_, active_buffers, written>>
  PROVE  NoLineLost' /\ RestIsStale' /\ InOrder'
BY DEF LogInv, NoLineLost, Buffered, RestIsStale, InOrder, FilesOrdered, TakenOrdered,
       FullOrdered, CurrentOrdered, Written, Taken, Full

(* Append: the line is the last one of the current buffer, which may have   *)
(* become the last one of the full buffers.                                 *)
LEMMA LogInvAppend ==
  ASSUME TypeOK, LogInv, appended < MaxLines, appended' = appended + 1,
         AddLine(appended + 1),
         UNCHANGED <<active_buffers, written, logFile_, stopping, pc>>
  PROVE  LogInv'
<1> DEFINE line == appended + 1
<1>1. /\ appended \in Nat /\ line \in Line
      /\ buffer_ \in Seq(Line) /\ buffers_ \in Seq(Seq(Line))
      /\ Len(buffers_) \in Nat /\ DOMAIN buffers_ = 1..Len(buffers_)
  BY LoggerAssumption, LenProperties DEF TypeOK, Line
<1>2. Files' = Files /\ Pending' = Pending /\ Written' = Written /\ Taken' = Taken
  BY DEF logFile_, Files, Pending, Written, Taken
<1>3. RestIsStale' /\ FilesOrdered' /\ TakenOrdered'
  BY <1>2 DEF LogInv, RestIsStale, InOrder, FilesOrdered, TakenOrdered, Written
<1>4. EndsAfterStop' /\ EndsWritten'
  BY <1>2 DEF LogInv, EndsAfterStop, EndsWritten, logFile_, stopping
<1>5. \A n \in 1..appended : n \in Written \cup Taken \cup Full \cup ToSet(buffer_)
  BY DEF LogInv, NoLineLost, Buffered, Written, Taken, Full
<1>6. CASE ~FullAt(Len(buffer_))
  <2>1. buffer_' = Append(buffer_, line) /\ buffers_' = buffers_
    BY <1>6 DEF AddLine
  <2>2. ToSet(buffer_') = ToSet(buffer_) \cup {line} /\ Full' = Full
    BY <1>1, <2>1, SetOfAppend DEF Full
  <2>3. FullOrdered'
    BY <1>2, <2>1 DEF LogInv, InOrder, FullOrdered
  <2>4. CurrentOrdered'
    <3> DEFINE S == Written \cup Taken \cup Full
    <3>1. Below(S, buffer_) /\ \A n \in 1..(line - 1) : n \in S \cup ToSet(buffer_)
      BY <1>1, <1>5 DEF LogInv, InOrder, CurrentOrdered
    <3> HIDE DEF S
    <3>2. Below(S, Append(buffer_, line))
      BY <1>1, <3>1, BelowAppend
    <3> QED BY <1>2, <2>1, <2>2, <3>2 DEF CurrentOrdered, S
  <2>5. NoLineLost'
    BY <1>1, <1>2, <1>5, <2>2 DEF NoLineLost, Buffered, Written, Taken, Full
  <2> QED BY <1>3, <1>4, <2>3, <2>4, <2>5 DEF LogInv, InOrder
<1>7. CASE FullAt(Len(buffer_))
  <2> DEFINE m == Len(buffers_)
  <2>1. buffers_' = Append(buffers_, buffer_) /\ buffer_' = <<line>>
    BY <1>7 DEF AddLine
  <2>2. /\ DOMAIN buffers_' = 1..(m + 1)
        /\ \A i \in 1..m : buffers_'[i] = buffers_[i]
        /\ buffers_'[m + 1] = buffer_
    BY <1>1, <2>1, AppendProperties, LenProperties
  <2>3. \A i \in 1..(m + 1) : LinesOf(buffers_', 1..(i - 1)) = LinesOf(buffers_, 1..(i - 1))
    <3> TAKE i \in 1..(m + 1)
    <3>1. \A k \in 1..(i - 1) : buffers_'[k] = buffers_[k]
      BY <1>1, <2>2
    <3> QED BY <3>1, SameLines
  <2>4. Full' = Full \cup ToSet(buffer_)
    <3>1. 1..(m + 1) = (1..m) \cup {m + 1}
      BY <1>1
    <3> QED BY <1>1, <2>2, <3>1 DEF Full, LinesOf
  <2>5. ToSet(buffer_') = {line}
    BY <2>1 DEF ToSet
  <2>6. FullOrdered'
    <3> SUFFICES ASSUME NEW i \in 1..(m + 1)
                 PROVE  Below(Written \cup Taken \cup LinesOf(buffers_, 1..(i - 1)),
                              buffers_'[i])
      BY <1>2, <2>2, <2>3 DEF FullOrdered
    <3>1. CASE i \in 1..m
      BY <1>1, <2>2, <3>1 DEF LogInv, InOrder, FullOrdered
    <3>2. CASE i = m + 1
      <4>1. 1..(i - 1) = DOMAIN buffers_
        BY <1>1, <3>2
      <4> QED BY <2>2, <3>2, <4>1 DEF LogInv, InOrder, CurrentOrdered, Full
    <3> QED BY <1>1, <3>1, <3>2
  <2>7. CurrentOrdered'
    <3>1. \A n \in 1..(line - 1) : n \in Written \cup Taken \cup Full \cup ToSet(buffer_)
      BY <1>1, <1>5
    <3> QED BY <1>2, <2>1, <2>4, <3>1 DEF CurrentOrdered, Below
  <2>8. NoLineLost'
    BY <1>1, <1>2, <1>5, <2>4, <2>5 DEF NoLineLost, Buffered, Written, Taken, Full
  <2> QED BY <1>3, <1>4, <2>6, <2>7, <2>8 DEF LogInv, InOrder
<1> QED BY <1>6, <1>7

(* The swap: what Append filled is what the backend has to write, and what  *)
(* it still held is already in the files.                                   *)
LEMMA LogInvCollect ==
  ASSUME TypeOK, LogInv, Collect
  PROVE  LogInv'
<1> DEFINE m == Len(buffers_)
<1>1. /\ buffer_ \in Seq(Line) /\ buffers_ \in Seq(Seq(Line))
      /\ active_buffers \in Seq(Seq(Line)) /\ Files \in Seq(Line)
      /\ m \in Nat /\ DOMAIN buffers_ = 1..m
  BY LenProperties, ConcatProperties DEF TypeOK, Files
<1>2. Files' = Files /\ Written' = Written /\ Pending = {} /\ Taken = {}
  BY DEF Collect, WaitEnds, logFile_, Files, Written, Pending, Taken, LinesOf
<1>3. active_buffers' = Append(buffers_, buffer_) /\ buffers_' = active_buffers
      /\ buffer_' = <<>> /\ pc' = "write" /\ written' = 0
  BY DEF Collect, SwapBuffers
<1>4. /\ Len(active_buffers') = m + 1
      /\ \A i \in 1..m : active_buffers'[i] = buffers_[i]
      /\ active_buffers'[m + 1] = buffer_
  BY <1>1, <1>3, AppendProperties
<1>5. Pending' = 1..(m + 1)
  BY <1>3, <1>4 DEF Pending
<1>6. DOMAIN active_buffers' = 1..(m + 1)
  BY <1>1, <1>3, <1>4, AppendProperties, LenProperties
<1>7. \A i \in 1..(m + 1) :
        LinesOf(active_buffers', 1..(i - 1)) = LinesOf(buffers_, 1..(i - 1))
  <2> TAKE i \in 1..(m + 1)
  <2>1. \A k \in 1..(i - 1) : active_buffers'[k] = buffers_[k]
    BY <1>1, <1>4
  <2> QED BY <2>1, SameLines
<1>8. Taken' = Full \cup ToSet(buffer_)
  <2>1. 1..(m + 1) = (1..m) \cup {m + 1}
    BY <1>1
  <2> QED BY <1>1, <1>4, <1>5, <2>1 DEF Taken, Full, LinesOf
<1>9. \A i \in DOMAIN active_buffers :
        active_buffers[i] \in Seq(Line) /\ ToSet(active_buffers[i]) \subseteq Written
  BY <1>1, <1>2, ElementOfSeq, LenProperties DEF LogInv, RestIsStale
<1>10. NoLineLost'
  <2>1. \A n \in 1..appended : n \in Written \cup Full \cup ToSet(buffer_)
    BY <1>2 DEF LogInv, NoLineLost, Buffered, Written, Taken, Full
  <2> QED BY <1>2, <1>8, <2>1 DEF Collect, NoLineLost, Buffered, Written, Taken
<1>11. RestIsStale'
  BY <1>5, <1>6 DEF RestIsStale
<1>12. FilesOrdered'
  BY <1>2 DEF LogInv, InOrder, FilesOrdered
<1>13. TakenOrdered'
  <2> HIDE DEF m
  <2>1a. written' + 1 = 1
    BY <1>3
  <2> SUFFICES ASSUME NEW i \in 1..(m + 1)
               PROVE  Below(Written \cup LinesOf(buffers_, 1..(i - 1)), active_buffers'[i])
    BY <1>2, <1>5, <1>7, <2>1a DEF TakenOrdered
  <2>1. CASE i \in 1..m
    BY <1>1, <1>2, <1>4, <2>1 DEF LogInv, InOrder, FullOrdered
  <2>2. CASE i = m + 1
    <3>1. 1..(i - 1) = DOMAIN buffers_
      BY <1>1, <2>2
    <3> QED BY <1>2, <1>4, <2>2, <3>1 DEF LogInv, InOrder, CurrentOrdered, Full
  <2> QED BY <1>1, <2>1, <2>2
<1>14. FullOrdered'
  <2> SUFFICES ASSUME NEW i \in DOMAIN active_buffers, NEW S
               PROVE  Below(Written \cup S, active_buffers[i])
    BY <1>2, <1>3 DEF FullOrdered
  <2>1. Below(Written, active_buffers[i])
    BY <1>1, <1>9, BelowStale DEF LogInv, InOrder, FilesOrdered, Written
  <2> QED BY <2>1, BelowMore
<1>15. CurrentOrdered'
  BY <1>3, BelowEmpty DEF CurrentOrdered
<1>16. EndsAfterStop' /\ EndsWritten'
  BY <1>3 DEF EndsAfterStop, EndsWritten
<1> QED BY <1>10, <1>11, <1>12, <1>13, <1>14, <1>15, <1>16 DEF LogInv, InOrder

(* A buffer that is written goes from the backend's list to the files.      *)
LEMMA LogInvWrite ==
  ASSUME TypeOK, LogInv, WriteBuffer
  PROVE  LogInv'
<1> DEFINE m == written + 1
           b == active_buffers[m]
<1>1. /\ Files \in Seq(Line) /\ rolled \in Seq(Line) /\ file \in Seq(Line)
      /\ Len(active_buffers) \in Nat /\ written \in Nat /\ m \in 1..Len(active_buffers)
      /\ DOMAIN active_buffers = 1..Len(active_buffers)
      /\ b \in Seq(Line)
  <2>1. /\ rolled \in Seq(Line) /\ file \in Seq(Line)
        /\ active_buffers \in Seq(Seq(Line))
        /\ written \in Nat /\ written < Len(active_buffers)
    BY DEF TypeOK, WriteBuffer
  <2>2. Len(active_buffers) \in Nat /\ DOMAIN active_buffers = 1..Len(active_buffers)
    BY <2>1, LenProperties
  <2>3. m \in 1..Len(active_buffers)
    BY <2>1, <2>2
  <2> QED BY <2>1, <2>2, <2>3, ElementOfSeq, ConcatProperties DEF Files
<1>2. /\ file' = file \o b /\ rolled' = rolled /\ written' = m
      /\ pc = "write" /\ pc' = "write"
      /\ UNCHANGED <<appended, buffer_, buffers_, active_buffers, stopping>>
  BY DEF WriteBuffer, WriteNext, LogFileWrite, queue
<1>3. Pending = m..Len(active_buffers) /\ Pending' = (m + 1)..Len(active_buffers)
  BY <1>2 DEF Pending
<1> HIDE DEF m, b
<1>4. Files' = Files \o b
  BY <1>1, <1>2, ConcatAssociative DEF Files
<1>5. Written' = Written \cup ToSet(b)
  BY <1>1, <1>4, ConcatSets DEF Written
<1>6. \A i \in m..Len(active_buffers) :
        Written' \cup LinesOf(active_buffers, (m + 1)..i)
          = Written \cup LinesOf(active_buffers, m..i)
  <2> TAKE i \in m..Len(active_buffers)
  <2>1. m..i = {m} \cup ((m + 1)..i)
    BY <1>1
  <2>2. LinesOf(active_buffers, m..i) = ToSet(b) \cup LinesOf(active_buffers, (m + 1)..i)
    BY <2>1 DEF LinesOf, b
  <2> QED BY <1>5, <2>2
<1>7. Written' \cup Taken' = Written \cup Taken
  <2>1. Len(active_buffers) \in m..Len(active_buffers)
    BY <1>1
  <2>2. Taken = LinesOf(active_buffers, m..Len(active_buffers))
        /\ Taken' = LinesOf(active_buffers, (m + 1)..Len(active_buffers))
    BY <1>2, <1>3 DEF Taken
  <2> QED BY <1>6, <2>1, <2>2
<1>8. NoLineLost'
  <2>1. \A n \in 1..appended : n \in (Written \cup Taken) \cup Full \cup ToSet(buffer_)
    BY DEF LogInv, NoLineLost, Buffered, Written, Taken, Full
  <2>2. \A n \in 1..appended' :
          n \in (Written' \cup Taken') \cup Full' \cup ToSet(buffer_')
    BY <1>2, <1>7, <2>1 DEF Full
  <2> QED BY <2>2 DEF NoLineLost, Buffered, Written, Taken, Full
<1>9. RestIsStale'
  <2> SUFFICES ASSUME NEW i \in 1..Len(active_buffers), i \notin Pending'
               PROVE  ToSet(active_buffers[i]) \subseteq Written'
    BY <1>1, <1>2 DEF RestIsStale
  <2>1. CASE i = m
    BY <1>5, <2>1 DEF b
  <2>2. CASE i # m
    <3>1. i \in DOMAIN active_buffers \ Pending
      BY <1>1, <1>3, <2>2
    <3> QED BY <1>5, <3>1 DEF LogInv, RestIsStale
  <2> QED BY <2>1, <2>2
<1>10. FilesOrdered'
  <2>1. Below({}, Files)
    BY DEF LogInv, InOrder, FilesOrdered
  <2>2. LinesOf(active_buffers, m..(m - 1)) = {} /\ m \in Pending
    <3>1. m..(m - 1) = {} /\ m \in Pending
      BY <1>1, <1>3
    <3> QED BY <3>1 DEF LinesOf
  <2>3. Below({} \cup ToSet(Files), b)
    BY <2>2 DEF LogInv, InOrder, TakenOrdered, Written, m, b
  <2> QED BY <1>1, <1>4, <2>1, <2>3, BelowConcat DEF FilesOrdered
<1>11. TakenOrdered'
  <2> SUFFICES ASSUME NEW i \in (m + 1)..Len(active_buffers)
               PROVE  Below(Written' \cup LinesOf(active_buffers, (m + 1)..(i - 1)),
                            active_buffers[i])
    BY <1>2, <1>3 DEF TakenOrdered
  <2>1. i - 1 \in m..Len(active_buffers) /\ i \in Pending
    BY <1>1, <1>3
  <2> QED BY <1>6, <2>1 DEF LogInv, InOrder, TakenOrdered, m
<1>12. FullOrdered' /\ CurrentOrdered'
  BY <1>2, <1>7 DEF LogInv, InOrder, FullOrdered, CurrentOrdered, Full
<1>13. EndsAfterStop' /\ EndsWritten'
  BY <1>2 DEF EndsAfterStop, EndsWritten
<1> QED BY <1>8, <1>9, <1>10, <1>11, <1>12, <1>13 DEF LogInv, InOrder

(* What stays in the backend's list is in the files already.                *)
LEMMA LogInvRecycle ==
  ASSUME TypeOK, LogInv, Recycle
  PROVE  LogInv'
<1>1. /\ active_buffers' = KeptBuffers /\ pc = "write" /\ pc' = "top"
      /\ written = Len(active_buffers)
      /\ UNCHANGED <<appended, buffer_, buffers_, rolled, file, flushed, stopping>>
  BY DEF Recycle, AllWritten, queue, logFile_
<1>2. active_buffers \in Seq(Seq(Line)) /\ Len(active_buffers) \in Nat
      /\ DOMAIN active_buffers = 1..Len(active_buffers)
  BY LenProperties DEF TypeOK
<1>3. Pending = {} /\ Pending' = {}
  <2>1. (written + 1)..Len(active_buffers) = {}
    BY <1>1, <1>2
  <2> QED BY <1>1, <2>1 DEF Pending
<1>4. Taken = {} /\ Taken' = {} /\ Files' = Files /\ Written' = Written
  BY <1>1, <1>3 DEF Taken, LinesOf, Files, Written
<1>5. \A i \in DOMAIN KeptBuffers : ToSet(KeptBuffers[i]) \subseteq Written
  <2>1. /\ KeptBuffers \in Seq(Seq(Line)) /\ Len(KeptBuffers) <= Len(active_buffers)
        /\ \A i \in 1..Len(KeptBuffers) : KeptBuffers[i] = active_buffers[i]
    BY KeptIsAPrefix
  <2>2. Len(KeptBuffers) \in Nat /\ DOMAIN KeptBuffers = 1..Len(KeptBuffers)
    BY <2>1, LenProperties
  <2> TAKE i \in DOMAIN KeptBuffers
  <2>3. i \in DOMAIN active_buffers \ Pending /\ KeptBuffers[i] = active_buffers[i]
    BY <1>2, <1>3, <2>1, <2>2
  <2> QED BY <2>3 DEF LogInv, RestIsStale
<1>6. NoLineLost'
  <2>1. \A n \in 1..appended : n \in Written \cup Full \cup ToSet(buffer_)
    BY <1>4 DEF LogInv, NoLineLost, Buffered, Written, Taken, Full
  <2> QED BY <1>1, <1>4, <2>1 DEF NoLineLost, Buffered, Written, Full
<1>7. RestIsStale'
  BY <1>1, <1>4, <1>5 DEF RestIsStale
<1>8. InOrder'
  BY <1>1, <1>3, <1>4
  DEF LogInv, InOrder, FilesOrdered, TakenOrdered, FullOrdered, CurrentOrdered, Full
<1>9. EndsAfterStop' /\ EndsWritten'
  BY <1>1 DEF EndsAfterStop, EndsWritten
<1> QED BY <1>6, <1>7, <1>8, <1>9 DEF LogInv

(* After the loop: the oldest full buffer goes to the file.                 *)
LEMMA LogInvDrainBuffer ==
  ASSUME TypeOK, LogInv, DrainBuffer
  PROVE  LogInv'
<1> DEFINE b == Head(buffers_)
           m == Len(buffers_)
<1>1. /\ Files \in Seq(Line) /\ rolled \in Seq(Line) /\ file \in Seq(Line)
      /\ buffers_ \in Seq(Seq(Line)) /\ b \in Seq(Line) /\ b = buffers_[1]
      /\ m \in Nat \ {0} /\ DOMAIN buffers_ = 1..m
  <2>1. rolled \in Seq(Line) /\ file \in Seq(Line)
        /\ buffers_ \in Seq(Seq(Line)) /\ buffers_ # <<>>
    BY DEF TypeOK, DrainBuffer
  <2>2. m \in Nat \ {0} /\ DOMAIN buffers_ = 1..m
    BY <2>1, EmptySeq, LenProperties
  <2>3. b = buffers_[1]
    BY <2>1
  <2> QED BY <2>1, <2>2, <2>3, HeadTailProperties, ConcatProperties DEF Files
<1>2. /\ file' = file \o b /\ rolled' = rolled /\ buffers_' = Tail(buffers_)
      /\ pc = "drain" /\ pc' = "drain"
      /\ UNCHANGED <<appended, buffer_, active_buffers, written, stopping>>
  BY DEF DrainBuffer, LogFileWrite
<1>3. DOMAIN buffers_' = 1..(m - 1) /\ \A i \in 1..(m - 1) : buffers_'[i] = buffers_[i + 1]
  <2>1. /\ Tail(buffers_) \in Seq(Seq(Line)) /\ Len(Tail(buffers_)) = m - 1
        /\ \A i \in 1..Len(Tail(buffers_)) : Tail(buffers_)[i] = buffers_[i + 1]
    BY <1>1, EmptySeq, HeadTailProperties
  <2> QED BY <1>2, <2>1, LenProperties
<1>4. Pending = {} /\ Pending' = {} /\ Taken = {} /\ Taken' = {}
  BY <1>2 DEF Pending, Taken, LinesOf
<1> HIDE DEF m, b
<1>5. Files' = Files \o b
  <2>1a. rolled \in Seq(Line) /\ file \in Seq(Line) /\ b \in Seq(Line)
    BY <1>1
  <2>1. (rolled \o file) \o b = rolled \o (file \o b)
    BY <2>1a, ConcatAssociative
  <2> QED BY <1>2, <2>1 DEF Files
<1>6. Written' = Written \cup ToSet(b)
  BY <1>1, <1>5, ConcatSets DEF Written
<1>7. \A i \in 0..(m - 1) : Written' \cup LinesOf(buffers_', 1..i)
                             = Written \cup LinesOf(buffers_, 1..(i + 1))
  <2> SUFFICES ASSUME NEW i \in 0..(m - 1)
               PROVE  LinesOf(buffers_, 1..(i + 1)) = ToSet(b) \cup LinesOf(buffers_', 1..i)
    BY <1>6
  <2>1. \A k \in 1..i : ToSet(buffers_'[k]) = ToSet(buffers_[k + 1]) /\ k + 1 \in 1..(i + 1)
    BY <1>1, <1>3
  <2>2. \A k \in 1..(i + 1) : k = 1 \/ (k - 1 \in 1..i /\ k = (k - 1) + 1)
    BY <1>1
  <2>3. LinesOf(buffers_, 1..(i + 1)) \subseteq ToSet(b) \cup LinesOf(buffers_', 1..i)
    <3> SUFFICES ASSUME NEW k \in 1..(i + 1), NEW x \in ToSet(buffers_[k])
                 PROVE  x \in ToSet(b) \cup LinesOf(buffers_', 1..i)
      BY DEF LinesOf
    <3>1. CASE k = 1
      BY <1>1, <3>1
    <3>2. CASE k # 1
      <4>1. k - 1 \in 1..i /\ x \in ToSet(buffers_'[k - 1])
        BY <2>1, <2>2, <3>2
      <4> QED BY <4>1 DEF LinesOf
    <3> QED BY <3>1, <3>2
  <2>4. ToSet(b) \cup LinesOf(buffers_', 1..i) \subseteq LinesOf(buffers_, 1..(i + 1))
    <3>1. 1 \in 1..(i + 1)
      OBVIOUS
    <3> QED BY <1>1, <2>1, <3>1 DEF LinesOf
  <2> QED BY <2>3, <2>4
<1>8. Written' \cup Full' = Written \cup Full
  <2>1. m - 1 \in 0..(m - 1) /\ (m - 1) + 1 = m
    BY <1>1
  <2> QED BY <1>1, <1>3, <1>7, <2>1 DEF Full
<1>9. NoLineLost'
  <2>1. \A n \in 1..appended : n \in (Written \cup Full) \cup ToSet(buffer_)
    BY <1>4 DEF LogInv, NoLineLost, Buffered, Written, Taken, Full
  <2>2. \A n \in 1..appended' : n \in (Written' \cup Full') \cup ToSet(buffer_')
    BY <1>2, <1>8, <2>1
  <2> QED BY <2>2 DEF NoLineLost, Buffered, Written, Full
<1>10. RestIsStale'
  BY <1>2, <1>4, <1>6 DEF LogInv, RestIsStale
<1>11. FilesOrdered'
  <2>1. Below({}, Files)
    BY DEF LogInv, InOrder, FilesOrdered
  <2>2. LinesOf(buffers_, 1..(1 - 1)) = {} /\ 1 \in DOMAIN buffers_
    <3>1. 1..(1 - 1) = {} /\ 1 \in DOMAIN buffers_
      BY <1>1
    <3> QED BY <3>1 DEF LinesOf
  <2>3. Below({} \cup ToSet(Files), b)
    BY <1>1, <1>4, <2>2 DEF LogInv, InOrder, FullOrdered, Written
  <2> QED BY <1>1, <1>5, <2>1, <2>3, BelowConcat DEF FilesOrdered
<1>12. FullOrdered'
  <2> SUFFICES ASSUME NEW i \in 1..(m - 1)
               PROVE  Below(Written' \cup LinesOf(buffers_', 1..(i - 1)), buffers_'[i])
    BY <1>3, <1>4 DEF FullOrdered
  <2>1. i - 1 \in 0..(m - 1) /\ (i - 1) + 1 = (i + 1) - 1 /\ i + 1 \in DOMAIN buffers_
    BY <1>1
  <2>2. Below(Written \cup LinesOf(buffers_, 1..((i + 1) - 1)), buffers_[i + 1])
    BY <1>4, <2>1 DEF LogInv, InOrder, FullOrdered
  <2> QED BY <1>3, <1>7, <2>1, <2>2
<1>13. TakenOrdered' /\ CurrentOrdered'
  BY <1>2, <1>4, <1>8 DEF LogInv, InOrder, TakenOrdered, CurrentOrdered
<1>14. EndsAfterStop' /\ EndsWritten'
  BY <1>2 DEF LogInv, EndsAfterStop, EndsWritten, stopping
<1> QED BY <1>9, <1>10, <1>11, <1>12, <1>13, <1>14 DEF LogInv, InOrder

(* At last the current buffer goes to the file, which is flushed.           *)
LEMMA LogInvDrainCurrent ==
  ASSUME TypeOK, LogInv, DrainCurrent
  PROVE  LogInv'
<1>1. rolled \in Seq(Line) /\ file \in Seq(Line) /\ buffer_ \in Seq(Line)
      /\ Files \in Seq(Line)
  BY ConcatProperties DEF TypeOK, Files
<1>2. /\ file' = file \o buffer_ /\ rolled' = rolled
      /\ buffer_' = <<>> /\ buffers_ = <<>> /\ flushed' = Len(file')
      /\ pc = "drain" /\ pc' = "exit"
      /\ UNCHANGED <<appended, buffers_, active_buffers, written, stopping>>
  BY DEF DrainCurrent
<1>3. Files' = Files \o buffer_
  BY <1>1, <1>2, ConcatAssociative DEF Files
<1>4. Written' = Written \cup ToSet(buffer_)
  BY <1>1, <1>3, ConcatSets DEF Written
<1>5. Pending = {} /\ Pending' = {} /\ Taken = {} /\ Full = {} /\ DOMAIN buffers_' = {}
  BY <1>2 DEF Pending, Taken, Full, LinesOf
<1>6. NoLineLost'
  <2>1. \A n \in 1..appended : n \in Written \cup ToSet(buffer_)
    BY <1>5 DEF LogInv, NoLineLost, Buffered, Written, Taken, Full
  <2> QED BY <1>2, <1>4, <2>1 DEF NoLineLost, Written
<1>7. RestIsStale'
  BY <1>2, <1>4, <1>5 DEF LogInv, RestIsStale
<1>8. InOrder'
  <2>1. Below({}, Files) /\ Below({} \cup ToSet(Files), buffer_)
    BY <1>5 DEF LogInv, InOrder, FilesOrdered, CurrentOrdered, Written
  <2>2. FilesOrdered'
    BY <1>1, <1>3, <2>1, BelowConcat DEF FilesOrdered
  <2>3. TakenOrdered' /\ FullOrdered' /\ CurrentOrdered'
    BY <1>2, <1>5, BelowEmpty DEF TakenOrdered, FullOrdered, CurrentOrdered
  <2> QED BY <2>2, <2>3 DEF InOrder
<1>9. EndsAfterStop' /\ EndsWritten'
  <2>1. \A n \in 1..appended : n \in Written \cup ToSet(buffer_)
    BY <1>5 DEF LogInv, NoLineLost, Buffered, Written, Taken, Full
  <2>2. 1..stopped \subseteq 1..appended
    BY LoggerAssumption DEF TypeOK
  <2> QED BY <1>2, <1>4, <2>1, <2>2 DEF LogInv, EndsAfterStop, EndsWritten, stopping
<1> QED BY <1>6, <1>7, <1>8, <1>9 DEF LogInv

LEMMA LogInvNext == TypeOK /\ LogInv /\ [Next]_vars => LogInv'
<1> SUFFICES ASSUME TypeOK, LogInv, [Next]_vars PROVE LogInv'
  OBVIOUS
<1> USE DEF queue, logFile_, stopping
<1>1. CASE AppendLine \/ FatalOutput
  BY <1>1, LogInvAppend DEF AppendLine, FatalOutput
<1>2. CASE FatalFlushAndAbort \/ Stop \/ LeaveLoop \/ Wait \/ RollFails \/ UNCHANGED vars
  <2>1. Files' = Files /\ Pending' = Pending
        /\ UNCHANGED <<appended, buffer_, buffers_, active_buffers, written>>
    BY <1>2 DEF FatalFlushAndAbort, Stop, LeaveLoop, Wait, RollFails, AllWritten, vars,
                Files, Pending
  <2>2. EndsAfterStop' /\ EndsWritten'
    BY <1>2 DEF FatalFlushAndAbort, Stop, LeaveLoop, Wait, RollFails, AllWritten, vars,
                LogInv, EndsAfterStop, EndsWritten, Written, Files
  <2> QED BY <2>1, <2>2, NothingMoves DEF LogInv
<1>3. CASE RollFile
  <2>1. rolled' = rolled \o file /\ file' = <<>> /\ pc = "write" /\ pc' = "write"
        /\ UNCHANGED <<appended, buffer_, buffers_, active_buffers, written>>
    BY <1>3 DEF RollFile, RollFlushed, AllWritten
  <2>2. Files' = Files
    <3>1. rolled \o file \in Seq(Line)
      BY ConcatProperties DEF TypeOK
    <3> QED BY <2>1, <3>1, ConcatEmptySeq DEF Files
  <2>3. Pending' = Pending /\ EndsAfterStop' /\ EndsWritten'
    BY <2>1 DEF Pending, EndsAfterStop, EndsWritten
  <2> QED BY <2>1, <2>2, <2>3, NothingMoves DEF LogInv
<1>4. CASE Collect
  BY <1>4, LogInvCollect
<1>5. CASE WriteBuffer
  BY <1>5, LogInvWrite
<1>6. CASE Recycle
  BY <1>6, LogInvRecycle
<1>7. CASE DrainBuffer
  BY <1>7, LogInvDrainBuffer
<1>8. CASE DrainCurrent
  BY <1>8, LogInvDrainCurrent
<1> QED BY <1>1, <1>2, <1>3, <1>4, <1>5, <1>6, <1>7, <1>8 DEF Next, Backend

LEMMA Invariance == Spec => []LogInv
<1>1. Spec => []TypeOK
  BY TypeCorrect
<1> QED BY <1>1, LogInvInit, LogInvNext, PTL DEF Spec

(* A line that Append took is in a buffer that will be written, or in a     *)
(* file: none is dropped by the full buffer, by the swap of the two lists   *)
(* or by the buffers that are kept (AsyncLogger.cpp:71-115).                *)
THEOREM NoLineIsLost == Spec => []NoLineLost
<1>1. LogInv => NoLineLost
  BY DEF LogInv
<1> QED BY <1>1, Invariance, PTL

(* The files hold the lines in the order of Append.                         *)
THEOREM FilesAreInOrder == Spec => []WrittenInOrder
<1>1. TypeOK /\ LogInv => WrittenInOrder
  <2> SUFFICES ASSUME TypeOK, LogInv, NEW i \in DOMAIN Files, NEW n \in 1..(Files[i] - 1)
               PROVE  n \in ToSet(SubSeq(Files, 1, i - 1))
    BY DEF WrittenInOrder
  <2>1. Files \in Seq(Line)
    BY ConcatProperties DEF TypeOK, Files
  <2>2. PICK j \in 1..(i - 1) : Files[j] = n
    BY DEF LogInv, InOrder, FilesOrdered, Below
  <2> DEFINE s == SubSeq(Files, 1, i - 1)
  <2>3. i \in Nat /\ \A k \in 1..(i - 1) : Files[k] \in Line
    BY <2>1, LenProperties, ElementOfSeq
  <2>4. s \in Seq(Line) /\ Len(s) = i - 1 /\ \A k \in 1..(i - 1) : s[k] = Files[k]
    BY <2>2, <2>3, SubSeqProperties
  <2>5. DOMAIN s = 1..(i - 1)
    BY <2>4, LenProperties
  <2> HIDE DEF s
  <2>6. n \in ToSet(s)
    BY <2>2, <2>4, <2>5 DEF ToSet
  <2> QED BY <2>6 DEF s
<1> QED BY <1>1, TypeCorrect, Invariance, PTL

(* When the backend has ended, every line appended before Stop is out of    *)
(* stdio's buffer, in the files that were exchanged as well                 *)
(* (AsyncLogger.cpp:122-132).                                               *)
THEOREM StopFlushes == Spec => []StopFlushesAll
<1>1. TypeOK /\ LogInv => StopFlushesAll
  <2> SUFFICES ASSUME TypeOK, LogInv, pc = "exit", NEW n \in 1..stopped
               PROVE  n \in ToSet(OnDisk)
    BY DEF StopFlushesAll
  <2>1. flushed = Len(file) /\ n \in Written
    BY DEF LogInv, EndsWritten
  <2>2. OnDisk = Files
    BY <2>1, SubSeqFull DEF TypeOK, OnDisk, Files
  <2> QED BY <2>1, <2>2 DEF Written
<1> QED BY <1>1, TypeCorrect, Invariance, PTL
=============================================================================
