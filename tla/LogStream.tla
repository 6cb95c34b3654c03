------------------------------ MODULE LogStream ------------------------------
(***************************************************************************)
(* utils/Logger and utils/LogStream: one thread builds log lines in a      *)
(* FixedBuffer, piece by piece.  append drops a piece that does not fit,   *)
(* formatInteger writes its digits in place and only asks for kMaxNumSize  *)
(* free bytes.  ~Logger finishes the line, hands it to g_output and, for   *)
(* FATAL, flushes and aborts.                                              *)
(*                                                                         *)
(* Characters are numbers: '0'..'9' are Zero..Zero+9, as in the code that  *)
(* adds a digit to '0'; the others are names for whole texts of length 1   *)
(* whose wording does not matter here (Time + s is the text that           *)
(* localtime_r and snprintf make of s).  The clock is TimerStamp::Now's,   *)
(* CLOCK_MONOTONIC (TimerStamp.h:40), the seconds since the machine was    *)
(* started: the text has the form of a date and is not the calendar's.     *)
(* Size is kBufferSize, NumSize kMaxNumSize, MaxInt bounds the integers,   *)
(* MaxPieces the pieces of one line and MaxSecond the clock.               *)
(***************************************************************************)
EXTENDS Integers, SequencesExt

CONSTANTS Size, NumSize, MaxInt, MaxPieces, MaxSecond

TenTo(k) == LET power[i \in 0..k] == IF i = 0 THEN 1 ELSE 10 * power[i - 1]
            IN power[k]

ASSUME LogAssumption == /\ {Size, NumSize, MaxInt, MaxPieces, MaxSecond} \subseteq Nat
                        /\ Size > 0 /\ NumSize > 1
                        /\ MaxInt >= 7 /\ MaxInt < TenTo(NumSize - 1)

Zero == 48
Level(v) == 10 + v        \* DEBUG, INFO, WARN, ERROR, FATAL
Time == 100

Levels == 1..5
FATAL == 5

Word == (0 - MaxInt)..MaxInt

-----------------------------------------------------------------------------
(* C++ division and remainder truncate towards zero.                        *)
Abs(n) == IF n < 0 THEN 0 - n ELSE n
Quotient(n) == IF n < 0 THEN 0 - (Abs(n) \div 10) ELSE n \div 10
Remainder(n) == IF n < 0 THEN 0 - (Abs(n) % 10) ELSE n % 10

(* The do-while loop, least digit first; value is 0 when the sign is        *)
(* tested, so '-' is never written.                                         *)
RemainingDigits[n \in Word] ==
  LET digit == Zero + Remainder(n) IN
  IF Quotient(n) = 0 THEN <<digit>> ELSE <<digit>> \o RemainingDigits[Quotient(n)]

Digits(n) == Reverse(RemainingDigits[n])

avail(buf) == Size - Len(buf)

append(buf, s) == IF avail(buf) > Len(s) THEN buf \o s ELSE buf

formatUnchecked(buf, n) == buf \o Digits(n)
formatInteger(buf, n) == IF avail(buf) >= NumSize THEN buf \o Digits(n) ELSE buf

(* A piece is what one operator<< gets: text (a string, a character, a      *)
(* bool, a double's %g, "(null)"), or an integer.                           *)
Str(s) == [text |-> s]
Num(n) == [int |-> n]
IsInt(p) == "int" \in DOMAIN p
Put(buf, p) == IF IsInt(p) THEN formatInteger(buf, p.int) ELSE append(buf, p.text)
PutAll(buf, pieces) ==
  LET after[i \in 0..Len(pieces)] ==
        IF i = 0 THEN buf ELSE Put(after[i - 1], pieces[i])
  IN after[Len(pieces)]

Pieces == {Str(<<97>>), Str(<<98, 97, 98>>)}
            \cup {Num(n) : n \in {0 - MaxInt, 0, 7, MaxInt}}

-----------------------------------------------------------------------------
VARIABLES
  second,         \* CLOCK_MONOTONIC, in seconds
  t_lastsecond, t_time,  \* __thread: the second t_time is for, and its text
  g_logLevel,
  open, level, line_,    \* a Logger exists; its level and source line
  stream_,        \* its buffer
  said,           \* history: the pieces the line was to have
  output,         \* what g_output got of the line just finished, and its pieces
  aborted

vars == <<second, t_lastsecond, t_time, g_logLevel, open, level, line_, stream_,
          said, output, aborted>>

Nothing == [line |-> <<>>, said |-> <<>>]

(* t_lastsecond = 0 is taken for "no text yet", which is right from the     *)
(* first second after the machine was started on.                           *)
Init == /\ second \in 1..MaxSecond
        /\ t_lastsecond = 0 /\ t_time = <<0>>
        /\ g_logLevel = 1
        /\ open = FALSE /\ level = 1 /\ line_ = 0
        /\ stream_ = <<>> /\ said = <<>>
        /\ output = Nothing
        /\ aborted = FALSE

Tick == /\ second < MaxSecond /\ ~aborted
        /\ second' = second + 1
        /\ UNCHANGED <<t_lastsecond, t_time, g_logLevel, open, level, line_,
                       stream_, said, output, aborted>>

SetLogLevel(v) ==
  /\ ~open /\ ~aborted
  /\ g_logLevel' = v
  /\ UNCHANGED <<second, t_lastsecond, t_time, open, level, line_, stream_, said,
                 output, aborted>>

(* The LOG_ macros: only DEBUG and INFO ask for the level.                  *)
Logged(v) == v \in {1, 2} => g_logLevel <= v

(* FormatTime: the text is made again only in a new second.                 *)
StaleTime == IF t_lastsecond = 0 THEN <<Time + second>> ELSE t_time
TimeNow == IF t_lastsecond # second THEN <<Time + second>> ELSE t_time

(* The time text, microseconds, thread id, level: four operator<<.          *)
Beginning(time, v) == <<Str(time), Str(<<1>>), Str(<<2>>), Str(<<Level(v)>>)>>

Logger(v, n) ==
  /\ ~open /\ ~aborted /\ Logged(v)
  /\ t_lastsecond' = second /\ t_time' = TimeNow
  /\ open' = TRUE /\ level' = v /\ line_' = n
  /\ stream_' = PutAll(<<>>, Beginning(TimeNow, v))
  /\ said' = Beginning(<<Time + second>>, v)
  /\ output' = Nothing
  /\ UNCHANGED <<second, g_logLevel, aborted>>

(* stream() << p                                                            *)
Write(p) ==
  /\ open /\ Len(said) < 4 + MaxPieces
  /\ stream_' = Put(stream_, p)
  /\ said' = Append(said, p)
  /\ UNCHANGED <<second, t_lastsecond, t_time, g_logLevel, open, level, line_,
                 output, aborted>>

(* Finish: " - ", the file, ":", the line and a newline.                    *)
Ending == <<Str(<<3>>), Str(<<4>>), Str(<<5>>), Num(line_), Str(<<6>>)>>

(* ~Logger: Finish, g_output, and the end of the process.                   *)
FinishLogger ==
  /\ open
  /\ output' = [line |-> PutAll(stream_, Ending), said |-> said \o Ending]
  /\ open' = FALSE /\ stream_' = <<>> /\ said' = <<>>
  /\ aborted' = (level = FATAL)
  /\ UNCHANGED <<second, t_lastsecond, t_time, g_logLevel, level, line_>>

Next == \/ Tick \/ \E v \in Levels : SetLogLevel(v)
        \/ \E v \in Levels, n \in {1, MaxInt} : Logger(v, n)
        \/ \E p \in Pieces : Write(p)
        \/ FinishLogger

Spec == Init /\ [][Next]_vars

-----------------------------------------------------------------------------
(* Every variable has its type; the line never reaches the end of its       *)
(* buffer: formatInteger's test leaves room for what it writes              *)
(* (LogStream.h:103).                                                       *)
TypeOK == /\ second \in 1..MaxSecond /\ t_lastsecond \in 0..MaxSecond
          /\ t_time \in Seq(Nat) /\ g_logLevel \in Levels
          /\ open \in BOOLEAN /\ level \in Levels /\ line_ \in 0..MaxInt
          /\ stream_ \in Seq(Nat) /\ Len(stream_) < Size
          /\ output.line \in Seq(Nat) /\ Len(output.line) < Size
          /\ \A i \in DOMAIN said : IsInt(said[i]) \/ said[i].text \in Seq(Nat)
          /\ aborted \in BOOLEAN

(* The shortest decimal numeral of n, by its value and not by division.     *)
Numerals == UNION {[1..k -> Zero..(Zero + 9)] : k \in 1..(NumSize - 1)}
ValueOf(s) ==
  LET value[i \in 0..Len(s)] ==
        IF i = 0 THEN 0 ELSE 10 * value[i - 1] + (s[i] - Zero)
  IN value[Len(s)]
Numeral[n \in 0..MaxInt] ==
  CHOOSE s \in Numerals : ValueOf(s) = n /\ (Len(s) = 1 \/ s[1] # Zero)

Shown(p) == IF IsInt(p) THEN Numeral[p.int] ELSE p.text
Text(pieces) ==
  LET text[i \in 0..Len(pieces)] ==
        IF i = 0 THEN <<>> ELSE text[i - 1] \o Shown(pieces[i])
  IN text[Len(pieces)]
NoneNegative(pieces) ==
  \A i \in DOMAIN pieces : IsInt(pieces[i]) => pieces[i].int >= 0

(* A line with room for one more number than it has is output as what was   *)
(* streamed, whole and in order, its numbers as decimal numerals, its time  *)
(* text that of the monotonic second its Logger was made in and its newline *)
(* last.  (Not with negative numbers, which LogStream.h:107-114 writes      *)
(* wrong.)                                                                  *)
ShortLinesAreWhole ==
  NoneNegative(output.said) /\ Len(Text(output.said)) + NumSize <= Size
    => output.line = Text(output.said)
=============================================================================
