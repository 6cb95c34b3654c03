-------------------------- MODULE HttpConnectionProofs --------------------------
(***************************************************************************)
(* What a connection promises its peer, proved for every capacity of the   *)
(* kernel's buffers, every length of an answer and every request; only     *)
(* what the parser makes of requests (ParsingIsIncremental) is proved      *)
(* under hypotheses, which it names.  Three parts, the later on top of     *)
(* the earlier:                                                            *)
(*   Buffer          a Buffer is a queue of bytes, however it grows;       *)
(*   HttpContext     one ParseRequest of a stream of requests cut          *)
(*                   anywhere takes from it what is whole, and stays where *)
(*                   the next read can go on;                              *)
(*   HttpConnection  the answers leave in order (AnswersInOrder), the      *)
(*                   requests are handled as sent (RequestsAreWhole), and  *)
(*                   every variable has its type (TypeOK).                 *)
(***************************************************************************)
EXTENDS HttpConnection, SequenceTheorems, WellFoundedInduction, NaturalsInduction,
        TLAPS

-----------------------------------------------------------------------------
(* Buffer: a queue of bytes, however it moves and grows: what is readable   *)
(* is what was appended and not yet retrieved.  S stands for the values its *)
(* cells may hold.                                                          *)

LEMMA BufferFacts ==
  ASSUME NEW S, NEW b, BufferOf(S, b)
  PROVE  /\ b.buf_ \in Seq(S) /\ Len(b.buf_) \in Nat /\ DOMAIN b.buf_ = 1 .. Len(b.buf_)
         /\ \A i \in 1 .. Len(b.buf_) : b.buf_[i] \in S
         /\ b.read_index_ \in Nat /\ b.write_index_ \in Nat
         /\ kPrePendIndex \in Nat /\ kPrePendIndex <= b.read_index_
         /\ b.read_index_ <= b.write_index_ /\ b.write_index_ <= Len(b.buf_)
BY BufferAssumption, LenProperties, ElementOfSeq DEF BufferOf

(* The readable bytes, one by one. *)
LEMMA PeekFacts ==
  ASSUME NEW S, NEW b, BufferOf(S, b)
  PROVE  /\ readablebytes(b) \in Nat
         /\ PeekAll(b) \in Seq(S) /\ Len(PeekAll(b)) = readablebytes(b)
         /\ \A i \in 1 .. readablebytes(b) : PeekAll(b)[i] = b.buf_[b.read_index_ + i]
<1> DEFINE r == b.read_index_
           w == b.write_index_
<1>1. r \in Nat /\ w \in Nat /\ r <= w /\ w <= Len(b.buf_) /\ Len(b.buf_) \in Nat
      /\ \A i \in 1 .. Len(b.buf_) : b.buf_[i] \in S
  BY BufferFacts
<1> HIDE DEF r, w
<1>2. \A i \in (r + 1) .. w : b.buf_[i] \in S
  BY <1>1
<1>3. /\ SubSeq(b.buf_, r + 1, w) \in Seq(S)
      /\ Len(SubSeq(b.buf_, r + 1, w)) = IF r + 1 <= w THEN w - (r + 1) + 1 ELSE 0
      /\ \A i \in 1 .. (w - (r + 1) + 1) : SubSeq(b.buf_, r + 1, w)[i] = b.buf_[(r + 1) + i - 1]
  BY <1>1, <1>2, SubSeqProperties
<1>4. w - r \in Nat /\ w - (r + 1) + 1 = w - r /\ (r + 1 <= w \/ w - r = 0)
      /\ \A i \in Nat : (r + 1) + i - 1 = r + i
  BY <1>1
<1> QED BY <1>3, <1>4 DEF PeekAll, readablebytes, r, w

(* Two ways to see the same bytes. *)
LEMMA SameBytes ==
  ASSUME NEW S, NEW b, NEW c, BufferOf(S, b), BufferOf(S, c),
         readablebytes(c) = readablebytes(b),
         \A i \in 1 .. readablebytes(b) : c.buf_[c.read_index_ + i] = b.buf_[b.read_index_ + i]
  PROVE  PeekAll(c) = PeekAll(b)
BY PeekFacts, SeqEqual

LEMMA ZerosAreChars ==
  ASSUME NEW S, Zero \in S, NEW n \in Nat
  PROVE  Zeros(n) \in Seq(S) /\ Len(Zeros(n)) = n
BY DEF Zeros

(* EnsureWritableBytes makes room and keeps what is readable. *)
LEMMA CompactKeeps ==
  ASSUME NEW S, NEW b, BufferOf(S, b)
  PROVE  /\ BufferOf(S, Compact(b)) /\ PeekAll(Compact(b)) = PeekAll(b)
         /\ Compact(b).write_index_ = kPrePendIndex + readablebytes(b)
         /\ Len(Compact(b).buf_) = Len(b.buf_)
<1> DEFINE k == kPrePendIndex
           n == readablebytes(b)
           buf == [i \in DOMAIN b.buf_ |-> IF i \in k + 1 .. k + n
                                           THEN b.buf_[i - k + b.read_index_] ELSE b.buf_[i]]
<1>1. /\ Len(b.buf_) \in Nat /\ DOMAIN b.buf_ = 1 .. Len(b.buf_)
      /\ \A i \in 1 .. Len(b.buf_) : b.buf_[i] \in S
      /\ b.read_index_ \in Nat /\ b.write_index_ \in Nat /\ k \in Nat /\ k <= b.read_index_
      /\ b.read_index_ <= b.write_index_ /\ b.write_index_ <= Len(b.buf_)
  BY BufferFacts
<1>2. n = b.write_index_ - b.read_index_ /\ n \in Nat
  BY <1>1 DEF readablebytes
<1>3. Compact(b) = [buf_ |-> buf, read_index_ |-> k, write_index_ |-> k + n]
  BY DEF Compact
<1> HIDE DEF n, k
<1>4. \A i \in 1 .. Len(b.buf_) :
        (IF i \in k + 1 .. k + n THEN b.buf_[i - k + b.read_index_] ELSE b.buf_[i]) \in S
  <2> TAKE i \in 1 .. Len(b.buf_)
  <2>1. CASE i \in k + 1 .. k + n
    <3>1. i - k + b.read_index_ \in 1 .. Len(b.buf_)
      BY <1>1, <1>2, <2>1
    <3> QED BY <1>1, <2>1, <3>1
  <2>2. CASE i \notin k + 1 .. k + n
    BY <1>1, <2>2
  <2> QED BY <2>1, <2>2
<1>5. buf \in Seq(S) /\ Len(buf) = Len(b.buf_)
  BY <1>1, <1>4
<1>6. \A i \in 1 .. n : buf[k + i] = b.buf_[b.read_index_ + i]
  <2> TAKE i \in 1 .. n
  <2>1. k + i \in DOMAIN b.buf_ /\ k + i \in k + 1 .. k + n
        /\ (k + i) - k + b.read_index_ = b.read_index_ + i
    BY <1>1, <1>2
  <2> QED BY <2>1
<1> HIDE DEF buf
<1>7. BufferOf(S, Compact(b)) /\ readablebytes(Compact(b)) = n
  BY <1>1, <1>2, <1>3, <1>5 DEF BufferOf, readablebytes, k
<1>8. PeekAll(Compact(b)) = PeekAll(b)
  BY <1>3, <1>6, <1>7, SameBytes DEF n
<1> QED BY <1>3, <1>5, <1>7, <1>8 DEF k, n

LEMMA GrowKeeps ==
  ASSUME NEW S, Zero \in S, NEW b, BufferOf(S, b), NEW len \in Nat,
         writablebytes(b) < len
  PROVE  /\ BufferOf(S, Grow(b, len)) /\ PeekAll(Grow(b, len)) = PeekAll(b)
         /\ Grow(b, len).write_index_ = b.write_index_
         /\ Len(Grow(b, len).buf_) = b.write_index_ + len
<1> DEFINE m == b.write_index_ + len - Len(b.buf_)
           c == Grow(b, len)
<1>1. /\ b.buf_ \in Seq(S) /\ Len(b.buf_) \in Nat
      /\ b.read_index_ \in Nat /\ b.write_index_ \in Nat
      /\ kPrePendIndex \in Nat /\ kPrePendIndex <= b.read_index_
      /\ b.read_index_ <= b.write_index_ /\ b.write_index_ <= Len(b.buf_)
  BY BufferFacts
<1>2. m \in Nat
  BY <1>1 DEF writablebytes
<1>3. /\ c.buf_ = b.buf_ \o Zeros(m) /\ c.read_index_ = b.read_index_
      /\ c.write_index_ = b.write_index_
      /\ c \in [buf_: {b.buf_ \o Zeros(m)}, read_index_: Nat, write_index_: Nat]
  BY DEF Grow, BufferOf
<1> HIDE DEF m, c
<1>4. Zeros(m) \in Seq(S) /\ Len(Zeros(m)) = m
  BY <1>2, ZerosAreChars
<1>5. /\ c.buf_ \in Seq(S) /\ Len(c.buf_) = Len(b.buf_) + m
      /\ \A i \in 1 .. Len(b.buf_) : c.buf_[i] = b.buf_[i]
  <2>1. b.buf_ \in Seq(S) /\ Zeros(m) \in Seq(S)
    BY <1>1, <1>4
  <2>2. /\ b.buf_ \o Zeros(m) \in Seq(S)
        /\ Len(b.buf_ \o Zeros(m)) = Len(b.buf_) + Len(Zeros(m))
        /\ \A i \in 1 .. Len(b.buf_) + Len(Zeros(m)) : (b.buf_ \o Zeros(m))[i] =
             IF i <= Len(b.buf_) THEN b.buf_[i] ELSE Zeros(m)[i - Len(b.buf_)]
    BY <2>1, ConcatProperties
  <2> QED BY <1>1, <1>2, <1>3, <1>4, <2>2
<1>6. Len(b.buf_) + m = b.write_index_ + len
  BY <1>1 DEF m
<1>7. BufferOf(S, c) /\ readablebytes(c) = readablebytes(b)
  <2>1. c \in [buf_: Seq(S), read_index_: Nat, write_index_: Nat]
    BY <1>3, <1>5
  <2>2. Len(b.buf_) <= Len(c.buf_)
    BY <1>1, <1>2, <1>5
  <2>3. c.write_index_ <= Len(c.buf_)
    BY <1>1, <1>2, <1>3, <1>5
  <2> QED BY <1>1, <1>3, <2>1, <2>3 DEF BufferOf, readablebytes
<1>8. PeekAll(c) = PeekAll(b)
  <2>1. \A i \in 1 .. readablebytes(b) : b.read_index_ + i \in 1 .. Len(b.buf_)
    BY <1>1 DEF readablebytes
  <2> QED BY <1>3, <1>5, <1>7, <2>1, SameBytes
<1> QED BY <1>3, <1>5, <1>6, <1>7, <1>8 DEF c

LEMMA EnsureKeeps ==
  ASSUME NEW S, Zero \in S, NEW b, BufferOf(S, b), NEW len \in Nat
  PROVE  /\ BufferOf(S, EnsureWritableBytes(b, len))
         /\ PeekAll(EnsureWritableBytes(b, len)) = PeekAll(b)
         /\ writablebytes(EnsureWritableBytes(b, len)) >= len
<1>1. /\ b.buf_ \in Seq(S) /\ Len(b.buf_) \in Nat
      /\ b.read_index_ \in Nat /\ b.write_index_ \in Nat
      /\ kPrePendIndex \in Nat /\ kPrePendIndex <= b.read_index_
      /\ b.read_index_ <= b.write_index_ /\ b.write_index_ <= Len(b.buf_)
  BY BufferFacts
<1>2. CASE writablebytes(b) >= len
  BY <1>2 DEF EnsureWritableBytes
<1>3. CASE ~(writablebytes(b) >= len) /\ FitsAfterMove(b, len)
  <2>1. EnsureWritableBytes(b, len) = Compact(b)
    BY <1>3 DEF EnsureWritableBytes
  <2>2. Compact(b).write_index_ = kPrePendIndex + readablebytes(b)
        /\ Len(Compact(b).buf_) = Len(b.buf_)
    BY CompactKeeps
  <2>3. writablebytes(Compact(b)) >= len
    BY <1>1, <1>3, <2>2 DEF writablebytes, readablebytes, prependablebytes, FitsAfterMove
  <2> QED BY <2>1, <2>3, CompactKeeps
<1>4. CASE ~(writablebytes(b) >= len) /\ ~FitsAfterMove(b, len)
  <2>1. EnsureWritableBytes(b, len) = Grow(b, len)
    BY <1>4 DEF EnsureWritableBytes
  <2>2. writablebytes(b) < len
    BY <1>1, <1>4 DEF writablebytes
  <2>3. writablebytes(Grow(b, len)) >= len
    BY <1>1, <2>2, GrowKeeps DEF writablebytes
  <2> QED BY <2>1, <2>2, <2>3, GrowKeeps
<1> QED BY <1>2, <1>3, <1>4

-----------------------------------------------------------------------------
(* A buffer that nothing was appended to holds nothing. *)
THEOREM NewBufferIsEmpty ==
  ASSUME NEW S, Zero \in S
  PROVE  BufferOf(S, NewBuffer) /\ PeekAll(NewBuffer) = <<>> /\ readablebytes(NewBuffer) = 0
<1>1. /\ kPrePendIndex \in Nat
      /\ Zeros(kPrePendIndex) \in Seq(S) /\ Len(Zeros(kPrePendIndex)) = kPrePendIndex
  BY BufferAssumption, ZerosAreChars
<1>2. BufferOf(S, NewBuffer) /\ readablebytes(NewBuffer) = 0
  BY <1>1 DEF BufferOf, NewBuffer, readablebytes
<1> QED BY <1>2, PeekFacts, EmptySeq

(* What is appended follows what was readable, whether the bytes fit, are   *)
(* moved to the front first or the vector grows (Buffer.cpp:15-36).         *)
THEOREM AppendIsAtTheEnd ==
  ASSUME NEW S, Zero \in S, NEW b, BufferOf(S, b), NEW str \in Seq(S)
  PROVE  /\ BufferOf(S, AppendBytes(b, str))
         /\ PeekAll(AppendBytes(b, str)) = PeekAll(b) \o str
         /\ readablebytes(AppendBytes(b, str)) = readablebytes(b) + Len(str)
<1> DEFINE n == Len(str)
<1>1. n \in Nat /\ \A i \in 1 .. n : str[i] \in S
  BY LenProperties, ElementOfSeq
<1>2. PICK c : c = EnsureWritableBytes(b, n)
  OBVIOUS
<1>3. BufferOf(S, c) /\ PeekAll(c) = PeekAll(b) /\ writablebytes(c) >= n
  BY <1>1, <1>2, EnsureKeeps
<1>4. /\ Len(c.buf_) \in Nat /\ DOMAIN c.buf_ = 1 .. Len(c.buf_)
      /\ \A i \in 1 .. Len(c.buf_) : c.buf_[i] \in S
      /\ c.read_index_ \in Nat /\ c.write_index_ \in Nat
      /\ kPrePendIndex \in Nat /\ kPrePendIndex <= c.read_index_
      /\ c.read_index_ <= c.write_index_ /\ c.write_index_ <= Len(c.buf_)
  BY <1>3, BufferFacts
<1> DEFINE w == c.write_index_
           buf == [i \in DOMAIN c.buf_ |-> IF i \in w + 1 .. w + n THEN str[i - w]
                                                                  ELSE c.buf_[i]]
           d == AppendBytes(b, str)
<1>5. d = [buf_ |-> buf, read_index_ |-> c.read_index_, write_index_ |-> w + n]
  BY <1>2 DEF AppendBytes
<1>6. w + n <= Len(c.buf_)
  BY <1>1, <1>3, <1>4 DEF writablebytes
<1> HIDE DEF n, d, w
<1>7. \A i \in 1 .. Len(c.buf_) :
        (IF i \in w + 1 .. w + n THEN str[i - w] ELSE c.buf_[i]) \in S
  <2> TAKE i \in 1 .. Len(c.buf_)
  <2>1. CASE i \in w + 1 .. w + n
    <3>1. i - w \in 1 .. n
      BY <1>1, <1>4, <2>1 DEF w
    <3> QED BY <1>1, <2>1, <3>1
  <2>2. CASE i \notin w + 1 .. w + n
    BY <1>4, <2>2
  <2> QED BY <2>1, <2>2
<1>8. buf \in Seq(S) /\ Len(buf) = Len(c.buf_) /\ w \in Nat
  BY <1>4, <1>7 DEF w
<1>9. /\ \A i \in 1 .. w : buf[i] = c.buf_[i]
      /\ \A i \in 1 .. n : buf[w + i] = str[i]
  <2>1. ASSUME NEW i \in 1 .. w PROVE buf[i] = c.buf_[i]
    BY <1>1, <1>4, <1>6, <1>8
  <2>2. ASSUME NEW i \in 1 .. n PROVE buf[w + i] = str[i]
    <3>1. w + i \in DOMAIN c.buf_ /\ w + i \in w + 1 .. w + n /\ (w + i) - w = i
      BY <1>1, <1>4, <1>6, <1>8
    <3> QED BY <3>1
  <2> QED BY <2>1, <2>2
<1> HIDE DEF buf
<1>10. BufferOf(S, d) /\ readablebytes(d) = readablebytes(c) + n
  <2>1. d \in [buf_: Seq(S), read_index_: Nat, write_index_: Nat]
    BY <1>1, <1>4, <1>5, <1>8
  <2> QED BY <1>1, <1>4, <1>5, <1>6, <1>8, <2>1 DEF BufferOf, readablebytes, w
<1>11. readablebytes(c) = readablebytes(b)
  <2>1. Len(PeekAll(c)) = readablebytes(c) /\ Len(PeekAll(b)) = readablebytes(b)
    BY <1>3, PeekFacts
  <2> QED BY <1>3, <2>1
<1>12. PeekAll(d) = PeekAll(c) \o str
  <2> DEFINE m == readablebytes(c)
  <2>1. /\ PeekAll(c) \in Seq(S) /\ Len(PeekAll(c)) = m /\ m \in Nat
        /\ \A i \in 1 .. m : PeekAll(c)[i] = c.buf_[c.read_index_ + i]
    BY <1>3, PeekFacts
  <2>2. /\ PeekAll(d) \in Seq(S) /\ Len(PeekAll(d)) = m + n
        /\ \A i \in 1 .. m + n : PeekAll(d)[i] = buf[c.read_index_ + i]
    BY <1>5, <1>10, PeekFacts
  <2>3. m = w - c.read_index_
    BY DEF readablebytes, w
  <2> HIDE DEF m
  <2>4. /\ PeekAll(c) \o str \in Seq(S) /\ Len(PeekAll(c) \o str) = m + n
        /\ \A i \in 1 .. m + n : (PeekAll(c) \o str)[i] =
             IF i <= m THEN PeekAll(c)[i] ELSE str[i - m]
    BY <2>1, ConcatProperties DEF n
  <2>5. \A i \in 1 .. m + n : PeekAll(d)[i] = (PeekAll(c) \o str)[i]
    <3> TAKE i \in 1 .. m + n
    <3>1. CASE i <= m
      <4>1. c.read_index_ + i \in 1 .. w /\ i \in 1 .. m
        BY <1>4, <2>1, <2>3, <1>8, <3>1
      <4> QED BY <1>9, <2>1, <2>2, <2>4, <3>1, <4>1
    <3>2. CASE ~(i <= m)
      <4> DEFINE r == c.read_index_
      <4>0. r \in Nat /\ w \in Nat /\ n \in Nat /\ m \in Nat /\ m = w - r
        BY <1>1, <1>4, <1>8, <2>1, <2>3
      <4> HIDE DEF r
      <4>1a. i - m \in 1 .. n /\ r + i = w + (i - m)
        BY <4>0, <3>2
      <4>1. i - m \in 1 .. n /\ c.read_index_ + i = w + (i - m)
        BY <4>1a DEF r
      <4>2. buf[w + (i - m)] = str[i - m]
        BY <1>9, <4>1
      <4> QED BY <2>2, <2>4, <3>2, <4>1, <4>2
    <3> QED BY <3>1, <3>2
  <2> QED BY <2>2, <2>4, <2>5, SeqEqual
<1> QED BY <1>3, <1>10, <1>11, <1>12 DEF n, d

(* What is retrieved is taken from the front, and the rest stays in order   *)
(* (Buffer.cpp:98-110).                                                     *)
THEOREM RetrieveIsFromTheFront ==
  ASSUME NEW S, NEW b, BufferOf(S, b), NEW n \in 0 .. readablebytes(b)
  PROVE  /\ BufferOf(S, Retrieve(b, n))
         /\ readablebytes(Retrieve(b, n)) = readablebytes(b) - n
         /\ PeekAll(b) = SubSeq(PeekAll(b), 1, n) \o PeekAll(Retrieve(b, n))
<1> DEFINE m == readablebytes(b)
           d == Retrieve(b, n)
<1>1. /\ b.buf_ \in Seq(S) /\ Len(b.buf_) \in Nat
      /\ b.read_index_ \in Nat /\ b.write_index_ \in Nat
      /\ kPrePendIndex \in Nat /\ kPrePendIndex <= b.read_index_
      /\ b.read_index_ <= b.write_index_ /\ b.write_index_ <= Len(b.buf_)
  BY BufferFacts
<1>2. m = b.write_index_ - b.read_index_ /\ m \in Nat /\ n \in Nat /\ n <= m
  BY <1>1 DEF readablebytes
<1>3. /\ PeekAll(b) \in Seq(S) /\ Len(PeekAll(b)) = m
      /\ \A i \in 1 .. m : PeekAll(b)[i] = b.buf_[b.read_index_ + i]
  BY PeekFacts
<1> HIDE DEF m, d
<1>4. /\ BufferOf(S, d) /\ readablebytes(d) = m - n
      /\ d.buf_ = b.buf_
      /\ \A i \in 1 .. m - n : d.read_index_ + i = b.read_index_ + (n + i)
  <2>1. CASE b.read_index_ + n < b.write_index_
    <3>1. d = [b EXCEPT !.read_index_ = @ + n]
      BY <2>1 DEF d, Retrieve
    <3>2. /\ d.buf_ = b.buf_ /\ d.read_index_ = b.read_index_ + n
          /\ d.write_index_ = b.write_index_
          /\ d \in [buf_: Seq(S), read_index_: Nat, write_index_: Nat]
      BY <1>1, <1>2, <3>1 DEF BufferOf
    <3> QED BY <1>1, <1>2, <2>1, <3>2 DEF BufferOf, readablebytes
  <2>2. CASE ~(b.read_index_ + n < b.write_index_)
    <3>1. d = [buf_ |-> b.buf_, read_index_ |-> kPrePendIndex,
               write_index_ |-> kPrePendIndex]
      BY <2>2 DEF d, Retrieve, RetrieveAll
    <3>2. m = n
      BY <1>1, <1>2, <2>2
    <3> QED BY <1>1, <1>2, <3>1, <3>2 DEF BufferOf, readablebytes
  <2> QED BY <2>1, <2>2
<1> DEFINE front == SubSeq(PeekAll(b), 1, n)
           rest == PeekAll(d)
<1>5. /\ front \in Seq(S) /\ Len(front) = n
      /\ \A i \in 1 .. n : front[i] = PeekAll(b)[i]
  <2>1. \A i \in 1 .. n : PeekAll(b)[i] \in S
    BY <1>2, <1>3, ElementOfSeq
  <2>2. /\ SubSeq(PeekAll(b), 1, n) \in Seq(S)
        /\ Len(SubSeq(PeekAll(b), 1, n)) = IF 1 <= n THEN n - 1 + 1 ELSE 0
        /\ \A i \in 1 .. n - 1 + 1 : SubSeq(PeekAll(b), 1, n)[i] = PeekAll(b)[1 + i - 1]
    BY <1>2, <1>3, <2>1, SubSeqProperties
  <2> QED BY <1>2, <2>2
<1>6. /\ rest \in Seq(S) /\ Len(rest) = m - n
      /\ \A i \in 1 .. m - n : rest[i] = b.buf_[d.read_index_ + i]
  BY <1>4, PeekFacts
<1> HIDE DEF front, rest
<1>7. /\ front \o rest \in Seq(S) /\ Len(front \o rest) = m
      /\ \A i \in 1 .. m : (front \o rest)[i] =
           IF i <= n THEN front[i] ELSE rest[i - n]
  <2>1. /\ front \o rest \in Seq(S) /\ Len(front \o rest) = Len(front) + Len(rest)
        /\ \A i \in 1 .. Len(front) + Len(rest) : (front \o rest)[i] =
             IF i <= Len(front) THEN front[i] ELSE rest[i - Len(front)]
    BY <1>5, <1>6, ConcatProperties
  <2> QED BY <1>2, <1>5, <1>6, <2>1
<1>8. \A i \in 1 .. m : (front \o rest)[i] = PeekAll(b)[i]
  <2> TAKE i \in 1 .. m
  <2>1. CASE i <= n
    BY <1>2, <1>5, <1>7, <2>1
  <2>2. CASE ~(i <= n)
    <3>1. i - n \in 1 .. m - n /\ n + (i - n) = i
      BY <1>2, <2>2
    <3> QED BY <1>3, <1>4, <1>6, <1>7, <2>2, <3>1
  <2> QED BY <2>1, <2>2
<1>9. PeekAll(b) = front \o rest
  BY <1>3, <1>7, <1>8, SeqEqual
<1> QED BY <1>4, <1>9 DEF m, d, front, rest

-----------------------------------------------------------------------------
(* HttpContext: what FlattenSeq does, then the parser.                      *)

(* FlattenSeq is defined by recursion on the length of its argument.  f is  *)
(* the function that recursion stands for, up to n. *)
Flattens(f, ss, n) ==
  f = [i \in 1 .. n |-> IF i = 1 THEN ss[i] ELSE f[i - 1] \o ss[i]]

LEMMA LeastNatural ==
  ASSUME NEW S \in SUBSET Nat, S # {}
  PROVE  \E m \in S : \A k \in S : m <= k
<1> DEFINE R == {ss \in Nat \X Nat : ss[1] < ss[2]}
<1>1. IsWellFoundedOn(R, Nat)
  BY NatLessThanWellFounded DEF OpToRel
<1>2. PICK m \in S : \A k \in S : ~(<<k, m>> \in R)
  BY <1>1, WFMin
<1>3. \A k \in S : ~(k < m)
  BY <1>2
<1> QED BY <1>3

(* A function that flattens n sequences does so for the first of them. *)
LEMMA FlattensValue ==
  ASSUME NEW f, NEW ss, NEW n \in Nat, Flattens(f, ss, n)
  PROVE  /\ DOMAIN f = 1 .. n
         /\ \A i \in 1 .. n : f[i] = IF i = 1 THEN ss[i] ELSE f[i - 1] \o ss[i]
BY DEF Flattens

LEMMA FlattensExtends ==
  ASSUME NEW f, NEW ss, NEW n \in Nat, Flattens(f, ss, n)
  PROVE  Flattens([i \in 1 .. n + 1 |->
                     IF i <= n THEN f[i]
                     ELSE IF i = 1 THEN ss[i] ELSE f[i - 1] \o ss[i]], ss, n + 1)
<1> PICK g : g = [i \in 1 .. n + 1 |->
                    IF i <= n THEN f[i]
                    ELSE IF i = 1 THEN ss[i] ELSE f[i - 1] \o ss[i]]
  OBVIOUS
<1>1. ASSUME NEW i \in 1 .. n + 1
      PROVE  g[i] = IF i = 1 THEN ss[i] ELSE g[i - 1] \o ss[i]
  <2>1. CASE i <= n
    <3>1. g[i] = IF i = 1 THEN ss[i] ELSE f[i - 1] \o ss[i]
      BY <2>1, FlattensValue
    <3>2. i # 1 => g[i - 1] = f[i - 1]
      BY <2>1
    <3> QED BY <3>1, <3>2
  <2>2. CASE ~(i <= n)
    <3>1. g[i] = IF i = 1 THEN ss[i] ELSE f[i - 1] \o ss[i]
      BY <2>2
    <3>2. i # 1 => g[i - 1] = f[i - 1]
      BY <2>2
    <3> QED BY <3>1, <3>2
  <2> QED BY <2>1, <2>2
<1>2. g = [i \in 1 .. n + 1 |-> g[i]]
  OBVIOUS
<1>3. [i \in 1 .. n + 1 |-> g[i]]
        = [i \in 1 .. n + 1 |-> IF i = 1 THEN ss[i] ELSE g[i - 1] \o ss[i]]
  BY <1>1
<1>4. Flattens(g, ss, n + 1)
  BY <1>2, <1>3 DEF Flattens
<1> QED BY <1>4

LEMMA FlattensExists ==
  ASSUME NEW ss, NEW n \in Nat
  PROVE  \E f : Flattens(f, ss, n)
<1> DEFINE Bad == {k \in Nat : ~\E f : Flattens(f, ss, k)}
<1>1. Flattens([i \in 1 .. 0 |-> 0], ss, 0)
  BY DEF Flattens
<1>2. ASSUME NEW k \in Nat, \E f : Flattens(f, ss, k)
      PROVE  \E f : Flattens(f, ss, k + 1)
  BY <1>2, FlattensExtends
<1>3. ASSUME Bad # {} PROVE FALSE
  <2>1. PICK m \in Bad : \A k \in Bad : m <= k
    BY <1>3, LeastNatural
  <2>2. m # 0
    BY <1>1, <2>1
  <2>3. m - 1 \in Nat /\ ~(m <= m - 1) /\ (m - 1) + 1 = m
    BY <2>2
  <2>4. m - 1 \notin Bad
    BY <2>1, <2>3
  <2> HIDE DEF Bad
  <2>5. \E f : Flattens(f, ss, m - 1)
    BY <2>3, <2>4 DEF Bad
  <2>6. \E f : Flattens(f, ss, m)
    BY <1>2, <2>3, <2>5
  <2> QED BY <2>1, <2>6 DEF Bad
<1> QED BY <1>3

(* It is determined by the sequences it flattens. *)
LEMMA FlattensAgree ==
  ASSUME NEW f, NEW g, NEW ss, NEW tt, NEW n \in Nat, NEW m \in Nat, n <= m,
         Flattens(f, ss, n), Flattens(g, tt, m),
         \A i \in 1 .. n : ss[i] = tt[i]
  PROVE  \A i \in 1 .. n : f[i] = g[i]
<1> DEFINE Bad == {i \in 1 .. n : f[i] # g[i]}
<1>1. ASSUME Bad # {} PROVE FALSE
  <2>1. Bad \in SUBSET Nat
    OBVIOUS
  <2>2. PICK k \in Bad : \A i \in Bad : k <= i
    BY <1>1, <2>1, LeastNatural
  <2>3. k \in 1 .. n /\ k \in 1 .. m /\ f[k] # g[k] /\ ss[k] = tt[k]
    OBVIOUS
  <2>4. f[k] = IF k = 1 THEN ss[k] ELSE f[k - 1] \o ss[k]
    BY <2>3, FlattensValue
  <2>5. g[k] = IF k = 1 THEN tt[k] ELSE g[k - 1] \o tt[k]
    BY <2>3, FlattensValue
  <2>6. k # 1
    BY <2>3, <2>4, <2>5
  <2>7. k - 1 \in 1 .. n /\ ~(k <= k - 1)
    BY <2>3, <2>6
  <2>8. f[k - 1] = g[k - 1]
    BY <2>2, <2>7
  <2> QED BY <2>3, <2>4, <2>5, <2>6, <2>8
<1> QED BY <1>1

LEMMA FlattenIs ==
  ASSUME NEW f, NEW ss, Len(ss) \in Nat, Len(ss) # 0, Flattens(f, ss, Len(ss))
  PROVE  FlattenSeq(ss) = f[Len(ss)]
<1> DEFINE g == CHOOSE h : h = [i \in 1 .. Len(ss) |->
                                  IF i = 1 THEN ss[i] ELSE h[i - 1] \o ss[i]]
<1>1. FlattenSeq(ss) = g[Len(ss)]
  BY DEF FlattenSeq
<1>2. Flattens(g, ss, Len(ss))
  BY DEF Flattens
<1> HIDE DEF g
<1>3. \A i \in 1 .. Len(ss) : g[i] = f[i]
  BY <1>2, FlattensAgree
<1> QED BY <1>1, <1>3

LEMMA FlattenOfNone == FlattenSeq(<<>>) = <<>>
BY DEF FlattenSeq

(* One more sequence adds its elements at the end. *)
OneMore(ss, tt) == /\ Len(ss) \in Nat /\ Len(tt) = Len(ss) + 1
                   /\ Len(ss) = 0 => ss = <<>>
                   /\ \A i \in 1 .. Len(ss) : tt[i] = ss[i]

LEMMA FlattenOneMore ==
  ASSUME NEW S, NEW ss, NEW tt, OneMore(ss, tt), tt[Len(tt)] \in Seq(S)
  PROVE  FlattenSeq(tt) = FlattenSeq(ss) \o tt[Len(tt)]
<1> PICK n \in Nat : n = Len(ss) /\ n + 1 = Len(tt) /\ (n = 0 => ss = <<>>)
                     /\ \A i \in 1 .. n : tt[i] = ss[i]
  BY DEF OneMore
<1>1. Len(ss) = n /\ Len(tt) = n + 1 /\ n + 1 \in Nat /\ n <= n + 1
  OBVIOUS
<1>2. PICK g : Flattens(g, tt, n + 1)
  BY <1>1, FlattensExists
<1>3. FlattenSeq(tt) = g[n + 1]
  BY <1>1, <1>2, FlattenIs
<1>4. CASE n = 0
  <2>1. ss = <<>>
    BY <1>4
  <2>2. n + 1 = 1 /\ Len(tt) = 1
    BY <1>4
  <2>3. \A i \in 1 .. n + 1 : g[i] = IF i = 1 THEN tt[i] ELSE g[i - 1] \o tt[i]
    BY <1>1, <1>2, FlattensValue
  <2>4. g[1] = tt[1]
    BY <2>2, <2>3
  <2>5. FlattenSeq(tt) = tt[1]
    BY <1>3, <2>2, <2>4
  <2>6. <<>> \o tt[1] = tt[1]
    BY <2>2, ConcatEmptySeq
  <2>7. FlattenSeq(ss) = <<>>
    BY <2>1, FlattenOfNone
  <2> QED BY <2>2, <2>5, <2>6, <2>7
<1>5. CASE n # 0
  <2>1. PICK f : Flattens(f, ss, n)
    BY FlattensExists
  <2>2. FlattenSeq(ss) = f[n]
    BY <1>1, <1>5, <2>1, FlattenIs
  <2>3. f[n] = g[n]
    <3>1. PICK m : m = n + 1
      OBVIOUS
    <3>2. m \in Nat /\ n <= m /\ Flattens(g, tt, m)
      BY <1>1, <1>2, <3>1
    <3>3. \A i \in 1 .. n : ss[i] = tt[i]
      OBVIOUS
    <3>4. \A i \in 1 .. n : f[i] = g[i]
      BY ONLY n \in Nat, <2>1, <3>2, <3>3, FlattensAgree
    <3> QED BY <1>5, <3>4
  <2>4. g[n + 1] = g[n] \o tt[n + 1]
    <3>1. n + 1 \in 1 .. n + 1 /\ n + 1 # 1 /\ (n + 1) - 1 = n
      BY <1>5
    <3>2. \A i \in 1 .. n + 1 : g[i] = IF i = 1 THEN tt[i] ELSE g[i - 1] \o tt[i]
      BY <1>1, <1>2, FlattensValue
    <3> QED BY <3>1, <3>2
  <2>5. FlattenSeq(tt) = FlattenSeq(ss) \o tt[n + 1]
    BY <1>3, <2>2, <2>3, <2>4
  <2> QED BY <2>5
<1> QED BY <1>4, <1>5

-----------------------------------------------------------------------------
(* The first n sequences that f holds, one after the other. *)
Flat(f, n) == FlattenSeq([i \in 1 .. n |-> f[i]])

LEMMA FlatOfNone == ASSUME NEW f PROVE Flat(f, 0) = <<>>
<1>1. PICK ss : ss = [i \in 1 .. 0 |-> f[i]]
  OBVIOUS
<1>2. ss = <<>>
  BY <1>1
<1> QED BY <1>1, <1>2, FlattenOfNone DEF Flat

LEMMA FlatOneMore ==
  ASSUME NEW S, NEW f, NEW n \in Nat, f[n + 1] \in Seq(S)
  PROVE  Flat(f, n + 1) = Flat(f, n) \o f[n + 1]
<1>1. PICK ss : ss = [i \in 1 .. n |-> f[i]]
  OBVIOUS
<1>2. PICK tt : tt = [i \in 1 .. n + 1 |-> f[i]]
  OBVIOUS
<1>3. OneMore(ss, tt)
  BY <1>1, <1>2 DEF OneMore
<1>4. Len(tt) = n + 1 /\ tt[n + 1] = f[n + 1]
  BY <1>2
<1>5. tt[Len(tt)] \in Seq(S)
  BY <1>4
<1>6. FlattenSeq(tt) = FlattenSeq(ss) \o tt[Len(tt)]
  BY <1>3, <1>5, FlattenOneMore
<1> QED BY <1>1, <1>2, <1>4, <1>6 DEF Flat

(* The first n of m sequences are a prefix of them. *)
SplitsAt(S, f, n, m) == \E x \in Seq(S) : Flat(f, m) = Flat(f, n) \o x
Sequences(S, f, m) == m \in Nat /\ \A i \in 1 .. m : f[i] \in Seq(S)

LEMMA FlatIsSequence ==
  ASSUME NEW S, NEW f, NEW m, Sequences(S, f, m), NEW n \in 0 .. m
  PROVE  Flat(f, n) \in Seq(S)
<1> USE DEF Sequences
<1> DEFINE Bad == {i \in 0 .. m : ~(Flat(f, i) \in Seq(S))}
<1>1. ASSUME Bad # {} PROVE FALSE
  <2>1. Bad \in SUBSET Nat
    OBVIOUS
  <2>2. PICK k \in Bad : \A i \in Bad : k <= i
    BY <1>1, <2>1, LeastNatural
  <2>3. k # 0
    <3>1. <<>> \in Seq(S) /\ Flat(f, 0) = <<>>
      BY FlatOfNone, EmptySeq
    <3> QED BY <2>2, <3>1
  <2>4. PICK j \in Nat : k = j + 1
    BY <2>3
  <2>5. j \in 0 .. m /\ ~(k <= j) /\ f[j + 1] \in Seq(S)
    BY <2>4
  <2>6. Flat(f, j) \in Seq(S)
    BY <2>2, <2>5
  <2>7. Flat(f, j + 1) = Flat(f, j) \o f[j + 1]
    BY <2>5, FlatOneMore
  <2>8. Flat(f, j) \o f[j + 1] \in Seq(S)
    BY <2>5, <2>6, ConcatProperties
  <2> QED BY <2>4, <2>7, <2>8
<1> QED BY <1>1

LEMMA FlatSplits ==
  ASSUME NEW S, NEW f, NEW m, Sequences(S, f, m), NEW n \in 0 .. m
  PROVE  SplitsAt(S, f, n, m)
<1> DEFINE Splits(k) == \E x \in Seq(S) : Flat(f, k) = Flat(f, n) \o x
           Bad == {k \in n .. m : ~Splits(k)}
<1>0. m \in Nat /\ \A i \in 1 .. m : f[i] \in Seq(S)
  BY DEF Sequences
<1>1. Flat(f, n) \in Seq(S)
  BY FlatIsSequence
<1>2. Splits(n)
  <2>1. <<>> \in Seq(S) /\ Flat(f, n) = Flat(f, n) \o <<>>
    BY <1>1, ConcatEmptySeq
  <2> QED BY <2>1
<1>3. ASSUME NEW j \in n .. m, Splits(j), j + 1 \in n .. m PROVE Splits(j + 1)
  <2>1. PICK x \in Seq(S) : Flat(f, j) = Flat(f, n) \o x
    BY <1>3
  <2>2. j \in Nat /\ f[j + 1] \in Seq(S)
    BY <1>0, <1>3
  <2>3. PICK y \in Seq(S) : y = f[j + 1]
    BY <2>2
  <2>4. Flat(f, j + 1) = Flat(f, j) \o y
    BY <2>2, <2>3, FlatOneMore
  <2>5. PICK z \in Seq(S) : z = Flat(f, n)
    BY <1>1
  <2>6. (z \o x) \o y = z \o (x \o y)
    BY ConcatAssociative
  <2>7. x \o y \in Seq(S)
    BY ConcatProperties
  <2> QED BY <2>1, <2>4, <2>5, <2>6, <2>7
<1>4. ASSUME Bad # {} PROVE FALSE
  <2>1. Bad \in SUBSET Nat
    BY <1>0
  <2>2. PICK k \in Bad : \A i \in Bad : k <= i
    BY <1>4, <2>1, LeastNatural
  <2>3. k \in n .. m /\ k # n /\ ~Splits(k)
    BY <1>2
  <2> HIDE DEF Splits
  <2>4. PICK j \in Nat : k = j + 1
    BY <1>0, <2>3
  <2>5. j \in n .. m /\ ~(k <= j)
    BY <1>0, <2>3, <2>4
  <2>6. Splits(j)
    BY <2>2, <2>5
  <2> QED BY <1>3, <2>3, <2>4, <2>5, <2>6
<1>5. m \in n .. m
  BY <1>0
<1>6. Splits(m)
  BY <1>4, <1>5
<1> QED BY <1>6 DEF SplitsAt
-----------------------------------------------------------------------------
(* Concatenation of token sequences. *)
LEMMA TokenConcat == \A x, y \in Seq(Token) : x \o y \in Seq(Token)
BY ConcatProperties

Regroups(x, y, z) == (x \o y) \o z = x \o (y \o z)

LEMMA ByteAssociative == \A x, y, z \in Seq(Byte) : Regroups(x, y, z)
BY ConcatAssociative DEF Regroups

LEMMA TokenAssociative == \A x, y, z \in Seq(Token) : Regroups(x, y, z)
BY ConcatAssociative DEF Regroups

LEMMA TokenCancel == \A x, y, z \in Seq(Token) : x \o y = x \o z => y = z
BY ConcatSimplifications

-----------------------------------------------------------------------------
(* Cutting a prefix off a sequence that is still arriving: of b \o w = t \o *)
(* rest only b is here, and b is at least as long as t. *)
Begins(b, w, t, rest) == b \o w = t \o rest /\ Len(t) <= Len(b)
Cuts(b, w, t, rest) == /\ SubSeq(b, 1, Len(t)) = t
                       /\ Drop(b, Len(t)) \in Seq(Token)
                       /\ Len(Drop(b, Len(t))) = Len(b) - Len(t)
                       /\ Drop(b, Len(t)) \o w = rest

LEMMA TakesFront ==
  ASSUME NEW b \in Seq(Token), NEW w \in Seq(Token), NEW t \in Seq(Token),
         NEW rest \in Seq(Token), Begins(b, w, t, rest)
  PROVE  Cuts(b, w, t, rest)
<1>0. b \o w = t \o rest /\ Len(t) <= Len(b)
  BY DEF Begins
<1>1. Len(b) \in Nat /\ Len(t) \in Nat /\ Len(w) \in Nat /\ Len(rest) \in Nat
  BY LenProperties
<1>2. \A i \in 1 .. Len(t) : b[i] = t[i]
  <2>1. ASSUME NEW i \in 1 .. Len(t) PROVE b[i] = t[i]
    <3>1. (b \o w)[i] = b[i]
      BY <1>0, <1>1, ConcatProperties
    <3>2. (t \o rest)[i] = t[i]
      BY <1>1, ConcatProperties
    <3> QED BY <1>0, <3>1, <3>2
  <2> QED BY <2>1
<1> DEFINE n == Len(t)
           front == SubSeq(b, 1, n)
           d == SubSeq(b, n + 1, Len(b))
<1>3. /\ front \in Seq(Token) /\ Len(front) = n
      /\ \A i \in 1 .. n : front[i] = b[i]
  <2>1. \A i \in 1 .. n : b[i] \in Token
    BY <1>0, <1>1, ElementOfSeq
  <2>2. /\ front \in Seq(Token) /\ Len(front) = IF 1 <= n THEN n - 1 + 1 ELSE 0
        /\ \A i \in 1 .. n - 1 + 1 : front[i] = b[1 + i - 1]
    BY <1>1, <2>1, SubSeqProperties
  <2> QED BY <1>0, <1>1, <2>2
<1>4. front = t
  <2>1. \A i \in 1 .. Len(front) : front[i] = t[i]
    BY <1>2, <1>3
  <2> QED BY <1>3, <2>1, SeqEqual
<1>5. d \in Seq(Token) /\ Len(d) = Len(b) - n
  <2>1. \A i \in n + 1 .. Len(b) : b[i] \in Token
    BY <1>1, ElementOfSeq
  <2>2. d \in Seq(Token) /\ Len(d) = IF n + 1 <= Len(b) THEN Len(b) - (n + 1) + 1 ELSE 0
    BY <1>1, <2>1, SubSeqProperties
  <2> QED BY <1>0, <1>1, <2>2
<1>6. front \o d = b
  <2>1. 1 \in 1 .. Len(b) + 1 /\ n \in 1 - 1 .. Len(b) /\ Len(b) \in n .. Len(b)
    BY <1>0, <1>1
  <2>2. front \o d = SubSeq(b, 1, Len(b))
    BY <2>1, ConcatAdjacentSubSeq
  <2>3. SubSeq(b, 1, Len(b)) = b
    BY SubSeqFull
  <2> QED BY <2>2, <2>3
<1> HIDE DEF d, front
<1>7. t \o (d \o w) = t \o rest
  <2>1. PICK e \in Seq(Token) : e = d
    BY <1>5
  <2>2. (t \o e) \o w = t \o (e \o w)
    BY ConcatAssociative
  <2>3. t \o e = b
    BY <1>4, <1>6, <2>1
  <2> QED BY <1>0, <2>1, <2>2, <2>3
<1>8. d \o w \in Seq(Token)
  BY <1>5, ConcatProperties
<1>9. d \o w = rest
  <2>1. PICK v \in Seq(Token) : v = d \o w
    BY <1>8
  <2>2. t \o v = t \o rest
    BY <1>7, <2>1
  <2>3. v = rest
    BY <2>2, ConcatSimplifications
  <2> QED BY <2>1, <2>3
<1>10. d = Drop(b, Len(t))
  BY DEF d, Drop
<1> QED BY <1>3, <1>4, <1>5, <1>9, <1>10 DEF front, Cuts

Starts(b, w, t, rest) == b \o w = t \o rest /\ b # <<>> /\ Len(t) # 0

LEMMA FirstToken ==
  ASSUME NEW b \in Seq(Token), NEW w \in Seq(Token), NEW t \in Seq(Token),
         NEW rest \in Seq(Token), Starts(b, w, t, rest)
  PROVE  b[1] = t[1]
<1>0. b \o w = t \o rest /\ b # <<>> /\ Len(t) # 0
  BY DEF Starts
<1>1. Len(b) \in Nat /\ Len(b) # 0 /\ Len(w) \in Nat
      /\ Len(t) \in Nat /\ Len(rest) \in Nat
  BY <1>0, LenProperties, EmptySeq
<1>2. (b \o w)[1] = b[1]
  <2>1. 1 \in 1 .. Len(b) + Len(w) /\ 1 <= Len(b)
    BY <1>0, <1>1
  <2> QED BY <2>1, ConcatProperties
<1>3. (t \o rest)[1] = t[1]
  <2>1. 1 \in 1 .. Len(t) + Len(rest) /\ 1 <= Len(t)
    BY <1>0, <1>1
  <2> QED BY <2>1, ConcatProperties
<1> QED BY <1>0, <1>2, <1>3

(* What a client sends are tokens, and reading bytes gives what was sent. *)
LEMMA BytesFacts ==
  ASSUME NEW body \in Seq(Byte)
  PROVE  /\ Bytes(body) \in Seq(Token) /\ Len(Bytes(body)) = Len(body)
         /\ Values(Bytes(body)) = body
<1>1. Len(body) \in Nat /\ DOMAIN body = 1 .. Len(body)
      /\ \A i \in 1 .. Len(body) : body[i] \in Byte
  BY LenProperties, ElementOfSeq
<1>2. PICK t : t = Bytes(body)
  OBVIOUS
<1>3. t = [i \in 1 .. Len(body) |-> <<"byte", body[i]>>]
  BY <1>1, <1>2 DEF Bytes
<1>4. \A i \in 1 .. Len(body) : <<"byte", body[i]>> \in Token
  BY <1>1 DEF Token
<1>5. t \in Seq(Token) /\ Len(t) = Len(body) /\ DOMAIN t = 1 .. Len(body)
  BY <1>1, <1>3, <1>4
<1>6. Values(t) = [i \in 1 .. Len(body) |-> body[i]]
  <2>1. \A i \in 1 .. Len(body) : t[i][1] = "byte" /\ t[i][2] = body[i]
    BY <1>3
  <2> QED BY <1>5, <2>1 DEF Values
<1>7. [i \in 1 .. Len(body) |-> body[i]] = body
  BY <1>1
<1> QED BY <1>2, <1>5, <1>6, <1>7

LEMMA ChunkTokensFacts ==
  ASSUME NEW chunk \in Seq(Byte)
  PROVE  /\ ChunkTokens(chunk) \in Seq(Token)
         /\ Len(ChunkTokens(chunk)) = Len(chunk) + 2
         /\ ChunkTokens(chunk)[1] = <<"size", Len(chunk)>>
         /\ Values(SubSeq(ChunkTokens(chunk), 2, Len(chunk) + 1)) = chunk
<1>1. Len(chunk) \in Nat
  BY LenProperties
<1>2. PICK size \in Token : size = <<"size", Len(chunk)>>
  BY <1>1 DEF Token
<1>3. Crlf \in Token
  BY DEF Crlf, Token
<1>4. PICK bytes \in Seq(Token) : bytes = Bytes(chunk) /\ Len(bytes) = Len(chunk)
                                /\ Values(bytes) = chunk
  BY BytesFacts
<1>5. PICK s1 : s1 = <<size>>
  OBVIOUS
<1>6. PICK s3 : s3 = <<Crlf>>
  OBVIOUS
<1>s. /\ s1 \in Seq(Token) /\ Len(s1) = 1 /\ s1[1] = size
      /\ s3 \in Seq(Token) /\ Len(s3) = 1
  BY <1>3, <1>5, <1>6
<1>7. PICK s2 : s2 = s1 \o bytes
  OBVIOUS
<1>t. /\ s2 \in Seq(Token) /\ Len(s2) = 1 + Len(chunk)
      /\ \A i \in 1 .. 1 + Len(chunk) : s2[i] = IF i <= 1 THEN s1[i] ELSE bytes[i - 1]
  <2>1. /\ s1 \o bytes \in Seq(Token) /\ Len(s1 \o bytes) = Len(s1) + Len(bytes)
        /\ \A i \in 1 .. Len(s1) + Len(bytes) :
             (s1 \o bytes)[i] = IF i <= Len(s1) THEN s1[i] ELSE bytes[i - Len(s1)]
    BY <1>s, ConcatProperties
  <2> QED BY <1>4, <1>7, <1>s, <2>1
<1>8. PICK t : t = s2 \o s3
  OBVIOUS
<1>u. /\ t \in Seq(Token) /\ Len(t) = Len(s2) + 1
      /\ \A i \in 1 .. Len(s2) : t[i] = s2[i]
  <2>1. /\ s2 \o s3 \in Seq(Token) /\ Len(s2 \o s3) = Len(s2) + Len(s3)
        /\ \A i \in 1 .. Len(s2) + Len(s3) :
             (s2 \o s3)[i] = IF i <= Len(s2) THEN s2[i] ELSE s3[i - Len(s2)]
    BY <1>s, <1>t, ConcatProperties
  <2>2. Len(s2) \in Nat
    BY <1>t, LenProperties
  <2> QED BY <1>8, <1>s, <2>1, <2>2
<1>9. t = ChunkTokens(chunk)
  BY <1>2, <1>4, <1>5, <1>6, <1>7, <1>8 DEF ChunkTokens
<1>10. t[1] = size
  BY <1>1, <1>s, <1>t, <1>u
<1>11. SubSeq(t, 2, Len(chunk) + 1) = bytes
  <2>1. \A i \in 2 .. Len(chunk) + 1 : t[i] = bytes[i - 1]
    BY <1>1, <1>t, <1>u
  <2>2. \A i \in 2 .. Len(chunk) + 1 : t[i] \in Token
    BY <1>1, <1>t, <1>u, ElementOfSeq
  <2>3. PICK u : u = SubSeq(t, 2, Len(chunk) + 1)
    OBVIOUS
  <2>4. /\ u \in Seq(Token)
        /\ Len(u) = IF 2 <= Len(chunk) + 1 THEN Len(chunk) + 1 - 2 + 1 ELSE 0
        /\ \A i \in 1 .. Len(chunk) + 1 - 2 + 1 : u[i] = t[2 + i - 1]
    BY <1>1, <2>2, <2>3, SubSeqProperties
  <2>5. Len(u) = Len(bytes) /\ \A i \in 1 .. Len(u) : u[i] = bytes[i]
    BY <1>1, <1>4, <2>1, <2>4
  <2> QED BY <2>3, <2>4, <2>5, SeqEqual
<1>12. Len(t) = Len(chunk) + 2
  BY <1>1, <1>t, <1>u
<1>13. Values(SubSeq(t, 2, Len(chunk) + 1)) = chunk
  BY <1>4, <1>11
<1> QED BY <1>2, <1>u, <1>9, <1>10, <1>12, <1>13
-----------------------------------------------------------------------------
(* Where the chunks of a body begin and end. *)
LEMMA DivideUp ==
  ASSUME NEW l \in Nat, NEW c \in Nat \ {0}, NEW q, q = (l + c - 1) \div c
  PROVE  q \in Nat /\ c * q <= l + c - 1 /\ l + c - 1 < c * q + c
OBVIOUS

LEMMA ProductGrows ==
  ASSUME NEW c \in Nat \ {0}, NEW j \in Nat, NEW k \in Nat
  PROVE  /\ j * c \in Nat /\ (j + 1) * c = j * c + c /\ c * j = j * c
         /\ j < k => j * c + c <= k * c
OBVIOUS

(* The end of the first k chunks, and what they hold. *)
CutAt(r, k) == IF k * r.chunk > Len(r.body) THEN Len(r.body) ELSE k * r.chunk
SoFar(r, k) == SubSeq(r.body, 1, CutAt(r, k))

LEMMA ChunkBounds ==
  ASSUME NEW r \in HttpRequest, NEW k \in Nat
  PROVE  /\ Chunks(r) \in Nat
         /\ CutAt(r, k) \in 0 .. Len(r.body)
         /\ k < Chunks(r) => /\ CutAt(r, k) = k * r.chunk
                             /\ CutAt(r, k) < CutAt(r, k + 1)
         /\ CutAt(r, 0) = 0 /\ CutAt(r, Chunks(r)) = Len(r.body)
<1>1. PICK c \in Nat \ {0} : c = r.chunk
  BY DEF HttpRequest
<1>2. PICK l \in Nat : l = Len(r.body)
  BY LenProperties DEF HttpRequest
<1>3. PICK q : q = Chunks(r)
  OBVIOUS
<1>4. q \in Nat /\ c * q <= l + c - 1 /\ l + c - 1 < c * q + c
  BY <1>1, <1>2, <1>3, DivideUp DEF Chunks
<1>5. \A j \in Nat : CutAt(r, j) = IF j * c > l THEN l ELSE j * c
  BY <1>1, <1>2 DEF CutAt
<1>6. /\ CutAt(r, k) \in 0 .. l
      /\ k < q => CutAt(r, k) = k * c /\ CutAt(r, k) < CutAt(r, k + 1)
  <2>1. k * c \in Nat /\ (k + 1) * c = k * c + c /\ (k < q => k * c + c <= q * c)
        /\ c * q = q * c /\ q * c \in Nat
    BY <1>4, ProductGrows
  <2>2. k < q => k * c < l
    BY <1>4, <2>1
  <2>3. k + 1 \in Nat
    OBVIOUS
  <2>4. /\ CutAt(r, k) = IF k * c > l THEN l ELSE k * c
        /\ CutAt(r, k + 1) = IF (k + 1) * c > l THEN l ELSE (k + 1) * c
    BY <1>5, <2>3
  <2> QED BY <2>1, <2>2, <2>4
<1>7. CutAt(r, 0) = 0
  BY <1>5
<1>8. CutAt(r, q) = l
  <2>1. c * q = q * c
    BY <1>4, ProductGrows
  <2> QED BY <1>4, <1>5, <2>1
<1> QED BY <1>1, <1>2, <1>3, <1>4, <1>6, <1>7, <1>8

LEMMA SoFarFacts ==
  ASSUME NEW r \in HttpRequest
  PROVE  /\ SoFar(r, 0) = <<>> /\ SoFar(r, Chunks(r)) = r.body
         /\ \A k \in Nat : SoFar(r, k) \in Seq(Byte)
         /\ \A k \in Nat : k < Chunks(r) =>
              /\ ChunkOf(r, k + 1) \in Seq(Byte) /\ Len(ChunkOf(r, k + 1)) # 0
              /\ SoFar(r, k) \o ChunkOf(r, k + 1) = SoFar(r, k + 1)
<1>1. PICK body \in Seq(Byte) : body = r.body
  BY DEF HttpRequest
<1>2. Len(body) \in Nat /\ Chunks(r) \in Nat
  <2>1. 0 \in Nat
    OBVIOUS
  <2> QED BY <2>1, ChunkBounds, LenProperties
<1>3. \A m, n \in Nat : n <= Len(body) =>
        /\ SubSeq(body, m + 1, n) \in Seq(Byte)
        /\ Len(SubSeq(body, m + 1, n)) = IF m + 1 <= n THEN n - (m + 1) + 1 ELSE 0
  <2>1. ASSUME NEW m \in Nat, NEW n \in Nat, n <= Len(body)
        PROVE  /\ SubSeq(body, m + 1, n) \in Seq(Byte)
               /\ Len(SubSeq(body, m + 1, n)) = IF m + 1 <= n THEN n - (m + 1) + 1 ELSE 0
    <3>1. \A i \in m + 1 .. n : body[i] \in Byte
      BY <1>2, <2>1, ElementOfSeq
    <3>2. m + 1 \in Int /\ n \in Int
      OBVIOUS
    <3> QED BY <3>1, <3>2, SubSeqProperties
  <2> QED BY <2>1
<1>4. SoFar(r, 0) = <<>>
  <2>1. SoFar(r, 0) = SubSeq(body, 1, 0)
    <3>1. 0 \in Nat
      OBVIOUS
    <3> QED BY <1>1, <3>1, ChunkBounds DEF SoFar
  <2> QED BY <2>1, SubSeqEmpty
<1>5. SoFar(r, Chunks(r)) = r.body
  <2>1. CutAt(r, Chunks(r)) = Len(body)
    BY <1>1, <1>2, ChunkBounds
  <2> QED BY <1>1, <2>1, SubSeqFull DEF SoFar
<1>6. ASSUME NEW k \in Nat
      PROVE SoFar(r, k) \in Seq(Byte)
  <2>1. CutAt(r, k) \in Nat /\ CutAt(r, k) <= Len(body)
    <3>1. CutAt(r, k) \in 0 .. Len(r.body)
      BY ChunkBounds
    <3> QED BY <1>1, <1>2, <3>1
  <2>2. SubSeq(body, 0 + 1, CutAt(r, k)) \in Seq(Byte)
    BY <1>3, <2>1
  <2> QED BY <1>1, <2>2 DEF SoFar
<1>7. ASSUME NEW k \in Nat, k < Chunks(r)
      PROVE  /\ ChunkOf(r, k + 1) \in Seq(Byte) /\ Len(ChunkOf(r, k + 1)) # 0
             /\ SoFar(r, k) \o ChunkOf(r, k + 1) = SoFar(r, k + 1)
  <2>1. PICK m : m = CutAt(r, k)
    OBVIOUS
  <2>2. PICK n : n = CutAt(r, k + 1)
    OBVIOUS
  <2>3. m \in Nat /\ n \in Nat /\ m < n /\ n <= Len(body) /\ m = k * r.chunk
    <3>1. k + 1 \in Nat
      OBVIOUS
    <3>2. /\ m \in 0 .. Len(r.body) /\ n \in 0 .. Len(r.body)
          /\ m = k * r.chunk /\ m < n
      BY <1>7, <2>1, <2>2, <3>1, ChunkBounds
    <3> QED BY <1>1, <1>2, <3>2
  <2>4. ChunkOf(r, k + 1) = SubSeq(body, m + 1, n)
    <3>1. PICK c \in Nat \ {0} : c = r.chunk
      BY DEF HttpRequest
    <3>2. (k + 1) - 1 = k /\ (k + 1) * r.chunk = m + r.chunk
      <4>1. (k + 1) * c = k * c + c
        BY ProductGrows
      <4> QED BY <2>3, <3>1, <4>1
    <3>3. n = IF m + r.chunk > Len(body) THEN Len(body) ELSE m + r.chunk
      BY <1>1, <2>2, <3>2 DEF CutAt
    <3> QED BY <1>1, <2>3, <3>2, <3>3 DEF ChunkOf
  <2>5. SubSeq(body, m + 1, n) \in Seq(Byte) /\ Len(SubSeq(body, m + 1, n)) # 0
    BY <1>3, <2>3
  <2>6. SubSeq(body, 1, m) \o SubSeq(body, m + 1, n) = SubSeq(body, 1, n)
    <3>1. 1 \in 1 .. Len(body) + 1 /\ m \in 1 - 1 .. Len(body) /\ n \in m .. Len(body)
      BY <1>2, <2>3
    <3> QED BY <3>1, ConcatAdjacentSubSeq
  <2> QED BY <1>1, <2>1, <2>2, <2>4, <2>5, <2>6 DEF SoFar
<1> QED BY <1>4, <1>5, <1>6, <1>7
-----------------------------------------------------------------------------
(* TakeChunks is a recursive function; Step is its body, with f for the     *)
(* function.  Each turn looks at a shorter sequence, so that one function   *)
(* satisfies the recursion for all of them. *)
Step(f, b) ==
  IF ~WholeChunk(b) THEN [body |-> <<>>, rest |-> b, last |-> FALSE]
  ELSE LET n == b[1][2]
           rest == Drop(b, n + 2)
       IN IF n = 0 THEN [body |-> <<>>, rest |-> rest, last |-> TRUE]
          ELSE [f[rest] EXCEPT !.body = Values(SubSeq(b, 2, n + 1)) \o @]

UpTo(f, n) == \A b \in Seq(Token) : Len(b) <= n => f[b] = Step(f, b)

LEMMA WholeChunkFacts ==
  ASSUME NEW b \in Seq(Token), WholeChunk(b)
  PROVE  /\ Len(b) \in Nat /\ b[1][2] \in Nat /\ b[1][2] + 2 <= Len(b)
         /\ Drop(b, b[1][2] + 2) \in Seq(Token)
         /\ Len(Drop(b, b[1][2] + 2)) = Len(b) - (b[1][2] + 2)
<1>1. Len(b) \in Nat /\ b # <<>> /\ b[1][1] = "size" /\ Len(b) >= b[1][2] + 2
  BY LenProperties DEF WholeChunk
<1>2. b[1] \in Token
  BY <1>1, EmptySeq, ElementOfSeq
<1>3. PICK n \in Nat : n = b[1][2]
  BY <1>1, <1>2 DEF Token
<1>4. \A i \in n + 2 + 1 .. Len(b) : b[i] \in Token
  BY <1>1, ElementOfSeq
<1>5. /\ SubSeq(b, n + 2 + 1, Len(b)) \in Seq(Token)
      /\ Len(SubSeq(b, n + 2 + 1, Len(b)))
           = IF n + 2 + 1 <= Len(b) THEN Len(b) - (n + 2 + 1) + 1 ELSE 0
  BY <1>1, <1>4, SubSeqProperties
<1>6. PICK d : d = Drop(b, n + 2) /\ d = SubSeq(b, n + 2 + 1, Len(b))
  BY DEF Drop
<1>7. n + 2 <= Len(b) /\ d \in Seq(Token) /\ Len(d) = Len(b) - (n + 2)
  <2>1. PICK l \in Nat : l = Len(b)
    BY <1>1
  <2>2. n + 2 <= l
    BY <1>1, <1>3, <2>1
  <2>3. Len(d) = IF n + 2 + 1 <= l THEN l - (n + 2 + 1) + 1 ELSE 0
    BY <1>5, <1>6, <2>1
  <2>4. Len(d) = l - (n + 2)
    BY <2>2, <2>3
  <2> QED BY <1>5, <1>6, <2>1, <2>2, <2>4
<1> QED BY <1>1, <1>3, <1>6, <1>7

(* Step looks at f only where it is shorter. *)
LEMMA StepLooksDown ==
  ASSUME NEW f, NEW g, NEW b \in Seq(Token),
         \A d \in Seq(Token) : Len(d) < Len(b) => f[d] = g[d]
  PROVE  Step(f, b) = Step(g, b)
<1>1. CASE ~WholeChunk(b)
  BY <1>1 DEF Step
<1>2. CASE WholeChunk(b)
  <2>1. PICK d \in Seq(Token) : d = Drop(b, b[1][2] + 2) /\ Len(d) < Len(b)
    BY <1>2, WholeChunkFacts
  <2>2. f[d] = g[d]
    BY <2>1
  <2> QED BY <1>2, <2>1, <2>2 DEF Step
<1> QED BY <1>1, <1>2

LEMMA UpToAgree ==
  ASSUME NEW f, NEW g, NEW n \in Nat, NEW m \in Nat, n <= m,
         UpTo(f, n), UpTo(g, m)
  PROVE  \A b \in Seq(Token) : Len(b) <= n => f[b] = g[b]
<1> DEFINE Bad == {k \in 0 .. n : \E b \in Seq(Token) : Len(b) = k /\ f[b] # g[b]}
<1>1. ASSUME Bad # {} PROVE FALSE
  <2>1. Bad \in SUBSET Nat
    OBVIOUS
  <2>2. PICK k \in Bad : \A i \in Bad : k <= i
    BY <1>1, <2>1, LeastNatural
  <2>3. PICK b \in Seq(Token) : Len(b) = k /\ f[b] # g[b]
    BY <2>2
  <2>4. k \in 0 .. n
    BY <2>2
  <2>5. ASSUME NEW d \in Seq(Token), Len(d) < Len(b) PROVE f[d] = g[d]
    <3>1. Len(d) \in 0 .. n /\ ~(k <= Len(d))
      BY <2>3, <2>4, <2>5, LenProperties
    <3>2. Len(d) \notin Bad
      BY <2>2, <3>1
    <3> QED BY <3>1, <3>2
  <2>6. Step(f, b) = Step(g, b)
    BY <2>5, StepLooksDown
  <2>7. f[b] = Step(f, b) /\ g[b] = Step(g, b)
    BY <2>3, <2>4 DEF UpTo
  <2> QED BY <2>3, <2>6, <2>7
<1>2. ASSUME NEW b \in Seq(Token), Len(b) <= n PROVE f[b] = g[b]
  <2>1. Len(b) \in 0 .. n
    BY <1>2, LenProperties
  <2> QED BY <1>1, <2>1
<1> QED BY <1>2

LEMMA UpToExists ==
  ASSUME NEW n \in Nat
  PROVE  \E f : UpTo(f, n)
<1> DEFINE Bad == {k \in Nat : ~\E f : UpTo(f, k)}
<1>1. \E f : UpTo(f, 0)
  <2>1. PICK f : f = [b \in Seq(Token) |-> Step(0, b)]
    OBVIOUS
  <2>2. ASSUME NEW b \in Seq(Token), Len(b) <= 0 PROVE f[b] = Step(f, b)
    <3>1. ~WholeChunk(b)
      BY <2>2, WholeChunkFacts
    <3> QED BY <2>1, <3>1 DEF Step
  <2> QED BY <2>2 DEF UpTo
<1>2. ASSUME NEW k \in Nat, NEW f, UpTo(f, k) PROVE \E g : UpTo(g, k + 1)
  <2>1. PICK g : g = [b \in Seq(Token) |-> Step(f, b)]
    OBVIOUS
  <2>2. ASSUME NEW b \in Seq(Token), Len(b) <= k + 1 PROVE g[b] = Step(g, b)
    <3>1. ASSUME NEW d \in Seq(Token), Len(d) < Len(b) PROVE f[d] = g[d]
      <4>1. Len(d) <= k
        BY <2>2, <3>1, LenProperties
      <4> QED BY <1>2, <2>1, <4>1 DEF UpTo
    <3>2. Step(f, b) = Step(g, b)
      BY <3>1, StepLooksDown
    <3> QED BY <2>1, <3>2
  <2>3. UpTo(g, k + 1)
    BY <2>2 DEF UpTo
  <2> QED BY <2>3
<1>3. ASSUME Bad # {} PROVE FALSE
  <2>1. PICK m \in Bad : \A k \in Bad : m <= k
    BY <1>3, LeastNatural
  <2>2. m # 0
    BY <1>1, <2>1
  <2>3. PICK k \in Nat : m = k + 1
    BY <2>2
  <2>4. ~(m <= k)
    BY <2>3
  <2>5. k \notin Bad
    BY <2>1, <2>4
  <2> HIDE DEF Bad
  <2>6. \E f : UpTo(f, k)
    BY <2>5 DEF Bad
  <2>7. \E f : UpTo(f, m)
    BY <1>2, <2>3, <2>6
  <2> QED BY <2>1, <2>7 DEF Bad
<1> QED BY <1>3

LEMMA TakeChunksIs ==
  ASSUME NEW b \in Seq(Token)
  PROVE  TakeChunks[b] = Step(TakeChunks, b)
<1> DEFINE For(n) == CHOOSE f : UpTo(f, n)
<1>1. \A n \in Nat : UpTo(For(n), n)
  BY UpToExists
<1> HIDE DEF For
<1>2. PICK h : h = [d \in Seq(Token) |-> For(Len(d))[d]]
  OBVIOUS
<1>3. ASSUME NEW d \in Seq(Token) PROVE h[d] = Step(h, d)
  <2>1. PICK n \in Nat : n = Len(d)
    BY LenProperties
  <2>2. PICK f : f = For(n) /\ UpTo(f, n)
    BY <1>1
  <2>3. h[d] = Step(f, d)
    BY <1>2, <2>1, <2>2 DEF UpTo
  <2>4. ASSUME NEW e \in Seq(Token), Len(e) < Len(d) PROVE f[e] = h[e]
    <3>1. PICK k \in Nat : k = Len(e) /\ k <= n
      BY <2>1, <2>4, LenProperties
    <3>2. PICK g : g = For(k) /\ UpTo(g, k)
      BY <1>1
    <3>3. \A x \in Seq(Token) : Len(x) <= k => g[x] = f[x]
      BY <2>2, <3>1, <3>2, UpToAgree
    <3> QED BY <1>2, <3>1, <3>2, <3>3
  <2> QED BY <2>3, <2>4, StepLooksDown
<1>4. h = [d \in Seq(Token) |-> Step(h, d)]
  BY <1>2, <1>3
<1>5. TakeChunks = CHOOSE f : f = [d \in Seq(Token) |-> Step(f, d)]
  BY DEF TakeChunks, Step
<1>6. TakeChunks = [d \in Seq(Token) |-> Step(TakeChunks, d)]
  BY <1>4, <1>5
<1> QED BY <1>6
-----------------------------------------------------------------------------
(* Of n sequences and what follows them, tail, the first k are taken and    *)
(* unread is left. *)
At(f, n, k, unread, tail) == /\ k \in 0 .. n
                             /\ Flat(f, k) \o unread = Flat(f, n) \o tail

LEMMA NextSequence ==
  ASSUME NEW f, NEW n, Sequences(Token, f, n), NEW unread \in Seq(Token),
         NEW tail \in Seq(Token), NEW k, At(f, n, k, unread, tail), k # n
  PROVE  \E after \in Seq(Token) : /\ unread = f[k + 1] \o after
                                  /\ At(f, n, k + 1, after, tail)
<1>1. n \in Nat /\ \A i \in 1 .. n : f[i] \in Seq(Token)
  BY DEF Sequences
<1>2. k \in Nat /\ k + 1 \in 1 .. n /\ k \in 0 .. n /\ k + 1 \in 0 .. n
  BY <1>1 DEF At
<1>3. PICK taken \in Seq(Token) : taken = Flat(f, k)
  BY <1>2, FlatIsSequence
<1>4. PICK one \in Seq(Token) : one = f[k + 1]
  BY <1>1, <1>2
<1>5. PICK x \in Seq(Token) : Flat(f, n) = Flat(f, k + 1) \o x
  <2>1. SplitsAt(Token, f, k + 1, n)
    BY <1>2, FlatSplits
  <2> QED BY <2>1 DEF SplitsAt
<1>6. Flat(f, k + 1) = taken \o one
  BY <1>2, <1>3, <1>4, FlatOneMore
<1>7. PICK after \in Seq(Token) : after = x \o tail
  BY TokenConcat
<1>8. Flat(f, n) \o tail = (taken \o one) \o after
  <2>1. PICK to \in Seq(Token) : to = taken \o one
    BY TokenConcat
  <2>2. Regroups(to, x, tail)
    BY TokenAssociative
  <2> QED BY <1>5, <1>6, <1>7, <2>1, <2>2 DEF Regroups
<1>9. At(f, n, k + 1, after, tail)
  BY <1>2, <1>6, <1>8 DEF At
<1>10. unread = one \o after
  <2>1. PICK oa \in Seq(Token) : oa = one \o after
    BY TokenConcat
  <2>2. Regroups(taken, one, after)
    BY TokenAssociative
  <2>3. taken \o unread = taken \o oa
    BY <1>3, <1>8, <2>1, <2>2 DEF At, Regroups
  <2>4. unread = oa
    BY <2>3, TokenCancel
  <2> QED BY <2>1, <2>4
<1> QED BY <1>4, <1>9, <1>10

LEMMA NoMoreSequences ==
  ASSUME NEW f, NEW n, Sequences(Token, f, n), NEW unread \in Seq(Token),
         NEW tail \in Seq(Token), At(f, n, n, unread, tail)
  PROVE  unread = tail
<1>1. n \in 0 .. n
  BY DEF At
<1>2. PICK taken \in Seq(Token) : taken = Flat(f, n)
  BY <1>1, FlatIsSequence
<1>3. taken \o unread = taken \o tail
  BY <1>2 DEF At
<1> QED BY <1>3, TokenCancel

-----------------------------------------------------------------------------
(* A chunked body is its chunks and the empty one.  A parser at chunk k has *)
(* taken the first k of them; rest is what follows the body. *)
ChunkSeqs(r) == [i \in 1 .. Chunks(r) |-> ChunkTokens(ChunkOf(r, i))]

AtChunk(r, k, unread, rest) ==
  /\ k \in 0 .. Chunks(r)
  /\ Flat(ChunkSeqs(r), k) \o unread = BodyTokens(r) \o rest

LEMMA ChunkedBody ==
  ASSUME NEW r \in HttpRequest, r.framing = "chunked"
  PROVE  /\ Chunks(r) \in Nat
         /\ \A i \in 1 .. Chunks(r) : /\ ChunkSeqs(r)[i] \in Seq(Token)
                                     /\ ChunkSeqs(r)[i] = ChunkTokens(ChunkOf(r, i))
         /\ BodyTokens(r) = Flat(ChunkSeqs(r), Chunks(r)) \o ChunkTokens(<<>>)
<1>1. Chunks(r) \in Nat
  <2>1. 0 \in Nat
    OBVIOUS
  <2> QED BY <2>1, ChunkBounds
<1>2. ASSUME NEW i \in 1 .. Chunks(r)
      PROVE  /\ ChunkSeqs(r)[i] \in Seq(Token)
             /\ ChunkSeqs(r)[i] = ChunkTokens(ChunkOf(r, i))
  <2>1. PICK k \in Nat : i = k + 1 /\ k < Chunks(r)
    <3>1. i - 1 \in Nat /\ i = (i - 1) + 1 /\ i - 1 < Chunks(r)
      BY <1>1
    <3> QED BY <3>1
  <2>2. ChunkOf(r, k + 1) \in Seq(Byte)
    BY <2>1, SoFarFacts
  <2>3. ChunkTokens(ChunkOf(r, i)) \in Seq(Token)
    BY <2>1, <2>2, ChunkTokensFacts
  <2> QED BY <2>3 DEF ChunkSeqs
<1>3. BodyTokens(r) = FlattenSeq([i \in 1 .. Chunks(r) |-> ChunkTokens(ChunkOf(r, i))])
                        \o ChunkTokens(<<>>)
  BY DEF BodyTokens
<1>4. [i \in 1 .. Chunks(r) |-> ChunkTokens(ChunkOf(r, i))]
        = [i \in 1 .. Chunks(r) |-> ChunkSeqs(r)[i]]
  BY <1>2
<1>5. Flat(ChunkSeqs(r), Chunks(r))
        = FlattenSeq([i \in 1 .. Chunks(r) |-> ChunkTokens(ChunkOf(r, i))])
  BY <1>4 DEF Flat
<1> QED BY <1>1, <1>2, <1>3, <1>5

LEMMA NoChunk ==
  /\ ChunkTokens(<<>>) \in Seq(Token) /\ Len(ChunkTokens(<<>>)) = 2
  /\ ChunkTokens(<<>>)[1] = <<"size", 0>>
<1>1. PICK none \in Seq(Byte) : none = <<>> /\ Len(none) = 0
  BY EmptySeq
<1>2. /\ ChunkTokens(none) \in Seq(Token)
      /\ Len(ChunkTokens(none)) = 0 + 2
      /\ ChunkTokens(none)[1] = <<"size", 0>>
  BY <1>1, ChunkTokensFacts
<1> QED BY <1>1, <1>2

LEMMA ChunksAreSequences ==
  ASSUME NEW r \in HttpRequest, r.framing = "chunked",
         NEW unread \in Seq(Token), NEW rest \in Seq(Token)
  PROVE  /\ Sequences(Token, ChunkSeqs(r), Chunks(r))
         /\ ChunkTokens(<<>>) \o rest \in Seq(Token)
         /\ \A k : AtChunk(r, k, unread, rest) <=>
              At(ChunkSeqs(r), Chunks(r), k, unread, ChunkTokens(<<>>) \o rest)
<1>1. PICK f : f = ChunkSeqs(r)
  OBVIOUS
<1>2. PICK n \in Nat : n = Chunks(r)
  BY ChunkedBody
<1>3. Sequences(Token, f, n) /\ BodyTokens(r) = Flat(f, n) \o ChunkTokens(<<>>)
  BY <1>1, <1>2, ChunkedBody DEF Sequences
<1>4. PICK last \in Seq(Token) : last = ChunkTokens(<<>>)
  BY NoChunk
<1>5. PICK all \in Seq(Token) : all = Flat(f, n)
  <2>1. n \in 0 .. n
    OBVIOUS
  <2> QED BY <1>3, <2>1, FlatIsSequence
<1>6. Regroups(all, last, rest)
  BY TokenAssociative
<1>7. last \o rest \in Seq(Token)
  BY TokenConcat
<1>8. BodyTokens(r) \o rest = Flat(f, n) \o (last \o rest)
  BY <1>3, <1>4, <1>5, <1>6 DEF Regroups
<1> QED BY <1>1, <1>2, <1>3, <1>4, <1>7, <1>8 DEF AtChunk, At

LEMMA NextChunk ==
  ASSUME NEW r \in HttpRequest, r.framing = "chunked", NEW unread \in Seq(Token),
         NEW rest \in Seq(Token), NEW k, AtChunk(r, k, unread, rest), k # Chunks(r)
  PROVE  \E after \in Seq(Token) : /\ unread = ChunkTokens(ChunkOf(r, k + 1)) \o after
                                  /\ AtChunk(r, k + 1, after, rest)
<1>1. PICK f : f = ChunkSeqs(r)
  OBVIOUS
<1>2. PICK n \in Nat : n = Chunks(r)
  BY ChunkedBody
<1>3. PICK tail \in Seq(Token) : tail = ChunkTokens(<<>>) \o rest
  BY ChunksAreSequences
<1>4. Sequences(Token, f, n) /\ At(f, n, k, unread, tail)
  BY <1>1, <1>2, <1>3, ChunksAreSequences
<1>5. PICK after \in Seq(Token) : unread = f[k + 1] \o after
                                /\ At(f, n, k + 1, after, tail)
  BY <1>2, <1>4, NextSequence
<1>6. f[k + 1] = ChunkTokens(ChunkOf(r, k + 1))
  <2>1. k + 1 \in 1 .. n
    BY <1>2, <1>4 DEF At
  <2> QED BY <1>1, <1>2, <2>1, ChunkedBody
<1>7. AtChunk(r, k + 1, after, rest)
  BY <1>1, <1>2, <1>3, <1>5, ChunksAreSequences
<1> QED BY <1>5, <1>6, <1>7

LEMMA LastChunk ==
  ASSUME NEW r \in HttpRequest, r.framing = "chunked", NEW unread \in Seq(Token),
         NEW rest \in Seq(Token), AtChunk(r, Chunks(r), unread, rest)
  PROVE  unread = ChunkTokens(<<>>) \o rest
<1>1. PICK tail \in Seq(Token) : tail = ChunkTokens(<<>>) \o rest
  BY ChunksAreSequences
<1>2. /\ Sequences(Token, ChunkSeqs(r), Chunks(r))
      /\ At(ChunkSeqs(r), Chunks(r), Chunks(r), unread, tail)
  BY <1>1, ChunksAreSequences
<1>3. unread = tail
  BY <1>2, NoMoreSequences
<1> QED BY <1>1, <1>3

-----------------------------------------------------------------------------
(* What TakeChunks makes of a buffer b at chunk k, of a stream of which w   *)
(* is still to come: all chunks that are there are added to the body. *)
ChunksTaken(r, k, w, rest, t) ==
  /\ t \in [body: Seq(Byte), rest: Seq(Token), last: BOOLEAN]
  /\ t.last => SoFar(r, k) \o t.body = r.body /\ t.rest \o w = rest
  /\ ~t.last => \E j : /\ AtChunk(r, j, t.rest \o w, rest)
                       /\ SoFar(r, k) \o t.body = SoFar(r, j)

TakesRight(r, w, rest, b) ==
  \A k : AtChunk(r, k, b \o w, rest) => ChunksTaken(r, k, w, rest, TakeChunks[b])

LEMMA TakeNothing ==
  ASSUME NEW r \in HttpRequest, NEW w \in Seq(Token), NEW rest \in Seq(Token),
         NEW b \in Seq(Token), NEW k, AtChunk(r, k, b \o w, rest), ~WholeChunk(b)
  PROVE  ChunksTaken(r, k, w, rest, TakeChunks[b])
<1>1. PICK t : t = TakeChunks[b] /\ t = [body |-> <<>>, rest |-> b, last |-> FALSE]
  BY TakeChunksIs DEF Step
<1>2. <<>> \in Seq(Byte)
  BY EmptySeq
<1>3. t \in [body: Seq(Byte), rest: Seq(Token), last: BOOLEAN]
  BY <1>1, <1>2
<1>4. k \in Nat
  <2>1. 0 \in Nat
    OBVIOUS
  <2> QED BY <2>1, ChunkBounds DEF AtChunk
<1>5. SoFar(r, k) \o <<>> = SoFar(r, k)
  <2>1. SoFar(r, k) \in Seq(Byte)
    BY <1>4, SoFarFacts
  <2> QED BY <2>1, ConcatEmptySeq
<1> QED BY <1>1, <1>3, <1>5 DEF ChunksTaken

LEMMA TakeLast ==
  ASSUME NEW r \in HttpRequest, r.framing = "chunked", NEW w \in Seq(Token),
         NEW rest \in Seq(Token), NEW b \in Seq(Token),
         AtChunk(r, Chunks(r), b \o w, rest), WholeChunk(b)
  PROVE  ChunksTaken(r, Chunks(r), w, rest, TakeChunks[b])
<1>1. b \o w = ChunkTokens(<<>>) \o rest
  BY LastChunk, TokenConcat
<1>2. PICK last \in Seq(Token) : last = ChunkTokens(<<>>) /\ Len(last) = 2
                               /\ last[1] = <<"size", 0>>
  BY NoChunk
<1>3. b # <<>> /\ b[1] = <<"size", 0>>
  <2>1. b # <<>> /\ Len(last) # 0
    BY <1>2 DEF WholeChunk
  <2>2. Starts(b, w, last, rest)
    BY <1>1, <1>2, <2>1 DEF Starts
  <2>3. b[1] = last[1]
    BY <2>2, FirstToken
  <2> QED BY <1>2, <2>1, <2>3
<1>4. b[1][2] = 0 /\ 0 + 2 = 2 /\ 2 <= Len(b)
  BY <1>3 DEF WholeChunk
<1>5. PICK d \in Seq(Token) : d = Drop(b, b[1][2] + 2) /\ d \o w = rest
  <2>1. Begins(b, w, last, rest)
    BY <1>1, <1>2, <1>4 DEF Begins
  <2>2. Cuts(b, w, last, rest)
    BY <2>1, TakesFront
  <2> QED BY <1>2, <1>4, <2>2 DEF Cuts
<1>6. PICK t : t = TakeChunks[b] /\ t = [body |-> <<>>, rest |-> d, last |-> TRUE]
  BY <1>4, <1>5, TakeChunksIs DEF Step
<1>7. <<>> \in Seq(Byte)
  BY EmptySeq
<1>8. t \in [body: Seq(Byte), rest: Seq(Token), last: BOOLEAN]
  BY <1>6, <1>7
<1>9. SoFar(r, Chunks(r)) \o <<>> = r.body
  <2>1. SoFar(r, Chunks(r)) = r.body /\ r.body \in Seq(Byte)
    BY SoFarFacts DEF HttpRequest
  <2> QED BY <2>1, ConcatEmptySeq
<1> QED BY <1>5, <1>6, <1>8, <1>9 DEF ChunksTaken

LEMMA TakeOne ==
  ASSUME NEW r \in HttpRequest, r.framing = "chunked", NEW w \in Seq(Token),
         NEW rest \in Seq(Token), NEW b \in Seq(Token),
         \A d \in Seq(Token) : Len(d) < Len(b) => TakesRight(r, w, rest, d),
         NEW k, AtChunk(r, k, b \o w, rest), k # Chunks(r), WholeChunk(b)
  PROVE  ChunksTaken(r, k, w, rest, TakeChunks[b])
<1>1. PICK after \in Seq(Token) : /\ b \o w = ChunkTokens(ChunkOf(r, k + 1)) \o after
                                  /\ AtChunk(r, k + 1, after, rest)
  BY NextChunk, TokenConcat
<1>2. k \in Nat /\ k < Chunks(r) /\ k + 1 \in Nat
  BY ChunkedBody DEF AtChunk
<1>3. PICK chunk \in Seq(Byte) : /\ chunk = ChunkOf(r, k + 1) /\ Len(chunk) # 0
                                 /\ SoFar(r, k) \o chunk = SoFar(r, k + 1)
  BY <1>2, SoFarFacts
<1>4. PICK n \in Nat : n = Len(chunk) /\ n # 0
  BY <1>3, LenProperties
<1>5. PICK ct \in Seq(Token) : /\ ct = ChunkTokens(chunk) /\ Len(ct) = n + 2
                               /\ ct[1] = <<"size", n>>
                               /\ Values(SubSeq(ct, 2, n + 1)) = chunk
  BY <1>4, ChunkTokensFacts
<1>6. b[1] = <<"size", n>>
  <2>1. b # <<>> /\ Len(ct) # 0 /\ b \o w = ct \o after
    BY <1>1, <1>3, <1>4, <1>5 DEF WholeChunk
  <2>2. Starts(b, w, ct, after)
    BY <2>1 DEF Starts
  <2>3. b[1] = ct[1]
    BY <2>2, FirstToken
  <2> QED BY <1>5, <2>3
<1>7. b[1][2] = n /\ Len(ct) <= Len(b)
  BY <1>5, <1>6 DEF WholeChunk
<1>8. PICK d \in Seq(Token) : /\ d = Drop(b, n + 2) /\ d \o w = after
                              /\ Len(d) = Len(b) - (n + 2) /\ SubSeq(b, 1, n + 2) = ct
  <2>1. Begins(b, w, ct, after)
    BY <1>1, <1>3, <1>5, <1>7 DEF Begins
  <2>2. Cuts(b, w, ct, after)
    BY <2>1, TakesFront
  <2> QED BY <1>5, <2>2 DEF Cuts
<1>9. SubSeq(b, 2, n + 1) = SubSeq(ct, 2, n + 1)
  <2>1. Len(b) \in Nat /\ n + 2 <= Len(b)
    BY <1>5, <1>7, LenProperties
  <2>2. /\ 1 \in 1 .. Len(b) /\ n + 2 \in 1 .. Len(b)
        /\ 2 \in 1 .. n + 2 - 1 + 1 /\ n + 1 \in 1 .. n + 2 - 1 + 1
    BY <2>1
  <2>3. SubSeq(SubSeq(b, 1, n + 2), 2, n + 1) = SubSeq(b, 1 + 2 - 1, 1 + (n + 1) - 1)
    BY <2>2, SubSeqOfSubSeq
  <2>4. 1 + 2 - 1 = 2 /\ 1 + (n + 1) - 1 = n + 1
    OBVIOUS
  <2> QED BY <1>8, <2>3, <2>4
<1>10. PICK u : u = TakeChunks[d] /\ ChunksTaken(r, k + 1, w, rest, u)
  <2>1. Len(d) < Len(b)
    BY <1>8, LenProperties
  <2>2. TakesRight(r, w, rest, d)
    BY <2>1
  <2> QED BY <1>1, <1>8, <2>2 DEF TakesRight
<1>11. PICK t : t = TakeChunks[b] /\ t = [u EXCEPT !.body = chunk \o @]
  <2>1. TakeChunks[b] = [TakeChunks[Drop(b, n + 2)] EXCEPT
                           !.body = Values(SubSeq(b, 2, n + 1)) \o @]
    BY <1>4, <1>7, TakeChunksIs DEF Step
  <2>2. Values(SubSeq(b, 2, n + 1)) = chunk
    BY <1>5, <1>9
  <2>3. TakeChunks[Drop(b, n + 2)] = u
    BY <1>8, <1>10
  <2> QED BY <2>1, <2>2, <2>3
<1>12. u \in [body: Seq(Byte), rest: Seq(Token), last: BOOLEAN]
  BY <1>10 DEF ChunksTaken
<1>13. t.body = chunk \o u.body /\ t.rest = u.rest /\ t.last = u.last
  BY <1>11, <1>12
<1>14. chunk \o u.body \in Seq(Byte)
  BY <1>12, ConcatProperties
<1>15. t \in [body: Seq(Byte), rest: Seq(Token), last: BOOLEAN]
  BY <1>11, <1>12, <1>14
<1>16. SoFar(r, k) \o t.body = SoFar(r, k + 1) \o u.body
  <2>1. PICK s \in Seq(Byte) : s = SoFar(r, k)
    BY <1>2, SoFarFacts
  <2>2. PICK v \in Seq(Byte) : v = u.body
    BY <1>12
  <2>3. Regroups(s, chunk, v)
    BY ByteAssociative
  <2> QED BY <1>3, <1>13, <2>1, <2>2, <2>3 DEF Regroups
<1> QED BY <1>10, <1>11, <1>13, <1>15, <1>16 DEF ChunksTaken

LEMMA ChunksAreTaken ==
  ASSUME NEW r \in HttpRequest, r.framing = "chunked", NEW w \in Seq(Token),
         NEW rest \in Seq(Token), NEW b \in Seq(Token)
  PROVE  TakesRight(r, w, rest, b)
<1> DEFINE Bad == {n \in Nat : \E d \in Seq(Token) :
                                  Len(d) = n /\ ~TakesRight(r, w, rest, d)}
<1>1. ASSUME Bad # {} PROVE FALSE
  <2>1. PICK n \in Bad : \A i \in Bad : n <= i
    BY <1>1, LeastNatural
  <2>2. PICK d \in Seq(Token) : Len(d) = n /\ ~TakesRight(r, w, rest, d)
    BY <2>1
  <2>3. ASSUME NEW e \in Seq(Token), Len(e) < Len(d)
        PROVE  TakesRight(r, w, rest, e)
    <3>1. Len(e) \in Nat /\ ~(n <= Len(e))
      BY <2>2, <2>3, LenProperties
    <3>2. Len(e) \notin Bad
      BY <2>1, <3>1
    <3> QED BY <3>1, <3>2
  <2>4. ASSUME NEW k, AtChunk(r, k, d \o w, rest)
        PROVE  ChunksTaken(r, k, w, rest, TakeChunks[d])
    <3>1. CASE ~WholeChunk(d)
      BY <2>4, <3>1, TakeNothing
    <3>2. CASE WholeChunk(d) /\ k = Chunks(r)
      BY <2>4, <3>2, TakeLast
    <3>3. CASE WholeChunk(d) /\ k # Chunks(r)
      BY <2>3, <2>4, <3>3, TakeOne
    <3> QED BY <3>1, <3>2, <3>3
  <2> QED BY <2>2, <2>4 DEF TakesRight
<1>2. Len(b) \in Nat
  BY LenProperties
<1> QED BY <1>1, <1>2
-----------------------------------------------------------------------------
(* The stream that a client's requests make, one after the other; rest is   *)
(* what follows the first n of them. *)
Sent(s) == [i \in 1 .. Len(s) |-> Tokens(s[i])]
Follows(s, n, rest) == /\ n \in 0 .. Len(s)
                       /\ Flat(Sent(s), n) \o rest = Flat(Sent(s), Len(s))

LEMMA BodyTokensFacts ==
  ASSUME NEW r \in HttpRequest
  PROVE  /\ BodyTokens(r) \in Seq(Token) /\ Tokens(r) \in Seq(Token)
         /\ r.framing = "length" => BodyTokens(r) = Bytes(r.body)
         /\ r.framing \in {"none", "garbled"} => BodyTokens(r) = <<>>
<1>1. r.body \in Seq(Byte) /\ r.framing \in {"none", "length", "chunked", "garbled"}
  BY DEF HttpRequest
<1>2. r.framing = "length" => BodyTokens(r) = Bytes(r.body)
  BY DEF BodyTokens
<1>3. r.framing \in {"none", "garbled"} => BodyTokens(r) = <<>>
  BY DEF BodyTokens
<1>4. BodyTokens(r) \in Seq(Token)
  <2>1. CASE r.framing = "chunked"
    <3>2. Sequences(Token, ChunkSeqs(r), Chunks(r)) /\ Chunks(r) \in 0 .. Chunks(r)
      BY <2>1, ChunkedBody DEF Sequences
    <3>3. Flat(ChunkSeqs(r), Chunks(r)) \in Seq(Token)
      BY <3>2, FlatIsSequence
    <3> QED BY <2>1, <3>3, ChunkedBody, NoChunk, TokenConcat
  <2>2. CASE r.framing = "length"
    BY <1>1, <1>2, <2>2, BytesFacts
  <2>3. CASE r.framing \in {"none", "garbled"}
    BY <1>3, <2>3, EmptySeq
  <2> QED BY <1>1, <2>1, <2>2, <2>3
<1>5. Tokens(r) \in Seq(Token)
  <2>1. <<"head", r>> \in Token /\ Blank \in Token
    BY DEF Token, Blank
  <2>2. <<<<"head", r>>, Blank>> \in Seq(Token)
    BY <2>1
  <2> QED BY <1>4, <2>2, TokenConcat DEF Tokens
<1> QED BY <1>2, <1>3, <1>4, <1>5

LEMMA SentIsSequences ==
  ASSUME NEW s \in Seq(HttpRequest), NEW unread \in Seq(Token)
  PROVE  /\ Len(s) \in Nat /\ Sequences(Token, Sent(s), Len(s))
         /\ \A n : Follows(s, n, unread) <=> At(Sent(s), Len(s), n, unread, <<>>)
         /\ \A i \in 1 .. Len(s) : s[i] \in HttpRequest /\ Sent(s)[i] = Tokens(s[i])
<1>1. Len(s) \in Nat /\ \A i \in 1 .. Len(s) : s[i] \in HttpRequest
  BY LenProperties, ElementOfSeq
<1>2. \A i \in 1 .. Len(s) : Sent(s)[i] = Tokens(s[i])
  BY DEF Sent
<1>3. Sequences(Token, Sent(s), Len(s))
  BY <1>1, <1>2, BodyTokensFacts DEF Sequences
<1>4. Flat(Sent(s), Len(s)) \o <<>> = Flat(Sent(s), Len(s))
  <2>1. Len(s) \in 0 .. Len(s)
    BY <1>1
  <2>2. Flat(Sent(s), Len(s)) \in Seq(Token)
    BY <1>3, <2>1, FlatIsSequence
  <2> QED BY <2>2, ConcatEmptySeq
<1> QED BY <1>1, <1>2, <1>3, <1>4 DEF Follows, At

LEMMA NextRequest ==
  ASSUME NEW s \in Seq(HttpRequest), NEW unread \in Seq(Token), NEW n,
         Follows(s, n, unread), n # Len(s)
  PROVE  \E rest \in Seq(Token) : /\ unread = Tokens(s[n + 1]) \o rest
                                 /\ Follows(s, n + 1, rest)
<1>1. PICK none \in Seq(Token) : none = <<>>
  BY EmptySeq
<1>2. Sequences(Token, Sent(s), Len(s)) /\ At(Sent(s), Len(s), n, unread, none)
  BY <1>1, SentIsSequences
<1>3. PICK rest \in Seq(Token) : /\ unread = Sent(s)[n + 1] \o rest
                                 /\ At(Sent(s), Len(s), n + 1, rest, none)
  BY <1>2, NextSequence
<1>4. Follows(s, n + 1, rest)
  BY <1>1, <1>3, SentIsSequences
<1>5. n + 1 \in 1 .. Len(s)
  BY SentIsSequences DEF Follows
<1>6. Sent(s)[n + 1] = Tokens(s[n + 1])
  BY <1>5, SentIsSequences
<1> QED BY <1>3, <1>4, <1>6

LEMMA NoMoreRequests ==
  ASSUME NEW s \in Seq(HttpRequest), NEW unread \in Seq(Token),
         Follows(s, Len(s), unread)
  PROVE  unread = <<>>
<1>1. PICK none \in Seq(Token) : none = <<>>
  BY EmptySeq
<1>2. Sequences(Token, Sent(s), Len(s)) /\ At(Sent(s), Len(s), Len(s), unread, none)
  BY <1>1, SentIsSequences
<1>3. unread = none
  BY <1>2, NoMoreSequences
<1> QED BY <1>1, <1>3
-----------------------------------------------------------------------------
(* What a context knows while it waits for more: of the requests s, n are   *)
(* handled; unread is in its buffer_ or still to come.                      *)
Context == [complete_headers_: BOOLEAN, complete_request_: BOOLEAN,
            content_length_: Nat, request_: HttpRequest,
            body_: Seq(Byte), buffer_: Seq(Token)]

Between(c, s, n, unread) ==
  /\ ~c.complete_headers_ /\ c.content_length_ = 0 /\ c.body_ = <<>>
  /\ Follows(s, n, unread)

(* What is left of the body of r, and of what follows it. *)
InBody(c, r, unread, rest) ==
  \/ /\ r.framing = "length" /\ ~TakesAll(r)
     /\ c.body_ = <<>> /\ unread = BodyTokens(r) \o rest
  \/ /\ r.framing = "chunked"
     /\ \E k : c.body_ = SoFar(r, k) /\ AtChunk(r, k, unread, rest)

Inside(c, s, n, unread) ==
  /\ c.complete_headers_ /\ n < Len(s)
  /\ c.request_ = s[n + 1] /\ s[n + 1].valid
  /\ \E rest \in Seq(Token) : /\ Follows(s, n + 1, rest)
                              /\ InBody(c, s[n + 1], unread, rest)

AtHand(c, s, n, unread) == Between(c, s, n, unread) \/ Inside(c, s, n, unread)

(* A body of which the request does not say where it ends is not sent; and  *)
(* a request that asks to close, or is HTTP/1.0, sends none with a          *)
(* Content-Length: the parser looks at neither the header nor the rest of   *)
(* the body, and takes whatever came with the headers (HttpContext.cpp:94). *)
Delimited(r) == r.framing \in {"none", "garbled"} => r.body = <<>>
ClosesEmpty(r) == r.framing = "length" /\ TakesAll(r) => r.body = <<>>
WellFramed(r) == Delimited(r) /\ ClosesEmpty(r)

(* What ParseRequest and ParseBody return, w being still to come. *)
Outcome(p, s, n, w) ==
  /\ p.context \in Context
  /\ ~p.ok => /\ ~p.context.complete_request_ /\ n < Len(s)
              /\ ~s[n + 1].valid \/ s[n + 1].framing = "garbled"
  /\ p.ok /\ p.context.complete_request_ =>
       /\ n < Len(s)
       /\ p.context.request_ = s[n + 1] /\ p.context.body_ = s[n + 1].body
       /\ Follows(s, n + 1, p.context.buffer_ \o w)
  /\ p.ok /\ ~p.context.complete_request_ =>
       AtHand(p.context, s, n, p.context.buffer_ \o w)

(* A context whose headers are request n + 1. *)
Reading(c, s, n, w) ==
  /\ s \in Seq(HttpRequest) /\ c \in Context /\ w \in Seq(Token)
  /\ c.complete_headers_ /\ ~c.complete_request_
  /\ n \in Nat /\ n < Len(s) /\ s[n + 1] \in HttpRequest
  /\ c.request_ = s[n + 1] /\ s[n + 1].valid /\ WellFramed(s[n + 1])
  /\ TakesAll(s[n + 1]) => n + 1 = Len(s)

LEMMA CompleteOutcome ==
  ASSUME NEW e, NEW s, NEW n, NEW w, e \in Context, e.complete_request_,
         n < Len(s), e.request_ = s[n + 1], e.body_ = s[n + 1].body,
         Follows(s, n + 1, e.buffer_ \o w)
  PROVE  Outcome([ok |-> TRUE, context |-> e], s, n, w)
BY DEF Outcome

LEMMA MalformedOutcome ==
  ASSUME NEW e, NEW s, NEW n, NEW w, e \in Context, ~e.complete_request_,
         n < Len(s), ~s[n + 1].valid \/ s[n + 1].framing = "garbled"
  PROVE  Outcome([ok |-> FALSE, context |-> e], s, n, w)
BY DEF Outcome

LEMMA BodySet ==
  ASSUME NEW c, NEW s, NEW n, NEW w, Reading(c, s, n, w), NEW rest \in Seq(Token),
         Follows(s, n + 1, rest),
         Begins(c.buffer_, w, Bytes(s[n + 1].body), rest)
  PROVE  Outcome(SetBody(c, Len(s[n + 1].body)), s, n, w)
<1>1. PICK r \in HttpRequest : r = s[n + 1]
  BY DEF Reading
<1>2. PICK body \in Seq(Byte) : body = r.body
  BY DEF HttpRequest
<1>3. PICK t \in Seq(Token) : /\ t = Bytes(body) /\ Len(t) = Len(body)
                              /\ Values(t) = body
  BY BytesFacts
<1>4. PICK b \in Seq(Token) : b = c.buffer_
  BY DEF Reading, Context
<1>5. /\ SubSeq(b, 1, Len(body)) = t
      /\ Drop(b, Len(body)) \in Seq(Token)
      /\ Drop(b, Len(body)) \o w = rest
  <2>1. Begins(b, w, t, rest) /\ w \in Seq(Token)
    BY <1>1, <1>2, <1>3, <1>4 DEF Reading
  <2>2. Cuts(b, w, t, rest)
    BY <2>1, TakesFront
  <2> QED BY <1>3, <2>2 DEF Cuts
<1>6. PICK m \in Nat : m = Len(body)
  BY LenProperties
<1>7. PICK d : d = [c EXCEPT !.content_length_ = m, !.body_ = body,
                             !.buffer_ = Drop(b, m)]
  OBVIOUS
<1>8. PICK e : e = [d EXCEPT !.complete_request_ = TRUE]
  OBVIOUS
<1>9. SetBody(c, m) = [ok |-> TRUE, context |-> e]
  BY <1>3, <1>4, <1>5, <1>6, <1>7, <1>8 DEF SetBody, Complete, Parsed
<1>10. c \in Context /\ c.request_ = r
  BY <1>1 DEF Reading
<1>11. /\ d \in Context /\ d.request_ = r /\ d.body_ = body
       /\ d.buffer_ = Drop(b, m)
  BY <1>5, <1>6, <1>7, <1>10 DEF Context
<1>12. /\ e \in Context /\ e.complete_request_ /\ e.request_ = r
       /\ e.body_ = body /\ e.buffer_ = Drop(b, m)
  BY <1>8, <1>11 DEF Context
<1>13. n < Len(s)
  BY DEF Reading
<1>14. /\ e.request_ = s[n + 1] /\ e.body_ = s[n + 1].body
       /\ Follows(s, n + 1, e.buffer_ \o w)
  BY <1>1, <1>2, <1>5, <1>6, <1>12
<1>15. Outcome([ok |-> TRUE, context |-> e], s, n, w)
  BY <1>12, <1>13, <1>14, CompleteOutcome
<1> QED BY <1>1, <1>2, <1>6, <1>9, <1>15

(* After its headers: c holds nothing of the body yet, or whole chunks. *)
BodyToCome(c, r, w, rest) ==
  \/ /\ r.framing # "chunked"
     /\ c.body_ = <<>> /\ (r.framing = "none" => c.content_length_ = 0)
     /\ c.buffer_ \o w = BodyTokens(r) \o rest
  \/ /\ r.framing = "chunked"
     /\ \E k : c.body_ = SoFar(r, k) /\ AtChunk(r, k, c.buffer_ \o w, rest)

LEMMA ChunkedBodyParsed ==
  ASSUME NEW c, NEW s, NEW n, NEW w, Reading(c, s, n, w), NEW rest \in Seq(Token),
         Follows(s, n + 1, rest), s[n + 1].framing = "chunked",
         NEW k, c.body_ = SoFar(s[n + 1], k),
         AtChunk(s[n + 1], k, c.buffer_ \o w, rest)
  PROVE  Outcome(ParseChunkedBody(c), s, n, w)
<1>1. PICK r \in HttpRequest : r = s[n + 1] /\ r.framing = "chunked"
  BY DEF Reading
<1>2. PICK b \in Seq(Token) : b = c.buffer_
  BY DEF Reading, Context
<1>3. /\ w \in Seq(Token) /\ c \in Context /\ c.request_ = r /\ r.valid
      /\ n < Len(s) /\ c.complete_headers_ /\ ~c.complete_request_
  BY <1>1 DEF Reading
<1>4. PICK t : t = TakeChunks[b] /\ ChunksTaken(r, k, w, rest, t)
  <2>1. TakesRight(r, w, rest, b)
    BY <1>1, <1>3, ChunksAreTaken
  <2> QED BY <1>1, <1>2, <2>1 DEF TakesRight
<1>5. t.body \in Seq(Byte) /\ t.rest \in Seq(Token) /\ t.last \in BOOLEAN
  BY <1>4 DEF ChunksTaken
<1>6. PICK so \in Seq(Byte) : so = c.body_
  BY <1>3 DEF Context
<1>7. PICK body \in Seq(Byte) : body = so \o t.body
  BY <1>5, ConcatProperties
<1>8. PICK d : d = [c EXCEPT !.body_ = body, !.buffer_ = t.rest]
  OBVIOUS
<1>9. ParseChunkedBody(c) = IF t.last THEN Complete(d) ELSE Incomplete(d)
  BY <1>2, <1>4, <1>6, <1>7, <1>8 DEF ParseChunkedBody
<1>10. /\ d \in Context /\ d.request_ = r /\ d.body_ = body /\ d.buffer_ = t.rest
       /\ d.complete_headers_ /\ ~d.complete_request_
  BY <1>3, <1>5, <1>8 DEF Context
<1>11. CASE t.last
  <2>1. PICK e : e = [d EXCEPT !.complete_request_ = TRUE]
    OBVIOUS
  <2>2. ParseChunkedBody(c) = [ok |-> TRUE, context |-> e]
    BY <1>9, <1>11, <2>1 DEF Complete, Parsed
  <2>3. /\ e \in Context /\ e.complete_request_ /\ e.request_ = r
        /\ e.body_ = body /\ e.buffer_ = t.rest
    BY <1>10, <2>1 DEF Context
  <2>4. body = r.body /\ t.rest \o w = rest
    BY <1>1, <1>4, <1>6, <1>7, <1>11 DEF ChunksTaken
  <2>5. /\ e.request_ = s[n + 1] /\ e.body_ = s[n + 1].body
        /\ Follows(s, n + 1, e.buffer_ \o w)
    BY <1>1, <2>3, <2>4
  <2>6. Outcome([ok |-> TRUE, context |-> e], s, n, w)
    BY <1>3, <2>3, <2>5, CompleteOutcome
  <2> QED BY <2>2, <2>6
<1>12. CASE ~t.last
  <2>1. ParseChunkedBody(c) = [ok |-> TRUE, context |-> d]
    BY <1>9, <1>12 DEF Incomplete, Parsed
  <2>2. PICK j : AtChunk(r, j, t.rest \o w, rest) /\ body = SoFar(r, j)
    BY <1>1, <1>4, <1>6, <1>7, <1>12 DEF ChunksTaken
  <2>3. InBody(d, r, d.buffer_ \o w, rest)
    BY <1>1, <1>10, <2>2 DEF InBody
  <2>4. Inside(d, s, n, d.buffer_ \o w)
    BY <1>1, <1>3, <1>10, <2>3 DEF Inside
  <2> QED BY <1>10, <2>1, <2>4 DEF Outcome, AtHand
<1> QED BY <1>11, <1>12

LEMMA BodyParsed ==
  ASSUME NEW c, NEW s, NEW n, NEW w, Reading(c, s, n, w), NEW rest \in Seq(Token),
         Follows(s, n + 1, rest), BodyToCome(c, s[n + 1], w, rest)
  PROVE  Outcome(ParseBody(c), s, n, w)
<1>1. PICK r \in HttpRequest : r = s[n + 1] /\ r = c.request_
  BY DEF Reading
<1>2. PICK b \in Seq(Token) : b = c.buffer_
  BY DEF Reading, Context
<1>3. /\ w \in Seq(Token) /\ c \in Context /\ r.valid /\ s \in Seq(HttpRequest)
      /\ n < Len(s) /\ c.complete_headers_ /\ ~c.complete_request_ /\ WellFramed(r)
      /\ TakesAll(r) => n + 1 = Len(s)
  BY <1>1 DEF Reading
<1>4. r.framing \in {"none", "length", "chunked", "garbled"} /\ r.body \in Seq(Byte)
  BY DEF HttpRequest
<1>5. CASE r.framing = "chunked"
  <2>1. PICK k : c.body_ = SoFar(r, k) /\ AtChunk(r, k, c.buffer_ \o w, rest)
    BY <1>1, <1>5 DEF BodyToCome
  <2>2. ParseBody(c) = ParseChunkedBody(c)
    BY <1>1, <1>5 DEF ParseBody
  <2> QED BY <1>1, <1>5, <2>1, <2>2, ChunkedBodyParsed
<1>6. CASE r.framing # "chunked"
  <2>1. /\ c.body_ = <<>> /\ (r.framing = "none" => c.content_length_ = 0)
        /\ b \o w = BodyTokens(r) \o rest
    BY <1>1, <1>2, <1>6 DEF BodyToCome
  <2>2. CASE r.framing = "garbled" /\ ~TakesAll(r)
    <3>1. ParseBody(c) = Malformed(c)
      BY <1>1, <2>2 DEF ParseBody
    <3> QED BY <1>1, <1>3, <2>2, <3>1 DEF Outcome, Malformed, Parsed
  <2>3. CASE r.framing = "length" /\ ~TakesAll(r) /\ Len(b) < Len(r.body)
    <3>1. PICK m \in Nat : m = Len(r.body)
      BY <1>4, LenProperties
    <3>2. PICK d : d = [c EXCEPT !.content_length_ = m]
      OBVIOUS
    <3>3. ParseBody(c) = [ok |-> TRUE, context |-> d]
      BY <1>1, <1>2, <2>3, <3>1, <3>2 DEF ParseBody, Incomplete, Parsed
    <3>4. /\ d \in Context /\ d.request_ = r /\ d.body_ = <<>> /\ d.buffer_ = b
          /\ d.complete_headers_ /\ ~d.complete_request_
      <4>1. /\ c \in Context /\ c.request_ = r /\ c.body_ = <<>> /\ c.buffer_ = b
            /\ c.complete_headers_ /\ ~c.complete_request_
        BY <1>1, <1>2, <1>3, <2>1
      <4> QED BY <3>2, <4>1 DEF Context
    <3>5. Inside(d, s, n, d.buffer_ \o w)
      BY <1>1, <1>3, <2>1, <2>3, <3>4 DEF Inside, InBody
    <3> QED BY <3>3, <3>4, <3>5 DEF Outcome, AtHand
  <2>4. CASE r.framing = "length" /\ ~TakesAll(r) /\ ~(Len(b) < Len(r.body))
    <3>1. ParseBody(c) = SetBody(c, Len(r.body))
      BY <1>1, <1>2, <2>4 DEF ParseBody
    <3>2. PICK t \in Seq(Token) : t = Bytes(r.body) /\ Len(t) = Len(r.body)
      BY <1>4, BytesFacts
    <3>3. Len(t) <= Len(b)
      BY <2>4, <3>2, LenProperties
    <3>4. BodyTokens(r) = t
      BY <2>4, <3>2, BodyTokensFacts
    <3>5. Begins(c.buffer_, w, Bytes(r.body), rest)
      BY <1>2, <2>1, <3>2, <3>3, <3>4 DEF Begins
    <3> QED BY <1>1, <3>1, <3>5, BodySet
  <2>5. CASE TakesAll(r) \/ r.framing = "none"
    <3>1. r.body = <<>>
      BY <1>3, <1>4, <1>6, <2>5 DEF WellFramed, Delimited, ClosesEmpty
    <3>2. Bytes(r.body) = <<>> /\ Len(r.body) = 0
      <4>1. Bytes(r.body) \in Seq(Token) /\ Len(Bytes(r.body)) = Len(r.body)
        BY <1>4, BytesFacts
      <4>2. Len(r.body) = 0
        BY <3>1
      <4> QED BY <4>1, <4>2, EmptySeq
    <3>3. BodyTokens(r) = <<>>
      BY <1>4, <1>6, <3>2, BodyTokensFacts
    <3>4. b \o w = rest
      BY <2>1, <3>3, ConcatEmptySeq
    <3>5. TakesAll(r) => Len(b) = 0
      <4>1. ASSUME TakesAll(r) PROVE b = <<>>
        <5>1. Follows(s, Len(s), rest)
          BY <1>3, <4>1
        <5>2. rest = <<>>
          BY <1>3, <5>1, NoMoreRequests
        <5> QED BY <1>3, <3>4, <5>2, ConcatEqualIffEmpty
      <4> QED BY <4>1
    <3>6. ParseBody(c) = SetBody(c, 0)
      <4>1. CASE TakesAll(r)
        BY <1>1, <1>2, <1>6, <3>5, <4>1 DEF ParseBody
      <4>2. CASE ~TakesAll(r)
        <5>1. r.framing = "none" /\ c.content_length_ = 0
          BY <2>1, <2>5, <4>2
        <5>2. ParseBody(c) = SetBody(c, c.content_length_)
          BY <1>1, <4>2, <5>1 DEF ParseBody
        <5> QED BY <5>1, <5>2
      <4> QED BY <4>1, <4>2
    <3>7. Begins(c.buffer_, w, Bytes(r.body), rest)
      <4>1. <<>> \o rest = rest /\ Len(<<>>) = 0 /\ 0 <= Len(b)
        BY ConcatEmptySeq, LenProperties
      <4> QED BY <1>2, <3>2, <3>4, <4>1 DEF Begins
    <3> QED BY <1>1, <3>2, <3>6, <3>7, BodySet
  <2> QED BY <1>4, <1>6, <2>2, <2>3, <2>4, <2>5
<1> QED BY <1>5, <1>6
-----------------------------------------------------------------------------
(* The header block. *)
Header(r) == <<<<"head", r>>, Blank>>

LEMMA HeaderFacts ==
  ASSUME NEW r \in HttpRequest
  PROVE  /\ Header(r) \in Seq(Token) /\ Len(Header(r)) = 2
         /\ Header(r)[1] = <<"head", r>> /\ Header(r)[2] = Blank
         /\ <<"head", r>> # Blank
         /\ Tokens(r) = Header(r) \o BodyTokens(r)
<1>1. <<"head", r>> \in Token /\ Blank \in Token
  BY DEF Token, Blank
<1>2. PICK h : h = <<"head", r>>
  OBVIOUS
<1>3. <<h, Blank>> \in Seq(Token) /\ Len(<<h, Blank>>) = 2
      /\ <<h, Blank>>[1] = h /\ <<h, Blank>>[2] = Blank
  BY <1>1, <1>2
<1>4. h # Blank
  BY <1>2 DEF Blank
<1> QED BY <1>2, <1>3, <1>4 DEF Header, Tokens

LEMMA BlankIsFound ==
  ASSUME NEW b \in Seq(Token), Len(b) >= 2, b[1] # Blank, b[2] = Blank
  PROVE  HeaderEnd(b) = 2
<1> DEFINE I == {i \in 1 .. Len(b) : b[i] = Blank}
<1>1. 2 \in I /\ \A i \in I : 2 <= i
  OBVIOUS
<1>2. HeaderEnd(b) = IF I # {} THEN Min(I) ELSE 0
  BY DEF HeaderEnd, SelectInSeq
<1>3. Min(I) = 2
  BY <1>1 DEF Min
<1> QED BY <1>1, <1>2, <1>3

LEMMA NoBlank ==
  ASSUME NEW b \in Seq(Token), Len(b) < 2, b # <<>> => b[1] # Blank
  PROVE  HeaderEnd(b) = 0
<1> DEFINE I == {i \in 1 .. Len(b) : b[i] = Blank}
<1>1. Len(b) \in Nat /\ (Len(b) # 0 => b # <<>>)
  BY LenProperties, EmptySeq
<1>2. I = {}
  <2>1. ASSUME NEW i \in 1 .. Len(b) PROVE b[i] # Blank
    <3>1. i = 1 /\ Len(b) # 0
      BY <1>1, <2>1
    <3> QED BY <1>1, <3>1
  <2> QED BY <2>1
<1>3. HeaderEnd(b) = IF I # {} THEN Min(I) ELSE 0
  BY DEF HeaderEnd, SelectInSeq
<1> QED BY <1>2, <1>3

LEMMA HeaderOf ==
  ASSUME NEW r \in HttpRequest, NEW text, text = <<<<"head", r>>>>
  PROVE  ParsedHeader(text) = r /\ (ValidHeader(text) <=> r.valid)
<1>1. Len(text) = 1 /\ text[1] = <<"head", r>> /\ text # <<>>
  OBVIOUS
<1>2. text[Len(text)][2] = r /\ text[Len(text)][1] = "head"
  BY <1>1
<1>3. ParsedHeader(text) = r
  BY <1>1, <1>2 DEF ParsedHeader
<1>4. \A i \in 1 .. Len(text) - 1 : text[i][1] = "byte"
  BY <1>1
<1>5. ValidHeader(text) <=> r.valid
  BY <1>1, <1>2, <1>4 DEF ValidHeader
<1> QED BY <1>3, <1>5

(* Of a stream that goes on with request r, b is here and w to come. *)
HeaderAt(r, b, w, rest) ==
  /\ Len(b) < 2 => HeaderEnd(b) = 0
  /\ ~(Len(b) < 2) => /\ HeaderEnd(b) = 2
                      /\ SubSeq(b, 1, 1) = <<<<"head", r>>>>
                      /\ Drop(b, 2) \in Seq(Token)
                      /\ Drop(b, 2) \o w = BodyTokens(r) \o rest

LEMMA HeaderCut ==
  ASSUME NEW r \in HttpRequest, NEW b \in Seq(Token), NEW w \in Seq(Token),
         NEW rest \in Seq(Token), b \o w = Tokens(r) \o rest
  PROVE  HeaderAt(r, b, w, rest)
<1>1. PICK h \in Seq(Token) : /\ h = Header(r) /\ Len(h) = 2
                              /\ h[1] = <<"head", r>> /\ h[2] = Blank /\ h[1] # Blank
                              /\ Tokens(r) = h \o BodyTokens(r)
  BY HeaderFacts
<1>2. PICK body \in Seq(Token) : body = BodyTokens(r)
  BY BodyTokensFacts
<1>3. PICK after \in Seq(Token) : after = body \o rest
  BY TokenConcat
<1>4. b \o w = h \o after
  <2>1. Regroups(h, body, rest)
    BY TokenAssociative
  <2> QED BY <1>1, <1>2, <1>3, <2>1 DEF Regroups
<1>5. Len(b) \in Nat
  BY LenProperties
<1>6. b # <<>> => b[1] = h[1]
  <2>1. ASSUME b # <<>> PROVE b[1] = h[1]
    <3>1. Len(h) # 0
      BY <1>1
    <3>2. Starts(b, w, h, after)
      BY <1>4, <2>1, <3>1 DEF Starts
    <3> QED BY <3>2, FirstToken
  <2> QED BY <2>1
<1>7. ASSUME Len(b) < 2 PROVE HeaderEnd(b) = 0
  BY <1>1, <1>6, <1>7, NoBlank
<1>8. ASSUME ~(Len(b) < 2)
      PROVE  /\ HeaderEnd(b) = 2 /\ SubSeq(b, 1, 1) = <<<<"head", r>>>>
             /\ Drop(b, 2) \in Seq(Token) /\ Drop(b, 2) \o w = after
  <2>1. Begins(b, w, h, after)
    <3>1. Len(h) <= Len(b)
      BY <1>1, <1>5, <1>8
    <3> QED BY <1>4, <3>1 DEF Begins
  <2>2. Cuts(b, w, h, after)
    BY <2>1, TakesFront
  <2>3. /\ SubSeq(b, 1, 2) = h /\ Drop(b, 2) \in Seq(Token)
        /\ Drop(b, 2) \o w = after
    BY <1>1, <2>2 DEF Cuts
  <2>4. 1 \in 1 .. Len(b) /\ 2 \in 1 .. Len(b) /\ 1 + 1 = 2 /\ 2 \in 1 .. 2
        /\ 2 - 1 + 1 = 2
    BY <1>5, <1>8
  <2>5. SubSeq(b, 1, 2)[2] = b[2]
    <3>1. \A i \in 1 .. 2 : b[i] \in Token
      BY <1>5, <1>8, ElementOfSeq
    <3>2. \A i \in 1 .. 2 - 1 + 1 : SubSeq(b, 1, 2)[i] = b[1 + i - 1]
      BY <3>1, SubSeqProperties
    <3>3. SubSeq(b, 1, 2)[2] = b[1 + 2 - 1] /\ 1 + 2 - 1 = 2
      BY <2>4, <3>2
    <3> QED BY <3>3
  <2>6. b[1] = h[1]
    <3>1. b # <<>>
      BY <1>8
    <3> QED BY <1>6, <3>1
  <2>7. HeaderEnd(b) = 2
    <3>1. b[2] = Blank /\ b[1] # Blank /\ Len(b) >= 2
      BY <1>1, <1>5, <1>8, <2>3, <2>5, <2>6
    <3> QED BY <3>1, BlankIsFound
  <2>8. SubSeq(b, 1, 1) = <<b[1]>>
    <3>1. b[1] \in Token
      BY <2>4, ElementOfSeq
    <3>2. PICK x : x = b[1]
      OBVIOUS
    <3>3. \A i \in 1 .. 1 : b[i] \in Token
      BY <3>1
    <3>4. /\ SubSeq(b, 1, 1) \in Seq(Token) /\ Len(SubSeq(b, 1, 1)) = 1
          /\ \A i \in 1 .. 1 - 1 + 1 : SubSeq(b, 1, 1)[i] = b[1 + i - 1]
      BY <3>3, SubSeqProperties
    <3>5. SubSeq(b, 1, 1)[1] = x
      BY <3>2, <3>4
    <3>6. PICK v \in Seq(Token) : v = SubSeq(b, 1, 1) /\ Len(v) = 1 /\ v[1] = x
      BY <3>4, <3>5
    <3>7. PICK u \in Seq(Token) : u = <<x>> /\ Len(u) = 1 /\ u[1] = x
      <4>1. x \in Token
        BY <3>1, <3>2
      <4>2. <<x>> \in Seq(Token)
        BY ONLY <4>1
      <4>3. Len(<<x>>) = 1 /\ <<x>>[1] = x
        BY ONLY TRUE
      <4> QED BY <4>2, <4>3
    <3>8. \A i \in 1 .. Len(v) : v[i] = u[i]
      BY <3>6, <3>7
    <3>9. v = u
      BY <3>6, <3>7, <3>8, SeqEqual
    <3> QED BY <3>2, <3>6, <3>7, <3>9
  <2> QED BY <1>1, <2>3, <2>6, <2>7, <2>8
<1> QED BY <1>2, <1>3, <1>7, <1>8 DEF HeaderAt

-----------------------------------------------------------------------------
(* One call of the parser, d being the context with what was read appended. *)
ParseFrom(d) ==
  LET end == HeaderEnd(d.buffer_)
      header == SubSeq(d.buffer_, 1, end - 1)
      rest == Drop(d.buffer_, end)
  IN CASE d.complete_headers_ -> ParseBody(d)
       [] ~d.complete_headers_ /\ end = 0 -> Incomplete(d)
       [] ~d.complete_headers_ /\ end # 0 /\ ~ValidHeader(header) ->
            Malformed([d EXCEPT !.buffer_ = rest])
       [] ~d.complete_headers_ /\ end # 0 /\ ValidHeader(header) ->
            ParseBody([d EXCEPT !.buffer_ = rest, !.complete_headers_ = TRUE,
                                !.request_ = ParsedHeader(header)])

(* All bodies can be told from what follows, and a request that takes all   *)
(* there is was handled before another was sent, or is the last. *)
Framed(s, n) ==
  \A i \in 1 .. Len(s) : /\ WellFramed(s[i])
                         /\ TakesAll(s[i]) /\ i < Len(s) => i <= n

(* d waits for requests of the stream s that the parser can tell apart. *)
Waiting(d, s, n, w) ==
  /\ s \in Seq(HttpRequest) /\ w \in Seq(Token) /\ n \in Nat /\ Framed(s, n)
  /\ d \in Context /\ ~d.complete_request_

LEMMA NextIsFramed ==
  ASSUME NEW s \in Seq(HttpRequest), NEW n \in Nat, n < Len(s), Framed(s, n)
  PROVE  /\ s[n + 1] \in HttpRequest /\ WellFramed(s[n + 1])
         /\ TakesAll(s[n + 1]) => n + 1 = Len(s)
<1>1. Len(s) \in Nat /\ n + 1 \in 1 .. Len(s)
  BY LenProperties
<1>2. s[n + 1] \in HttpRequest
  BY <1>1, ElementOfSeq
<1>3. /\ WellFramed(s[n + 1])
      /\ TakesAll(s[n + 1]) /\ n + 1 < Len(s) => n + 1 <= n
  BY <1>1 DEF Framed
<1> QED BY <1>1, <1>2, <1>3

LEMMA InsideParsed ==
  ASSUME NEW d, NEW s, NEW n, NEW w, Waiting(d, s, n, w),
         Inside(d, s, n, d.buffer_ \o w)
  PROVE  Outcome(ParseFrom(d), s, n, w)
<1>1. PICK rest \in Seq(Token) : /\ Follows(s, n + 1, rest)
                                 /\ InBody(d, s[n + 1], d.buffer_ \o w, rest)
  BY DEF Inside
<1>2. /\ s \in Seq(HttpRequest) /\ w \in Seq(Token) /\ d \in Context
      /\ Framed(s, n) /\ ~d.complete_request_
  BY DEF Waiting
<1>3. n + 1 \in 0 .. Len(s) /\ n < Len(s) /\ Len(s) \in Nat
  BY <1>1, <1>2, LenProperties DEF Follows, Inside
<1>4. n \in Nat
  BY DEF Waiting
<1>5. Reading(d, s, n, w)
  BY <1>2, <1>3, <1>4, NextIsFramed DEF Reading, Inside
<1>6. BodyToCome(d, s[n + 1], w, rest)
  BY <1>1 DEF InBody, BodyToCome
<1>7. ParseFrom(d) = ParseBody(d)
  BY DEF ParseFrom, Inside
<1> QED BY <1>1, <1>5, <1>6, <1>7, BodyParsed

LEMMA NothingOfBody ==
  ASSUME NEW c, NEW r \in HttpRequest, NEW w \in Seq(Token), NEW rest \in Seq(Token),
         c \in Context, c.body_ = <<>>, c.content_length_ = 0,
         c.buffer_ \o w = BodyTokens(r) \o rest
  PROVE  BodyToCome(c, r, w, rest)
<1>1. CASE r.framing # "chunked"
  BY <1>1 DEF BodyToCome
<1>2. CASE r.framing = "chunked"
  <2>1. SoFar(r, 0) = <<>>
    BY SoFarFacts
  <2>2. PICK x \in Seq(Token) : x = c.buffer_ \o w
    BY TokenConcat DEF Context
  <2>3. Flat(ChunkSeqs(r), 0) \o x = x
    BY FlatOfNone, ConcatEmptySeq
  <2>4. 0 \in 0 .. Chunks(r)
    BY <1>2, ChunkedBody
  <2>5. AtChunk(r, 0, c.buffer_ \o w, rest)
    BY <2>2, <2>3, <2>4 DEF AtChunk
  <2> QED BY <1>2, <2>1, <2>5 DEF BodyToCome
<1> QED BY <1>1, <1>2

LEMMA BetweenParsed ==
  ASSUME NEW d, NEW s, NEW n, NEW w, Waiting(d, s, n, w),
         d.buffer_ # <<>>, Between(d, s, n, d.buffer_ \o w)
  PROVE  Outcome(ParseFrom(d), s, n, w)
<1>1. /\ s \in Seq(HttpRequest) /\ w \in Seq(Token) /\ d \in Context
      /\ Framed(s, n) /\ ~d.complete_request_
      /\ ~d.complete_headers_ /\ d.content_length_ = 0 /\ d.body_ = <<>>
  BY DEF Waiting, Between
<1>2. PICK b \in Seq(Token) : b = d.buffer_ /\ b # <<>>
  BY <1>1 DEF Context
<1>3. PICK unread \in Seq(Token) : unread = b \o w /\ Follows(s, n, unread)
  BY <1>1, <1>2, TokenConcat DEF Between
<1>4. n # Len(s)
  <2>1. ASSUME n = Len(s) PROVE FALSE
    <3>1. unread = <<>>
      BY <1>1, <1>3, <2>1, NoMoreRequests
    <3>2. PICK later \in Seq(Token) : later = w
      BY <1>1
    <3>3. b \o later = <<>>
      BY <1>3, <3>1, <3>2
    <3>4. b = <<>>
      BY <3>3, ConcatEqualIffEmpty
    <3> QED BY <1>2, <3>4
  <2> QED BY <2>1
<1>5. n \in Nat /\ n < Len(s)
  BY <1>1, <1>3, <1>4, LenProperties DEF Follows
<1>6. PICK rest \in Seq(Token) : /\ unread = Tokens(s[n + 1]) \o rest
                                 /\ Follows(s, n + 1, rest)
  BY <1>1, <1>3, <1>4, NextRequest
<1>7. PICK r \in HttpRequest : /\ r = s[n + 1] /\ WellFramed(r)
                               /\ TakesAll(r) => n + 1 = Len(s)
  BY <1>1, <1>5, NextIsFramed
<1>8. HeaderAt(r, b, w, rest)
  <2>1. b \o w = Tokens(r) \o rest /\ w \in Seq(Token)
    BY <1>1, <1>3, <1>6, <1>7
  <2> QED BY <2>1, HeaderCut
<1>9. CASE Len(b) < 2
  <2>1. ParseFrom(d) = [ok |-> TRUE, context |-> d]
    BY <1>1, <1>2, <1>8, <1>9 DEF ParseFrom, Incomplete, Parsed, HeaderAt
  <2> QED BY <1>1, <2>1 DEF Outcome, AtHand
<1>10. CASE ~(Len(b) < 2)
  <2>1. PICK text : text = SubSeq(b, 1, 1)
    OBVIOUS
  <2>2. ParsedHeader(text) = r /\ (ValidHeader(text) <=> r.valid)
    BY <1>8, <1>10, <2>1, HeaderOf DEF HeaderAt
  <2>3. HeaderEnd(b) = 2 /\ 2 - 1 = 1 /\ 2 # 0
    BY <1>8, <1>10 DEF HeaderAt
  <2>4. PICK q \in Seq(Token) : q = Drop(b, 2) /\ q \o w = BodyTokens(r) \o rest
    BY <1>8, <1>10 DEF HeaderAt
  <2>5. CASE ~r.valid
    <3>1. PICK e : e = [d EXCEPT !.buffer_ = q]
      OBVIOUS
    <3>2. ParseFrom(d) = [ok |-> FALSE, context |-> e]
      BY <1>1, <1>2, <2>1, <2>2, <2>3, <2>4, <2>5, <3>1
      DEF ParseFrom, Malformed, Parsed
    <3>3. e \in Context /\ ~e.complete_request_
      BY <1>1, <3>1 DEF Context
    <3>4. ~s[n + 1].valid
      BY <1>7, <2>5
    <3>5. Outcome([ok |-> FALSE, context |-> e], s, n, w)
      BY <1>5, <3>3, <3>4, MalformedOutcome
    <3> QED BY <3>2, <3>5
  <2>6. CASE r.valid
    <3>1. PICK e : e = [d EXCEPT !.buffer_ = q, !.complete_headers_ = TRUE,
                                 !.request_ = r]
      OBVIOUS
    <3>2. ParseFrom(d) = ParseBody(e)
      BY <1>1, <1>2, <2>1, <2>2, <2>3, <2>4, <2>6, <3>1 DEF ParseFrom
    <3>3. /\ e \in Context /\ ~e.complete_request_ /\ e.complete_headers_
          /\ e.request_ = r /\ e.buffer_ = q /\ e.body_ = <<>>
          /\ e.content_length_ = 0
      BY <1>1, <3>1 DEF Context
    <3>4. Reading(e, s, n, w)
      <4>1. /\ s[n + 1] \in HttpRequest /\ e.request_ = s[n + 1]
            /\ s[n + 1].valid /\ WellFramed(s[n + 1])
            /\ TakesAll(s[n + 1]) => n + 1 = Len(s)
        BY <1>7, <2>6, <3>3
      <4>2. /\ s \in Seq(HttpRequest) /\ e \in Context /\ w \in Seq(Token)
            /\ e.complete_headers_ /\ ~e.complete_request_
        BY <1>1, <3>3
      <4> QED BY <1>5, <4>1, <4>2 DEF Reading
    <3>5. BodyToCome(e, s[n + 1], w, rest)
      <4>1. BodyToCome(e, r, w, rest)
        BY <1>1, <2>4, <3>3, NothingOfBody
      <4> QED BY <1>7, <4>1
    <3>6. Outcome(ParseBody(e), s, n, w)
      BY <1>6, <3>4, <3>5, BodyParsed
    <3> QED BY <3>2, <3>6
  <2> QED BY <2>5, <2>6
<1> QED BY <1>9, <1>10

(* ParseRequest, of a stream cut anywhere. *)
LEMMA RequestParsed ==
  ASSUME NEW c \in Context, ~c.complete_request_, NEW str \in Seq(Token), str # <<>>,
         NEW s \in Seq(HttpRequest), NEW w \in Seq(Token), NEW n \in Nat, Framed(s, n),
         AtHand(c, s, n, (c.buffer_ \o str) \o w)
  PROVE  Outcome(ParseRequest(c, str), s, n, w)
<1>1. PICK b \in Seq(Token) : b = c.buffer_
  BY DEF Context
<1>2. PICK q \in Seq(Token) : q = b \o str
  BY TokenConcat
<1>3. PICK d : d = [c EXCEPT !.buffer_ = q]
  OBVIOUS
<1>4. /\ d \in Context /\ ~d.complete_request_ /\ d.buffer_ = q
      /\ d.complete_headers_ = c.complete_headers_ /\ d.body_ = c.body_
      /\ d.content_length_ = c.content_length_ /\ d.request_ = c.request_
  BY <1>3 DEF Context
<1>5. ParseRequest(c, str) = ParseFrom(d)
  BY <1>1, <1>2, <1>3 DEF ParseRequest, ParseFrom
<1>6. Waiting(d, s, n, w)
  BY <1>4 DEF Waiting
<1>7. CASE Between(c, s, n, (c.buffer_ \o str) \o w)
  <2>1. Between(d, s, n, d.buffer_ \o w)
    BY <1>1, <1>2, <1>4, <1>7 DEF Between
  <2>2. d.buffer_ # <<>>
    BY <1>2, <1>4, ConcatEmptySeq
  <2> QED BY <1>5, <1>6, <2>1, <2>2, BetweenParsed
<1>8. CASE Inside(c, s, n, (c.buffer_ \o str) \o w)
  <2>1. Inside(d, s, n, d.buffer_ \o w)
    BY <1>1, <1>2, <1>4, <1>8 DEF Inside, InBody
  <2> QED BY <1>5, <1>6, <2>1, InsideParsed
<1> QED BY <1>7, <1>8 DEF AtHand

-----------------------------------------------------------------------------
(* The client sends one request more: what was at hand still is, and the    *)
(* new one comes behind it.                                                 *)
SentMore(s, r, t) ==
  /\ t = Append(s, r) /\ t \in Seq(HttpRequest)
  /\ Len(s) \in Nat /\ Len(t) = Len(s) + 1 /\ t[Len(s) + 1] = r
  /\ \A i \in 1 .. Len(s) : t[i] = s[i]

LEMMA SendingMore ==
  ASSUME NEW s \in Seq(HttpRequest), NEW r \in HttpRequest
  PROVE  SentMore(s, r, Append(s, r))
BY AppendProperties, LenProperties DEF SentMore

LEMMA SentBefore ==
  ASSUME NEW s \in Seq(HttpRequest), NEW r \in HttpRequest, NEW t, SentMore(s, r, t)
  PROVE  /\ \A n \in 0 .. Len(s) : Flat(Sent(t), n) = Flat(Sent(s), n)
         /\ Flat(Sent(t), Len(t)) = Flat(Sent(s), Len(s)) \o Tokens(r)
<1>1. Len(s) \in Nat /\ Len(t) = Len(s) + 1 /\ t[Len(s) + 1] = r
  BY DEF SentMore
<1>2. ASSUME NEW i \in 1 .. Len(s) PROVE Sent(t)[i] = Sent(s)[i]
  BY <1>1, <1>2 DEF SentMore, Sent
<1>3. ASSUME NEW n \in 0 .. Len(s) PROVE Flat(Sent(t), n) = Flat(Sent(s), n)
  <2>1. \A i \in 1 .. n : Sent(t)[i] = Sent(s)[i]
    BY <1>1, <1>2
  <2>2. [i \in 1 .. n |-> Sent(t)[i]] = [i \in 1 .. n |-> Sent(s)[i]]
    BY <2>1
  <2> QED BY <2>2 DEF Flat
<1>4. Sent(t)[Len(s) + 1] = Tokens(r)
  BY <1>1 DEF Sent
<1>5. Flat(Sent(t), Len(s) + 1) = Flat(Sent(t), Len(s)) \o Tokens(r)
  <2>1. Sent(t)[Len(s) + 1] \in Seq(Token)
    BY <1>4, BodyTokensFacts
  <2> QED BY <1>1, <1>4, <2>1, FlatOneMore
<1>6. Flat(Sent(t), Len(s)) = Flat(Sent(s), Len(s))
  BY <1>1, <1>3
<1> QED BY <1>1, <1>3, <1>5, <1>6

LEMMA FollowsMore ==
  ASSUME NEW s \in Seq(HttpRequest), NEW r \in HttpRequest, NEW t, SentMore(s, r, t),
         NEW rest \in Seq(Token), NEW n, Follows(s, n, rest)
  PROVE  Follows(t, n, rest \o Tokens(r))
<1>1. n \in 0 .. Len(s) /\ Flat(Sent(s), n) \o rest = Flat(Sent(s), Len(s))
  BY DEF Follows
<1>2. PICK one \in Seq(Token) : one = Tokens(r)
  BY BodyTokensFacts
<1>3. PICK done \in Seq(Token) : done = Flat(Sent(s), n)
  BY <1>1, SentIsSequences, FlatIsSequence, EmptySeq
<1>4. Flat(Sent(t), n) = done /\ Flat(Sent(t), Len(t)) = (done \o rest) \o one
  BY <1>1, <1>2, <1>3, SentBefore
<1>5. Regroups(done, rest, one)
  BY TokenAssociative
<1>6. n \in 0 .. Len(t)
  BY <1>1 DEF SentMore
<1> QED BY <1>2, <1>4, <1>5, <1>6 DEF Follows, Regroups

LEMMA InBodyMore ==
  ASSUME NEW c, NEW r \in HttpRequest, NEW unread \in Seq(Token),
         NEW rest \in Seq(Token), NEW more \in Seq(Token), InBody(c, r, unread, rest)
  PROVE  InBody(c, r, unread \o more, rest \o more)
<1>1. PICK body \in Seq(Token) : body = BodyTokens(r)
  BY BodyTokensFacts
<1>2. Regroups(body, rest, more)
  BY TokenAssociative
<1>3. CASE r.framing = "length"
  BY <1>1, <1>2, <1>3 DEF InBody, Regroups
<1>4. CASE r.framing # "length"
  <2>1. r.framing = "chunked"
    BY <1>4 DEF InBody
  <2>2. PICK k : c.body_ = SoFar(r, k) /\ AtChunk(r, k, unread, rest)
    BY <1>4 DEF InBody
  <2>3. PICK done \in Seq(Token) : done = Flat(ChunkSeqs(r), k)
    <3>1. Sequences(Token, ChunkSeqs(r), Chunks(r))
      BY <2>1, ChunksAreSequences
    <3> QED BY <2>2, <3>1, FlatIsSequence DEF AtChunk
  <2>4. Regroups(done, unread, more)
    BY TokenAssociative
  <2>5. AtChunk(r, k, unread \o more, rest \o more)
    BY <1>1, <1>2, <2>2, <2>3, <2>4 DEF AtChunk, Regroups
  <2> QED BY <2>1, <2>2, <2>5 DEF InBody
<1> QED BY <1>3, <1>4

LEMMA AtHandMore ==
  ASSUME NEW c, NEW s \in Seq(HttpRequest), NEW r \in HttpRequest, NEW n \in Nat,
         NEW unread \in Seq(Token), AtHand(c, s, n, unread)
  PROVE  AtHand(c, Append(s, r), n, unread \o Tokens(r))
<1>1. PICK t : t = Append(s, r) /\ SentMore(s, r, t)
  BY SendingMore
<1>2. PICK one \in Seq(Token) : one = Tokens(r)
  BY BodyTokensFacts
<1>3. CASE Between(c, s, n, unread)
  <2>1. Follows(t, n, unread \o one)
    BY <1>1, <1>2, <1>3, FollowsMore DEF Between
  <2> QED BY <1>1, <1>2, <1>3, <2>1 DEF AtHand, Between
<1>4. CASE Inside(c, s, n, unread)
  <2>1. PICK rest \in Seq(Token) : /\ Follows(s, n + 1, rest)
                                  /\ InBody(c, s[n + 1], unread, rest)
    BY <1>4 DEF Inside
  <2>2. n + 1 \in 1 .. Len(s) /\ n < Len(s) /\ Len(s) \in Nat
    BY <1>1, <1>4 DEF Inside, SentMore
  <2>3. PICK q \in HttpRequest : q = s[n + 1]
    BY <2>2, ElementOfSeq
  <2>4. t[n + 1] = q /\ n < Len(t)
    BY <1>1, <2>2, <2>3 DEF SentMore
  <2>5. PICK after \in Seq(Token) : after = rest \o one /\ Follows(t, n + 1, after)
    BY <1>1, <1>2, <2>1, FollowsMore, TokenConcat
  <2>6. InBody(c, q, unread \o one, after)
    BY <2>1, <2>3, <2>5, InBodyMore
  <2>7. c.complete_headers_ /\ c.request_ = q /\ q.valid
    BY <1>4, <2>3 DEF Inside
  <2>8. Inside(c, t, n, unread \o one)
    BY <2>4, <2>5, <2>6, <2>7 DEF Inside
  <2> QED BY <1>1, <1>2, <2>8 DEF AtHand
<1> QED BY <1>3, <1>4 DEF AtHand

LEMMA FramedMore ==
  ASSUME NEW s \in Seq(HttpRequest), NEW r \in HttpRequest, NEW n \in Nat,
         Framed(s, n), WellFramed(r),
         Len(s) # 0 /\ TakesAll(s[Len(s)]) => Len(s) <= n
  PROVE  Framed(Append(s, r), n)
<1>1. PICK t : t = Append(s, r) /\ SentMore(s, r, t)
  BY SendingMore
<1>2. /\ Len(s) \in Nat /\ Len(t) = Len(s) + 1 /\ t[Len(s) + 1] = r
      /\ \A i \in 1 .. Len(s) : t[i] = s[i]
  BY <1>1 DEF SentMore
<1>3. ASSUME NEW i \in 1 .. Len(t)
      PROVE  WellFramed(t[i]) /\ (TakesAll(t[i]) /\ i < Len(t) => i <= n)
  <2>1. CASE i = Len(s) + 1
    BY <1>2, <2>1
  <2>2. CASE i # Len(s) + 1
    <3>1. i \in 1 .. Len(s) /\ t[i] = s[i]
      BY <1>2, <2>2
    <3>2. WellFramed(s[i]) /\ (TakesAll(s[i]) /\ i < Len(s) => i <= n)
      BY <3>1 DEF Framed
    <3>3. TakesAll(s[i]) /\ i = Len(s) => i <= n
      BY <1>2, <3>1
    <3> QED BY <1>2, <3>1, <3>2, <3>3
  <2> QED BY <2>1, <2>2
<1> QED BY <1>1, <1>3 DEF Framed

-----------------------------------------------------------------------------
(* HttpConnection.                                                          *)
(* What the buffers on the way to the peer hold: units of answers, and the  *)
(* zeros of a fresh vector. *)
Cell == {Zero} \cup Unit

OutputTypes == /\ BufferOf(Cell, send_buf_)
               /\ sndbuf \in Seq(Cell) /\ Len(sndbuf) <= SendRoom
               /\ received \in Seq(Cell)
               /\ \E T : handled \in Seq(T)
               /\ events \subseteq {"IN", "OUT"}

(* A connection whose descriptor is closed has no events left to handle:    *)
(* without this OutputIsWatched is not inductive, as an end of file read    *)
(* after the close would bring state_ back to "Disconected".                *)
GoneIsQuiet == state_ = "Gone" => events = {}

OutInv == OutputTypes /\ GoneIsQuiet /\ OutputIsWatched /\ AnswersInOrder

LEMMA RoomIsPositive ==
  SendRoom \in Nat /\ SendRoom # 0 /\ ResponseSize \in Nat /\ ResponseSize # 0
BY ConnectionAssumption

LEMMA ResponseIsCells ==
  ASSUME NEW i \in Nat
  PROVE  Response(i) \in Seq(Cell)
<1>1. \A k \in 1 .. ResponseSize : <<i, k>> \in Cell
  BY DEF Cell, Unit
<1> QED BY <1>1, RoomIsPositive DEF Response

LEMMA BadRequestIsCells == BadRequest \in Seq(Cell)
<1>1. <<0, 1>> \in Cell
  BY RoomIsPositive DEF Cell, Unit
<1> QED BY <1>1 DEF BadRequest

(* One write moves bytes from the front of the buffer to the end of what    *)
(* the kernel holds; what it leaves in the buffer found the kernel full. *)
LEMMA WriteKeeps ==
  ASSUME NEW b, BufferOf(Cell, b), WriteNonBlocking(b),
         sndbuf \in Seq(Cell), Len(sndbuf) <= SendRoom, received \in Seq(Cell)
  PROVE  /\ BufferOf(Cell, send_buf_')
         /\ sndbuf' \in Seq(Cell) /\ Len(sndbuf') <= SendRoom
         /\ readablebytes(send_buf_') > 0 => Len(sndbuf') = SendRoom
         /\ (received \o sndbuf') \o PeekAll(send_buf_')
              = (received \o sndbuf) \o PeekAll(b)
<1> DEFINE n == Taken(b)
           front == SubSeq(PeekAll(b), 1, n)
           rest == PeekAll(Retrieve(b, n))
<1>1. /\ sndbuf' = sndbuf \o front /\ send_buf_' = Retrieve(b, n)
  BY DEF WriteNonBlocking
<1>2. Len(sndbuf) \in Nat /\ SendRoom \in Nat
  BY RoomIsPositive, LenProperties
<1>3. /\ readablebytes(b) \in Nat /\ PeekAll(b) \in Seq(Cell)
      /\ Len(PeekAll(b)) = readablebytes(b)
  BY PeekFacts
<1>4. n \in 0 .. readablebytes(b) /\ n <= SendRoom - Len(sndbuf)
      /\ (n < readablebytes(b) => n = SendRoom - Len(sndbuf))
  BY <1>2, <1>3 DEF Taken, Room
<1> HIDE DEF n
<1>5. /\ BufferOf(Cell, Retrieve(b, n))
      /\ readablebytes(Retrieve(b, n)) = readablebytes(b) - n
      /\ PeekAll(b) = front \o rest
  BY <1>4, RetrieveIsFromTheFront
<1>6. front \in Seq(Cell) /\ Len(front) = n
  <2>1. \A i \in 1 .. n : PeekAll(b)[i] \in Cell
    BY <1>3, <1>4, ElementOfSeq
  <2>2. /\ SubSeq(PeekAll(b), 1, n) \in Seq(Cell)
        /\ Len(SubSeq(PeekAll(b), 1, n)) = IF 1 <= n THEN n - 1 + 1 ELSE 0
    BY <1>3, <1>4, <2>1, SubSeqProperties
  <2> QED BY <1>4, <2>2
<1>7. rest \in Seq(Cell)
  BY <1>5, PeekFacts
<1> HIDE DEF front, rest
<1>8. sndbuf \o front \in Seq(Cell) /\ Len(sndbuf \o front) = Len(sndbuf) + n
  BY <1>6, ConcatProperties
<1>9. (received \o (sndbuf \o front)) \o rest = (received \o sndbuf) \o (front \o rest)
  <2>1. received \o sndbuf \in Seq(Cell)
    BY ConcatProperties
  <2>2. received \o (sndbuf \o front) = (received \o sndbuf) \o front
    BY <1>6, ConcatAssociative
  <2>3. ((received \o sndbuf) \o front) \o rest = (received \o sndbuf) \o (front \o rest)
    <3>1. PICK out \in Seq(Cell) : out = received \o sndbuf
      BY <2>1
    <3>2. (out \o front) \o rest = out \o (front \o rest)
      BY <1>6, <1>7, ConcatAssociative
    <3> QED BY <3>1, <3>2
  <2> QED BY <2>2, <2>3
<1>10. PeekAll(send_buf_') = rest
  BY <1>1 DEF rest
<1>11. readablebytes(send_buf_') > 0 => Len(sndbuf') = SendRoom
  BY <1>1, <1>2, <1>3, <1>4, <1>5, <1>8
<1>12. Len(sndbuf') <= SendRoom
  BY <1>1, <1>2, <1>4, <1>8
<1> QED BY <1>1, <1>5, <1>8, <1>9, <1>10, <1>11, <1>12

(* Send appends msg to what is on its way. *)
LEMMA SendKeeps ==
  ASSUME OutInv, NEW msg \in Seq(Cell), Send(msg)
  PROVE  /\ BufferOf(Cell, send_buf_')
         /\ sndbuf' \in Seq(Cell) /\ Len(sndbuf') <= SendRoom
         /\ readablebytes(send_buf_') > 0 => Len(sndbuf') = SendRoom /\ writing'
         /\ (received \o sndbuf') \o PeekAll(send_buf_')
              = Answers(Len(handled)) \o msg
<1>1. PICK b : b = AppendBytes(send_buf_, msg)
  OBVIOUS
<1>2. WriteNonBlocking(b) /\ writing' = (writing \/ readablebytes(send_buf_') > 0)
  BY <1>1 DEF Send
<1>3. /\ BufferOf(Cell, send_buf_) /\ sndbuf \in Seq(Cell)
      /\ Len(sndbuf) <= SendRoom /\ received \in Seq(Cell) /\ Zero \in Cell
      /\ (received \o sndbuf) \o PeekAll(send_buf_) = Answers(Len(handled))
  BY DEF OutInv, OutputTypes, Cell, AnswersInOrder
<1>4. BufferOf(Cell, b) /\ PeekAll(b) = PeekAll(send_buf_) \o msg
  BY <1>1, <1>3, AppendIsAtTheEnd
<1>5. /\ BufferOf(Cell, send_buf_')
      /\ sndbuf' \in Seq(Cell) /\ Len(sndbuf') <= SendRoom
      /\ readablebytes(send_buf_') > 0 => Len(sndbuf') = SendRoom
      /\ (received \o sndbuf') \o PeekAll(send_buf_')
           = (received \o sndbuf) \o PeekAll(b)
  BY <1>2, <1>3, <1>4, WriteKeeps
<1>6. (received \o sndbuf) \o (PeekAll(send_buf_) \o msg)
        = ((received \o sndbuf) \o PeekAll(send_buf_)) \o msg
  <2>1. received \o sndbuf \in Seq(Cell)
    BY <1>3, ConcatProperties
  <2>2. PICK out \in Seq(Cell) : out = received \o sndbuf
    BY <2>1
  <2>3. PICK kept \in Seq(Cell) : kept = PeekAll(send_buf_)
    BY <1>3, PeekFacts
  <2>4. (out \o kept) \o msg = out \o (kept \o msg)
    BY ConcatAssociative
  <2> QED BY <2>2, <2>3, <2>4
<1> QED BY <1>2, <1>3, <1>4, <1>5, <1>6

(* What the application is asked next has its answer behind the others. *)
LEMMA AnswersOneMore ==
  ASSUME OutInv, NEW x, handled' = Append(handled, x), NEW msg \in Seq(Cell),
         msg = IF x.ok THEN Response(Len(handled) + 1) ELSE BadRequest
  PROVE  /\ AnswersInOrder' <=> (received' \o sndbuf') \o PeekAll(send_buf_')
                                 = Answers(Len(handled)) \o msg
         /\ \E T : handled' \in Seq(T)
<1>1. PICK T : handled \in Seq(T)
  BY DEF OutInv, OutputTypes
<1>2. PICK h : h = handled'
  OBVIOUS
<1> DEFINE n == Len(handled)
<1>3. n \in Nat /\ h \in Seq(T \cup {x}) /\ Len(h) = n + 1
      /\ h[n + 1] = x /\ \A i \in 1 .. n : h[i] = handled[i]
  <2>1. handled \in Seq(T \cup {x}) /\ Len(handled) \in Nat
    BY <1>1
  <2> QED BY <1>2, <2>1, AppendProperties
<1>4. PICK ss : ss = [i \in 1 .. n |-> Answer(i)]
  OBVIOUS
<1>5. PICK tt : tt = [i \in 1 .. n + 1 |->
                        IF h[i].ok THEN Response(i) ELSE BadRequest]
  OBVIOUS
<1>6. FlattenSeq(ss) = Answers(n)
  BY <1>4 DEF Answers
<1>7. FlattenSeq(tt) = Answers(Len(handled))'
  BY <1>2, <1>3, <1>5 DEF Answers, Answer, Response, BadRequest
<1> HIDE DEF n
<1>8. /\ Len(ss) = n /\ Len(tt) = n + 1 /\ (n = 0 => ss = <<>>)
      /\ \A i \in 1 .. n : tt[i] = ss[i]
      /\ tt[n + 1] = msg
  BY <1>3, <1>4, <1>5 DEF Answer, n
<1>9. FlattenSeq(tt) = FlattenSeq(ss) \o tt[n + 1]
  <2>1. OneMore(ss, tt)
    BY <1>3, <1>8 DEF OneMore
  <2>2. Len(tt) = n + 1 /\ tt[Len(tt)] \in Seq(Cell)
    BY <1>8
  <2> QED BY <2>1, <2>2, FlattenOneMore
<1>10. Answers(Len(handled))' = Answers(n) \o msg
  BY <1>6, <1>7, <1>8, <1>9
<1>11. AnswersInOrder' <=> (received' \o sndbuf') \o PeekAll(send_buf_')
                             = Answers(Len(handled))'
  BY DEF AnswersInOrder
<1> QED BY <1>2, <1>3, <1>10, <1>11 DEF n

-----------------------------------------------------------------------------
LEMMA InitOutput == Init => OutInv
<1> SUFFICES ASSUME Init PROVE OutInv
  OBVIOUS
<1>1. Zero \in Cell
  BY DEF Cell
<1>2. /\ BufferOf(Cell, send_buf_) /\ PeekAll(send_buf_) = <<>>
      /\ readablebytes(send_buf_) = 0
  BY <1>1, NewBufferIsEmpty DEF Init
<1>3. OutputTypes
  <2>1. <<>> \in Seq(Cell) /\ Len(<<>>) = 0
    OBVIOUS
  <2> QED BY <1>2, <2>1, RoomIsPositive DEF Init, OutputTypes
<1>4. AnswersInOrder
  <2>1. PICK ss : ss = [i \in 1 .. 0 |-> Answer(i)]
    OBVIOUS
  <2>2. ss = <<>>
    BY <2>1
  <2>3. Answers(0) = <<>>
    BY <2>1, <2>2, FlattenOfNone DEF Answers
  <2>4. (<<>> \o <<>>) \o <<>> = <<>>
    OBVIOUS
  <2> QED BY <1>2, <2>3, <2>4 DEF Init, AnswersInOrder
<1> QED BY <1>2, <1>3, <1>4 DEF Init, OutInv, GoneIsQuiet, OutputIsWatched

LEMMA AnswersStay ==
  ASSUME handled' = handled
  PROVE  Answers(Len(handled))' = Answers(Len(handled))
<1>1. PICK ss : ss = [i \in 1 .. Len(handled) |-> Answer(i)]
  OBVIOUS
<1>2. ss = [i \in 1 .. Len(handled') |-> Answer(i)']
  BY <1>1 DEF Answer, Response, BadRequest
<1> QED BY <1>1, <1>2 DEF Answers, Answer, Response, BadRequest

(* A step that neither writes nor hands anything to the application. *)
LEMMA QuietStep ==
  ASSUME OutInv, UNCHANGED <<received, handled, outVars>>,
         events' \subseteq {"IN", "OUT"}, GoneIsQuiet',
         state_ = "Gone" => state_' = "Gone",
         OutputIsWatched'
  PROVE  OutInv'
<1>1. OutputTypes'
  BY DEF OutInv, OutputTypes, outVars
<1>2. AnswersInOrder'
  BY AnswersStay DEF OutInv, AnswersInOrder, outVars
<1> QED BY <1>1, <1>2 DEF OutInv

LEMMA ReceiveKeeps == OutInv /\ PeerReceive => OutInv'
<1> SUFFICES ASSUME OutInv, PeerReceive PROVE OutInv'
  OBVIOUS
<1>1. /\ received \in Seq(Cell) /\ sndbuf \in Seq(Cell) /\ sndbuf # <<>>
      /\ PeekAll(send_buf_) \in Seq(Cell) /\ Len(sndbuf) <= SendRoom
  BY PeekFacts DEF OutInv, OutputTypes, PeerReceive
<1>2. /\ received' = Append(received, Head(sndbuf)) /\ sndbuf' = Tail(sndbuf)
      /\ UNCHANGED <<handled, send_buf_, writing, events, state_>>
  BY DEF PeerReceive
<1>3. /\ Head(sndbuf) \in Cell /\ Tail(sndbuf) \in Seq(Cell)
      /\ Len(Tail(sndbuf)) = Len(sndbuf) - 1 /\ Len(sndbuf) \in Nat
  BY <1>1, HeadTailProperties
<1>4. received' \in Seq(Cell) /\ sndbuf' \in Seq(Cell) /\ Len(sndbuf') <= SendRoom
  <2>1. Append(received, Head(sndbuf)) \in Seq(Cell)
    BY <1>1, <1>3, AppendProperties
  <2> QED BY <1>1, <1>2, <1>3, <2>1, RoomIsPositive
<1>5. OutputTypes'
  BY <1>2, <1>4 DEF OutInv, OutputTypes
<1>6. received' \o sndbuf' = received \o sndbuf
  <2>1. received' = received \o <<Head(sndbuf)>>
    BY <1>1, <1>2, <1>3, AppendIsConcat
  <2>2. <<Head(sndbuf)>> \in Seq(Cell)
    BY <1>3
  <2>3. (received \o <<Head(sndbuf)>>) \o Tail(sndbuf)
          = received \o (<<Head(sndbuf)>> \o Tail(sndbuf))
    BY <1>1, <1>3, <2>2, ConcatAssociative
  <2>4. <<Head(sndbuf)>> \o Tail(sndbuf) = sndbuf
    <3>1. SubSeq(sndbuf, 1, Len(sndbuf)) = <<sndbuf[1]>> \o SubSeq(sndbuf, 2, Len(sndbuf))
      <4>1. 1 \in 1 .. Len(sndbuf) /\ Len(sndbuf) \in 1 .. Len(sndbuf) /\ 1 + 1 = 2
        BY <1>1, <1>3, EmptySeq
      <4> QED BY <1>1, <4>1, SubSeqRecursiveFirst
    <3>2. SubSeq(sndbuf, 1, Len(sndbuf)) = sndbuf
      BY <1>1, SubSeqFull
    <3>3. Tail(sndbuf) = SubSeq(sndbuf, 2, Len(sndbuf))
      BY <1>1, TailIsSubSeq
    <3>4. Head(sndbuf) = sndbuf[1]
      BY <1>1
    <3> QED BY <3>1, <3>2, <3>3, <3>4
  <2> QED BY <1>2, <2>1, <2>3, <2>4
<1>7. AnswersInOrder'
  BY <1>2, <1>6, AnswersStay DEF OutInv, AnswersInOrder
<1>8. OutputIsWatched'
  BY <1>2 DEF OutInv, OutputIsWatched
<1>9. GoneIsQuiet'
  BY <1>2 DEF OutInv, GoneIsQuiet
<1> QED BY <1>5, <1>7, <1>8, <1>9 DEF OutInv

LEMMA PollKeeps == OutInv /\ Poll => OutInv'
<1> SUFFICES ASSUME OutInv, Poll PROVE OutInv'
  OBVIOUS
<1>1. /\ state_ # "Gone" /\ events' \subseteq {"IN", "OUT"}
      /\ UNCHANGED <<received, handled, outVars, state_>>
  BY DEF Poll, Reported, peerVars
<1>2. OutputIsWatched'
  BY <1>1 DEF OutInv, OutputIsWatched, outVars
<1>3. GoneIsQuiet'
  BY <1>1 DEF GoneIsQuiet
<1> QED BY <1>1, <1>2, <1>3, QuietStep

(* EPOLLIN: what is read changes no output before onMessage answers it. *)
LEMMA ReadsKeep ==
  ASSUME OutInv, Reads
  PROVE  /\ state_ # "Gone" /\ events' \subseteq {"IN", "OUT"}
         /\ received' = received
BY DEF Reads, OutInv, OutputTypes, GoneIsQuiet, peerVars

LEMMA SilentReadKeeps ==
  ASSUME OutInv, Reads, UNCHANGED <<handled, outVars>>, state_' # "Gone"
  PROVE  OutInv'
<1>1. OutputIsWatched'
  BY ReadsKeep DEF OutInv, OutputIsWatched, outVars
<1>2. GoneIsQuiet' /\ UNCHANGED <<received, handled, outVars>>
  BY ReadsKeep DEF GoneIsQuiet
<1> QED BY <1>1, <1>2, ReadsKeep, QuietStep

(* EPOLLIN: an answer is appended to the output in the step that hands the  *)
(* request to the application. *)
LEMMA AnswerKeeps ==
  ASSUME OutInv, Reads, NEW p, HandledAs(p), NEW msg \in Seq(Cell), Send(msg),
         msg = IF p.ok THEN Response(Len(handled) + 1) ELSE BadRequest,
         state_' # "Gone"
  PROVE  OutInv'
<1>1. PICK x : /\ handled' = Append(handled, x)
               /\ x = [ok |-> p.ok, request |-> p.context.request_,
                       body |-> p.context.body_]
  BY DEF HandledAs
<1>2. msg = IF x.ok THEN Response(Len(handled) + 1) ELSE BadRequest
  BY <1>1
<1>3. /\ BufferOf(Cell, send_buf_')
      /\ sndbuf' \in Seq(Cell) /\ Len(sndbuf') <= SendRoom
      /\ readablebytes(send_buf_') > 0 => Len(sndbuf') = SendRoom /\ writing'
      /\ (received \o sndbuf') \o PeekAll(send_buf_')
           = Answers(Len(handled)) \o msg
  BY SendKeeps
<1>4. /\ AnswersInOrder' <=> (received' \o sndbuf') \o PeekAll(send_buf_')
                               = Answers(Len(handled)) \o msg
      /\ \E T : handled' \in Seq(T)
  BY <1>1, <1>2, AnswersOneMore
<1>5. AnswersInOrder'
  BY <1>3, <1>4, ReadsKeep
<1>6. OutputTypes'
  BY <1>3, <1>4, ReadsKeep DEF OutInv, OutputTypes
<1>7. OutputIsWatched'
  BY <1>3 DEF OutputIsWatched
<1>8. GoneIsQuiet'
  BY DEF GoneIsQuiet
<1> QED BY <1>5, <1>6, <1>7, <1>8 DEF OutInv

LEMMA MessageKeeps == OutInv /\ HandleMessage => OutInv'
<1> SUFFICES ASSUME OutInv, HandleMessage PROVE OutInv'
  OBVIOUS
<1>1. CASE ReadsEof
  BY <1>1, SilentReadKeeps DEF ReadsEof
<1>2. CASE ReadsWhenClosed
  BY <1>2, ReadsKeep, SilentReadKeeps DEF ReadsWhenClosed
<1>3. CASE OnMessage
  <2>1. PICK p : /\ Reads /\ state_ = "Connected"
                 /\ \/ AwaitsMore(p) \/ Refuse(p)
                    \/ \E close \in BOOLEAN : OnRequest(p, close)
    BY <1>3 DEF OnMessage
  <2>2. CASE AwaitsMore(p)
    BY <2>1, <2>2, SilentReadKeeps DEF AwaitsMore
  <2>3. CASE Refuse(p)
    <3>1. HandledAs(p) /\ Send(BadRequest) /\ state_' # "Gone" /\ ~p.ok
      BY <2>3 DEF Refuse
    <3> QED BY <2>1, <3>1, BadRequestIsCells, AnswerKeeps
  <2>4. CASE \E close \in BOOLEAN : OnRequest(p, close)
    <3>1. /\ HandledAs(p) /\ Send(Response(Len(handled) + 1)) /\ p.ok
          /\ state_' # "Gone"
      BY <2>1, <2>4 DEF OnRequest
    <3>2. Response(Len(handled) + 1) \in Seq(Cell)
      <4>1. Len(handled) + 1 \in Nat
        BY DEF OutInv, OutputTypes
      <4> QED BY <4>1, ResponseIsCells
    <3> QED BY <2>1, <3>1, <3>2, AnswerKeeps
  <2> QED BY <2>1, <2>2, <2>3, <2>4
<1> QED BY <1>1, <1>2, <1>3 DEF HandleMessage

(* EPOLLOUT. *)
LEMMA HandleWriteKeeps == OutInv /\ HandleWrite => OutInv'
<1> SUFFICES ASSUME OutInv, HandleWrite PROVE OutInv'
  OBVIOUS
<1>1. /\ events' = {} /\ WriteNonBlocking(send_buf_)
      /\ writing' = (readablebytes(send_buf_') > 0)
      /\ UNCHANGED <<received, handled>>
  BY DEF HandleWrite, peerVars
<1>2. /\ BufferOf(Cell, send_buf_')
      /\ sndbuf' \in Seq(Cell) /\ Len(sndbuf') <= SendRoom
      /\ readablebytes(send_buf_') > 0 => Len(sndbuf') = SendRoom
      /\ (received \o sndbuf') \o PeekAll(send_buf_')
           = (received \o sndbuf) \o PeekAll(send_buf_)
  BY <1>1, WriteKeeps DEF OutInv, OutputTypes
<1>3. OutputTypes'
  BY <1>1, <1>2 DEF OutInv, OutputTypes
<1>4. AnswersInOrder'
  BY <1>1, <1>2, AnswersStay DEF OutInv, AnswersInOrder
<1>5. OutputIsWatched'
  BY <1>1 DEF OutputIsWatched
<1>6. GoneIsQuiet'
  BY <1>1 DEF GoneIsQuiet
<1> QED BY <1>3, <1>4, <1>5, <1>6 DEF OutInv

LEMMA NextKeepsOutput == OutInv /\ [Next]_vars => OutInv'
<1> SUFFICES ASSUME OutInv, [Next]_vars PROVE OutInv'
  OBVIOUS
<1>t. events \subseteq {"IN", "OUT"} /\ GoneIsQuiet /\ OutputIsWatched
  BY DEF OutInv, OutputTypes
<1>1. ASSUME NEW r \in Request, PeerSend(r) PROVE OutInv'
  BY <1>1, <1>t, QuietStep DEF PeerSend, GoneIsQuiet, OutputIsWatched, outVars
<1>2. CASE PeerShutdown
  BY <1>2, <1>t, QuietStep DEF PeerShutdown, GoneIsQuiet, OutputIsWatched, outVars
<1>3. ASSUME NEW n \in 1 .. Len(wire), Deliver(n) PROVE OutInv'
  BY <1>3, <1>t, QuietStep DEF Deliver, GoneIsQuiet, OutputIsWatched, outVars
<1>4. CASE DeliverFin
  BY <1>4, <1>t, QuietStep DEF DeliverFin, GoneIsQuiet, OutputIsWatched, outVars
<1>5. CASE PeerReceive
  BY <1>5, ReceiveKeeps
<1>6. CASE Poll
  BY <1>6, PollKeeps
<1>7. CASE HandleMessage
  BY <1>7, MessageKeeps
<1>8. CASE HandleWrite
  BY <1>8, HandleWriteKeeps
<1>9. CASE HandleActiveClose
  BY <1>9, <1>t, QuietStep
  DEF HandleActiveClose, GoneIsQuiet, OutputIsWatched, outVars, peerVars
<1>10. CASE Release
  BY <1>10, <1>t, QuietStep
  DEF Release, GoneIsQuiet, OutputIsWatched, outVars, peerVars
<1>11. CASE UNCHANGED vars
  BY <1>11, <1>t, QuietStep
  DEF vars, GoneIsQuiet, OutputIsWatched, outVars, peerVars
<1> QED
  BY <1>1, <1>2, <1>3, <1>4, <1>5, <1>6, <1>7, <1>8, <1>9, <1>10, <1>11
  DEF Next, Loop

LEMMA OutputInvariant == Spec => []OutInv
BY InitOutput, NextKeepsOutput, PTL DEF Spec

-----------------------------------------------------------------------------
(* Output is neither lost, repeated nor reordered by short writes, at any   *)
(* capacity of the kernel's buffer and for answers of any length, while the *)
(* vector moves and grows (TcpConnection.cpp:125-205, Buffer.cpp:15-36).    *)
THEOREM AnswersKeepTheirOrder == Spec => []AnswersInOrder
<1>1. OutInv => AnswersInOrder
  BY DEF OutInv
<1> QED BY <1>1, OutputInvariant, PTL

(* What a short write leaves is not forgotten: as long as something is      *)
(* unsent, whatever the kernel's buffer holds and however answers follow    *)
(* one another, the channel listens for EPOLLOUT, without which HandleWrite *)
(* is never called (TcpConnection.cpp:109, 131).                            *)
THEOREM UnsentIsWatched == Spec => []OutputIsWatched
<1>1. OutInv => OutputIsWatched
  BY DEF OutInv
<1> QED BY <1>1, OutputInvariant, PTL

-----------------------------------------------------------------------------
(* What was answered is of the requests handled so far. *)
Units(n) == (0 .. n) \X (1 .. ResponseSize)

LEMMA AnswersAreOf ==
  ASSUME NEW n \in Nat
  PROVE  Answers(n) \in Seq(Units(n))
<1>1. PICK f : f = [i \in 1 .. n |-> Answer(i)]
  OBVIOUS
<1>2. ASSUME NEW i \in 1 .. n PROVE f[i] \in Seq(Units(n))
  <2>1. CASE handled[i].ok
    <3>1. \A k \in 1 .. ResponseSize : <<i, k>> \in Units(n)
      BY RoomIsPositive DEF Units
    <3>2. Response(i) \in Seq(Units(n))
      BY <3>1, RoomIsPositive DEF Response
    <3> QED BY <1>1, <2>1, <3>2 DEF Answer
  <2>2. CASE ~handled[i].ok
    <3>1. <<0, 1>> \in Units(n)
      BY RoomIsPositive DEF Units
    <3> QED BY <1>1, <2>2, <3>1 DEF Answer, BadRequest
  <2> QED BY <2>1, <2>2
<1>3. Sequences(Units(n), f, n) /\ n \in 0 .. n
  BY <1>2 DEF Sequences
<1>4. Flat(f, n) \in Seq(Units(n))
  BY <1>3, FlatIsSequence
<1>5. [i \in 1 .. n |-> f[i]] = [i \in 1 .. n |-> Answer(i)]
  BY <1>1
<1> QED BY <1>4, <1>5 DEF Flat, Answers

LEMMA FrontIsOf ==
  ASSUME NEW S, NEW T, NEW x \in Seq(T), NEW y \in Seq(T), x \o y \in Seq(S)
  PROVE  x \in Seq(S) /\ y \in Seq(S)
<1>1. PICK z \in Seq(S) : z = x \o y
  OBVIOUS
<1>2. /\ Len(x) \in Nat /\ Len(y) \in Nat /\ Len(z) = Len(x) + Len(y)
      /\ \A i \in 1 .. Len(x) + Len(y) :
           z[i] = IF i <= Len(x) THEN x[i] ELSE y[i - Len(x)]
  BY <1>1, ConcatProperties, LenProperties
<1>3. \A i \in 1 .. Len(z) : z[i] \in S
  BY ElementOfSeq
<1>4. \A i \in 1 .. Len(x) : x[i] \in S
  <2>1. ASSUME NEW i \in 1 .. Len(x) PROVE x[i] \in S
    <3>1. i \in 1 .. Len(x) + Len(y) /\ i <= Len(x)
      BY <1>2
    <3> QED BY <1>2, <1>3, <3>1
  <2> QED BY <2>1
<1>5. \A i \in 1 .. Len(y) : y[i] \in S
  <2>1. ASSUME NEW i \in 1 .. Len(y) PROVE y[i] \in S
    <3>1. PICK j \in Nat : j = Len(x) + i
      BY <1>2
    <3>2. j \in 1 .. Len(x) + Len(y) /\ ~(j <= Len(x)) /\ j - Len(x) = i
      BY <1>2, <3>1
    <3> QED BY <1>2, <1>3, <3>2
  <2> QED BY <2>1
<1> QED BY <1>2, <1>4, <1>5, LenProperties

LEMMA OutputIsOf ==
  ASSUME OutInv
  PROVE  /\ Len(handled) \in Nat
         /\ received \in Seq(Units(Len(handled))) /\ sndbuf \in Seq(Units(Len(handled)))
<1>1. PICK n \in Nat : n = Len(handled)
  BY LenProperties DEF OutInv, OutputTypes
<1>2. PICK got \in Seq(Cell) : got = received
  BY DEF OutInv, OutputTypes
<1>3. PICK held \in Seq(Cell) : held = sndbuf
  BY DEF OutInv, OutputTypes
<1>4. PICK kept \in Seq(Cell) : kept = PeekAll(send_buf_)
  BY PeekFacts DEF OutInv, OutputTypes
<1>5. PICK out \in Seq(Cell) : out = got \o held
  BY ConcatProperties
<1>6. out \o kept \in Seq(Units(n))
  BY <1>1, <1>2, <1>3, <1>4, <1>5, AnswersAreOf DEF OutInv, AnswersInOrder
<1>7. out \in Seq(Units(n))
  BY <1>6, FrontIsOf
<1>8. got \in Seq(Units(n)) /\ held \in Seq(Units(n))
  BY <1>5, <1>7, FrontIsOf
<1> QED BY <1>1, <1>2, <1>3, <1>8

(* An answer that arrived was given. *)
LEMMA AnsweredIsHandled ==
  ASSUME OutInv, NEW i \in Nat, HasAnswer(i)
  PROVE  i <= Len(handled)
<1>1. PICK n \in Nat : n = Len(handled)
  BY OutputIsOf
<1>2. PICK got \in Seq(Units(n)) : got = received
  BY <1>1, OutputIsOf
<1>3. 1 \in 1 .. ResponseSize
  BY RoomIsPositive
<1>4. <<i, 1>> \in ToSet(Response(i))
  <2>1. PICK f : f = Response(i)
    OBVIOUS
  <2>2. DOMAIN f = 1 .. ResponseSize /\ f[1] = <<i, 1>>
    BY <1>3, <2>1 DEF Response
  <2> QED BY <1>3, <2>1, <2>2 DEF ToSet
<1>5. PICK k \in 1 .. Len(got) : got[k] = <<i, 1>>
  <2>1. <<i, 1>> \in ToSet(got)
    BY <1>2, <1>4 DEF HasAnswer
  <2> QED BY <2>1 DEF ToSet
<1>6. <<i, 1>> \in Units(n)
  BY <1>5, ElementOfSeq
<1> QED BY <1>1, <1>6 DEF Units

-----------------------------------------------------------------------------
(* The input of a connection.  While it is Connected, what the parser has   *)
(* in its buffer and what is on its way to it continue the stream of the    *)
(* requests sent, from where the context stands: without this               *)
(* RequestsAreWhole says nothing of the request that is next.               *)
Unread == (context_.buffer_ \o rcvbuf) \o wire

InputTypes ==
  /\ pipelines \in BOOLEAN
  /\ sent \in Seq(Request) /\ Len(sent) <= MaxRequests
  /\ wire \in Seq(Token) /\ rcvbuf \in Seq(Token)
  /\ context_ \in Context /\ ~context_.complete_request_
  /\ fin \in {"none", "sent", "arrived"}
  /\ state_ \in {"Connected", "Disconected", "Gone"}

StreamContinues ==
  state_ = "Connected" => AtHand(context_, sent, Len(handled), Unread)

InputInv == /\ InputTypes /\ RequestsAreWhole /\ StreamContinues
            /\ Framed(sent, Len(handled))

(* What the two findings about the parser take away: fresh memory may not   *)
(* be zero (HttpContext.cpp:17), and a body with a Content-Length on a      *)
(* request that closes may not come with its headers (HttpContext.cpp:94).  *)
(* The third is about the client: it sends no body it says nothing of.      *)
HeapIsZero == HeapFlag = {FALSE}
ClosingBodiesAreEmpty == \A r \in Request : ClosesEmpty(r)
BodiesAreDelimited == \A r \in Request : Delimited(r)

LEMMA SentIsRequests ==
  ASSUME InputTypes
  PROVE  sent \in Seq(HttpRequest) /\ Len(sent) \in Nat /\ MaxRequests \in Nat
BY ConnectionAssumption, LenProperties DEF InputTypes

LEMMA NothingIsAtHand ==
  ASSUME NEW none, none = <<>>
  PROVE  AtHand(NewContext(FALSE), none, 0, none)
<1>1. PICK c : c = NewContext(FALSE)
  OBVIOUS
<1>2. ~c.complete_headers_ /\ c.content_length_ = 0 /\ c.body_ = <<>>
  BY <1>1 DEF NewContext
<1>3. Len(none) = 0
  OBVIOUS
<1>4. Flat(Sent(none), 0) \o none = Flat(Sent(none), 0)
  BY FlatOfNone
<1>5. Follows(none, 0, none)
  BY <1>3, <1>4 DEF Follows
<1> QED BY <1>1, <1>2, <1>5 DEF AtHand, Between

LEMMA NewIsContext ==
  /\ NewContext(FALSE) \in Context
  /\ \A b \in Seq(Token) : [NewContext(FALSE) EXCEPT !.buffer_ = b] \in Context
<1>1. <<>> \in Seq(Byte) /\ <<>> \in Seq(Token)
  BY EmptySeq
<1>2. Unset \in HttpRequest
  BY <1>1 DEF Unset, HttpRequest
<1>3. PICK c : c = NewContext(FALSE)
  OBVIOUS
<1>4. c \in Context
  BY <1>1, <1>2, <1>3 DEF NewContext, Context
<1>5. \A b \in Seq(Token) : [c EXCEPT !.buffer_ = b] \in Context
  BY <1>4 DEF Context
<1> QED BY <1>3, <1>4, <1>5

LEMMA InitInput ==
  ASSUME HeapIsZero, Init
  PROVE  InputInv
<1>1. context_ = NewContext(FALSE)
  BY DEF Init, HeapIsZero
<1>2. /\ sent = <<>> /\ wire = <<>> /\ rcvbuf = <<>> /\ handled = <<>>
      /\ fin = "none" /\ state_ = "Connected" /\ pipelines \in BOOLEAN
  BY DEF Init
<1>3. PICK none \in Seq(Token) : none = <<>> /\ Len(none) = 0
  BY EmptySeq
<1>4. context_ \in Context /\ ~context_.complete_request_ /\ context_.buffer_ = none
  BY <1>1, <1>3, NewIsContext DEF NewContext
<1>5. InputTypes
  <2>1. sent \in Seq(Request) /\ Len(sent) = 0
    BY <1>2
  <2>2. wire \in Seq(Token) /\ rcvbuf \in Seq(Token)
    BY <1>2
  <2> QED BY <1>2, <1>4, <2>1, <2>2, ConnectionAssumption DEF InputTypes
<1>6. Unread = none
  BY <1>2, <1>3, <1>4 DEF Unread
<1>7. StreamContinues
  BY <1>1, <1>2, <1>3, <1>6, NothingIsAtHand DEF StreamContinues
<1>8. Len(handled) = 0 /\ Len(sent) = 0 /\ DOMAIN handled = {}
  BY <1>2
<1>9. RequestsAreWhole
  BY <1>8 DEF RequestsAreWhole
<1>10. Framed(sent, Len(handled))
  BY <1>8 DEF Framed
<1> QED BY <1>5, <1>7, <1>9, <1>10 DEF InputInv

(* A step that neither sends, moves nor parses anything. *)
LEMMA InputStays ==
  ASSUME InputInv, UNCHANGED <<pipelines, sent, wire, rcvbuf, context_, handled>>,
         fin' \in {"none", "sent", "arrived"},
         state_' \in {"Connected", "Disconected", "Gone"},
         state_' = "Connected" => state_ = "Connected"
  PROVE  InputInv'
<1>1. InputTypes'
  BY DEF InputInv, InputTypes
<1>2. RequestsAreWhole'
  BY DEF InputInv, RequestsAreWhole
<1>3. StreamContinues'
  BY DEF InputInv, StreamContinues, Unread
<1>4. Framed(sent, Len(handled))'
  BY DEF InputInv
<1> QED BY <1>1, <1>2, <1>3, <1>4 DEF InputInv

(* The client sends a request. *)
LEMMA SendKeepsInput ==
  ASSUME OutInv, InputInv, NEW r \in Request, WellFramed(r), PeerSend(r)
  PROVE  InputInv'
<1>1. /\ Len(sent) < MaxRequests /\ MaySend
      /\ sent' = Append(sent, r) /\ wire' = wire \o Tokens(r)
      /\ UNCHANGED <<pipelines, fin, rcvbuf, context_, state_, handled>>
  BY DEF PeerSend
<1>2. /\ InputTypes /\ RequestsAreWhole /\ StreamContinues
      /\ Framed(sent, Len(handled))
  BY DEF InputInv
<1>3. sent \in Seq(HttpRequest) /\ Len(sent) \in Nat /\ r \in HttpRequest
  BY <1>2, SentIsRequests, ConnectionAssumption
<1>4. PICK n \in Nat : n = Len(handled)
  BY OutputIsOf
<1>5. PICK one \in Seq(Token) : one = Tokens(r)
  BY <1>3, BodyTokensFacts
<1>6. PICK t : /\ t = sent' /\ t = Append(sent, r) /\ SentMore(sent, r, t)
               /\ t \in Seq(Request) /\ Len(t) = Len(sent) + 1
  <2>1. SentMore(sent, r, Append(sent, r))
    BY <1>3, SendingMore
  <2>2. Append(sent, r) \in Seq(Request)
    BY <1>2, AppendProperties DEF InputTypes
  <2> QED BY <1>1, <2>1, <2>2 DEF SentMore
<1>7. InputTypes'
  <2>1. wire' \in Seq(Token)
    BY <1>1, <1>2, <1>5, TokenConcat DEF InputTypes
  <2>2. Len(sent') <= MaxRequests
    BY <1>1, <1>3, <1>6, ConnectionAssumption
  <2> QED BY <1>1, <1>2, <1>6, <2>1, <2>2 DEF InputTypes
<1>8. RequestsAreWhole'
  <2>1. /\ n <= Len(sent)
        /\ \A i \in DOMAIN handled :
             IF handled[i].ok
             THEN handled[i].request = sent[i] /\ handled[i].body = sent[i].body
             ELSE ~sent[i].valid \/ sent[i].framing = "garbled"
    BY <1>2, <1>4 DEF RequestsAreWhole
  <2>2. DOMAIN handled = 1 .. n
    BY <1>4, LenProperties DEF OutInv, OutputTypes
  <2>3. \A i \in 1 .. n : t[i] = sent[i]
    BY <1>3, <1>6, <2>1 DEF SentMore
  <2> QED BY <1>1, <1>3, <1>4, <1>6, <2>1, <2>2, <2>3 DEF RequestsAreWhole
<1>9. StreamContinues'
  <2>1. ASSUME state_ = "Connected" PROVE AtHand(context_, t, n, Unread')
    <3>1. PICK here \in Seq(Token) : here = context_.buffer_ \o rcvbuf
      BY <1>2, TokenConcat DEF InputTypes, Context
    <3>2. PICK w \in Seq(Token) : w = wire
      BY <1>2 DEF InputTypes
    <3>3. PICK unread \in Seq(Token) : unread = here \o w /\ unread = Unread
      BY <3>1, <3>2, TokenConcat DEF Unread
    <3>4. Unread' = unread \o one
      <4>1. Regroups(here, w, one)
        BY TokenAssociative
      <4> QED BY <1>1, <1>5, <3>1, <3>2, <3>3, <4>1 DEF Unread, Regroups
    <3>5. AtHand(context_, sent, n, unread)
      BY <1>2, <1>4, <2>1, <3>3 DEF StreamContinues
    <3>6. AtHand(context_, Append(sent, r), n, unread \o Tokens(r))
      BY <1>3, <3>5, AtHandMore
    <3> QED BY <1>5, <1>6, <3>4, <3>6
  <2> QED BY <1>1, <1>4, <1>6, <2>1 DEF StreamContinues
<1>10. Framed(sent, Len(handled))'
  <2>1. ASSUME Len(sent) # 0, TakesAll(sent[Len(sent)]) PROVE Len(sent) <= n
    <3>1. sent # <<>> /\ Last(sent) = sent[Len(sent)]
      BY <2>1 DEF Last
    <3>2. ~pipelines
      BY <1>1, <2>1, <3>1 DEF MaySend
    <3>3. HasAnswer(Len(sent))
      BY <1>1, <3>1, <3>2 DEF MaySend
    <3> QED BY <1>3, <1>4, <3>3, AnsweredIsHandled
  <2>2. Framed(Append(sent, r), n)
    BY <1>2, <1>3, <1>4, <2>1, FramedMore
  <2> QED BY <1>1, <1>4, <2>2
<1> QED BY <1>7, <1>8, <1>9, <1>10 DEF InputInv

(* The network delivers a segment. *)
LEMMA DeliverKeepsInput ==
  ASSUME InputInv, NEW n \in 1 .. Len(wire), Deliver(n)
  PROVE  InputInv'
<1>1. /\ rcvbuf' = rcvbuf \o SubSeq(wire, 1, n) /\ wire' = Drop(wire, n)
      /\ UNCHANGED <<pipelines, sent, fin, context_, state_, handled>>
  BY DEF Deliver
<1>2. /\ InputTypes /\ RequestsAreWhole /\ StreamContinues
      /\ Framed(sent, Len(handled))
  BY DEF InputInv
<1>3. PICK w \in Seq(Token) : w = wire /\ Len(w) \in Nat
  BY <1>2, LenProperties DEF InputTypes
<1>4. PICK x \in Seq(Token) : x = SubSeq(w, 1, n)
  <2>1. \A i \in 1 .. n : w[i] \in Token
    BY <1>3, ElementOfSeq
  <2>2. SubSeq(w, 1, n) \in Seq(Token)
    BY <1>3, <2>1, SubSeqProperties
  <2> QED BY <2>2
<1>5. PICK y \in Seq(Token) : y = Drop(w, n) /\ x \o y = w
  <2>1. \A i \in n + 1 .. Len(w) : w[i] \in Token
    BY <1>3, ElementOfSeq
  <2>2. SubSeq(w, n + 1, Len(w)) \in Seq(Token)
    BY <1>3, <2>1, SubSeqProperties
  <2>3. SubSeq(w, 1, n) \o SubSeq(w, n + 1, Len(w)) = SubSeq(w, 1, Len(w))
    <3>1. 1 \in 1 .. Len(w) + 1 /\ n \in 1 - 1 .. Len(w) /\ Len(w) \in n .. Len(w)
      BY <1>3
    <3> QED BY <3>1, ConcatAdjacentSubSeq
  <2>4. SubSeq(w, 1, Len(w)) = w
    BY SubSeqFull
  <2> QED BY <1>4, <2>2, <2>3, <2>4 DEF Drop
<1>6. PICK held \in Seq(Token) : held = rcvbuf
  BY <1>2 DEF InputTypes
<1>7. PICK b \in Seq(Token) : b = context_.buffer_
  BY <1>2 DEF InputTypes, Context
<1>8. InputTypes'
  <2>1. rcvbuf' \in Seq(Token) /\ wire' \in Seq(Token)
    BY <1>1, <1>3, <1>4, <1>5, <1>6, TokenConcat
  <2> QED BY <1>1, <1>2, <2>1 DEF InputTypes
<1>9. Unread' = Unread
  <2>1. PICK bh \in Seq(Token) : bh = b \o held
    BY TokenConcat
  <2>2. Regroups(b, held, x) /\ Regroups(bh, x, y)
    BY TokenAssociative
  <2>3. (b \o (held \o x)) \o y = bh \o w
    BY <1>5, <2>1, <2>2 DEF Regroups
  <2> QED BY <1>1, <1>3, <1>4, <1>5, <1>6, <1>7, <2>1, <2>3 DEF Unread
<1>10. StreamContinues'
  BY <1>1, <1>2, <1>9 DEF StreamContinues
<1>11. RequestsAreWhole'
  BY <1>1, <1>2 DEF RequestsAreWhole
<1>12. Framed(sent, Len(handled))'
  BY <1>1, <1>2
<1> QED BY <1>8, <1>10, <1>11, <1>12 DEF InputInv

(* onMessage hands the parser what was read, which then is behind what its  *)
(* buffer holds; what is still to come is wire. *)
LEMMA MessageIsParsed ==
  ASSUME OutInv, InputInv, state_ = "Connected", rcvbuf # <<>>,
         NEW p, p = ParseRequest(context_, rcvbuf)
  PROVE  Outcome(p, sent, Len(handled), wire)
<1>1. /\ InputTypes /\ Framed(sent, Len(handled))
      /\ AtHand(context_, sent, Len(handled), (context_.buffer_ \o rcvbuf) \o wire)
  BY DEF InputInv, StreamContinues, Unread
<1>2. /\ context_ \in Context /\ ~context_.complete_request_
      /\ rcvbuf \in Seq(Token) /\ wire \in Seq(Token)
      /\ sent \in Seq(HttpRequest) /\ Len(handled) \in Nat
  BY <1>1, SentIsRequests, OutputIsOf DEF InputTypes
<1>3. PICK s \in Seq(HttpRequest) : s = sent
  BY <1>2
<1>4. PICK w \in Seq(Token) : w = wire
  BY <1>2
<1>5. PICK str \in Seq(Token) : str = rcvbuf /\ str # <<>>
  BY <1>2
<1>6. PICK c \in Context : c = context_ /\ ~c.complete_request_
  BY <1>2
<1>7. PICK n \in Nat : n = Len(handled)
  BY <1>2
<1>8. Framed(s, n) /\ AtHand(c, s, n, (c.buffer_ \o str) \o w)
  BY <1>1, <1>3, <1>4, <1>5, <1>6, <1>7
<1>9. Outcome(ParseRequest(c, str), s, n, w)
  BY <1>5, <1>6, <1>8, RequestParsed
<1> QED BY <1>3, <1>4, <1>5, <1>6, <1>7, <1>9

(* The read that emptied rcvbuf leaves nothing between buffer_ and wire. *)
LEMMA UnreadAfterRead ==
  ASSUME InputTypes, NEW c \in Context, context_' = c, rcvbuf' = <<>>, wire' = wire
  PROVE  Unread' = c.buffer_ \o wire
<1>1. PICK b \in Seq(Token) : b = c.buffer_
  BY DEF Context
<1>2. b \o <<>> = b
  BY ConcatEmptySeq
<1> QED BY <1>1, <1>2 DEF Unread

(* The application is asked for, or refused, the request that is next. *)
LEMMA HandledOneMore ==
  ASSUME OutInv, InputInv, UNCHANGED <<pipelines, sent, wire, fin>>, rcvbuf' = <<>>,
         NEW p, HandledAs(p), Len(handled) < Len(sent),
         IF p.ok THEN /\ p.context.request_ = sent[Len(handled) + 1]
                      /\ p.context.body_ = sent[Len(handled) + 1].body
                 ELSE \/ ~sent[Len(handled) + 1].valid
                      \/ sent[Len(handled) + 1].framing = "garbled"
  PROVE  /\ RequestsAreWhole' /\ Framed(sent, Len(handled))'
         /\ Len(handled') = Len(handled) + 1
<1>1. PICK x : /\ x = [ok |-> p.ok, request |-> p.context.request_,
                       body |-> p.context.body_]
               /\ handled' = Append(handled, x)
  BY DEF HandledAs
<1>2. PICK T : handled \in Seq(T)
  BY DEF OutInv, OutputTypes
<1>3. PICK n \in Nat : n = Len(handled)
  BY OutputIsOf
<1>4. PICK h : /\ h = handled' /\ Len(h) = n + 1 /\ h[n + 1] = x
               /\ DOMAIN h = 1 .. n + 1
               /\ \A i \in 1 .. n : h[i] = handled[i]
  <2>1. handled \in Seq(T \cup {x})
    BY <1>2
  <2>2. /\ Append(handled, x) \in Seq(T \cup {x})
        /\ Len(Append(handled, x)) = n + 1
        /\ Append(handled, x)[n + 1] = x
        /\ \A i \in 1 .. n : Append(handled, x)[i] = handled[i]
    BY <1>3, <2>1, AppendProperties
  <2>3. DOMAIN Append(handled, x) = 1 .. n + 1
    BY <2>2, LenProperties
  <2> QED BY <1>1, <2>2, <2>3
<1>5. Len(sent) \in Nat /\ n + 1 <= Len(sent)
  BY <1>3, SentIsRequests DEF InputInv
<1>6. \A i \in 1 .. n :
        IF handled[i].ok
        THEN handled[i].request = sent[i] /\ handled[i].body = sent[i].body
        ELSE ~sent[i].valid \/ sent[i].framing = "garbled"
  <2>1. DOMAIN handled = 1 .. n
    BY <1>2, <1>3, LenProperties
  <2> QED BY <2>1 DEF InputInv, RequestsAreWhole
<1>7. IF x.ok THEN x.request = sent[n + 1] /\ x.body = sent[n + 1].body
              ELSE ~sent[n + 1].valid \/ sent[n + 1].framing = "garbled"
  BY <1>1, <1>3
<1>8. ASSUME NEW i \in 1 .. n + 1
      PROVE  IF h[i].ok THEN h[i].request = sent[i] /\ h[i].body = sent[i].body
                        ELSE ~sent[i].valid \/ sent[i].framing = "garbled"
  <2>1. CASE i = n + 1
    BY <1>4, <1>7, <2>1
  <2>2. CASE i # n + 1
    <3>1. i \in 1 .. n
      BY <2>2
    <3> QED BY <1>4, <1>6, <3>1
  <2> QED BY <2>1, <2>2
<1>9. RequestsAreWhole'
  BY <1>4, <1>5, <1>8 DEF RequestsAreWhole
<1>10. Framed(sent, n + 1)
  BY <1>3 DEF InputInv, Framed
<1> QED BY <1>3, <1>4, <1>9, <1>10

LEMMA MessageKeepsInput == OutInv /\ InputInv /\ OnMessage => InputInv'
<1> SUFFICES ASSUME OutInv, InputInv, OnMessage PROVE InputInv'
  OBVIOUS
<1>1. PICK p : /\ p = ParseRequest(context_, rcvbuf)
               /\ \/ AwaitsMore(p) \/ Refuse(p)
                  \/ \E close \in BOOLEAN : OnRequest(p, close)
  BY DEF OnMessage
<1>2. /\ Reads /\ state_ = "Connected" /\ rcvbuf # <<>>
      /\ rcvbuf' = <<>> /\ UNCHANGED <<pipelines, sent, wire, fin>>
  BY DEF OnMessage, Reads, peerVars
<1>3. Outcome(p, sent, Len(handled), wire)
  BY <1>1, <1>2, MessageIsParsed
<1>4. InputTypes /\ p.context \in Context /\ rcvbuf' \in Seq(Token)
  BY <1>2, <1>3, EmptySeq DEF InputInv, Outcome
<1>5. PICK c \in Context : c = p.context
  BY <1>4
<1>6. Len(handled) \in Nat
  BY OutputIsOf
<1>7. CASE AwaitsMore(p)
  <2>1. /\ p.ok /\ ~c.complete_request_ /\ context_' = c
        /\ UNCHANGED <<state_, handled>>
    BY <1>5, <1>7 DEF AwaitsMore
  <2>2. InputTypes'
    BY <1>2, <1>4, <2>1 DEF InputTypes
  <2>3. Unread' = c.buffer_ \o wire
    BY <1>2, <1>4, <2>1, UnreadAfterRead
  <2>4. AtHand(c, sent, Len(handled), c.buffer_ \o wire)
    BY <1>3, <1>5, <2>1 DEF Outcome
  <2>5. StreamContinues'
    BY <1>2, <2>1, <2>3, <2>4 DEF StreamContinues
  <2>6. RequestsAreWhole' /\ Framed(sent, Len(handled))'
    BY <1>2, <2>1 DEF InputInv, RequestsAreWhole
  <2> QED BY <2>2, <2>5, <2>6 DEF InputInv
<1>8. CASE Refuse(p)
  <2>1. ~p.ok /\ HandledAs(p) /\ context_' = c /\ state_' = "Disconected"
    BY <1>5, <1>8 DEF Refuse
  <2>2. /\ ~c.complete_request_ /\ Len(handled) < Len(sent)
        /\ \/ ~sent[Len(handled) + 1].valid
           \/ sent[Len(handled) + 1].framing = "garbled"
    BY <1>3, <1>5, <2>1 DEF Outcome
  <2>3. RequestsAreWhole' /\ Framed(sent, Len(handled))'
    BY <1>2, <2>1, <2>2, HandledOneMore
  <2>4. InputTypes'
    BY <1>2, <1>4, <2>1, <2>2 DEF InputTypes
  <2>5. StreamContinues'
    BY <2>1 DEF StreamContinues
  <2> QED BY <2>3, <2>4, <2>5 DEF InputInv
<1>9. CASE \E close \in BOOLEAN : OnRequest(p, close)
  <2>1. /\ p.ok /\ c.complete_request_ /\ HandledAs(p)
        /\ context_' = Reset(c) /\ state_' \in {"Disconected", state_}
    BY <1>5, <1>9 DEF OnRequest
  <2>2. /\ Len(handled) < Len(sent)
        /\ c.request_ = sent[Len(handled) + 1]
        /\ c.body_ = sent[Len(handled) + 1].body
        /\ Follows(sent, Len(handled) + 1, c.buffer_ \o wire)
    BY <1>3, <1>5, <2>1 DEF Outcome
  <2>3. /\ RequestsAreWhole' /\ Framed(sent, Len(handled))'
        /\ Len(handled') = Len(handled) + 1
    BY <1>2, <1>5, <2>1, <2>2, HandledOneMore
  <2>4. PICK b \in Seq(Token) : b = c.buffer_
    BY DEF Context
  <2>5. PICK d \in Context : d = Reset(c)
    BY <2>4, NewIsContext DEF Reset
  <2>6. /\ ~d.complete_headers_ /\ ~d.complete_request_ /\ d.content_length_ = 0
        /\ d.body_ = <<>> /\ d.buffer_ = b
    BY <2>4, <2>5 DEF Reset, NewContext
  <2>7. InputTypes'
    BY <1>2, <1>4, <2>1, <2>5, <2>6 DEF InputTypes
  <2>8. Unread' = d.buffer_ \o wire
    BY <1>2, <1>4, <2>1, <2>5, UnreadAfterRead
  <2>9. Between(d, sent, Len(handled) + 1, d.buffer_ \o wire)
    BY <2>2, <2>4, <2>6 DEF Between
  <2>10. StreamContinues'
    BY <1>2, <2>1, <2>3, <2>5, <2>8, <2>9 DEF StreamContinues, AtHand
  <2> QED BY <2>3, <2>7, <2>10 DEF InputInv
<1> QED BY <1>1, <1>7, <1>8, <1>9

LEMMA NextKeepsInput ==
  ASSUME BodiesAreDelimited, ClosingBodiesAreEmpty, OutInv, InputInv, [Next]_vars
  PROVE  InputInv'
<1>t. /\ fin \in {"none", "sent", "arrived"}
      /\ state_ \in {"Connected", "Disconected", "Gone"}
  BY DEF InputInv, InputTypes
<1>1. ASSUME NEW r \in Request, PeerSend(r) PROVE InputInv'
  BY <1>1, SendKeepsInput
  DEF BodiesAreDelimited, ClosingBodiesAreEmpty, WellFramed
<1>2. CASE PeerShutdown
  BY <1>2, <1>t, InputStays DEF PeerShutdown
<1>3. ASSUME NEW n \in 1 .. Len(wire), Deliver(n) PROVE InputInv'
  BY <1>3, DeliverKeepsInput
<1>4. CASE DeliverFin
  BY <1>4, <1>t, InputStays DEF DeliverFin
<1>5. CASE PeerReceive
  BY <1>5, <1>t, InputStays DEF PeerReceive
<1>6. CASE Poll
  BY <1>6, <1>t, InputStays DEF Poll, peerVars
<1>7. CASE HandleMessage
  <2>1. CASE ReadsEof \/ ReadsWhenClosed
    <3>1. /\ rcvbuf' = <<>> /\ state_' = "Disconected"
          /\ UNCHANGED <<pipelines, sent, wire, fin, context_, handled>>
      BY <2>1 DEF ReadsEof, ReadsWhenClosed, Reads, peerVars
    <3>2. rcvbuf' \in Seq(Token)
      BY <3>1, EmptySeq
    <3> QED BY <3>1, <3>2 DEF InputInv, InputTypes, StreamContinues, RequestsAreWhole
  <2>2. CASE OnMessage
    BY <2>2, MessageKeepsInput
  <2> QED BY <1>7, <2>1, <2>2 DEF HandleMessage
<1>8. CASE HandleWrite
  BY <1>8, <1>t, InputStays DEF HandleWrite, peerVars
<1>9. CASE HandleActiveClose
  BY <1>9, <1>t, InputStays DEF HandleActiveClose, peerVars
<1>10. CASE Release
  BY <1>10, <1>t, InputStays DEF Release, peerVars
<1>11. CASE UNCHANGED vars
  BY <1>11, <1>t, InputStays DEF vars, peerVars
<1> QED
  BY <1>1, <1>2, <1>3, <1>4, <1>5, <1>6, <1>7, <1>8, <1>9, <1>10, <1>11
  DEF Next, Loop

LEMMA InputInvariant ==
  ASSUME HeapIsZero, BodiesAreDelimited, ClosingBodiesAreEmpty
  PROVE  Spec => [](OutInv /\ InputInv)
<1>1. Init => OutInv /\ InputInv
  BY InitOutput, InitInput
<1>2. OutInv /\ InputInv /\ [Next]_vars => (OutInv /\ InputInv)'
  BY NextKeepsOutput, NextKeepsInput
<1> QED BY <1>1, <1>2, PTL DEF Spec

-----------------------------------------------------------------------------
(* Incremental parsing, however the stream is cut, for requests of any      *)
(* length and any number of them, pipelined or not: the application is      *)
(* asked what was sent, and refuses only what is malformed                  *)
(* (HttpContext.cpp:52), given that fresh memory is zero, that a request    *)
(* which closes or is HTTP/1.0 has no body with a Content-Length, and that  *)
(* no body is sent without a Content-Length or chunks.  The runs            *)
(* HttpConnection_flag and HttpConnection_body show the first two needed.   *)
THEOREM ParsingIsIncremental ==
  ASSUME HeapIsZero, BodiesAreDelimited, ClosingBodiesAreEmpty
  PROVE  Spec => []RequestsAreWhole
<1>1. OutInv /\ InputInv => RequestsAreWhole
  BY DEF InputInv
<1> QED BY <1>1, InputInvariant, PTL

-----------------------------------------------------------------------------
(* Type correctness, whatever memory held and whatever bodies are sent.     *)
(* Not even then does the parser cut off more than it has, or keep a        *)
(* content_length_ of a request that it is not reading.                     *)
Held == [complete_headers_: BOOLEAN, complete_request_: BOOLEAN,
         content_length_: Nat, request_: HttpRequest,
         body_: Seq(Text), buffer_: Seq(Token)]

OwnLength(c) == c.content_length_ # 0 =>
                  c.complete_headers_ /\ c.request_.framing = "length"

(* What a parse may return.  A complete context is reset before the next.   *)
Sound(p) == /\ p.context \in Held
            /\ ~p.context.complete_request_ => OwnLength(p.context)
            /\ ~p.ok => ~p.context.complete_request_

LEMMA ValuesAreText ==
  ASSUME NEW t \in Seq(Token)
  PROVE  Values(t) \in Seq(Text)
<1>1. Len(t) \in Nat /\ DOMAIN t = 1 .. Len(t) /\ \A i \in 1 .. Len(t) : t[i] \in Token
  BY LenProperties, ElementOfSeq
<1>2. \A i \in 1 .. Len(t) : (IF t[i][1] = "byte" THEN t[i][2] ELSE Markup) \in Text
  <2>1. ASSUME NEW i \in 1 .. Len(t), t[i][1] = "byte" PROVE t[i][2] \in Byte
    BY <1>1, <2>1 DEF Token
  <2> QED BY <2>1 DEF Text
<1>3. PICK v : v = Values(t)
  OBVIOUS
<1>4. v = [i \in 1 .. Len(t) |-> IF t[i][1] = "byte" THEN t[i][2] ELSE Markup]
  BY <1>1, <1>3 DEF Values
<1>5. v \in Seq(Text)
  BY <1>1, <1>2, <1>4
<1> QED BY <1>3, <1>5

LEMMA CutsAreTokens ==
  ASSUME NEW b \in Seq(Token), NEW n \in 0 .. Len(b)
  PROVE  SubSeq(b, 1, n) \in Seq(Token) /\ Drop(b, n) \in Seq(Token)
<1>1. Len(b) \in Nat /\ \A i \in 1 .. Len(b) : b[i] \in Token
  BY LenProperties, ElementOfSeq
<1>2. \A i \in 1 .. n : b[i] \in Token
  BY <1>1
<1>3. \A i \in n + 1 .. Len(b) : b[i] \in Token
  BY <1>1
<1>4. SubSeq(b, 1, n) \in Seq(Token)
  BY <1>1, <1>2, SubSeqProperties
<1>5. SubSeq(b, n + 1, Len(b)) \in Seq(Token)
  BY <1>1, <1>3, SubSeqProperties
<1> QED BY <1>4, <1>5 DEF Drop

TakenTypes == [body: Seq(Text), rest: Seq(Token), last: BOOLEAN]

(* One turn of TakeChunks, given that the turns after it are typed. *)
LEMMA StepIsTyped ==
  ASSUME NEW f, NEW b \in Seq(Token),
         \A d \in Seq(Token) : Len(d) < Len(b) => f[d] \in TakenTypes
  PROVE  Step(f, b) \in TakenTypes
<1>1. <<>> \in Seq(Text)
  BY EmptySeq
<1>2. CASE ~WholeChunk(b)
  BY <1>1, <1>2 DEF Step, TakenTypes
<1>3. CASE WholeChunk(b)
  <2>1. PICK n \in Nat : n = b[1][2] /\ n + 2 <= Len(b)
    BY <1>3, WholeChunkFacts
  <2>2. PICK d \in Seq(Token) : d = Drop(b, n + 2) /\ Len(d) < Len(b)
    BY <1>3, <2>1, WholeChunkFacts
  <2>3. PICK v \in Seq(Text) : v = Values(SubSeq(b, 2, n + 1))
    <3>1. Len(b) \in Nat /\ \A i \in 1 .. Len(b) : b[i] \in Token
      BY LenProperties, ElementOfSeq
    <3>2. \A i \in 2 .. n + 1 : b[i] \in Token
      BY <2>1, <3>1
    <3>3. SubSeq(b, 2, n + 1) \in Seq(Token)
      BY <2>1, <3>1, <3>2, SubSeqProperties
    <3> QED BY <3>3, ValuesAreText
  <2>4. PICK t \in TakenTypes : t = f[d]
    BY <2>2
  <2>5. CASE n = 0
    BY <1>1, <1>3, <2>1, <2>2, <2>5 DEF Step, TakenTypes
  <2>6. CASE n # 0
    <3>1. Step(f, b) = [t EXCEPT !.body = v \o @]
      BY <1>3, <2>1, <2>2, <2>3, <2>4, <2>6 DEF Step
    <3>2. PICK u \in Seq(Text) : u = t.body
      BY DEF TakenTypes
    <3>3. PICK w \in Seq(Text) : w = v \o u
      BY ConcatProperties
    <3>4. Step(f, b) = [t EXCEPT !.body = w]
      BY <3>1, <3>2, <3>3
    <3> QED BY <3>4 DEF TakenTypes
  <2> QED BY <2>5, <2>6
<1> QED BY <1>2, <1>3

LEMMA TakeChunksIsTyped ==
  ASSUME NEW b \in Seq(Token)
  PROVE  TakeChunks[b] \in TakenTypes
<1> DEFINE Bad == {k \in Nat : \E d \in Seq(Token) : /\ Len(d) = k
                                                    /\ TakeChunks[d] \notin TakenTypes}
<1>1. ASSUME Bad # {} PROVE FALSE
  <2>1. Bad \in SUBSET Nat
    OBVIOUS
  <2>2. PICK k \in Bad : \A i \in Bad : k <= i
    BY <1>1, <2>1, LeastNatural
  <2>3. PICK d \in Seq(Token) : Len(d) = k /\ TakeChunks[d] \notin TakenTypes
    BY <2>2
  <2>4. ASSUME NEW e \in Seq(Token), Len(e) < Len(d)
        PROVE  TakeChunks[e] \in TakenTypes
    <3>1. Len(e) \in Nat /\ k \in Nat /\ ~(k <= Len(e))
      BY <2>3, <2>4, LenProperties
    <3>2. Len(e) \notin Bad
      BY <2>2, <3>1
    <3> QED BY <3>1, <3>2
  <2>5. Step(TakeChunks, d) \in TakenTypes
    BY <2>4, StepIsTyped
  <2> QED BY <2>3, <2>5, TakeChunksIs
<1>2. Len(b) \in Nat
  BY LenProperties
<1> QED BY <1>1, <1>2

LEMMA ChunkedIsSound ==
  ASSUME NEW c \in Held, ~c.complete_request_, OwnLength(c)
  PROVE  Sound(ParseChunkedBody(c))
<1>1. c.buffer_ \in Seq(Token) /\ c.body_ \in Seq(Text)
  BY DEF Held
<1>2. PICK t \in TakenTypes : t = TakeChunks[c.buffer_]
  BY <1>1, TakeChunksIsTyped
<1>3. t.rest \in Seq(Token) /\ t.body \in Seq(Text)
  BY DEF TakenTypes
<1>4. PICK body \in Seq(Text) : body = c.body_ \o t.body
  BY <1>1, <1>3, ConcatProperties
<1>5. PICK rest \in Seq(Token) : rest = t.rest
  BY <1>3
<1>6. PICK d : d = [c EXCEPT !.body_ = body, !.buffer_ = rest]
  OBVIOUS
<1>7. d \in Held /\ ~d.complete_request_ /\ OwnLength(d)
  BY <1>6 DEF Held, OwnLength
<1>8. ParseChunkedBody(c) = IF t.last THEN Complete(d) ELSE Incomplete(d)
  BY <1>2, <1>4, <1>5, <1>6 DEF ParseChunkedBody
<1>9. Sound(Complete(d)) /\ Sound(Incomplete(d))
  BY <1>7 DEF Sound, Held, Complete, Incomplete, Parsed
<1> QED BY <1>8, <1>9

LEMMA SetBodyIsSound ==
  ASSUME NEW c \in Held, NEW n \in 0 .. Len(c.buffer_)
  PROVE  Sound(SetBody(c, n))
<1>1. PICK b \in Seq(Token) : b = c.buffer_ /\ Len(b) \in Nat
  BY LenProperties DEF Held
<1>2. PICK front \in Seq(Token) : front = SubSeq(b, 1, n)
  BY <1>1, CutsAreTokens
<1>3. PICK rest \in Seq(Token) : rest = Drop(b, n)
  BY <1>1, CutsAreTokens
<1>4. PICK body \in Seq(Text) : body = Values(front)
  BY ValuesAreText
<1>5. n \in Nat
  BY <1>1
<1>6. PICK d : d = [c EXCEPT !.content_length_ = n, !.body_ = body, !.buffer_ = rest]
  OBVIOUS
<1>7. d \in Held
  BY <1>5, <1>6 DEF Held
<1>8. SetBody(c, n) = Complete(d)
  BY <1>1, <1>2, <1>3, <1>4, <1>6 DEF SetBody
<1>9. Sound(Complete(d))
  BY <1>7 DEF Sound, Held, Complete, Parsed
<1> QED BY <1>8, <1>9

LEMMA BodyIsSound ==
  ASSUME NEW c \in Held, ~c.complete_request_, OwnLength(c), c.complete_headers_
  PROVE  Sound(ParseBody(c))
<1>1. PICK r \in HttpRequest : r = c.request_
  BY DEF Held
<1>2. PICK k \in Nat : k = Len(c.buffer_)
  BY LenProperties DEF Held
<1>3. PICK l \in Nat : l = Len(r.body)
  BY LenProperties DEF HttpRequest
<1>4. r.framing \in {"none", "length", "chunked", "garbled"}
  BY DEF HttpRequest
<1>5. CASE r.framing = "chunked"
  BY <1>1, <1>5, ChunkedIsSound DEF ParseBody
<1>6. CASE r.framing # "chunked" /\ TakesAll(r)
  <2>1. ParseBody(c) = SetBody(c, k)
    BY <1>1, <1>2, <1>6 DEF ParseBody
  <2>2. k \in 0 .. Len(c.buffer_)
    BY <1>2
  <2> QED BY <2>1, <2>2, SetBodyIsSound
<1>7. CASE r.framing = "garbled" /\ ~TakesAll(r)
  <2>1. ParseBody(c) = Malformed(c)
    BY <1>1, <1>7 DEF ParseBody
  <2> QED BY <2>1 DEF Malformed, Parsed, Sound
<1>8. CASE r.framing = "length" /\ ~TakesAll(r)
  <2>1. ParseBody(c) = IF k < l THEN Incomplete([c EXCEPT !.content_length_ = l])
                                ELSE SetBody(c, l)
    BY <1>1, <1>2, <1>3, <1>8 DEF ParseBody
  <2>2. CASE k < l
    <3>1. PICK d : d = [c EXCEPT !.content_length_ = l]
      OBVIOUS
    <3>2. d \in Held /\ OwnLength(d)
      BY <1>1, <1>8, <3>1 DEF Held, OwnLength
    <3> QED BY <2>1, <2>2, <3>1, <3>2 DEF Incomplete, Parsed, Sound
  <2>3. CASE ~(k < l)
    <3>1. l \in 0 .. Len(c.buffer_)
      BY <1>2, <2>3
    <3> QED BY <2>1, <2>3, <3>1, SetBodyIsSound
  <2> QED BY <2>2, <2>3
<1>9. CASE r.framing = "none" /\ ~TakesAll(r)
  <2>1. c.content_length_ = 0
    BY <1>1, <1>9 DEF OwnLength
  <2>2. ParseBody(c) = SetBody(c, 0)
    BY <1>1, <1>9, <2>1 DEF ParseBody
  <2>3. 0 \in 0 .. Len(c.buffer_)
    BY <1>2
  <2> QED BY <2>2, <2>3, SetBodyIsSound
<1> QED BY <1>4, <1>5, <1>6, <1>7, <1>8, <1>9

LEMMA HeaderEndIsWithin ==
  ASSUME NEW b \in Seq(Token)
  PROVE  HeaderEnd(b) \in 0 .. Len(b)
<1> DEFINE I == {i \in 1 .. Len(b) : b[i] = Blank}
<1>1. Len(b) \in Nat
  BY LenProperties
<1>2. HeaderEnd(b) = IF I # {} THEN Min(I) ELSE 0
  BY DEF HeaderEnd, SelectInSeq
<1>3. ASSUME I # {} PROVE Min(I) \in I
  <2>1. I \in SUBSET Nat
    OBVIOUS
  <2>2. PICK m \in I : \A i \in I : m <= i
    BY <1>3, <2>1, LeastNatural
  <2> QED BY <2>2 DEF Min
<1> QED BY <1>1, <1>2, <1>3

LEMMA ParsedHeaderIsRequest ==
  ASSUME NEW text \in Seq(Token), ValidHeader(text)
  PROVE  ParsedHeader(text) \in HttpRequest
<1>1. Len(text) \in Nat /\ Len(text) # 0
  BY LenProperties, EmptySeq DEF ValidHeader
<1>2. PICK t \in Token : t = text[Len(text)]
  BY <1>1, ElementOfSeq
<1>3. t[1] = "head"
  BY <1>2 DEF ValidHeader
<1>4. PICK r \in HttpRequest : r = t[2]
  BY <1>3 DEF Token
<1>5. [r EXCEPT !.method = "GET"] \in HttpRequest
  BY DEF HttpRequest
<1> QED BY <1>2, <1>4, <1>5 DEF ParsedHeader

LEMMA ParseIsSound ==
  ASSUME NEW c \in Held, ~c.complete_request_, OwnLength(c), NEW str \in Seq(Token)
  PROVE  Sound(ParseRequest(c, str))
<1>1. PICK b \in Seq(Token) : b = c.buffer_ \o str
  <2>1. c.buffer_ \in Seq(Token)
    BY DEF Held
  <2> QED BY <2>1, TokenConcat
<1>2. PICK d : d = [c EXCEPT !.buffer_ = b]
  OBVIOUS
<1>3. d \in Held /\ ~d.complete_request_ /\ OwnLength(d) /\ d.buffer_ = b
  BY <1>2 DEF Held, OwnLength
<1>4. PICK end \in 0 .. Len(b) : end = HeaderEnd(b)
  BY HeaderEndIsWithin
<1>5. PICK header : header = SubSeq(b, 1, end - 1)
  OBVIOUS
<1>6. PICK rest \in Seq(Token) : rest = Drop(b, end)
  BY CutsAreTokens
<1>7. PICK p : p = ParseRequest(c, str)
  OBVIOUS
<1>8. CASE d.complete_headers_
  <2>1. p = ParseBody(d)
    BY <1>1, <1>2, <1>7, <1>8 DEF ParseRequest
  <2> QED BY <1>3, <1>7, <1>8, <2>1, BodyIsSound
<1>9. CASE ~d.complete_headers_ /\ end = 0
  <2>1. p = Incomplete(d)
    BY <1>1, <1>2, <1>3, <1>4, <1>7, <1>9 DEF ParseRequest
  <2> QED BY <1>3, <1>7, <2>1 DEF Incomplete, Parsed, Sound
<1>10. CASE ~d.complete_headers_ /\ end # 0 /\ ~ValidHeader(header)
  <2>1. PICK e : e = [d EXCEPT !.buffer_ = rest]
    OBVIOUS
  <2>2. p = Malformed(e)
    BY <1>1, <1>2, <1>3, <1>4, <1>5, <1>6, <1>7, <1>10, <2>1 DEF ParseRequest
  <2>3. e \in Held /\ ~e.complete_request_ /\ OwnLength(e)
    BY <1>3, <2>1 DEF Held, OwnLength
  <2> QED BY <1>7, <2>2, <2>3 DEF Malformed, Parsed, Sound
<1>11. CASE ~d.complete_headers_ /\ end # 0 /\ ValidHeader(header)
  <2>1. header \in Seq(Token)
    <3>1. end - 1 \in 0 .. Len(b)
      BY <1>11, LenProperties
    <3> QED BY <1>5, <3>1, CutsAreTokens
  <2>2. PICK r \in HttpRequest : r = ParsedHeader(header)
    BY <1>11, <2>1, ParsedHeaderIsRequest
  <2>3. PICK e : e = [d EXCEPT !.buffer_ = rest, !.complete_headers_ = TRUE,
                               !.request_ = r]
    OBVIOUS
  <2>4. p = ParseBody(e)
    BY <1>1, <1>2, <1>3, <1>4, <1>5, <1>6, <1>7, <1>11, <2>2, <2>3 DEF ParseRequest
  <2>5. d.content_length_ = 0
    BY <1>3, <1>11 DEF OwnLength
  <2>6. e \in Held /\ ~e.complete_request_ /\ OwnLength(e) /\ e.complete_headers_
    BY <1>3, <2>3, <2>5 DEF Held, OwnLength
  <2> QED BY <1>7, <2>4, <2>6, BodyIsSound
<1> QED BY <1>8, <1>9, <1>10, <1>11

(* The types that do not follow from OutInv. *)
Types ==
  /\ pipelines \in BOOLEAN /\ writing \in BOOLEAN
  /\ sent \in Seq(Request) /\ Len(sent) <= MaxRequests
  /\ wire \in Seq(Token) /\ rcvbuf \in Seq(Token)
  /\ context_ \in Held /\ ~context_.complete_request_ /\ OwnLength(context_)
  /\ fin \in {"none", "sent", "arrived"}
  /\ state_ \in {"Connected", "Disconected", "Gone"}

LEMMA NewIsHeld ==
  ASSUME NEW flag \in BOOLEAN, NEW b \in Seq(Token), NEW c,
         c = NewContext(flag) \/ c = [NewContext(flag) EXCEPT !.buffer_ = b]
  PROVE  c \in Held /\ ~c.complete_request_ /\ OwnLength(c)
<1>1. <<>> \in Seq(Byte) /\ <<>> \in Seq(Text) /\ <<>> \in Seq(Token)
  BY EmptySeq
<1>2. Unset \in HttpRequest
  BY <1>1 DEF Unset, HttpRequest
<1>3. PICK d : d = NewContext(flag)
  OBVIOUS
<1>4. d \in Held /\ ~d.complete_request_ /\ OwnLength(d)
  BY <1>1, <1>2, <1>3 DEF NewContext, Held, OwnLength
<1>5. PICK e : e = [d EXCEPT !.buffer_ = b]
  OBVIOUS
<1>6. e \in Held /\ ~e.complete_request_ /\ OwnLength(e)
  BY <1>4, <1>5 DEF Held, OwnLength
<1>7. c = d \/ c = e
  BY <1>3, <1>5
<1> QED BY <1>4, <1>6, <1>7

LEMMA InitTypes == Init => Types
<1> SUFFICES ASSUME Init PROVE Types
  OBVIOUS
<1>1. /\ sent = <<>> /\ wire = <<>> /\ rcvbuf = <<>> /\ fin = "none"
      /\ pipelines \in BOOLEAN /\ writing = FALSE /\ state_ = "Connected"
  BY DEF Init
<1>2. PICK flag \in BOOLEAN : context_ = NewContext(flag)
  BY ConnectionAssumption DEF Init
<1>3. context_ \in Held /\ ~context_.complete_request_ /\ OwnLength(context_)
  <2>1. PICK none \in Seq(Token) : none = <<>>
    BY EmptySeq
  <2> QED BY <1>2, NewIsHeld
<1>4. sent \in Seq(Request) /\ Len(sent) = 0
  BY <1>1
<1>5. wire \in Seq(Token) /\ rcvbuf \in Seq(Token)
  BY <1>1
<1>6. Len(sent) <= MaxRequests
  BY <1>4, ConnectionAssumption
<1>7. /\ fin \in {"none", "sent", "arrived"} /\ writing \in BOOLEAN
      /\ state_ \in {"Connected", "Disconected", "Gone"}
  BY <1>1
<1> QED BY <1>1, <1>3, <1>4, <1>5, <1>6, <1>7 DEF Types

LEMMA MessageKeepsTypes == Types /\ OnMessage => Types'
<1> SUFFICES ASSUME Types, OnMessage PROVE Types'
  OBVIOUS
<1>1. PICK p : /\ p = ParseRequest(context_, rcvbuf)
               /\ \/ AwaitsMore(p) \/ Refuse(p)
                  \/ \E close \in BOOLEAN : OnRequest(p, close)
  BY DEF OnMessage
<1>2. rcvbuf' = <<>> /\ UNCHANGED <<pipelines, sent, wire, fin>>
  BY DEF OnMessage, Reads, peerVars
<1>3. Sound(p)
  BY <1>1, ParseIsSound DEF Types
<1>4. rcvbuf' \in Seq(Token)
  BY <1>2, EmptySeq
<1>5. /\ writing' \in BOOLEAN /\ state_' \in {"Connected", "Disconected", "Gone"}
      /\ context_' \in Held /\ ~context_'.complete_request_ /\ OwnLength(context_')
  <2>1. CASE AwaitsMore(p)
    <3>1. UNCHANGED <<state_, writing>> /\ context_' = p.context
      BY <2>1 DEF AwaitsMore, outVars
    <3> QED BY <1>3, <2>1, <3>1 DEF AwaitsMore, Sound, Types
  <2>2. CASE Refuse(p)
    <3>1. writing' \in BOOLEAN
      BY <2>2 DEF Refuse, Send, Types
    <3>2. /\ context_' = p.context /\ state_' = "Disconected" /\ ~p.ok
      BY <2>2 DEF Refuse
    <3> QED BY <1>3, <3>1, <3>2 DEF Sound
  <2>3. CASE \E close \in BOOLEAN : OnRequest(p, close)
    <3>1. /\ context_' = Reset(p.context) /\ state_' \in {"Disconected", state_}
          /\ Send(Response(Len(handled) + 1))
      BY <2>3 DEF OnRequest
    <3>2. writing' \in BOOLEAN
      BY <3>1 DEF Send, Types
    <3>3. PICK b \in Seq(Token) : b = p.context.buffer_
      BY <1>3 DEF Sound, Held
    <3>4. PICK c : c = context_' /\ c = [NewContext(FALSE) EXCEPT !.buffer_ = b]
      BY <3>1, <3>3 DEF Reset
    <3>5. c \in Held /\ ~c.complete_request_ /\ OwnLength(c)
      BY <3>4, NewIsHeld
    <3> QED BY <3>1, <3>2, <3>4, <3>5 DEF Types
  <2> QED BY <1>1, <2>1, <2>2, <2>3
<1> QED BY <1>2, <1>4, <1>5 DEF Types, OwnLength

LEMMA NextKeepsTypes == Types /\ [Next]_vars => Types'
<1> SUFFICES ASSUME Types, [Next]_vars PROVE Types'
  OBVIOUS
<1> USE DEF Types, OwnLength
<1>1. ASSUME NEW r \in Request, PeerSend(r) PROVE Types'
  <2>1. /\ Len(sent) < MaxRequests /\ sent' = Append(sent, r)
        /\ wire' = wire \o Tokens(r)
        /\ UNCHANGED <<pipelines, writing, fin, rcvbuf, context_, state_>>
    BY <1>1 DEF PeerSend, outVars
  <2>2. /\ sent' \in Seq(Request) /\ Len(sent') = Len(sent) + 1 /\ Len(sent) \in Nat
    BY <2>1, AppendProperties, LenProperties
  <2>3. wire' \in Seq(Token)
    BY <2>1, BodyTokensFacts, TokenConcat, ConnectionAssumption
  <2> QED BY <2>1, <2>2, <2>3, ConnectionAssumption
<1>2. CASE PeerShutdown
  BY <1>2 DEF PeerShutdown, outVars
<1>3. ASSUME NEW n \in 1 .. Len(wire), Deliver(n) PROVE Types'
  <2>1. /\ rcvbuf' = rcvbuf \o SubSeq(wire, 1, n) /\ wire' = Drop(wire, n)
        /\ UNCHANGED <<pipelines, writing, sent, fin, context_, state_>>
    BY <1>3 DEF Deliver, outVars
  <2>2. n \in 0 .. Len(wire)
    OBVIOUS
  <2>3. SubSeq(wire, 1, n) \in Seq(Token) /\ Drop(wire, n) \in Seq(Token)
    BY <2>2, CutsAreTokens
  <2> QED BY <2>1, <2>3, TokenConcat
<1>4. CASE DeliverFin
  BY <1>4 DEF DeliverFin, outVars
<1>5. CASE PeerReceive
  BY <1>5 DEF PeerReceive
<1>6. CASE Poll
  BY <1>6 DEF Poll, peerVars, outVars
<1>7. CASE HandleMessage
  <2>1. CASE ReadsEof \/ ReadsWhenClosed
    <3>1. /\ rcvbuf' = <<>> /\ state_' = "Disconected"
          /\ UNCHANGED <<pipelines, writing, sent, wire, fin, context_>>
      BY <2>1 DEF ReadsEof, ReadsWhenClosed, Reads, peerVars, outVars
    <3>2. rcvbuf' \in Seq(Token)
      BY <3>1, EmptySeq
    <3> QED BY <3>1, <3>2
  <2> QED BY <1>7, <2>1, MessageKeepsTypes DEF HandleMessage
<1>8. CASE HandleWrite
  BY <1>8 DEF HandleWrite, peerVars
<1>9. CASE HandleActiveClose
  BY <1>9 DEF HandleActiveClose, peerVars, outVars
<1>10. CASE Release
  BY <1>10 DEF Release, peerVars, outVars
<1>11. CASE UNCHANGED vars
  BY <1>11 DEF vars, peerVars, outVars
<1> QED
  BY <1>1, <1>2, <1>3, <1>4, <1>5, <1>6, <1>7, <1>8, <1>9, <1>10, <1>11
  DEF Next, Loop

(* Every variable has its type, of whatever requests the peer sends and     *)
(* whatever fresh memory holds: the kernel never holds more than fits,      *)
(* onMessage leaves no complete request in the context, and the length in   *)
(* it is of the request being read (HttpServer.cpp:79-115,                  *)
(* HttpContext.cpp:94-119).                                                *)
THEOREM TypeCorrect == Spec => []TypeOK
<1>1. OutInv /\ Types => TypeOK
  <2> SUFFICES ASSUME OutInv, Types PROVE TypeOK
    OBVIOUS
  <2>1. received \in Seq(Unit) /\ sndbuf \in Seq(Unit)
    <3>1. PICK n \in Nat : n = Len(handled)
      BY OutputIsOf
    <3>2. Units(n) \subseteq Unit
      BY DEF Units, Unit
    <3>3. received \in Seq(Units(n)) /\ sndbuf \in Seq(Units(n))
      BY <3>1, OutputIsOf
    <3> QED BY <3>2, <3>3
  <2>2. /\ context_.buffer_ \in Seq(Token) /\ context_.body_ \in Seq(Text)
        /\ context_.request_ \in HttpRequest
        /\ context_.complete_headers_ \in BOOLEAN
        /\ context_.content_length_ \in Nat
    BY DEF Types, Held
  <2>3. /\ BufferOf({Zero} \cup Unit, send_buf_)
        /\ Len(sndbuf) <= SendRoom /\ events \in SUBSET {"IN", "OUT"}
    BY DEF OutInv, OutputTypes, Cell
  <2> QED BY <2>1, <2>2, <2>3 DEF Types, OwnLength, TypeOK
<1> QED BY <1>1, InitTypes, NextKeepsTypes, OutputInvariant, PTL DEF Spec
=============================================================================
