-------------------------------- MODULE Buffer --------------------------------
(***************************************************************************)
(* utils/Buffer: bytes appended at one end and retrieved at the other, in  *)
(* one vector with two indices, as operators on its state (a buffer).      *)
(*                                                                         *)
(*        0     kPrePendIndex   read_index_   write_index_   Len(buf_)     *)
(*        |------------------------|--- readable --|-- writable --|        *)
(*                                                                         *)
(* buf_ is a sequence, so its cell i of the code is cell i + 1 here.       *)
(***************************************************************************)
EXTENDS Integers, Sequences

CONSTANTS Zero,    \* what a fresh cell of the vector holds
          kPrePendIndex

ASSUME BufferAssumption == kPrePendIndex \in Nat

Zeros(n) == [i \in 1 .. n |-> Zero]

NewBuffer == [buf_ |-> Zeros(kPrePendIndex), read_index_ |-> kPrePendIndex,
              write_index_ |-> kPrePendIndex]

(* A buffer whose cells are of S. *)
BufferOf(S, b) == /\ b \in [buf_: Seq(S), read_index_: Nat, write_index_: Nat]
                  /\ kPrePendIndex <= b.read_index_
                  /\ b.read_index_ <= b.write_index_
                  /\ b.write_index_ <= Len(b.buf_)

readablebytes(b) == b.write_index_ - b.read_index_
writablebytes(b) == Len(b.buf_) - b.write_index_
prependablebytes(b) == b.read_index_

PeekAll(b) == SubSeq(b.buf_, b.read_index_ + 1, b.write_index_)

(* The readable bytes move to the front of the vector. *)
CompactIndices(b) ==
  [b EXCEPT !.read_index_ = kPrePendIndex,
            !.write_index_ = kPrePendIndex + readablebytes(b)]
Compact(b) ==
  LET k == kPrePendIndex
      n == readablebytes(b)
  IN [buf_ |-> [i \in DOMAIN b.buf_ |->
                  IF i \in k + 1 .. k + n THEN b.buf_[i - k + b.read_index_]
                                          ELSE b.buf_[i]],
      read_index_ |-> k, write_index_ |-> k + n]

(* vector::resize to write_index_ + len *)
Grow(b, len) ==
  [b EXCEPT !.buf_ = @ \o Zeros(b.write_index_ + len - Len(b.buf_))]

FitsAfterMove(b, len) ==
  writablebytes(b) + prependablebytes(b) >= kPrePendIndex + len

EnsureWritableBytes(b, len) ==
  IF writablebytes(b) >= len THEN b
  ELSE IF FitsAfterMove(b, len) THEN Compact(b) ELSE Grow(b, len)

(* Buffer::Append: Sequences has an Append of its own. *)
AppendBytes(b, str) ==
  LET c == EnsureWritableBytes(b, Len(str))
      w == c.write_index_
  IN [buf_ |-> [i \in DOMAIN c.buf_ |->
                  IF i \in w + 1 .. w + Len(str) THEN str[i - w] ELSE c.buf_[i]],
      read_index_ |-> c.read_index_, write_index_ |-> w + Len(str)]

RetrieveAll(b) == [buf_ |-> b.buf_, read_index_ |-> kPrePendIndex,
                   write_index_ |-> kPrePendIndex]

Retrieve(b, len) ==
  IF b.read_index_ + len < b.write_index_
  THEN [b EXCEPT !.read_index_ = @ + len]
  ELSE RetrieveAll(b)
=============================================================================
