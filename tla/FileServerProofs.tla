---------------------------- MODULE FileServerProofs ----------------------------
(* The files that several loops store and read without any lock are whole,  *)
(* for any number of loops, files and bytes.                                *)
EXTENDS FileServer, SequenceTheorems, FiniteSetTheorems, TLAPS

-----------------------------------------------------------------------------
(* Operators on bytes and requests. *)
LEMMA ReadAtTyped ==
  ASSUME TypeOK, NEW p \in DOMAIN disk, NEW offset \in Nat, NEW n \in Nat
  PROVE  /\ ReadAt(p, offset, n) \in Seq(Nat) /\ Len(ReadAt(p, offset, n)) = n
         /\ \A i \in 1..n : ReadAt(p, offset, n)[i] =
                              IF offset + i <= Len(disk[p]) THEN disk[p][offset + i] ELSE 0
<1>1. disk[p] \in Seq(Nat) /\ Len(disk[p]) \in Nat
  BY LenProperties DEF TypeOK
<1>2. \A i \in 1..n : (IF offset + i <= Len(disk[p]) THEN disk[p][offset + i] ELSE 0) \in Nat
  BY <1>1, ElementOfSeq
<1> QED BY <1>2 DEF ReadAt

(* All bytes of a file, read at once, are the file. *)
LEMMA ReadAll ==
  ASSUME TypeOK, NEW p \in DOMAIN disk
  PROVE  ReadAt(p, 0, Len(disk[p])) = disk[p]
<1> DEFINE n == Len(disk[p])
<1>1. disk[p] \in Seq(Nat) /\ n \in Nat
  BY LenProperties DEF TypeOK
<1>2. /\ ReadAt(p, 0, n) \in Seq(Nat) /\ Len(ReadAt(p, 0, n)) = n
      /\ \A i \in 1..n : ReadAt(p, 0, n)[i] = IF 0 + i <= n THEN disk[p][0 + i] ELSE 0
  BY <1>1, ReadAtTyped
<1>3. \A i \in 1..n : ReadAt(p, 0, n)[i] = disk[p][i]
  BY <1>1, <1>2
<1> QED BY <1>1, <1>2, <1>3, SeqEqual

LEMMA MaxOfTwo ==
  ASSUME NEW m \in Nat, NEW n \in Nat
  PROVE  Max({m, n}) = IF m >= n THEN m ELSE n
<1> DEFINE x == IF m >= n THEN m ELSE n
<1>1. x \in {m, n} /\ \A y \in {m, n} : x >= y
  OBVIOUS
<1>2. \A z \in {m, n} : (\A y \in {m, n} : z >= y) => z = x
  OBVIOUS
<1> QED BY <1>1, <1>2 DEF Max

LEMMA WriteAtTyped ==
  ASSUME NEW old \in Seq(Nat), NEW offset \in Nat, NEW s \in Seq(Nat)
  PROVE  WriteAt(old, offset, s) \in Seq(Nat)
<1>1. /\ Len(old) \in Nat /\ DOMAIN old = 1..Len(old) /\ \A i \in 1..Len(old) : old[i] \in Nat
      /\ Len(s) \in Nat /\ \A i \in 1..Len(s) : s[i] \in Nat
  BY LenProperties, ElementOfSeq
<1> DEFINE m == Max({Len(old), offset + Len(s)})
           b(i) == IF i \in (offset + 1)..(offset + Len(s)) THEN s[i - offset]
                   ELSE IF i \in DOMAIN old THEN old[i] ELSE 0
<1>2. m \in Nat
  <2>1. Len(old) \in Nat /\ offset + Len(s) \in Nat
    BY <1>1
  <2>2. m = IF Len(old) >= offset + Len(s) THEN Len(old) ELSE offset + Len(s)
    BY <2>1, MaxOfTwo
  <2> QED BY <2>1, <2>2
<1> HIDE DEF m
<1>3. ASSUME NEW i \in 1..m PROVE b(i) \in Nat
  <2>1. CASE i \in (offset + 1)..(offset + Len(s))
    <3>1. i - offset \in 1..Len(s)
      BY <1>1, <2>1
    <3> QED BY <1>1, <2>1, <3>1
  <2>2. CASE i \notin (offset + 1)..(offset + Len(s))
    BY <1>1, <2>2
  <2> QED BY <2>1, <2>2
<1> HIDE DEF b
<1>4. [i \in 1..m |-> b(i)] \in Seq(Nat)
  BY <1>2, <1>3
<1> QED BY <1>4 DEF WriteAt, m, b

(* The next bytes of a body, written behind the first ones. *)
LEMMA WriteBehind ==
  ASSUME NEW body \in Seq(Nat), NEW m \in Nat, NEW n \in Nat, m < n, n <= Len(body)
  PROVE  WriteAt(SubSeq(body, 1, m), m, SubSeq(body, m + 1, n)) = SubSeq(body, 1, n)
<1> DEFINE a == SubSeq(body, 1, m)
           s == SubSeq(body, m + 1, n)
           c == SubSeq(body, 1, n)
<1>1. Len(body) \in Nat /\ \A i \in 1..Len(body) : body[i] \in Nat
  BY LenProperties, ElementOfSeq
<1>2. a \in Seq(Nat) /\ Len(a) = m /\ \A i \in 1..m : a[i] = body[i]
  <2>1. \A i \in 1..m : body[i] \in Nat
    BY <1>1
  <2> QED BY <2>1, SubSeqProperties
<1>3. s \in Seq(Nat) /\ Len(s) = n - m /\ \A i \in 1..(n - m) : s[i] = body[m + i]
  <2>1. \A i \in (m + 1)..n : body[i] \in Nat
    BY <1>1
  <2>2. /\ s \in Seq(Nat)
        /\ Len(s) = IF m + 1 <= n THEN n - (m + 1) + 1 ELSE 0
        /\ \A i \in 1..(n - (m + 1) + 1) : s[i] = body[(m + 1) + i - 1]
    BY <2>1, SubSeqProperties
  <2>3. n - (m + 1) + 1 = n - m /\ m + 1 <= n /\ \A i \in 1..(n - m) : (m + 1) + i - 1 = m + i
    OBVIOUS
  <2> QED BY <2>2, <2>3
<1>4. c \in Seq(Nat) /\ Len(c) = n /\ \A i \in 1..n : c[i] = body[i]
  <2>1. \A i \in 1..n : body[i] \in Nat
    BY <1>1
  <2> QED BY <2>1, SubSeqProperties
<1>5. DOMAIN a = 1..m
  BY <1>2, LenProperties
<1> HIDE DEF a, s, c
<1>6. Max({Len(a), m + Len(s)}) = n
  BY <1>2, <1>3, MaxOfTwo
<1>7. \A i \in 1..n : (IF i \in (m + 1)..(m + Len(s)) THEN s[i - m]
                       ELSE IF i \in DOMAIN a THEN a[i] ELSE 0) = c[i]
  <2> TAKE i \in 1..n
  <2>1. CASE i \in (m + 1)..(m + Len(s))
    <3>1. i - m \in 1..(n - m) /\ m + (i - m) = i
      BY <1>3, <2>1
    <3>2. s[i - m] = body[i] /\ c[i] = body[i]
      BY <1>3, <1>4, <3>1
    <3> QED BY <2>1, <3>2
  <2>2. CASE i \notin (m + 1)..(m + Len(s))
    <3>1. i \in DOMAIN a
      BY <1>3, <1>5, <2>2
    <3>2. a[i] = c[i]
      BY <1>2, <1>4, <1>5, <3>1
    <3> QED BY <2>2, <3>1, <3>2
  <2> QED BY <2>1, <2>2
<1>8. WriteAt(a, m, s) = [i \in 1..n |-> c[i]]
  BY <1>6, <1>7 DEF WriteAt
<1>9. c = [i \in 1..n |-> c[i]]
  BY <1>4, LenProperties
<1> QED BY <1>8, <1>9 DEF a, s, c

LEMMA HandlerOf ==
  ASSUME NEW r
  PROVE  Handler(r) = IF r.method = "LIST" THEN "list"
                      ELSE IF r.method = "ICON" THEN "openRead"
                      ELSE IF r.method \in {"GET", "POST", "DELETE"} THEN "exists"
                      ELSE "send"
BY DEF Handler

(* A request has the fields its method needs. *)
LEMMA RequestFields ==
  ASSUME NEW r \in Request
  PROVE  /\ r.method \in {"GET", "POST", "DELETE", "HEAD", "LIST", "ICON"}
         /\ r.method \in {"GET", "POST", "DELETE", "HEAD"} => r.file \in File
         /\ r.method = "GET" => r.range \in Ranges
         /\ r.method = "POST" => r.body \in Body
BY DEF Request

-----------------------------------------------------------------------------
(* The inductive invariant. *)
HasRange(l) == req[l].range \in [start : Nat, end : Int]

(* A handler is where its request's method brings it; after the process has *)
(* ended no handler is anywhere.                                            *)
PlaceOK(l) ==
  /\ ~up => pc[l] = "idle"
  /\ pc[l] = "exists" => req[l].method \in {"GET", "POST", "DELETE"}
  /\ pc[l] \in {"openRead", "read", "size"} => req[l].method \in {"GET", "ICON"}
  /\ pc[l] = "openRange" => req[l].method = "GET" /\ HasRange(l)
  /\ pc[l] \in {"openWrite", "write"} => req[l].method = "POST"
  /\ pc[l] = "remove" => req[l].method = "DELETE"
  /\ pc[l] = "list" => req[l].method = "LIST"

(* The status is set where the answer is made, and not before.              *)
AnswerOK(l) ==
  /\ Answers(l, 200) => req[l].method \in {"GET", "ICON", "LIST"}
  /\ Answers(l, 201) => req[l].method = "POST"
  /\ Answers(l, 206) => req[l].method = "GET" /\ HasRange(l)
  /\ pc[l] = "size" => response[l].status = 200
  /\ pc[l] \notin {"size", "send"} => response[l].status = 1

IconIsThere == Icon \in DOMAIN disk /\ disk[Icon] = IconBytes

(* An upload that runs alone has stored the bytes up to its position; when  *)
(* it is answered they are all there and nobody writes the file.            *)
Alone(l) == \A m \in Loop \ {l} : ~Writes(m, req[l].file)
UploadOK(l) ==
  /\ pc[l] = "write" => Exists(FileOf(l))
  /\ pc[l] \in {"openWrite", "write"} /\ req[l].file \notin raced => Alone(l)
  /\ pc[l] = "write" /\ req[l].file \notin raced =>
       pos[l] <= Len(req[l].body) /\ disk[FileOf(l)] = SubSeq(req[l].body, 1, pos[l])
  /\ Answers(l, 201) /\ req[l].file \notin raced =>
       Settled(req[l].file) /\ disk[FileOf(l)] = req[l].body

(* A download of a file that was settled when it was opened.                *)
StillSettled(l) == req[l].method = "ICON" \/ Settled(req[l].file)
DownloadOK(l) ==
  /\ pc[l] \in {"read", "size"} => Exists(Opened(l))
  /\ pc[l] \in {"read", "size"} /\ settledAtOpen[l] => StillSettled(l)
  /\ pc[l] = "read" /\ settledAtOpen[l] => pos[l] = Len(disk[Opened(l)])
  /\ pc[l] = "size" /\ settledAtOpen[l] => response[l].body = disk[Opened(l)]
  /\ Answers(l, 200) /\ req[l].method # "LIST" /\ settledAtOpen[l] =>
       /\ StillSettled(l)
       /\ response[l].body = disk[Opened(l)]
       /\ response[l].length = Len(disk[Opened(l)])

PlacesOK == \A l \in Loop : PlaceOK(l)
HandlersOK == \A l \in Loop :
  PlaceOK(l) /\ AnswerOK(l) /\ UploadOK(l) /\ DownloadOK(l)
FileInv == HandlersOK /\ IconIsThere

-----------------------------------------------------------------------------
(* Type correctness. *)
Acts(l) == \/ \E r \in Request : AnalyzeRequest(l, r)
           \/ Download(l) \/ HandleUpload(l) \/ HandleDelete(l) \/ HandleList(l) \/ Send(l)

LEMMA InitTyped == Init => TypeOK
<1> SUFFICES ASSUME Init PROVE TypeOK
  OBVIOUS
<1>1. PICK S \in SUBSET ({"files", "cwd"} \X File) : \E d \in [S -> Body] :
        disk = [p \in S \cup {Icon} |-> IF p = Icon THEN IconBytes ELSE d[p]]
  BY DEF Init
<1>2. PICK d \in [S -> Body] :
        disk = [p \in S \cup {Icon} |-> IF p = Icon THEN IconBytes ELSE d[p]]
  BY <1>1
<1>3. DOMAIN disk = S \cup {Icon} /\ IconBytes \in Seq(Nat)
  BY <1>2 DEF IconBytes
<1>4. \A p \in DOMAIN disk : disk[p] \in Seq(Nat)
  BY <1>2, <1>3, FileAssumption
<1>5. NoRequest \in Request /\ Fresh \in Response
  BY DEF NoRequest, Request, Fresh, Filled, NotFound, Response
<1> QED BY <1>3, <1>4, <1>5, FileAssumption DEF Init, TypeOK, Path, Places

LEMMA StoreTyped ==
  ASSUME TypeOK, NEW p \in Path, NEW bytes \in Seq(Nat), Store(p, bytes)
  PROVE  DOMAIN disk' \subseteq Path /\ \A q \in DOMAIN disk' : disk'[q] \in Seq(Nat)
BY DEF Store, TypeOK

LEMMA TerminateTyped == TypeOK /\ Terminate => TypeOK'
<1>1. NoRequest \in Request /\ Fresh \in Response
  BY DEF NoRequest, Request, Fresh, Filled, NotFound, Response
<1> SUFFICES ASSUME TypeOK, Terminate PROVE TypeOK'
  OBVIOUS
<1>2. /\ up' \in BOOLEAN /\ pc' \in [Loop -> Places] /\ req' \in [Loop -> Request]
      /\ response' \in [Loop -> Response] /\ pos' \in [Loop -> Nat]
      /\ settledAtOpen' \in [Loop -> BOOLEAN]
  BY <1>1 DEF Terminate, Places
<1>3. UNCHANGED <<disk, starts, raced>>
  BY DEF Terminate
<1> QED BY <1>2, <1>3 DEF TypeOK

LEMMA ActsTyped ==
  ASSUME TypeOK, NEW l \in Loop, Acts(l), ~Terminate, HandlersOK
  PROVE  TypeOK'
<1> USE DEF Goto, Respond, Places
<1>1. /\ req[l] \in Request /\ response[l] \in Response /\ pos[l] \in Nat
      /\ FileOf(l) \in Path \/ req[l].method \in {"LIST", "ICON"}
  BY RequestFields DEF TypeOK, FileOf, Stored, Path
<1>2. CASE \E r \in Request : AnalyzeRequest(l, r)
  <2>1. PICK r \in Request : AnalyzeRequest(l, r)
    BY <1>2
  <2>2. Handler(r) \in Places
    BY HandlerOf
  <2>3. Fresh \in Response /\ NotFound \in Response
    BY DEF Fresh, Filled, NotFound, Response
  <2> QED BY <2>1, <2>2, <2>3 DEF AnalyzeRequest, Locals, TypeOK
<1>3. CASE CheckDownload(l)
  BY <1>3 DEF CheckDownload, TypeOK
<1>4. CASE OpenForRead(l)
  <2>1. Opened(l) \in DOMAIN disk /\ getFileSize(Opened(l)) \in Nat
    BY <1>4, LenProperties DEF OpenForRead, Exists, getFileSize, TypeOK
  <2>2. (req[l].method = "ICON" \/ Settled(req[l].file)) \in BOOLEAN
    OBVIOUS
  <2> QED BY <1>4, <2>1, <2>2 DEF OpenForRead, TypeOK
<1>5. CASE Read(l)
  <2>1. Opened(l) \in DOMAIN disk
    BY <1>5 DEF Read, HandlersOK, DownloadOK, Exists
  <2>2. ReadAt(Opened(l), 0, pos[l]) \in Seq(Nat)
    BY <1>1, <2>1, ReadAtTyped
  <2>3. ReadAt(Opened(l), 0, pos[l]) \in Seq(Nat \cup File)
    BY <2>2, SeqMonotonic
  <2>4. Filled(200, ReadAt(Opened(l), 0, pos[l]), -1) \in Response
    BY <2>3 DEF Filled, Response
  <2> QED BY <1>5, <2>4 DEF Read, TypeOK
<1>6. CASE Size(l)
  <2>1. Opened(l) \in DOMAIN disk
    BY <1>6 DEF Size, HandlersOK, DownloadOK, Exists
  <2>2. getFileSize(Opened(l)) \in Nat
    BY <2>1, LenProperties DEF getFileSize, TypeOK
  <2>3. [response[l] EXCEPT !.length = getFileSize(Opened(l))] \in Response
    BY <1>1, <2>2 DEF Response
  <2> QED BY <1>6, <2>3 DEF Size, TypeOK
<1>7. CASE ReadRange(l)
  <2> DEFINE r == req[l].range  size == r.end - r.start
             body == ReadAt(FileOf(l), r.start, size)
  <2>1. r.start \in Nat /\ r.end \in Int
    BY <1>7 DEF ReadRange, HandlersOK, PlaceOK, HasRange
  <2>2. FileOf(l) \in DOMAIN disk /\ size >= 0
    BY <1>7 DEF ReadRange, Exists
  <2>3. body \in Seq(Nat)
    <3>1. size \in Nat /\ r.start \in Nat
      BY <2>1, <2>2
    <3> HIDE DEF size
    <3> QED BY <2>2, <3>1, ReadAtTyped
  <2>4. body \in Seq(Nat \cup File) /\ size + 1 \in Nat
    BY <2>1, <2>2, <2>3, SeqMonotonic
  <2> HIDE DEF body, size, r
  <2>5. Filled(206, body, size + 1) \in Response
    BY <2>4 DEF Filled, Response
  <2>6. Settled(req[l].file) \in BOOLEAN
    BY DEF Settled, Exists
  <2> QED BY <1>7, <2>2, <2>5, <2>6 DEF ReadRange, TypeOK, body, size, r
<1>8. CASE CheckUpload(l)
  <2>1. [response[l] EXCEPT !.status = 409] \in Response /\ req[l].file \in File
    BY <1>1, <1>8, RequestFields DEF Response, CheckUpload
  <2>2. raced' \subseteq File
    BY <1>8, <2>1 DEF CheckUpload, TypeOK
  <2>3. pc \in [Loop -> Places] /\ response \in [Loop -> Response]
    BY DEF TypeOK
  <2>4. (pc' = [pc EXCEPT ![l] = "send"]
          /\ response' = [response EXCEPT ![l] = [response[l] EXCEPT !.status = 409]])
        \/ (pc' = [pc EXCEPT ![l] = "openWrite"] /\ response' = response)
    BY <1>8 DEF CheckUpload
  <2>5. pc' \in [Loop -> Places]
    BY <2>3, <2>4
  <2>6. response' \in [Loop -> Response]
    BY <2>1, <2>3, <2>4
  <2> QED BY <1>8, <2>2, <2>5, <2>6 DEF CheckUpload, TypeOK
<1>9. CASE OpenForWrite(l)
  <2>1. FileOf(l) \in Path
    BY <1>1, <1>9 DEF OpenForWrite, HandlersOK, PlaceOK
  <2>2. <<>> \in Seq(Nat)
    OBVIOUS
  <2>3. DOMAIN disk' \subseteq Path /\ \A q \in DOMAIN disk' : disk'[q] \in Seq(Nat)
    BY <1>9, <2>1, <2>2, StoreTyped DEF OpenForWrite
  <2> QED BY <1>9, <2>3 DEF OpenForWrite, TypeOK
<1>10. CASE WriteSome(l)
  <2>1. FileOf(l) \in Path /\ FileOf(l) \in DOMAIN disk /\ req[l].body \in Seq(Nat)
    BY <1>1, <1>10, RequestFields, FileAssumption DEF WriteSome, HandlersOK, PlaceOK, UploadOK, Exists
  <2>2. PICK n \in (pos[l] + 1)..Len(req[l].body) :
          /\ Store(FileOf(l), WriteAt(disk[FileOf(l)], pos[l],
                                      SubSeq(req[l].body, pos[l] + 1, n)))
          /\ pos' = [pos EXCEPT ![l] = n]
    BY <1>10 DEF WriteSome, WrittenAll
  <2>3. Len(req[l].body) \in Nat /\ n \in Nat
    BY <1>1, <2>1, LenProperties
  <2>4. \A i \in (pos[l] + 1)..n : req[l].body[i] \in Nat
    BY <1>1, <2>1, <2>3, ElementOfSeq
  <2>5. SubSeq(req[l].body, pos[l] + 1, n) \in Seq(Nat)
    BY <1>1, <2>3, <2>4, SubSeqProperties
  <2>6. disk[FileOf(l)] \in Seq(Nat)
    BY <2>1 DEF TypeOK
  <2>7. DOMAIN disk' \subseteq Path /\ \A q \in DOMAIN disk' : disk'[q] \in Seq(Nat)
    BY <1>1, <2>1, <2>2, <2>5, <2>6, WriteAtTyped, StoreTyped
  <2> QED BY <1>10, <2>2, <2>3, <2>7 DEF WriteSome, TypeOK
<1>11. CASE Created(l)
  <2>1. [response[l] EXCEPT !.status = 201] \in Response
    BY <1>1 DEF Response
  <2> QED BY <1>11, <2>1 DEF Created, TypeOK
<1>12. CASE HandleDelete(l)
  BY <1>12 DEF HandleDelete, CheckDelete, DeleteFile, TypeOK
<1>13. CASE HandleList(l)
  <2> DEFINE S == {f \in File : Exists(Stored(f))}
  <2>1. PICK rows \in SetToSeqs(S) :
          response' = [response EXCEPT ![l] = Filled(200, rows, Len(rows))]
    BY <1>13 DEF HandleList
  <2>2. IsFiniteSet(S)
    BY FileAssumption, FS_Subset
  <2>3. Cardinality(S) \in Nat
    BY <2>2, FS_CardinalityType
  <2>4. rows \in [1..Cardinality(S) -> S]
    BY <2>1 DEF SetToSeqs
  <2>5. rows \in Seq(S) /\ Len(rows) \in Nat
    <3> HIDE DEF S
    <3>1. rows \in Seq(S)
      BY <2>3, <2>4
    <3> QED BY <3>1, LenProperties
  <2>6. rows \in Seq(Nat \cup File)
    BY <2>5, SeqMonotonic
  <2>7. Filled(200, rows, Len(rows)) \in Response
    BY <2>5, <2>6 DEF Filled, Response
  <2> QED BY <1>13, <2>1, <2>7 DEF HandleList, TypeOK
<1>14. CASE Send(l)
  <2>1. NoRequest \in Request /\ Fresh \in Response
    BY DEF NoRequest, Request, Fresh, Filled, NotFound, Response
  <2> QED BY <1>14, <2>1 DEF Send, Locals, TypeOK
<1> QED BY <1>2, <1>3, <1>4, <1>5, <1>6, <1>7, <1>8, <1>9, <1>10, <1>11, <1>12, <1>13, <1>14
        DEF Acts, Download, HandleUpload

-----------------------------------------------------------------------------
(* What a loop's step leaves alone. *)
SameLocals(k) == /\ pc'[k] = pc[k] /\ req'[k] = req[k] /\ response'[k] = response[k]
                 /\ pos'[k] = pos[k] /\ settledAtOpen'[k] = settledAtOpen[k]

LEMMA OthersKeepTheirPlace ==
  ASSUME TypeOK, NEW l \in Loop, Acts(l), ~Terminate
  PROVE  up /\ up' /\ starts' = starts /\ \A k \in Loop \ {l} : SameLocals(k)
<1> USE DEF Goto, Respond, SameLocals
<1>1. CASE \E r \in Request : AnalyzeRequest(l, r)
  BY <1>1 DEF AnalyzeRequest, Locals, TypeOK
<1>2. CASE Download(l)
  BY <1>2 DEF Download, CheckDownload, OpenForRead, Read, Size, ReadRange, TypeOK
<1>3. CASE HandleUpload(l)
  BY <1>3 DEF HandleUpload, CheckUpload, OpenForWrite, WriteSome, Created, TypeOK
<1>4. CASE HandleDelete(l)
  BY <1>4 DEF HandleDelete, CheckDelete, DeleteFile, TypeOK
<1>5. CASE HandleList(l)
  BY <1>5 DEF HandleList, TypeOK
<1>6. CASE Send(l)
  BY <1>6 DEF Send, Locals, TypeOK
<1> QED BY <1>1, <1>2, <1>3, <1>4, <1>5, <1>6 DEF Acts

(* Only a loop that stores a file changes it; no file of root_path_ is ever *)
(* removed, nor is the icon.                                                *)
LEMMA FilesStay ==
  ASSUME TypeOK, PlacesOK, NEW l \in Loop, Acts(l), ~Terminate
  PROVE  /\ \A f \in File : Exists(Stored(f)) =>
               /\ Exists(Stored(f))'
               /\ Writes(l, f) \/ disk'[Stored(f)] = disk[Stored(f)]
         /\ IconIsThere => IconIsThere'
<1>1. CASE UNCHANGED disk
  BY <1>1 DEF Exists, IconIsThere
<1>2. CASE OpenForWrite(l) \/ WriteSome(l)
  <2>1. \E b : Store(FileOf(l), b)
    BY <1>2 DEF OpenForWrite, WriteSome
  <2>2. PICK b : Store(FileOf(l), b)
    BY <2>1
  <2>3. up /\ pc[l] \in {"openWrite", "write"} /\ req[l].method = "POST"
    BY <1>2 DEF OpenForWrite, WriteSome, PlacesOK, PlaceOK
  <2>4. \A p \in DOMAIN disk : p \in DOMAIN disk' /\ (p # FileOf(l) => disk'[p] = disk[p])
    BY <2>2 DEF Store
  <2>5. \A f \in File : Stored(f) = FileOf(l) => Writes(l, f)
    BY <2>3 DEF FileOf, Stored, Writes
  <2>6. Icon # FileOf(l)
    BY DEF Icon, FileOf, Stored
  <2> QED BY <2>4, <2>5, <2>6 DEF Exists, IconIsThere
<1>3. CASE DeleteFile(l)
  <2>1. disk' = [p \in DOMAIN disk \ {Removed(req[l].file)} |-> disk[p]]
    BY <1>3 DEF DeleteFile
  <2>2. Icon # Removed(req[l].file) /\ \A f \in File : Stored(f) # Removed(req[l].file)
    BY DEF Icon, Stored, Removed
  <2>3. \A p \in DOMAIN disk : p # Removed(req[l].file) =>
          p \in DOMAIN disk' /\ disk'[p] = disk[p]
    BY <2>1
  <2> QED BY <2>2, <2>3 DEF Exists, IconIsThere
<1>4. UNCHANGED disk \/ OpenForWrite(l) \/ WriteSome(l) \/ DeleteFile(l)
  BY DEF Acts, AnalyzeRequest, Download, CheckDownload, OpenForRead, Read, Size, ReadRange,
         HandleUpload, CheckUpload, Created, HandleDelete, CheckDelete, HandleList, Send
<1> QED BY <1>1, <1>2, <1>3, <1>4

(* Only a check that finds no file makes a loop store it. *)
LEMMA WritersWereChecked ==
  ASSUME TypeOK, NEW l \in Loop, Acts(l), ~Terminate, NEW f \in File, Writes(l, f)'
  PROVE  \/ Writes(l, f)
         \/ CheckUpload(l) /\ ~Exists(Stored(f)) /\ req[l].file = f
<1> USE DEF Goto, Writes
<1>1. CASE \E r \in Request : AnalyzeRequest(l, r)
  <2>1. PICK r \in Request : pc' = [pc EXCEPT ![l] = Handler(r)]
    BY <1>1 DEF AnalyzeRequest, Locals
  <2>2. pc'[l] = Handler(r)
    BY <2>1 DEF TypeOK
  <2> QED BY <2>2, HandlerOf
<1>2. CASE Download(l)
  BY <1>2 DEF Download, CheckDownload, OpenForRead, Read, Size, ReadRange, TypeOK
<1>3. CASE CheckUpload(l)
  BY <1>3 DEF CheckUpload, Refused, FileOf, TypeOK
<1>4. CASE OpenForWrite(l) \/ WriteSome(l) \/ Created(l)
  BY <1>4 DEF OpenForWrite, WriteSome, Created, TypeOK
<1>5. CASE HandleDelete(l)
  BY <1>5 DEF HandleDelete, CheckDelete, DeleteFile, TypeOK
<1>6. CASE HandleList(l)
  BY <1>6 DEF HandleList, TypeOK
<1>7. CASE Send(l)
  BY <1>7 DEF Send, Locals, TypeOK
<1> QED BY <1>1, <1>2, <1>3, <1>4, <1>5, <1>6, <1>7 DEF Acts, HandleUpload

LEMMA OthersWrite ==
  ASSUME TypeOK, NEW l \in Loop, Acts(l), ~Terminate, NEW k \in Loop \ {l}, NEW f
  PROVE  Writes(k, f)' <=> Writes(k, f)
BY OthersKeepTheirPlace DEF SameLocals, Writes

(* A file that is there and that nobody stores stays as it is. *)
LEMMA SettledStays ==
  ASSUME TypeOK, PlacesOK, [Next]_vars, NEW f \in File, Settled(f)
  PROVE  Settled(f)' /\ disk'[Stored(f)] = disk[Stored(f)]
<1>1. CASE Terminate
  BY <1>1 DEF Terminate, Settled, Exists, Writes
<1>2. ASSUME NEW l \in Loop, Acts(l), ~Terminate
      PROVE  Settled(f)' /\ disk'[Stored(f)] = disk[Stored(f)]
  <2>1. Exists(Stored(f))' /\ disk'[Stored(f)] = disk[Stored(f)]
    BY <1>2, FilesStay DEF Settled
  <2>2. \A k \in Loop : ~Writes(k, f)'
    <3> TAKE k \in Loop
    <3>1. CASE k = l
      BY <1>2, <3>1, WritersWereChecked DEF Settled
    <3>2. CASE k # l
      BY <1>2, <3>2, OthersWrite DEF Settled
    <3> QED BY <3>1, <3>2
  <2> QED BY <2>1, <2>2 DEF Settled
<1>3. CASE Restart
  <2>1. \A k \in Loop : pc'[k] = "idle"
    BY <1>3 DEF Restart, PlacesOK, PlaceOK
  <2> QED BY <1>3, <2>1 DEF Restart, Settled, Exists, Writes
<1>4. CASE UNCHANGED vars
  BY <1>4 DEF vars, Settled, Exists, Writes
<1> QED BY <1>1, <1>2, <1>3, <1>4 DEF Next, Acts, Crash

-----------------------------------------------------------------------------
(* The invariant holds at first. *)
LEMMA FileInvInit == Init => FileInv
<1> SUFFICES ASSUME Init PROVE FileInv
  OBVIOUS
<1>1. PICK S \in SUBSET ({"files", "cwd"} \X File) : \E d \in [S -> Body] :
        disk = [p \in S \cup {Icon} |-> IF p = Icon THEN IconBytes ELSE d[p]]
  BY DEF Init
<1>2. IconIsThere
  BY <1>1 DEF IconIsThere
<1>3. \A l \in Loop : up /\ pc[l] = "idle" /\ response[l].status = 1
  BY DEF Init, Fresh, Filled
<1>4. HandlersOK
  BY <1>3 DEF HandlersOK, PlaceOK, AnswerOK, UploadOK, DownloadOK, Answers
<1> QED BY <1>2, <1>4 DEF FileInv

(* The process ends or starts: no handler is anywhere. *)
LEMMA FileInvQuiet ==
  ASSUME TypeOK, FileInv, [Next]_vars, UNCHANGED disk,
         \A l \in Loop : pc'[l] = "idle" /\ response'[l].status = 1
  PROVE  FileInv'
<1>1. HandlersOK'
  BY DEF HandlersOK, PlaceOK, AnswerOK, UploadOK, DownloadOK, Answers
<1> QED BY <1>1 DEF FileInv, IconIsThere

(* The other loops, while loop l takes a step. *)
LEMMA OtherHandlers ==
  ASSUME TypeOK, FileInv, NEW l \in Loop, Acts(l), ~Terminate, raced \subseteq raced',
         NEW k \in Loop \ {l}
  PROVE  PlaceOK(k)' /\ AnswerOK(k)' /\ UploadOK(k)' /\ DownloadOK(k)'
<1>0. PICK f : f = req[k].file
  OBVIOUS
<1>1. /\ pc'[k] = pc[k] /\ req'[k] = req[k] /\ response'[k] = response[k]
      /\ pos'[k] = pos[k] /\ settledAtOpen'[k] = settledAtOpen[k] /\ up /\ up'
  BY OthersKeepTheirPlace DEF SameLocals
<1>2. PlaceOK(k) /\ AnswerOK(k) /\ UploadOK(k) /\ DownloadOK(k) /\ PlacesOK
  BY DEF FileInv, HandlersOK, PlacesOK
<1>3. PlaceOK(k)' /\ AnswerOK(k)'
  BY <1>1, <1>2 DEF PlaceOK, AnswerOK, Answers, HasRange
<1>4. \/ f \in File /\ FileOf(k) = Stored(f) /\ FileOf(k)' = FileOf(k)
      \/ req[k].method \in {"LIST", "ICON"}
  BY <1>0, <1>1, RequestFields DEF TypeOK, FileOf, Stored
<1>5. [Next]_vars
  BY DEF Next, Acts
<1>6. ASSUME f \in File, Settled(f) PROVE Settled(f)' /\ disk'[Stored(f)] = disk[Stored(f)]
  BY <1>2, <1>5, <1>6, SettledStays
<1>7. ASSUME f \in File, Exists(Stored(f))
      PROVE  Exists(Stored(f))' /\ (Writes(l, f) \/ disk'[Stored(f)] = disk[Stored(f)])
  BY <1>2, <1>7, FilesStay
<1>8. IconIsThere' /\ IconIsThere
  BY <1>2, FilesStay DEF FileInv
<1>9. UploadOK(k)'
  <2>1. CASE pc[k] \in {"openWrite", "write"}
    <3>1. req[k].method = "POST" /\ f \in File /\ FileOf(k) = Stored(f) /\ FileOf(k)' = Stored(f)
      BY <1>0, <1>2, <1>4, <2>1 DEF PlaceOK
    <3>2. Writes(k, f)
      BY <1>0, <1>1, <2>1, <3>1 DEF Writes
    <3>3. ASSUME f \notin raced' PROVE Alone(k) /\ ~Writes(l, f)
      BY <1>0, <1>2, <2>1, <3>3 DEF UploadOK, Alone
    <3>4. ASSUME f \notin raced' PROVE Alone(k)'
      <4> SUFFICES ASSUME NEW m \in Loop \ {k} PROVE ~Writes(m, f)'
        BY <1>0, <1>1 DEF Alone
      <4>1. CASE m = l
        <5>1. ~(CheckUpload(l) /\ ~Exists(Stored(f)) /\ req[l].file = f)
          BY <1>0, <3>2, <3>4 DEF CheckUpload, Refused, FileOf
        <5> QED BY <3>1, <3>3, <3>4, <4>1, <5>1, WritersWereChecked
      <4>2. CASE m # l
        BY <1>0, <3>3, <3>4, <4>2, OthersWrite DEF Alone
      <4> QED BY <4>1, <4>2
    <3>5. pc[k] = "write" => Exists(FileOf(k))'
      BY <1>2, <1>7, <3>1 DEF UploadOK
    <3>6. pc[k] = "write" /\ f \notin raced' => disk'[FileOf(k)] = disk[FileOf(k)]
      BY <1>0, <1>2, <1>7, <3>1, <3>3 DEF UploadOK
    <3>7. ~(Answers(k, 201)')
      BY <1>1, <2>1 DEF Answers
    <3> QED BY <1>0, <1>1, <1>2, <3>1, <3>4, <3>5, <3>6, <3>7 DEF UploadOK, FileOf, Stored, Exists
  <2>2. CASE Answers(k, 201)
    <3>1. f \in File /\ FileOf(k) = Stored(f) /\ FileOf(k)' = Stored(f) /\ pc[k] = "send"
      BY <1>0, <1>2, <1>4, <2>2 DEF AnswerOK, Answers
    <3>2. f \notin raced' => Settled(f) /\ disk[Stored(f)] = req[k].body
      BY <1>0, <1>2, <2>2, <3>1 DEF UploadOK
    <3>3. f \notin raced' => Settled(f)' /\ disk'[Stored(f)] = req[k].body
      BY <1>6, <3>1, <3>2
    <3> QED BY <1>0, <1>1, <3>1, <3>3 DEF UploadOK
  <2>3. CASE pc[k] \notin {"openWrite", "write"} /\ ~Answers(k, 201)
    BY <1>1, <2>3 DEF UploadOK, Answers
  <2> QED BY <2>1, <2>2, <2>3
<1>10. DownloadOK(k)'
  <2>1. CASE req[k].method = "ICON"
    <3>1. Opened(k) = Icon /\ Opened(k)' = Icon /\ disk'[Icon] = disk[Icon] /\ Exists(Icon)'
      BY <1>1, <1>8, <2>1 DEF Opened, IconIsThere, Exists
    <3> QED BY <1>1, <1>2, <2>1, <3>1 DEF DownloadOK, StillSettled, Answers, Exists
  <2>2. CASE req[k].method = "GET"
    <3>1. /\ f \in File /\ Opened(k) = Stored(f) /\ Opened(k)' = Stored(f)
          /\ StillSettled(k) <=> Settled(f)
          /\ StillSettled(k)' <=> Settled(f)'
      BY <1>0, <1>1, <1>4, <2>2 DEF Opened, StillSettled
    <3>2. pc'[k] \in {"read", "size"} => Exists(Opened(k))'
      BY <1>1, <1>2, <1>7, <3>1 DEF DownloadOK, Exists
    <3>3. StillSettled(k) => StillSettled(k)' /\ disk'[Stored(f)] = disk[Stored(f)]
      BY <1>6, <3>1
    <3> QED BY <1>0, <1>1, <1>2, <2>2, <3>1, <3>2, <3>3 DEF DownloadOK, Answers, Exists
  <2>3. CASE req[k].method \notin {"GET", "ICON"}
    BY <1>1, <1>2, <2>3 DEF DownloadOK, Answers, PlaceOK, AnswerOK
  <2> QED BY <2>1, <2>2, <2>3
<1> QED BY <1>3, <1>9, <1>10

(* The loop that takes the step. *)
HandlerOK(l) == PlaceOK(l) /\ AnswerOK(l) /\ UploadOK(l) /\ DownloadOK(l)

(* A handler that is about to look for its file, to open it, or to send an  *)
(* answer without a file.                                                   *)
LEMMA PlainPlace ==
  ASSUME NEW l \in Loop, up', PlaceOK(l)', response'[l].status \in {1, 404, 409},
         \/ pc'[l] \in {"idle", "exists", "openRead", "openRange", "remove", "list"}
              /\ response'[l].status = 1
         \/ pc'[l] = "send"
  PROVE  HandlerOK(l)'
BY DEF HandlerOK, AnswerOK, UploadOK, DownloadOK, Answers

LEMMA OwnHandlerOfDownload ==
  ASSUME TypeOK, FileInv, NEW l \in Loop, Download(l), ~Terminate
  PROVE  HandlerOK(l)'
<1> USE DEF Goto, Respond
<1>1. /\ PlaceOK(l) /\ AnswerOK(l) /\ UploadOK(l) /\ DownloadOK(l)
      /\ req[l] \in Request /\ pos[l] \in Nat
  BY DEF FileInv, HandlersOK, TypeOK
<1>2. CASE CheckDownload(l)
  <2>1. /\ pc'[l] \in {"openRange", "openRead"}
        /\ pc'[l] = "openRange" => req[l].range \notin {NoRange, OddRange}
        /\ req[l].method = "GET" /\ pc[l] = "exists"
        /\ up /\ up' /\ req' = req /\ response' = response
    BY <1>2 DEF CheckDownload, TypeOK
  <2>2. req[l].range \in Ranges
    BY <1>1, <2>1, RequestFields
  <2>3. PlaceOK(l)'
    BY <2>1, <2>2, FileAssumption DEF PlaceOK, HasRange
  <2>4. response'[l].status = 1
    BY <1>1, <2>1 DEF AnswerOK
  <2> QED BY <2>1, <2>3, <2>4, PlainPlace
<1>3. CASE OpenForRead(l)
  <2>1. /\ pc'[l] = "read" /\ pc[l] = "openRead" /\ up /\ up'
        /\ req' = req /\ response' = response /\ disk' = disk
        /\ Opened(l) \in DOMAIN disk /\ pos'[l] = Len(disk[Opened(l)])
    BY <1>3 DEF OpenForRead, Exists, getFileSize, TypeOK
  <2>2. settledAtOpen'[l] <=> StillSettled(l)
    BY <1>3 DEF OpenForRead, Exists, TypeOK, StillSettled
  <2>3. req[l].method \in {"GET", "ICON"} /\ response[l].status = 1
    BY <1>1, <2>1 DEF PlaceOK, AnswerOK
  <2>4. StillSettled(l) => StillSettled(l)'
    <3>1. \A f : \A k \in Loop : Writes(k, f)' => Writes(k, f)
      BY <1>3, <2>1 DEF Writes, OpenForRead, TypeOK
    <3> QED BY <2>1, <3>1 DEF StillSettled, Settled, Exists, Stored
  <2>5. Opened(l)' = Opened(l)
    BY <2>1 DEF Opened, FileOf, Stored, Icon
  <2> QED BY <2>1, <2>2, <2>3, <2>4, <2>5
          DEF HandlerOK, PlaceOK, AnswerOK, UploadOK, DownloadOK, Answers, Exists
<1>4. CASE Read(l)
  <2>1. /\ pc'[l] = "size" /\ pc[l] = "read" /\ up /\ up'
        /\ response'[l] = Filled(200, ReadAt(Opened(l), 0, pos[l]), -1)
        /\ UNCHANGED <<req, disk, settledAtOpen>>
    BY <1>4 DEF Read, TypeOK
  <2>2. Opened(l) \in DOMAIN disk /\ req[l].method \in {"GET", "ICON"}
    BY <1>1, <2>1 DEF DownloadOK, PlaceOK, Exists
  <2>3. settledAtOpen[l] => StillSettled(l) /\ response'[l].body = disk[Opened(l)]
    BY <1>1, <2>1, <2>2, ReadAll DEF DownloadOK, Filled
  <2>4. StillSettled(l) => StillSettled(l)'
    <3>1. \A f : \A k \in Loop : Writes(k, f)' => Writes(k, f)
      BY <1>4, <2>1 DEF Writes, Read, TypeOK
    <3> QED BY <2>1, <3>1 DEF StillSettled, Settled, Exists, Stored
  <2>5. Opened(l)' = Opened(l) /\ response'[l].status = 200
    BY <2>1 DEF Opened, FileOf, Stored, Icon, Filled
  <2> QED BY <2>1, <2>2, <2>3, <2>4, <2>5
          DEF HandlerOK, PlaceOK, AnswerOK, UploadOK, DownloadOK, Answers, Exists
<1>5. CASE Size(l)
  <2>1. /\ pc'[l] = "send" /\ pc[l] = "size" /\ up /\ up'
        /\ response'[l] = [response[l] EXCEPT !.length = Len(disk[Opened(l)])]
        /\ response[l] \in Response
        /\ UNCHANGED <<req, disk, settledAtOpen>>
    BY <1>5 DEF Size, TypeOK, getFileSize
  <2>2. /\ response'[l].status = 200 /\ response'[l].body = response[l].body
        /\ response'[l].length = Len(disk[Opened(l)])
    BY <1>1, <2>1 DEF Response, AnswerOK
  <2>3. /\ req[l].method \in {"GET", "ICON"}
        /\ settledAtOpen[l] => StillSettled(l) /\ response[l].body = disk[Opened(l)]
    BY <1>1, <2>1 DEF DownloadOK, PlaceOK
  <2>4. StillSettled(l) => StillSettled(l)'
    <3>1. \A f : \A k \in Loop : Writes(k, f)' => Writes(k, f)
      BY <1>5, <2>1 DEF Writes, Size, TypeOK
    <3> QED BY <2>1, <3>1 DEF StillSettled, Settled, Exists, Stored
  <2>5. Opened(l)' = Opened(l)
    BY <2>1 DEF Opened, FileOf, Stored, Icon
  <2> QED BY <2>1, <2>2, <2>3, <2>4, <2>5
          DEF HandlerOK, PlaceOK, AnswerOK, UploadOK, DownloadOK, Answers
<1>6. CASE ReadRange(l)
  <2>0. PICK r : /\ pc'[l] = "send" /\ pc[l] = "openRange" /\ up /\ up' /\ req' = req
                 /\ response'[l] = r /\ r.status = 206
    <3>1. PICK r : /\ r = Filled(206, ReadAt(FileOf(l), req[l].range.start,
                                             req[l].range.end - req[l].range.start),
                                  req[l].range.end - req[l].range.start + 1)
      OBVIOUS
    <3>2. r.status = 206
      BY <3>1 DEF Filled
    <3>3. /\ pc' = [pc EXCEPT ![l] = "send"] /\ response' = [response EXCEPT ![l] = r]
          /\ pc[l] = "openRange" /\ up /\ up' /\ req' = req
      BY <1>6, <3>1 DEF ReadRange
    <3> QED BY <3>2, <3>3 DEF TypeOK
  <2>1. /\ pc'[l] = "send" /\ pc[l] = "openRange" /\ up /\ up'
        /\ response'[l].status = 206 /\ req' = req
    BY <2>0
  <2>2. req[l].method = "GET" /\ HasRange(l)
    BY <1>1, <2>1 DEF PlaceOK
  <2> QED BY <2>1, <2>2
          DEF HandlerOK, PlaceOK, AnswerOK, UploadOK, DownloadOK, Answers, HasRange
<1> QED BY <1>2, <1>3, <1>4, <1>5, <1>6 DEF Download

LEMMA OwnHandlerOfUpload ==
  ASSUME TypeOK, FileInv, NEW l \in Loop, HandleUpload(l)
  PROVE  HandlerOK(l)' /\ raced \subseteq raced'
<1> USE DEF Goto, Respond
<1>1. /\ PlaceOK(l) /\ AnswerOK(l) /\ UploadOK(l) /\ DownloadOK(l)
      /\ req[l] \in Request /\ pos[l] \in Nat /\ response[l] \in Response
  BY DEF FileInv, HandlersOK, TypeOK
<1>2. CASE CheckUpload(l) /\ Refused(l)
  <2>1. /\ pc'[l] = "send" /\ pc[l] = "exists" /\ up /\ up' /\ req' = req /\ raced' = raced
        /\ response'[l] = [response[l] EXCEPT !.status = 409]
    BY <1>2 DEF CheckUpload, TypeOK
  <2>2. response'[l].status = 409
    BY <1>1, <2>1 DEF Response
  <2>3. PlaceOK(l)'
    BY <2>1 DEF PlaceOK
  <2> QED BY <2>1, <2>2, <2>3, PlainPlace
<1>3. CASE CheckUpload(l) /\ ~Refused(l)
  <2>1. /\ pc'[l] = "openWrite" /\ pc[l] = "exists" /\ req[l].method = "POST" /\ up /\ up'
        /\ req' = req /\ response' = response
        /\ \A k \in Loop \ {l} : pc'[k] = pc[k]
    BY <1>3 DEF CheckUpload, TypeOK
  <2>2. raced' = IF \E m \in Loop : Writes(m, req[l].file)
                 THEN raced \cup {req[l].file} ELSE raced
    BY <1>3 DEF CheckUpload
  <2>3. raced \subseteq raced'
    BY <2>2
  <2>4. req'[l].file \notin raced' => Alone(l)'
    <3> SUFFICES ASSUME req[l].file \notin raced', NEW k \in Loop \ {l}
                 PROVE  ~Writes(k, req[l].file)'
      BY <2>1 DEF Alone
    <3>1. ~Writes(k, req[l].file)
      BY <2>2
    <3> QED BY <2>1, <3>1 DEF Writes
  <2>5. response'[l].status = 1
    BY <1>1, <2>1 DEF AnswerOK
  <2> QED BY <2>1, <2>3, <2>4, <2>5
          DEF HandlerOK, PlaceOK, AnswerOK, UploadOK, DownloadOK, Answers
<1>4. CASE OpenForWrite(l)
  <2>1. /\ pc'[l] = "write" /\ pc[l] = "openWrite" /\ up /\ up' /\ pos'[l] = 0
        /\ Store(FileOf(l), <<>>)
        /\ UNCHANGED <<req, response, raced>>
        /\ \A k \in Loop \ {l} : pc'[k] = pc[k]
    BY <1>4 DEF OpenForWrite, TypeOK
  <2>2. req[l].method = "POST" /\ response[l].status = 1
    BY <1>1, <2>1 DEF PlaceOK, AnswerOK
  <2>3. FileOf(l) \in DOMAIN disk' /\ disk'[FileOf(l)] = <<>> /\ FileOf(l)' = FileOf(l)
    BY <2>1 DEF Store, FileOf, Stored
  <2>4. req[l].file \notin raced => Alone(l)'
    BY <1>1, <2>1 DEF UploadOK, Alone, Writes
  <2>5. req[l].body \in Seq(Nat)
    BY <1>1, <2>2, RequestFields, FileAssumption
  <2>6. 0 <= Len(req[l].body) /\ SubSeq(req[l].body, 1, 0) = <<>>
    BY <2>5, LenProperties, SubSeqEmpty
  <2> QED BY <2>1, <2>2, <2>3, <2>4, <2>6
          DEF HandlerOK, PlaceOK, AnswerOK, UploadOK, DownloadOK, Answers, Exists
<1>5. CASE WriteSome(l)
  <2>1. PICK n \in (pos[l] + 1)..Len(req[l].body) :
          /\ Store(FileOf(l), WriteAt(disk[FileOf(l)], pos[l],
                                      SubSeq(req[l].body, pos[l] + 1, n)))
          /\ pos' = [pos EXCEPT ![l] = n]
    BY <1>5 DEF WriteSome, WrittenAll
  <2>2. /\ pc[l] = "write" /\ up /\ up' /\ pos'[l] = n
        /\ UNCHANGED <<req, pc, response, raced>>
    BY <1>5, <2>1 DEF WriteSome, TypeOK
  <2>3. req[l].method = "POST" /\ response[l].status = 1
    BY <1>1, <2>2 DEF PlaceOK, AnswerOK
  <2>4. /\ FileOf(l) \in DOMAIN disk' /\ FileOf(l)' = FileOf(l)
        /\ disk'[FileOf(l)] = WriteAt(disk[FileOf(l)], pos[l],
                                      SubSeq(req[l].body, pos[l] + 1, n))
    BY <2>1, <2>2 DEF Store, FileOf, Stored
  <2>5. req[l].file \notin raced => Alone(l)'
    BY <1>1, <2>2 DEF UploadOK, Alone, Writes
  <2>6. req[l].body \in Seq(Nat)
    BY <1>1, <2>3, RequestFields, FileAssumption
  <2>7. n \in Nat /\ pos[l] < n /\ n <= Len(req[l].body)
    BY <1>1, <2>6, LenProperties
  <2>8. req[l].file \notin raced => disk'[FileOf(l)] = SubSeq(req[l].body, 1, n)
    BY <1>1, <2>2, <2>4, <2>6, <2>7, WriteBehind DEF UploadOK
  <2> QED BY <2>2, <2>3, <2>4, <2>5, <2>7, <2>8
          DEF HandlerOK, PlaceOK, AnswerOK, UploadOK, DownloadOK, Answers, Exists
<1>6. CASE Created(l)
  <2>1. /\ pc'[l] = "send" /\ pc[l] = "write" /\ up /\ up' /\ pos[l] >= Len(req[l].body)
        /\ response'[l] = [response[l] EXCEPT !.status = 201]
        /\ UNCHANGED <<req, disk, raced>>
        /\ \A k \in Loop \ {l} : pc'[k] = pc[k]
    BY <1>6 DEF Created, WrittenAll, TypeOK
  <2>2. req[l].method = "POST" /\ response'[l].status = 201
    BY <1>1, <2>1 DEF PlaceOK, Response
  <2>3. req[l].body \in Seq(Nat) /\ Len(req[l].body) \in Nat
    BY <1>1, <2>2, RequestFields, FileAssumption, LenProperties
  <2>4. req[l].file \notin raced => disk[FileOf(l)] = req[l].body /\ Alone(l)
    <3>1. req[l].file \notin raced => pos[l] = Len(req[l].body)
      BY <1>1, <2>1, <2>3 DEF UploadOK
    <3> QED BY <1>1, <2>1, <2>3, <3>1, SubSeqFull DEF UploadOK
  <2>5. req[l].file \notin raced => Settled(req[l].file)'
    <3> SUFFICES ASSUME req[l].file \notin raced, NEW k \in Loop
                 PROVE  ~Writes(k, req[l].file)' /\ Exists(FileOf(l))
      BY <2>1 DEF Settled, Exists, FileOf, Stored
    <3>1. Exists(FileOf(l))
      BY <1>1, <2>1 DEF UploadOK
    <3>2. CASE k = l
      BY <2>1, <3>1, <3>2 DEF Writes
    <3>3. CASE k # l
      BY <2>1, <2>4, <3>1, <3>3 DEF Writes, Alone
    <3> QED BY <3>2, <3>3
  <2> QED BY <2>1, <2>2, <2>4, <2>5
          DEF HandlerOK, PlaceOK, AnswerOK, UploadOK, DownloadOK, Answers, FileOf, Stored
<1> QED BY <1>2, <1>3, <1>4, <1>5, <1>6 DEF HandleUpload

LEMMA OwnHandlerOfRest ==
  ASSUME TypeOK, FileInv, NEW l \in Loop,
         \/ \E r \in Request : AnalyzeRequest(l, r)
         \/ HandleDelete(l) \/ HandleList(l) \/ Send(l)
  PROVE  HandlerOK(l)'
<1> USE DEF Goto, Respond
<1>1. PlaceOK(l) /\ AnswerOK(l) /\ response[l] \in Response
  BY DEF FileInv, HandlersOK, TypeOK
<1>2. CASE \E r \in Request : AnalyzeRequest(l, r)
  <2>1. PICK r \in Request : AnalyzeRequest(l, r)
    BY <1>2
  <2>2. /\ pc'[l] = Handler(r) /\ req'[l] = r /\ up /\ up'
        /\ response'[l] = IF Handler(r) = "send" THEN NotFound ELSE Fresh
    BY <2>1 DEF AnalyzeRequest, Locals, TypeOK
  <2>3. PlaceOK(l)' /\ pc'[l] \in {"list", "openRead", "exists", "send"}
    BY <2>2, HandlerOf DEF PlaceOK
  <2>4. response'[l].status = IF pc'[l] = "send" THEN 404 ELSE 1
    BY <2>2 DEF NotFound, Fresh, Filled
  <2> QED BY <2>2, <2>3, <2>4, PlainPlace
<1>3. CASE HandleDelete(l)
  <2>1. /\ pc'[l] \in {"remove", "send"} /\ req[l].method = "DELETE"
        /\ pc[l] \in {"exists", "remove"}
        /\ up /\ up' /\ req' = req /\ response' = response
    BY <1>1, <1>3 DEF HandleDelete, CheckDelete, DeleteFile, TypeOK, PlaceOK
  <2>2. PlaceOK(l)' /\ response'[l].status = 1
    BY <1>1, <2>1 DEF PlaceOK, AnswerOK
  <2> QED BY <2>1, <2>2, PlainPlace
<1>4. CASE HandleList(l)
  <2>1. PICK rows :
          /\ pc'[l] = "send" /\ pc[l] = "list" /\ up /\ up'
          /\ response'[l] = Filled(200, rows, Len(rows)) /\ req' = req
    BY <1>4 DEF HandleList, TypeOK
  <2>2. req[l].method = "LIST" /\ response'[l].status = 200
    BY <1>1, <2>1 DEF PlaceOK, Filled
  <2> QED BY <2>1, <2>2
          DEF HandlerOK, PlaceOK, AnswerOK, UploadOK, DownloadOK, Answers
<1>5. CASE Send(l)
  <2>1. pc'[l] = "idle" /\ up /\ up' /\ response'[l].status = 1
    BY <1>5 DEF Send, Locals, TypeOK, Fresh, Filled
  <2>2. PlaceOK(l)'
    BY <2>1 DEF PlaceOK
  <2> QED BY <2>1, <2>2, PlainPlace
<1> QED BY <1>2, <1>3, <1>4, <1>5

LEMMA ActsKeepFileInv ==
  ASSUME TypeOK, FileInv, NEW l \in Loop, Acts(l), ~Terminate
  PROVE  FileInv'
<1>1. PlacesOK
  BY DEF FileInv, HandlersOK, PlacesOK
<1>2. raced \subseteq raced'
  <2>1. CASE HandleUpload(l)
    BY <2>1, OwnHandlerOfUpload
  <2>2. CASE ~HandleUpload(l)
    BY <2>2 DEF Acts, AnalyzeRequest, Download, CheckDownload, OpenForRead, Read, Size,
                ReadRange, HandleDelete, CheckDelete, DeleteFile, HandleList, Send
  <2> QED BY <2>1, <2>2
<1>3. HandlerOK(l)'
  BY OwnHandlerOfDownload, OwnHandlerOfUpload, OwnHandlerOfRest DEF Acts
<1>4. HandlersOK'
  <2> SUFFICES ASSUME NEW k \in Loop
               PROVE  PlaceOK(k)' /\ AnswerOK(k)' /\ UploadOK(k)' /\ DownloadOK(k)'
    BY DEF HandlersOK
  <2>1. CASE k = l
    BY <1>3, <2>1 DEF HandlerOK
  <2>2. CASE k # l
    BY <1>2, <2>2, OtherHandlers
  <2> QED BY <2>1, <2>2
<1>5. IconIsThere'
  BY <1>1, FilesStay DEF FileInv
<1> QED BY <1>4, <1>5 DEF FileInv

LEMMA Invariance == Spec => [](TypeOK /\ FileInv)
<1>1. Init => TypeOK /\ FileInv
  BY InitTyped, FileInvInit
<1>2. TypeOK /\ FileInv /\ [Next]_vars => TypeOK' /\ FileInv'
  <2> SUFFICES ASSUME TypeOK, FileInv, [Next]_vars PROVE TypeOK' /\ FileInv'
    OBVIOUS
  <2>1. CASE Terminate
    <3>1. \A l \in Loop : pc'[l] = "idle" /\ response'[l].status = 1
      BY <2>1 DEF Terminate, Fresh, Filled
    <3> QED BY <2>1, <3>1, TerminateTyped, FileInvQuiet DEF Terminate
  <2>2. ASSUME NEW l \in Loop, Acts(l), ~Terminate PROVE TypeOK' /\ FileInv'
    BY <2>2, ActsTyped, ActsKeepFileInv DEF FileInv
  <2>3. CASE Restart
    <3>1. \A l \in Loop : pc'[l] = "idle" /\ response'[l].status = 1
      BY <2>3 DEF Restart, FileInv, HandlersOK, PlaceOK, AnswerOK
    <3>2. TypeOK'
      BY <2>3, FileAssumption DEF Restart, TypeOK
    <3> QED BY <2>3, <3>1, <3>2, FileInvQuiet DEF Restart
  <2>4. CASE UNCHANGED vars
    BY <2>4 DEF vars, TypeOK, FileInv, HandlersOK, PlaceOK, AnswerOK, UploadOK, DownloadOK,
                IconIsThere, Answers, HasRange, Alone,
                StillSettled, Settled, Exists, Writes, Opened, FileOf
  <2> QED BY <2>1, <2>2, <2>3, <2>4 DEF Next, Acts, Crash
<1> QED BY <1>1, <1>2, PTL DEF Spec

-----------------------------------------------------------------------------
(* Every variable always has its type: no handler reads a file that is not  *)
(* there or makes a string of a negative size without ending the process.   *)
THEOREM TypeCorrect == Spec => []TypeOK
BY Invariance, PTL

(* A file that is there and that nobody stores any more is never written    *)
(* again, although Exists and the open are two steps and nothing is locked  *)
(* (FileServer.cpp:104).                                                    *)
THEOREM SettledIsKept == Spec => SettledIsNeverOverwritten
<1> DEFINE Kept == \A f \in File : Settled(f) =>
                     \/ Settled(f)' /\ disk'[Stored(f)] = disk[Stored(f)]
                     \/ ~Exists(Stored(f))'
<1>1. TypeOK /\ FileInv /\ [Next]_vars => [Kept]_vars
  <2> SUFFICES ASSUME TypeOK, FileInv, [Next]_vars PROVE Kept
    OBVIOUS
  <2>1. PlacesOK
    BY DEF FileInv, HandlersOK, PlacesOK
  <2> QED BY <2>1, SettledStays
<1> QED BY <1>1, Invariance, PTL DEF Spec, SettledIsNeverOverwritten

(* An upload that no other one raced is stored byte for byte when it is     *)
(* answered 201 (FileServer.cpp:104-113).                                   *)
THEOREM UploadsAreStored == Spec => []UploadIsStored
<1>1. FileInv => UploadIsStored
  BY DEF FileInv, HandlersOK, UploadOK, UploadIsStored
<1> QED BY <1>1, Invariance, PTL

(* A download of a file that was not being stored when it was opened has    *)
(* all its bytes and their number (FileServer.cpp:86-87).                   *)
THEOREM DownloadsAreWhole == Spec => []DownloadIsWhole
<1>1. FileInv => DownloadIsWhole
  BY DEF FileInv, HandlersOK, DownloadOK, DownloadIsWhole
<1> QED BY <1>1, Invariance, PTL
=============================================================================
