------------------------------ MODULE FileServer ------------------------------
(***************************************************************************)
(* http/FileServer and utils/FileHandler: several loops answer GET, POST   *)
(* and DELETE requests for files of one directory.  Between two system     *)
(* calls of one loop the others take any steps; nothing locks a file.      *)
(*                                                                         *)
(* A path is a directory and a name: root_path_ is "files", cwd is the     *)
(* process's own directory.  A byte is a number, 0 the byte that fills a   *)
(* fresh string.  An exception in a handler is caught nowhere: it ends the *)
(* process, and somebody may start it again on the same disk.              *)
(*                                                                         *)
(* FileServer.cpp line 70 names a class Fileserver and line 63 passes one  *)
(* argument too many: the model is of what is left without them.           *)
(***************************************************************************)
EXTENDS Integers, SequencesExt

CONSTANTS Loop, File,        \* loops and file names
          Body,              \* bodies of uploads
          Ranges,            \* Range headers: [start, end], or NoRange, OddRange;
                             \* start is before the first "-", end may be negative
          NoRange, OddRange, \* no header; one that std::stoi cannot read
          MaxStarts          \* bound on starts of the process

ASSUME FileAssumption ==
  /\ IsFiniteSet(File) /\ Body \subseteq Seq(Nat)
  /\ {NoRange, OddRange} \subseteq Ranges
  /\ Ranges \ {NoRange, OddRange} \subseteq [start : Nat, end : Int]
  /\ MaxStarts \in Nat \ {0}

Icon == <<"resources", "cat.jpg">>
Path == ({"files", "cwd"} \X File) \cup {Icon}
IconBytes == <<7, 8>>
Stored(f) == <<"files", f>>

Request ==
  [method : {"GET"}, file : File, range : Ranges]
    \cup [method : {"POST"}, file : File, body : Body]
    \cup [method : {"DELETE", "HEAD"}, file : File]
    \cup [method : {"LIST", "ICON"}]      \* the paths / and /favicon.ico

VARIABLES
  disk,        \* paths that exist -> their bytes
  up, starts,  \* the process runs; how often it was started
  pc, req,     \* per loop: the next system call of its handler, its request
  response,    \* per loop: the HttpResponse
  pos,         \* per loop: bytes written so far, or the size of the string to read
  settledAtOpen, \* history, per loop: nobody was storing what it downloads whole
  raced        \* history: names for which two uploads passed Exists together

vars == <<disk, up, starts, pc, req, response, pos, settledAtOpen, raced>>

Places == {"idle", "exists", "openRead", "read", "size", "openRange", "openWrite",
           "write", "remove", "list", "send"}

(* HttpResponse: a status of 1 is kUnknown, a length of -1 no               *)
(* Content-Length header.                                                   *)
Filled(status, body, length) ==
  [status |-> status, body |-> body, length |-> length, close |-> FALSE]
Fresh == Filled(1, <<>>, -1)
NotFound == [status |-> 404, body |-> <<>>, length |-> -1, close |-> TRUE]

NoRequest == [method |-> "LIST"]

Init ==
  /\ \E S \in SUBSET ({"files", "cwd"} \X File) : \E d \in [S -> Body] :
       disk = [p \in S \cup {Icon} |-> IF p = Icon THEN IconBytes ELSE d[p]]
  /\ up = TRUE /\ starts = 1
  /\ pc = [l \in Loop |-> "idle"]
  /\ req = [l \in Loop |-> NoRequest]
  /\ response = [l \in Loop |-> Fresh]
  /\ pos = [l \in Loop |-> 0]
  /\ settledAtOpen = [l \in Loop |-> FALSE]
  /\ raced = {}

-----------------------------------------------------------------------------
(* utils/FileHandler *)
Exists(p) == p \in DOMAIN disk
getFileSize(p) == Len(disk[p])

(* A string of size n, filled with what the file holds from offset on.      *)
ReadAt(p, offset, n) ==
  [i \in 1..n |-> IF offset + i <= Len(disk[p]) THEN disk[p][offset + i] ELSE 0]

(* The bytes of s written at offset, over what is there.                    *)
WriteAt(old, offset, s) ==
  [i \in 1..Max({Len(old), offset + Len(s)}) |->
     IF i \in (offset + 1)..(offset + Len(s)) THEN s[i - offset]
     ELSE IF i \in DOMAIN old THEN old[i] ELSE 0]

Store(p, bytes) ==
  disk' = [q \in DOMAIN disk \cup {p} |-> IF q = p THEN bytes ELSE disk[q]]

Removed(f) == <<"cwd", f>>        \* deleteFile(filename), not filepath

-----------------------------------------------------------------------------
Writes(l, f) == /\ up /\ pc[l] \in {"openWrite", "write"}
                /\ req[l].method = "POST" /\ req[l].file = f

(* The file is there and nobody is storing it. *)
Settled(f) == Exists(Stored(f)) /\ \A l \in Loop : ~Writes(l, f)

Goto(l, place) == pc' = [pc EXCEPT ![l] = place]
Respond(l, r) == response' = [response EXCEPT ![l] = r]

(* A handler's objects are gone when it returns. *)
Locals(l, place, r) ==
  /\ pc' = [pc EXCEPT ![l] = place] /\ req' = [req EXCEPT ![l] = r]
  /\ pos' = [pos EXCEPT ![l] = 0] /\ settledAtOpen' = [settledAtOpen EXCEPT ![l] = FALSE]

(* An exception leaves the handler, the callback, the loop and its thread:  *)
(* the process ends, whatever its other loops do.                           *)
Terminate ==
  /\ up' = FALSE
  /\ pc' = [l \in Loop |-> "idle"] /\ req' = [l \in Loop |-> NoRequest]
  /\ response' = [l \in Loop |-> Fresh]
  /\ pos' = [l \in Loop |-> 0] /\ settledAtOpen' = [l \in Loop |-> FALSE]
  /\ UNCHANGED <<disk, starts, raced>>

FileOf(l) == Stored(req[l].file)
Opened(l) == IF req[l].method = "ICON" THEN Icon ELSE FileOf(l)

(* AnalyzeRequest: the handler for the path and the method.                 *)
HandlerByMethod(r) == IF r.method \in {"GET", "POST", "DELETE"} THEN "exists" ELSE "none"
Handler(r) == CASE r.method = "LIST" -> "list"
                [] r.method = "ICON" -> "openRead"
                [] r.method \in {"GET", "POST", "DELETE"} -> "exists"
                [] OTHER -> "send"

AnalyzeRequest(l, r) ==
  /\ up /\ pc[l] = "idle"
  /\ Locals(l, Handler(r), r)
  /\ Respond(l, IF Handler(r) = "send" THEN NotFound ELSE Fresh)
  /\ UNCHANGED <<disk, up, starts, raced>>

(* onRequest sends the message; what becomes of it is HttpConnection's.     *)
Send(l) ==
  /\ up /\ pc[l] = "send"
  /\ Locals(l, "idle", NoRequest)
  /\ Respond(l, Fresh)
  /\ UNCHANGED <<disk, up, starts, raced>>

-----------------------------------------------------------------------------
(* HandleDownload: a Range header counts only if the file exists; without   *)
(* the file the whole download is tried, and throws.                        *)
CheckDownload(l) ==
  /\ up /\ pc[l] = "exists" /\ req[l].method = "GET"
  /\ \/ /\ Exists(FileOf(l)) /\ req[l].range = OddRange
        /\ Terminate
     \/ /\ ~(Exists(FileOf(l)) /\ req[l].range = OddRange)
        /\ Goto(l, IF Exists(FileOf(l)) /\ req[l].range # NoRange
                   THEN "openRange" ELSE "openRead")
        /\ UNCHANGED <<disk, up, starts, req, response, pos, settledAtOpen, raced>>

(* BuildDownloadResponse: readFileBinary opens and measures the file, then  *)
(* reads it; the header asks for the size again.                            *)
OpenForRead(l) ==
  /\ up /\ pc[l] = "openRead"
  /\ IF Exists(Opened(l))
     THEN /\ Goto(l, "read")
          /\ pos' = [pos EXCEPT ![l] = getFileSize(Opened(l))]
          /\ settledAtOpen' = [settledAtOpen EXCEPT ![l] =
                                 req[l].method = "ICON" \/ Settled(req[l].file)]
          /\ UNCHANGED <<disk, up, starts, req, response, raced>>
     ELSE Terminate

Read(l) ==
  /\ up /\ pc[l] = "read"
  /\ Respond(l, Filled(200, ReadAt(Opened(l), 0, pos[l]), -1))
  /\ Goto(l, "size")
  /\ UNCHANGED <<disk, up, starts, req, pos, settledAtOpen, raced>>

Size(l) ==
  /\ up /\ pc[l] = "size"
  /\ Respond(l, [response[l] EXCEPT !.length = getFileSize(Opened(l))])
  /\ Goto(l, "send")
  /\ UNCHANGED <<disk, up, starts, req, pos, settledAtOpen, raced>>

(* BuildRangeDownloadResponse: the length counts both ends, the string      *)
(* readFileBinary(path, begin, end) makes only the first, with zeros where  *)
(* the file ends before it; a negative size converts to a huge one and the  *)
(* string's constructor throws.                                             *)
ReadRange(l) ==
  LET r == req[l].range  size == r.end - r.start IN
  /\ up /\ pc[l] = "openRange"
  /\ IF Exists(FileOf(l)) /\ size >= 0
     THEN /\ Respond(l, Filled(206, ReadAt(FileOf(l), r.start, size), size + 1))
          /\ Goto(l, "send")
          /\ UNCHANGED <<disk, up, starts, req, pos, settledAtOpen, raced>>
     ELSE Terminate

-----------------------------------------------------------------------------
(* HandleUpload: Exists, then the ofstream's constructor creates the file   *)
(* or empties it, then write stores the body in pieces at its own offset.   *)
RefusedNever(l) == FALSE
RefusedByName(l) == Exists(<<"cwd", req[l].file>>)
Refused(l) == Exists(FileOf(l))

CheckUpload(l) ==
  /\ up /\ pc[l] = "exists" /\ req[l].method = "POST"
  /\ \/ /\ Refused(l)
        /\ Respond(l, [response[l] EXCEPT !.status = 409])
        /\ Goto(l, "send")
        /\ UNCHANGED raced
     \/ /\ ~Refused(l)
        /\ Goto(l, "openWrite")
        /\ raced' = IF \E m \in Loop : Writes(m, req[l].file)
                    THEN raced \cup {req[l].file} ELSE raced
        /\ UNCHANGED response
  /\ UNCHANGED <<disk, up, starts, req, pos, settledAtOpen>>

OpenForWrite(l) ==
  /\ up /\ pc[l] = "openWrite"
  /\ Store(FileOf(l), <<>>)
  /\ pos' = [pos EXCEPT ![l] = 0]
  /\ Goto(l, "write")
  /\ UNCHANGED <<up, starts, req, response, settledAtOpen, raced>>

WrittenAllButOne(l) == Len(req[l].body) - 1
WrittenAll(l) == Len(req[l].body)

WriteSome(l) ==
  /\ up /\ pc[l] = "write"
  /\ \E n \in (pos[l] + 1)..WrittenAll(l) :
       /\ Store(FileOf(l), WriteAt(disk[FileOf(l)], pos[l],
                                   SubSeq(req[l].body, pos[l] + 1, n)))
       /\ pos' = [pos EXCEPT ![l] = n]
  /\ UNCHANGED <<up, starts, pc, req, response, settledAtOpen, raced>>

Created(l) ==
  /\ up /\ pc[l] = "write" /\ pos[l] >= WrittenAll(l)
  /\ Respond(l, [response[l] EXCEPT !.status = 201])
  /\ Goto(l, "send")
  /\ UNCHANGED <<disk, up, starts, req, pos, settledAtOpen, raced>>

-----------------------------------------------------------------------------
(* HandleDelete looks for the file in root_path_ and removes the name in    *)
(* the process's directory; it sets no status.                              *)
CheckDelete(l) ==
  /\ up /\ pc[l] = "exists" /\ req[l].method = "DELETE"
  /\ Goto(l, IF Exists(FileOf(l)) THEN "remove" ELSE "send")
  /\ UNCHANGED <<disk, up, starts, req, response, pos, settledAtOpen, raced>>

DeleteFile(l) ==
  /\ up /\ pc[l] = "remove"
  /\ disk' = [p \in DOMAIN disk \ {Removed(req[l].file)} |-> disk[p]]
  /\ Goto(l, "send")
  /\ UNCHANGED <<up, starts, req, response, pos, settledAtOpen, raced>>

(* HandleList: the page is one row for each file of the directory, in the   *)
(* order the directory gives them; its length is the page's.                *)
HandleList(l) ==
  /\ up /\ pc[l] = "list"
  /\ \E rows \in SetToSeqs({f \in File : Exists(Stored(f))}) :
       Respond(l, Filled(200, rows, Len(rows)))
  /\ Goto(l, "send")
  /\ UNCHANGED <<disk, up, starts, req, pos, settledAtOpen, raced>>

-----------------------------------------------------------------------------
(* The process stops at any point (the disk's cache stays), and is started  *)
(* again.                                                                   *)
Crash == up /\ Terminate

Restart ==
  /\ ~up /\ starts < MaxStarts
  /\ up' = TRUE /\ starts' = starts + 1
  /\ UNCHANGED <<disk, pc, req, response, pos, settledAtOpen, raced>>

-----------------------------------------------------------------------------
Download(l) == CheckDownload(l) \/ OpenForRead(l) \/ Read(l) \/ Size(l) \/ ReadRange(l)
HandleUpload(l) == CheckUpload(l) \/ OpenForWrite(l) \/ WriteSome(l) \/ Created(l)
HandleDelete(l) == CheckDelete(l) \/ DeleteFile(l)

Next ==
  \/ \E l \in Loop :
       \/ \E r \in Request : AnalyzeRequest(l, r)
       \/ Download(l) \/ HandleUpload(l) \/ HandleDelete(l) \/ HandleList(l) \/ Send(l)
  \/ Crash \/ Restart

Spec == Init /\ [][Next]_vars

-----------------------------------------------------------------------------
Response == [status : {1, 200, 201, 206, 404, 409}, body : Seq(Nat \cup File),
             length : Nat \cup {-1}, close : BOOLEAN]

(* Every variable has its type. *)
TypeOK == /\ DOMAIN disk \subseteq Path /\ \A p \in DOMAIN disk : disk[p] \in Seq(Nat)
          /\ up \in BOOLEAN /\ starts \in 1..MaxStarts
          /\ pc \in [Loop -> Places] /\ req \in [Loop -> Request]
          /\ response \in [Loop -> Response]
          /\ pos \in [Loop -> Nat] /\ settledAtOpen \in [Loop -> BOOLEAN]
          /\ raced \subseteq File

Answers(l, status) == up /\ pc[l] = "send" /\ response[l].status = status

(* A file nobody is storing any more is never written again, whatever       *)
(* uploads of the same name come, from whatever loop, before or after a     *)
(* restart: it keeps its bytes or is deleted (FileServer.cpp:104).          *)
SettledIsNeverOverwritten ==
  [][\A f \in File : Settled(f) =>
        \/ Settled(f)' /\ disk'[Stored(f)] = disk[Stored(f)]
        \/ ~Exists(Stored(f))']_vars

(* An upload that is answered 201 is stored byte for byte, unless another   *)
(* upload of the name had passed Exists before this one opened the file     *)
(* (FileServer.cpp:104-113).                                                *)
UploadIsStored ==
  \A l \in Loop : Answers(l, 201) /\ req[l].file \notin raced =>
                     disk[FileOf(l)] = req[l].body

(* A download of a file that was not being stored when it was opened has    *)
(* all of its bytes and says how many they are, although the size is asked  *)
(* twice and the bytes between (FileServer.cpp:86-87).                      *)
DownloadIsWhole ==
  \A l \in Loop : Answers(l, 200) /\ req[l].method # "LIST" /\ settledAtOpen[l] =>
                     /\ response[l].body = disk[Opened(l)]
                     /\ response[l].length = Len(disk[Opened(l)])
=============================================================================
