------------------------- MODULE BlobTransferProofs -------------------------
(***************************************************************************)
(* Proofs about BlobTransfer, for any members, connections, blobs and      *)
(* bounds, in every behaviour in which transfers keep apart.  Where they   *)
(* do not, ListedBlobNeverChanges is false, as a run shows.                *)
(*                                                                         *)
(* A handler is then sent only blobs that its room does not list, and      *)
(* while it is busy nobody else brings them.  So the file that it appends  *)
(* to is its own, and was empty.                                           *)
(***************************************************************************)
EXTENDS BlobTransfer, SequenceTheorems, WellFoundedInduction, TLAPS

------------------------------------------------------------------------------
(* The inductive invariants                                                *)

Sending(c) == client[c] \in {"stat", "open", "send"}
Receiving(c) == handler[c] \in {"count", "blocks"}

(* A transfer has a blob, and open files where it uses them.               *)
TypeInv ==
  /\ TypeOK
  /\ \A c \in Conn :
       /\ Sending(c) \/ Receiving(c) => todo[c] # {}
       /\ client[c] = "send" => from[c] # 0
       /\ handler[c] = "blocks" => to[c] # 0

(* Both ends are at matching places as long as they are connected, and the *)
(* client does not go on while the handler has a file open.                *)
StepsMatch ==
  \A c \in Conn :
    /\ link[c] => \/ client[c] = "dialed" /\ handler[c] \in {"idle", "offered"}
                  \/ client[c] = "stat" /\ handler[c] = "count"
                  \/ client[c] \in {"open", "send"} /\ Receiving(c)
                  \/ client[c] = "done" /\ handler[c] \in {"push", "reply"}
    /\ handler[c] = "blocks" => client[c] \in {"open", "send", "idle"}

OnlyPublished ==
  /\ \A n \in Node : room[n] \subseteq published /\ saved.room[n] \subseteq published
  /\ \A c \in Conn : batch[c] \subseteq published /\ todo[c] \subseteq published

(* What is being transferred is not in the room of the receiver yet, and   *)
(* what has been transferred is.                                           *)
BatchIsNew ==
  \A c \in Conn :
    /\ Receiving(c) =>
         /\ todo[c] \subseteq batch[c]
         /\ batch[c] \cap room[Dst[c]] = {}
    /\ handler[c] = "reply" => batch[c] \subseteq room[Dst[c]]

(* No file has two names, and the handler's file has the name of its blob. *)
FilesAreNamed ==
  /\ \A n, m \in Node : \A b, d \in Blob :
       name[n][b] # 0 /\ name[n][b] = name[m][d] => n = m /\ b = d
  /\ \A n \in Node : \A b \in Blob \ published : name[n][b] = 0
  /\ \A c \in Conn : handler[c] = "blocks" => to[c] = name[Dst[c]][Current(c)]

Writing(c, b) == handler[c] = "blocks" /\ b = Current(c)

(* A blob that exists is listed, or its messages are on their way.         *)
Arriving(c, b) ==
  /\ b \in batch[c]
  /\ handler[c] = "push" \/ Writing(c, b) \/ (Receiving(c) /\ b \notin todo[c])

FilesAreListed ==
  \A n \in Node, b \in Blob : Exists(n, b) =>
    b \in room[n] \/ \E c \in Conn : Dst[c] = n /\ Arriving(c, b)

(* Only the file that is being written may be cut short.                   *)
FilesAreWhole ==
  \A n \in Node, b \in Blob :
    Exists(n, b) => Content(n, b) = Whole(b) \/ \E c \in Conn : Dst[c] = n /\ Writing(c, b)

(* What the client has announced and reads is the whole blob.              *)
ReadsWhole(c) ==
  LET b == Current(c)
  IN
  /\ Sending(c) => todo[c] \subseteq room[Src[c]]
  /\ client[c] \in {"open", "send"} => Exists(Src[c], b) /\ count[c] = size[b]
  /\ client[c] = "send" => from[c] = name[Src[c]][b]
  /\ client[c] \in {"open", "send"} /\ handler[c] = "count" => pos[c] = 0

(* What the handler has written are the first pos blocks of it.            *)
WritesInOrder(c) ==
  handler[c] = "blocks" =>
    /\ count[c] = size[Current(c)] /\ pos[c] <= count[c]
    /\ file[to[c]] = Upload(pos[c])

(* What has been acknowledged is there.                                    *)
AckedExists(c) ==
  link[c] /\ (Receiving(c) \/ client[c] = "done") =>
    \A b \in batch[c] : Exists(Dst[c], b) \/ (Receiving(c) /\ b \in todo[c])

CopyInv ==
  stops = 0 =>
    /\ FilesAreListed /\ FilesAreWhole
    /\ \A c \in Conn : ReadsWhole(c) /\ WritesInOrder(c) /\ AckedExists(c)

------------------------------------------------------------------------------
(* The operators of the model                                              *)

(* A nonempty set of blobs has a first one.                                *)
LEMMA MinIsMember ==
  ASSUME NEW S, S \subseteq Nat, S # {}
  PROVE  Min(S) \in S
<1> DEFINE R == OpToRel(<, Nat)
<1>0. \A i, j \in Nat : i < j => <<i, j>> \in R
  BY DEF OpToRel
<1>1. PICK k \in S : \A y \in S : ~(<<y, k>> \in R)
  <2>1. IsWellFoundedOn(R, Nat)
    BY NatLessThanWellFounded
  <2> HIDE DEF R
  <2> QED
    BY <2>1, WFMin
<1> HIDE DEF R
<1>2. ASSUME NEW y \in S PROVE k <= y
  <2>1. y \in Nat /\ k \in Nat
    OBVIOUS
  <2>2. ~(y < k)
    BY <1>0, <1>1, <2>1, Zenon
  <2> QED
    BY <2>1, <2>2
<1> QED
  BY <1>2 DEF Min

LEMMA CurrentIsDue ==
  ASSUME TypeInv, NEW c \in Conn, todo[c] # {}
  PROVE  Current(c) \in todo[c] /\ Current(c) \in Blob
<1>1. todo[c] \subseteq Nat /\ todo[c] \subseteq Blob
  BY ConstantsAssumption DEF TypeInv, TypeOK
<1> QED
  BY <1>1, MinIsMember DEF Current

LEMMA UploadIsFile ==
  ASSUME NEW k \in 0..MaxSize
  PROVE  /\ Upload(k) \in Seq(1..MaxSize) /\ Len(Upload(k)) = k
         /\ \A i \in 1..k : Upload(k)[i] = i
<1>1. k \in Nat /\ \A i \in 1..k : i \in 1..MaxSize
  BY ConstantsAssumption
<1> DEFINE u == Upload(k)
<1>2. u \in [1..k -> 1..MaxSize]
  BY <1>1 DEF Upload
<1>3. \A i \in 1..k : u[i] = i
  BY DEF Upload
<1> HIDE DEF u
<1>4. u \in Seq(1..MaxSize) /\ Len(u) = k
  <2>1. u \in Seq(1..MaxSize)
    BY <1>1, <1>2, SeqDef
  <2>2. DOMAIN u = 1..k
    BY <1>2
  <2> QED
    BY <1>1, <2>1, <2>2, LenProperties
<1> QED
  BY <1>3, <1>4 DEF u

(* The next block of an upload makes the next upload.                      *)
LEMMA UploadGrows ==
  ASSUME NEW k \in Nat
  PROVE  Append(Upload(k), k + 1) = Upload(k + 1) /\ Upload(0) = <<>>
<1> DEFINE u == Upload(k)  v == Upload(k + 1)
<1>1. /\ u \in Seq(Nat) /\ Len(u) = k /\ \A i \in 1..k : u[i] = i
      /\ v \in Seq(Nat) /\ Len(v) = k + 1 /\ \A i \in 1..(k + 1) : v[i] = i
  BY DEF Upload
<1>2. Upload(0) = <<>>
  BY DEF Upload
<1> HIDE DEF u, v
<1>3. Append(u, k + 1) = v
  BY <1>1
<1> QED
  BY <1>2, <1>3 DEF u, v

(* The content of every file and the name of every blob but b at n stay.   *)
KeepsOthers(n, b) ==
  /\ Len(file) <= Len(file')
  /\ \A i \in 1..Len(file) : file'[i] = file[i]
  /\ \A m \in Node, d \in Blob : (m # n \/ d # b) => name'[m][d] = name[m][d]

StoreTyped ==
  /\ file \in Seq(Seq(1..MaxSize))
  /\ name \in [Node -> [Blob -> 0..Len(file)]]

LEMMA CreateEffect ==
  ASSUME StoreTyped, NEW n \in Node, NEW b \in Blob, NEW s \in Seq(1..MaxSize),
         Create(n, b, s)
  PROVE  /\ StoreTyped' /\ KeepsOthers(n, b)
         /\ name'[n][b] = Len(file) + 1 /\ Len(file') = Len(file) + 1
         /\ file'[Len(file) + 1] = s
<1>1. /\ file \in Seq(Seq(1..MaxSize)) /\ name \in [Node -> [Blob -> 0..Len(file)]]
      /\ file' = Append(file, s) /\ name' = [name EXCEPT ![n][b] = Len(file) + 1]
  BY DEF Create, StoreTyped
<1>2. /\ file' \in Seq(Seq(1..MaxSize)) /\ Len(file') = Len(file) + 1
      /\ file'[Len(file) + 1] = s /\ \A i \in 1..Len(file) : file'[i] = file[i]
      /\ Len(file) \in Nat
  BY <1>1
<1>3. /\ name' \in [Node -> [Blob -> 0..(Len(file) + 1)]]
      /\ name'[n][b] = Len(file) + 1
      /\ \A m \in Node, d \in Blob : (m # n \/ d # b) => name'[m][d] = name[m][d]
  BY <1>1, <1>2
<1> QED
  BY <1>2, <1>3 DEF StoreTyped, KeepsOthers

LEMMA FileFromIDEffect ==
  ASSUME StoreTyped, NEW n \in Node, NEW b \in Blob, FileFromID(n, b)
  PROVE  /\ StoreTyped' /\ KeepsOthers(n, b)
         /\ FileID(n, b) \in 1..Len(file') /\ name'[n][b] = FileID(n, b)
         /\ name[n][b] # 0 => UNCHANGED storeVars /\ FileID(n, b) = name[n][b]
         /\ name[n][b] = 0 => FileID(n, b) = Len(file) + 1 /\ file'[FileID(n, b)] = <<>>
<1>0. Len(file) \in Nat /\ name[n][b] \in 0..Len(file)
  BY DEF StoreTyped
<1>1. CASE name[n][b] = 0
  <2>1. Create(n, b, <<>>) /\ <<>> \in Seq(1..MaxSize)
    BY <1>1 DEF FileFromID
  <2>2. /\ StoreTyped' /\ KeepsOthers(n, b)
        /\ name'[n][b] = Len(file) + 1 /\ Len(file') = Len(file) + 1
        /\ file'[Len(file) + 1] = <<>>
    BY <2>1, CreateEffect
  <2>3. FileID(n, b) = Len(file) + 1
    BY <1>1 DEF FileID
  <2> QED
    BY <1>0, <1>1, <2>2, <2>3
<1>2. CASE name[n][b] # 0
  BY <1>0, <1>2 DEF FileFromID, FileID, StoreTyped, KeepsOthers, storeVars
<1> QED
  BY <1>1, <1>2

LEMMA RemoveBlobEffect ==
  ASSUME StoreTyped, NEW n \in Node, NEW b \in Blob, RemoveBlob(n, b)
  PROVE  /\ StoreTyped' /\ KeepsOthers(n, b) /\ file' = file
         /\ name'[n][b] = 0
BY DEF RemoveBlob, StoreTyped, KeepsOthers

LEMMA CleanUpEffect ==
  ASSUME TypeInv, NEW c \in Conn, CleanUp(c)
  PROVE  /\ StoreTyped' /\ file' = file
         /\ \/ UNCHANGED storeVars /\ ~(handler[c] = "blocks" /\ pos[c] < count[c])
            \/ /\ handler[c] = "blocks" /\ pos[c] < count[c]
               /\ KeepsOthers(Dst[c], Current(c)) /\ name'[Dst[c]][Current(c)] = 0
<1>1. StoreTyped
  BY DEF StoreTyped, TypeInv, TypeOK
<1>2. CASE handler[c] = "blocks" /\ pos[c] < count[c]
  <2>1. RemoveBlob(Dst[c], Current(c)) /\ Dst[c] \in Node
    BY <1>2, ConstantsAssumption DEF CleanUp
  <2>2. Current(c) \in Blob
    BY <1>2, CurrentIsDue DEF TypeInv, Receiving
  <2> QED
    BY <1>1, <1>2, <2>1, <2>2, RemoveBlobEffect
<1>3. CASE ~(handler[c] = "blocks" /\ pos[c] < count[c])
  BY <1>1, <1>3 DEF CleanUp, StoreTyped, storeVars
<1> QED
  BY <1>2, <1>3

------------------------------------------------------------------------------
(* Types                                                                   *)

LEMMA TypeInit == Init => TypeInv
BY ConstantsAssumption, EmptySeq DEF Init, TypeInv, TypeOK, Queue, Sending, Receiving

LEMMA TypeDial == ASSUME TypeInv, NEW c \in Conn, Dial(c) PROVE TypeInv'
BY ConstantsAssumption DEF TypeInv, TypeOK, Sending, Receiving, Dial, storeVars,
     roomVars, stepVars, batchVars, copyVars, Queue, QueueOf

LEMMA TypeSendBatch == ASSUME TypeInv, NEW c \in Conn, SendBatch(c) PROVE TypeInv'
BY ConstantsAssumption DEF TypeInv, TypeOK, Sending, Receiving, SendBatch,
     storeVars, roomVars, stepVars, batchVars, copyVars

LEMMA TypeStat == ASSUME TypeInv, NEW c \in Conn, Stat(c) PROVE TypeInv'
<1> DEFINE s == file[name[Src[c]][Current(c)]]
<1>1. todo[c] # {}
  BY DEF Stat, TypeInv, Sending
<1>2. Current(c) \in Blob /\ Src[c] \in Node
  BY <1>1, CurrentIsDue, ConstantsAssumption
<1>3. name[Src[c]][Current(c)] \in 1..Len(file)
  BY <1>2 DEF Stat, TypeInv, TypeOK
<1>4. Len(s) \in Nat
  <2>1. s \in Seq(1..MaxSize)
    BY <1>3, ElementOfSeq DEF TypeInv, TypeOK
  <2> QED
    BY <2>1, LenProperties
<1>5. /\ count' = [count EXCEPT ![c] = Len(s)] /\ pos' = [pos EXCEPT ![c] = 0]
      /\ client' = [client EXCEPT ![c] = "open"] /\ client[c] = "stat"
      /\ UNCHANGED <<storeVars, roomVars, handler, link, batchVars, from, to, fails, stops>>
  BY DEF Stat
<1> HIDE DEF s
<1>6. count' \in [Conn -> Nat] /\ pos' \in [Conn -> Nat]
  BY <1>4, <1>5 DEF TypeInv, TypeOK
<1> QED
  BY <1>5, <1>6 DEF TypeInv, TypeOK, Sending, Receiving, storeVars, roomVars, batchVars

LEMMA TypeStatFails == ASSUME TypeInv, NEW c \in Conn, StatFails(c) PROVE TypeInv'
BY ConstantsAssumption DEF TypeInv, TypeOK, Sending, Receiving, StatFails,
     storeVars, roomVars, stepVars, batchVars, copyVars

LEMMA TypeReadFails == ASSUME TypeInv, NEW c \in Conn, ReadFails(c) PROVE TypeInv'
BY ConstantsAssumption DEF TypeInv, TypeOK, Sending, Receiving, ReadFails,
     storeVars, roomVars, stepVars, batchVars, copyVars

LEMMA TypeSyncDone == ASSUME TypeInv, NEW c \in Conn, SyncDone(c) PROVE TypeInv'
BY ConstantsAssumption DEF TypeInv, TypeOK, Sending, Receiving, SyncDone,
     storeVars, roomVars, stepVars, batchVars, copyVars, Queue, QueueOf

LEMMA TypeSyncError == ASSUME TypeInv, NEW c \in Conn, SyncError(c) PROVE TypeInv'
BY ConstantsAssumption DEF TypeInv, TypeOK, Sending, Receiving, SyncError,
     storeVars, roomVars, stepVars, batchVars, copyVars

LEMMA TypeOffer == ASSUME TypeInv, NEW c \in Conn, Offer(c) PROVE TypeInv'
BY ConstantsAssumption DEF TypeInv, TypeOK, Sending, Receiving, Offer, storeVars,
     roomVars, stepVars, batchVars, copyVars

LEMMA TypeBlobOk == ASSUME TypeInv, NEW c \in Conn, BlobOk(c) PROVE TypeInv'
BY ConstantsAssumption DEF TypeInv, TypeOK, Sending, Receiving, BlobOk, storeVars,
     roomVars, stepVars, batchVars, copyVars

LEMMA TypePush == ASSUME TypeInv, NEW c \in Conn, Push(c) PROVE TypeInv'
BY ConstantsAssumption DEF TypeInv, TypeOK, Sending, Receiving, Push, storeVars,
     roomVars, stepVars, batchVars, copyVars

LEMMA TypeReplyLost == ASSUME TypeInv, NEW c \in Conn, ReplyLost(c) PROVE TypeInv'
BY ConstantsAssumption DEF TypeInv, TypeOK, Sending, Receiving, ReplyLost,
     storeVars, roomVars, stepVars, batchVars, copyVars

LEMMA TypeBreak == ASSUME TypeInv, NEW c \in Conn, Break(c) PROVE TypeInv'
BY ConstantsAssumption DEF TypeInv, TypeOK, Sending, Receiving, Break, storeVars,
     roomVars, stepVars, batchVars, copyVars

LEMMA OpenFilesStay ==
  ASSUME TypeInv, Len(file) \in Nat, Len(file') \in Nat, Len(file) <= Len(file')
  PROVE  from \in [Conn -> 0..Len(file')] /\ to \in [Conn -> 0..Len(file')]
BY DEF TypeInv, TypeOK

LEMMA TypeOpen == ASSUME TypeInv, NEW c \in Conn, Open(c) PROVE TypeInv'
<1>1. todo[c] # {}
  BY DEF Open, TypeInv, Sending, Receiving
<1>2. Current(c) \in Blob /\ Src[c] \in Node /\ Dst[c] \in Node /\ StoreTyped
  BY <1>1, CurrentIsDue, ConstantsAssumption DEF TypeInv, TypeOK, StoreTyped
<1> DEFINE k == FileID(Src[c], Current(c))
<1>3. StoreTyped' /\ Len(file) <= Len(file') /\ k \in 1..Len(file')
  BY <1>2, FileFromIDEffect DEF Open, KeepsOthers
<1>4. Len(file) \in Nat /\ Len(file') \in Nat
  BY <1>2, <1>3 DEF StoreTyped
<1>5. /\ from' = [from EXCEPT ![c] = k] /\ client' = [client EXCEPT ![c] = "send"]
      /\ UNCHANGED <<roomVars, handler, link, batchVars, count, pos, to, fails, stops>>
  BY DEF Open
<1> HIDE DEF k
<1>6. from' \in [Conn -> 0..Len(file')] /\ to' \in [Conn -> 0..Len(file')] /\ from'[c] # 0
      /\ \A d \in Conn \ {c} : from'[d] = from[d]
  BY <1>3, <1>4, <1>5, OpenFilesStay DEF TypeInv, TypeOK
<1>7. /\ client' \in [Conn -> {"idle", "dialed", "stat", "open", "send", "done"}]
      /\ \A d \in Conn \ {c} : client'[d] = client[d]
  BY <1>5 DEF TypeInv, TypeOK
<1> QED
  BY <1>1, <1>3, <1>5, <1>6, <1>7 DEF TypeInv, TypeOK, StoreTyped, Sending,
       Receiving, roomVars,
     batchVars

LEMMA TypeRecvCount == ASSUME TypeInv, NEW c \in Conn, RecvCount(c) PROVE TypeInv'
<1>1. todo[c] # {}
  BY DEF RecvCount, TypeInv, Sending, Receiving
<1>2. Current(c) \in Blob /\ Src[c] \in Node /\ Dst[c] \in Node /\ StoreTyped
  BY <1>1, CurrentIsDue, ConstantsAssumption DEF TypeInv, TypeOK, StoreTyped
<1> DEFINE k == FileID(Dst[c], Current(c))
<1>3. StoreTyped' /\ Len(file) <= Len(file') /\ k \in 1..Len(file')
  BY <1>2, FileFromIDEffect DEF RecvCount, KeepsOthers
<1>4. Len(file) \in Nat /\ Len(file') \in Nat
  BY <1>2, <1>3 DEF StoreTyped
<1>5. /\ to' = [to EXCEPT ![c] = k] /\ handler' = [handler EXCEPT ![c] = "blocks"]
      /\ UNCHANGED <<roomVars, client, link, batchVars, count, pos, from, fails, stops>>
  BY DEF RecvCount
<1> HIDE DEF k
<1>6. from' \in [Conn -> 0..Len(file')] /\ to' \in [Conn -> 0..Len(file')] /\ to'[c] # 0
      /\ \A d \in Conn \ {c} : to'[d] = to[d]
  BY <1>3, <1>4, <1>5, OpenFilesStay DEF TypeInv, TypeOK
<1>7. /\ handler' \in [Conn -> {"idle", "offered", "count", "blocks", "push", "reply"}]
      /\ \A d \in Conn \ {c} : handler'[d] = handler[d]
  BY <1>5 DEF TypeInv, TypeOK
<1> QED
  BY <1>1, <1>3, <1>5, <1>6, <1>7 DEF TypeInv, TypeOK, StoreTyped, Sending,
       Receiving, roomVars,
     batchVars

LEMMA BlockEffect ==
  ASSUME TypeInv, NEW c \in Conn, Block(c)
  PROVE  /\ StoreTyped' /\ name' = name /\ Len(file') = Len(file)
         /\ to[c] \in 1..Len(file)
         /\ \A i \in 1..Len(file) : i # to[c] => file'[i] = file[i]
         /\ file'[to[c]] = Append(file[to[c]], file[from[c]][pos[c] + 1])
<1>1. /\ to[c] \in 1..Len(file) /\ from[c] \in 1..Len(file)
      /\ pos[c] \in Nat /\ pos[c] < Len(file[from[c]])
      /\ file \in Seq(Seq(1..MaxSize)) /\ Len(file) \in Nat
  <2>1. to[c] # 0 /\ from[c] # 0 /\ to[c] \in 0..Len(file) /\ from[c] \in 0..Len(file)
    BY DEF Block, TypeInv, TypeOK
  <2>2. file \in Seq(Seq(1..MaxSize)) /\ Len(file) \in Nat
    BY LenProperties DEF TypeInv, TypeOK
  <2>3. pos[c] \in Nat
    BY DEF TypeInv, TypeOK
  <2>4. pos[c] < Len(file[from[c]])
    BY DEF Block
  <2> QED
    BY <2>1, <2>2, <2>3, <2>4
<1> DEFINE r == file[from[c]]  w == file[to[c]]  e == r[pos[c] + 1]
<1>2. r \in Seq(1..MaxSize) /\ w \in Seq(1..MaxSize)
  BY <1>1, ElementOfSeq
<1>3. e \in 1..MaxSize
  <2>1. Len(r) \in Nat /\ pos[c] + 1 \in 1..Len(r)
    BY <1>1, <1>2, LenProperties
  <2> QED
    BY <1>2, <2>1, ElementOfSeq
<1>4. file' = [file EXCEPT ![to[c]] = Append(w, e)] /\ name' = name
  BY DEF Block
<1>5. Append(w, e) \in Seq(1..MaxSize)
  BY <1>2, <1>3
<1> DEFINE u == Append(w, e)
<1> HIDE DEF w, e, u
<1>6. /\ file' \in Seq(Seq(1..MaxSize)) /\ Len(file') = Len(file)
      /\ file'[to[c]] = u /\ \A i \in 1..Len(file) : i # to[c] => file'[i] = file[i]
  BY <1>1, <1>4, <1>5 DEF u
<1>7. name \in [Node -> [Blob -> 0..Len(file)]]
  BY DEF TypeInv, TypeOK
<1> QED
  BY <1>1, <1>4, <1>6, <1>7 DEF StoreTyped, u, w, e

LEMMA TypeBlock == ASSUME TypeInv, NEW c \in Conn, Block(c) PROVE TypeInv'
<1>1. StoreTyped' /\ name' = name /\ Len(file') = Len(file)
  BY BlockEffect
<1>2. /\ pos' = [pos EXCEPT ![c] = @ + 1]
      /\ UNCHANGED <<roomVars, stepVars, batchVars, count, from, to, fails, stops>>
  BY DEF Block
<1>3. /\ pos' \in [Conn -> Nat]
      /\ from' \in [Conn -> 0..Len(file')] /\ to' \in [Conn -> 0..Len(file')]
  BY <1>1, <1>2 DEF TypeInv, TypeOK
<1> QED
  BY <1>1, <1>2, <1>3 DEF TypeInv, TypeOK, StoreTyped, Sending, Receiving,
       roomVars, stepVars, batchVars

LEMMA TypeRecvFails == ASSUME TypeInv, NEW c \in Conn, RecvFails(c) PROVE TypeInv'
<1>1. StoreTyped' /\ file' = file
  BY CleanUpEffect DEF RecvFails
<1> QED
  BY <1>1, ConstantsAssumption DEF RecvFails, TypeInv, TypeOK, StoreTyped,
       Sending, Receiving, storeVars, roomVars, stepVars, batchVars, copyVars

LEMMA TypeWriteFails == ASSUME TypeInv, NEW c \in Conn, WriteFails(c) PROVE TypeInv'
<1>1. StoreTyped' /\ file' = file
  BY CleanUpEffect DEF WriteFails
<1> QED
  BY <1>1, ConstantsAssumption DEF WriteFails, TypeInv, TypeOK, StoreTyped,
       Sending, Receiving, storeVars, roomVars, stepVars, batchVars, copyVars

LEMMA TypeSendFile == ASSUME TypeInv, NEW b \in Blob, SendFile(b) PROVE TypeInv'
<1>1. PICK k \in 0..MaxSize : /\ Create(Author[b], b, Upload(k))
                              /\ size' = [size EXCEPT ![b] = k]
  BY DEF SendFile
<1>2. Author[b] \in Node /\ StoreTyped
  BY ConstantsAssumption DEF TypeInv, TypeOK, StoreTyped
<1>3. StoreTyped' /\ Len(file') = Len(file) + 1
  BY <1>1, <1>2, CreateEffect, UploadIsFile
<1>4. from \in [Conn -> 0..Len(file')] /\ to \in [Conn -> 0..Len(file')]
  BY <1>2, <1>3, OpenFilesStay DEF StoreTyped
<1>5. /\ size' \in [Blob -> 0..MaxSize] /\ published' \subseteq Blob
      /\ room' \in [Node -> SUBSET Blob]
  BY <1>1, <1>2 DEF SendFile, TypeInv, TypeOK
<1>6. UNCHANGED <<lastSync, saved, stepVars, batchVars, copyVars, fails, stops>>
  BY DEF SendFile
<1> QED
  BY <1>3, <1>4, <1>5, <1>6 DEF TypeInv, TypeOK, StoreTyped, Sending, Receiving, stepVars,
     batchVars, copyVars

LEMMA TypeKill == 
  ASSUME TypeInv, NEW n \in Node, Crash(n) \/ Exit(n)
  PROVE  TypeInv'
<1>1. /\ stops' \in 0..MaxStop
      /\ client' = [c \in Conn |-> IF Src[c] = n THEN "idle" ELSE client[c]]
      /\ handler' = [c \in Conn |-> IF Dst[c] = n THEN "idle" ELSE handler[c]]
      /\ link' = [c \in Conn |-> link[c] /\ n \notin {Src[c], Dst[c]}]
      /\ UNCHANGED <<storeVars, published, size, batchVars, copyVars, fails>>
  BY ConstantsAssumption DEF Crash, Exit, Kill, TypeInv, TypeOK
<1>2. /\ room' \in [Node -> SUBSET Blob]
      /\ lastSync' \in [Queue -> SUBSET Blob]
      /\ saved' \in [room : [Node -> SUBSET Blob], lastSync : [Queue -> SUBSET Blob]]
  <2>1. /\ room \in [Node -> SUBSET Blob] /\ lastSync \in [Queue -> SUBSET Blob]
        /\ saved \in [room : [Node -> SUBSET Blob], lastSync : [Queue -> SUBSET Blob]]
        /\ saved.room \in [Node -> SUBSET Blob] /\ saved.lastSync \in [Queue -> SUBSET Blob]
    BY DEF TypeInv, TypeOK
  <2>2. CASE Crash(n)
    BY <2>1, <2>2 DEF Crash
  <2>3. CASE Exit(n)
    <3> DEFINE r == [saved.room EXCEPT ![n] = room[n]]
               l == [q \in Queue |-> IF q[1] = n THEN lastSync[q] ELSE saved.lastSync[q]]
    <3>1. r \in [Node -> SUBSET Blob] /\ l \in [Queue -> SUBSET Blob]
      BY <2>1
    <3>2. saved' = [room |-> r, lastSync |-> l] /\ room' = room /\ lastSync' = lastSync
      BY <2>3 DEF Exit
    <3> HIDE DEF r, l
    <3> QED
      BY <2>1, <3>1, <3>2
  <2> QED
    BY <2>2, <2>3
<1>3. /\ client' \in [Conn -> {"idle", "dialed", "stat", "open", "send", "done"}]
      /\ handler' \in [Conn -> {"idle", "offered", "count", "blocks", "push", "reply"}]
      /\ link' \in [Conn -> BOOLEAN]
  BY <1>1 DEF TypeInv, TypeOK
<1> QED
  BY <1>1, <1>2, <1>3 DEF TypeInv, TypeOK, StoreTyped, Sending, Receiving,
       storeVars, roomVars, stepVars, batchVars, copyVars

(* The disjuncts of Next.                                                  *)
LEMMA NextSteps ==
  ASSUME Next
  PROVE  \/ \E b \in Blob : SendFile(b)
         \/ \E c \in Conn : \/ Dial(c) \/ SendBatch(c) \/ Stat(c) \/ StatFails(c)
                            \/ Open(c) \/ ReadFails(c) \/ SyncDone(c) \/ SyncError(c)
                            \/ Offer(c) \/ RecvCount(c) \/ Block(c) \/ BlobOk(c)
                            \/ RecvFails(c) \/ WriteFails(c) \/ Push(c) \/ ReplyLost(c)
                            \/ Break(c)
         \/ \E n \in Node : Crash(n) \/ Exit(n)
BY DEF Next, ConnNext

LEMMA TypeNext == TypeInv /\ [Next]_vars => TypeInv'
<1> SUFFICES ASSUME TypeInv, [Next]_vars PROVE TypeInv'
  OBVIOUS
<1>1. CASE UNCHANGED vars
  BY <1>1 DEF vars, storeVars, roomVars, stepVars, batchVars, copyVars, TypeInv, TypeOK,
     Sending, Receiving
<1>2. CASE Next
  BY <1>2, NextSteps, TypeSendFile, TypeDial, TypeSendBatch, TypeStat, TypeStatFails, TypeOpen,
     TypeReadFails, TypeSyncDone, TypeSyncError, TypeOffer, TypeRecvCount, TypeBlock, TypeBlobOk,
     TypeRecvFails, TypeWriteFails, TypePush, TypeReplyLost, TypeBreak, TypeKill
<1> QED
  BY <1>1, <1>2

LEMMA TypeInvariant == Spec => []TypeInv
BY TypeInit, TypeNext, PTL DEF Spec

(* The state keeps its types, whatever fails, crashes or exits; sizes and  *)
(* counters stay within their bounds.                                      *)
THEOREM TypeCorrect == Spec => []TypeOK
<1>1. TypeInv => TypeOK
  BY DEF TypeInv
<1> QED
  BY <1>1, TypeInvariant, PTL

------------------------------------------------------------------------------
(* Both ends are at matching places                                        *)

LEMMA StepsDial == ASSUME TypeInv, StepsMatch, NEW c \in Conn, Dial(c) PROVE StepsMatch'
BY DEF Dial, TypeInv, TypeOK, StepsMatch, Receiving, stepVars

LEMMA StepsSendBatch == ASSUME TypeInv, StepsMatch, NEW c \in Conn, SendBatch(c) PROVE StepsMatch'
BY DEF SendBatch, TypeInv, TypeOK, StepsMatch, Receiving, stepVars

LEMMA StepsStat == ASSUME TypeInv, StepsMatch, NEW c \in Conn, Stat(c) PROVE StepsMatch'
BY DEF Stat, TypeInv, TypeOK, StepsMatch, Receiving, stepVars

LEMMA StepsStatFails == ASSUME TypeInv, StepsMatch, NEW c \in Conn, StatFails(c) PROVE StepsMatch'
BY DEF StatFails, TypeInv, TypeOK, StepsMatch, Receiving, stepVars

LEMMA StepsOpen == ASSUME TypeInv, StepsMatch, NEW c \in Conn, Open(c) PROVE StepsMatch'
BY DEF Open, TypeInv, TypeOK, StepsMatch, Receiving, stepVars

LEMMA StepsReadFails == ASSUME TypeInv, StepsMatch, NEW c \in Conn, ReadFails(c) PROVE StepsMatch'
BY DEF ReadFails, TypeInv, TypeOK, StepsMatch, Receiving, stepVars

LEMMA StepsSyncDone == ASSUME TypeInv, StepsMatch, NEW c \in Conn, SyncDone(c) PROVE StepsMatch'
BY DEF SyncDone, TypeInv, TypeOK, StepsMatch, Receiving, stepVars

LEMMA StepsSyncError == ASSUME TypeInv, StepsMatch, NEW c \in Conn, SyncError(c) PROVE StepsMatch'
BY DEF SyncError, TypeInv, TypeOK, StepsMatch, Receiving, stepVars

LEMMA StepsOffer == ASSUME TypeInv, StepsMatch, NEW c \in Conn, Offer(c) PROVE StepsMatch'
BY DEF Offer, TypeInv, TypeOK, StepsMatch, Receiving, stepVars

LEMMA StepsRecvCount == ASSUME TypeInv, StepsMatch, NEW c \in Conn, RecvCount(c) PROVE StepsMatch'
BY DEF RecvCount, TypeInv, TypeOK, StepsMatch, Receiving, stepVars

LEMMA StepsBlock == ASSUME TypeInv, StepsMatch, NEW c \in Conn, Block(c) PROVE StepsMatch'
BY DEF Block, TypeInv, TypeOK, StepsMatch, Receiving, stepVars

LEMMA StepsBlobOk == ASSUME TypeInv, StepsMatch, NEW c \in Conn, BlobOk(c) PROVE StepsMatch'
BY DEF BlobOk, TypeInv, TypeOK, StepsMatch, Receiving, stepVars

LEMMA StepsRecvFails == ASSUME TypeInv, StepsMatch, NEW c \in Conn, RecvFails(c) PROVE StepsMatch'
BY DEF RecvFails, TypeInv, TypeOK, StepsMatch, Receiving, stepVars

LEMMA StepsWriteFails == ASSUME TypeInv, StepsMatch, NEW c \in Conn, WriteFails(c) PROVE StepsMatch'
BY DEF WriteFails, TypeInv, TypeOK, StepsMatch, Receiving, stepVars

LEMMA StepsPush == ASSUME TypeInv, StepsMatch, NEW c \in Conn, Push(c) PROVE StepsMatch'
BY DEF Push, TypeInv, TypeOK, StepsMatch, Receiving, stepVars

LEMMA StepsReplyLost == ASSUME TypeInv, StepsMatch, NEW c \in Conn, ReplyLost(c) PROVE StepsMatch'
BY DEF ReplyLost, TypeInv, TypeOK, StepsMatch, Receiving, stepVars

LEMMA StepsBreak == ASSUME TypeInv, StepsMatch, NEW c \in Conn, Break(c) PROVE StepsMatch'
BY DEF Break, TypeInv, TypeOK, StepsMatch, Receiving, stepVars

LEMMA KillEffect ==
  ASSUME TypeInv, NEW n \in Node, Crash(n) \/ Exit(n)
  PROVE  /\ stops' # 0
         /\ \A c \in Conn :
              /\ link'[c] => link[c] /\ Src[c] # n /\ Dst[c] # n
              /\ client'[c] = IF Src[c] = n THEN "idle" ELSE client[c]
              /\ handler'[c] = IF Dst[c] = n THEN "idle" ELSE handler[c]
         /\ UNCHANGED <<storeVars, published, size, batchVars, copyVars, fails>>
<1>1. Kill(n) /\ stops \in Nat /\ link \in [Conn -> BOOLEAN]
  BY ConstantsAssumption DEF Crash, Exit, TypeInv, TypeOK
<1>2. /\ stops' = stops + 1
      /\ client' = [c \in Conn |-> IF Src[c] = n THEN "idle" ELSE client[c]]
      /\ handler' = [c \in Conn |-> IF Dst[c] = n THEN "idle" ELSE handler[c]]
      /\ link' = [c \in Conn |-> link[c] /\ n \notin {Src[c], Dst[c]}]
      /\ UNCHANGED <<storeVars, published, size, batchVars, copyVars, fails>>
  BY <1>1, Zenon DEF Kill
<1>3. ASSUME NEW c \in Conn, link'[c] PROVE link[c] /\ Src[c] # n /\ Dst[c] # n
  BY <1>2, <1>3, Zenon
<1> QED
  BY <1>1, <1>2, <1>3

LEMMA StepsKill ==
  ASSUME TypeInv, StepsMatch, NEW n \in Node, Crash(n) \/ Exit(n) PROVE StepsMatch'
BY KillEffect DEF StepsMatch, Receiving

LEMMA StepsSendFile ==
  ASSUME TypeInv, StepsMatch, NEW b \in Blob, SendFile(b) PROVE StepsMatch'
BY DEF SendFile, StepsMatch, Receiving, stepVars

LEMMA StepsNext ==
  ASSUME TypeInv, StepsMatch, Next PROVE StepsMatch'
BY NextSteps, StepsSendFile, StepsKill, StepsDial, StepsSendBatch, StepsStat, StepsStatFails,
   StepsOpen, StepsReadFails, StepsSyncDone, StepsSyncError, StepsOffer, StepsRecvCount,
   StepsBlock, StepsBlobOk, StepsRecvFails, StepsWriteFails, StepsPush, StepsReplyLost,
   StepsBreak

------------------------------------------------------------------------------
(* What is transferred is new to the receiver                              *)

BatchInv == OnlyPublished /\ BatchIsNew

(* No step but these changes a room or a batch, and no other handler       *)
(* begins or ends a transfer.                                              *)
LEMMA BatchStays ==
  ASSUME BatchInv, UNCHANGED <<room, saved, published, batchVars>>,
         \A c \in Conn : /\ handler'[c] \in {"count", "blocks"} => Receiving(c)
                         /\ handler'[c] = "reply" => handler[c] = "reply"
  PROVE  BatchInv'
<1>1. OnlyPublished'
  BY DEF BatchInv, OnlyPublished, batchVars
<1>2. BatchIsNew'
  BY DEF BatchInv, BatchIsNew, Receiving, batchVars
<1> QED
  BY <1>1, <1>2 DEF BatchInv

LEMMA BatchSmallSteps ==
  ASSUME TypeInv, BatchInv, NEW c \in Conn,
         \/ Dial(c) \/ Stat(c) \/ StatFails(c) \/ Open(c)
         \/ ReadFails(c) \/ SyncDone(c) \/ SyncError(c) \/ RecvCount(c)
         \/ Block(c) \/ RecvFails(c) \/ WriteFails(c) \/ ReplyLost(c)
         \/ Break(c)
  PROVE  BatchInv'
<1>1. CASE Dial(c)
  BY <1>1, BatchStays DEF Dial, TypeInv, TypeOK, Receiving, roomVars, stepVars, batchVars
<1>2. CASE Stat(c)
  BY <1>2, BatchStays DEF Stat, TypeInv, TypeOK, Receiving, roomVars, stepVars, batchVars
<1>3. CASE StatFails(c)
  BY <1>3, BatchStays DEF StatFails, TypeInv, TypeOK, Receiving, roomVars,
       stepVars, batchVars
<1>4. CASE Open(c)
  BY <1>4, BatchStays DEF Open, TypeInv, TypeOK, Receiving, roomVars, stepVars, batchVars
<1>5. CASE ReadFails(c)
  BY <1>5, BatchStays DEF ReadFails, TypeInv, TypeOK, Receiving, roomVars,
       stepVars, batchVars
<1>6. CASE SyncDone(c)
  BY <1>6, BatchStays DEF SyncDone, TypeInv, TypeOK, Receiving, roomVars,
       stepVars, batchVars
<1>7. CASE SyncError(c)
  BY <1>7, BatchStays DEF SyncError, TypeInv, TypeOK, Receiving, roomVars,
       stepVars, batchVars
<1>8. CASE RecvCount(c)
  BY <1>8, BatchStays DEF RecvCount, TypeInv, TypeOK, Receiving, roomVars,
       stepVars, batchVars
<1>9. CASE Block(c)
  BY <1>9, BatchStays DEF Block, TypeInv, TypeOK, Receiving, roomVars, stepVars, batchVars
<1>10. CASE RecvFails(c)
  BY <1>10, BatchStays DEF RecvFails, TypeInv, TypeOK, Receiving, roomVars,
       stepVars, batchVars
<1>11. CASE WriteFails(c)
  BY <1>11, BatchStays DEF WriteFails, TypeInv, TypeOK, Receiving, roomVars,
       stepVars, batchVars
<1>12. CASE ReplyLost(c)
  BY <1>12, BatchStays DEF ReplyLost, TypeInv, TypeOK, Receiving, roomVars,
       stepVars, batchVars
<1>13. CASE Break(c)
  BY <1>13, BatchStays DEF Break, TypeInv, TypeOK, Receiving, roomVars, stepVars,
       batchVars
<1> QED
  BY <1>1, <1>2, <1>3, <1>4, <1>5, <1>6, <1>7, <1>8, <1>9, <1>10, <1>11, <1>12, <1>13

(* What the offer does not name is not in the room of the receiver.        *)
LEMMA BatchSendBatch ==
  ASSUME TypeInv, TransfersApart, BatchInv, NEW c \in Conn, SendBatch(c)
  PROVE  BatchInv'
<1> DEFINE new == room[Src[c]] \ have[c]
<1>0. /\ Src[c] \in Node /\ Dst[c] \in Node /\ new \subseteq room[Src[c]]
  BY ConstantsAssumption
<1>1. /\ batch' = [batch EXCEPT ![c] = new] /\ todo' = [todo EXCEPT ![c] = new]
      /\ handler[c] = "offered" /\ link[c]
      /\ handler' = [handler EXCEPT ![c] = IF new = {} THEN "push" ELSE "count"]
      /\ UNCHANGED <<room, saved, published, have>>
  BY DEF SendBatch, roomVars
<1>2. new \cap room[Dst[c]] = {}
  BY <1>1 DEF TransfersApart
<1>3. new \subseteq published
  BY <1>0 DEF BatchInv, OnlyPublished
<1> HIDE DEF new
<1>4. OnlyPublished'
  BY <1>1, <1>3 DEF BatchInv, OnlyPublished, TypeInv, TypeOK
<1>5. BatchIsNew'
  BY <1>1, <1>2 DEF BatchInv, BatchIsNew, Receiving, TypeInv, TypeOK
<1> QED
  BY <1>4, <1>5 DEF BatchInv

LEMMA BatchOffer ==
  ASSUME TypeInv, BatchInv, NEW c \in Conn, Offer(c)
  PROVE  BatchInv'
BY DEF Offer, BatchInv, OnlyPublished, BatchIsNew, Receiving, TypeInv, TypeOK, roomVars

LEMMA BatchBlobOk ==
  ASSUME TypeInv, BatchInv, NEW c \in Conn, BlobOk(c)
  PROVE  BatchInv'
<1> DEFINE rest == todo[c] \ {Current(c)}
<1>1. /\ todo' = [todo EXCEPT ![c] = rest] /\ handler[c] = "blocks"
      /\ handler' = [handler EXCEPT ![c] = IF rest = {} THEN "push" ELSE "count"]
      /\ UNCHANGED <<room, saved, published, batch>> /\ rest \subseteq todo[c]
  BY DEF BlobOk, roomVars
<1> HIDE DEF rest
<1>2. OnlyPublished'
  BY <1>1 DEF BatchInv, OnlyPublished, TypeInv, TypeOK
<1>3. BatchIsNew'
  BY <1>1 DEF BatchInv, BatchIsNew, Receiving, TypeInv, TypeOK
<1> QED
  BY <1>2, <1>3 DEF BatchInv

(* No other handler of the member has been promised what is pushed.        *)
LEMMA BatchPush ==
  ASSUME TypeInv, TransfersApart, BatchInv, NEW c \in Conn, Push(c)
  PROVE  BatchInv'
<1>1. /\ room'[Dst[c]] = room[Dst[c]] \cup batch[c]
      /\ \A n \in Node \ {Dst[c]} : room'[n] = room[n]
      /\ handler[c] = "push" /\ handler'[c] = "reply"
      /\ \A d \in Conn \ {c} : handler'[d] = handler[d]
      /\ UNCHANGED <<saved, published, batchVars>>
  BY ConstantsAssumption DEF Push, TypeInv, TypeOK
<1>2. OnlyPublished'
  BY <1>1 DEF BatchInv, OnlyPublished, batchVars
<1>3. ASSUME NEW d \in Conn
      PROVE  /\ Receiving(d)' => todo[d] \subseteq batch[d] /\ batch[d] \cap room'[Dst[d]] = {}
             /\ handler'[d] = "reply" => batch[d] \subseteq room'[Dst[d]]
  <2>1. CASE d = c
    BY <1>1, <2>1 DEF Receiving
  <2>2. CASE d # c /\ Dst[d] # Dst[c]
    BY <1>1, <2>2, ConstantsAssumption DEF BatchInv, BatchIsNew, Receiving
  <2>3. CASE d # c /\ Dst[d] = Dst[c]
    <3>1. Receiving(d) => batch[d] \cap batch[c] = {}
      BY <1>1, <2>3 DEF TransfersApart, Transferring, Receiving
    <3> QED
      BY <1>1, <2>3, <3>1 DEF BatchInv, BatchIsNew, Receiving
  <2> QED
    BY <2>1, <2>2, <2>3
<1>4. BatchIsNew'
  BY <1>1, <1>3 DEF BatchIsNew, batchVars
<1> QED
  BY <1>2, <1>4 DEF BatchInv

LEMMA BatchSendFile ==
  ASSUME TypeInv, BatchInv, NEW f \in Blob, SendFile(f)
  PROVE  BatchInv'
<1>1. /\ f \notin published /\ published' = published \cup {f}
      /\ room'[Author[f]] = room[Author[f]] \cup {f}
      /\ \A n \in Node \ {Author[f]} : room'[n] = room[n]
      /\ UNCHANGED <<saved, batchVars, handler>>
  BY ConstantsAssumption DEF SendFile, stepVars, TypeInv, TypeOK
<1>2. OnlyPublished'
  BY <1>1 DEF BatchInv, OnlyPublished, batchVars
<1>3. ASSUME NEW d \in Conn
      PROVE  /\ Receiving(d) => todo[d] \subseteq batch[d] /\ batch[d] \cap room'[Dst[d]] = {}
             /\ handler[d] = "reply" => batch[d] \subseteq room'[Dst[d]]
  <2>1. Dst[d] \in Node /\ f \notin batch[d]
    BY <1>1, ConstantsAssumption DEF BatchInv, OnlyPublished
  <2>2. /\ room[Dst[d]] \subseteq room'[Dst[d]]
        /\ room'[Dst[d]] \subseteq room[Dst[d]] \cup {f}
    BY <1>1, <2>1
  <2> QED
    BY <2>1, <2>2 DEF BatchInv, BatchIsNew
<1>4. BatchIsNew'
  BY <1>1, <1>3 DEF BatchIsNew, Receiving, batchVars
<1> QED
  BY <1>2, <1>4 DEF BatchInv

LEMMA BatchKill ==
  ASSUME TypeInv, TransfersApart, BatchInv,
         NEW n \in Node, Crash(n) \/ Exit(n)
  PROVE  BatchInv'
<1>1. /\ \A m \in Node : room'[m] \in {room[m], saved.room[m]}
      /\ \A m \in Node \ {n} : room'[m] = room[m]
      /\ \A m \in Node : saved'.room[m] \in {room[m], saved.room[m]}
  <2>1. room \in [Node -> SUBSET Blob] /\ saved.room \in [Node -> SUBSET Blob]
    BY DEF TypeInv, TypeOK
  <2>2. CASE Crash(n)
    BY <2>1, <2>2 DEF Crash
  <2>3. CASE Exit(n)
    BY <2>1, <2>3 DEF Exit
  <2> QED
    BY <2>2, <2>3
<1>2. UNCHANGED <<published, batchVars>>
  BY KillEffect
<1>3. OnlyPublished'
  BY <1>1, <1>2 DEF BatchInv, OnlyPublished, batchVars
<1>4. BatchIsNew'
  <2> SUFFICES ASSUME NEW d \in Conn, handler'[d] = "reply" \/ Receiving(d)'
               PROVE  handler'[d] = handler[d] /\ room'[Dst[d]] = room[Dst[d]]
    BY <1>2 DEF BatchInv, BatchIsNew, Receiving, batchVars
  <2>1. Dst[d] # n /\ handler'[d] = handler[d]
    BY KillEffect DEF Receiving
  <2> QED
    BY <1>1, <2>1, ConstantsAssumption
<1> QED
  BY <1>3, <1>4 DEF BatchInv

LEMMA BatchNext ==
  ASSUME TypeInv, TransfersApart, BatchInv, Next
  PROVE  BatchInv'
BY NextSteps, BatchSmallSteps, BatchSendBatch, BatchOffer, BatchBlobOk, BatchPush, BatchSendFile,
   BatchKill

------------------------------------------------------------------------------
(* Files and their names                                                   *)

(* No blob but b at n gets another name or other contents.                 *)
TouchesOnly(n, b) ==
  \A m \in Node, d \in Blob : (m # n \/ d # b) =>
    /\ name'[m][d] = name[m][d]
    /\ name[m][d] # 0 => file'[name[m][d]] = file[name[m][d]]

NamesDiffer ==
  \A n, m \in Node : \A b, d \in Blob :
    name[n][b] # 0 /\ name[n][b] = name[m][d] => n = m /\ b = d

LEMMA OthersAreUntouched ==
  ASSUME StoreTyped, NEW n \in Node, NEW b \in Blob, KeepsOthers(n, b)
  PROVE  TouchesOnly(n, b)
<1> SUFFICES ASSUME NEW m \in Node, NEW d \in Blob, m # n \/ d # b
             PROVE  /\ name'[m][d] = name[m][d]
                    /\ name[m][d] # 0 => file'[name[m][d]] = file[name[m][d]]
  BY DEF TouchesOnly
<1>1. name[m][d] \in 0..Len(file) /\ Len(file) \in Nat
  BY DEF StoreTyped
<1> QED
  BY <1>1 DEF KeepsOthers

(* A name that is new or was there already, or none.                       *)
LEMMA NamesStayDifferent ==
  ASSUME StoreTyped, NamesDiffer, NEW n \in Node, NEW b \in Blob, KeepsOthers(n, b),
         name'[n][b] \in {0, name[n][b], Len(file) + 1}
  PROVE  NamesDiffer'
<1>0. \A x, y \in Node : \A u, v \in Blob :
        name[x][u] # 0 /\ name[x][u] = name[y][v] => x = y /\ u = v
  BY DEF NamesDiffer
<1>1. Len(file) \in Nat /\ \A m \in Node, d \in Blob : name[m][d] \in 0..Len(file)
  BY DEF StoreTyped
<1>2. \A m \in Node, d \in Blob :
        \/ name'[m][d] = name[m][d] \/ (m = n /\ d = b /\ name'[m][d] \in {0, Len(file) + 1})
  BY DEF KeepsOthers
<1> SUFFICES ASSUME NEW m \in Node, NEW k \in Node, NEW d \in Blob, NEW e \in Blob,
                    name'[m][d] # 0, name'[m][d] = name'[k][e]
             PROVE  m = k /\ d = e
  BY DEF NamesDiffer
<1>3. CASE name'[m][d] = Len(file) + 1
  <2>1. name[m][d] # Len(file) + 1 /\ name[k][e] # Len(file) + 1
    BY <1>1
  <2>2. m = n /\ d = b
    BY <1>2, <1>3, <2>1
  <2>3. k = n /\ e = b
    BY <1>2, <1>3, <2>1
  <2> QED
    BY <2>2, <2>3
<1>4. CASE name'[m][d] # Len(file) + 1
  <2>1. name'[m][d] = name[m][d] /\ name'[k][e] = name[k][e]
    BY <1>2, <1>4
  <2>2. name[m][d] # 0 /\ name[m][d] = name[k][e]
    BY <2>1
  <2> QED
    BY <1>0, <2>2
<1> QED
  BY <1>3, <1>4

RoomInv == TypeInv /\ StepsMatch /\ BatchInv /\ FilesAreNamed

(* What a transfer is about is not in the room of the receiver.            *)
LEMMA CurrentIsNew ==
  ASSUME RoomInv, NEW c \in Conn, Sending(c) \/ Receiving(c)
  PROVE  /\ Src[c] \in Node /\ Dst[c] \in Node /\ StoreTyped
         /\ Current(c) \in todo[c] /\ Current(c) \in Blob /\ Current(c) \in published
         /\ Receiving(c) => Current(c) \in batch[c] /\ Current(c) \notin room[Dst[c]]
<1>1. Src[c] \in Node /\ Dst[c] \in Node /\ StoreTyped
  BY ConstantsAssumption DEF RoomInv, TypeInv, TypeOK, StoreTyped
<1>2. Current(c) \in todo[c] /\ Current(c) \in Blob
  BY CurrentIsDue DEF RoomInv, TypeInv
<1> QED
  BY <1>1, <1>2 DEF RoomInv, BatchInv, OnlyPublished, BatchIsNew

(* Two handlers of a member do not receive the same blob.                  *)
LEMMA ReceiversDiffer ==
  ASSUME RoomInv, TransfersApart, NEW c \in Conn, NEW d \in Conn, c # d,
         Receiving(c), Receiving(d)
  PROVE  Dst[c] # Dst[d] \/ Current(c) # Current(d)
<1>1. Current(c) \in batch[c] /\ Current(d) \in batch[d]
  BY CurrentIsNew
<1>2. Transferring(c) /\ Transferring(d)
  BY DEF Receiving, Transferring
<1> QED
  BY <1>1, <1>2 DEF TransfersApart

LEMMA SendFileTouches ==
  ASSUME TypeInv, NEW f \in Blob, SendFile(f)
  PROVE  /\ StoreTyped' /\ KeepsOthers(Author[f], f) /\ TouchesOnly(Author[f], f)
         /\ name'[Author[f]][f] = Len(file) + 1
         /\ \E k \in 0..MaxSize : /\ file'[Len(file) + 1] = Upload(k)
                                  /\ size' = [size EXCEPT ![f] = k]
<1>1. PICK k \in 0..MaxSize : /\ Create(Author[f], f, Upload(k))
                              /\ size' = [size EXCEPT ![f] = k]
  BY DEF SendFile
<1>2. Author[f] \in Node /\ StoreTyped
  BY ConstantsAssumption DEF TypeInv, TypeOK, StoreTyped
<1>3. Upload(k) \in Seq(1..MaxSize)
  BY UploadIsFile
<1>4. /\ StoreTyped' /\ KeepsOthers(Author[f], f)
      /\ name'[Author[f]][f] = Len(file) + 1 /\ file'[Len(file) + 1] = Upload(k)
  BY <1>1, <1>2, <1>3, CreateEffect
<1> QED
  BY <1>1, <1>2, <1>4, OthersAreUntouched

(* A block goes into the file of its blob at the receiver.                 *)
LEMMA BlockTouches ==
  ASSUME RoomInv, NEW c \in Conn, Block(c)
  PROVE  /\ TouchesOnly(Dst[c], Current(c)) /\ name' = name
         /\ to[c] = name[Dst[c]][Current(c)]
         /\ file'[to[c]] = Append(file[to[c]], file[from[c]][pos[c] + 1])
<1>1. handler[c] = "blocks" /\ Receiving(c)
  BY DEF Block, Receiving
<1>2. to[c] = name[Dst[c]][Current(c)] /\ Dst[c] \in Node /\ Current(c) \in Blob /\ StoreTyped
  BY <1>1, CurrentIsNew DEF RoomInv, FilesAreNamed
<1>3. /\ name' = name /\ to[c] \in 1..Len(file)
      /\ \A i \in 1..Len(file) : i # to[c] => file'[i] = file[i]
      /\ file'[to[c]] = Append(file[to[c]], file[from[c]][pos[c] + 1])
  BY BlockEffect DEF RoomInv
<1>4. TouchesOnly(Dst[c], Current(c))
  <2> SUFFICES ASSUME NEW m \in Node, NEW d \in Blob, m # Dst[c] \/ d # Current(c),
                      name[m][d] # 0
               PROVE  file'[name[m][d]] = file[name[m][d]]
    BY <1>3 DEF TouchesOnly
  <2>1. name[m][d] \in 1..Len(file)
    BY <1>2 DEF StoreTyped
  <2>2. name[m][d] # to[c]
    BY <1>2 DEF RoomInv, FilesAreNamed
  <2> QED
    BY <1>3, <2>1, <2>2
<1> QED
  BY <1>2, <1>3, <1>4

(* Opening a blob touches it only if it is not there.                      *)
LEMMA OpenTouches ==
  ASSUME RoomInv, NEW c \in Conn, Open(c)
  PROVE  /\ Src[c] \in Node /\ Current(c) \in Blob /\ Current(c) \in published
         /\ StoreTyped /\ KeepsOthers(Src[c], Current(c)) /\ TouchesOnly(Src[c], Current(c))
         /\ from'[c] = name'[Src[c]][Current(c)]
         /\ name[Src[c]][Current(c)] # 0 => UNCHANGED storeVars
         /\ name'[Src[c]][Current(c)] \in {name[Src[c]][Current(c)], Len(file) + 1}
<1>1. Sending(c)
  BY DEF Open, Sending
<1>2. Src[c] \in Node /\ Current(c) \in Blob /\ Current(c) \in published /\ StoreTyped
  BY <1>1, CurrentIsNew
<1>3. /\ FileFromID(Src[c], Current(c)) /\ from'[c] = FileID(Src[c], Current(c))
  BY DEF Open, RoomInv, TypeInv, TypeOK
<1> QED
  BY <1>2, <1>3, FileFromIDEffect, OthersAreUntouched DEF storeVars

LEMMA RecvCountTouches ==
  ASSUME RoomInv, NEW c \in Conn, RecvCount(c)
  PROVE  /\ Dst[c] \in Node /\ Current(c) \in Blob /\ Current(c) \in published
         /\ StoreTyped /\ KeepsOthers(Dst[c], Current(c)) /\ TouchesOnly(Dst[c], Current(c))
         /\ to'[c] = name'[Dst[c]][Current(c)] /\ to'[c] # 0
         /\ name[Dst[c]][Current(c)] # 0 => UNCHANGED storeVars
         /\ name[Dst[c]][Current(c)] = 0 => file'[to'[c]] = <<>>
         /\ name'[Dst[c]][Current(c)] \in {name[Dst[c]][Current(c)], Len(file) + 1}
<1>1. Receiving(c)
  BY DEF RecvCount, Receiving
<1>2. Dst[c] \in Node /\ Current(c) \in Blob /\ Current(c) \in published /\ StoreTyped
  BY <1>1, CurrentIsNew
<1>3. /\ FileFromID(Dst[c], Current(c)) /\ to'[c] = FileID(Dst[c], Current(c))
  BY DEF RecvCount, RoomInv, TypeInv, TypeOK
<1>4. Len(file') \in Nat
  BY <1>2, <1>3, FileFromIDEffect DEF StoreTyped
<1> QED
  BY <1>2, <1>3, <1>4, FileFromIDEffect, OthersAreUntouched DEF storeVars

LEMMA CleanUpTouches ==
  ASSUME RoomInv, NEW c \in Conn, CleanUp(c)
  PROVE  \/ UNCHANGED storeVars /\ ~(handler[c] = "blocks" /\ pos[c] < count[c])
         \/ /\ handler[c] = "blocks" /\ pos[c] < count[c]
            /\ Dst[c] \in Node /\ Current(c) \in Blob /\ Current(c) \in published
            /\ StoreTyped /\ KeepsOthers(Dst[c], Current(c)) /\ TouchesOnly(Dst[c], Current(c))
            /\ name'[Dst[c]][Current(c)] = 0
<1>1. CASE ~(handler[c] = "blocks" /\ pos[c] < count[c])
  BY <1>1, CleanUpEffect DEF RoomInv
<1>2. CASE handler[c] = "blocks" /\ pos[c] < count[c]
  <2>1. Dst[c] \in Node /\ Current(c) \in Blob /\ Current(c) \in published /\ StoreTyped
    BY <1>2, CurrentIsNew DEF Receiving
  <2>2. KeepsOthers(Dst[c], Current(c)) /\ name'[Dst[c]][Current(c)] = 0
    BY <1>2, CleanUpEffect DEF RoomInv
  <2> QED
    BY <1>2, <2>1, <2>2, OthersAreUntouched
<1> QED
  BY <1>1, <1>2

(* The names after a step that touches one blob.                           *)
LEMMA NamesAfterTouch ==
  ASSUME RoomInv, NEW n \in Node, NEW b \in Blob, KeepsOthers(n, b),
         name'[n][b] \in {0, name[n][b], Len(file) + 1}, b \in published',
         published \subseteq published'
  PROVE  /\ NamesDiffer'
         /\ \A m \in Node : \A d \in Blob \ published' : name'[m][d] = 0
<1>1. StoreTyped /\ NamesDiffer
  BY DEF RoomInv, TypeInv, TypeOK, StoreTyped, FilesAreNamed, NamesDiffer
<1>2. ASSUME NEW m \in Node, NEW d \in Blob \ published' PROVE name'[m][d] = 0
  <2>1. name'[m][d] = name[m][d] /\ d \notin published
    BY <1>2 DEF KeepsOthers
  <2> QED
    BY <2>1 DEF RoomInv, FilesAreNamed
<1> QED
  BY <1>1, <1>2, NamesStayDifferent

(* A handler that stays at a blob keeps its file.                          *)
LEMMA FilesStayNamed ==
  ASSUME RoomInv, UNCHANGED storeVars, published \subseteq published',
         \A c \in Conn : handler'[c] = "blocks" =>
           handler[c] = "blocks" /\ to'[c] = to[c] /\ todo'[c] = todo[c]
  PROVE  FilesAreNamed'
<1>1. \A c \in Conn : todo'[c] = todo[c] => Current(c)' = Current(c)
  BY DEF Current
<1> QED
  BY <1>1 DEF RoomInv, FilesAreNamed, storeVars

LEMMA FilesSmallSteps ==
  ASSUME RoomInv, NEW c \in Conn,
         \/ Dial(c) \/ SendBatch(c) \/ Stat(c) \/ StatFails(c)
         \/ ReadFails(c) \/ SyncDone(c) \/ SyncError(c) \/ Offer(c)
         \/ BlobOk(c) \/ Push(c) \/ ReplyLost(c) \/ Break(c)
  PROVE  FilesAreNamed'
<1>1. CASE Dial(c)
  BY <1>1, FilesStayNamed DEF Dial, RoomInv, TypeInv, TypeOK, roomVars, stepVars,
       batchVars, copyVars
<1>2. CASE SendBatch(c)
  BY <1>2, FilesStayNamed DEF SendBatch, RoomInv, TypeInv, TypeOK, roomVars,
       stepVars, batchVars, copyVars
<1>3. CASE Stat(c)
  BY <1>3, FilesStayNamed DEF Stat, RoomInv, TypeInv, TypeOK, roomVars, stepVars,
       batchVars, copyVars
<1>4. CASE StatFails(c)
  BY <1>4, FilesStayNamed DEF StatFails, RoomInv, TypeInv, TypeOK, roomVars,
       stepVars, batchVars, copyVars
<1>5. CASE ReadFails(c)
  BY <1>5, FilesStayNamed DEF ReadFails, RoomInv, TypeInv, TypeOK, roomVars,
       stepVars, batchVars, copyVars
<1>6. CASE SyncDone(c)
  BY <1>6, FilesStayNamed DEF SyncDone, RoomInv, TypeInv, TypeOK, roomVars,
       stepVars, batchVars, copyVars
<1>7. CASE SyncError(c)
  BY <1>7, FilesStayNamed DEF SyncError, RoomInv, TypeInv, TypeOK, roomVars,
       stepVars, batchVars, copyVars
<1>8. CASE Offer(c)
  BY <1>8, FilesStayNamed DEF Offer, RoomInv, TypeInv, TypeOK, roomVars, stepVars,
       batchVars, copyVars
<1>9. CASE BlobOk(c)
  BY <1>9, FilesStayNamed DEF BlobOk, RoomInv, TypeInv, TypeOK, roomVars,
       stepVars, batchVars, copyVars
<1>10. CASE Push(c)
  BY <1>10, FilesStayNamed DEF Push, RoomInv, TypeInv, TypeOK, roomVars, stepVars,
       batchVars, copyVars
<1>11. CASE ReplyLost(c)
  BY <1>11, FilesStayNamed DEF ReplyLost, RoomInv, TypeInv, TypeOK, roomVars,
       stepVars, batchVars, copyVars
<1>12. CASE Break(c)
  BY <1>12, FilesStayNamed DEF Break, RoomInv, TypeInv, TypeOK, roomVars,
       stepVars, batchVars, copyVars
<1> QED
  BY <1>1, <1>2, <1>3, <1>4, <1>5, <1>6, <1>7, <1>8, <1>9, <1>10, <1>11, <1>12

LEMMA FilesKill ==
  ASSUME RoomInv, NEW n \in Node, Crash(n) \/ Exit(n)
  PROVE  FilesAreNamed'
BY KillEffect, FilesStayNamed DEF RoomInv, batchVars, copyVars

(* The file of a handler is that of a blob that nobody else touches.       *)
LEMMA HandlersKeepNames ==
  ASSUME RoomInv, NEW d \in Conn, handler[d] = "blocks",
         NEW n \in Node, NEW b \in Blob, KeepsOthers(n, b),
         n # Dst[d] \/ b # Current(d), to'[d] = to[d], todo'[d] = todo[d]
  PROVE  to'[d] = name'[Dst[d]][Current(d)']
<1>1. Dst[d] \in Node /\ Current(d) \in Blob
  BY CurrentIsNew DEF Receiving
<1>2. Current(d)' = Current(d)
  BY DEF Current
<1>3. to[d] = name[Dst[d]][Current(d)]
  BY DEF RoomInv, FilesAreNamed
<1> QED
  BY <1>1, <1>2, <1>3 DEF KeepsOthers

LEMMA FilesSendFile ==
  ASSUME RoomInv, NEW f \in Blob, SendFile(f)
  PROVE  FilesAreNamed'
<1>1. /\ f \notin published /\ published' = published \cup {f}
      /\ UNCHANGED <<stepVars, batchVars, copyVars>> /\ Author[f] \in Node
  BY ConstantsAssumption DEF SendFile
<1>2. KeepsOthers(Author[f], f) /\ name'[Author[f]][f] = Len(file) + 1
  BY SendFileTouches DEF RoomInv
<1>3. ASSUME NEW d \in Conn, handler'[d] = "blocks"
      PROVE  to'[d] = name'[Dst[d]][Current(d)']
  <2>1. handler[d] = "blocks" /\ to'[d] = to[d] /\ todo'[d] = todo[d]
    BY <1>1, <1>3 DEF stepVars, batchVars, copyVars
  <2>2. Current(d) # f
    BY <1>1, <2>1, CurrentIsNew DEF Receiving
  <2> QED
    BY <1>1, <1>2, <2>1, <2>2, HandlersKeepNames
<1> QED
  BY <1>1, <1>2, <1>3, NamesAfterTouch DEF FilesAreNamed, NamesDiffer

LEMMA FilesOpen ==
  ASSUME RoomInv, NEW c \in Conn, Open(c)
  PROVE  FilesAreNamed'
<1>1. UNCHANGED <<roomVars, handler, batchVars, to>>
  BY DEF Open
<1> DEFINE b == Current(c)
<1>2. /\ Src[c] \in Node /\ b \in Blob /\ b \in published
      /\ KeepsOthers(Src[c], b) /\ name'[Src[c]][b] \in {name[Src[c]][b], Len(file) + 1}
      /\ name[Src[c]][b] # 0 => UNCHANGED storeVars
  BY OpenTouches
<1>3. CASE name[Src[c]][b] # 0
  BY <1>1, <1>2, <1>3, FilesStayNamed DEF roomVars, batchVars
<1>4. CASE name[Src[c]][b] = 0
  <2>1. ASSUME NEW d \in Conn, handler'[d] = "blocks"
        PROVE  to'[d] = name'[Dst[d]][Current(d)']
    <3>1. handler[d] = "blocks" /\ to'[d] = to[d] /\ todo'[d] = todo[d]
      BY <1>1, <2>1 DEF batchVars
    <3>2. to[d] # 0 /\ to[d] = name[Dst[d]][Current(d)]
      BY <3>1 DEF RoomInv, TypeInv, FilesAreNamed
    <3>3. Src[c] # Dst[d] \/ b # Current(d)
      BY <1>4, <3>2
    <3> HIDE DEF b
    <3> QED
      BY <1>2, <3>1, <3>3, HandlersKeepNames
  <2> HIDE DEF b
  <2> QED
    BY <1>1, <1>2, <2>1, NamesAfterTouch DEF FilesAreNamed, NamesDiffer, roomVars
<1> QED
  BY <1>3, <1>4

LEMMA FilesRecvCount ==
  ASSUME TransfersApart, RoomInv, NEW c \in Conn, RecvCount(c)
  PROVE  FilesAreNamed'
<1>1. /\ UNCHANGED <<roomVars, batchVars>>
      /\ \A d \in Conn \ {c} : to'[d] = to[d] /\ handler'[d] = handler[d]
  BY DEF RecvCount, RoomInv, TypeInv, TypeOK
<1> DEFINE b == Current(c)
<1>2. /\ Dst[c] \in Node /\ b \in Blob /\ b \in published
      /\ KeepsOthers(Dst[c], b) /\ name'[Dst[c]][b] \in {name[Dst[c]][b], Len(file) + 1}
      /\ to'[c] = name'[Dst[c]][b]
  BY RecvCountTouches
<1>3. Current(c)' = b
  BY <1>1 DEF Current, batchVars
<1> HIDE DEF b
<1>4. ASSUME NEW d \in Conn, handler'[d] = "blocks"
      PROVE  to'[d] = name'[Dst[d]][Current(d)']
  <2>1. CASE d = c
    BY <1>2, <1>3, <2>1
  <2>2. CASE d # c
    <3>1. handler[d] = "blocks" /\ to'[d] = to[d] /\ todo'[d] = todo[d]
      BY <1>1, <1>4, <2>2 DEF batchVars
    <3>2. Receiving(c) /\ Receiving(d)
      BY <3>1 DEF RecvCount, Receiving
    <3>3. Dst[c] # Dst[d] \/ b # Current(d)
      BY <2>2, <3>2, ReceiversDiffer DEF b
    <3> QED
      BY <1>2, <3>1, <3>3, HandlersKeepNames
  <2> QED
    BY <2>1, <2>2
<1> QED
  BY <1>1, <1>2, <1>4, NamesAfterTouch DEF FilesAreNamed, NamesDiffer, roomVars

LEMMA FilesBlock ==
  ASSUME RoomInv, NEW c \in Conn, Block(c)
  PROVE  FilesAreNamed'
<1>1. name' = name /\ UNCHANGED <<roomVars, stepVars, batchVars, to>>
  BY DEF Block
<1>2. \A d \in Conn : Current(d)' = Current(d)
  BY <1>1 DEF Current, batchVars
<1> QED
  BY <1>1, <1>2 DEF RoomInv, FilesAreNamed, roomVars, stepVars

(* Only the handler of the member itself cleans up there.                  *)
LEMMA FilesCleanUp ==
  ASSUME TransfersApart, RoomInv, NEW c \in Conn,
         RecvFails(c) \/ WriteFails(c)
  PROVE  FilesAreNamed'
<1>1. /\ UNCHANGED <<roomVars, batchVars, to>> /\ CleanUp(c) /\ handler'[c] = "push"
      /\ \A d \in Conn \ {c} : handler'[d] = handler[d]
  BY DEF RecvFails, WriteFails, copyVars, RoomInv, TypeInv, TypeOK
<1>2. CASE UNCHANGED storeVars
  BY <1>1, <1>2, FilesStayNamed DEF roomVars, batchVars
<1>3. CASE ~UNCHANGED storeVars
  <2> DEFINE b == Current(c)
  <2>1. /\ Dst[c] \in Node /\ b \in Blob /\ b \in published
        /\ KeepsOthers(Dst[c], b) /\ name'[Dst[c]][b] = 0
    BY <1>1, <1>3, CleanUpTouches
  <2> HIDE DEF b
  <2>2. ASSUME NEW d \in Conn, handler'[d] = "blocks"
        PROVE  to'[d] = name'[Dst[d]][Current(d)']
    <3>1. d # c /\ handler[d] = "blocks" /\ to'[d] = to[d] /\ todo'[d] = todo[d]
      BY <1>1, <2>2 DEF batchVars
    <3>2. handler[c] = "blocks"
      BY <1>1, <1>3, CleanUpTouches
    <3>3. Dst[c] # Dst[d] \/ b # Current(d)
      BY <3>1, <3>2, ReceiversDiffer DEF b, Receiving
    <3> QED
      BY <2>1, <3>1, <3>3, HandlersKeepNames
  <2> QED
    BY <1>1, <2>1, <2>2, NamesAfterTouch DEF FilesAreNamed, NamesDiffer, roomVars
<1> QED
  BY <1>2, <1>3

LEMMA RoomInit == ASSUME Init PROVE RoomInv
<1>1. TypeInv
  BY TypeInit
<1> QED
  BY <1>1 DEF RoomInv, Init, StepsMatch, BatchInv, OnlyPublished, BatchIsNew,
     FilesAreNamed, Receiving

LEMMA RoomNext ==
  ASSUME TransfersApart, RoomInv, [Next]_vars
  PROVE  RoomInv'
<1>1. CASE UNCHANGED vars
  <2>1. /\ UNCHANGED <<storeVars, roomVars, stepVars, batchVars, copyVars>>
        /\ TypeInv' /\ \A c \in Conn : Current(c)' = Current(c)
    BY <1>1, TypeNext DEF vars, RoomInv, Current, batchVars
  <2>2. StepsMatch' /\ FilesAreNamed'
    BY <2>1 DEF RoomInv, StepsMatch, FilesAreNamed, Receiving, storeVars,
         roomVars, stepVars,
       copyVars
  <2>3. BatchInv'
    BY <2>1, BatchStays DEF RoomInv, roomVars, stepVars, Receiving
  <2> QED
    BY <2>1, <2>2, <2>3 DEF RoomInv
<1>2. CASE Next
  <2>1. TypeInv' /\ StepsMatch' /\ BatchInv'
    BY <1>2, TypeNext, StepsNext, BatchNext DEF RoomInv
  <2>2. FilesAreNamed'
    BY <1>2, NextSteps, FilesSmallSteps, FilesSendFile, FilesOpen, FilesRecvCount, FilesBlock,
       FilesCleanUp, FilesKill
  <2> QED
    BY <2>1, <2>2 DEF RoomInv
<1> QED
  BY <1>1, <1>2

------------------------------------------------------------------------------
(* Listed blobs are left alone                                             *)

Stays(n, b) ==
  /\ name'[n][b] = name[n][b]
  /\ file'[name[n][b]] = file[name[n][b]]

LEMMA ConnTouches ==
  ASSUME RoomInv, NEW c \in Conn, ConnNext(c),
         NEW n \in Node, NEW b \in Blob, Exists(n, b)
  PROVE  Stays(n, b) \/ (Dst[c] = n /\ Writing(c, b))
<1>1. CASE UNCHANGED storeVars
  BY <1>1 DEF storeVars, Stays
<1>2. CASE Open(c)
  <2> DEFINE d == Current(c)
  <2>1. TouchesOnly(Src[c], d) /\ (name[Src[c]][d] # 0 => UNCHANGED storeVars)
    BY <1>2, OpenTouches
  <2> HIDE DEF d
  <2> QED
    BY <2>1 DEF TouchesOnly, Exists, Stays, storeVars
<1>3. CASE RecvCount(c)
  <2> DEFINE d == Current(c)
  <2>1. TouchesOnly(Dst[c], d) /\ (name[Dst[c]][d] # 0 => UNCHANGED storeVars)
    BY <1>3, RecvCountTouches
  <2> HIDE DEF d
  <2> QED
    BY <2>1 DEF TouchesOnly, Exists, Stays, storeVars
<1>4. CASE Block(c)
  <2>1. TouchesOnly(Dst[c], Current(c)) /\ handler[c] = "blocks"
    BY <1>4, BlockTouches DEF Block
  <2> QED
    BY <2>1 DEF TouchesOnly, Exists, Stays, Writing
<1>5. CASE RecvFails(c) \/ WriteFails(c)
  <2>1. CleanUp(c)
    BY <1>5 DEF RecvFails, WriteFails
  <2>2. \/ UNCHANGED storeVars
        \/ TouchesOnly(Dst[c], Current(c)) /\ handler[c] = "blocks"
    BY <2>1, CleanUpTouches
  <2> QED
    BY <2>2 DEF TouchesOnly, Exists, Stays, Writing, storeVars
<1>6. \/ UNCHANGED storeVars \/ Open(c) \/ RecvCount(c) \/ Block(c)
      \/ RecvFails(c) \/ WriteFails(c)
    BY DEF ConnNext, Dial, SendBatch, Stat, StatFails, ReadFails, SyncDone,
         SyncError, Offer,
     BlobOk, Push, ReplyLost, Break
<1> QED
  BY <1>1, <1>2, <1>3, <1>4, <1>5, <1>6

LEMMA SendFileStays ==
  ASSUME RoomInv, NEW f \in Blob, SendFile(f),
         NEW n \in Node, NEW b \in Blob, Exists(n, b)
  PROVE  Stays(n, b)
<1>1. f # b
  <2>1. f \notin published
    BY DEF SendFile
  <2> QED
    BY <2>1 DEF RoomInv, FilesAreNamed, Exists
<1>2. TouchesOnly(Author[f], f)
  BY SendFileTouches DEF RoomInv
<1> QED
  BY <1>1, <1>2 DEF TouchesOnly, Exists, Stays

(* A blob that exists is changed by nobody but the handler that writes it. *)
LEMMA OnlyWritersTouch ==
  ASSUME RoomInv, [Next]_vars,
         NEW n \in Node, NEW b \in Blob, Exists(n, b)
  PROVE  Stays(n, b) \/ \E c \in Conn : Dst[c] = n /\ Writing(c, b)
<1>1. CASE UNCHANGED vars
  BY <1>1 DEF vars, storeVars, Stays
<1>2. ASSUME NEW m \in Node, Crash(m) \/ Exit(m) PROVE Stays(n, b)
  BY <1>2, KillEffect DEF RoomInv, storeVars, Stays
<1>3. CASE Next
  BY <1>2, <1>3, ConnTouches, SendFileStays DEF Next
<1> QED
  BY <1>1, <1>3

LEMMA WritersAreNew ==
  ASSUME RoomInv, NEW c \in Conn, NEW b, Writing(c, b)
  PROVE  b \notin room[Dst[c]] /\ b \in Blob /\ b \in published /\ b \in batch[c]
BY CurrentIsNew DEF Writing, Receiving

LEMMA ListedStays ==
  ASSUME RoomInv, [Next]_vars, NEW n \in Node, NEW b \in room[n], Exists(n, b)
  PROVE  Stays(n, b)
<1>1. b \in Blob
  BY DEF RoomInv, TypeInv, TypeOK
<1> QED
  BY <1>1, WritersAreNew, OnlyWritersTouch

ListedStep ==
  \A n \in Node : \A b \in room[n] :
    Exists(n, b) => Exists(n, b)' /\ Content(n, b)' = Content(n, b)

LEMMA ListedNext == ASSUME RoomInv, [Next]_vars PROVE ListedStep
<1> SUFFICES ASSUME NEW n \in Node, NEW b \in room[n], Exists(n, b)
             PROVE  Exists(n, b)' /\ Content(n, b)' = Content(n, b)
  BY DEF ListedStep
<1>1. Stays(n, b)
  BY ListedStays
<1> QED
  BY <1>1 DEF Stays, Exists, Content

LEMMA RoomInvariant == Spec /\ []TransfersApart => []RoomInv
<1>1. Init => RoomInv
  BY RoomInit
<1>2. RoomInv /\ TransfersApart /\ [Next]_vars => RoomInv'
  BY RoomNext
<1> QED
  BY <1>1, <1>2, PTL DEF Spec

(* As long as transfers keep apart, a blob whose message a room lists is   *)
(* never cut, extended or removed: not by an upload, a transfer, its       *)
(* failure, or a crash and what follows.                                   *)
THEOREM ListedBlobsStay == Spec /\ []TransfersApart => ListedBlobNeverChanges
<1>1. RoomInv /\ [Next]_vars => ListedStep
  BY ListedNext
<1>2. Spec /\ []TransfersApart => [][ListedStep]_vars
  BY <1>1, RoomInvariant, PTL DEF Spec
<1> QED
  BY <1>2 DEF ListedBlobNeverChanges, ListedStep

------------------------------------------------------------------------------
(* Copies are whole, until a daemon stops                                  *)

CopyOk ==
  /\ FilesAreListed /\ FilesAreWhole
  /\ \A c \in Conn : ReadsWhole(c) /\ WritesInOrder(c) /\ AckedExists(c)

LocalStays(d) ==
  /\ client'[d] = client[d] /\ handler'[d] = handler[d] /\ link'[d] = link[d]
  /\ batch'[d] = batch[d] /\ todo'[d] = todo[d]
  /\ count'[d] = count[d] /\ pos'[d] = pos[d] /\ from'[d] = from[d] /\ to'[d] = to[d]

(* A handler has been promised the blob, and is not done with it.          *)
Awaits(d, b) == b \in batch[d] /\ (Transferring(d) \/ handler[d] = "reply")

(* A connection that does not move itself is all right after a step that   *)
(* leaves the listed blobs alone, and those of its batch.                  *)
LEMMA ConnStays ==
  ASSUME RoomInv, CopyOk, NEW d \in Conn, LocalStays(d),
         \A n \in Node, b \in Blob :
           Exists(n, b) /\ (b \in room[n] \/ (n = Dst[d] /\ Awaits(d, b))) => Stays(n, b),
         \A n \in Node : room[n] \subseteq room'[n],
         \A b \in published : size'[b] = size[b]
  PROVE  ReadsWhole(d)' /\ WritesInOrder(d)' /\ AckedExists(d)'
<1> DEFINE b == Current(d)
<1>0. Src[d] \in Node /\ Dst[d] \in Node
  BY ConstantsAssumption
<1>1. Current(d)' = b
  BY DEF LocalStays, Current
<1>2. /\ Sending(d)' = Sending(d) /\ Receiving(d)' = Receiving(d)
      /\ Sending(d) \/ Receiving(d) => b \in Blob /\ b \in todo[d] /\ b \in published
  BY CurrentIsNew DEF LocalStays, Sending, Receiving
<1> HIDE DEF b
<1>3. ReadsWhole(d) /\ WritesInOrder(d) /\ AckedExists(d)
  BY DEF CopyOk
<1>4. ReadsWhole(d)'
  <2>1. Sending(d)' => todo'[d] \subseteq room'[Src[d]]
    BY <1>0, <1>2, <1>3 DEF ReadsWhole, LocalStays
  <2>2. ASSUME client[d] \in {"open", "send"}
        PROVE  /\ name'[Src[d]][b] # 0 /\ name'[Src[d]][b] = name[Src[d]][b]
               /\ count[d] = size'[b]
    <3>1. /\ Exists(Src[d], b) /\ count[d] = size[b] /\ b \in room[Src[d]]
          /\ b \in Blob /\ b \in published
      BY <1>2, <1>3, <2>2 DEF ReadsWhole, Sending, b
    <3>2. Stays(Src[d], b)
      BY <1>0, <3>1
    <3> QED
      BY <3>1, <3>2 DEF Stays, Exists
  <2> QED
    BY <1>1, <1>3, <2>1, <2>2 DEF ReadsWhole, LocalStays, Exists, b
<1>5. WritesInOrder(d)'
  <2>1. ASSUME handler[d] = "blocks"
        PROVE  size'[b] = size[b] /\ file'[to[d]] = file[to[d]]
    <3>1. to[d] = name[Dst[d]][b] /\ to[d] # 0 /\ b \in Blob /\ b \in published
      BY <1>2, <2>1 DEF RoomInv, TypeInv, FilesAreNamed, Receiving, b
    <3>2. Awaits(d, b)
      BY <2>1, CurrentIsNew DEF Awaits, Transferring, Receiving, b
    <3>3. Stays(Dst[d], b)
      BY <1>0, <3>1, <3>2 DEF Exists
    <3> QED
      BY <3>1, <3>3 DEF Stays
  <2> QED
    BY <1>1, <1>3, <2>1 DEF WritesInOrder, LocalStays, b
<1>6. AckedExists(d)'
  <2> SUFFICES ASSUME link[d], Receiving(d) \/ client[d] = "done", NEW k \in batch[d]
               PROVE  Exists(Dst[d], k)' \/ (Receiving(d) /\ k \in todo[d])
    BY <1>2 DEF AckedExists, LocalStays
  <2>1. Exists(Dst[d], k) \/ (Receiving(d) /\ k \in todo[d])
    BY <1>3 DEF AckedExists
  <2>2. k \in Blob
    BY DEF RoomInv, TypeInv, TypeOK
  <2>3. CASE Exists(Dst[d], k)
    <3>1. Awaits(d, k)
      BY DEF RoomInv, StepsMatch, Awaits, Transferring, Receiving
    <3>2. Stays(Dst[d], k)
      BY <1>0, <2>2, <2>3, <3>1
    <3> QED
      BY <2>3, <3>2 DEF Stays, Exists
  <2> QED
    BY <2>1, <2>3
<1> QED
  BY <1>4, <1>5, <1>6

(* What a step of connection c leaves alone.                               *)
OthersStay(c) ==
  /\ \A d \in Conn \ {c} : LocalStays(d)
  /\ \A n \in Node, b \in Blob : Exists(n, b) => Stays(n, b) \/ (Dst[c] = n /\ Writing(c, b))
  /\ \A n \in Node : room[n] \subseteq room'[n]
  /\ size' = size /\ published' = published

LEMMA ConnLocal ==
  ASSUME RoomInv, NEW c \in Conn, ConnNext(c)
  PROVE  OthersStay(c)
<1>1. \A n \in Node, b \in Blob : Exists(n, b) => Stays(n, b) \/ (Dst[c] = n /\ Writing(c, b))
  BY ConnTouches
<1>2. size' = size /\ published' = published
  BY DEF ConnNext, Dial, SendBatch, Stat, StatFails, Open, ReadFails, SyncDone,
       SyncError, Offer,
     RecvCount, Block, BlobOk, RecvFails, WriteFails, Push, ReplyLost, Break, roomVars
<1>3. \A n \in Node : room[n] \subseteq room'[n]
  <2>1. CASE Push(c)
    BY <2>1, ConstantsAssumption DEF Push, RoomInv, TypeInv, TypeOK
  <2>2. CASE room' = room
    BY <2>2
  <2>3. Push(c) \/ room' = room
    BY DEF ConnNext, Dial, SendBatch, Stat, StatFails, Open, ReadFails, SyncDone,
         SyncError, Offer,
       RecvCount, Block, BlobOk, RecvFails, WriteFails, ReplyLost, Break, roomVars
  <2> QED
    BY <2>1, <2>2, <2>3
<1>4. ASSUME NEW d \in Conn \ {c} PROVE LocalStays(d)
  <2> USE DEF RoomInv, TypeInv, TypeOK, LocalStays, stepVars, batchVars, copyVars
  <2>1. CASE Dial(c)
    BY <2>1 DEF Dial
  <2>2. CASE SendBatch(c)
    BY <2>2 DEF SendBatch
  <2>3. CASE Stat(c)
    BY <2>3 DEF Stat
  <2>4. CASE StatFails(c)
    BY <2>4 DEF StatFails
  <2>5. CASE Open(c)
    BY <2>5 DEF Open
  <2>6. CASE ReadFails(c)
    BY <2>6 DEF ReadFails
  <2>7. CASE SyncDone(c)
    BY <2>7 DEF SyncDone
  <2>8. CASE SyncError(c)
    BY <2>8 DEF SyncError
  <2>9. CASE Offer(c)
    BY <2>9 DEF Offer
  <2>10. CASE RecvCount(c)
    BY <2>10 DEF RecvCount
  <2>11. CASE Block(c)
    BY <2>11 DEF Block
  <2>12. CASE BlobOk(c)
    BY <2>12 DEF BlobOk
  <2>13. CASE RecvFails(c)
    BY <2>13 DEF RecvFails
  <2>14. CASE WriteFails(c)
    BY <2>14 DEF WriteFails
  <2>15. CASE Push(c)
    BY <2>15 DEF Push
  <2>16. CASE ReplyLost(c)
    BY <2>16 DEF ReplyLost
  <2>17. CASE Break(c)
    BY <2>17 DEF Break
  <2> QED
    BY <2>1, <2>2, <2>3, <2>4, <2>5, <2>6, <2>7, <2>8, <2>9, <2>10, <2>11, <2>12,
       <2>13, <2>14, <2>15, <2>16, <2>17 DEF ConnNext
<1> QED
  BY <1>1, <1>2, <1>3, <1>4 DEF OthersStay

(* Nobody writes what another handler of the member has been promised.     *)
LEMMA WritersAreApart ==
  ASSUME RoomInv, TransfersApart, NEW c \in Conn, NEW d \in Conn, NEW b, c # d,
         Dst[c] = Dst[d], Writing(c, b), Awaits(d, b)
  PROVE  FALSE
<1>1. b \notin room[Dst[c]] /\ b \in batch[c] /\ Transferring(c)
  BY WritersAreNew DEF Writing, Transferring
<1>2. CASE Transferring(d)
  BY <1>1, <1>2 DEF TransfersApart, Awaits
<1>3. CASE handler[d] = "reply"
  BY <1>1, <1>3 DEF RoomInv, BatchInv, BatchIsNew, Awaits
<1> QED
  BY <1>2, <1>3 DEF Awaits

(* After a step of connection c it is enough to look at c.                 *)
LEMMA CopyFrame ==
  ASSUME TransfersApart, RoomInv, CopyOk, NEW c \in Conn, OthersStay(c),
         \A b \in Blob : Writing(c, b) /\ Exists(Dst[c], b)' =>
           Writing(c, b)' \/ Content(Dst[c], b)' = Whole(b),
         \A n \in Node, b \in Blob : Exists(n, b)' =>
           Exists(n, b) \/ (Dst[c] = n /\ Writing(c, b)' /\ Arriving(c, b)'),
         \A b \in Blob : Arriving(c, b) => Arriving(c, b)' \/ b \in room'[Dst[c]],
         ReadsWhole(c)' /\ WritesInOrder(c)' /\ AckedExists(c)'
  PROVE  CopyOk'
<1>1. ASSUME NEW d \in Conn \ {c}, NEW b \in Blob
      PROVE  Writing(d, b)' = Writing(d, b) /\ Arriving(d, b)' = Arriving(d, b)
  BY DEF OthersStay, LocalStays, Writing, Arriving, Receiving, Current
<1>2. \A b \in Blob : Whole(b)' = Whole(b)
  BY DEF OthersStay, Whole
<1>3. FilesAreListed'
  <2> SUFFICES ASSUME NEW n \in Node, NEW b \in Blob, Exists(n, b)'
               PROVE  b \in room'[n] \/ \E d \in Conn : Dst[d] = n /\ Arriving(d, b)'
    BY DEF FilesAreListed
  <2>1. CASE ~Exists(n, b)
    BY <2>1
  <2>2. CASE Exists(n, b)
    <3>1. b \in room[n] \/ \E d \in Conn : Dst[d] = n /\ Arriving(d, b)
      BY <2>2 DEF CopyOk, FilesAreListed
    <3>2. CASE b \in room[n]
      BY <3>2 DEF OthersStay
    <3>3. ASSUME NEW d \in Conn, Dst[d] = n, Arriving(d, b)
          PROVE  b \in room'[n] \/ Arriving(d, b)'
      BY <1>1, <3>3
    <3> QED
      BY <3>1, <3>2, <3>3
  <2> QED
    BY <2>1, <2>2
<1>4. FilesAreWhole'
  <2> SUFFICES ASSUME NEW n \in Node, NEW b \in Blob, Exists(n, b)'
               PROVE  \/ Content(n, b)' = Whole(b)'
                      \/ \E d \in Conn : Dst[d] = n /\ Writing(d, b)'
    BY DEF FilesAreWhole
  <2>1. CASE ~Exists(n, b)
    BY <2>1
  <2>2. CASE Dst[c] = n /\ Writing(c, b)
    BY <1>2, <2>2
  <2>3. CASE Exists(n, b) /\ Stays(n, b) /\ ~(Dst[c] = n /\ Writing(c, b))
    <3>1. Content(n, b) = Whole(b) \/ \E d \in Conn : Dst[d] = n /\ Writing(d, b)
      BY <2>3 DEF CopyOk, FilesAreWhole
    <3>2. Content(n, b)' = Content(n, b)
      BY <2>3 DEF Stays, Content
    <3>3. ASSUME NEW d \in Conn, Dst[d] = n, Writing(d, b) PROVE Writing(d, b)'
      BY <1>1, <2>3, <3>3
    <3> QED
      BY <1>2, <3>1, <3>2, <3>3
  <2> QED
    BY <2>1, <2>2, <2>3 DEF OthersStay
<1>5. ASSUME NEW d \in Conn \ {c} PROVE ReadsWhole(d)' /\ WritesInOrder(d)' /\ AckedExists(d)'
  <2>1. ASSUME NEW n \in Node, NEW b \in Blob, Exists(n, b),
               b \in room[n] \/ (n = Dst[d] /\ Awaits(d, b))
        PROVE  Stays(n, b)
    <3>1. CASE Dst[c] = n /\ Writing(c, b)
      <4>1. b \notin room[n]
        BY <3>1, WritersAreNew
      <4> QED
        BY <2>1, <3>1, <4>1, WritersAreApart
    <3> QED
      BY <2>1, <3>1 DEF OthersStay
  <2> QED
    BY <2>1, ConnStays DEF OthersStay
<1> QED
  BY <1>3, <1>4, <1>5 DEF CopyOk

(* A step that changes no file, and ends no writing before it is done.     *)
LEMMA CopyQuiet ==
  ASSUME TransfersApart, RoomInv, CopyOk, NEW c \in Conn, OthersStay(c),
         UNCHANGED storeVars,
         \A b \in Blob : Writing(c, b) => Writing(c, b)' \/ Content(Dst[c], b) = Whole(b),
         \A b \in Blob : Arriving(c, b) => Arriving(c, b)' \/ b \in room'[Dst[c]],
         ReadsWhole(c)' /\ WritesInOrder(c)' /\ AckedExists(c)'
  PROVE  CopyOk'
<1>1. \A n \in Node, b \in Blob : /\ Exists(n, b)' = Exists(n, b)
                                  /\ Content(n, b)' = Content(n, b)
  BY DEF storeVars, Exists, Content
<1>2. Dst[c] \in Node
  BY ConstantsAssumption
<1>3. \A b \in Blob : Writing(c, b) /\ Exists(Dst[c], b)' =>
        Writing(c, b)' \/ Content(Dst[c], b)' = Whole(b)
  BY <1>1, <1>2
<1>4. \A n \in Node, b \in Blob : Exists(n, b)' =>
        Exists(n, b) \/ (Dst[c] = n /\ Writing(c, b)' /\ Arriving(c, b)')
  BY <1>1
<1> QED
  BY <1>3, <1>4, CopyFrame

(* Steps of the client alone.                                              *)
LEMMA CopyClient ==
  ASSUME TransfersApart, RoomInv, CopyOk, NEW c \in Conn, OthersStay(c),
         UNCHANGED storeVars, UNCHANGED <<handler, batch, todo, to, room>>,
         handler[c] = "blocks" => count'[c] = count[c] /\ pos'[c] = pos[c],
         link'[c] => \/ client'[c] = "dialed" /\ handler[c] = "idle"
                     \/ link[c] /\ client'[c] = client[c]
                     \/ link[c] /\ Receiving(c),
         ReadsWhole(c)'
  PROVE  CopyOk'
<1>1. \A b \in Blob : Writing(c, b)' = Writing(c, b) /\ Arriving(c, b)' = Arriving(c, b)
  BY DEF Writing, Arriving, Receiving, Current
<1>2. ReadsWhole(c) /\ WritesInOrder(c) /\ AckedExists(c) /\ StepsMatch
  BY DEF CopyOk, RoomInv
<1>3. WritesInOrder(c)'
  BY <1>2 DEF WritesInOrder, Current, OthersStay, storeVars
<1>4. AckedExists(c)'
  <2> SUFFICES ASSUME link'[c], Receiving(c) \/ client'[c] = "done", NEW b \in batch[c]
               PROVE  Exists(Dst[c], b) \/ (Receiving(c) /\ b \in todo[c])
    BY DEF AckedExists, Exists, Receiving, storeVars
  <2>1. CASE link[c] /\ (Receiving(c) \/ client[c] = "done")
    BY <1>2, <2>1 DEF AckedExists
  <2>2. link[c] /\ (Receiving(c) \/ client[c] = "done")
    BY DEF Receiving
  <2> QED
    BY <2>1, <2>2
<1> QED
  BY <1>1, <1>3, <1>4, CopyQuiet

LEMMA CopyDial ==
  ASSUME TransfersApart, RoomInv, CopyOk, NEW c \in Conn, Dial(c)
  PROVE  CopyOk'
<1>1. OthersStay(c)
  BY ConnLocal DEF ConnNext
<1>2. /\ UNCHANGED storeVars /\ UNCHANGED <<handler, batch, todo, to, room, count, pos, from>>
      /\ link'[c] => client'[c] = "dialed" /\ handler[c] = "idle"
      /\ client'[c] = "dialed"
  BY DEF Dial, RoomInv, TypeInv, TypeOK, StepsMatch, roomVars, batchVars, copyVars
<1>3. ReadsWhole(c)'
  BY <1>1, <1>2 DEF CopyOk, ReadsWhole, Sending, Current, Exists, OthersStay, storeVars
<1> QED
  BY <1>1, <1>2, <1>3, CopyClient

LEMMA CopyStatFails ==
  ASSUME TransfersApart, RoomInv, CopyOk, NEW c \in Conn, StatFails(c)
  PROVE  CopyOk'
<1>1. OthersStay(c)
  BY ConnLocal DEF ConnNext
<1>2. /\ UNCHANGED storeVars /\ UNCHANGED <<handler, batch, todo, to, room, count, pos, from>>
      /\ link'[c] => client'[c] = "dialed" /\ handler[c] = "idle"
      /\ client'[c] = "idle"
  BY DEF StatFails, RoomInv, TypeInv, TypeOK, StepsMatch, roomVars, batchVars, copyVars
<1>3. ReadsWhole(c)'
  BY <1>1, <1>2 DEF CopyOk, ReadsWhole, Sending, Current, Exists, OthersStay, storeVars
<1> QED
  BY <1>1, <1>2, <1>3, CopyClient

LEMMA CopyReadFails ==
  ASSUME TransfersApart, RoomInv, CopyOk, NEW c \in Conn, ReadFails(c)
  PROVE  CopyOk'
<1>1. OthersStay(c)
  BY ConnLocal DEF ConnNext
<1>2. /\ UNCHANGED storeVars /\ UNCHANGED <<handler, batch, todo, to, room, count, pos, from>>
      /\ link'[c] => client'[c] = "dialed" /\ handler[c] = "idle"
      /\ client'[c] = "idle"
  BY DEF ReadFails, RoomInv, TypeInv, TypeOK, StepsMatch, roomVars, batchVars, copyVars
<1>3. ReadsWhole(c)'
  BY <1>1, <1>2 DEF CopyOk, ReadsWhole, Sending, Current, Exists, OthersStay, storeVars
<1> QED
  BY <1>1, <1>2, <1>3, CopyClient

LEMMA CopySyncError ==
  ASSUME TransfersApart, RoomInv, CopyOk, NEW c \in Conn, SyncError(c)
  PROVE  CopyOk'
<1>1. OthersStay(c)
  BY ConnLocal DEF ConnNext
<1>2. /\ UNCHANGED storeVars /\ UNCHANGED <<handler, batch, todo, to, room, count, pos, from>>
      /\ link'[c] => client'[c] = "dialed" /\ handler[c] = "idle"
      /\ client'[c] = "idle"
  BY DEF SyncError, RoomInv, TypeInv, TypeOK, StepsMatch, roomVars, batchVars, copyVars
<1>3. ReadsWhole(c)'
  BY <1>1, <1>2 DEF CopyOk, ReadsWhole, Sending, Current, Exists, OthersStay, storeVars
<1> QED
  BY <1>1, <1>2, <1>3, CopyClient

LEMMA CopyBreak ==
  ASSUME TransfersApart, RoomInv, CopyOk, NEW c \in Conn, Break(c)
  PROVE  CopyOk'
<1>1. OthersStay(c)
  BY ConnLocal DEF ConnNext
<1>2. /\ UNCHANGED storeVars /\ UNCHANGED <<handler, batch, todo, to, room, count, pos, from>>
      /\ link'[c] => client'[c] = "dialed" /\ handler[c] = "idle"
      /\ client' = client
  BY DEF Break, RoomInv, TypeInv, TypeOK, StepsMatch, roomVars, batchVars, copyVars
<1>3. ReadsWhole(c)'
  BY <1>1, <1>2 DEF CopyOk, ReadsWhole, Sending, Current, Exists, OthersStay, storeVars
<1> QED
  BY <1>1, <1>2, <1>3, CopyClient

(* A blob that a room lists is whole, if it exists.                        *)
LEMMA ListedIsWhole ==
  ASSUME RoomInv, CopyOk,
         NEW n \in Node, NEW b \in room[n], Exists(n, b)
  PROVE  Content(n, b) = Whole(b)
<1>1. b \in Blob
  BY DEF RoomInv, TypeInv, TypeOK
<1>2. ASSUME NEW d \in Conn, Dst[d] = n, Writing(d, b) PROVE FALSE
  BY <1>2, WritersAreNew
<1> QED
  BY <1>1, <1>2 DEF CopyOk, FilesAreWhole

LEMMA CopyStat ==
  ASSUME TransfersApart, RoomInv, CopyOk, NEW c \in Conn, Stat(c)
  PROVE  CopyOk'
<1>1. OthersStay(c)
  BY ConnLocal DEF ConnNext
<1> DEFINE b == Current(c)
<1>2. /\ Src[c] \in Node /\ b \in Blob /\ b \in room[Src[c]] /\ Exists(Src[c], b)
      /\ todo[c] \subseteq room[Src[c]]
  <2>1. Sending(c) /\ name[Src[c]][b] # 0
    BY DEF Stat, Sending
  <2> QED
    BY <2>1, CurrentIsNew DEF CopyOk, ReadsWhole, Exists
<1>3. Len(file[name[Src[c]][b]]) = size[b]
  <2>1. Content(Src[c], b) = Upload(size[b])
    BY <1>2, ListedIsWhole DEF Whole
  <2>2. size[b] \in 0..MaxSize
    BY <1>2 DEF RoomInv, TypeInv, TypeOK
  <2> QED
    BY <2>1, <2>2, UploadIsFile DEF Content
<1>4. /\ UNCHANGED storeVars /\ UNCHANGED <<handler, batch, todo, to, room, from, link, size>>
      /\ client[c] = "stat" /\ client'[c] = "open" /\ count'[c] = size[b] /\ pos'[c] = 0
  BY <1>3 DEF Stat, RoomInv, TypeInv, TypeOK, roomVars, batchVars
<1>5. Current(c)' = b /\ (name'[Src[c]][b] # 0)
  BY <1>2, <1>4 DEF Current, Exists, storeVars
<1>6. handler[c] # "blocks" /\ (link[c] => Receiving(c))
  BY <1>4 DEF RoomInv, StepsMatch, Receiving
<1>7. ReadsWhole(c)'
  BY <1>2, <1>4, <1>5 DEF ReadsWhole, Sending, Exists
<1> QED
  BY <1>1, <1>4, <1>6, <1>7, CopyClient

LEMMA CopyOpen ==
  ASSUME TransfersApart, RoomInv, CopyOk, NEW c \in Conn, Open(c)
  PROVE  CopyOk'
<1>1. OthersStay(c)
  BY ConnLocal DEF ConnNext
<1> DEFINE b == Current(c)
<1>2. /\ client[c] = "open" /\ client'[c] = "send"
      /\ UNCHANGED <<handler, batch, todo, to, room, link, count, pos, size>>
  BY DEF Open, RoomInv, TypeInv, TypeOK, roomVars, batchVars
<1>3. ReadsWhole(c) /\ name[Src[c]][b] # 0
  BY <1>2 DEF CopyOk, ReadsWhole, Exists
<1>4. UNCHANGED storeVars /\ from'[c] = name[Src[c]][b]
  BY <1>3, OpenTouches DEF storeVars
<1>5. Current(c)' = b
  BY <1>2 DEF Current
<1>6. link[c] => Receiving(c)
  BY <1>2 DEF RoomInv, StepsMatch, Receiving
<1>7. ReadsWhole(c)'
  BY <1>2, <1>3, <1>4, <1>5 DEF ReadsWhole, Sending, Exists, storeVars
<1> QED
  BY <1>1, <1>2, <1>4, <1>6, <1>7, CopyClient

LEMMA CopySyncDone ==
  ASSUME TransfersApart, RoomInv, CopyOk, NEW c \in Conn, SyncDone(c)
  PROVE  CopyOk'
<1>1. OthersStay(c)
  BY ConnLocal DEF ConnNext
<1>2. /\ UNCHANGED storeVars /\ UNCHANGED <<batchVars, room, size, count, from>>
      /\ handler[c] = "reply" /\ handler'[c] = "idle"
      /\ client'[c] = "idle" /\ ~link'[c]
  BY DEF SyncDone, RoomInv, TypeInv, TypeOK, roomVars, stepVars, copyVars
<1>3. \A b \in Blob : ~Writing(c, b) /\ ~Arriving(c, b)
  BY <1>2 DEF Writing, Arriving, Receiving
<1>4. ReadsWhole(c)' /\ WritesInOrder(c)' /\ AckedExists(c)'
  BY <1>2 DEF CopyOk, ReadsWhole, WritesInOrder, AckedExists, Sending, Receiving,
       Current, Exists,
     storeVars, batchVars
<1> QED
  BY <1>1, <1>2, <1>3, <1>4, CopyQuiet

LEMMA CopyReplyLost ==
  ASSUME TransfersApart, RoomInv, CopyOk, NEW c \in Conn, ReplyLost(c)
  PROVE  CopyOk'
<1>1. OthersStay(c)
  BY ConnLocal DEF ConnNext
<1>2. /\ UNCHANGED storeVars /\ UNCHANGED <<batchVars, room, size, count, from>>
      /\ handler[c] = "reply" /\ handler'[c] = "idle"
      /\ client'[c] = client[c] /\ ~link'[c]
  BY DEF ReplyLost, RoomInv, TypeInv, TypeOK, roomVars, stepVars, copyVars
<1>3. \A b \in Blob : ~Writing(c, b) /\ ~Arriving(c, b)
  BY <1>2 DEF Writing, Arriving, Receiving
<1>4. ReadsWhole(c)' /\ WritesInOrder(c)' /\ AckedExists(c)'
  BY <1>2 DEF CopyOk, ReadsWhole, WritesInOrder, AckedExists, Sending, Receiving,
       Current, Exists,
     storeVars, batchVars
<1> QED
  BY <1>1, <1>2, <1>3, <1>4, CopyQuiet

LEMMA CopyOffer ==
  ASSUME TransfersApart, RoomInv, CopyOk, NEW c \in Conn, Offer(c)
  PROVE  CopyOk'
<1>1. OthersStay(c)
  BY ConnLocal DEF ConnNext
<1>2. /\ UNCHANGED storeVars /\ client[c] = "dialed" /\ client'[c] = "dialed"
      /\ handler[c] = "idle" /\ handler'[c] = "offered"
  BY DEF Offer, RoomInv, TypeInv, TypeOK
<1>3. \A b \in Blob : ~Writing(c, b) /\ ~Arriving(c, b)
  BY <1>2 DEF Writing, Arriving, Receiving
<1>4. ReadsWhole(c)' /\ WritesInOrder(c)' /\ AckedExists(c)'
  BY <1>2 DEF ReadsWhole, WritesInOrder, AckedExists, Sending, Receiving
<1> QED
  BY <1>1, <1>2, <1>3, <1>4, CopyQuiet

LEMMA CopySendBatch ==
  ASSUME TransfersApart, RoomInv, CopyOk, NEW c \in Conn, SendBatch(c)
  PROVE  CopyOk'
<1>1. OthersStay(c)
  BY ConnLocal DEF ConnNext
<1> DEFINE new == room[Src[c]] \ have[c]
<1>2. /\ UNCHANGED storeVars /\ UNCHANGED room /\ handler[c] = "offered"
      /\ batch'[c] = new /\ todo'[c] = new
      /\ client'[c] = IF new = {} THEN "done" ELSE "stat"
      /\ handler'[c] = IF new = {} THEN "push" ELSE "count"
  BY DEF SendBatch, RoomInv, TypeInv, TypeOK, roomVars
<1>3. \A b \in Blob : ~Writing(c, b) /\ ~Arriving(c, b)
  BY <1>2 DEF Writing, Arriving, Receiving
<1>4. ReadsWhole(c)' /\ WritesInOrder(c)' /\ AckedExists(c)'
  BY <1>2 DEF ReadsWhole, WritesInOrder, AckedExists, Sending, Receiving
<1> QED
  BY <1>1, <1>2, <1>3, <1>4, CopyQuiet

LEMMA CopyPush ==
  ASSUME TransfersApart, RoomInv, CopyOk, NEW c \in Conn, Push(c)
  PROVE  CopyOk'
<1>1. OthersStay(c)
  BY ConnLocal DEF ConnNext
<1>2. /\ UNCHANGED storeVars /\ UNCHANGED <<batchVars, size, count, from>>
      /\ UNCHANGED <<client, link>> /\ handler[c] = "push" /\ handler'[c] = "reply"
      /\ room'[Dst[c]] = room[Dst[c]] \cup batch[c]
  BY ConstantsAssumption DEF Push, RoomInv, TypeInv, TypeOK, copyVars
<1>3. \A b \in Blob : /\ ~Writing(c, b)
                      /\ Arriving(c, b) => b \in room'[Dst[c]]
  BY <1>2 DEF Writing, Arriving, Receiving
<1>4. ReadsWhole(c) /\ AckedExists(c)
  BY DEF CopyOk
<1>5. ReadsWhole(c)'
  <2>1. room[Src[c]] \subseteq room'[Src[c]]
    BY <1>1, ConstantsAssumption DEF OthersStay
  <2> QED
    BY <1>2, <1>4, <2>1 DEF ReadsWhole, Sending, Current, Exists, storeVars, batchVars
<1>6. WritesInOrder(c)' /\ AckedExists(c)'
  BY <1>2, <1>4 DEF WritesInOrder, AckedExists, Receiving, Exists, storeVars, batchVars
<1> QED
  BY <1>1, <1>2, <1>3, <1>5, <1>6, CopyQuiet

(* What a handler has acknowledged as complete is the whole blob.          *)
LEMMA WrittenIsWhole ==
  ASSUME RoomInv, CopyOk, NEW c \in Conn,
         handler[c] = "blocks", ~(pos[c] < count[c])
  PROVE  Exists(Dst[c], Current(c)) /\ Content(Dst[c], Current(c)) = Whole(Current(c))
<1>1. to[c] = name[Dst[c]][Current(c)] /\ to[c] # 0
  BY DEF RoomInv, TypeInv, FilesAreNamed
<1>2. count[c] = size[Current(c)] /\ pos[c] <= count[c] /\ file[to[c]] = Upload(pos[c])
  BY DEF CopyOk, WritesInOrder
<1>3. count[c] \in Nat /\ pos[c] \in Nat
  BY DEF RoomInv, TypeInv, TypeOK
<1>4. pos[c] = count[c]
  BY <1>2, <1>3
<1> QED
  BY <1>1, <1>2, <1>4 DEF Exists, Content, Whole

LEMMA CopyBlobOk ==
  ASSUME TransfersApart, RoomInv, CopyOk, NEW c \in Conn, BlobOk(c)
  PROVE  CopyOk'
<1>1. OthersStay(c)
  BY ConnLocal DEF ConnNext
<1> DEFINE b == Current(c)  rest == todo[c] \ {b}
<1>2. /\ UNCHANGED storeVars /\ UNCHANGED <<room, batch, link>>
      /\ handler[c] = "blocks" /\ client[c] = "send" /\ link[c] /\ ~(pos[c] < count[c])
      /\ todo'[c] = rest
      /\ client'[c] = IF rest = {} THEN "done" ELSE "stat"
      /\ handler'[c] = IF rest = {} THEN "push" ELSE "count"
  <2>1. pos[c] = count[c] /\ count[c] \in Nat
    BY DEF BlobOk, RoomInv, TypeInv, TypeOK
  <2> QED
    BY <2>1 DEF BlobOk, RoomInv, TypeInv, TypeOK, roomVars
<1>3. Exists(Dst[c], b) /\ Content(Dst[c], b) = Whole(b)
  BY <1>2, WrittenIsWhole
<1>4. \A k \in Blob : Writing(c, k) => Content(Dst[c], k) = Whole(k)
  BY <1>3 DEF Writing
<1>5. \A k \in Blob : Arriving(c, k) => Arriving(c, k)'
  <2> SUFFICES ASSUME NEW k \in Blob, Arriving(c, k) PROVE Arriving(c, k)'
    OBVIOUS
  <2>1. k \in batch[c] /\ (k = b \/ k \notin todo[c])
    BY <1>2 DEF Arriving, Writing
  <2>2. k \in batch'[c] /\ (handler'[c] = "push" \/ (Receiving(c)' /\ k \notin todo'[c]))
    BY <1>2, <2>1 DEF Receiving
  <2> QED
    BY <2>2 DEF Arriving
<1>6. ReadsWhole(c) /\ AckedExists(c) /\ Sending(c) /\ Receiving(c)
  BY <1>2 DEF CopyOk, Sending, Receiving
<1>7. ReadsWhole(c)' /\ WritesInOrder(c)'
  BY <1>2, <1>6 DEF ReadsWhole, WritesInOrder, Sending
<1>8. AckedExists(c)'
  <2> SUFFICES ASSUME NEW k \in batch[c]
               PROVE  Exists(Dst[c], k) \/ (Receiving(c)' /\ k \in todo'[c])
    BY <1>2 DEF AckedExists, Exists, storeVars
  <2>1. Exists(Dst[c], k) \/ k \in todo[c]
    BY <1>2, <1>6 DEF AckedExists
  <2>2. CASE k \in rest
    BY <1>2, <2>2 DEF Receiving
  <2> QED
    BY <1>3, <2>1, <2>2
<1> QED
  BY <1>1, <1>2, <1>4, <1>5, <1>7, <1>8, CopyQuiet

(* The receiver has no file for a blob that is still to come.              *)
LEMMA CopyRecvCount ==
  ASSUME TransfersApart, RoomInv, CopyOk, NEW c \in Conn, RecvCount(c)
  PROVE  CopyOk'
<1>1. OthersStay(c)
  BY ConnLocal DEF ConnNext
<1> DEFINE b == Current(c)
<1>2. /\ UNCHANGED <<room, batch, todo, client, link, count, pos, from, size>>
      /\ handler[c] = "count" /\ handler'[c] = "blocks" /\ client[c] \in {"open", "send"}
  BY DEF RecvCount, RoomInv, TypeInv, TypeOK, roomVars, batchVars
<1>3. /\ Src[c] \in Node /\ Dst[c] \in Node /\ b \in Blob /\ b \in todo[c]
      /\ b \in batch[c] /\ b \notin room[Dst[c]] /\ Receiving(c)
  BY <1>2, CurrentIsNew DEF Receiving
<1>4. name[Dst[c]][b] = 0
  <2> SUFFICES ASSUME Exists(Dst[c], b) PROVE FALSE
    BY DEF Exists
  <2>1. PICK d \in Conn : Dst[d] = Dst[c] /\ Arriving(d, b)
    BY <1>3 DEF CopyOk, FilesAreListed
  <2>2. d # c
    BY <1>2, <1>3, <2>1 DEF Arriving, Writing
  <2>3. b \in batch[d] /\ Transferring(d) /\ Transferring(c)
    BY <1>2, <2>1 DEF Arriving, Writing, Receiving, Transferring
  <2> QED
    BY <1>3, <2>1, <2>2, <2>3 DEF TransfersApart
<1>5. /\ to'[c] = name'[Dst[c]][b] /\ to'[c] # 0 /\ file'[to'[c]] = <<>>
      /\ KeepsOthers(Dst[c], b)
  BY <1>4, RecvCountTouches
<1>6. \A k \in Blob : ~Writing(c, k)
  BY <1>2 DEF Writing
<1>7. Current(c)' = b
  BY <1>2 DEF Current
<1>8. \A k \in Blob : Writing(c, k)' <=> k = b
  BY <1>2, <1>7 DEF Writing
<1>9. \A k \in Blob : k = b => Arriving(c, k)'
  BY <1>2, <1>3, <1>8 DEF Arriving
<1>10. \A n \in Node, k \in Blob : Exists(n, k)' =>
         Exists(n, k) \/ (Dst[c] = n /\ Writing(c, k)' /\ Arriving(c, k)')
  <2> SUFFICES ASSUME NEW n \in Node, NEW k \in Blob, Exists(n, k)', ~Exists(n, k)
               PROVE  Dst[c] = n /\ Writing(c, k)' /\ Arriving(c, k)'
    OBVIOUS
  <2>1. n = Dst[c] /\ k = b
    BY <1>5 DEF KeepsOthers, Exists
  <2> QED
    BY <1>8, <1>9, <2>1
<1>11. \A k \in Blob : Arriving(c, k) => Arriving(c, k)'
  BY <1>2, <1>6 DEF Arriving, Receiving
<1>12. ReadsWhole(c) /\ AckedExists(c) /\ size[b] \in Nat
  <2>1. size \in [Blob -> 0..MaxSize]
    BY DEF RoomInv, TypeInv, TypeOK
  <2>2. size[b] \in 0..MaxSize
    BY <1>3, <2>1
  <2> QED
    BY <2>2 DEF CopyOk
<1>13. ReadsWhole(c)'
  <2>1. name'[Src[c]][b] = name[Src[c]][b]
    BY <1>3, <1>5, ConstantsAssumption DEF KeepsOthers
  <2> QED
    BY <1>2, <1>7, <1>12, <2>1 DEF ReadsWhole, Sending, Exists
<1>14. WritesInOrder(c)'
  <2>1. pos[c] = 0 /\ count[c] = size[b]
    BY <1>2, <1>12 DEF ReadsWhole
  <2>2. Upload(0) = <<>>
    BY UploadGrows
  <2>3. 0 <= size[b]
    BY <1>12
  <2>4. file'[to'[c]] = Upload(pos'[c]) /\ count'[c] = size'[b] /\ pos'[c] <= count'[c]
    BY <1>2, <1>5, <2>1, <2>2, <2>3
  <2> QED
    BY <1>7, <2>4 DEF WritesInOrder, b
<1>15. AckedExists(c)'
  <2> SUFFICES ASSUME link[c], NEW k \in batch[c]
               PROVE  name'[Dst[c]][k] # 0 \/ k \in todo[c]
    BY <1>2 DEF AckedExists, Exists, Receiving
  <2>1. Exists(Dst[c], k) \/ k \in todo[c]
    BY <1>3, <1>12 DEF AckedExists
  <2>2. k \in Blob
    BY DEF RoomInv, TypeInv, TypeOK
  <2> QED
    BY <1>3, <1>5, <2>1, <2>2 DEF KeepsOthers, Exists
<1> QED
  BY <1>1, <1>6, <1>10, <1>11, <1>13, <1>14, <1>15, CopyFrame

(* The client reads a listed blob, so the block is the next one.           *)
LEMMA CopyBlock ==
  ASSUME TransfersApart, RoomInv, CopyOk, NEW c \in Conn, Block(c)
  PROVE  CopyOk'
<1>1. OthersStay(c)
  BY ConnLocal DEF ConnNext
<1> DEFINE b == Current(c)
<1>2. /\ UNCHANGED <<room, batch, todo, client, handler, link, count, from, to, size>>
      /\ link[c] /\ client[c] = "send" /\ handler[c] = "blocks"
      /\ pos[c] < count[c] /\ pos'[c] = pos[c] + 1
  BY DEF Block, RoomInv, TypeInv, TypeOK, roomVars, stepVars, batchVars
<1>3. /\ b \in Blob /\ b \in todo[c] /\ Src[c] \in Node /\ Dst[c] \in Node
      /\ Sending(c) /\ Receiving(c)
  BY <1>2, CurrentIsNew DEF Sending, Receiving
<1>4. /\ name' = name /\ to[c] = name[Dst[c]][b]
      /\ file'[to[c]] = Append(file[to[c]], file[from[c]][pos[c] + 1])
  BY BlockTouches
<1>5. ReadsWhole(c) /\ WritesInOrder(c) /\ AckedExists(c)
  BY DEF CopyOk
<1>6. /\ from[c] = name[Src[c]][b] /\ Exists(Src[c], b) /\ count[c] = size[b]
      /\ b \in room[Src[c]] /\ file[to[c]] = Upload(pos[c])
  BY <1>2, <1>3, <1>5 DEF ReadsWhole, WritesInOrder
<1>7. file[from[c]] = Upload(size[b])
  <2>1. Content(Src[c], b) = Whole(b)
    BY <1>3, <1>6, ListedIsWhole
  <2> QED
    BY <1>6, <2>1 DEF Content, Whole
<1>8. /\ size[b] \in 0..MaxSize /\ pos[c] \in Nat /\ count[c] \in Nat
      /\ pos[c] + 1 \in 1..size[b] /\ pos[c] + 1 <= count[c]
  <2>1. size[b] \in 0..MaxSize /\ pos[c] \in Nat /\ count[c] \in Nat
    BY <1>3 DEF RoomInv, TypeInv, TypeOK
  <2> QED
    BY <1>2, <1>6, <2>1, ConstantsAssumption
<1>9. file'[to[c]] = Upload(pos[c] + 1)
  <2>1. file[from[c]][pos[c] + 1] = pos[c] + 1
    BY <1>7, <1>8, UploadIsFile
  <2> QED
    BY <1>4, <1>6, <1>8, <2>1, UploadGrows
<1>10. Current(c)' = b
  BY <1>2 DEF Current
<1>11. \A k \in Blob : Writing(c, k)' = Writing(c, k) /\ Arriving(c, k)' = Arriving(c, k)
  BY <1>2 DEF Writing, Arriving, Receiving, Current
<1>12. \A n \in Node, k \in Blob : Exists(n, k)' = Exists(n, k)
  BY <1>4 DEF Exists
<1>13. ReadsWhole(c)' /\ AckedExists(c)'
  BY <1>2, <1>4, <1>5, <1>10 DEF ReadsWhole, AckedExists, Sending, Receiving, Exists
<1>14. WritesInOrder(c)'
  BY <1>2, <1>6, <1>8, <1>9, <1>10 DEF WritesInOrder
<1> QED
  BY <1>1, <1>11, <1>12, <1>13, <1>14, CopyFrame

(* A blob that is cut short is removed when the handler leaves it.         *)
LEMMA CopyCleanUp ==
  ASSUME TransfersApart, RoomInv, CopyOk, NEW c \in Conn,
         RecvFails(c) \/ WriteFails(c)
  PROVE  CopyOk'
<1>1. OthersStay(c)
  BY ConnLocal DEF ConnNext
<1> DEFINE b == Current(c)
<1>2. /\ UNCHANGED <<room, batch, todo, client, count, pos, from, size>> /\ CleanUp(c)
      /\ handler[c] \in {"offered", "count", "blocks"} /\ handler'[c] = "push" /\ ~link'[c]
  BY DEF RecvFails, WriteFails, RoomInv, TypeInv, TypeOK, roomVars, batchVars, copyVars
<1>3. \/ UNCHANGED storeVars /\ ~(handler[c] = "blocks" /\ pos[c] < count[c])
      \/ /\ KeepsOthers(Dst[c], b) /\ name'[Dst[c]][b] = 0
         /\ handler[c] = "blocks" /\ Dst[c] \in Node /\ b \in Blob
  BY <1>2, CleanUpTouches
<1>4. \A n \in Node, k \in Blob : Exists(n, k)' => Exists(n, k)
  <2>1. CASE UNCHANGED storeVars
    BY <2>1 DEF storeVars, Exists
  <2>2. CASE KeepsOthers(Dst[c], b) /\ name'[Dst[c]][b] = 0
    <3> SUFFICES ASSUME NEW n \in Node, NEW k \in Blob, name'[n][k] # 0 PROVE name[n][k] # 0
      BY DEF Exists
    <3>1. n # Dst[c] \/ k # b
      BY <2>2
    <3>2. name'[n][k] = name[n][k]
      BY <2>2, <3>1 DEF KeepsOthers
    <3> QED
      BY <3>2
  <2> QED
    BY <1>3, <2>1, <2>2
<1>5. \A k \in Blob : Writing(c, k) /\ Exists(Dst[c], k)' => Content(Dst[c], k)' = Whole(k)
  <2> SUFFICES ASSUME NEW k \in Blob, Writing(c, k), name'[Dst[c]][k] # 0
               PROVE  Content(Dst[c], k)' = Whole(k)
    BY DEF Exists
  <2>1. k = b /\ handler[c] = "blocks"
    BY DEF Writing
  <2>2. UNCHANGED storeVars /\ ~(pos[c] < count[c])
    BY <1>3, <2>1
  <2>3. Content(Dst[c], k) = Whole(k)
    BY <2>1, <2>2, WrittenIsWhole
  <2> QED
    BY <2>2, <2>3 DEF Content, storeVars
<1>6. \A k \in Blob : Arriving(c, k) => Arriving(c, k)'
  BY <1>2 DEF Arriving
<1>7. ReadsWhole(c)'
  <2>1. ReadsWhole(c)
    BY DEF CopyOk
  <2>2. Current(c)' = b
    BY <1>2 DEF Current
  <2>3. Sending(c) => name'[Src[c]][b] = name[Src[c]][b]
    <3>1. CASE UNCHANGED storeVars
      BY <3>1 DEF storeVars
    <3>2. CASE KeepsOthers(Dst[c], b) /\ b \in Blob
      BY <3>2, ConstantsAssumption DEF KeepsOthers
    <3> QED
      BY <1>3, <3>1, <3>2
  <2> QED
    BY <1>2, <2>1, <2>2, <2>3 DEF ReadsWhole, Sending, Exists
<1>8. WritesInOrder(c)' /\ AckedExists(c)'
  BY <1>2 DEF WritesInOrder, AckedExists
<1> QED
  BY <1>1, <1>4, <1>5, <1>6, <1>7, <1>8, CopyFrame

LEMMA CopySendFile ==
  ASSUME RoomInv, CopyOk, NEW f \in Blob, SendFile(f)
  PROVE  CopyOk'
<1> DEFINE n == Author[f]
<1>0. n \in Node
  BY ConstantsAssumption
<1>1. /\ f \notin published /\ UNCHANGED <<stepVars, batchVars, copyVars>>
      /\ room'[n] = room[n] \cup {f} /\ \A m \in Node \ {n} : room'[m] = room[m]
  BY <1>0 DEF SendFile, RoomInv, TypeInv, TypeOK
<1>2. PICK k \in 0..MaxSize : file'[Len(file) + 1] = Upload(k) /\ size' = [size EXCEPT ![f] = k]
  BY SendFileTouches DEF RoomInv
<1>3. KeepsOthers(n, f) /\ name'[n][f] = Len(file) + 1
  BY SendFileTouches DEF RoomInv
<1>4. \A m \in Node : name[m][f] = 0
  BY <1>1 DEF RoomInv, FilesAreNamed
<1>5. size'[f] = k /\ \A b \in Blob \ {f} : size'[b] = size[b]
  BY <1>2 DEF RoomInv, TypeInv, TypeOK
<1>6. \A d \in Conn : \A b : Writing(d, b)' = Writing(d, b) /\ Arriving(d, b)' = Arriving(d, b)
  BY <1>1 DEF Writing, Arriving, Receiving, Current, stepVars, batchVars
<1>7. ASSUME NEW m \in Node, NEW b \in Blob, name'[m][b] # 0
      PROVE  \/ m = n /\ b = f
             \/ Exists(m, b) /\ Stays(m, b) /\ b # f
  <2>1. CASE m = n /\ b = f
    BY <2>1
  <2>2. CASE ~(m = n /\ b = f)
    <3>1. name'[m][b] = name[m][b]
      BY <2>2, <1>3 DEF KeepsOthers
    <3>2. Exists(m, b) /\ b # f
      BY <1>4, <1>7, <3>1 DEF Exists
    <3> QED
      BY <3>2, SendFileStays
  <2> QED
    BY <2>1, <2>2
<1>8. FilesAreListed'
  <2> SUFFICES ASSUME NEW m \in Node, NEW b \in Blob, name'[m][b] # 0
               PROVE  b \in room'[m] \/ \E d \in Conn : Dst[d] = m /\ Arriving(d, b)'
    BY DEF FilesAreListed, Exists
  <2>1. CASE m = n /\ b = f
    BY <1>1, <2>1
  <2>2. CASE Exists(m, b)
    <3>1. b \in room[m] \/ \E d \in Conn : Dst[d] = m /\ Arriving(d, b)
      BY <2>2 DEF CopyOk, FilesAreListed
    <3> QED
      BY <1>1, <1>6, <3>1
  <2> QED
    BY <1>7, <2>1, <2>2
<1>9. FilesAreWhole'
  <2> SUFFICES ASSUME NEW m \in Node, NEW b \in Blob, name'[m][b] # 0
               PROVE  \/ file'[name'[m][b]] = Upload(size'[b])
                      \/ \E d \in Conn : Dst[d] = m /\ Writing(d, b)'
    BY DEF FilesAreWhole, Exists, Content, Whole
  <2>1. CASE m = n /\ b = f
    BY <1>2, <1>3, <1>5, <2>1
  <2>2. CASE Exists(m, b) /\ Stays(m, b) /\ b # f
    <3>1. Content(m, b) = Whole(b) \/ \E d \in Conn : Dst[d] = m /\ Writing(d, b)
      BY <2>2 DEF CopyOk, FilesAreWhole
    <3> QED
      BY <1>5, <1>6, <2>2, <3>1 DEF Content, Whole, Stays
  <2> QED
    BY <1>7, <2>1, <2>2
<1>10. ASSUME NEW d \in Conn PROVE ReadsWhole(d)' /\ WritesInOrder(d)' /\ AckedExists(d)'
  <2>1. LocalStays(d)
    BY <1>1 DEF LocalStays, stepVars, batchVars, copyVars
  <2>2. \A m \in Node : room[m] \subseteq room'[m]
    BY <1>1
  <2>3. \A b \in published : size'[b] = size[b]
    BY <1>1, <1>5 DEF RoomInv, TypeInv, TypeOK
  <2> QED
    BY <2>1, <2>2, <2>3, ConnStays, SendFileStays
<1> QED
  BY <1>8, <1>9, <1>10 DEF CopyOk

LEMMA CopyInit == Init => CopyOk
BY DEF Init, CopyOk, FilesAreListed, FilesAreWhole, ReadsWhole, WritesInOrder,
     AckedExists,
   Exists, Sending, Receiving

LEMMA CopyNext ==
  ASSUME TransfersApart, RoomInv, CopyInv, [Next]_vars
  PROVE  CopyInv'
<1> SUFFICES ASSUME stops' = 0 PROVE CopyOk'
  BY DEF CopyInv, CopyOk
<1>1. \A n \in Node : ~Crash(n) /\ ~Exit(n)
  BY KillEffect DEF RoomInv
<1>2. stops = 0
  BY <1>1 DEF Next, ConnNext, SendFile, Dial, SendBatch, Stat, StatFails, Open,
       ReadFails, SyncDone,
     SyncError, Offer, RecvCount, Block, BlobOk, RecvFails, WriteFails, Push, ReplyLost, Break, vars
<1>3. CopyOk
  BY <1>2 DEF CopyInv, CopyOk
<1>4. CASE UNCHANGED vars
  <2>1. UNCHANGED <<storeVars, roomVars, stepVars, batchVars, copyVars>>
    BY <1>4 DEF vars
  <2>2. \A d \in Conn : \A b : Writing(d, b)' = Writing(d, b) /\ Arriving(d, b)' = Arriving(d, b)
    BY <2>1 DEF Writing, Arriving, Receiving, Current, stepVars, batchVars
  <2>3. \A n \in Node, b \in Blob : Exists(n, b) => Stays(n, b)
    BY <2>1 DEF Stays, storeVars
  <2>4. \A d \in Conn : LocalStays(d)
    BY <2>1 DEF LocalStays, stepVars, batchVars, copyVars
  <2>5. FilesAreListed' /\ FilesAreWhole'
    BY <1>3, <2>1, <2>2 DEF CopyOk, FilesAreListed, FilesAreWhole, Exists,
         Content, Whole, storeVars,
       roomVars
  <2>6. \A d \in Conn : ReadsWhole(d)' /\ WritesInOrder(d)' /\ AckedExists(d)'
    BY <1>3, <2>1, <2>3, <2>4, ConnStays DEF roomVars
  <2> QED
    BY <2>5, <2>6 DEF CopyOk
<1>5. CASE Next
  BY <1>1, <1>3, <1>5, NextSteps, CopySendFile, CopyDial, CopySendBatch, CopyStat, CopyStatFails,
     CopyOpen, CopyReadFails, CopySyncDone, CopySyncError, CopyOffer, CopyRecvCount, CopyBlock,
     CopyBlobOk, CopyCleanUp, CopyPush, CopyReplyLost, CopyBreak
<1> QED
  BY <1>4, <1>5

LEMMA CopyInvariant == Spec /\ []TransfersApart => [](RoomInv /\ CopyInv)
<1>1. Init => CopyInv
  BY CopyInit DEF CopyInv, CopyOk
<1>2. RoomInv /\ TransfersApart /\ CopyInv /\ [Next]_vars => CopyInv'
  BY CopyNext
<1> QED
  BY <1>1, <1>2, RoomInvariant, PTL DEF Spec

(* As long as transfers keep apart, one that fails leaves no part of a     *)
(* blob that a room lists: it is whole or missing until a daemon goes      *)
(* down.                                                                   *)
THEOREM BlobsAreWholeOrMissing == Spec /\ []TransfersApart => []WholeOrMissing
<1>1. RoomInv /\ CopyInv => WholeOrMissing
  BY ListedIsWhole DEF CopyInv, CopyOk, WholeOrMissing
<1> QED
  BY <1>1, CopyInvariant, PTL

(* As long as transfers keep apart, a client at the end of sendBlobs knows *)
(* that the receiver has every blob of the batch, whole.                   *)
THEOREM AcknowledgedBlobsAreWhole == Spec /\ []TransfersApart => []AckMeansWhole
<1>1. RoomInv /\ TransfersApart /\ CopyInv => AckMeansWhole
  <2> SUFFICES ASSUME RoomInv, TransfersApart, CopyInv, NEW c \in Conn,
                      stops = 0, link[c], client[c] = "done", NEW b \in batch[c]
               PROVE  Exists(Dst[c], b) /\ Content(Dst[c], b) = Whole(b)
    BY DEF AckMeansWhole
  <2>1. CopyOk /\ Dst[c] \in Node /\ b \in Blob
    BY ConstantsAssumption DEF CopyInv, CopyOk, RoomInv, TypeInv, TypeOK
  <2>2. handler[c] \in {"push", "reply"}
    BY DEF RoomInv, StepsMatch
  <2>3. Exists(Dst[c], b)
    BY <2>1, <2>2 DEF CopyOk, AckedExists, Receiving
  <2>4. ASSUME NEW d \in Conn, Dst[d] = Dst[c], Writing(d, b) PROVE FALSE
    <3>1. d # c /\ Awaits(c, b)
      BY <2>2, <2>4 DEF Writing, Awaits, Transferring
    <3> QED
      BY <2>4, <3>1, WritersAreApart
  <2> QED
    BY <2>1, <2>3, <2>4 DEF CopyOk, FilesAreWhole
<1> QED
  BY <1>1, CopyInvariant, PTL

=============================================================================
