------------------------------- MODULE DataConn ------------------------------
(***************************************************************************)
(* DataConn: frames over the bytes of a net.Conn, and the dialogues that   *)
(* the daemons hold over it.                                               *)
(*                                                                         *)
(* Writes go to a buffer and reach the connection when it is flushed or    *)
(* full; the connection delivers bytes in pieces of any size.  Each end    *)
(* follows its script, the sequence of reads, writes, flushes and calls on *)
(* files of syncMsgs and convClientHandler or of the contact handshake,    *)
(* and closes the connection when it returns.                              *)
(*                                                                         *)
(* A byte is a number below Base and a length takes two of them.  A        *)
(* payload stands for its bytes, and zstd for run-length coding: it makes  *)
(* some payloads shorter and gets them back.                               *)
(***************************************************************************)
EXTENDS Integers, SequencesExt

CONSTANTS
  Base,           \* the number of bytes
  MaxMsgSize,     \* maxMsgSize
  CompThreshold,  \* compThreshold
  BufSize,        \* the size of the buffers of bufio
  Blobs,          \* the blobs of a batch: sequences of numbers of blocks
  SplitHeaders,   \* whether a piece may end inside the length of a frame
  MayBreak        \* whether the connection may fail

ASSUME ConstantsAssumption ==
  /\ Base \in Nat /\ Base > 16
  /\ MaxMsgSize \in Nat /\ MaxMsgSize < Base * Base
  /\ CompThreshold \in Nat \ {0}
  /\ BufSize \in Nat \ {0}
  /\ Blobs \subseteq Seq(Nat)
  /\ SplitHeaders \in BOOLEAN /\ MayBreak \in BOOLEAN

VARIABLES
  script,   \* what each end does
  pc,       \* how far it is
  status,   \* whether it goes on, has come to its end or has met an error
  wbuf,     \* its bufio.Writer
  wire,     \* the bytes on their way to it
  rbuf,     \* its bufio.Reader
  frame,    \* the local variables of ReadBytes
  broken,   \* the connection has failed
  sent, got \* history: the payloads it has written and read

vars == <<script, pc, status, wbuf, wire, rbuf, frame, broken, sent, got>>

End == {"client", "server"}
Other(e) == IF e = "client" THEN "server" ELSE "client"

------------------------------------------------------------------------------
(* WriteBytes: the frame of a payload                                      *)

Compress(p) == <<p[1], Len(p)>>
Compressible(p) == Len(p) > 2 /\ \A i \in DOMAIN p : p[i] = p[1]
Decompress(p) == [i \in 1..p[2] |-> p[1]]

IsCompressed(p) == Len(p) >= CompThreshold /\ Compressible(p)
Body(p) == IF IsCompressed(p) THEN Compress(p) ELSE p

(* Every byte comes with whether a piece may end behind it.                *)
Frame(p) ==
  LET n == Len(Body(p))
      bytes == <<n % Base, n \div Base, IF IsCompressed(p) THEN 1 ELSE 0>> \o Body(p)
  IN  [i \in DOMAIN bytes |-> <<bytes[i], i # 1 \/ SplitHeaders>>]

(* Mutation of Kept: the buffer grows until it is flushed.                 *)
KeptAll(buf, new) == Len(buf) + Len(new)

(* bufio.Writer: how many of the bytes stay in the buffer.                 *)
Kept(buf, new) ==
  LET rest == Len(buf) + Len(new) - BufSize
  IN  IF rest <= 0 THEN BufSize + rest
      ELSE IF buf # <<>> /\ rest <= BufSize THEN rest
      ELSE 0

------------------------------------------------------------------------------
(* The dialogues                                                           *)

Write(p) == <<[op |-> "write", payload |-> p]>>
Flush == <<[op |-> "flush"]>>
(* onErr: "return", or what the code does when it ignores the error.       *)
Read(want, onErr) == <<[op |-> "read", want |-> want, onErr |-> onErr]>>
(* A call on a file of the blob store, which may fail.                     *)
Local(onErr) == <<[op |-> "local", onErr |-> onErr]>>
Anything == {}

Say(p) == Write(p) \o Flush
Repeat(n, s) == FlattenSeq([i \in 1..n |-> s])

Challenge == <<1, 2>>
Fingerprint == <<3>>
Signature == <<3, 4>>
RoomID == <<5>>
AuthOK == <<6>>
SyncState == <<7, 7, 7>>
Messages == <<8, 8, 8, 8, 8>>
(* What zstd does not shorten: a batch or a refusal of any length.         *)
Incompressible(n) == [i \in 1..n |-> i % 2]
LargeMessages == Incompressible(MaxMsgSize + 1)
MessagesOK == <<9>>
BlobIDs == <<10>>
Count == <<11>>
Block == <<12, 0, 1, 2>>
BlockOK == <<13>>
BlobOK == <<14>>
SyncOK == <<15>>
Refusal == <<0>>
ContactRequest == <<1, 3, 5>>
ContactResponse == <<3, 1>>

expectResponse(p) == Read({p}, "return")

fingerprintChallenge == Read(Anything, "return") \o Write(Fingerprint) \o Say(Signature)

(* StatFromID, FileFromID and the Read of each block may fail.             *)
sendBlobs(blocks) ==
  Say(BlobIDs) \o FlattenSeq([i \in DOMAIN blocks |->
    Local("return") \o Say(Count) \o Local("return")
      \o Repeat(blocks[i], Local("return") \o Say(Block) \o expectResponse(BlockOK))
      \o expectResponse(BlobOK)])

syncMsgs(blocks, messages) ==
  fingerprintChallenge \o Say(RoomID)
    \o expectResponse(AuthOK) \o Read(Anything, "return")
    \o Say(messages) \o expectResponse(MessagesOK)
    \o sendBlobs(blocks) \o expectResponse(SyncOK)

readFingerprintWithChallenge ==
  Say(Challenge) \o Read(Anything, "return") \o Read(Anything, "return")

(* An error in here, of the connection, of FileFromID or of the Write of a *)
(* block, is logged, and the handler goes on to its answer.                *)
readBlobs(blocks) ==
  Read(Anything, "answer") \o FlattenSeq([i \in DOMAIN blocks |->
    Read(Anything, "answer") \o Local("answer")
      \o Repeat(blocks[i], Read(Anything, "answer") \o Local("answer") \o Say(BlockOK))
      \o Say(BlobOK)])

(* The refusals are written and not flushed; the one with a message in it  *)
(* may be larger than the buffer, or than a frame may be.                  *)
convClientHandler(blocks) ==
  LET authenticate == readFingerprintWithChallenge \o Read(Anything, "return")
      refuseMessages(n) == authenticate \o Write(AuthOK) \o Say(SyncState)
                             \o Read(Anything, "next") \o Write(Incompressible(n))
  IN
  { readFingerprintWithChallenge \o Write(Refusal), authenticate \o Write(Refusal),
    refuseMessages(7), refuseMessages(MaxMsgSize + 1),
    authenticate \o Write(AuthOK) \o Say(SyncState) \o Read(Anything, "next") \o Say(MessagesOK)
      \o readBlobs(blocks) \o Say(SyncOK) }

createPeerViaContactID == Say(ContactRequest) \o Read(Anything, "return")

(* The contact may be unknown.                                             *)
contClientHandler == {Read(Anything, "return"), Read(Anything, "return") \o Say(ContactResponse)}

Scripts(client, servers) == {[e \in End |-> IF e = "client" THEN client ELSE s] : s \in servers}

------------------------------------------------------------------------------
NoFrame == [at |-> "length", need |-> 0, compressed |-> FALSE, total |-> <<>>]

Byte == 0..(Base - 1)
WireByte == Byte \X BOOLEAN

TypeOK ==
  /\ DOMAIN script = End
  /\ \A e \in End : pc[e] \in 1..(Len(script[e]) + 1)
  /\ status \in [End -> {"open", "ok", "error"}]
  /\ wbuf \in [End -> Seq(WireByte)] /\ \A e \in End : Len(wbuf[e]) <= BufSize
  /\ wire \in [End -> Seq(WireByte)]
  /\ rbuf \in [End -> Seq(WireByte)] /\ \A e \in End : Len(rbuf[e]) <= BufSize
  /\ frame \in [End -> [at : {"length", "flag", "body"}, need : 0..MaxMsgSize,
                        compressed : BOOLEAN, total : Seq(Byte)]]
  /\ broken \in BOOLEAN
  /\ sent \in [End -> Seq(Seq(Byte))] /\ got \in [End -> Seq(Seq(Byte))]

Init ==
  /\ script \in Scripts(createPeerViaContactID, contClientHandler)
                  \cup (UNION {Scripts(syncMsgs(b, m), convClientHandler(b)) :
                                  b \in Blobs, m \in {Messages, LargeMessages}})
  /\ pc = [e \in End |-> 1]
  /\ status = [e \in End |-> "open"]
  /\ wbuf = [e \in End |-> <<>>]
  /\ wire = [e \in End |-> <<>>]
  /\ rbuf = [e \in End |-> <<>>]
  /\ frame = [e \in End |-> NoFrame]
  /\ broken = FALSE
  /\ sent = [e \in End |-> <<>>]
  /\ got = [e \in End |-> <<>>]

At(e, op) ==
  /\ status[e] = "open"
  /\ pc[e] <= Len(script[e])
  /\ script[e][pc[e]].op = op

GoTo(e, i) == pc' = [pc EXCEPT ![e] = i]

(* What is written to a connection that is closed or broken is gone.       *)
Emit(e, bytes) ==
  wire' = IF broken \/ status[Other(e)] # "open" THEN wire
          ELSE [wire EXCEPT ![Other(e)] = @ \o bytes]

(* The payload may be too large; syncMsgs and convClientHandler do not     *)
(* look at the error.                                                      *)
WriteBytes(e) ==
  LET p == script[e][pc[e]].payload
      all == wbuf[e] \o Frame(p)
      kept == Kept(wbuf[e], Frame(p))
  IN
  /\ At(e, "write")
  /\ GoTo(e, pc[e] + 1)
  /\ IF Len(Body(p)) > MaxMsgSize
     THEN UNCHANGED <<wbuf, wire, sent>>
     ELSE /\ Emit(e, SubSeq(all, 1, Len(all) - kept))
          /\ wbuf' = [wbuf EXCEPT ![e] = SubSeq(all, Len(all) - kept + 1, Len(all))]
          /\ sent' = [sent EXCEPT ![e] = Append(@, p)]
  /\ UNCHANGED <<script, status, rbuf, frame, broken, got>>

(* Mutation of FlushBuffer: it is left to the buffer to write.             *)
FlushBufferLater(e) ==
  /\ At(e, "flush")
  /\ GoTo(e, pc[e] + 1)
  /\ UNCHANGED <<script, status, wbuf, wire, rbuf, frame, broken, sent, got>>

FlushBuffer(e) ==
  /\ At(e, "flush")
  /\ GoTo(e, pc[e] + 1)
  /\ Emit(e, wbuf[e])
  /\ wbuf' = [wbuf EXCEPT ![e] = <<>>]
  /\ UNCHANGED <<script, status, rbuf, frame, broken, sent, got>>

------------------------------------------------------------------------------
(* ReadBytes                                                               *)

Reading(e) == At(e, "read")

(* bufio.Reader reads the connection once when its buffer is empty.        *)
Fill(e) ==
  /\ Reading(e)
  /\ rbuf[e] = <<>>
  /\ \E k \in 1..Len(wire[e]) :
       /\ k <= BufSize
       /\ wire[e][k][2]
       /\ rbuf' = [rbuf EXCEPT ![e] = SubSeq(wire[e], 1, k)]
       /\ wire' = [wire EXCEPT ![e] = SubSeq(@, k + 1, Len(@))]
  /\ UNCHANGED <<script, pc, status, wbuf, frame, broken, sent, got>>

(* One Read of at most n bytes: it returns what is buffered.               *)
Available(e, n) == IF Len(rbuf[e]) < n THEN Len(rbuf[e]) ELSE n
Bytes(e, n) == [i \in 1..Available(e, n) |-> rbuf[e][i][1]]
Consume(e, n) == rbuf' = [rbuf EXCEPT ![e] = SubSeq(@, Available(e, n) + 1, Len(@))]

(* The call returns an error.                                              *)
Leave(e) ==
  LET onErr == script[e][pc[e]].onErr
  IN  /\ GoTo(e, CASE onErr = "next" -> pc[e] + 1
                   [] onErr = "answer" -> Len(script[e]) - 1
                   [] OTHER -> pc[e])
      /\ status' = [status EXCEPT ![e] = IF onErr = "return" THEN "error" ELSE @]

Error(e) == frame' = [frame EXCEPT ![e] = NoFrame] /\ Leave(e)

(* The length is taken from the bytes that have come, the others being 0.  *)
ReadLength(e) ==
  LET l == Bytes(e, 2) \o <<0, 0>>
      need == l[1] + Base * l[2]
  IN
  /\ Reading(e) /\ frame[e].at = "length"
  /\ rbuf[e] # <<>>
  /\ Consume(e, 2)
  /\ IF need > MaxMsgSize
     THEN Error(e)
     ELSE /\ frame' = [frame EXCEPT ![e].at = "flag", ![e].need = need]
          /\ UNCHANGED <<pc, status>>
  /\ UNCHANGED <<script, wbuf, wire, broken, sent, got>>

ReadFlag(e) ==
  /\ Reading(e) /\ frame[e].at = "flag"
  /\ rbuf[e] # <<>>
  /\ Consume(e, 1)
  /\ frame' = [frame EXCEPT ![e].at = "body", ![e].compressed = (Bytes(e, 1)[1] = 1)]
  /\ UNCHANGED <<script, pc, status, wbuf, wire, broken, sent, got>>

(* Mutation of Complete: a single Read for the body.                       *)
CompleteAfterOne(e, total) == total # <<>>

Complete(e, total) == Len(total) = frame[e].need

(* One turn of the loop, and what follows it.                              *)
ReadBody(e) ==
  LET rest == frame[e].need - Len(frame[e].total)
      total == frame[e].total \o Bytes(e, rest)
      payload == IF frame[e].compressed /\ Len(total) = 2 THEN Decompress(total) ELSE total
      want == script[e][pc[e]].want
  IN
  /\ Reading(e) /\ frame[e].at = "body"
  /\ rest = 0 \/ rbuf[e] # <<>>
  /\ Consume(e, rest)
  /\ IF Complete(e, total)
     THEN /\ got' = [got EXCEPT ![e] = Append(@, payload)]
          /\ IF want = Anything \/ payload \in want
             THEN /\ frame' = [frame EXCEPT ![e] = NoFrame]
                  /\ GoTo(e, pc[e] + 1)
                  /\ UNCHANGED status
             ELSE Error(e)
     ELSE /\ frame' = [frame EXCEPT ![e].total = total]
          /\ UNCHANGED <<pc, status, got>>
  /\ UNCHANGED <<script, wbuf, wire, broken, sent>>

(* Mutation of ReadFails: the error of a response is not looked at.        *)
ReadFailsUnseen(e) ==
  /\ Reading(e)
  /\ rbuf[e] = <<>> /\ wire[e] = <<>>
  /\ broken \/ status[Other(e)] # "open"
  /\ frame' = [frame EXCEPT ![e] = NoFrame]
  /\ GoTo(e, pc[e] + 1)
  /\ UNCHANGED <<script, status, wbuf, wire, rbuf, broken, sent, got>>

(* Nothing comes any more.                                                 *)
ReadFails(e) ==
  /\ Reading(e)
  /\ rbuf[e] = <<>> /\ wire[e] = <<>>
  /\ broken \/ status[Other(e)] # "open"
  /\ Error(e)
  /\ UNCHANGED <<script, wbuf, wire, rbuf, broken, sent, got>>

------------------------------------------------------------------------------
(* The file is opened, read or written, or it cannot be.                   *)
UseFile(e) ==
  /\ At(e, "local")
  /\ \/ GoTo(e, pc[e] + 1) /\ UNCHANGED status
     \/ Leave(e)
  /\ UNCHANGED <<script, wbuf, wire, rbuf, frame, broken, sent, got>>

(* The function returns and closes the connection: its buffer is dropped.  *)
Close(e) ==
  /\ status[e] = "open" /\ pc[e] > Len(script[e])
  /\ status' = [status EXCEPT ![e] = "ok"]
  /\ wbuf' = [wbuf EXCEPT ![e] = <<>>]
  /\ UNCHANGED <<script, pc, wire, rbuf, frame, broken, sent, got>>

(* The connection fails, with any part of what is on its way.              *)
Break ==
  /\ MayBreak /\ ~broken
  /\ broken' = TRUE
  /\ wire' = [e \in End |-> <<>>]
  /\ UNCHANGED <<script, pc, status, wbuf, rbuf, frame, sent, got>>

Step(e) ==
  \/ WriteBytes(e) \/ FlushBuffer(e) \/ Fill(e)
  \/ ReadLength(e) \/ ReadFlag(e) \/ ReadBody(e) \/ ReadFails(e)
  \/ UseFile(e) \/ Close(e)

Next == (\E e \in End : Step(e)) \/ Break

(* Both ends run, and what is on the wire arrives.                         *)
FairSpec == Init /\ [][Next]_vars /\ \A e \in End : WF_vars(Step(e))

------------------------------------------------------------------------------
(* What the runs establish                                                 *)

(* What one end reads is what the other has written, frame by frame,       *)
(* however the buffers and the connection cut the bytes, unless they cut   *)
(* the length of a frame.                                                  *)
FramesArrive == \A e \in End : IsPrefix(got[e], sent[Other(e)])

(* The dialling end takes a dialogue for done only when both ends have     *)
(* read everything that the other has written: no refusal, no broken       *)
(* connection and no file that the handler could not write looks like      *)
(* success, also where the handler ignores the error and says sync_ok.     *)
SuccessIsMutual ==
  status["client"] = "ok" => \A e \in End : got[e] = sent[Other(e)]

(* WriteBytes has refused a payload of an end that has not looked.         *)
Refused(e) ==
  \E i \in 1..(pc[e] - 1) :
    /\ script[e][i].op = "write"
    /\ Len(Body(script[e][i].payload)) > MaxMsgSize

(* A dialogue leaves nobody waiting: everything that somebody waits for    *)
(* has been flushed, or the connection is closed.  The exception is a      *)
(* batch that is too large: WriteBytes refuses it, syncMsgs waits for      *)
(* messages_ok, and the handler for the batch, without a deadline.         *)
DialoguesEnd == <>((\A e \in End : status[e] # "open") \/ Refused("client"))

==============================================================================
