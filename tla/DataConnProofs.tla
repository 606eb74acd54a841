---------------------------- MODULE DataConnProofs ---------------------------
(***************************************************************************)
(* Proofs about DataConn, for any blobs and any sizes of the buffers and   *)
(* of the largest frame, with and without connections that fail.           *)
(*                                                                         *)
(* The type invariant needs the dialogues to be sequences of calls in      *)
(* which an error that is answered finds an answer; they are flattened     *)
(* from loops, so the first part is about FlattenSeq.                      *)
(*                                                                         *)
(* FramesArrive: the reader's buffer, the wire and the writer's buffer     *)
(* together are the frames that are still due, one behind the other,       *)
(* beginning as far inside the first as ReadBytes has come (Laid).  A      *)
(* write appends a frame, flushes and pieces move the bytes, every Read    *)
(* takes some off the front, and a connection that ends cuts off the end.  *)
(* ReadBytes then finds the length, the flag and the body of the first     *)
(* frame where it looks for them, provided that the two bytes of the       *)
(* length come together.                                                   *)
(*                                                                         *)
(* SuccessIsMutual: in syncs and handshakes the dialling end finishes by   *)
(* reading a last word F (Dialogue), which the accepting end writes behind *)
(* everything else, having come past as many reads as the other one has    *)
(* writes and past as many writes as the other one has reads.  If a call   *)
(* on a file has made it pass over a write (Silent), the dialling end has  *)
(* a read left when F comes.  If one of its reads has failed (Lost), the   *)
(* connection is broken or the dialling end gone, and then what is on its  *)
(* way to the dialling end lacks bytes behind it (Short).  So if F is      *)
(* heard at the end, every read has returned a payload, and FramesArrive   *)
(* says which.                                                             *)
(***************************************************************************)
EXTENDS DataConn, FiniteSetTheorems, SequenceTheorems, WellFoundedInduction, TLAPS

------------------------------------------------------------------------------
(* Sequences of sequences                                                  *)

(* Every set of numbers has a smallest.                                    *)
LEMMA NatMin ==
  ASSUME NEW T, T \subseteq Nat, T # {}
  PROVE  \E x \in T : \A y \in T : x <= y
<1> DEFINE R == OpToRel(<, Nat)
<1>1. \A i, j \in Nat : i < j => <<i, j>> \in R
  BY DEF OpToRel
<1>2. IsWellFoundedOn(R, Nat)
  BY NatLessThanWellFounded
<1> HIDE DEF R
<1>3. PICK x \in T : \A y \in T : ~(<<y, x>> \in R)
  BY <1>2, WFMin
<1>4. \A y \in T : y \in Nat /\ x \in Nat /\ ~(y < x)
  BY <1>1, <1>3
<1>5. \A y \in T : x <= y
  BY <1>4
<1> QED
  BY <1>5

(* Recursion along a sequence of sequences has a solution. *)
Flattens(f, ss, m) ==
  \A i \in 1..m : f[i] = IF i = 1 THEN ss[i] ELSE f[i - 1] \o ss[i]

LEMMA FlattenExists ==
  ASSUME NEW S, NEW n \in Nat, NEW ss \in [1..n -> Seq(S)]
  PROVE  \E f \in [1..n -> Seq(S)] : Flattens(f, ss, n)
<1> USE DEF Flattens
<1> DEFINE Solves(f, m) == Flattens(f, ss, m)
           Solved(m) == \E f \in [1..m -> Seq(S)] : Solves(f, m)
           Bad == {m \in 0..n : ~Solved(m)}
<1>1. Solved(0)
  <2>1. [i \in 1..0 |-> <<>>] \in [1..0 -> Seq(S)]
    OBVIOUS
  <2>2. \A f : Solves(f, 0)
    OBVIOUS
  <2> HIDE DEF Solves
  <2> QED
    BY <2>1, <2>2
<1>2. ASSUME NEW m \in 0..(n - 1), Solved(m) PROVE Solved(m + 1)
  <2>1. PICK f \in [1..m -> Seq(S)] : Solves(f, m)
    BY <1>2
  <2> DEFINE new == IF m = 0 THEN ss[1] ELSE f[m] \o ss[m + 1]
             g == [i \in 1..(m + 1) |-> IF i = m + 1 THEN new ELSE f[i]]
  <2>2. new \in Seq(S)
    <3>1. CASE m = 0
      BY <3>1
    <3>2. CASE m # 0
      <4>1. f[m] \in Seq(S) /\ ss[m + 1] \in Seq(S)
        BY <3>2
      <4> QED
        BY <3>2, <4>1, ConcatProperties
    <3> QED
      BY <3>1, <3>2
  <2> HIDE DEF new
  <2>3. g \in [1..(m + 1) -> Seq(S)]
    BY <2>2
  <2>4. Solves(g, m + 1)
    <3> SUFFICES ASSUME NEW i \in 1..(m + 1)
                 PROVE  g[i] = IF i = 1 THEN ss[i] ELSE g[i - 1] \o ss[i]
      OBVIOUS
    <3>1. CASE i = m + 1
      <4>1. CASE m = 0
        BY <3>1, <4>1 DEF new
      <4>2. CASE m # 0
        <5>1. g[i - 1] = f[m] /\ g[i] = new /\ i # 1
          BY <3>1, <4>2
        <5> QED
          BY <3>1, <4>2, <5>1 DEF new
      <4> QED
        BY <4>1, <4>2
    <3>2. CASE i # m + 1
      <4>1. i \in 1..m /\ g[i] = f[i]
        BY <3>2
      <4>2. i # 1 => g[i - 1] = f[i - 1]
        BY <3>2
      <4> QED
        BY <2>1, <4>1, <4>2
    <3> QED
      BY <3>1, <3>2
  <2> HIDE DEF g
  <2> QED
    BY <2>3, <2>4
<1> HIDE DEF Solved
<1>3. Bad = {}
  <2> SUFFICES ASSUME Bad # {} PROVE FALSE
    OBVIOUS
  <2>1. PICK m \in Bad : \A k \in Bad : m <= k
    <3>1. Bad \subseteq Nat
      OBVIOUS
    <3> HIDE DEF Bad
    <3> QED
      BY <3>1, NatMin
  <2>2. m \in 0..n /\ ~Solved(m) /\ m # 0
    BY <1>1, <2>1
  <2>3. m - 1 \notin Bad
    BY <2>1, <2>2
  <2>4. m - 1 \in 0..(n - 1) /\ Solved(m - 1) /\ m - 1 + 1 = m
    BY <2>2, <2>3
  <2>5. Solved(m - 1 + 1)
    BY <1>2, <2>4
  <2> QED
    BY <2>2, <2>4, <2>5
<1>4. PICK f \in [1..n -> Seq(S)] : Solves(f, n)
  <2>1. n \in 0..n /\ n \notin Bad
    BY <1>3
  <2>2. Solved(n)
    BY <2>1
  <2> QED
    BY <2>2 DEF Solved
<1> QED
  BY <1>4

(* What FlattenSeq is.                                                     *)
LEMMA FlattenIs ==
  ASSUME NEW S, NEW n \in Nat \ {0}, NEW ss \in [1..n -> Seq(S)]
  PROVE  \E f \in [1..n -> Seq(S)] : Flattens(f, ss, n) /\ FlattenSeq(ss) = f[n]
<1>0. PICK g0 \in [1..n -> Seq(S)] : Flattens(g0, ss, n)
  BY FlattenExists
<1>1. ss \in Seq(Seq(S)) /\ Len(ss) = n
  OBVIOUS
<1> DEFINE Def(g) == [i \in 1..n |-> IF i = 1 THEN ss[i] ELSE g[i - 1] \o ss[i]]
           f == CHOOSE h : h = Def(h)
<1>2. FlattenSeq(ss) = f[n]
  BY <1>1 DEF FlattenSeq
<1>3. \E h : h = Def(h)
  <2>1. g0 = Def(g0)
    BY <1>0 DEF Flattens
  <2> HIDE DEF Def
  <2> QED
    BY <2>1
<1>4. f = Def(f)
  BY <1>3
<1> HIDE DEF f
<1>5. \A i \in 1..n : f[i] = IF i = 1 THEN ss[i] ELSE f[i - 1] \o ss[i]
  BY <1>4
<1> DEFINE Bad == {i \in 1..n : f[i] \notin Seq(S)}
<1>6. Bad = {}
  <2> SUFFICES ASSUME Bad # {} PROVE FALSE
    OBVIOUS
  <2>1. PICK i \in Bad : \A k \in Bad : i <= k
    <3>1. Bad \subseteq Nat
      OBVIOUS
    <3> HIDE DEF Bad
    <3> QED
      BY <3>1, NatMin
  <2>2. i \in 1..n /\ ss[i] \in Seq(S) /\ f[i] \notin Seq(S)
    BY <2>1
  <2>3. i # 1
    BY <1>5, <2>2
  <2>4. i - 1 \in 1..n /\ i - 1 \notin Bad
    BY <2>1, <2>2, <2>3
  <2>5. f[i - 1] \in Seq(S) /\ f[i] = f[i - 1] \o ss[i]
    BY <1>5, <2>2, <2>3, <2>4
  <2> HIDE DEF Bad
  <2>6. f[i - 1] \o ss[i] \in Seq(S)
    BY <2>2, <2>5, ConcatProperties
  <2> QED
    BY <2>2, <2>5, <2>6
<1>7. f \in [1..n -> Seq(S)]
  <2>1. DOMAIN f = 1..n /\ f = [i \in DOMAIN f |-> f[i]]
    BY <1>4
  <2>2. \A i \in 1..n : f[i] \in Seq(S)
    BY <1>6
  <2> QED
    BY <2>1, <2>2
<1>8. Flattens(f, ss, n)
  BY <1>5 DEF Flattens
<1> QED
  BY <1>2, <1>7, <1>8

(* What is flattened consists of what is in the parts.                     *)
LEMMA FlattenType ==
  ASSUME NEW S, NEW n \in Nat, NEW ss \in [1..n -> Seq(S)]
  PROVE  FlattenSeq(ss) \in Seq(S)
<1>1. CASE n = 0
  <2>1. ss \in Seq(Seq(S)) /\ Len(ss) = 0
    BY <1>1
  <2> QED
    BY <2>1 DEF FlattenSeq
<1>2. CASE n # 0
  <2>1. PICK f \in [1..n -> Seq(S)] : FlattenSeq(ss) = f[n]
    BY <1>2, FlattenIs
  <2> QED
    BY <1>2, <2>1
<1> QED
  BY <1>1, <1>2

(* The two bytes of a length.                                              *)
LEMMA DivMod ==
  ASSUME NEW n \in Nat
  PROVE  /\ n % Base \in Byte
         /\ n \div Base \in Nat
         /\ (n % Base) + Base * (n \div Base) = n
<1>1. Base \in Nat /\ Base > 0
  BY ConstantsAssumption
<1>2. n % Base \in 0..(Base - 1)
  BY <1>1
<1>3. n \div Base \in Int
  BY <1>1
<1>4. (n % Base) + Base * (n \div Base) = n
  BY <1>1
<1>5. n \div Base >= 0
  BY <1>1, <1>2, <1>3, <1>4
<1> QED
  BY <1>2, <1>3, <1>4, <1>5 DEF Byte

(* A length fits into two bytes.                                           *)
LEMMA DivSmall ==
  ASSUME NEW n \in Nat, n < Base * Base
  PROVE  n \div Base \in Byte
<1>1. Base \in Nat /\ Base > 0
  BY ConstantsAssumption
<1> DEFINE d == n \div Base
           r == n % Base
<1>2. d \in Nat /\ r \in Nat /\ r + Base * d = n
  BY DivMod, <1>1 DEF Byte
<1> HIDE DEF d, r
<1>3. d < Base
  <2> SUFFICES ASSUME d >= Base PROVE FALSE
    BY <1>1, <1>2
  <2>1. Base * d >= Base * Base
    BY <1>1, <1>2
  <2> QED
    BY <1>1, <1>2, <2>1
<1> QED
  BY <1>1, <1>2, <1>3 DEF d, Byte

------------------------------------------------------------------------------
(* What the dialogues consist of                                           *)

(* The compressed form of a payload fits into bytes.                       *)
Payload == {p \in Seq(Byte) : Compressible(p) => Len(p) < Base}
Fitting == {p \in Payload : Len(Body(p)) <= MaxMsgSize}

OpType(errs) ==
  [op : {"write"}, payload : Payload] \cup [op : {"flush"}]
    \cup [op : {"read"}, want : SUBSET Seq(Byte), onErr : errs]
    \cup [op : {"local"}, onErr : errs]

Op == OpType({"return", "next", "answer"})
PlainOp == OpType({"return", "next"})

(* Only a script that ends with an answer goes there after an error.       *)
Script == {s \in Seq(Op) : s \in Seq(PlainOp) \/ Len(s) >= 2}

LEMMA ShortPayload ==
  ASSUME NEW n \in 1..5, NEW p \in [1..n -> 0..15]
  PROVE  p \in Payload
<1>1. 0..15 \subseteq Byte
  BY ConstantsAssumption DEF Byte
<1>2. p \in Seq(Byte) /\ Len(p) = n
  BY <1>1
<1> QED
  BY <1>2, ConstantsAssumption DEF Payload

LEMMA Payloads ==
  \A p \in {Challenge, Fingerprint, Signature, RoomID, AuthOK, SyncState, Messages,
            MessagesOK, BlobIDs, Count, Block, BlockOK, BlobOK, SyncOK, Refusal,
            ContactRequest, ContactResponse} : p \in Payload
<1>1. ASSUME NEW n \in 1..5 PROVE \A p \in [1..n -> 0..15] : p \in Payload
  BY ShortPayload
<1>2. \A p \in {Fingerprint, RoomID, AuthOK, MessagesOK, BlobIDs, Count, BlockOK, BlobOK,
                SyncOK, Refusal} : p \in Payload
  <2>1. \A p \in {Fingerprint, RoomID, AuthOK, MessagesOK, BlobIDs, Count, BlockOK, BlobOK,
                  SyncOK, Refusal} : p \in [1..1 -> 0..15]
    BY DEF Fingerprint, RoomID, AuthOK, MessagesOK, BlobIDs, Count, BlockOK, BlobOK,
           SyncOK, Refusal
  <2>2. 1 \in 1..5
    OBVIOUS
  <2> QED
    BY <1>1, <2>1, <2>2, Zenon
<1>3. \A p \in {Challenge, Signature, ContactResponse} : p \in Payload
  <2>1. \A p \in {Challenge, Signature, ContactResponse} : p \in [1..2 -> 0..15]
    BY DEF Challenge, Signature, ContactResponse
  <2>2. 2 \in 1..5
    OBVIOUS
  <2> QED
    BY <1>1, <2>1, <2>2, Zenon
<1>4. \A p \in {SyncState, ContactRequest} : p \in Payload
  <2>1. \A p \in {SyncState, ContactRequest} : p \in [1..3 -> 0..15]
    BY DEF SyncState, ContactRequest
  <2>2. 3 \in 1..5
    OBVIOUS
  <2> QED
    BY <1>1, <2>1, <2>2, Zenon
<1>5. Block \in Payload
  <2>1. Block \in [1..4 -> 0..15]
    BY DEF Block
  <2>2. 4 \in 1..5
    OBVIOUS
  <2> QED
    BY <1>1, <2>1, <2>2, Zenon
<1>6. Messages \in Payload
  <2>1. Messages \in [1..5 -> 0..15]
    BY DEF Messages
  <2>2. 5 \in 1..5
    OBVIOUS
  <2> QED
    BY <1>1, <2>1, <2>2, Zenon
<1> QED
  BY <1>2, <1>3, <1>4, <1>5, <1>6

LEMMA IncompressibleTyped ==
  ASSUME NEW n \in Nat
  PROVE  Incompressible(n) \in Payload
<1> DEFINE p == Incompressible(n)
<1>1. \A i \in 1..n : i % 2 \in 0..1
  OBVIOUS
<1>2. 0..1 \subseteq Byte
  BY ConstantsAssumption DEF Byte
<1>3. p \in [1..n -> Byte]
  <2>1. \A i \in 1..n : i % 2 \in Byte
    BY <1>1, <1>2
  <2> QED
    BY <2>1 DEF Incompressible
<1>4. p \in Seq(Byte) /\ Len(p) = n
  BY <1>3
<1>5. n > 2 => p[1] = 1 /\ p[2] = 0 /\ 2 \in DOMAIN p
  <2>1. 1 % 2 = 1 /\ 2 % 2 = 0
    OBVIOUS
  <2> QED
    BY <2>1 DEF Incompressible
<1>6. ~Compressible(p)
  BY <1>4, <1>5 DEF Compressible
<1> QED
  BY <1>4, <1>6 DEF Payload

LEMMA BatchTyped == \A m \in {Messages, LargeMessages} : m \in Payload
<1>1. MaxMsgSize + 1 \in Nat
  BY ConstantsAssumption
<1> QED
  BY <1>1, Payloads, IncompressibleTyped DEF LargeMessages

LEMMA OpTyped ==
  ASSUME NEW errs
  PROVE  /\ \A p \in Payload : /\ Write(p) \in Seq(OpType(errs))
                               /\ Say(p) \in Seq(OpType(errs)) /\ Len(Say(p)) = 2
         /\ Flush \in Seq(OpType(errs))
         /\ \A want \in SUBSET Seq(Byte), onErr \in errs : Read(want, onErr) \in Seq(OpType(errs))
         /\ \A onErr \in errs : Local(onErr) \in Seq(OpType(errs))
<1>1. ASSUME NEW p \in Payload
      PROVE  Write(p) \in Seq(OpType(errs)) /\ Len(Write(p)) = 1
  <2>1. [op |-> "write", payload |-> p] \in OpType(errs)
    BY DEF OpType
  <2> QED
    BY <2>1 DEF Write
<1>2. Flush \in Seq(OpType(errs)) /\ Len(Flush) = 1
  <2>1. [op |-> "flush"] \in OpType(errs)
    BY DEF OpType
  <2> QED
    BY <2>1 DEF Flush
<1>3. ASSUME NEW p \in Payload
      PROVE  Say(p) \in Seq(OpType(errs)) /\ Len(Say(p)) = 2
  BY <1>1, <1>2, ConcatProperties DEF Say
<1>4. ASSUME NEW want \in SUBSET Seq(Byte), NEW onErr \in errs
      PROVE  Read(want, onErr) \in Seq(OpType(errs))
  <2>1. [op |-> "read", want |-> want, onErr |-> onErr] \in OpType(errs)
    BY DEF OpType
  <2> QED
    BY <2>1 DEF Read
<1>5. ASSUME NEW onErr \in errs PROVE Local(onErr) \in Seq(OpType(errs))
  <2>1. [op |-> "local", onErr |-> onErr] \in OpType(errs)
    BY DEF OpType
  <2> QED
    BY <2>1 DEF Local
<1> QED
  BY <1>1, <1>2, <1>3, <1>4, <1>5

(* Everything that a function does between its errors is a sequence of     *)
(* calls.                                                                  *)
LEMMA CallsTyped ==
  ASSUME NEW errs, "return" \in errs
  PROVE  LET T == Seq(OpType(errs)) IN
         /\ \A s, t \in T : s \o t \in T
         /\ \A n \in Nat, s \in T : Repeat(n, s) \in T
         /\ \A p \in Payload : Write(p) \in T /\ Say(p) \in T /\ expectResponse(p) \in T
         /\ \A onErr \in errs : Read(Anything, onErr) \in T /\ Local(onErr) \in T
<1> DEFINE T == Seq(OpType(errs))
<1>1. \A s, t \in T : s \o t \in T
  BY ConcatProperties
<1>2. ASSUME NEW n \in Nat, NEW s \in T PROVE Repeat(n, s) \in T
  <2> DEFINE ss == [i \in 1..n |-> s]
  <2>1. ss \in [1..n -> T]
    OBVIOUS
  <2> HIDE DEF ss
  <2>2. FlattenSeq(ss) \in T
    BY <2>1, FlattenType
  <2> QED
    BY <2>2 DEF Repeat, ss
<1>3. \A p \in Payload : Write(p) \in T /\ Say(p) \in T
  BY OpTyped
<1>4. \A want \in SUBSET Seq(Byte), onErr \in errs : Read(want, onErr) \in T
  BY OpTyped
<1>5. \A p \in Payload : expectResponse(p) \in T
  <2>1. \A p \in Payload : {p} \in SUBSET Seq(Byte)
    BY DEF Payload
  <2> HIDE DEF T
  <2> QED
    BY <1>4, <2>1 DEF expectResponse
<1>6. \A onErr \in errs : Read(Anything, onErr) \in T
  <2>1. Anything \in SUBSET Seq(Byte)
    BY DEF Anything
  <2> HIDE DEF T
  <2> QED
    BY <1>4, <2>1
<1>8. \A onErr \in errs : Local(onErr) \in T
  BY OpTyped
<1> HIDE DEF T
<1>7. /\ \A s, t \in T : s \o t \in T
      /\ \A n \in Nat, s \in T : Repeat(n, s) \in T
      /\ \A p \in Payload : Write(p) \in T /\ Say(p) \in T /\ expectResponse(p) \in T
      /\ \A onErr \in errs : Read(Anything, onErr) \in T /\ Local(onErr) \in T
  BY <1>1, <1>2, <1>3, <1>5, <1>6, <1>8
<1> QED
  BY <1>7 DEF T

(* The loop over the blobs of a batch is one, whatever it does with each.  *)
LEMMA SendBlobsTyped ==
  ASSUME NEW blocks \in Seq(Nat)
  PROVE  sendBlobs(blocks) \in Seq(PlainOp)
<1> DEFINE T == Seq(PlainOp)
           use == Local("return")
           one == use \o Say(Block) \o expectResponse(BlockOK)
           blob(n) == use \o Say(Count) \o use \o Repeat(n, one) \o expectResponse(BlobOK)
           once == [i \in DOMAIN blocks |-> blob(blocks[i])]
<1>1. /\ \A s, t \in T : s \o t \in T
      /\ \A n \in Nat, s \in T : Repeat(n, s) \in T
      /\ \A p \in Payload : Say(p) \in T /\ expectResponse(p) \in T
      /\ use \in T
  BY CallsTyped DEF PlainOp
<1>2. /\ DOMAIN blocks = 1..Len(blocks) /\ Len(blocks) \in Nat
      /\ \A i \in DOMAIN blocks : blocks[i] \in Nat
  BY LenProperties
<1> HIDE DEF T, use
<1>3. once \in [1..Len(blocks) -> T]
  <2> SUFFICES ASSUME NEW i \in 1..Len(blocks) PROVE blob(blocks[i]) \in T
    BY <1>2
  <2>1. one \in T
    BY <1>1, Payloads
  <2> HIDE DEF one
  <2>2. Repeat(blocks[i], one) \in T
    BY <1>1, <1>2, <2>1
  <2>3. Say(Count) \in T /\ expectResponse(BlobOK) \in T
    BY <1>1, Payloads
  <2> QED
    BY <1>1, <2>2, <2>3
<1> HIDE DEF once
<1>4. FlattenSeq(once) \in T
  BY <1>2, <1>3, FlattenType DEF T
<1>5. Say(BlobIDs) \in T
  BY <1>1, Payloads
<1>6. Say(BlobIDs) \o FlattenSeq(once) \in T
  BY <1>1, <1>4, <1>5
<1> QED
  BY <1>6 DEF sendBlobs, once, use, T

LEMMA ReadBlobsTyped ==
  ASSUME NEW blocks \in Seq(Nat)
  PROVE  readBlobs(blocks) \in Seq(Op)
<1> DEFINE T == Seq(Op)
           get == Read(Anything, "answer") \o Local("answer")
           one == get \o Say(BlockOK)
           blob(n) == get \o Repeat(n, one) \o Say(BlobOK)
           once == [i \in DOMAIN blocks |-> blob(blocks[i])]
<1>1. /\ \A s, t \in T : s \o t \in T
      /\ \A n \in Nat, s \in T : Repeat(n, s) \in T
      /\ Say(BlockOK) \in T /\ Say(BlobOK) \in T
      /\ Read(Anything, "answer") \in T /\ Local("answer") \in T
  BY CallsTyped, Payloads DEF Op
<1>2. /\ DOMAIN blocks = 1..Len(blocks) /\ Len(blocks) \in Nat
      /\ \A i \in DOMAIN blocks : blocks[i] \in Nat
  BY LenProperties
<1> HIDE DEF T
<1>3. once \in [1..Len(blocks) -> T]
  <2> SUFFICES ASSUME NEW i \in 1..Len(blocks) PROVE blob(blocks[i]) \in T
    BY <1>2
  <2>1. get \in T
    BY <1>1
  <2> HIDE DEF get
  <2>2. one \in T
    BY <1>1, <2>1
  <2> HIDE DEF one
  <2>3. Repeat(blocks[i], one) \in T
    BY <1>1, <1>2, <2>2
  <2> QED
    BY <1>1, <2>1, <2>3
<1> HIDE DEF once
<1>4. FlattenSeq(once) \in T
  BY <1>2, <1>3, FlattenType DEF T
<1>5. Read(Anything, "answer") \o FlattenSeq(once) \in T
  BY <1>1, <1>4
<1> QED
  BY <1>5 DEF readBlobs, once, T

(* A script with some calls in front of its answer is long enough to have  *)
(* one.                                                                    *)
LEMMA PlainIsScript == Seq(PlainOp) \subseteq Script
<1>1. PlainOp \subseteq Op
  BY DEF PlainOp, Op, OpType
<1>2. \A s \in Seq(PlainOp) : s \in Seq(Op)
  BY <1>1, SeqMonotonic
<1> QED
  BY <1>2 DEF Script

(* The dialling ends return on every error or do not look at it.           *)
LEMMA ClientScripts ==
  /\ \A blocks \in Seq(Nat), m \in Payload : syncMsgs(blocks, m) \in Seq(PlainOp)
  /\ createPeerViaContactID \in Seq(PlainOp)
<1> DEFINE T == Seq(PlainOp)
<1>1. /\ \A s, t \in T : s \o t \in T
      /\ \A p \in Payload : Write(p) \in T /\ Say(p) \in T /\ expectResponse(p) \in T
      /\ Read(Anything, "return") \in T
  BY CallsTyped DEF PlainOp
<1>2. \A blocks \in Seq(Nat) : sendBlobs(blocks) \in T
  BY SendBlobsTyped
<1> HIDE DEF T
<1>3. /\ Write(Fingerprint) \in T /\ Say(Signature) \in T /\ Say(RoomID) \in T
      /\ expectResponse(AuthOK) \in T /\ expectResponse(MessagesOK) \in T
      /\ expectResponse(SyncOK) \in T /\ Say(ContactRequest) \in T
  BY <1>1, Payloads
<1>4. fingerprintChallenge \in T
  BY <1>1, <1>3 DEF fingerprintChallenge
<1>5. \A blocks \in Seq(Nat), m \in Payload : syncMsgs(blocks, m) \in T
  BY <1>1, <1>2, <1>3, <1>4 DEF syncMsgs
<1>6. createPeerViaContactID \in T
  BY <1>1, <1>3 DEF createPeerViaContactID
<1> QED
  BY <1>5, <1>6 DEF T

(* The accepting ends go to their answer only where they have one.         *)
LEMMA ServerScripts ==
  /\ \A blocks \in Seq(Nat) : convClientHandler(blocks) \subseteq Script
  /\ contClientHandler \subseteq Script
<1> DEFINE T == Seq(PlainOp)
           authenticate == readFingerprintWithChallenge \o Read(Anything, "return")
           refuseMessages(n) == authenticate \o Write(AuthOK) \o Say(SyncState)
                                  \o Read(Anything, "next") \o Write(Incompressible(n))
           accept(blocks) ==
             authenticate \o Write(AuthOK) \o Say(SyncState) \o Read(Anything, "next")
               \o Say(MessagesOK) \o readBlobs(blocks) \o Say(SyncOK)
<1>1. /\ \A s, t \in T : s \o t \in T
      /\ \A p \in Payload : Write(p) \in T /\ Say(p) \in T
      /\ Read(Anything, "return") \in T /\ Read(Anything, "next") \in T
  BY CallsTyped DEF PlainOp
<1>2. T \subseteq Script
  BY PlainIsScript
<1>3. T \subseteq Seq(Op)
  BY PlainIsScript DEF Script
<1> HIDE DEF T
<1>4. /\ Say(Challenge) \in T /\ Write(Refusal) \in T /\ Write(AuthOK) \in T
      /\ Say(SyncState) \in T /\ Say(MessagesOK) \in T /\ Say(SyncOK) \in T
      /\ Say(ContactResponse) \in T
  BY <1>1, Payloads
<1>5. readFingerprintWithChallenge \in T
  BY <1>1, <1>4 DEF readFingerprintWithChallenge
<1>6. authenticate \in T
  BY <1>1, <1>5
<1> HIDE DEF authenticate
<1>7. \A n \in Nat : refuseMessages(n) \in T
  BY <1>1, <1>4, <1>6, IncompressibleTyped
<1>8. readFingerprintWithChallenge \o Write(Refusal) \in T /\ authenticate \o Write(Refusal) \in T
  BY <1>1, <1>4, <1>5, <1>6
<1>9. ASSUME NEW blocks \in Seq(Nat) PROVE accept(blocks) \in Script
  <2> DEFINE before == authenticate \o Write(AuthOK) \o Say(SyncState) \o Read(Anything, "next")
                         \o Say(MessagesOK)
  <2>1. before \in T
    BY <1>1, <1>4, <1>6
  <2> HIDE DEF before
  <2>2. before \in Seq(Op) /\ readBlobs(blocks) \in Seq(Op) /\ Say(SyncOK) \in Seq(Op)
    BY <2>1, <1>3, <1>4, ReadBlobsTyped
  <2>3. Len(Say(SyncOK)) = 2
    BY OpTyped, Payloads
  <2>4. before \o readBlobs(blocks) \in Seq(Op)
    BY <2>2, ConcatProperties
  <2>5. (before \o readBlobs(blocks)) \o Say(SyncOK) \in Seq(Op)
    BY <2>2, <2>4, ConcatProperties
  <2>6. Len((before \o readBlobs(blocks)) \o Say(SyncOK)) >= 2
    <3>1. Len((before \o readBlobs(blocks)) \o Say(SyncOK)) =
            Len(before \o readBlobs(blocks)) + Len(Say(SyncOK))
      BY <2>2, <2>4, ConcatProperties
    <3>2. Len(before \o readBlobs(blocks)) \in Nat
      BY <2>4, LenProperties
    <3> QED
      BY <2>3, <3>1, <3>2
  <2> QED
    BY <2>5, <2>6 DEF Script, before
<1> HIDE DEF accept, refuseMessages
<1>10. MaxMsgSize + 1 \in Nat /\ 7 \in Nat
  BY ConstantsAssumption
<1>11. ASSUME NEW blocks \in Seq(Nat) PROVE convClientHandler(blocks) \subseteq Script
  <2>1. convClientHandler(blocks) =
          {readFingerprintWithChallenge \o Write(Refusal), authenticate \o Write(Refusal),
           refuseMessages(7), refuseMessages(MaxMsgSize + 1), accept(blocks)}
    BY DEF convClientHandler, authenticate, refuseMessages, accept
  <2> QED
    BY <1>2, <1>7, <1>8, <1>9, <1>10, <2>1
<1>12. contClientHandler \subseteq Script
  BY <1>1, <1>2, <1>4 DEF contClientHandler
<1> QED
  BY <1>11, <1>12

------------------------------------------------------------------------------
(* Frames and buffers                                                      *)

LEMMA BodyTyped ==
  ASSUME NEW p \in Payload
  PROVE  Body(p) \in Seq(Byte)
<1>1. p \in Seq(Byte) /\ Len(p) \in Nat
  BY DEF Payload
<1>2. CASE IsCompressed(p)
  <2>1. Len(p) > 2 /\ Len(p) < Base
    BY <1>2 DEF IsCompressed, Compressible, Payload
  <2>2. p[1] \in Byte /\ Len(p) \in Byte
    BY <1>1, <2>1, ConstantsAssumption DEF Byte
  <2>3. <<p[1], Len(p)>> \in Seq(Byte)
    BY <2>2
  <2> QED
    BY <1>2, <2>3 DEF Body, Compress
<1>3. CASE ~IsCompressed(p)
  BY <1>1, <1>3 DEF Body
<1> QED
  BY <1>2, <1>3

(* zstd gets the payload back.                                             *)
LEMMA BodyGivesBack ==
  ASSUME NEW p \in Payload
  PROVE  (IF IsCompressed(p) /\ Len(Body(p)) = 2 THEN Decompress(Body(p)) ELSE Body(p)) = p
<1>1. p \in Seq(Byte) /\ Len(p) \in Nat /\ p = [i \in 1..Len(p) |-> p[i]]
  BY DEF Payload
<1>2. CASE IsCompressed(p)
  <2>1. \A i \in 1..Len(p) : p[i] = p[1]
    BY <1>1, <1>2 DEF IsCompressed, Compressible
  <2>2. Body(p) = <<p[1], Len(p)>>
    BY <1>2 DEF Body, Compress
  <2>3. Len(Body(p)) = 2 /\ Decompress(Body(p)) = [i \in 1..Len(p) |-> p[1]]
    BY <2>2 DEF Decompress
  <2>4. [i \in 1..Len(p) |-> p[1]] = p
    BY <1>1, <2>1
  <2> QED
    BY <1>2, <2>3, <2>4
<1>3. CASE ~IsCompressed(p)
  BY <1>3 DEF Body
<1> QED
  BY <1>2, <1>3

(* The length, the flag and the body are where ReadBytes looks for them,   *)
(* and a piece does not end behind the first byte.                         *)
LEMMA FrameShape ==
  ASSUME NEW p \in Fitting
  PROVE  /\ Frame(p) \in Seq(WireByte)
         /\ Body(p) \in Seq(Byte) /\ Len(Body(p)) \in 0..MaxMsgSize
         /\ Len(Frame(p)) = 3 + Len(Body(p))
         /\ Frame(p)[1][1] + Base * Frame(p)[2][1] = Len(Body(p))
         /\ Frame(p)[3][1] = IF IsCompressed(p) THEN 1 ELSE 0
         /\ \A k \in 1..Len(Body(p)) : Frame(p)[3 + k][1] = Body(p)[k]
         /\ ~SplitHeaders => ~Frame(p)[1][2]
<1> DEFINE n == Len(Body(p))
           flag == IF IsCompressed(p) THEN 1 ELSE 0
           header == <<n % Base, n \div Base, flag>>
           bytes == header \o Body(p)
<1>1. Body(p) \in Seq(Byte) /\ n \in 0..MaxMsgSize /\ n \in Nat
  BY BodyTyped, ConstantsAssumption DEF Fitting
<1>2. n % Base \in Byte /\ n \div Base \in Byte /\ (n % Base) + Base * (n \div Base) = n
  <2>1. n < Base * Base
    BY <1>1, ConstantsAssumption
  <2> HIDE DEF n
  <2> QED
    BY <1>1, <2>1, DivMod, DivSmall
<1>3. flag \in Byte
  BY ConstantsAssumption DEF Byte
<1> HIDE DEF flag
<1>4. header \in Seq(Byte) /\ Len(header) = 3
      /\ header[1] = n % Base /\ header[2] = n \div Base /\ header[3] = flag
  BY <1>2, <1>3
<1> HIDE DEF header, n
<1>5. /\ bytes \in Seq(Byte) /\ Len(bytes) = 3 + n
      /\ \A i \in 1..(3 + n) : bytes[i] = IF i <= 3 THEN header[i] ELSE Body(p)[i - 3]
  <2> DEFINE b == Body(p)
  <2>1. b \in Seq(Byte) /\ Len(b) = n
    BY <1>1 DEF n
  <2> HIDE DEF b
  <2>2. /\ header \o b \in Seq(Byte) /\ Len(header \o b) = Len(header) + Len(b)
        /\ \A i \in 1..(Len(header) + Len(b)) :
             (header \o b)[i] = IF i <= Len(header) THEN header[i] ELSE b[i - Len(header)]
    BY <1>4, <2>1, ConcatProperties
  <2> QED
    BY <1>4, <2>1, <2>2 DEF b
<1> HIDE DEF bytes
<1>6. Frame(p) = [i \in 1..(3 + n) |-> <<bytes[i], i # 1 \/ SplitHeaders>>]
  BY <1>5 DEF Frame, bytes, header, flag, n
<1>7. \A i \in 1..(3 + n) : <<bytes[i], i # 1 \/ SplitHeaders>> \in WireByte
  <2>1. \A i \in 1..(3 + n) : bytes[i] \in Byte
    BY <1>5
  <2>2. \A i : (i # 1 \/ SplitHeaders) \in BOOLEAN
    OBVIOUS
  <2> QED
    BY <2>1, <2>2 DEF WireByte
<1>8. Frame(p) \in Seq(WireByte) /\ Len(Frame(p)) = 3 + n
  <2>1. Frame(p) \in [1..(3 + n) -> WireByte]
    BY <1>6, <1>7
  <2>2. 3 + n \in Nat
    BY <1>1
  <2> QED
    BY <2>1, <2>2
<1>9. \A i \in 1..(3 + n) : Frame(p)[i][1] = bytes[i]
  BY <1>6
<1>10. /\ Frame(p)[1][1] = n % Base /\ Frame(p)[2][1] = n \div Base /\ Frame(p)[3][1] = flag
       /\ \A k \in 1..n : Frame(p)[3 + k][1] = Body(p)[k]
  <2>1. 1 \in 1..(3 + n) /\ 2 \in 1..(3 + n) /\ 3 \in 1..(3 + n)
    BY <1>1
  <2>2. ASSUME NEW k \in 1..n PROVE Frame(p)[3 + k][1] = Body(p)[k]
    <3>1. 3 + k \in 1..(3 + n) /\ ~(3 + k <= 3) /\ 3 + k - 3 = k
      BY <1>1
    <3> QED
      BY <1>5, <1>9, <3>1
  <2> QED
    BY <1>4, <1>5, <1>9, <2>1, <2>2
<1>11. ~SplitHeaders => ~Frame(p)[1][2]
  <2> SUFFICES ASSUME ~SplitHeaders PROVE ~Frame(p)[1][2]
    OBVIOUS
  <2>1. 1 \in 1..(3 + n)
    BY <1>1
  <2>2. (1 # 1 \/ SplitHeaders) = FALSE
    OBVIOUS
  <2>3. Frame(p)[1] = <<bytes[1], FALSE>>
    BY <1>6, <2>1, <2>2
  <2> QED
    BY <2>3
<1> QED
  BY <1>1, <1>2, <1>8, <1>10, <1>11 DEF n, flag

(* Nothing of what is written is lost between the buffer and the           *)
(* connection, and the buffer holds what stays.                            *)
LEMMA KeptBounds ==
  ASSUME NEW buf \in Seq(WireByte), NEW new \in Seq(WireByte)
  PROVE  Kept(buf, new) \in 0..BufSize /\ Kept(buf, new) <= Len(buf \o new)
<1>1. Len(buf) \in Nat /\ Len(new) \in Nat /\ Len(buf \o new) = Len(buf) + Len(new)
  BY LenProperties, ConcatProperties
<1> QED
  BY <1>1, ConstantsAssumption DEF Kept

(* Facts about the sequences of the library.                               *)
LEMMA Joined ==
  ASSUME NEW S, NEW s \in Seq(S), NEW t \in Seq(S)
  PROVE  /\ s \o t \in Seq(S) /\ Len(s \o t) = Len(s) + Len(t)
         /\ Len(s) \in Nat /\ Len(t) \in Nat /\ Len(s \o t) >= Len(s)
         /\ \A i \in 1..Len(s) : (s \o t)[i] = s[i]
<1>1. Len(s) \in Nat /\ Len(t) \in Nat
  BY LenProperties
<1>2. /\ s \o t \in Seq(S) /\ Len(s \o t) = Len(s) + Len(t)
      /\ \A i \in 1..(Len(s) + Len(t)) : (s \o t)[i] = IF i <= Len(s) THEN s[i] ELSE t[i - Len(s)]
  BY ConcatProperties
<1> QED
  BY <1>1, <1>2

(* A sequence cut in two is the same sequence.                             *)
LEMMA Cut ==
  ASSUME NEW S, NEW s \in Seq(S), NEW k \in 0..Len(s)
  PROVE  /\ SubSeq(s, 1, k) \in Seq(S) /\ Len(SubSeq(s, 1, k)) = k
         /\ SubSeq(s, k + 1, Len(s)) \in Seq(S) /\ Len(SubSeq(s, k + 1, Len(s))) = Len(s) - k
         /\ SubSeq(s, 1, k) \o SubSeq(s, k + 1, Len(s)) = s
         /\ \A i \in 1..k : SubSeq(s, 1, k)[i] = s[i]
         /\ \A i \in 1..(Len(s) - k) : SubSeq(s, k + 1, Len(s))[i] = s[k + i]
<1>1. Len(s) \in Nat /\ \A i \in 1..Len(s) : s[i] \in S
  BY LenProperties
<1>2. /\ SubSeq(s, 1, k) \in Seq(S) /\ Len(SubSeq(s, 1, k)) = k
      /\ \A i \in 1..k : SubSeq(s, 1, k)[i] = s[i]
  BY <1>1
<1>3. /\ SubSeq(s, k + 1, Len(s)) \in Seq(S) /\ Len(SubSeq(s, k + 1, Len(s))) = Len(s) - k
      /\ \A i \in 1..(Len(s) - k) : SubSeq(s, k + 1, Len(s))[i] = s[k + i]
  BY <1>1
<1>4. SubSeq(s, 1, k) \o SubSeq(s, k + 1, Len(s)) = s
  <2> DEFINE a == SubSeq(s, 1, k)
             b == SubSeq(s, k + 1, Len(s))
  <2> HIDE DEF a, b
  <2>1. /\ a \o b \in Seq(S) /\ Len(a \o b) = Len(s)
        /\ \A i \in 1..Len(s) : (a \o b)[i] = IF i <= k THEN a[i] ELSE b[i - k]
    <3>1. a \in Seq(S) /\ Len(a) = k /\ b \in Seq(S) /\ Len(b) = Len(s) - k
      BY <1>2, <1>3 DEF a, b
    <3>2. /\ a \o b \in Seq(S) /\ Len(a \o b) = Len(a) + Len(b)
          /\ \A i \in 1..(Len(a) + Len(b)) :
               (a \o b)[i] = IF i <= Len(a) THEN a[i] ELSE b[i - Len(a)]
      BY <3>1, ConcatProperties
    <3> QED
      BY <1>1, <3>1, <3>2
  <2>2. ASSUME NEW i \in 1..Len(s) PROVE (a \o b)[i] = s[i]
    <3>1. CASE i <= k
      BY <1>1, <1>2, <2>1, <3>1 DEF a
    <3>2. CASE ~(i <= k)
      <4>1. i - k \in 1..(Len(s) - k) /\ k + (i - k) = i
        BY <1>1, <3>2
      <4> QED
        BY <1>3, <2>1, <3>2, <4>1 DEF b
    <3> QED
      BY <3>1, <3>2
  <2> QED
    BY <2>1, <2>2, SeqEqual DEF a, b
<1> QED
  BY <1>2, <1>3, <1>4

------------------------------------------------------------------------------
(* The type invariant                                                      *)

Locals == [at : {"length", "flag", "body"}, need : 0..MaxMsgSize,
           compressed : BOOLEAN, total : Seq(Byte)]

(* The scripts are those of the dialogues, what is written fits into a     *)
(* frame, and ReadBytes has not read more of a body than there is.         *)
TypeInv ==
  /\ TypeOK
  /\ DOMAIN pc = End
  /\ script \in [End -> Script]
  /\ sent \in [End -> Seq(Fitting)]
  /\ \A e \in End : /\ Len(frame[e].total) <= frame[e].need
                    /\ frame[e].at # "body" => frame[e].total = <<>>

LEMMA OtherEnd ==
  ASSUME NEW e \in End
  PROVE  Other(e) \in End /\ Other(e) # e /\ Other(Other(e)) = e
         /\ \A d \in End : d = e \/ d = Other(e)
BY DEF End, Other

LEMMA NoFrameTyped == NoFrame \in Locals /\ Len(NoFrame.total) = 0 /\ NoFrame.need = 0
                      /\ NoFrame.at = "length" /\ NoFrame.total = <<>>
BY ConstantsAssumption DEF NoFrame, Locals

LEMMA InitTyped == Init => TypeInv
<1> SUFFICES ASSUME Init PROVE TypeInv
  OBVIOUS
<1>1. script \in [End -> Script]
  <2>1. ASSUME NEW b \in Blobs, NEW m \in {Messages, LargeMessages},
               script \in Scripts(syncMsgs(b, m), convClientHandler(b))
        PROVE  script \in [End -> Script]
    <3>1. b \in Seq(Nat) /\ m \in Payload
      BY ConstantsAssumption, BatchTyped
    <3>2. syncMsgs(b, m) \in Script /\ convClientHandler(b) \subseteq Script
      BY <3>1, ClientScripts, ServerScripts, PlainIsScript
    <3> QED
      BY <2>1, <3>2 DEF Scripts
  <2>2. ASSUME script \in Scripts(createPeerViaContactID, contClientHandler)
        PROVE  script \in [End -> Script]
    <3>1. createPeerViaContactID \in Script /\ contClientHandler \subseteq Script
      BY ClientScripts, ServerScripts, PlainIsScript
    <3> QED
      BY <2>2, <3>1 DEF Scripts
  <2>3. \/ \E b \in Blobs, m \in {Messages, LargeMessages} :
             script \in Scripts(syncMsgs(b, m), convClientHandler(b))
        \/ script \in Scripts(createPeerViaContactID, contClientHandler)
    BY DEF Init
  <2> QED
    BY <2>1, <2>2, <2>3, Zenon
<1>2. \A e \in End : Len(script[e]) \in Nat
  BY <1>1 DEF Script
<1>3. frame = [e \in End |-> NoFrame]
  BY DEF Init
<1>4. frame \in [End -> Locals]
  BY <1>3, NoFrameTyped
<1>5. \A e \in End : /\ Len(frame[e].total) <= frame[e].need
                     /\ frame[e].at # "body" => frame[e].total = <<>>
  BY <1>3, NoFrameTyped
<1>6. \A e \in End : pc[e] \in 1..(Len(script[e]) + 1)
  BY <1>2 DEF Init
<1>7. \A S : [e \in End |-> <<>>] \in [End -> Seq(S)]
  OBVIOUS
<1>8. /\ wire \in [End -> Seq(WireByte)] /\ wbuf \in [End -> Seq(WireByte)]
      /\ rbuf \in [End -> Seq(WireByte)]
      /\ sent \in [End -> Seq(Seq(Byte))] /\ got \in [End -> Seq(Seq(Byte))]
      /\ sent \in [End -> Seq(Fitting)]
  BY <1>7, Zenon DEF Init
<1>9. \A e \in End : Len(wbuf[e]) <= BufSize /\ Len(rbuf[e]) <= BufSize
  BY ConstantsAssumption DEF Init
<1>10. status \in [End -> {"open", "ok", "error"}] /\ broken \in BOOLEAN /\ DOMAIN pc = End
  BY DEF Init
<1> QED
  BY <1>1, <1>4, <1>5, <1>6, <1>8, <1>9, <1>10 DEF TypeInv, TypeOK, Locals

(* What the state of an end is while it makes a call.                      *)
LEMMA Typed ==
  ASSUME TypeInv, NEW e \in End
  PROVE  /\ frame[e] \in Locals /\ frame \in [End -> Locals]
         /\ rbuf[e] \in Seq(WireByte) /\ Len(rbuf[e]) \in 0..BufSize
         /\ wbuf[e] \in Seq(WireByte) /\ Len(wbuf[e]) \in 0..BufSize
         /\ wire[e] \in Seq(WireByte)
         /\ sent[e] \in Seq(Fitting) /\ got[e] \in Seq(Seq(Byte))
         /\ pc[e] \in 1..(Len(script[e]) + 1)
         /\ script[e] \in Script /\ script[e] \in Seq(Op) /\ Len(script[e]) \in Nat
         /\ status[e] \in {"open", "ok", "error"}
         /\ frame[e].need \in 0..MaxMsgSize /\ frame[e].total \in Seq(Byte)
         /\ frame[e].need - Len(frame[e].total) \in Nat
<1>1. /\ frame \in [End -> Locals]
      /\ rbuf \in [End -> Seq(WireByte)] /\ Len(rbuf[e]) <= BufSize
      /\ wbuf \in [End -> Seq(WireByte)] /\ Len(wbuf[e]) <= BufSize
      /\ wire \in [End -> Seq(WireByte)]
      /\ sent \in [End -> Seq(Fitting)] /\ got \in [End -> Seq(Seq(Byte))]
      /\ pc[e] \in 1..(Len(script[e]) + 1)
      /\ script \in [End -> Script] /\ status \in [End -> {"open", "ok", "error"}]
      /\ Len(frame[e].total) <= frame[e].need
  BY DEF TypeInv, TypeOK, Locals
<1>2. frame[e] \in Locals /\ frame[e].need \in 0..MaxMsgSize /\ frame[e].total \in Seq(Byte)
  BY <1>1 DEF Locals
<1>3. Len(frame[e].total) \in Nat /\ Len(rbuf[e]) \in Nat /\ Len(wbuf[e]) \in Nat
  BY <1>1, <1>2
<1>4. BufSize \in Nat /\ MaxMsgSize \in Nat
  BY ConstantsAssumption
<1>5. script[e] \in Script /\ script[e] \in Seq(Op) /\ Len(script[e]) \in Nat
  BY <1>1 DEF Script
<1>6. frame[e].need - Len(frame[e].total) \in Nat /\ Len(rbuf[e]) \in 0..BufSize
      /\ Len(wbuf[e]) \in 0..BufSize
  <2> DEFINE a == Len(frame[e].total)
             b == frame[e].need
  <2>1. a \in Nat /\ b \in Nat /\ a <= b
    BY <1>1, <1>2, <1>3, <1>4
  <2> HIDE DEF a, b
  <2>2. b - a \in Nat
    BY <2>1
  <2>3. Len(rbuf[e]) \in 0..BufSize /\ Len(wbuf[e]) \in 0..BufSize
    BY <1>1, <1>3, <1>4
  <2> QED
    BY <2>2, <2>3 DEF a, b
<1> QED
  BY <1>1, <1>2, <1>5, <1>6

LEMMA ReadingTyped ==
  ASSUME TypeInv, NEW e \in End, Reading(e)
  PROVE  /\ pc[e] \in 1..Len(script[e])
         /\ script[e][pc[e]].want \in SUBSET Seq(Byte)
         /\ script[e][pc[e]].onErr \in {"return", "next", "answer"}
         /\ script[e][pc[e]].onErr = "answer" => Len(script[e]) >= 2
         /\ status[e] = "open"
<1>1. pc[e] \in 1..Len(script[e]) /\ script[e][pc[e]].op = "read" /\ status[e] = "open"
  BY Typed DEF Reading, At
<1>2. script[e] \in Seq(Op) /\ script[e] \in Script
  BY Typed
<1>3. script[e][pc[e]] \in Op
  BY <1>1, <1>2
<1>4. script[e] \in Seq(PlainOp) => script[e][pc[e]] \in PlainOp
  BY <1>1
<1>5. script[e][pc[e]] \in [op : {"read"}, want : SUBSET Seq(Byte),
                            onErr : {"return", "next", "answer"}]
  BY <1>1, <1>3 DEF Op, OpType
<1>6. script[e] \in Seq(PlainOp) => script[e][pc[e]].onErr # "answer"
  BY <1>1, <1>4 DEF PlainOp, OpType
<1> QED
  BY <1>1, <1>2, <1>5, <1>6 DEF Script

LEMMA WritingTyped ==
  ASSUME TypeInv, NEW e \in End, At(e, "write")
  PROVE  pc[e] \in 1..Len(script[e]) /\ script[e][pc[e]].payload \in Payload
<1>1. pc[e] \in 1..Len(script[e]) /\ script[e][pc[e]].op = "write"
  BY Typed DEF At
<1>2. script[e][pc[e]] \in Op
  BY <1>1, Typed
<1>3. script[e][pc[e]] \in [op : {"write"}, payload : Payload]
  BY <1>1, <1>2 DEF Op, OpType
<1> QED
  BY <1>1, <1>3

(* A call on a file returns, answers or goes on like one that reads.       *)
LEMMA LocalTyped ==
  ASSUME TypeInv, NEW e \in End, At(e, "local")
  PROVE  /\ pc[e] \in 1..Len(script[e])
         /\ script[e][pc[e]].onErr \in {"return", "next", "answer"}
         /\ script[e][pc[e]].onErr = "answer" => Len(script[e]) >= 2
         /\ status[e] = "open"
<1>1. pc[e] \in 1..Len(script[e]) /\ script[e][pc[e]].op = "local" /\ status[e] = "open"
  BY Typed DEF At
<1>2. script[e] \in Seq(Op) /\ script[e] \in Script
  BY Typed
<1>3. script[e][pc[e]] \in Op
  BY <1>1, <1>2
<1>4. script[e] \in Seq(PlainOp) => script[e][pc[e]] \in PlainOp
  BY <1>1
<1>5. script[e][pc[e]] \in [op : {"local"}, onErr : {"return", "next", "answer"}]
  BY <1>1, <1>3 DEF Op, OpType
<1>6. script[e] \in Seq(PlainOp) => script[e][pc[e]].onErr # "answer"
  BY <1>1, <1>4 DEF PlainOp, OpType
<1> QED
  BY <1>1, <1>2, <1>5, <1>6 DEF Script

(* A call that returns an error leaves the types alone.                    *)
LEMMA LeaveTyped ==
  ASSUME TypeInv, NEW e \in End, Reading(e) \/ At(e, "local"), Leave(e)
  PROVE  /\ \A d \in End : pc'[d] \in 1..(Len(script[d]) + 1)
         /\ DOMAIN pc' = End /\ \A d \in End : d # e => pc'[d] = pc[d]
         /\ status' \in [End -> {"open", "ok", "error"}]
         /\ \A d \in End : d # e => status'[d] = status[d]
         /\ status[e] = "open" /\ status'[e] \in {"open", "error"}
<1> DEFINE onErr == script[e][pc[e]].onErr
           next == CASE onErr = "next" -> pc[e] + 1
                     [] onErr = "answer" -> Len(script[e]) - 1
                     [] OTHER -> pc[e]
<1>1. /\ pc[e] \in 1..Len(script[e]) /\ onErr \in {"return", "next", "answer"}
      /\ onErr = "answer" => Len(script[e]) >= 2
      /\ status[e] = "open"
  BY ReadingTyped, LocalTyped
<1>2. /\ pc' = [pc EXCEPT ![e] = next]
      /\ status' = [status EXCEPT ![e] = IF onErr = "return" THEN "error" ELSE @]
  BY DEF Leave, GoTo
<1>3. next \in 1..(Len(script[e]) + 1)
  <2>1. Len(script[e]) \in Nat
    BY Typed
  <2> HIDE DEF onErr
  <2> QED
    BY <1>1, <2>1
<1> HIDE DEF next, onErr
<1>4. DOMAIN pc = End /\ status \in [End -> {"open", "ok", "error"}]
      /\ \A d \in End : pc[d] \in 1..(Len(script[d]) + 1)
  BY DEF TypeInv, TypeOK
<1>5. DOMAIN pc' = End /\ \A d \in End : pc'[d] \in 1..(Len(script[d]) + 1)
  BY <1>2, <1>3, <1>4
<1>6. /\ status' \in [End -> {"open", "ok", "error"}]
      /\ \A d \in End : d # e => status'[d] = status[d] /\ pc'[d] = pc[d]
      /\ status'[e] \in {"open", "error"}
  BY <1>1, <1>2, <1>4
<1> QED
  BY <1>1, <1>5, <1>6

LEMMA ErrorTyped ==
  ASSUME TypeInv, NEW e \in End, Reading(e), Error(e)
  PROVE  /\ frame' \in [End -> Locals] /\ frame'[e] = NoFrame
         /\ frame' = [frame EXCEPT ![e] = NoFrame]
         /\ \A d \in End : pc'[d] \in 1..(Len(script[d]) + 1)
         /\ DOMAIN pc' = End
         /\ status' \in [End -> {"open", "ok", "error"}]
         /\ \A d \in End : d # e => status'[d] = status[d]
         /\ status[e] = "open" /\ status'[e] \in {"open", "error"}
<1>1. frame' = [frame EXCEPT ![e] = NoFrame] /\ Leave(e)
  BY DEF Error
<1>2. frame \in [End -> Locals]
  BY DEF TypeInv, TypeOK, Locals
<1>3. frame' \in [End -> Locals] /\ frame'[e] = NoFrame
  BY <1>1, <1>2, NoFrameTyped
<1> QED
  BY <1>1, <1>3, LeaveTyped

(* A Read returns what is buffered, as far as there is room for it.        *)
LEMMA BytesRead ==
  ASSUME TypeInv, NEW e \in End, NEW n \in Nat
  PROVE  /\ Available(e, n) \in 0..n /\ Available(e, n) \in 0..Len(rbuf[e])
         /\ Available(e, n) = n \/ Available(e, n) = Len(rbuf[e])
         /\ rbuf[e] # <<>> /\ n > 0 => Available(e, n) > 0
         /\ Bytes(e, n) \in Seq(Byte) /\ Len(Bytes(e, n)) = Available(e, n)
         /\ \A i \in 1..Available(e, n) : Bytes(e, n)[i] = rbuf[e][i][1]
<1>1. rbuf[e] \in Seq(WireByte) /\ Len(rbuf[e]) \in Nat
  BY Typed, LenProperties
<1>2. /\ Available(e, n) \in 0..n /\ Available(e, n) \in 0..Len(rbuf[e])
      /\ Available(e, n) = n \/ Available(e, n) = Len(rbuf[e])
      /\ rbuf[e] # <<>> /\ n > 0 => Available(e, n) > 0
  BY <1>1 DEF Available
<1>3. \A i \in 1..Available(e, n) : rbuf[e][i][1] \in Byte
  <2>1. \A i \in 1..Available(e, n) : rbuf[e][i] \in WireByte
    BY <1>1, <1>2
  <2> QED
    BY <2>1 DEF WireByte
<1> DEFINE k == Available(e, n)
<1>4. k \in Nat /\ Bytes(e, n) = [i \in 1..k |-> rbuf[e][i][1]]
  BY <1>2 DEF Bytes
<1> HIDE DEF k
<1>5. Bytes(e, n) \in [1..k -> Byte]
  BY <1>3, <1>4 DEF k
<1>6. Bytes(e, n) \in Seq(Byte) /\ Len(Bytes(e, n)) = k
  BY <1>4, <1>5
<1> QED
  BY <1>2, <1>4, <1>6 DEF k

LEMMA ConsumeTyped ==
  ASSUME TypeInv, NEW e \in End, NEW n \in Nat, Consume(e, n)
  PROVE  /\ rbuf' \in [End -> Seq(WireByte)] /\ \A d \in End : Len(rbuf'[d]) <= BufSize
         /\ \A d \in End : d # e => rbuf'[d] = rbuf[d]
         /\ rbuf'[e] = SubSeq(rbuf[e], Available(e, n) + 1, Len(rbuf[e]))
         /\ Len(rbuf'[e]) = Len(rbuf[e]) - Available(e, n)
<1>1. rbuf \in [End -> Seq(WireByte)] /\ \A d \in End : Len(rbuf[d]) <= BufSize
  BY DEF TypeInv, TypeOK
<1> DEFINE rest == SubSeq(rbuf[e], Available(e, n) + 1, Len(rbuf[e]))
<1>2. rest \in Seq(WireByte) /\ Len(rest) = Len(rbuf[e]) - Available(e, n) /\ Len(rest) <= BufSize
  <2>1. rbuf[e] \in Seq(WireByte) /\ Available(e, n) \in 0..Len(rbuf[e])
        /\ Len(rbuf[e]) \in Nat /\ Len(rbuf[e]) <= BufSize
    BY <1>1, BytesRead, Typed
  <2>2. rest \in Seq(WireByte) /\ Len(rest) = Len(rbuf[e]) - Available(e, n)
    BY <2>1, Cut
  <2> HIDE DEF rest
  <2> QED
    BY <2>1, <2>2, ConstantsAssumption
<1>3. rbuf' = [rbuf EXCEPT ![e] = rest]
  BY DEF Consume
<1> HIDE DEF rest
<1>4. rbuf' \in [End -> Seq(WireByte)] /\ rbuf'[e] = rest
      /\ \A d \in End : d # e => rbuf'[d] = rbuf[d]
  BY <1>1, <1>2, <1>3
<1>5. \A d \in End : Len(rbuf'[d]) <= BufSize
  BY <1>1, <1>2, <1>4
<1> QED
  BY <1>2, <1>4, <1>5 DEF rest

LEMMA EmitTyped ==
  ASSUME TypeInv, NEW e \in End, NEW bytes \in Seq(WireByte), Emit(e, bytes)
  PROVE  wire' \in [End -> Seq(WireByte)] /\ wire'[e] = wire[e]
         /\ wire'[Other(e)] = IF broken \/ status[Other(e)] # "open" THEN wire[Other(e)]
                              ELSE wire[Other(e)] \o bytes
<1>1. wire \in [End -> Seq(WireByte)] /\ Other(e) \in End /\ Other(e) # e
  BY OtherEnd DEF TypeInv, TypeOK
<1>2. wire[Other(e)] \o bytes \in Seq(WireByte)
  BY <1>1, ConcatProperties
<1> QED
  BY <1>1, <1>2 DEF Emit

(* What the type invariant says of the next state.                         *)
LEMMA TypeInvAgain ==
  ASSUME script' = script,
         \A d \in End : pc'[d] \in 1..(Len(script[d]) + 1),
         DOMAIN pc' = End,
         status' \in [End -> {"open", "ok", "error"}],
         wbuf' \in [End -> Seq(WireByte)], \A d \in End : Len(wbuf'[d]) <= BufSize,
         wire' \in [End -> Seq(WireByte)],
         rbuf' \in [End -> Seq(WireByte)], \A d \in End : Len(rbuf'[d]) <= BufSize,
         frame' \in [End -> Locals], broken' \in BOOLEAN,
         sent' \in [End -> Seq(Fitting)], got' \in [End -> Seq(Seq(Byte))],
         \A d \in End : /\ Len(frame'[d].total) <= frame'[d].need
                        /\ frame'[d].at # "body" => frame'[d].total = <<>>,
         TypeInv
  PROVE  TypeInv'
<1>1. sent' \in [End -> Seq(Seq(Byte))]
  <2>1. Fitting \subseteq Seq(Byte)
    BY DEF Fitting, Payload
  <2>2. \A s \in Seq(Fitting) : s \in Seq(Seq(Byte))
    BY <2>1, SeqMonotonic
  <2> QED
    BY <2>2
<1>2. DOMAIN script' = End /\ script' \in [End -> Script]
  BY DEF TypeInv
<1>3. \A d \in End : pc'[d] \in 1..(Len(script'[d]) + 1)
  OBVIOUS
<1>4. TypeOK'
  BY <1>1, <1>2, <1>3 DEF TypeOK, Locals
<1> QED
  BY <1>2, <1>4 DEF TypeInv

LEMMA Unpacked ==
  ASSUME TypeInv
  PROVE  /\ \A d \in End : pc[d] \in 1..(Len(script[d]) + 1) /\ Len(script[d]) \in Nat
         /\ DOMAIN pc = End
         /\ status \in [End -> {"open", "ok", "error"}]
         /\ wbuf \in [End -> Seq(WireByte)] /\ \A d \in End : Len(wbuf[d]) <= BufSize
         /\ wire \in [End -> Seq(WireByte)]
         /\ rbuf \in [End -> Seq(WireByte)] /\ \A d \in End : Len(rbuf[d]) <= BufSize
         /\ frame \in [End -> Locals] /\ broken \in BOOLEAN
         /\ sent \in [End -> Seq(Fitting)] /\ got \in [End -> Seq(Seq(Byte))]
         /\ \A d \in End : /\ Len(frame[d].total) <= frame[d].need
                           /\ frame[d].at # "body" => frame[d].total = <<>>
BY Typed DEF TypeInv, TypeOK, Locals

LEMMA GoOnTyped ==
  ASSUME TypeInv, NEW e \in End, pc[e] <= Len(script[e]), GoTo(e, pc[e] + 1)
  PROVE  DOMAIN pc' = End /\ \A d \in End : pc'[d] \in 1..(Len(script[d]) + 1)
<1>1. /\ DOMAIN pc = End
      /\ \A d \in End : pc[d] \in 1..(Len(script[d]) + 1) /\ Len(script[d]) \in Nat
  BY Unpacked
<1>2. pc[e] + 1 \in 1..(Len(script[e]) + 1)
  BY <1>1
<1>3. pc' = [pc EXCEPT ![e] = pc[e] + 1]
  BY DEF GoTo
<1>4. DOMAIN pc' = End /\ \A d \in End : pc'[d] = IF d = e THEN pc[e] + 1 ELSE pc[d]
  BY <1>1, <1>3
<1> QED
  BY <1>1, <1>2, <1>4

(* The bytes of a frame are split between the connection and the buffer.   *)
LEMMA WriteSplits ==
  ASSUME TypeInv, NEW e \in End, NEW p \in Fitting
  PROVE  LET all == wbuf[e] \o Frame(p)
             kept == Kept(wbuf[e], Frame(p))
             out == SubSeq(all, 1, Len(all) - kept)
             stay == SubSeq(all, Len(all) - kept + 1, Len(all))
         IN  /\ out \in Seq(WireByte) /\ stay \in Seq(WireByte) /\ Len(stay) <= BufSize
             /\ all = out \o stay /\ Frame(p) \in Seq(WireByte)
<1> DEFINE all == wbuf[e] \o Frame(p)
           kept == Kept(wbuf[e], Frame(p))
           k == Len(all) - kept
           out == SubSeq(all, 1, k)
           stay == SubSeq(all, k + 1, Len(all))
<1>1. wbuf[e] \in Seq(WireByte) /\ Frame(p) \in Seq(WireByte)
  BY Typed, FrameShape
<1>2. all \in Seq(WireByte) /\ Len(all) \in Nat
  BY <1>1, ConcatProperties, LenProperties
<1>3. kept \in 0..BufSize /\ kept <= Len(all)
  BY <1>1, KeptBounds
<1> HIDE DEF all, kept
<1>4. k \in 0..Len(all) /\ Len(all) - k = kept
  BY <1>2, <1>3, ConstantsAssumption
<1> HIDE DEF k
<1>5. /\ out \in Seq(WireByte) /\ stay \in Seq(WireByte) /\ Len(stay) = kept
      /\ all = out \o stay
  BY <1>2, <1>4, Cut
<1>6. Len(stay) <= BufSize
  BY <1>3, <1>5, ConstantsAssumption
<1> QED
  BY <1>1, <1>5, <1>6, Zenon DEF all, kept, k

LEMMA WriteBytesTyped ==
  ASSUME TypeInv, NEW e \in End, WriteBytes(e)
  PROVE  TypeInv'
<1> DEFINE p == script[e][pc[e]].payload
           all == wbuf[e] \o Frame(p)
           kept == Kept(wbuf[e], Frame(p))
           out == SubSeq(all, 1, Len(all) - kept)
           stay == SubSeq(all, Len(all) - kept + 1, Len(all))
<1>1. p \in Payload /\ pc[e] <= Len(script[e]) /\ GoTo(e, pc[e] + 1)
  BY WritingTyped DEF WriteBytes, At
<1>2. DOMAIN pc' = End /\ \A d \in End : pc'[d] \in 1..(Len(script[d]) + 1)
  BY <1>1, GoOnTyped
<1>3. script' = script /\ status' = status /\ rbuf' = rbuf /\ frame' = frame
      /\ broken' = broken /\ got' = got
  BY DEF WriteBytes
<1>4. CASE Len(Body(p)) > MaxMsgSize
  <2>1. wbuf' = wbuf /\ wire' = wire /\ sent' = sent
    BY <1>4 DEF WriteBytes
  <2> QED
    BY <1>2, <1>3, <2>1, Unpacked, TypeInvAgain
<1>5. CASE ~(Len(Body(p)) > MaxMsgSize)
  <2>1. /\ Emit(e, out) /\ wbuf' = [wbuf EXCEPT ![e] = stay]
        /\ sent' = [sent EXCEPT ![e] = Append(@, p)]
    BY <1>5 DEF WriteBytes
  <2>2. p \in Fitting
    <3>1. Len(Body(p)) \in Nat
      BY <1>1, BodyTyped, LenProperties
    <3> QED
      BY <1>1, <1>5, <3>1, ConstantsAssumption DEF Fitting
  <2>3. out \in Seq(WireByte) /\ stay \in Seq(WireByte) /\ Len(stay) <= BufSize
    BY <2>2, WriteSplits
  <2> HIDE DEF p, out, stay
  <2>4. wire' \in [End -> Seq(WireByte)]
    BY <2>1, <2>3, EmitTyped
  <2>5. wbuf' \in [End -> Seq(WireByte)] /\ \A d \in End : Len(wbuf'[d]) <= BufSize
    BY <2>1, <2>3, Unpacked
  <2>6. sent' \in [End -> Seq(Fitting)]
    <3>1. sent \in [End -> Seq(Fitting)] /\ Append(sent[e], p) \in Seq(Fitting)
      BY <2>2, Unpacked, AppendProperties
    <3> QED
      BY <2>1, <3>1
  <2> QED
    BY <1>2, <1>3, <2>4, <2>5, <2>6, Unpacked, TypeInvAgain
<1> QED
  BY <1>4, <1>5

LEMMA FlushTyped ==
  ASSUME TypeInv, NEW e \in End, FlushBuffer(e)
  PROVE  TypeInv'
<1>1. pc[e] <= Len(script[e]) /\ GoTo(e, pc[e] + 1) /\ Emit(e, wbuf[e])
      /\ wbuf' = [wbuf EXCEPT ![e] = <<>>]
      /\ script' = script /\ status' = status /\ rbuf' = rbuf /\ frame' = frame
      /\ broken' = broken /\ sent' = sent /\ got' = got
  BY DEF FlushBuffer, At
<1>2. DOMAIN pc' = End /\ \A d \in End : pc'[d] \in 1..(Len(script[d]) + 1)
  BY <1>1, GoOnTyped
<1>3. wire' \in [End -> Seq(WireByte)]
  BY <1>1, EmitTyped, Typed
<1>4. wbuf' \in [End -> Seq(WireByte)] /\ \A d \in End : Len(wbuf'[d]) <= BufSize
  <2>1. <<>> \in Seq(WireByte) /\ Len(<<>>) <= BufSize
    BY ConstantsAssumption
  <2> QED
    BY <1>1, <2>1, Unpacked
<1> QED
  BY <1>1, <1>2, <1>3, <1>4, Unpacked, TypeInvAgain

(* A read of the connection takes the first bytes that are on their way.   *)
LEMMA FillSplits ==
  ASSUME TypeInv, NEW e \in End, Fill(e)
  PROVE  /\ \E k \in 1..Len(wire[e]) :
              /\ k <= BufSize /\ wire[e][k][2]
              /\ rbuf' = [rbuf EXCEPT ![e] = SubSeq(wire[e], 1, k)]
              /\ wire' = [wire EXCEPT ![e] = SubSeq(wire[e], k + 1, Len(wire[e]))]
              /\ SubSeq(wire[e], 1, k) \in Seq(WireByte) /\ Len(SubSeq(wire[e], 1, k)) = k
              /\ SubSeq(wire[e], k + 1, Len(wire[e])) \in Seq(WireByte)
              /\ SubSeq(wire[e], 1, k) \o SubSeq(wire[e], k + 1, Len(wire[e])) = wire[e]
              /\ SubSeq(wire[e], 1, k)[k] = wire[e][k]
<1>1. wire[e] \in Seq(WireByte) /\ Len(wire[e]) \in Nat
  BY Typed, LenProperties
<1>2. PICK k \in 1..Len(wire[e]) :
              /\ k <= BufSize /\ wire[e][k][2]
              /\ rbuf' = [rbuf EXCEPT ![e] = SubSeq(wire[e], 1, k)]
              /\ wire' = [wire EXCEPT ![e] = SubSeq(wire[e], k + 1, Len(wire[e]))]
  BY DEF Fill
<1>3. k \in 0..Len(wire[e]) /\ k \in 1..k
  BY <1>1
<1>4. /\ SubSeq(wire[e], 1, k) \in Seq(WireByte) /\ Len(SubSeq(wire[e], 1, k)) = k
      /\ SubSeq(wire[e], k + 1, Len(wire[e])) \in Seq(WireByte)
      /\ SubSeq(wire[e], 1, k) \o SubSeq(wire[e], k + 1, Len(wire[e])) = wire[e]
      /\ SubSeq(wire[e], 1, k)[k] = wire[e][k]
  <2> DEFINE w == wire[e]
  <2>1. w \in Seq(WireByte) /\ k \in 0..Len(w)
    BY <1>1, <1>3
  <2> HIDE DEF w
  <2>2. /\ SubSeq(w, 1, k) \in Seq(WireByte) /\ Len(SubSeq(w, 1, k)) = k
        /\ SubSeq(w, k + 1, Len(w)) \in Seq(WireByte)
        /\ SubSeq(w, 1, k) \o SubSeq(w, k + 1, Len(w)) = w
        /\ \A i \in 1..k : SubSeq(w, 1, k)[i] = w[i]
    BY <2>1, Cut
  <2> QED
    BY <1>3, <2>2 DEF w
<1> QED
  BY <1>2, <1>4

LEMMA FillTyped ==
  ASSUME TypeInv, NEW e \in End, Fill(e)
  PROVE  TypeInv'
<1>1. PICK k \in 1..Len(wire[e]) :
              /\ k <= BufSize
              /\ rbuf' = [rbuf EXCEPT ![e] = SubSeq(wire[e], 1, k)]
              /\ wire' = [wire EXCEPT ![e] = SubSeq(wire[e], k + 1, Len(wire[e]))]
              /\ SubSeq(wire[e], 1, k) \in Seq(WireByte) /\ Len(SubSeq(wire[e], 1, k)) = k
              /\ SubSeq(wire[e], k + 1, Len(wire[e])) \in Seq(WireByte)
  BY FillSplits
<1>2. rbuf' \in [End -> Seq(WireByte)] /\ \A d \in End : Len(rbuf'[d]) <= BufSize
  <2> DEFINE piece == SubSeq(wire[e], 1, k)
  <2>1. piece \in Seq(WireByte) /\ Len(piece) <= BufSize /\ rbuf' = [rbuf EXCEPT ![e] = piece]
    BY <1>1
  <2> HIDE DEF piece
  <2> QED
    BY <2>1, Unpacked
<1>3. wire' \in [End -> Seq(WireByte)]
  <2> DEFINE left == SubSeq(wire[e], k + 1, Len(wire[e]))
  <2>1. left \in Seq(WireByte) /\ wire' = [wire EXCEPT ![e] = left]
    BY <1>1
  <2> HIDE DEF left
  <2> QED
    BY <2>1, Unpacked
<1>4. /\ script' = script /\ pc' = pc /\ status' = status /\ wbuf' = wbuf /\ frame' = frame
      /\ broken' = broken /\ sent' = sent /\ got' = got
  BY DEF Fill
<1> QED
  BY <1>2, <1>3, <1>4, Unpacked, TypeInvAgain

(* The length that ReadBytes computes is that of the bytes that have come. *)
LEMMA LengthRead ==
  ASSUME TypeInv, NEW e \in End
  PROVE  LET l == Bytes(e, 2) \o <<0, 0>> IN
         /\ l[1] + Base * l[2] \in Nat
         /\ Len(rbuf[e]) >= 2 => l[1] = rbuf[e][1][1] /\ l[2] = rbuf[e][2][1]
<1> DEFINE b == Bytes(e, 2)
           l == b \o <<0, 0>>
<1>1. /\ b \in Seq(Byte) /\ Len(b) = Available(e, 2)
      /\ Available(e, 2) \in 0..2 /\ \A i \in 1..Available(e, 2) : b[i] = rbuf[e][i][1]
  BY BytesRead
<1>2. Len(rbuf[e]) >= 2 => Available(e, 2) = 2
  BY Typed DEF Available
<1> HIDE DEF b
<1>3. <<0, 0>> \in Seq(Byte) /\ Len(<<0, 0>>) = 2
  BY ConstantsAssumption DEF Byte
<1>4. /\ l \in Seq(Byte) /\ Len(l) = Len(b) + 2
      /\ \A i \in 1..(Len(b) + 2) : l[i] = IF i <= Len(b) THEN b[i] ELSE <<0, 0>>[i - Len(b)]
  BY <1>1, <1>3, ConcatProperties
<1>5. Len(rbuf[e]) >= 2 => l[1] = rbuf[e][1][1] /\ l[2] = rbuf[e][2][1]
  BY <1>1, <1>2, <1>4
<1>6. l[1] \in Byte /\ l[2] \in Byte
  BY <1>1, <1>4
<1> HIDE DEF l
<1>7. l[1] + Base * l[2] \in Nat
  <2>1. l[1] \in Nat /\ l[2] \in Nat /\ Base \in Nat
    BY <1>6, ConstantsAssumption DEF Byte
  <2> QED
    BY <2>1
<1> QED
  BY <1>5, <1>7 DEF l, b

LEMMA ReadLengthTyped ==
  ASSUME TypeInv, NEW e \in End, ReadLength(e)
  PROVE  TypeInv'
<1> DEFINE l == Bytes(e, 2) \o <<0, 0>>
           need == l[1] + Base * l[2]
<1>1. /\ script' = script /\ wbuf' = wbuf /\ wire' = wire /\ broken' = broken /\ sent' = sent
      /\ got' = got
      /\ Reading(e) /\ frame[e].at = "length" /\ Consume(e, 2)
  BY DEF ReadLength
<1>2. rbuf' \in [End -> Seq(WireByte)] /\ \A d \in End : Len(rbuf'[d]) <= BufSize
  BY <1>1, ConsumeTyped
<1>3. need \in Nat
  BY LengthRead
<1>4. CASE need > MaxMsgSize
  <2>1. Error(e)
    BY <1>4 DEF ReadLength
  <2>2. /\ frame' \in [End -> Locals] /\ frame' = [frame EXCEPT ![e] = NoFrame]
        /\ \A d \in End : pc'[d] \in 1..(Len(script[d]) + 1)
        /\ DOMAIN pc' = End
        /\ status' \in [End -> {"open", "ok", "error"}]
    BY <1>1, <2>1, ErrorTyped
  <2>3. \A d \in End : /\ Len(frame'[d].total) <= frame'[d].need
                       /\ frame'[d].at # "body" => frame'[d].total = <<>>
    BY <2>2, Unpacked, NoFrameTyped
  <2> QED
    BY <1>1, <1>2, <2>2, <2>3, Unpacked, TypeInvAgain
<1>5. CASE ~(need > MaxMsgSize)
  <2>1. frame' = [frame EXCEPT ![e].at = "flag", ![e].need = need] /\ pc' = pc /\ status' = status
    BY <1>5 DEF ReadLength
  <2>2. need \in 0..MaxMsgSize
    BY <1>3, <1>5, ConstantsAssumption
  <2> HIDE DEF need
  <2>3. frame \in [End -> Locals] /\ frame[e].total = <<>> /\ frame[e] \in Locals
    BY <1>1, Unpacked
  <2>4. [frame[e] EXCEPT !.at = "flag", !.need = need] \in Locals
        /\ [frame[e] EXCEPT !.at = "flag", !.need = need].total = <<>>
        /\ [frame[e] EXCEPT !.at = "flag", !.need = need].need = need
        /\ [frame[e] EXCEPT !.at = "flag", !.need = need].at = "flag"
    BY <2>2, <2>3 DEF Locals
  <2>5. frame' = [frame EXCEPT ![e] = [frame[e] EXCEPT !.at = "flag", !.need = need]]
    BY <2>1, <2>3 DEF Locals
  <2>6. frame' \in [End -> Locals]
    BY <2>3, <2>4, <2>5
  <2>7. \A d \in End : /\ Len(frame'[d].total) <= frame'[d].need
                       /\ frame'[d].at # "body" => frame'[d].total = <<>>
    <3>1. Len(<<>>) = 0 /\ 0 <= need
      BY <2>2
    <3> QED
      BY <2>3, <2>4, <2>5, <3>1, Unpacked
  <2> QED
    BY <1>1, <1>2, <2>1, <2>6, <2>7, Unpacked, TypeInvAgain
<1> QED
  BY <1>4, <1>5

LEMMA ReadFlagTyped ==
  ASSUME TypeInv, NEW e \in End, ReadFlag(e)
  PROVE  TypeInv'
<1> DEFINE set == (Bytes(e, 1)[1] = 1)
           new == [frame[e] EXCEPT !.at = "body", !.compressed = set]
<1>1. /\ script' = script /\ pc' = pc /\ status' = status /\ wbuf' = wbuf /\ wire' = wire
      /\ broken' = broken /\ sent' = sent /\ got' = got
      /\ frame[e].at = "flag" /\ Consume(e, 1)
      /\ frame' = [frame EXCEPT ![e].at = "body", ![e].compressed = set]
  BY DEF ReadFlag
<1>2. rbuf' \in [End -> Seq(WireByte)] /\ \A d \in End : Len(rbuf'[d]) <= BufSize
  BY <1>1, ConsumeTyped
<1>3. set \in BOOLEAN
  OBVIOUS
<1> HIDE DEF set
<1>4. frame \in [End -> Locals] /\ frame[e] \in Locals
  BY Unpacked
<1>5. new \in Locals /\ new.total = frame[e].total /\ new.need = frame[e].need /\ new.at = "body"
  BY <1>3, <1>4 DEF Locals
<1>6. frame' = [frame EXCEPT ![e] = new]
  BY <1>1, <1>4 DEF Locals
<1> HIDE DEF new
<1>7. frame' \in [End -> Locals]
  BY <1>4, <1>5, <1>6
<1>8. \A d \in End : /\ Len(frame'[d].total) <= frame'[d].need
                     /\ frame'[d].at # "body" => frame'[d].total = <<>>
  BY <1>4, <1>5, <1>6, Unpacked
<1> QED
  BY <1>1, <1>2, <1>7, <1>8, Unpacked, TypeInvAgain

(* The body grows by what has come and never beyond its length.            *)
LEMMA BodyRead ==
  ASSUME TypeInv, NEW e \in End
  PROVE  LET rest == frame[e].need - Len(frame[e].total)
             total == frame[e].total \o Bytes(e, rest)
         IN  /\ rest \in Nat /\ total \in Seq(Byte)
             /\ Len(total) = Len(frame[e].total) + Available(e, rest)
             /\ Len(total) <= frame[e].need
             /\ \A i \in 1..Len(total) :
                  total[i] = IF i <= Len(frame[e].total) THEN frame[e].total[i]
                             ELSE rbuf[e][i - Len(frame[e].total)][1]
<1> DEFINE old == frame[e].total
           rest == frame[e].need - Len(old)
           b == Bytes(e, rest)
<1>1. rest \in Nat /\ old \in Seq(Byte) /\ frame[e].need \in Nat /\ Len(old) \in Nat
  BY Typed, ConstantsAssumption
<1> HIDE DEF old
<1>2. /\ b \in Seq(Byte) /\ Len(b) = Available(e, rest) /\ Available(e, rest) \in 0..rest
      /\ \A i \in 1..Available(e, rest) : b[i] = rbuf[e][i][1]
  BY <1>1, BytesRead
<1> HIDE DEF b
<1>3. /\ old \o b \in Seq(Byte) /\ Len(old \o b) = Len(old) + Len(b)
      /\ \A i \in 1..(Len(old) + Len(b)) :
           (old \o b)[i] = IF i <= Len(old) THEN old[i] ELSE b[i - Len(old)]
  BY <1>1, <1>2, ConcatProperties
<1>4. Len(old \o b) <= frame[e].need
  BY <1>1, <1>2, <1>3
<1>5. ASSUME NEW i \in 1..Len(old \o b)
      PROVE  (old \o b)[i] = IF i <= Len(old) THEN old[i] ELSE rbuf[e][i - Len(old)][1]
  <2>1. CASE i <= Len(old)
    BY <1>3, <2>1
  <2>2. CASE ~(i <= Len(old))
    <3>1. i - Len(old) \in 1..Available(e, rest)
      BY <1>1, <1>2, <1>3, <2>2
    <3> QED
      BY <1>2, <1>3, <2>2, <3>1
  <2> QED
    BY <2>1, <2>2
<1> QED
  BY <1>1, <1>2, <1>3, <1>4, <1>5 DEF old, b

LEMMA ReadBodyTyped ==
  ASSUME TypeInv, NEW e \in End, ReadBody(e)
  PROVE  TypeInv'
<1> DEFINE rest == frame[e].need - Len(frame[e].total)
           total == frame[e].total \o Bytes(e, rest)
           payload == IF frame[e].compressed /\ Len(total) = 2 THEN Decompress(total) ELSE total
           want == script[e][pc[e]].want
<1>1. /\ script' = script /\ wbuf' = wbuf /\ wire' = wire /\ broken' = broken /\ sent' = sent
      /\ Reading(e) /\ frame[e].at = "body" /\ Consume(e, rest)
  BY DEF ReadBody
<1>2. rest \in Nat /\ total \in Seq(Byte) /\ Len(total) <= frame[e].need
  BY BodyRead
<1>3. rbuf' \in [End -> Seq(WireByte)] /\ \A d \in End : Len(rbuf'[d]) <= BufSize
  BY <1>1, <1>2, ConsumeTyped
<1>4. payload \in Seq(Byte)
  <2>1. ASSUME Len(total) = 2 PROVE Decompress(total) \in Seq(Byte)
    <3>1. total \in Seq(Byte) /\ Len(total) = 2
      BY <1>2, <2>1
    <3> HIDE DEF total
    <3>2. total[1] \in Byte /\ total[2] \in Byte
      BY <3>1
    <3>3. total[2] \in Nat
      BY <3>2, ConstantsAssumption DEF Byte
    <3>4. Decompress(total) \in [1..total[2] -> Byte]
      BY <3>2, <3>3 DEF Decompress
    <3> QED
      BY <3>3, <3>4
  <2> QED
    BY <1>2, <2>1
<1> HIDE DEF payload
<1>5. CASE Complete(e, total)
  <2>1. got' = [got EXCEPT ![e] = Append(@, payload)]
    BY <1>5 DEF ReadBody, payload
  <2>2. got' \in [End -> Seq(Seq(Byte))]
    BY <1>4, <2>1, Unpacked, AppendProperties
  <2>3. frame' = [frame EXCEPT ![e] = NoFrame]
        /\ (\A d \in End : pc'[d] \in 1..(Len(script[d]) + 1)) /\ DOMAIN pc' = End
        /\ status' \in [End -> {"open", "ok", "error"}]
    <3>1. CASE want = Anything \/ payload \in want
      <4>1. frame' = [frame EXCEPT ![e] = NoFrame] /\ GoTo(e, pc[e] + 1) /\ status' = status
        BY <1>5, <3>1 DEF ReadBody, payload
      <4>2. pc[e] <= Len(script[e])
        BY <1>1 DEF Reading, At
      <4> QED
        BY <4>1, <4>2, GoOnTyped, Unpacked
    <3>2. CASE ~(want = Anything \/ payload \in want)
      <4>1. Error(e)
        BY <1>5, <3>2 DEF ReadBody, payload
      <4> QED
        BY <1>1, <4>1, ErrorTyped
    <3> QED
      BY <3>1, <3>2
  <2>4. frame' \in [End -> Locals]
        /\ \A d \in End : /\ Len(frame'[d].total) <= frame'[d].need
                          /\ frame'[d].at # "body" => frame'[d].total = <<>>
    BY <2>3, Unpacked, NoFrameTyped
  <2> QED
    BY <1>1, <1>3, <2>2, <2>3, <2>4, Unpacked, TypeInvAgain
<1>6. CASE ~Complete(e, total)
  <2>1. frame' = [frame EXCEPT ![e].total = total] /\ pc' = pc /\ status' = status /\ got' = got
    BY <1>6 DEF ReadBody
  <2> HIDE DEF total
  <2> DEFINE new == [frame[e] EXCEPT !.total = total]
  <2>2. frame \in [End -> Locals] /\ frame[e] \in Locals
    BY Unpacked
  <2>3. new \in Locals /\ new.total = total /\ new.need = frame[e].need /\ new.at = "body"
    BY <1>1, <1>2, <2>2 DEF Locals
  <2>4. frame' = [frame EXCEPT ![e] = new]
    BY <2>1, <2>2 DEF Locals
  <2> HIDE DEF new
  <2>5. frame' \in [End -> Locals]
        /\ \A d \in End : /\ Len(frame'[d].total) <= frame'[d].need
                          /\ frame'[d].at # "body" => frame'[d].total = <<>>
    BY <1>2, <2>2, <2>3, <2>4, Unpacked
  <2> QED
    BY <1>1, <1>3, <2>1, <2>5, Unpacked, TypeInvAgain
<1> QED
  BY <1>5, <1>6

LEMMA ReadFailsTyped ==
  ASSUME TypeInv, NEW e \in End, ReadFails(e)
  PROVE  TypeInv'
<1>1. /\ script' = script /\ wbuf' = wbuf /\ wire' = wire /\ rbuf' = rbuf /\ broken' = broken
      /\ sent' = sent /\ got' = got /\ Reading(e) /\ Error(e)
  BY DEF ReadFails
<1>2. /\ frame' \in [End -> Locals] /\ frame' = [frame EXCEPT ![e] = NoFrame]
      /\ \A d \in End : pc'[d] \in 1..(Len(script[d]) + 1)
      /\ DOMAIN pc' = End
      /\ status' \in [End -> {"open", "ok", "error"}]
  BY <1>1, ErrorTyped
<1>3. \A d \in End : /\ Len(frame'[d].total) <= frame'[d].need
                     /\ frame'[d].at # "body" => frame'[d].total = <<>>
  BY <1>2, Unpacked, NoFrameTyped
<1> QED
  BY <1>1, <1>2, <1>3, Unpacked, TypeInvAgain

LEMMA UseFileTyped ==
  ASSUME TypeInv, NEW e \in End, UseFile(e)
  PROVE  TypeInv'
<1>1. /\ script' = script /\ wbuf' = wbuf /\ wire' = wire /\ rbuf' = rbuf /\ broken' = broken
      /\ frame' = frame /\ sent' = sent /\ got' = got /\ At(e, "local")
      /\ (GoTo(e, pc[e] + 1) /\ status' = status) \/ Leave(e)
  BY DEF UseFile
<1>2. CASE GoTo(e, pc[e] + 1) /\ status' = status
  <2>1. pc[e] \in 1..Len(script[e])
    BY <1>1, LocalTyped
  <2>2. DOMAIN pc' = End /\ \A d \in End : pc'[d] \in 1..(Len(script[d]) + 1)
    BY <1>2, <2>1, GoOnTyped
  <2> QED
    BY <1>1, <1>2, <2>2, Unpacked, TypeInvAgain
<1>3. CASE Leave(e)
  <2>1. /\ \A d \in End : pc'[d] \in 1..(Len(script[d]) + 1)
        /\ DOMAIN pc' = End
        /\ status' \in [End -> {"open", "ok", "error"}]
    BY <1>1, <1>3, LeaveTyped
  <2> QED
    BY <1>1, <2>1, Unpacked, TypeInvAgain
<1> QED
  BY <1>1, <1>2, <1>3

LEMMA CloseTyped ==
  ASSUME TypeInv, NEW e \in End, Close(e)
  PROVE  TypeInv'
<1>1. /\ script' = script /\ pc' = pc /\ wire' = wire /\ rbuf' = rbuf /\ broken' = broken
      /\ frame' = frame /\ sent' = sent /\ got' = got
      /\ status' = [status EXCEPT ![e] = "ok"] /\ wbuf' = [wbuf EXCEPT ![e] = <<>>]
  BY DEF Close
<1>2. wbuf' \in [End -> Seq(WireByte)] /\ \A d \in End : Len(wbuf'[d]) <= BufSize
  <2>1. <<>> \in Seq(WireByte) /\ Len(<<>>) <= BufSize
    BY ConstantsAssumption
  <2> QED
    BY <1>1, <2>1, Unpacked
<1>3. status' \in [End -> {"open", "ok", "error"}]
  BY <1>1, Unpacked
<1> QED
  BY <1>1, <1>2, <1>3, Unpacked, TypeInvAgain

LEMMA BreakTyped ==
  ASSUME TypeInv, Break
  PROVE  TypeInv'
<1>1. /\ script' = script /\ pc' = pc /\ status' = status /\ wbuf' = wbuf /\ rbuf' = rbuf
      /\ frame' = frame /\ sent' = sent /\ got' = got
      /\ broken' = TRUE /\ wire' = [e \in End |-> <<>>]
  BY DEF Break
<1>2. wire' \in [End -> Seq(WireByte)] /\ broken' \in BOOLEAN
  BY <1>1
<1> QED
  BY <1>1, <1>2, Unpacked, TypeInvAgain

LEMMA StepTyped ==
  ASSUME TypeInv, [Next]_vars
  PROVE  TypeInv'
<1>1. CASE UNCHANGED vars
  BY <1>1 DEF vars, TypeInv, TypeOK
<1>2. CASE Break
  BY <1>2, BreakTyped
<1>3. ASSUME NEW e \in End, Step(e) PROVE TypeInv'
  BY <1>3, WriteBytesTyped, FlushTyped, FillTyped, ReadLengthTyped, ReadFlagTyped,
     ReadBodyTyped, ReadFailsTyped, UseFileTyped, CloseTyped DEF Step
<1> QED
  BY <1>1, <1>2, <1>3 DEF Next

(* Every buffer holds bytes and no more than it has room for, every length *)
(* that ReadBytes works with is one of a frame, and no error leaves a      *)
(* handler outside its script.                                             *)
THEOREM TypeCorrect == FairSpec => []TypeOK
<1>1. FairSpec => []TypeInv
  <2>1. TypeInv /\ [Next]_vars => TypeInv'
    BY StepTyped
  <2> QED
    BY InitTyped, <2>1, PTL DEF FairSpec
<1>2. TypeInv => TypeOK
  BY DEF TypeInv
<1> QED
  BY <1>1, <1>2, PTL

------------------------------------------------------------------------------
(* Streams                                                                 *)

(* The sequence x consists of the frames fs, the first c elements left     *)
(* out; unless whole, its end may be missing.  The elements of fs[j] are   *)
(* those behind cut[j - 1].                                                *)
LaidAt(cut, x, fs, c, whole) ==
  /\ cut[0] = 0 - c
  /\ \A j \in 1..Len(fs) : cut[j] = cut[j - 1] + Len(fs[j])
  /\ \A i, j \in 0..Len(fs) : i <= j => cut[i] <= cut[j]
  /\ Len(x) <= cut[Len(fs)]
  /\ whole => Len(x) = cut[Len(fs)]
  /\ \A j \in 1..Len(fs) : \A k \in 1..Len(fs[j]) :
       cut[j - 1] + k \in 1..Len(x) => x[cut[j - 1] + k] = fs[j][k]

Laid(x, fs, c, whole) == \E cut \in [0..Len(fs) -> Int] : LaidAt(cut, x, fs, c, whole)

LEMMA LaidEmpty ==
  ASSUME NEW whole
  PROVE  Laid(<<>>, <<>>, 0, whole)
<1> DEFINE cut == [j \in 0..0 |-> 0]
<1>1. cut \in [0..0 -> Int] /\ cut[0] = 0
  OBVIOUS
<1> HIDE DEF cut
<1>2. LaidAt(cut, <<>>, <<>>, 0, whole)
  BY <1>1 DEF LaidAt
<1>3. Len(<<>>) = 0
  OBVIOUS
<1> QED
  BY <1>1, <1>2, <1>3 DEF Laid

(* A frame that is written joins the end of a whole stream, and is missing *)
(* at the end of another one.                                              *)
LEMMA LaidAppend ==
  ASSUME NEW S, NEW x \in Seq(S), NEW fs \in Seq(Seq(S)), NEW c \in Nat, NEW f \in Seq(S),
         NEW whole \in BOOLEAN, Laid(x, fs, c, whole)
  PROVE  Laid(IF whole THEN x \o f ELSE x, Append(fs, f), c, whole)
<1> DEFINE n == Len(fs)
           y == IF whole THEN x \o f ELSE x
           gs == Append(fs, f)
<1>1. PICK cut \in [0..n -> Int] : LaidAt(cut, x, fs, c, whole)
  BY DEF Laid
<1>2. n \in Nat /\ Len(x) \in Nat /\ Len(f) \in Nat
  BY LenProperties
<1>3. gs \in Seq(Seq(S)) /\ Len(gs) = n + 1 /\ gs[n + 1] = f /\ \A j \in 1..n : gs[j] = fs[j]
  BY AppendProperties
<1>4. /\ whole => Len(y) = Len(x) + Len(f)
      /\ whole => \A i \in 1..Len(f) : y[Len(x) + i] = f[i]
      /\ \A i \in 1..Len(x) : y[i] = x[i]
      /\ ~whole => Len(y) = Len(x)
  <2>1. CASE whole
    <3>1. /\ y = x \o f /\ Len(y) = Len(x) + Len(f)
          /\ \A i \in 1..(Len(x) + Len(f)) : y[i] = IF i <= Len(x) THEN x[i] ELSE f[i - Len(x)]
      BY <2>1, ConcatProperties
    <3> HIDE DEF y
    <3>2. ASSUME NEW i \in 1..Len(f) PROVE y[Len(x) + i] = f[i]
      <4>1. /\ Len(x) + i \in 1..(Len(x) + Len(f)) /\ ~(Len(x) + i <= Len(x))
            /\ Len(x) + i - Len(x) = i
        BY <1>2
      <4> QED
        BY <3>1, <4>1
    <3>3. ASSUME NEW i \in 1..Len(x) PROVE y[i] = x[i]
      BY <1>2, <3>1
    <3> QED
      BY <2>1, <3>1, <3>2, <3>3
  <2>2. CASE ~whole
    BY <2>2
  <2> QED
    BY <2>1, <2>2
<1> DEFINE cat == [j \in 0..(n + 1) |-> IF j = n + 1 THEN cut[n] + Len(f) ELSE cut[j]]
<1>5. /\ cut[0] = 0 - c /\ Len(x) <= cut[n] /\ (whole => Len(x) = cut[n])
      /\ \A j \in 1..n : cut[j] = cut[j - 1] + Len(fs[j])
      /\ \A i, j \in 0..n : i <= j => cut[i] <= cut[j]
      /\ \A j \in 1..n : \A k \in 1..Len(fs[j]) :
           cut[j - 1] + k \in 1..Len(x) => x[cut[j - 1] + k] = fs[j][k]
  BY <1>1 DEF LaidAt
<1>6. \A j \in 0..n : cut[j] \in Int
  OBVIOUS
<1> HIDE DEF n, gs, y
<1>7. cat \in [0..(n + 1) -> Int]
  BY <1>2, <1>6
<1>8. cat[n + 1] = cut[n] + Len(f) /\ \A j \in 0..n : cat[j] = cut[j]
  BY <1>2
<1> HIDE DEF cat
<1>9. cat[0] = 0 - c /\ Len(y) <= cat[n + 1] /\ (whole => Len(y) = cat[n + 1])
  <2>1. cut[n] \in Int /\ 0 \in 0..n
    BY <1>2, <1>6
  <2> QED
    BY <1>2, <1>4, <1>5, <1>8, <2>1
<1>10. ASSUME NEW j \in 1..(n + 1) PROVE cat[j] = cat[j - 1] + Len(gs[j])
  <2>1. CASE j = n + 1
    <3>1. j - 1 = n /\ n \in 0..n
      BY <1>2, <2>1
    <3> QED
      BY <1>3, <1>8, <2>1, <3>1
  <2>2. CASE j # n + 1
    <3>1. j \in 1..n /\ j - 1 \in 0..n /\ j \in 0..n
      BY <1>2, <2>2
    <3> QED
      BY <1>3, <1>5, <1>8, <3>1
  <2> QED
    BY <2>1, <2>2
<1>11. ASSUME NEW i \in 0..(n + 1), NEW j \in 0..(n + 1), i <= j PROVE cat[i] <= cat[j]
  <2>1. CASE j = n + 1 /\ i # n + 1
    <3>1. i \in 0..n /\ n \in 0..n /\ cut[i] <= cut[n]
      BY <1>2, <1>5, <2>1
    <3> QED
      BY <1>2, <1>6, <1>8, <2>1, <3>1
  <2>2. CASE i = n + 1
    <3>1. j = i /\ cat[i] \in Int
      BY <1>2, <1>7, <1>11, <2>2
    <3> QED
      BY <3>1
  <2>3. CASE j # n + 1 /\ i # n + 1
    <3>1. i \in 0..n /\ j \in 0..n
      BY <1>2, <2>3
    <3> QED
      BY <1>5, <1>8, <1>11, <3>1
  <2> QED
    BY <2>1, <2>2, <2>3
<1>12. ASSUME NEW j \in 1..(n + 1), NEW k \in 1..Len(gs[j]), cat[j - 1] + k \in 1..Len(y)
       PROVE  y[cat[j - 1] + k] = gs[j][k]
  <2>1. CASE j = n + 1
    <3>1. j - 1 = n /\ cat[j - 1] = cut[n] /\ gs[j] = f /\ cut[n] \in Int
      BY <1>2, <1>3, <1>6, <1>8, <2>1
    <3>2. whole
      <4>1. ~whole => ~(cut[n] + k <= Len(y))
        BY <1>2, <1>4, <1>5, <3>1
      <4> QED
        BY <1>12, <3>1, <4>1
    <3>3. cat[j - 1] + k = Len(x) + k /\ k \in 1..Len(f)
      BY <1>5, <3>1, <3>2
    <3> QED
      BY <1>4, <3>1, <3>2, <3>3
  <2>2. CASE j # n + 1
    <3>1. j \in 1..n /\ j - 1 \in 0..n /\ j \in 0..n /\ n \in 0..n
      BY <1>2, <2>2
    <3>2. gs[j] = fs[j] /\ cat[j - 1] = cut[j - 1] /\ cut[j] = cut[j - 1] + Len(fs[j])
          /\ cut[j] <= cut[n]
      <4>1. j <= n
        BY <1>2, <3>1
      <4>2. cut[j] <= cut[n]
        BY <1>5, <3>1, <4>1
      <4> QED
        BY <1>3, <1>5, <1>8, <3>1, <4>2
    <3>3. Len(fs[j]) \in Nat /\ k \in 1..Len(fs[j])
      <4>1. fs[j] \in Seq(S)
        BY <3>1, ElementOfSeq DEF n
      <4>2. Len(fs[j]) \in Nat
        BY <4>1, LenProperties
      <4> QED
        BY <3>2, <4>2
    <3>4. cut[j - 1] \in Int /\ cut[n] \in Int
      BY <1>6, <3>1
    <3>5. cut[j - 1] + k <= cut[n] /\ cut[j - 1] + k \in 1..Len(y)
      <4> DEFINE u == cut[j - 1]
                 len == Len(fs[j])
      <4>1. u \in Int /\ cut[n] \in Int /\ len \in Nat /\ k \in 1..len /\ u + len <= cut[n]
        BY <3>2, <3>3, <3>4
      <4> HIDE DEF u, len
      <4>2. u + k <= cut[n]
        BY <4>1
      <4> QED
        BY <1>12, <3>2, <4>2 DEF u
    <3>6. cut[j - 1] + k \in 1..Len(x)
      <4> DEFINE u == cut[j - 1] + k
                 m == Len(x)
      <4>1. u \in 1..Len(y) /\ u <= cut[n] /\ u \in Int
        BY <3>3, <3>4, <3>5
      <4>2. whole => m = cut[n]
        BY <1>5
      <4>3. ~whole => Len(y) = m
        BY <1>4
      <4>4. m \in Nat
        BY <1>2
      <4> HIDE DEF u, m
      <4>5. ASSUME whole PROVE u \in 1..m
        BY <4>1, <4>2, <4>4, <4>5
      <4>6. ASSUME ~whole PROVE u \in 1..m
        BY <4>1, <4>3, <4>6
      <4>7. u \in 1..m
        BY <4>5, <4>6
      <4> QED
        BY <4>7 DEF u, m
    <3>7. x[cut[j - 1] + k] = fs[j][k]
      BY <1>5, <3>1, <3>3, <3>6
    <3> QED
      BY <1>4, <3>2, <3>6, <3>7
  <2> QED
    BY <2>1, <2>2
<1>13. LaidAt(cat, y, gs, c, whole)
  BY <1>3, <1>9, <1>10, <1>11, <1>12 DEF LaidAt
<1> QED
  BY <1>3, <1>7, <1>13 DEF Laid, y, gs

(* What is lost is lost at the end.                                        *)
LEMMA LaidPrefix ==
  ASSUME NEW S, NEW x \in Seq(S), NEW y \in Seq(S), NEW fs, NEW c, NEW whole,
         Laid(x, fs, c, whole), Len(fs) \in Nat,
         Len(y) <= Len(x), \A i \in 1..Len(y) : y[i] = x[i]
  PROVE  Laid(y, fs, c, FALSE)
<1> DEFINE n == Len(fs)
<1>1. PICK cut \in [0..n -> Int] : LaidAt(cut, x, fs, c, whole)
  BY DEF Laid
<1>2. Len(x) \in Nat /\ Len(y) \in Nat /\ n \in 0..n
  BY LenProperties
<1>3. /\ cut[0] = 0 - c /\ Len(x) <= cut[n]
      /\ \A j \in 1..n : cut[j] = cut[j - 1] + Len(fs[j])
      /\ \A i, j \in 0..n : i <= j => cut[i] <= cut[j]
      /\ \A j \in 1..n : \A k \in 1..Len(fs[j]) :
           cut[j - 1] + k \in 1..Len(x) => x[cut[j - 1] + k] = fs[j][k]
  BY <1>1 DEF LaidAt
<1> HIDE DEF n
<1>4. Len(y) <= cut[n]
  <2>1. cut[n] \in Int
    BY <1>2
  <2> QED
    BY <1>2, <1>3, <2>1
<1>5. ASSUME NEW j \in 1..n, NEW k \in 1..Len(fs[j]), cut[j - 1] + k \in 1..Len(y)
      PROVE  y[cut[j - 1] + k] = fs[j][k]
  <2>1. cut[j - 1] + k \in 1..Len(x)
    BY <1>2, <1>5
  <2> QED
    BY <1>3, <1>5, <2>1
<1>6. LaidAt(cut, y, fs, c, FALSE)
  BY <1>3, <1>4, <1>5 DEF LaidAt, n
<1> QED
  BY <1>6 DEF Laid, n

(* What is read is read from the start.                                    *)
LEMMA LaidConsume ==
  ASSUME NEW S, NEW x \in Seq(S), NEW fs \in Seq(Seq(S)), NEW c \in Nat, NEW whole,
         Laid(x, fs, c, whole), NEW a \in 0..Len(x)
  PROVE  Laid(SubSeq(x, a + 1, Len(x)), fs, c + a, whole)
<1> DEFINE n == Len(fs)
           y == SubSeq(x, a + 1, Len(x))
<1>1. PICK cut \in [0..n -> Int] : LaidAt(cut, x, fs, c, whole)
  BY DEF Laid
<1>2. /\ Len(x) \in Nat /\ y \in Seq(S) /\ Len(y) = Len(x) - a
      /\ \A i \in 1..(Len(x) - a) : y[i] = x[a + i]
  BY LenProperties, Cut
<1>3. /\ cut[0] = 0 - c /\ Len(x) <= cut[n] /\ (whole => Len(x) = cut[n])
      /\ \A j \in 1..n : cut[j] = cut[j - 1] + Len(fs[j])
      /\ \A i, j \in 0..n : i <= j => cut[i] <= cut[j]
      /\ \A j \in 1..n : \A k \in 1..Len(fs[j]) :
           cut[j - 1] + k \in 1..Len(x) => x[cut[j - 1] + k] = fs[j][k]
  BY <1>1 DEF LaidAt
<1> DEFINE cat == [j \in 0..n |-> cut[j] - a]
<1> HIDE DEF y, n
<1>4. /\ n \in Nat /\ \A j \in 0..n : cut[j] \in Int
      /\ \A j \in 1..n : Len(fs[j]) \in Nat
  <2>1. \A j \in 1..n : fs[j] \in Seq(S)
    BY ElementOfSeq DEF n
  <2>2. \A j \in 1..n : Len(fs[j]) \in Nat
    BY <2>1, LenProperties
  <2>3. n \in Nat
    BY LenProperties DEF n
  <2> QED
    BY <2>2, <2>3
<1>5. cat \in [0..n -> Int] /\ \A j \in 0..n : cat[j] = cut[j] - a
  BY <1>4
<1> HIDE DEF cat
<1>6. cat[0] = 0 - (c + a) /\ Len(y) <= cat[n] /\ (whole => Len(y) = cat[n])
  <2>1. 0 \in 0..n /\ n \in 0..n
    BY <1>4
  <2>2. /\ cat[0] = cut[0] - a /\ cat[n] = cut[n] - a
        /\ cut[0] = 0 - c /\ Len(x) <= cut[n] /\ (whole => Len(x) = cut[n])
    BY <1>3, <1>5, <2>1
  <2>3. cut[n] \in Int /\ Len(x) \in Nat /\ Len(y) = Len(x) - a /\ a \in Nat
    BY <1>2, <1>4, <2>1
  <2> QED
    BY <2>2, <2>3
<1>7. ASSUME NEW i \in 0..n, NEW j \in 0..n, i <= j PROVE cat[i] <= cat[j]
  <2>1. cut[i] <= cut[j]
    BY <1>3, <1>7
  <2>2. cut[i] \in Int /\ cut[j] \in Int /\ cat[i] = cut[i] - a /\ cat[j] = cut[j] - a
    BY <1>4, <1>5
  <2>3. a \in Nat
    BY <1>2
  <2> QED
    BY <2>1, <2>2, <2>3
<1>8. ASSUME NEW j \in 1..n
      PROVE  /\ cat[j] = cat[j - 1] + Len(fs[j])
             /\ \A k \in 1..Len(fs[j]) :
                  cat[j - 1] + k \in 1..Len(y) => y[cat[j - 1] + k] = fs[j][k]
  <2>1. j \in 0..n /\ j - 1 \in 0..n
    BY <1>4
  <2>2. /\ cut[j - 1] \in Int /\ cut[j] \in Int /\ Len(fs[j]) \in Nat
        /\ cut[j] = cut[j - 1] + Len(fs[j])
        /\ cat[j] = cut[j] - a /\ cat[j - 1] = cut[j - 1] - a
    BY <1>3, <1>4, <1>5, <2>1
  <2>3. cat[j] = cat[j - 1] + Len(fs[j])
    <3> DEFINE u == cut[j - 1]
               len == Len(fs[j])
    <3>1. u \in Int /\ len \in Nat /\ a \in Nat /\ cat[j] = (u + len) - a /\ cat[j - 1] = u - a
      BY <1>2, <2>2
    <3> HIDE DEF u, len
    <3>2. cat[j] = cat[j - 1] + len
      BY <3>1
    <3> QED
      BY <3>2 DEF len
  <2>4. ASSUME NEW k \in 1..Len(fs[j]), cat[j - 1] + k \in 1..Len(y)
        PROVE  y[cat[j - 1] + k] = fs[j][k]
    <3> DEFINE u == cut[j - 1] + k
               v == cat[j - 1] + k
    <3>1. k \in Int /\ u \in Int /\ v = u - a /\ a \in Nat
      <4>1. k \in Int /\ a \in Nat /\ Len(fs[j]) \in Nat
        BY <1>2, <2>2
      <4>2. cut[j - 1] \in Int /\ cat[j - 1] = cut[j - 1] - a
        BY <2>2
      <4> QED
        BY <4>1, <4>2
    <3>2. v \in 1..Len(y) /\ Len(y) = Len(x) - a /\ Len(x) \in Nat
      BY <1>2, <2>4
    <3>3. u \in 1..Len(x) => x[u] = fs[j][k]
      BY <1>3
    <3> HIDE DEF u, v
    <3>4. u \in 1..Len(x) /\ v \in 1..(Len(x) - a) /\ a + v = u
      BY <3>1, <3>2
    <3>5. y[v] = x[a + v]
      BY <1>2, <3>4
    <3> QED
      BY <3>3, <3>4, <3>5 DEF v
  <2> QED
    BY <2>3, <2>4
<1>9. LaidAt(cat, y, fs, c + a, whole)
  BY <1>6, <1>7, <1>8 DEF LaidAt, n
<1> QED
  BY <1>5, <1>9 DEF Laid, n, y

(* A frame that has been read to its end is gone.                          *)
LEMMA LaidNext ==
  ASSUME NEW T, NEW x, NEW fs \in Seq(T), NEW c, NEW whole,
         fs # <<>>, c = Len(fs[1]), Laid(x, fs, c, whole)
  PROVE  Laid(x, Tail(fs), 0, whole)
<1> DEFINE n == Len(fs)
           gs == Tail(fs)
<1>1. PICK cut \in [0..n -> Int] : LaidAt(cut, x, fs, c, whole)
  BY DEF Laid
<1>2. n \in Nat \ {0} /\ Len(gs) = n - 1 /\ \A j \in 1..(n - 1) : gs[j] = fs[j + 1]
  BY HeadTailProperties, EmptySeq
<1>3. /\ cut[0] = 0 - c /\ Len(x) <= cut[n] /\ (whole => Len(x) = cut[n])
      /\ \A j \in 1..n : cut[j] = cut[j - 1] + Len(fs[j])
      /\ \A i, j \in 0..n : i <= j => cut[i] <= cut[j]
      /\ \A j \in 1..n : \A k \in 1..Len(fs[j]) :
           cut[j - 1] + k \in 1..Len(x) => x[cut[j - 1] + k] = fs[j][k]
  BY <1>1 DEF LaidAt
<1> DEFINE cat == [j \in 0..(n - 1) |-> cut[j + 1]]
<1> HIDE DEF gs, n
<1>4. \A j \in 0..n : cut[j] \in Int
  OBVIOUS
<1>5. cat \in [0..(n - 1) -> Int] /\ \A j \in 0..(n - 1) : cat[j] = cut[j + 1]
  BY <1>2, <1>4
<1> HIDE DEF cat
<1>6. cat[0] = 0 - 0
  <2>1. 1 \in 1..n /\ 0 \in 0..(n - 1) /\ 0 \in 0..n /\ 1 \in 0..n /\ 1 - 1 = 0 /\ 0 + 1 = 1
    BY <1>2
  <2>2. cut[1] = cut[0] + Len(fs[1]) /\ cat[0] = cut[1]
    BY <1>3, <1>5, <2>1
  <2>3. cut[0] \in Int /\ cut[1] \in Int
    BY <1>4, <2>1
  <2>4. cut[0] <= cut[1]
    BY <1>3, <2>1
  <2> QED
    BY <1>3, <2>2, <2>3, <2>4
<1>7. Len(x) <= cat[n - 1] /\ (whole => Len(x) = cat[n - 1])
  <2>1. n - 1 \in 0..(n - 1) /\ n - 1 + 1 = n
    BY <1>2
  <2> QED
    BY <1>3, <1>5, <2>1
<1>8. ASSUME NEW i \in 0..(n - 1), NEW j \in 0..(n - 1), i <= j PROVE cat[i] <= cat[j]
  <2>1. i + 1 \in 0..n /\ j + 1 \in 0..n /\ i + 1 <= j + 1
    BY <1>2, <1>8
  <2> QED
    BY <1>3, <1>5, <2>1
<1>9. ASSUME NEW j \in 1..(n - 1)
      PROVE  /\ cat[j] = cat[j - 1] + Len(gs[j])
             /\ \A k \in 1..Len(gs[j]) :
                  cat[j - 1] + k \in 1..Len(x) => x[cat[j - 1] + k] = gs[j][k]
  <2>1. j + 1 \in 1..n /\ j \in 0..(n - 1) /\ j - 1 \in 0..(n - 1) /\ j + 1 - 1 = j /\ j - 1 + 1 = j
    BY <1>2
  <2>2. gs[j] = fs[j + 1] /\ cat[j] = cut[j + 1] /\ cat[j - 1] = cut[j]
    BY <1>2, <1>5, <2>1
  <2>3. cut[j + 1] = cut[j] + Len(fs[j + 1])
        /\ \A k \in 1..Len(fs[j + 1]) :
             cut[j] + k \in 1..Len(x) => x[cut[j] + k] = fs[j + 1][k]
    BY <1>3, <2>1
  <2> QED
    BY <2>2, <2>3
<1>10. LaidAt(cat, x, gs, 0, whole)
  BY <1>2, <1>6, <1>7, <1>8, <1>9 DEF LaidAt
<1> QED
  BY <1>2, <1>5, <1>10 DEF Laid, gs

(* What comes first belongs to the first frame.                            *)
LEMMA LaidFirst ==
  ASSUME NEW S, NEW x \in Seq(S), NEW fs, NEW c \in Nat, NEW whole,
         Laid(x, fs, c, whole), Len(fs) \in Nat, x # <<>>
  PROVE  /\ Len(fs) > 0
         /\ \A k \in 1..Len(x) : c + k <= Len(fs[1]) => x[k] = fs[1][c + k]
<1> DEFINE n == Len(fs)
<1>1. PICK cut \in [0..n -> Int] : LaidAt(cut, x, fs, c, whole)
  BY DEF Laid
<1>2. /\ cut[0] = 0 - c /\ Len(x) <= cut[n]
      /\ \A j \in 1..n : cut[j] = cut[j - 1] + Len(fs[j])
      /\ \A j \in 1..n : \A k \in 1..Len(fs[j]) :
           cut[j - 1] + k \in 1..Len(x) => x[cut[j - 1] + k] = fs[j][k]
  BY <1>1 DEF LaidAt
<1>3. Len(x) \in Nat \ {0}
  BY EmptySeq
<1> HIDE DEF n
<1>4. n > 0
  <2>1. n \in Nat
    BY DEF n
  <2>2. n = 0 => FALSE
    BY <1>2, <1>3
  <2> QED
    BY <2>1, <2>2
<1>5. ASSUME NEW k \in 1..Len(x), c + k <= Len(fs[1]) PROVE x[k] = fs[1][c + k]
  <2>1. 1 \in 1..n /\ 1 \in 0..n /\ 0 \in 0..n /\ 1 - 1 = 0
    BY <1>4 DEF n
  <2>2. cut[1] = cut[0] + Len(fs[1]) /\ cut[0] \in Int /\ cut[1] \in Int
    BY <1>2, <2>1
  <2>3. c + k \in 1..Len(fs[1])
    BY <1>3, <1>5
  <2>4. cut[0] + (c + k) = k
    BY <1>2, <1>3
  <2>5. \A m \in 1..Len(fs[1]) : cut[0] + m \in 1..Len(x) => x[cut[0] + m] = fs[1][m]
    BY <1>2, <2>1
  <2> QED
    BY <2>3, <2>4, <2>5
<1> QED
  BY <1>4, <1>5 DEF n

------------------------------------------------------------------------------
(* The invariant of the stream                                             *)

Alive(e) == ~broken /\ status[Other(e)] = "open"

(* The bytes on their way to e, and the frames they belong to.             *)
Coming(e) == rbuf[e] \o wire[e] \o (IF Alive(e) THEN wbuf[Other(e)] ELSE <<>>)
Frames(s, n) == [j \in 1..(Len(s) - n) |-> Frame(s[n + j])]
Due(e) == Frames(sent[Other(e)], Len(got[e]))

(* How much ReadBytes has read of the first one.                           *)
Taken(e) == IF frame[e].at = "length" THEN 0
            ELSE IF frame[e].at = "flag" THEN 2 ELSE 3 + Len(frame[e].total)

(* What it remembers is what that frame says.                              *)
FrameHeld(e) ==
  LET p == sent[Other(e)][Len(got[e]) + 1] IN
  /\ frame[e].at = "length" => frame[e] = NoFrame
  /\ frame[e].at # "length" =>
       /\ Len(got[e]) < Len(sent[Other(e)])
       /\ frame[e].need = Len(Body(p))
       /\ frame[e].at = "body" =>
            /\ frame[e].compressed = IsCompressed(p)
            /\ \A k \in 1..Len(frame[e].total) : frame[e].total[k] = Body(p)[k]

InTransit(e) == Laid(Coming(e), Due(e), Taken(e), Alive(e)) /\ FrameHeld(e)

(* After an error of the connection nothing comes, and nothing is half     *)
(* read.                                                                   *)
Ended(e) == rbuf[e] = <<>> /\ wire[e] = <<>> /\ ~Alive(e) /\ frame[e] = NoFrame

(* No piece ends inside a length.                                          *)
CutBehind(e) == rbuf[e] # <<>> => rbuf[e][Len(rbuf[e])][2]

Follows(e) ==
  /\ Len(got[e]) <= Len(sent[Other(e)])
  /\ \A i \in 1..Len(got[e]) : got[e][i] = sent[Other(e)][i]

StreamAt(e) ==
  /\ Follows(e)
  /\ CutBehind(e)
  /\ status[e] = "open" => InTransit(e) \/ Ended(e)

StreamInv == \A e \in End : StreamAt(e)

LEMMA FramesTyped ==
  ASSUME NEW s \in Seq(Fitting), NEW n \in 0..Len(s)
  PROVE  /\ Frames(s, n) \in Seq(Seq(WireByte)) /\ Len(Frames(s, n)) = Len(s) - n
         /\ Len(s) - n \in Nat /\ Len(s) \in Nat /\ n \in Nat
         /\ \A j \in 1..(Len(s) - n) : s[n + j] \in Fitting /\ Frames(s, n)[j] = Frame(s[n + j])
<1> DEFINE k == Len(s) - n
<1>1. k \in Nat /\ Len(s) \in Nat /\ n \in Nat
  BY LenProperties
<1>2. ASSUME NEW j \in 1..k PROVE s[n + j] \in Fitting
  <2>1. n + j \in 1..Len(s)
    BY <1>1
  <2> QED
    BY <2>1, ElementOfSeq
<1>3. Frames(s, n) = [j \in 1..k |-> Frame(s[n + j])]
  BY DEF Frames
<1>4. \A j \in 1..k : Frame(s[n + j]) \in Seq(WireByte)
  BY <1>2, FrameShape
<1> HIDE DEF k
<1>5. Frames(s, n) \in [1..k -> Seq(WireByte)]
  BY <1>3, <1>4
<1>6. Frames(s, n) \in Seq(Seq(WireByte)) /\ Len(Frames(s, n)) = k
  BY <1>1, <1>5
<1> QED
  BY <1>1, <1>2, <1>3, <1>6 DEF k

(* The frame of what is written joins the others.                          *)
LEMMA FramesAppend ==
  ASSUME NEW s \in Seq(Fitting), NEW n \in 0..Len(s), NEW p \in Fitting
  PROVE  Frames(Append(s, p), n) = Append(Frames(s, n), Frame(p))
<1> DEFINE t == Append(s, p)
           k == Len(s) - n
           fs == Frames(s, n)
           gs == Frames(t, n)
           f == Frame(p)
           hs == Append(fs, f)
<1>1. /\ t \in Seq(Fitting) /\ Len(t) = Len(s) + 1 /\ t[Len(s) + 1] = p
      /\ \A i \in 1..Len(s) : t[i] = s[i]
  BY AppendProperties
<1>2. /\ fs \in Seq(Seq(WireByte)) /\ Len(fs) = k /\ k \in Nat /\ Len(s) \in Nat /\ n \in Nat
      /\ \A j \in 1..k : fs[j] = Frame(s[n + j])
  BY FramesTyped
<1>3. f \in Seq(WireByte)
  BY FrameShape
<1>4. /\ gs \in Seq(Seq(WireByte)) /\ Len(gs) = k + 1
      /\ \A j \in 1..(k + 1) : gs[j] = Frame(t[n + j])
  <2> HIDE DEF t
  <2>1. n \in 0..Len(t) /\ Len(t) - n = k + 1
    BY <1>1, <1>2
  <2> QED
    BY <1>1, <2>1, FramesTyped
<1> HIDE DEF fs, gs, f, t
<1>5. /\ hs \in Seq(Seq(WireByte)) /\ Len(hs) = k + 1
      /\ \A j \in 1..k : hs[j] = fs[j]
      /\ hs[k + 1] = f
  <2> HIDE DEF k
  <2> QED
    BY <1>2, <1>3, AppendProperties
<1> HIDE DEF hs
<1>6. ASSUME NEW j \in 1..(k + 1) PROVE gs[j] = hs[j]
  <2>1. CASE j = k + 1
    <3>1. n + j = Len(s) + 1
      BY <1>2, <2>1
    <3> QED
      BY <1>1, <1>4, <1>5, <2>1, <3>1 DEF f
  <2>2. CASE j # k + 1
    <3>1. j \in 1..k /\ n + j \in 1..Len(s)
      BY <1>2, <2>2
    <3>2. t[n + j] = s[n + j]
      BY <1>1, <3>1
    <3> QED
      BY <1>2, <1>4, <1>5, <3>1, <3>2
  <2> QED
    BY <2>1, <2>2
<1>7. gs = hs
  <2> HIDE DEF k
  <2> QED
    BY <1>4, <1>5, <1>6, SeqEqual
<1> QED
  BY <1>7 DEF gs, hs, fs, f, t

(* One frame less is due when a payload has been read.                     *)
LEMMA FramesNext ==
  ASSUME NEW s \in Seq(Fitting), NEW n \in 0..(Len(s) - 1)
  PROVE  /\ Frames(s, n) # <<>> /\ Frames(s, n)[1] = Frame(s[n + 1]) /\ s[n + 1] \in Fitting
         /\ Frames(s, n + 1) = Tail(Frames(s, n))
<1> DEFINE fs == Frames(s, n)
           gs == Frames(s, n + 1)
           k == Len(s) - n
<1>1. Len(s) \in Nat /\ n \in 0..Len(s) /\ n + 1 \in 0..Len(s) /\ Len(s) - (n + 1) = k - 1
      /\ 1 \in 1..k
  BY LenProperties
<1>2. /\ fs \in Seq(Seq(WireByte)) /\ Len(fs) = k /\ k \in Nat
      /\ \A j \in 1..k : s[n + j] \in Fitting /\ fs[j] = Frame(s[n + j])
  BY <1>1, FramesTyped
<1>3. /\ gs \in Seq(Seq(WireByte)) /\ Len(gs) = k - 1
      /\ \A j \in 1..(k - 1) : gs[j] = Frame(s[(n + 1) + j])
  BY <1>1, FramesTyped
<1> HIDE DEF fs, gs
<1>4. fs # <<>>
  BY <1>1, <1>2
<1>5. Tail(fs) \in Seq(Seq(WireByte)) /\ Len(Tail(fs)) = k - 1
      /\ \A j \in 1..(k - 1) : Tail(fs)[j] = fs[j + 1]
  <2> HIDE DEF k
  <2> QED
    BY <1>2, <1>4, HeadTailProperties
<1>6. ASSUME NEW j \in 1..(k - 1) PROVE gs[j] = Tail(fs)[j]
  <2>1. j + 1 \in 1..k /\ n + (j + 1) = (n + 1) + j
    BY <1>1, <1>2
  <2> QED
    BY <1>2, <1>3, <1>5, <2>1
<1>7. gs = Tail(fs)
  <2> HIDE DEF k
  <2> QED
    BY <1>3, <1>5, <1>6, SeqEqual
<1> QED
  BY <1>1, <1>2, <1>4, <1>7 DEF fs, gs

LEMMA DueTyped ==
  ASSUME TypeInv, NEW e \in End, Follows(e)
  PROVE  /\ sent[Other(e)] \in Seq(Fitting) /\ Len(got[e]) \in 0..Len(sent[Other(e)])
         /\ Len(got[e]) \in Nat /\ Len(sent[Other(e)]) \in Nat
         /\ Due(e) \in Seq(Seq(WireByte))
         /\ Len(Due(e)) = Len(sent[Other(e)]) - Len(got[e]) /\ Len(Due(e)) \in Nat
<1>1. sent[Other(e)] \in Seq(Fitting) /\ Len(got[e]) \in Nat /\ Len(sent[Other(e)]) \in Nat
  BY OtherEnd, Typed, LenProperties
<1>2. Len(got[e]) \in 0..Len(sent[Other(e)])
  BY <1>1 DEF Follows
<1> QED
  BY <1>1, <1>2, FramesTyped DEF Due

(* How the bytes of a stream are grouped does not matter.                  *)
LEMMA Grouped ==
  ASSUME NEW S, NEW r \in Seq(S), NEW w \in Seq(S), NEW b \in Seq(S)
  PROVE  (r \o w) \o b = r \o (w \o b)
BY ConcatAssociative

(* The buffer of the reader comes first.                                   *)
LEMMA ComingTyped ==
  ASSUME TypeInv, NEW e \in End
  PROVE  /\ wire[e] \o (IF Alive(e) THEN wbuf[Other(e)] ELSE <<>>) \in Seq(WireByte)
         /\ rbuf[e] \in Seq(WireByte)
         /\ Coming(e) = rbuf[e] \o (wire[e] \o (IF Alive(e) THEN wbuf[Other(e)] ELSE <<>>))
         /\ Coming(e) \in Seq(WireByte)
         /\ Len(Coming(e)) >= Len(rbuf[e]) /\ Len(rbuf[e]) \in Nat /\ Len(Coming(e)) \in Nat
         /\ \A i \in 1..Len(rbuf[e]) : Coming(e)[i] = rbuf[e][i]
<1> DEFINE last == IF Alive(e) THEN wbuf[Other(e)] ELSE <<>>
           r == rbuf[e]
           w == wire[e]
           x == Coming(e)
<1>1. last \in Seq(WireByte)
  <2>1. wbuf[Other(e)] \in Seq(WireByte) /\ <<>> \in Seq(WireByte)
    BY OtherEnd, Typed
  <2> QED
    BY <2>1
<1>2. w \in Seq(WireByte) /\ r \in Seq(WireByte)
  BY Typed
<1>3. x = (r \o w) \o last
  BY DEF Coming
<1> HIDE DEF last, r, w, x
<1>4. w \o last \in Seq(WireByte)
  BY <1>1, <1>2, Joined
<1>5. x = r \o (w \o last)
  <2>1. (r \o w) \o last = r \o (w \o last)
    BY <1>1, <1>2, ConcatAssociative
  <2> QED
    BY <1>3, <2>1
<1>6. /\ x \in Seq(WireByte) /\ Len(x) >= Len(r) /\ Len(r) \in Nat
      /\ \A i \in 1..Len(r) : x[i] = r[i]
  BY <1>2, <1>4, <1>5, Joined
<1>7. Len(x) \in Nat
  BY <1>6, LenProperties
<1> QED
  BY <1>2, <1>4, <1>5, <1>6, <1>7 DEF last, r, w, x

(* A step that takes nothing from the connection of d and puts nothing     *)
(* into it may cut its end off.                                            *)
LEMMA StillInTransit ==
  ASSUME TypeInv, TypeInv', NEW d \in End, StreamAt(d),
         frame'[d] = frame[d], got'[d] = got[d], sent'[Other(d)] = sent[Other(d)],
         rbuf'[d] = rbuf[d], status'[d] = "open" => status[d] = "open",
         wire'[d] = wire[d] \/ (wire'[d] = <<>> /\ ~Alive(d)'),
         Alive(d)' => Alive(d) /\ wbuf'[Other(d)] = wbuf[Other(d)]
  PROVE  StreamAt(d)'
<1>1. Follows(d)' /\ CutBehind(d)'
  BY DEF StreamAt, Follows, CutBehind
<1>2. Due(d)' = Due(d) /\ Taken(d)' = Taken(d)
  BY DEF Due, Taken
<1>3. FrameHeld(d) => FrameHeld(d)'
  BY DEF FrameHeld
<1>4. Ended(d) => Ended(d)'
  BY DEF Ended
<1>5. ASSUME InTransit(d) PROVE InTransit(d)'
  <2>1. Laid(Coming(d), Due(d), Taken(d), Alive(d)) /\ FrameHeld(d)
    BY <1>5 DEF InTransit
  <2>2. CASE Alive(d)'
    <3>1. Coming(d)' = Coming(d) /\ Alive(d)' = Alive(d)
      BY <2>2 DEF Coming, Alive
    <3> QED
      BY <1>2, <1>3, <2>1, <3>1 DEF InTransit
  <2>3. CASE ~Alive(d)'
    <3> DEFINE last == IF Alive(d) THEN wbuf[Other(d)] ELSE <<>>
               r == rbuf[d]
               w == wire[d]
               x == Coming(d)
               y == Coming(d)'
    <3>1. w \in Seq(WireByte) /\ r \in Seq(WireByte) /\ last \in Seq(WireByte)
      <4>1. wbuf[Other(d)] \in Seq(WireByte) /\ <<>> \in Seq(WireByte)
        BY OtherEnd, Typed
      <4> QED
        BY <4>1, Typed
    <3>2. x = (r \o w) \o last
      BY DEF Coming
    <3>3. y = (r \o w) \o <<>> \/ y = (r \o <<>>) \o <<>>
      BY <2>3 DEF Coming
    <3> HIDE DEF last, r, w, x, y
    <3>4. /\ r \o w \in Seq(WireByte) /\ Len(r \o w) >= Len(r) /\ Len(r) \in Nat
          /\ \A i \in 1..Len(r) : (r \o w)[i] = r[i]
      BY <3>1, Joined
    <3>5. /\ x \in Seq(WireByte) /\ Len(x) >= Len(r \o w) /\ Len(r \o w) \in Nat
          /\ \A i \in 1..Len(r \o w) : x[i] = (r \o w)[i]
      BY <3>1, <3>2, <3>4, Joined
    <3>6. y = r \o w \/ y = r
      BY <3>1, <3>3, <3>4, ConcatEmptySeq
    <3>7. Len(x) \in Nat
      BY <3>5, LenProperties
    <3>8. y \in Seq(WireByte) /\ Len(y) <= Len(x) /\ \A i \in 1..Len(y) : y[i] = x[i]
      <4> DEFINE rw == r \o w
      <4>1. /\ rw \in Seq(WireByte) /\ Len(rw) >= Len(r) /\ Len(r) \in Nat
            /\ \A i \in 1..Len(r) : rw[i] = r[i]
            /\ Len(x) >= Len(rw) /\ Len(rw) \in Nat
            /\ \A i \in 1..Len(rw) : x[i] = rw[i]
            /\ y = rw \/ y = r
        BY <3>4, <3>5, <3>6
      <4> HIDE DEF rw
      <4>2. CASE y = rw
        BY <3>7, <4>1, <4>2
      <4>3. CASE y = r
        <5>1. Len(y) <= Len(x) /\ y \in Seq(WireByte)
          BY <3>1, <3>7, <4>1, <4>3
        <5>2. ASSUME NEW i \in 1..Len(y) PROVE y[i] = x[i]
          <6>1. i \in 1..Len(r) /\ i \in 1..Len(rw)
            BY <4>1, <4>3
          <6> QED
            BY <4>1, <4>3, <6>1
        <5> QED
          BY <5>1, <5>2
      <4> QED
        BY <4>1, <4>2, <4>3
    <3>9. Len(Due(d)) \in Nat
      <4>1. Follows(d)
        BY DEF StreamAt
      <4> QED
        BY <4>1, DueTyped
    <3>10. Laid(y, Due(d), Taken(d), FALSE)
      <4>1. Laid(x, Due(d), Taken(d), Alive(d))
        BY <2>1 DEF x
      <4> QED
        BY <3>5, <3>8, <3>9, <4>1, LaidPrefix
    <3>11. Alive(d)' = FALSE
      BY <2>3
    <3> QED
      BY <1>2, <1>3, <2>1, <3>10, <3>11 DEF InTransit, y
  <2> QED
    BY <2>2, <2>3
<1> QED
  BY <1>1, <1>4, <1>5 DEF StreamAt

LEMMA InitStreams == Init /\ TypeInv => StreamInv
<1> SUFFICES ASSUME Init, TypeInv, NEW e \in End PROVE StreamAt(e)
  BY DEF StreamInv
<1>1. Other(e) \in End
  BY OtherEnd
<1>2. rbuf[e] = <<>> /\ wire[e] = <<>> /\ wbuf[Other(e)] = <<>> /\ frame[e] = NoFrame
      /\ sent[Other(e)] = <<>> /\ got[e] = <<>>
  BY <1>1 DEF Init
<1>3. Follows(e) /\ CutBehind(e)
  BY <1>2 DEF Follows, CutBehind
<1>4. FrameHeld(e) /\ Taken(e) = 0
  BY <1>2, NoFrameTyped DEF FrameHeld, Taken
<1>5. Coming(e) = <<>>
  BY <1>2 DEF Coming
<1>6. Due(e) = <<>>
  <2>1. Due(e) \in Seq(Seq(WireByte)) /\ Len(Due(e)) = 0
    BY <1>2, <1>3, DueTyped
  <2> QED
    BY <2>1, EmptySeq
<1>7. InTransit(e)
  BY <1>4, <1>5, <1>6, LaidEmpty DEF InTransit
<1> QED
  BY <1>3, <1>7 DEF StreamAt

(* A frame that is written is due to the other end, and is on its way if   *)
(* the connection is there.                                                *)
LEMMA WriteReaches ==
  ASSUME TypeInv, TypeInv', NEW d \in End, WriteBytes(Other(d)), StreamAt(d)
  PROVE  StreamAt(d)'
<1> DEFINE e == Other(d)
           p == script[e][pc[e]].payload
           all == wbuf[e] \o Frame(p)
           kept == Kept(wbuf[e], Frame(p))
           out == SubSeq(all, 1, Len(all) - kept)
           stay == SubSeq(all, Len(all) - kept + 1, Len(all))
<1>1. e \in End /\ Other(e) = d /\ e # d
  BY OtherEnd
<1>2. p \in Payload /\ status[e] = "open"
  BY <1>1, WritingTyped DEF WriteBytes, At
<1>3. status' = status /\ rbuf' = rbuf /\ frame' = frame /\ broken' = broken /\ got' = got
  BY DEF WriteBytes
<1>4. Alive(d)' = Alive(d) /\ (Alive(d) <=> ~broken)
  BY <1>2, <1>3 DEF Alive
<1>5. CASE Len(Body(p)) > MaxMsgSize
  <2>1. wbuf' = wbuf /\ wire' = wire /\ sent' = sent
    BY <1>5 DEF WriteBytes
  <2> QED
    BY <1>3, <1>4, <2>1, StillInTransit
<1>6. CASE ~(Len(Body(p)) > MaxMsgSize)
  <2>1. /\ Emit(e, out) /\ wbuf' = [wbuf EXCEPT ![e] = stay]
        /\ sent' = [sent EXCEPT ![e] = Append(@, p)]
    BY <1>6 DEF WriteBytes
  <2>2. p \in Fitting
    <3>1. Len(Body(p)) \in Nat
      BY <1>2, BodyTyped, LenProperties
    <3> QED
      BY <1>2, <1>6, <3>1, ConstantsAssumption DEF Fitting
  <2>3. out \in Seq(WireByte) /\ stay \in Seq(WireByte)
        /\ wbuf[e] \o Frame(p) = out \o stay /\ Frame(p) \in Seq(WireByte)
    BY <1>1, <2>2, WriteSplits
  <2> HIDE DEF p, out, stay
  <2>4. /\ sent[e] \in Seq(Fitting) /\ sent'[e] = Append(sent[e], p)
        /\ Len(sent[e]) \in Nat /\ Len(sent'[e]) = Len(sent[e]) + 1
        /\ \A i \in 1..Len(sent[e]) : sent'[e][i] = sent[e][i]
        /\ sent'[e][Len(sent[e]) + 1] = p
    <3>1. sent \in [End -> Seq(Fitting)] /\ sent[e] \in Seq(Fitting)
      BY <1>1, Unpacked
    <3>2. sent'[e] = Append(sent[e], p)
      BY <1>1, <2>1, <3>1
    <3> QED
      BY <2>2, <3>1, <3>2, AppendProperties, LenProperties
  <2>5. Len(got[d]) \in Nat /\ Follows(d)
    BY Typed, LenProperties DEF StreamAt
  <2>6. Follows(d)' /\ CutBehind(d)'
    <3>1. CutBehind(d)'
      BY <1>3 DEF CutBehind, StreamAt
    <3>2. ASSUME NEW i \in 1..Len(got[d]) PROVE got[d][i] = sent'[e][i]
      <4>1. i \in 1..Len(sent[e])
        BY <2>4, <2>5 DEF Follows
      <4> QED
        BY <2>4, <2>5, <4>1 DEF Follows
    <3>3. Len(got[d]) <= Len(sent'[e])
      BY <2>4, <2>5 DEF Follows
    <3> QED
      BY <1>3, <3>1, <3>2, <3>3 DEF Follows
  <2>7. Due(d)' = Append(Due(d), Frame(p))
    <3>1. Due(d) = Frames(sent[e], Len(got[d])) /\ Due(d)' = Frames(Append(sent[e], p), Len(got[d]))
      BY <1>3, <2>4 DEF Due
    <3>2. Len(got[d]) \in 0..Len(sent[e])
      BY <2>5, DueTyped
    <3> QED
      BY <2>2, <2>4, <3>1, <3>2, FramesAppend
  <2>8. Taken(d)' = Taken(d) /\ Taken(d) \in Nat
    <3>1. Len(frame[d].total) \in Nat
      BY Typed, LenProperties
    <3> QED
      BY <1>3, <3>1 DEF Taken
  <2>9. FrameHeld(d) => FrameHeld(d)'
    <3> SUFFICES ASSUME FrameHeld(d), frame[d].at # "length" PROVE FrameHeld(d)'
      BY <1>3 DEF FrameHeld
    <3>1. Len(got[d]) < Len(sent[e])
      BY DEF FrameHeld
    <3>2. Len(got[d]) + 1 \in 1..Len(sent[e]) /\ Len(got[d]) < Len(sent'[e])
      BY <2>4, <2>5, <3>1
    <3>3. sent'[e][Len(got[d]) + 1] = sent[e][Len(got[d]) + 1]
      BY <2>4, <3>2
    <3> QED
      BY <1>3, <3>2, <3>3 DEF FrameHeld
  <2>10. wire'[d] = IF broken \/ status[d] # "open" THEN wire[d] ELSE wire[d] \o out
    BY <1>1, <2>1, <2>3, EmitTyped
  <2>11. ASSUME status[d] = "open", Ended(d) PROVE Ended(d)'
    <3>1. broken
      BY <1>4, <2>11 DEF Ended
    <3> QED
      BY <1>3, <1>4, <2>10, <2>11, <3>1 DEF Ended
  <2>12. ASSUME status[d] = "open"
         PROVE  Coming(d)' = IF Alive(d) THEN Coming(d) \o Frame(p) ELSE Coming(d)
    <3>1. CASE Alive(d)
      <4> DEFINE r == rbuf[d]
                 w == wire[d]
                 b == wbuf[e]
                 f == Frame(p)
      <4>1. r \in Seq(WireByte) /\ w \in Seq(WireByte) /\ b \in Seq(WireByte) /\ f \in Seq(WireByte)
        BY <1>1, <2>3, Typed
      <4>2. wire'[d] = w \o out /\ wbuf'[e] = stay
        BY <1>1, <1>4, <2>1, <2>10, <2>12, <3>1, Unpacked
      <4>3. Coming(d) = (r \o w) \o b /\ Coming(d)' = (r \o (w \o out)) \o stay
        BY <1>3, <1>4, <3>1, <4>2 DEF Coming
      <4> HIDE DEF r, w, b, f
      <4>4. b \o f = out \o stay
        BY <2>3 DEF b, f
      <4>5. out \in Seq(WireByte) /\ stay \in Seq(WireByte)
        BY <2>3
      <4> DEFINE x == r \o w
      <4>6. x \in Seq(WireByte) /\ r \o (w \o out) = x \o out
        <5>1. x \in Seq(WireByte)
          BY <4>1, ConcatProperties
        <5>2. r \in Seq(WireByte) /\ w \in Seq(WireByte) /\ out \in Seq(WireByte)
          BY <4>1, <4>5
        <5>3. (r \o w) \o out = r \o (w \o out)
          BY <5>2, Grouped, SMTT(30)
        <5> QED
          BY <5>1, <5>3
      <4> HIDE DEF x
      <4>7. (x \o out) \o stay = x \o (out \o stay)
        BY <4>5, <4>6, Grouped, SMTT(30)
      <4>8. (x \o b) \o f = x \o (b \o f)
        <5>1. x \in Seq(WireByte) /\ b \in Seq(WireByte) /\ f \in Seq(WireByte)
          BY <4>1, <4>6
        <5> QED
          BY <5>1, Grouped, SMTT(30)
      <4> DEFINE new == (x \o out) \o stay
                 old == (x \o b) \o f
                 y == b \o f
                 z == out \o stay
      <4>10. y = z /\ new = x \o z /\ old = x \o y
        BY <4>4, <4>7, <4>8
      <4>11. Coming(d)' = new /\ Coming(d) \o f = old
        BY <4>3, <4>6 DEF x
      <4> HIDE DEF new, old, y, z
      <4>9. Coming(d)' = Coming(d) \o f
        BY <4>10, <4>11
      <4> QED
        BY <3>1, <4>9 DEF f
    <3>2. CASE ~Alive(d)
      <4>1. wire'[d] = wire[d]
        BY <1>4, <2>10, <3>2
      <4> QED
        BY <1>3, <1>4, <3>2, <4>1 DEF Coming
    <3> QED
      BY <3>1, <3>2
  <2>13. ASSUME status[d] = "open", InTransit(d) PROVE InTransit(d)'
    <3>1. Laid(Coming(d), Due(d), Taken(d), Alive(d)) /\ FrameHeld(d)
      BY <2>13 DEF InTransit
    <3>2. Coming(d) \in Seq(WireByte) /\ Due(d) \in Seq(Seq(WireByte)) /\ Alive(d) \in BOOLEAN
      BY <2>5, ComingTyped, DueTyped DEF Alive
    <3>3. Laid(IF Alive(d) THEN Coming(d) \o Frame(p) ELSE Coming(d),
               Append(Due(d), Frame(p)), Taken(d), Alive(d))
      BY <2>3, <2>8, <3>1, <3>2, LaidAppend
    <3> QED
      BY <1>4, <2>7, <2>8, <2>9, <2>12, <2>13, <3>1, <3>3 DEF InTransit
  <2> QED
    BY <1>3, <2>6, <2>11, <2>13 DEF StreamAt
<1> QED
  BY <1>5, <1>6

(* A step that only moves the bytes of a stream.                           *)
LEMMA SameStream ==
  ASSUME NEW d \in End, StreamAt(d),
         frame'[d] = frame[d], got'[d] = got[d], sent'[Other(d)] = sent[Other(d)],
         status'[d] = status[d], Alive(d)' = Alive(d), CutBehind(d)',
         status[d] = "open" => Coming(d)' = Coming(d) /\ (Ended(d) => Ended(d)')
  PROVE  StreamAt(d)'
<1>1. Follows(d)'
  BY DEF StreamAt, Follows
<1>2. Due(d)' = Due(d) /\ Taken(d)' = Taken(d)
  BY DEF Due, Taken
<1>3. FrameHeld(d) => FrameHeld(d)'
  BY DEF FrameHeld
<1>4. ASSUME status[d] = "open", InTransit(d) PROVE InTransit(d)'
  BY <1>2, <1>3, <1>4 DEF InTransit
<1> QED
  BY <1>1, <1>4 DEF StreamAt

(* What is flushed moves from the buffer of the writer to the wire.        *)
LEMMA FlushReaches ==
  ASSUME TypeInv, NEW d \in End, FlushBuffer(Other(d)), StreamAt(d)
  PROVE  StreamAt(d)'
<1> DEFINE e == Other(d)
<1>1. e \in End /\ Other(e) = d /\ e # d
  BY OtherEnd
<1>2. /\ status[e] = "open" /\ Emit(e, wbuf[e]) /\ wbuf' = [wbuf EXCEPT ![e] = <<>>]
      /\ status' = status /\ rbuf' = rbuf /\ frame' = frame /\ broken' = broken
      /\ sent' = sent /\ got' = got
  BY DEF FlushBuffer, At
<1>3. Alive(d)' = Alive(d) /\ (Alive(d) <=> ~broken) /\ CutBehind(d)'
  BY <1>2 DEF Alive, CutBehind, StreamAt
<1>4. wire'[d] = IF broken \/ status[d] # "open" THEN wire[d] ELSE wire[d] \o wbuf[e]
  BY <1>1, <1>2, EmitTyped, Typed
<1>5. ASSUME status[d] = "open" PROVE Coming(d)' = Coming(d)
  <2>1. CASE Alive(d)
    <3> DEFINE r == rbuf[d]
               w == wire[d]
               b == wbuf[e]
    <3>1. r \in Seq(WireByte) /\ w \in Seq(WireByte) /\ b \in Seq(WireByte)
      BY <1>1, Typed
    <3>2. wire'[d] = w \o b /\ wbuf'[e] = <<>>
      BY <1>1, <1>2, <1>3, <1>4, <1>5, <2>1, Unpacked
    <3>3. Coming(d) = (r \o w) \o b /\ Coming(d)' = (r \o (w \o b)) \o <<>>
      BY <1>2, <1>3, <2>1, <3>2 DEF Coming
    <3> HIDE DEF r, w, b
    <3>4. r \o (w \o b) \in Seq(WireByte)
      BY <3>1, ConcatProperties
    <3>5. (r \o (w \o b)) \o <<>> = r \o (w \o b)
      <4> DEFINE x == r \o (w \o b)
      <4>1. x \in Seq(WireByte)
        BY <3>4
      <4> HIDE DEF x
      <4>2. x \o <<>> = x
        BY <4>1, ConcatEmptySeq
      <4> QED
        BY <4>2 DEF x
    <3>6. (r \o w) \o b = r \o (w \o b)
      BY <3>1, Grouped, SMTT(30)
    <3> DEFINE x == r \o (w \o b)
               y == (r \o w) \o b
               z == (r \o (w \o b)) \o <<>>
    <3>7. Coming(d) = y /\ Coming(d)' = z /\ y = x /\ z = x
      BY <3>3, <3>5, <3>6
    <3> HIDE DEF x, y, z
    <3> QED
      BY <3>7
  <2>2. CASE ~Alive(d)
    <3>1. wire'[d] = wire[d]
      BY <1>3, <1>4, <2>2
    <3> QED
      BY <1>2, <1>3, <2>2, <3>1 DEF Coming
  <2> QED
    BY <2>1, <2>2
<1>6. Ended(d) => Ended(d)'
  <2> SUFFICES ASSUME Ended(d) PROVE Ended(d)'
    OBVIOUS
  <2>1. broken
    BY <1>3 DEF Ended
  <2> QED
    BY <1>2, <1>3, <1>4, <2>1 DEF Ended
<1> QED
  BY <1>2, <1>3, <1>5, <1>6, SameStream

(* A piece moves from the wire to the buffer of the reader.                *)
LEMMA FillComing ==
  ASSUME TypeInv, NEW d \in End, Fill(d)
  PROVE  Alive(d)' = Alive(d) /\ CutBehind(d)' /\ ~Ended(d) /\ Coming(d)' = Coming(d)
<1>1. PICK k \in 1..Len(wire[d]) :
              /\ wire[d][k][2]
              /\ rbuf' = [rbuf EXCEPT ![d] = SubSeq(wire[d], 1, k)]
              /\ wire' = [wire EXCEPT ![d] = SubSeq(wire[d], k + 1, Len(wire[d]))]
              /\ SubSeq(wire[d], 1, k) \in Seq(WireByte) /\ Len(SubSeq(wire[d], 1, k)) = k
              /\ SubSeq(wire[d], k + 1, Len(wire[d])) \in Seq(WireByte)
              /\ SubSeq(wire[d], 1, k) \o SubSeq(wire[d], k + 1, Len(wire[d])) = wire[d]
              /\ SubSeq(wire[d], 1, k)[k] = wire[d][k]
  BY FillSplits
<1>2. /\ frame' = frame /\ got' = got /\ sent' = sent /\ status' = status /\ wbuf' = wbuf
      /\ broken' = broken /\ rbuf[d] = <<>>
  BY DEF Fill
<1>3. Alive(d)' = Alive(d)
  BY <1>2 DEF Alive
<1> DEFINE piece == SubSeq(wire[d], 1, k)
           left == SubSeq(wire[d], k + 1, Len(wire[d]))
           w == wire[d]
<1>4. rbuf'[d] = piece /\ wire'[d] = left
  BY <1>1, Unpacked
<1>5. CutBehind(d)'
  BY <1>1, <1>4 DEF CutBehind
<1>6. piece \o left = w /\ w \in Seq(WireByte)
  BY <1>1, Typed
<1>7. ~Ended(d)
  BY <1>1 DEF Ended
<1>8. Coming(d)' = Coming(d)
  <2> DEFINE last == IF Alive(d) THEN wbuf[Other(d)] ELSE <<>>
             x == <<>> \o w
             y == piece \o left
  <2>1. Coming(d) = x \o last
    BY <1>2 DEF Coming
  <2>2. Coming(d)' = y \o last
    BY <1>2, <1>3, <1>4 DEF Coming
  <2>3. y = w
    BY <1>6
  <2> HIDE DEF w
  <2>4. x = w
    BY <1>6, ConcatEmptySeq
  <2> HIDE DEF x, y, last
  <2> QED
    BY <2>1, <2>2, <2>3, <2>4
<1> QED
  BY <1>3, <1>5, <1>7, <1>8

LEMMA FillStream ==
  ASSUME TypeInv, NEW d \in End, Fill(d), StreamAt(d)
  PROVE  StreamAt(d)'
<1>1. /\ frame' = frame /\ got' = got /\ sent' = sent /\ status' = status
  BY DEF Fill
<1> QED
  BY <1>1, FillComing, SameStream

(* What is taken off the front of a stream leaves its end alone.           *)
LEMMA CutOfJoin ==
  ASSUME NEW S, NEW r \in Seq(S), NEW t \in Seq(S), NEW a \in 0..Len(r)
  PROVE  /\ SubSeq(r, a + 1, Len(r)) \o t = SubSeq(r \o t, a + 1, Len(r \o t))
         /\ a \in 0..Len(r \o t)
<1> DEFINE x == r \o t
           u == SubSeq(r, a + 1, Len(r))
           v == SubSeq(x, a + 1, Len(x))
           y == u \o t
<1>1. /\ x \in Seq(S) /\ Len(x) = Len(r) + Len(t) /\ Len(r) \in Nat /\ Len(t) \in Nat
      /\ \A i \in 1..(Len(r) + Len(t)) : x[i] = IF i <= Len(r) THEN r[i] ELSE t[i - Len(r)]
  BY LenProperties, ConcatProperties
<1> HIDE DEF x
<1>2. a \in 0..Len(x) /\ a \in Nat
  BY <1>1
<1>3. /\ u \in Seq(S) /\ Len(u) = Len(r) - a
      /\ \A i \in 1..(Len(r) - a) : u[i] = r[a + i]
  BY Cut
<1>4. /\ v \in Seq(S) /\ Len(v) = Len(x) - a
      /\ \A i \in 1..(Len(x) - a) : v[i] = x[a + i]
  BY <1>1, <1>2, Cut
<1> HIDE DEF u, v
<1>5. /\ y \in Seq(S) /\ Len(y) = Len(u) + Len(t)
      /\ \A i \in 1..(Len(u) + Len(t)) : y[i] = IF i <= Len(u) THEN u[i] ELSE t[i - Len(u)]
  BY <1>3, ConcatProperties
<1> HIDE DEF y
<1>6. Len(y) = Len(v)
  BY <1>1, <1>2, <1>3, <1>4, <1>5
<1>7. ASSUME NEW i \in 1..Len(y) PROVE y[i] = v[i]
  <2>1. a + i \in 1..Len(x) /\ v[i] = x[a + i]
    <3>1. Len(y) = Len(x) - a /\ Len(x) \in Nat
      BY <1>1, <1>2, <1>3, <1>5
    <3>2. i \in 1..(Len(x) - a) /\ i \in Nat
      BY <1>2, <3>1
    <3>3. a + i \in 1..Len(x)
      BY <1>2, <3>1, <3>2
    <3> QED
      BY <1>4, <3>2, <3>3
  <2>2. CASE i <= Len(u)
    <3>1. a + i <= Len(r) /\ i \in 1..(Len(r) - a)
      BY <1>1, <1>2, <1>3, <2>2
    <3> QED
      BY <1>1, <1>3, <1>5, <2>1, <2>2, <3>1
  <2>3. CASE ~(i <= Len(u))
    <3>1. ~(a + i <= Len(r)) /\ a + i - Len(r) = i - Len(u)
      BY <1>1, <1>2, <1>3, <2>3
    <3>2. x[a + i] = t[i - Len(u)]
      <4>1. a + i \in 1..(Len(r) + Len(t))
        BY <1>1, <2>1
      <4>2. x[a + i] = t[a + i - Len(r)]
        BY <1>1, <3>1, <4>1
      <4> QED
        BY <3>1, <4>2
    <3>3. y[i] = t[i - Len(u)]
      <4>1. i \in 1..(Len(u) + Len(t))
        BY <1>5
      <4> QED
        BY <1>5, <2>3, <4>1
    <3> QED
      BY <2>1, <3>2, <3>3
  <2> QED
    BY <2>2, <2>3
<1>8. y = v
  BY <1>4, <1>5, <1>6, <1>7, SeqEqual
<1> QED
  BY <1>2, <1>8 DEF x, y, u, v

(* A Read takes the first bytes of the stream.                             *)
LEMMA ConsumeComing ==
  ASSUME TypeInv, NEW e \in End, NEW n \in Nat, Consume(e, n),
         wire' = wire, wbuf' = wbuf, Alive(e)' = Alive(e)
  PROVE  /\ Available(e, n) \in 0..Len(Coming(e))
         /\ Coming(e)' = SubSeq(Coming(e), Available(e, n) + 1, Len(Coming(e)))
<1> DEFINE last == IF Alive(e) THEN wbuf[Other(e)] ELSE <<>>
           r == rbuf[e]
           w == wire[e]
           a == Available(e, n)
           rr == SubSeq(r, a + 1, Len(r))
           x == Coming(e)
           y == Coming(e)'
<1>1. /\ w \o last \in Seq(WireByte) /\ r \in Seq(WireByte) /\ x = r \o (w \o last)
      /\ x \in Seq(WireByte) /\ Len(r) \in Nat
  BY ComingTyped
<1>2. a \in 0..Len(r)
  BY BytesRead
<1>3. rbuf'[e] = rr
  BY ConsumeTyped
<1>4. y = (rr \o w) \o last
  BY <1>3 DEF Coming
<1>5. last \in Seq(WireByte) /\ w \in Seq(WireByte)
  <2>1. wbuf[Other(e)] \in Seq(WireByte) /\ <<>> \in Seq(WireByte)
    BY OtherEnd, Typed
  <2> QED
    BY <2>1, Typed
<1> HIDE DEF last, r, w, a, x, y
<1>6. rr \in Seq(WireByte)
  BY <1>1, <1>2, Cut
<1> DEFINE t == w \o last
<1>7. t \in Seq(WireByte) /\ x = r \o t
  BY <1>1
<1>8. y = rr \o t
  <2> HIDE DEF rr
  <2>1. rr \in Seq(WireByte) /\ w \in Seq(WireByte) /\ last \in Seq(WireByte)
    BY <1>5, <1>6
  <2> HIDE DEF t
  <2>2. (rr \o w) \o last = rr \o (w \o last)
    BY <2>1, Grouped, SMTT(30)
  <2> QED
    BY <1>4, <2>2 DEF t
<1> HIDE DEF t
<1>9. rr \o t = SubSeq(r \o t, a + 1, Len(r \o t)) /\ a \in 0..Len(r \o t)
  BY <1>1, <1>2, <1>7, CutOfJoin
<1> QED
  BY <1>7, <1>8, <1>9 DEF a, x, y

LEMMA ConsumeStream ==
  ASSUME TypeInv, NEW e \in End, NEW n \in Nat, Consume(e, n), Follows(e), CutBehind(e),
         Laid(Coming(e), Due(e), Taken(e), Alive(e)),
         wire' = wire, wbuf' = wbuf, Alive(e)' = Alive(e)
  PROVE  /\ CutBehind(e)'
         /\ Laid(Coming(e)', Due(e), Taken(e) + Available(e, n), Alive(e))
<1> DEFINE r == rbuf[e]
           a == Available(e, n)
           rr == SubSeq(r, a + 1, Len(r))
           x == Coming(e)
           y == Coming(e)'
<1>1. r \in Seq(WireByte) /\ x \in Seq(WireByte) /\ Len(r) \in Nat
  BY ComingTyped
<1>2. a \in 0..Len(r)
  BY BytesRead
<1>3. rbuf'[e] = rr
  BY ConsumeTyped
<1>4. y = SubSeq(x, a + 1, Len(x)) /\ a \in 0..Len(x)
  BY ConsumeComing
<1>5. Laid(x, Due(e), Taken(e), Alive(e))
  OBVIOUS
<1> HIDE DEF r, a, x, y
<1>6. /\ rr \in Seq(WireByte) /\ Len(rr) = Len(r) - a
      /\ \A i \in 1..(Len(r) - a) : rr[i] = r[a + i]
  BY <1>1, <1>2, Cut
<1>7. CutBehind(e)'
  <2> SUFFICES ASSUME rbuf'[e] # <<>> PROVE rbuf'[e][Len(rbuf'[e])][2]
    BY DEF CutBehind
  <2> HIDE DEF rr
  <2>1. Len(rr) \in Nat /\ Len(rr) # 0
    BY <1>3, <1>6, EmptySeq, LenProperties
  <2>2. Len(r) - a \in 1..(Len(r) - a) /\ a + (Len(r) - a) = Len(r)
    BY <1>1, <1>2, <1>6, <2>1
  <2>3. rr[Len(rr)] = r[Len(r)]
    BY <1>6, <2>2
  <2>4. r # <<>>
    <3>1. Len(r) # 0
      BY <1>1, <1>2, <2>2
    <3> QED
      BY <1>1, <3>1
  <2> QED
    BY <1>3, <2>3, <2>4 DEF CutBehind, r
<1>8. Taken(e) \in Nat
  <2>1. Len(frame[e].total) \in Nat
    BY Typed, LenProperties
  <2> QED
    BY <2>1 DEF Taken
<1>9. Due(e) \in Seq(Seq(WireByte))
  BY DueTyped
<1>10. Laid(SubSeq(x, a + 1, Len(x)), Due(e), Taken(e) + a, Alive(e))
  BY <1>1, <1>4, <1>5, <1>8, <1>9, LaidConsume
<1> QED
  BY <1>4, <1>7, <1>10 DEF a, y

(* The next bytes are those of the first frame that is due.                *)
LEMMA NextBytes ==
  ASSUME TypeInv, NEW e \in End, Follows(e), InTransit(e), rbuf[e] # <<>>
  PROVE  LET p == sent[Other(e)][Len(got[e]) + 1] IN
         /\ Len(got[e]) < Len(sent[Other(e)]) /\ p \in Fitting
         /\ \A k \in 1..Len(rbuf[e]) :
              Taken(e) + k <= Len(Frame(p)) => rbuf[e][k] = Frame(p)[Taken(e) + k]
<1> DEFINE s == sent[Other(e)]
           n == Len(got[e])
           p == s[n + 1]
           x == Coming(e)
           r == rbuf[e]
<1>1. /\ s \in Seq(Fitting) /\ n \in 0..Len(s) /\ n \in Nat /\ Len(s) \in Nat
      /\ Len(Due(e)) = Len(s) - n /\ Len(Due(e)) \in Nat /\ Due(e) = Frames(s, n)
  BY DueTyped DEF Due
<1>2. /\ x \in Seq(WireByte) /\ r \in Seq(WireByte) /\ Len(x) >= Len(r) /\ Len(r) \in Nat
      /\ Len(x) \in Nat /\ \A i \in 1..Len(r) : x[i] = r[i]
  BY ComingTyped
<1>3. Taken(e) \in Nat
  <2>1. Len(frame[e].total) \in Nat
    BY Typed, LenProperties
  <2> QED
    BY <2>1 DEF Taken
<1>4. Laid(x, Due(e), Taken(e), Alive(e))
  BY DEF InTransit
<1>5. r # <<>>
  OBVIOUS
<1> HIDE DEF x, r, s, n
<1>6. Len(r) > 0
  BY <1>2, <1>5, EmptySeq
<1>7. x # <<>>
  BY <1>2, <1>6, EmptySeq
<1>8. /\ Len(Due(e)) > 0
      /\ \A k \in 1..Len(x) : Taken(e) + k <= Len(Due(e)[1]) => x[k] = Due(e)[1][Taken(e) + k]
  <2> DEFINE fs == Due(e)
             c == Taken(e)
             whole == Alive(e)
  <2>1. /\ x \in Seq(WireByte) /\ c \in Nat /\ Laid(x, fs, c, whole) /\ Len(fs) \in Nat
        /\ x # <<>>
    BY <1>1, <1>2, <1>3, <1>4, <1>7
  <2> HIDE DEF fs, c, whole
  <2>2. /\ Len(fs) > 0
        /\ \A k \in 1..Len(x) : c + k <= Len(fs[1]) => x[k] = fs[1][c + k]
    BY <2>1, LaidFirst
  <2> QED
    BY <2>2 DEF fs, c
<1>9. n \in 0..(Len(s) - 1) /\ n < Len(s)
  BY <1>1, <1>8
<1>10. Due(e)[1] = Frame(p) /\ p \in Fitting
  BY <1>1, <1>9, FramesNext
<1> HIDE DEF p
<1>11. ASSUME NEW k \in 1..Len(r), Taken(e) + k <= Len(Frame(p))
       PROVE  r[k] = Frame(p)[Taken(e) + k]
  <2>1. k \in 1..Len(x)
    BY <1>2
  <2> QED
    BY <1>2, <1>8, <1>10, <1>11, <2>1
<1> QED
  BY <1>9, <1>10, <1>11 DEF r, s, n, p

(* The length that is read is that of the frame, for all of it has come.   *)
LEMMA LengthComes ==
  ASSUME TypeInv, ~SplitHeaders, NEW e \in End, ReadLength(e), StreamAt(e)
  PROVE  LET p == sent[Other(e)][Len(got[e]) + 1] IN
         /\ Follows(e) /\ CutBehind(e) /\ InTransit(e)
         /\ Taken(e) = 0 /\ Available(e, 2) = 2 /\ Len(got[e]) < Len(sent[Other(e)])
         /\ frame'[e].at = "flag" /\ frame'[e].need = Len(Body(p))
         /\ pc' = pc /\ status' = status
<1> DEFINE p == sent[Other(e)][Len(got[e]) + 1]
           l == Bytes(e, 2) \o <<0, 0>>
           need == l[1] + Base * l[2]
<1>1. /\ Reading(e) /\ frame[e].at = "length" /\ rbuf[e] # <<>> /\ Consume(e, 2)
      /\ wbuf' = wbuf /\ wire' = wire /\ broken' = broken /\ sent' = sent /\ got' = got
  BY DEF ReadLength
<1>2. Follows(e) /\ CutBehind(e) /\ InTransit(e)
  BY <1>1, ReadingTyped DEF StreamAt, Ended
<1>3. FrameHeld(e) /\ frame[e] = NoFrame /\ Taken(e) = 0
  BY <1>1, <1>2 DEF InTransit, FrameHeld, Taken
<1>4. /\ Len(got[e]) < Len(sent[Other(e)]) /\ p \in Fitting
      /\ \A k \in 1..Len(rbuf[e]) : 0 + k <= Len(Frame(p)) => rbuf[e][k] = Frame(p)[0 + k]
  BY <1>1, <1>2, <1>3, NextBytes
<1> HIDE DEF p
<1>5. /\ Len(Frame(p)) = 3 + Len(Body(p)) /\ Len(Body(p)) \in 0..MaxMsgSize
      /\ Frame(p)[1][1] + Base * Frame(p)[2][1] = Len(Body(p))
      /\ ~Frame(p)[1][2]
  BY <1>4, FrameShape
<1>6. Len(rbuf[e]) \in Nat /\ Len(rbuf[e]) # 0
  BY <1>1, Typed, LenProperties, EmptySeq
<1>7. Len(Body(p)) \in Nat
  BY <1>5, ConstantsAssumption
<1>8. rbuf[e][1] = Frame(p)[1]
  <2>1. 1 \in 1..Len(rbuf[e]) /\ 0 + 1 = 1 /\ 0 + 1 <= Len(Frame(p))
    BY <1>5, <1>6, <1>7
  <2> QED
    BY <1>4, <2>1
<1>9. Len(rbuf[e]) # 1
  BY <1>1, <1>2, <1>5, <1>8 DEF CutBehind
<1>10. Len(rbuf[e]) >= 2 /\ rbuf[e][2] = Frame(p)[2]
  <2>1. Len(rbuf[e]) >= 2
    <3> DEFINE m == Len(rbuf[e])
    <3>1. m \in Nat /\ m # 0 /\ m # 1
      BY <1>6, <1>9
    <3> HIDE DEF m
    <3>2. m >= 2
      BY <3>1
    <3> QED
      BY <3>2 DEF m
  <2>2. 2 \in 1..Len(rbuf[e]) /\ 0 + 2 = 2 /\ 0 + 2 <= Len(Frame(p))
    BY <1>5, <1>6, <1>7, <2>1
  <2> QED
    BY <1>4, <2>1, <2>2
<1>11. need = Len(Body(p))
  <2>1. l[1] = rbuf[e][1][1] /\ l[2] = rbuf[e][2][1]
    BY <1>10, LengthRead
  <2>2. l[1] = Frame(p)[1][1] /\ l[2] = Frame(p)[2][1]
    BY <1>8, <1>10, <2>1
  <2> HIDE DEF l
  <2> QED
    BY <1>5, <2>2
<1>12. Available(e, 2) = 2
  BY <1>6, <1>10 DEF Available
<1> HIDE DEF need
<1>13. ~(need > MaxMsgSize)
  BY <1>5, <1>7, <1>11, ConstantsAssumption
<1>14. frame' = [frame EXCEPT ![e].at = "flag", ![e].need = need] /\ pc' = pc /\ status' = status
  BY <1>13 DEF ReadLength, need
<1>15. frame'[e].at = "flag" /\ frame'[e].need = need
  BY <1>14, Typed DEF Locals
<1> QED
  BY <1>2, <1>3, <1>4, <1>11, <1>12, <1>14, <1>15 DEF p

LEMMA ReadLengthStream ==
  ASSUME TypeInv, TypeInv', ~SplitHeaders, NEW e \in End, ReadLength(e), StreamAt(e)
  PROVE  StreamAt(e)'
<1> DEFINE p == sent[Other(e)][Len(got[e]) + 1]
<1>1. /\ Consume(e, 2) /\ 2 \in Nat
      /\ wbuf' = wbuf /\ wire' = wire /\ broken' = broken /\ sent' = sent /\ got' = got
  BY DEF ReadLength
<1>2. /\ Follows(e) /\ CutBehind(e) /\ InTransit(e)
      /\ Taken(e) = 0 /\ Available(e, 2) = 2 /\ Len(got[e]) < Len(sent[Other(e)])
      /\ frame'[e].at = "flag" /\ frame'[e].need = Len(Body(p))
      /\ pc' = pc /\ status' = status
  BY LengthComes
<1>3. Alive(e)' = Alive(e) /\ Due(e)' = Due(e) /\ Taken(e)' = 2 /\ Follows(e)'
  BY <1>1, <1>2 DEF Alive, Due, Taken, Follows
<1>4. FrameHeld(e)'
  BY <1>1, <1>2 DEF FrameHeld
<1>5. CutBehind(e)' /\ Laid(Coming(e)', Due(e), 0 + 2, Alive(e))
  <2>1. CutBehind(e)' /\ Laid(Coming(e)', Due(e), Taken(e) + Available(e, 2), Alive(e))
    BY <1>1, <1>2, <1>3, ConsumeStream DEF InTransit
  <2> QED
    BY <1>2, <2>1
<1>6. InTransit(e)'
  BY <1>3, <1>4, <1>5 DEF InTransit
<1> QED
  BY <1>3, <1>5, <1>6 DEF StreamAt

(* The flag that is read is that of the frame.                             *)
LEMMA ReadFlagStream ==
  ASSUME TypeInv, TypeInv', NEW e \in End, ReadFlag(e), StreamAt(e)
  PROVE  StreamAt(e)'
<1> DEFINE p == sent[Other(e)][Len(got[e]) + 1]
           set == (Bytes(e, 1)[1] = 1)
<1>1. /\ Reading(e) /\ frame[e].at = "flag" /\ rbuf[e] # <<>> /\ Consume(e, 1)
      /\ wbuf' = wbuf /\ wire' = wire /\ broken' = broken /\ sent' = sent /\ got' = got
      /\ status' = status
      /\ frame' = [frame EXCEPT ![e].at = "body", ![e].compressed = set]
  BY DEF ReadFlag
<1>2. Follows(e) /\ CutBehind(e) /\ InTransit(e)
  BY <1>1, ReadingTyped DEF StreamAt, Ended
<1>3. FrameHeld(e) /\ Taken(e) = 2 /\ frame[e].need = Len(Body(p))
  BY <1>1, <1>2 DEF InTransit, FrameHeld, Taken
<1>4. /\ Len(got[e]) < Len(sent[Other(e)]) /\ p \in Fitting
      /\ \A k \in 1..Len(rbuf[e]) : 2 + k <= Len(Frame(p)) => rbuf[e][k] = Frame(p)[2 + k]
  BY <1>1, <1>2, <1>3, NextBytes
<1> HIDE DEF p
<1>5. /\ Len(Frame(p)) = 3 + Len(Body(p)) /\ Len(Body(p)) \in Nat
      /\ Frame(p)[3][1] = IF IsCompressed(p) THEN 1 ELSE 0
  BY <1>4, FrameShape, ConstantsAssumption
<1>6. Len(rbuf[e]) \in Nat /\ Len(rbuf[e]) # 0
  BY <1>1, Typed, LenProperties, EmptySeq
<1>7. rbuf[e][1] = Frame(p)[3]
  <2>1. 1 \in 1..Len(rbuf[e]) /\ 2 + 1 = 3 /\ 2 + 1 <= Len(Frame(p))
    BY <1>5, <1>6
  <2> QED
    BY <1>4, <2>1
<1>8. Available(e, 1) = 1
  BY <1>6 DEF Available
<1>9. Bytes(e, 1)[1] = rbuf[e][1][1]
  BY <1>8, BytesRead
<1>10. set = IsCompressed(p)
  <2>1. IsCompressed(p) \in BOOLEAN
    BY DEF IsCompressed
  <2> QED
    BY <1>5, <1>7, <1>9, <2>1
<1> HIDE DEF set
<1>11. /\ frame'[e].at = "body" /\ frame'[e].compressed = set
       /\ frame'[e].need = frame[e].need /\ frame'[e].total = frame[e].total
  BY <1>1, Typed DEF Locals
<1>12. frame'[e].total = <<>>
  BY <1>1, <1>11, Unpacked
<1>13. Alive(e)' = Alive(e) /\ Due(e)' = Due(e) /\ Taken(e)' = 3 /\ Follows(e)'
  <2>1. Taken(e)' = 3
    BY <1>11, <1>12 DEF Taken
  <2> QED
    BY <1>1, <1>2, <2>1 DEF Alive, Due, Follows
<1>14. FrameHeld(e)'
  <2>1. p' = p /\ Len(got'[e]) < Len(sent'[Other(e)])
    BY <1>1, <1>4 DEF p
  <2>2. frame'[e].need = Len(Body(p)) /\ frame'[e].compressed = IsCompressed(p)
    BY <1>3, <1>10, <1>11
  <2>3. \A k \in 1..Len(frame'[e].total) : frame'[e].total[k] = Body(p)[k]
    BY <1>12
  <2>4. p = sent'[Other(e)][Len(got'[e]) + 1]
    BY <1>1 DEF p
  <2> HIDE DEF p
  <2> QED
    BY <1>11, <2>1, <2>2, <2>3, <2>4 DEF FrameHeld
<1>15. CutBehind(e)' /\ Laid(Coming(e)', Due(e), 2 + 1, Alive(e))
  BY <1>1, <1>2, <1>3, <1>8, <1>13, ConsumeStream DEF InTransit
<1>16. InTransit(e)'
  BY <1>13, <1>14, <1>15 DEF InTransit
<1> QED
  BY <1>13, <1>15, <1>16 DEF StreamAt

(* What has been read of a body is the start of it.                        *)
LEMMA BodyStart ==
  ASSUME TypeInv, NEW e \in End, Follows(e), InTransit(e), frame[e].at = "body"
  PROVE  LET p == sent[Other(e)][Len(got[e]) + 1]
             rest == frame[e].need - Len(frame[e].total)
             total == frame[e].total \o Bytes(e, rest)
         IN  /\ Len(got[e]) < Len(sent[Other(e)]) /\ p \in Fitting
             /\ frame[e].need = Len(Body(p)) /\ frame[e].compressed = IsCompressed(p)
             /\ Len(total) <= Len(Body(p))
             /\ \A i \in 1..Len(total) : total[i] = Body(p)[i]
             /\ Taken(e) + Available(e, rest) = 3 + Len(total)
<1> DEFINE n == Len(got[e])
           s == sent[Other(e)]
           p == s[n + 1]
           old == frame[e].total
           rest == frame[e].need - Len(old)
           a == Available(e, rest)
           total == old \o Bytes(e, rest)
           r == rbuf[e]
<1>1. /\ n < Len(s) /\ frame[e].need = Len(Body(p)) /\ frame[e].compressed = IsCompressed(p)
      /\ \A k \in 1..Len(old) : old[k] = Body(p)[k]
  BY DEF InTransit, FrameHeld
<1>2. p \in Fitting
  <2>1. s \in Seq(Fitting) /\ n \in Nat /\ Len(s) \in Nat
    BY DueTyped
  <2> HIDE DEF s, n
  <2>2. n + 1 \in 1..Len(s)
    BY <1>1, <2>1
  <2> QED
    BY <2>1, <2>2, ElementOfSeq
<1>3. Len(Frame(p)) = 3 + Len(Body(p)) /\ Len(Body(p)) \in Nat
      /\ \A k \in 1..Len(Body(p)) : Frame(p)[3 + k][1] = Body(p)[k]
  BY <1>2, FrameShape, ConstantsAssumption
<1>4. /\ rest \in Nat /\ Len(total) = Len(old) + a /\ Len(total) <= frame[e].need
      /\ \A i \in 1..Len(total) :
           total[i] = IF i <= Len(old) THEN old[i] ELSE r[i - Len(old)][1]
  BY BodyRead
<1>5. a \in 0..rest /\ a \in 0..Len(r) /\ Len(old) \in Nat /\ Len(r) \in Nat
  BY <1>4, BytesRead, Typed, LenProperties
<1>6. Taken(e) = 3 + Len(old)
  BY DEF Taken
<1>7. r # <<>> => \A k \in 1..Len(r) :
                    (3 + Len(old)) + k <= Len(Frame(p)) => r[k] = Frame(p)[(3 + Len(old)) + k]
  BY <1>6, NextBytes
<1>8. Len(r) # 0 => r # <<>>
  OBVIOUS
<1> HIDE DEF n, s, p, old, rest, a, total, r
<1>9. ASSUME NEW i \in 1..Len(total) PROVE total[i] = Body(p)[i]
  <2>1. i \in 1..Len(Body(p))
    BY <1>1, <1>3, <1>4, <1>5
  <2>2. CASE i <= Len(old)
    <3>1. i \in 1..Len(old)
      BY <1>5, <2>2
    <3> QED
      BY <1>1, <1>4, <2>2, <3>1
  <2>3. CASE ~(i <= Len(old))
    <3> DEFINE k == i - Len(old)
    <3>1. k \in 1..Len(r) /\ (3 + Len(old)) + k = 3 + i /\ Len(r) # 0
      BY <1>4, <1>5, <2>3
    <3>2. (3 + Len(old)) + k <= Len(Frame(p))
      BY <1>3, <2>1, <3>1
    <3>3. total[i] = r[k][1]
      BY <1>4, <2>3
    <3> HIDE DEF k
    <3>4. r[k] = Frame(p)[3 + i]
      BY <1>7, <1>8, <3>1, <3>2
    <3> QED
      BY <1>3, <2>1, <3>3, <3>4
  <2> QED
    BY <2>2, <2>3
<1>10. 3 + Len(old) + a = 3 + Len(total)
  BY <1>4, <1>5
<1>11. Len(total) <= Len(Body(p))
  BY <1>1, <1>4
<1> QED
  BY <1>1, <1>2, <1>6, <1>9, <1>10, <1>11 DEF n, s, p, old, rest, a, total

(* The body that is read to its end gives the payload back.                *)
LEMMA ReadBodyStream ==
  ASSUME TypeInv, TypeInv', NEW e \in End, ReadBody(e), StreamAt(e)
  PROVE  StreamAt(e)'
<1> DEFINE s == sent[Other(e)]
           n == Len(got[e])
           p == s[n + 1]
           rest == frame[e].need - Len(frame[e].total)
           total == frame[e].total \o Bytes(e, rest)
           payload == IF frame[e].compressed /\ Len(total) = 2 THEN Decompress(total) ELSE total
           want == script[e][pc[e]].want
<1>1. /\ Reading(e) /\ frame[e].at = "body" /\ Consume(e, rest)
      /\ wbuf' = wbuf /\ wire' = wire /\ broken' = broken /\ sent' = sent
  BY DEF ReadBody
<1>2. Follows(e) /\ CutBehind(e) /\ InTransit(e) /\ FrameHeld(e)
  BY <1>1, NoFrameTyped, ReadingTyped DEF StreamAt, Ended, InTransit
<1>3. /\ n < Len(s) /\ p \in Fitting
      /\ frame[e].need = Len(Body(p)) /\ frame[e].compressed = IsCompressed(p)
      /\ Len(total) <= Len(Body(p))
      /\ \A i \in 1..Len(total) : total[i] = Body(p)[i]
      /\ Taken(e) + Available(e, rest) = 3 + Len(total)
  BY <1>1, <1>2, BodyStart
<1>4. rest \in Nat /\ total \in Seq(Byte)
  BY BodyRead
<1>5. p \in Payload /\ Body(p) \in Seq(Byte) /\ Len(Frame(p)) = 3 + Len(Body(p))
  BY <1>3, FrameShape DEF Fitting
<1>6. status'[Other(e)] = status[Other(e)] /\ Alive(e)' = Alive(e)
  <2>1. CASE Error(e)
    <3>1. Other(e) \in End /\ Other(e) # e
      BY OtherEnd
    <3>2. status'[Other(e)] = status[Other(e)]
      BY <1>1, <2>1, <3>1, ErrorTyped
    <3> QED
      BY <1>1, <3>2 DEF Alive
  <2>2. CASE ~Error(e)
    <3>1. status' = status
      BY <2>2 DEF ReadBody
    <3> QED
      BY <1>1, <3>1 DEF Alive
  <2> QED
    BY <2>1, <2>2
<1>7. CutBehind(e)' /\ Laid(Coming(e)', Due(e), 3 + Len(total), Alive(e))
  <2>1. CutBehind(e)' /\ Laid(Coming(e)', Due(e), Taken(e) + Available(e, rest), Alive(e))
    BY <1>1, <1>2, <1>4, <1>6, ConsumeStream DEF InTransit
  <2> QED
    BY <1>3, <2>1
<1>8. s \in Seq(Fitting) /\ n \in Nat /\ Len(s) \in Nat /\ n \in 0..(Len(s) - 1)
  BY <1>2, <1>3, DueTyped
<1>9. CASE Complete(e, total)
  <2>1. Len(total) = Len(Body(p)) /\ got' = [got EXCEPT ![e] = Append(@, payload)]
    BY <1>3, <1>9 DEF ReadBody, Complete
  <2>2. payload = p
    <3>1. total = Body(p)
      <4> HIDE DEF total, p
      <4> QED
        BY <1>3, <1>4, <1>5, <2>1, SeqEqual
    <3> HIDE DEF total, p
    <3> QED
      BY <1>3, <1>5, <3>1, BodyGivesBack
  <2>3. frame'[e] = NoFrame
    <3>1. CASE want = Anything \/ payload \in want
      <4>1. frame' = [frame EXCEPT ![e] = NoFrame]
        BY <1>9, <3>1 DEF ReadBody
      <4> QED
        BY <4>1, Unpacked
    <3>2. CASE ~(want = Anything \/ payload \in want)
      <4>1. Error(e)
        BY <1>9, <3>2 DEF ReadBody
      <4> QED
        BY <1>1, <4>1, ErrorTyped
    <3> QED
      BY <3>1, <3>2
  <2>4. /\ got'[e] = Append(got[e], p) /\ Len(got'[e]) = n + 1
        /\ \A i \in 1..n : got'[e][i] = got[e][i]
        /\ got'[e][n + 1] = p
    <3>1. got[e] \in Seq(Seq(Byte)) /\ p \in Seq(Byte)
      BY <1>5, Typed DEF Payload
    <3>2. got'[e] = Append(got[e], p)
      BY <2>1, <2>2, Unpacked
    <3> HIDE DEF p
    <3> QED
      BY <3>1, <3>2, AppendProperties
  <2>5. Follows(e)'
    <3>1. Len(got'[e]) <= Len(s)
      BY <1>8, <2>4
    <3>2. ASSUME NEW i \in 1..Len(got'[e]) PROVE got'[e][i] = s[i]
      <4>1. CASE i = n + 1
        BY <2>4, <4>1
      <4>2. CASE i # n + 1
        <5>1. i \in 1..n
          BY <1>8, <2>4, <4>2
        <5> QED
          BY <1>2, <2>4, <5>1 DEF Follows
      <4> QED
        BY <4>1, <4>2
    <3> QED
      BY <1>1, <3>1, <3>2 DEF Follows
  <2>6. FrameHeld(e)' /\ Taken(e)' = 0
    BY <2>3, NoFrameTyped DEF FrameHeld, Taken
  <2>7. Due(e)' = Tail(Due(e)) /\ Due(e) # <<>> /\ Due(e)[1] = Frame(p)
    <3>1. Due(e) = Frames(s, n) /\ Due(e)' = Frames(s, n + 1)
      BY <1>1, <2>4 DEF Due
    <3> QED
      BY <1>8, <3>1, FramesNext
  <2>8. Laid(Coming(e)', Tail(Due(e)), 0, Alive(e))
    <3>1. Due(e) \in Seq(Seq(WireByte))
      BY <1>2, DueTyped
    <3>2. 3 + Len(total) = Len(Due(e)[1])
      BY <1>5, <2>1, <2>7
    <3> HIDE DEF total
    <3> QED
      BY <1>7, <2>7, <3>1, <3>2, LaidNext
  <2>9. InTransit(e)'
    BY <1>6, <2>6, <2>7, <2>8 DEF InTransit
  <2> QED
    BY <1>7, <2>5, <2>9 DEF StreamAt
<1>10. CASE ~Complete(e, total)
  <2>1. frame' = [frame EXCEPT ![e].total = total] /\ got' = got /\ status' = status
    BY <1>10 DEF ReadBody
  <2> HIDE DEF total, p
  <2>2. /\ frame'[e].at = "body" /\ frame'[e].total = total
        /\ frame'[e].need = frame[e].need /\ frame'[e].compressed = frame[e].compressed
    BY <1>1, <2>1, Typed DEF Locals
  <2>3. Follows(e)' /\ Due(e)' = Due(e) /\ Taken(e)' = 3 + Len(total)
    BY <1>1, <1>2, <2>1, <2>2 DEF Follows, Due, Taken
  <2>4. FrameHeld(e)'
    BY <1>1, <1>3, <2>1, <2>2 DEF FrameHeld, p
  <2>5. InTransit(e)'
    BY <1>6, <1>7, <2>3, <2>4 DEF InTransit
  <2> QED
    BY <1>7, <2>3, <2>5 DEF StreamAt
<1> QED
  BY <1>9, <1>10

(* An error of the connection comes when everything has been read.         *)
LEMMA ReadFailsStream ==
  ASSUME TypeInv, NEW e \in End, ReadFails(e), StreamAt(e)
  PROVE  StreamAt(e)'
<1>1. /\ Reading(e) /\ rbuf[e] = <<>> /\ wire[e] = <<>> /\ Error(e)
      /\ broken \/ status[Other(e)] # "open"
      /\ wbuf' = wbuf /\ wire' = wire /\ rbuf' = rbuf /\ broken' = broken
      /\ sent' = sent /\ got' = got
  BY DEF ReadFails
<1>2. frame'[e] = NoFrame /\ status'[Other(e)] = status[Other(e)]
  BY <1>1, OtherEnd, ErrorTyped
<1>3. Ended(e)'
  BY <1>1, <1>2 DEF Ended, Alive
<1>4. Follows(e)' /\ CutBehind(e)'
  BY <1>1 DEF StreamAt, Follows, CutBehind
<1> QED
  BY <1>3, <1>4 DEF StreamAt

(* A step of one end and the stream to the other.                          *)
LEMMA ReadingElsewhere ==
  ASSUME TypeInv, NEW e \in End, NEW d \in End, d # e,
         Fill(e) \/ ReadLength(e) \/ ReadFlag(e) \/ ReadBody(e) \/ ReadFails(e)
  PROVE  /\ Reading(e) /\ sent' = sent /\ wbuf' = wbuf /\ broken' = broken
         /\ rbuf'[d] = rbuf[d] /\ wire'[d] = wire[d] /\ frame'[d] = frame[d]
         /\ status'[d] = status[d] /\ got'[d] = got[d] /\ pc'[d] = pc[d]
<1>1. /\ Reading(e) /\ sent' = sent /\ wbuf' = wbuf /\ broken' = broken
  BY DEF Fill, ReadLength, ReadFlag, ReadBody, ReadFails
<1>2. /\ rbuf'[d] = rbuf[d] /\ wire'[d] = wire[d] /\ frame'[d] = frame[d]
      /\ status'[d] = status[d] /\ got'[d] = got[d] /\ pc'[d] = pc[d]
  <2>0. Error(e) => pc'[d] = pc[d]
    BY Unpacked DEF Error, Leave, GoTo
  <2>1. Error(e) => frame'[d] = frame[d] /\ status'[d] = status[d] /\ pc'[d] = pc[d]
    BY <1>1, <2>0, ErrorTyped, Unpacked
  <2>2. CASE Fill(e)
    BY <2>2, Unpacked DEF Fill
  <2>3. CASE ReadLength(e)
    <3>1. wire' = wire /\ got' = got /\ Consume(e, 2)
      BY <2>3 DEF ReadLength
    <3>2. frame'[d] = frame[d] /\ status'[d] = status[d] /\ pc'[d] = pc[d]
      BY <2>1, <2>3, Unpacked DEF ReadLength
    <3> QED
      BY <3>1, <3>2, ConsumeTyped
  <2>4. CASE ReadFlag(e)
    <3>1. wire' = wire /\ got' = got /\ Consume(e, 1) /\ status' = status /\ pc' = pc
      BY <2>4 DEF ReadFlag
    <3>2. frame'[d] = frame[d]
      BY <2>4, Unpacked DEF ReadFlag
    <3> QED
      BY <3>1, <3>2, ConsumeTyped
  <2>5. CASE ReadBody(e)
    <3>1. wire' = wire /\ Consume(e, frame[e].need - Len(frame[e].total))
      BY <2>5 DEF ReadBody
    <3>2. frame[e].need - Len(frame[e].total) \in Nat
      BY Typed
    <3>3. frame'[d] = frame[d] /\ status'[d] = status[d] /\ pc'[d] = pc[d]
      <4>1. GoTo(e, pc[e] + 1) => pc'[d] = pc[d]
        BY Unpacked DEF GoTo
      <4>2. CASE Error(e)
        BY <2>1, <4>2
      <4>3. CASE ~Error(e)
        <5>1. status' = status /\ (pc' = pc \/ GoTo(e, pc[e] + 1))
          BY <2>5, <4>3 DEF ReadBody
        <5>2. frame'[d] = frame[d]
          BY <2>5, <4>3, Unpacked DEF ReadBody
        <5> QED
          BY <4>1, <5>1, <5>2
      <4> QED
        BY <4>2, <4>3
    <3>4. got'[d] = got[d]
      BY <2>5, Unpacked DEF ReadBody
    <3> QED
      BY <3>1, <3>2, <3>3, <3>4, ConsumeTyped
  <2>6. CASE ReadFails(e)
    BY <2>1, <2>6 DEF ReadFails
  <2> QED
    BY <2>2, <2>3, <2>4, <2>5, <2>6
<1> QED
  BY <1>1, <1>2

LEMMA ReadingStays ==
  ASSUME TypeInv, TypeInv', NEW e \in End, NEW d \in End, d # e, StreamAt(d),
         Fill(e) \/ ReadLength(e) \/ ReadFlag(e) \/ ReadBody(e) \/ ReadFails(e)
  PROVE  StreamAt(d)'
<1>1. /\ Reading(e) /\ sent' = sent /\ wbuf' = wbuf /\ broken' = broken
      /\ rbuf'[d] = rbuf[d] /\ wire'[d] = wire[d] /\ frame'[d] = frame[d]
      /\ status'[d] = status[d] /\ got'[d] = got[d]
  BY ReadingElsewhere
<1>2. status[e] = "open" /\ Other(d) = e
  BY <1>1, OtherEnd, ReadingTyped
<1>3. Alive(d)' => Alive(d) /\ wbuf'[Other(d)] = wbuf[Other(d)]
  BY <1>1, <1>2 DEF Alive
<1> QED
  BY <1>1, <1>3, StillInTransit

LEMMA WritingElsewhere ==
  ASSUME TypeInv, NEW e \in End, WriteBytes(e) \/ FlushBuffer(e)
  PROVE  /\ status' = status /\ rbuf' = rbuf /\ frame' = frame /\ broken' = broken
         /\ got' = got /\ wire'[e] = wire[e]
         /\ sent'[Other(e)] = sent[Other(e)] /\ wbuf'[Other(e)] = wbuf[Other(e)]
<1>1. Other(e) \in End /\ Other(e) # e
  BY OtherEnd
<1>2. /\ status' = status /\ rbuf' = rbuf /\ frame' = frame /\ broken' = broken /\ got' = got
  BY DEF WriteBytes, FlushBuffer
<1>3. wire'[e] = wire[e]
  <2>1. \/ wire' = wire
        \/ \E bytes : wire' = [wire EXCEPT ![Other(e)] = bytes]
    <3>1. CASE FlushBuffer(e)
      BY <3>1, Zenon DEF FlushBuffer, Emit
    <3>2. CASE WriteBytes(e)
      <4>1. wire' = wire \/ \E bytes : Emit(e, bytes)
        BY <3>2 DEF WriteBytes
      <4> QED
        BY <4>1, Zenon DEF Emit
    <3> QED
      BY <3>1, <3>2
  <2> QED
    BY <1>1, <2>1, Unpacked
<1>4. sent'[Other(e)] = sent[Other(e)] /\ wbuf'[Other(e)] = wbuf[Other(e)]
  <2>1. CASE FlushBuffer(e)
    BY <1>1, <2>1, Unpacked DEF FlushBuffer
  <2>2. CASE WriteBytes(e)
    <3>1. \/ wbuf' = wbuf /\ sent' = sent
          \/ \E stay, p : wbuf' = [wbuf EXCEPT ![e] = stay]
                          /\ sent' = [sent EXCEPT ![e] = Append(@, p)]
      BY <2>2 DEF WriteBytes
    <3> QED
      BY <1>1, <3>1, Unpacked
  <2> QED
    BY <2>1, <2>2
<1> QED
  BY <1>2, <1>3, <1>4

LEMMA WritingStays ==
  ASSUME TypeInv, TypeInv', NEW e \in End, StreamAt(e), WriteBytes(e) \/ FlushBuffer(e)
  PROVE  StreamAt(e)'
<1>1. /\ status' = status /\ rbuf' = rbuf /\ frame' = frame /\ broken' = broken
      /\ got' = got /\ wire'[e] = wire[e]
      /\ sent'[Other(e)] = sent[Other(e)] /\ wbuf'[Other(e)] = wbuf[Other(e)]
  BY WritingElsewhere
<1>2. Alive(e)' = Alive(e)
  BY <1>1 DEF Alive
<1> QED
  BY <1>1, <1>2, StillInTransit

(* A call on a file sends and receives nothing; an error may end it all.   *)
LEMMA UseFileStream ==
  ASSUME TypeInv, TypeInv', NEW e \in End, NEW d \in End, StreamAt(d), UseFile(e)
  PROVE  StreamAt(d)'
<1>1. /\ wire' = wire /\ rbuf' = rbuf /\ broken' = broken /\ frame' = frame
      /\ wbuf' = wbuf /\ sent' = sent /\ got' = got /\ At(e, "local")
      /\ status' = status \/ Leave(e)
  BY DEF UseFile
<1>2. \A i \in End : status'[i] = "open" => status[i] = "open"
  <2>1. Leave(e) => status[e] = "open" /\ \A i \in End : i # e => status'[i] = status[i]
    BY <1>1, LeaveTyped
  <2> QED
    BY <1>1, <2>1
<1>3. Other(d) \in End
  BY OtherEnd
<1>4. Alive(d)' => Alive(d)
  BY <1>1, <1>2, <1>3 DEF Alive
<1> QED
  BY <1>1, <1>2, <1>4, StillInTransit

LEMMA CloseStream ==
  ASSUME TypeInv, TypeInv', NEW e \in End, NEW d \in End, StreamAt(d), Close(e)
  PROVE  StreamAt(d)'
<1>1. /\ wire' = wire /\ rbuf' = rbuf /\ broken' = broken /\ frame' = frame
      /\ sent' = sent /\ got' = got
      /\ status' = [status EXCEPT ![e] = "ok"] /\ wbuf' = [wbuf EXCEPT ![e] = <<>>]
  BY DEF Close
<1>2. \A i \in End : status'[i] = IF i = e THEN "ok" ELSE status[i]
  BY <1>1, Unpacked
<1>3. \A i \in End : i # e => wbuf'[i] = wbuf[i]
  BY <1>1, Unpacked
<1>4. Other(d) \in End
  BY OtherEnd
<1>5. Alive(d)' => Alive(d) /\ wbuf'[Other(d)] = wbuf[Other(d)]
  BY <1>1, <1>2, <1>3, <1>4 DEF Alive
<1>6. status'[d] = "open" => status[d] = "open"
  BY <1>2
<1> QED
  BY <1>1, <1>5, <1>6, StillInTransit

LEMMA BreakStream ==
  ASSUME TypeInv, TypeInv', NEW d \in End, StreamAt(d), Break
  PROVE  StreamAt(d)'
<1>1. /\ status' = status /\ wbuf' = wbuf /\ rbuf' = rbuf /\ frame' = frame
      /\ sent' = sent /\ got' = got
      /\ broken' = TRUE /\ wire' = [e \in End |-> <<>>]
  BY DEF Break
<1>2. wire'[d] = <<>> /\ ~Alive(d)'
  BY <1>1 DEF Alive
<1> QED
  BY <1>1, <1>2, StillInTransit

(* Every step keeps both streams.                                          *)
LEMMA StreamStep ==
  ASSUME ~SplitHeaders, TypeInv, TypeInv', StreamInv, [Next]_vars
  PROVE  StreamInv'
<1> SUFFICES ASSUME NEW d \in End PROVE StreamAt(d)'
  BY DEF StreamInv
<1>1. StreamAt(d)
  BY DEF StreamInv
<1>2. CASE UNCHANGED vars
  <2>1. /\ status' = status /\ wbuf' = wbuf /\ rbuf' = rbuf /\ frame' = frame
        /\ sent' = sent /\ got' = got /\ broken' = broken /\ wire' = wire
    BY <1>2 DEF vars
  <2> QED
    BY <1>1, <2>1, StillInTransit DEF Alive
<1>3. CASE Break
  BY <1>1, <1>3, BreakStream
<1>4. ASSUME NEW e \in End, Step(e) PROVE StreamAt(d)'
  <2>1. CASE d = e
    <3>1. CASE WriteBytes(e) \/ FlushBuffer(e)
      BY <1>1, <2>1, <3>1, WritingStays
    <3>2. CASE Fill(e)
      BY <1>1, <2>1, <3>2, FillStream
    <3>3. CASE ReadLength(e)
      BY <1>1, <2>1, <3>3, ReadLengthStream
    <3>4. CASE ReadFlag(e)
      BY <1>1, <2>1, <3>4, ReadFlagStream
    <3>5. CASE ReadBody(e)
      BY <1>1, <2>1, <3>5, ReadBodyStream
    <3>6. CASE ReadFails(e)
      BY <1>1, <2>1, <3>6, ReadFailsStream
    <3>7. CASE Close(e)
      BY <1>1, <2>1, <3>7, CloseStream
    <3>8. CASE UseFile(e)
      BY <1>1, <3>8, UseFileStream
    <3> QED
      BY <1>4, <3>1, <3>2, <3>3, <3>4, <3>5, <3>6, <3>7, <3>8 DEF Step
  <2>2. CASE d # e
    <3>1. e = Other(d)
      BY <2>2, OtherEnd
    <3>2. CASE WriteBytes(e)
      BY <1>1, <3>1, <3>2, WriteReaches
    <3>3. CASE FlushBuffer(e)
      BY <1>1, <3>1, <3>3, FlushReaches
    <3>4. CASE Fill(e) \/ ReadLength(e) \/ ReadFlag(e) \/ ReadBody(e) \/ ReadFails(e)
      BY <1>1, <2>2, <3>4, ReadingStays
    <3>5. CASE Close(e)
      BY <1>1, <3>5, CloseStream
    <3>6. CASE UseFile(e)
      BY <1>1, <3>6, UseFileStream
    <3> QED
      BY <1>4, <3>2, <3>3, <3>4, <3>5, <3>6 DEF Step
  <2> QED
    BY <2>1, <2>2
<1> QED
  BY <1>2, <1>3, <1>4 DEF Next

(* Whatever the buffers and the pieces of the connection are, and however  *)
(* many and however large the blobs, the payloads that ReadBytes returns   *)
(* are those that WriteBytes was given, none missing, repeated or cut, in  *)
(* their order: unless a piece ends inside a length, which ReadBytes takes *)
(* for whole after a single Read.                                          *)
THEOREM FramesInOrder ==
  ASSUME SplitHeaders = FALSE
  PROVE  FairSpec => []FramesArrive
<1>1. TypeInv /\ [Next]_vars => TypeInv'
  BY StepTyped
<1>2. TypeInv /\ TypeInv' /\ StreamInv /\ [Next]_vars => StreamInv'
  BY StreamStep
<1>3. TypeInv /\ StreamInv => FramesArrive
  <2> SUFFICES ASSUME TypeInv, StreamInv, NEW e \in End PROVE IsPrefix(got[e], sent[Other(e)])
    BY DEF FramesArrive
  <2> DEFINE s == got[e]
             t == sent[Other(e)]
  <2>1. Follows(e)
    BY DEF StreamInv, StreamAt
  <2>2. s \in Seq(Seq(Byte)) /\ t \in Seq(Seq(Byte))
    <3>1. Other(e) \in End
      BY OtherEnd
    <3> QED
      BY <3>1 DEF TypeInv, TypeOK
  <2>3. Len(s) <= Len(t) /\ \A i \in 1..Len(s) : s[i] = t[i]
    BY <2>1 DEF Follows
  <2> HIDE DEF s, t
  <2>4. Len(s) \in 0..Len(t)
    BY <2>2, <2>3, LenProperties
  <2>5. /\ SubSeq(t, 1, Len(s)) \in Seq(Seq(Byte)) /\ Len(SubSeq(t, 1, Len(s))) = Len(s)
        /\ \A i \in 1..Len(s) : SubSeq(t, 1, Len(s))[i] = t[i]
    BY <2>2, <2>4, Cut
  <2>6. s = SubSeq(t, 1, Len(s))
    BY <2>2, <2>3, <2>5, SeqEqual
  <2> QED
    BY <2>3, <2>6 DEF IsPrefix, s, t
<1> QED
  BY InitTyped, InitStreams, <1>1, <1>2, <1>3, PTL DEF FairSpec

------------------------------------------------------------------------------
(* Counting the calls of a script                                          *)

(* How many calls of a kind there are in front of the place k.             *)
Passed(s, o, k) == Cardinality({i \in 1..(k - 1) : s[i].op = o})
CallsOf(s, o) == Passed(s, o, Len(s) + 1)

(* Every place adds its own call.                                          *)
LEMMA PassedNext ==
  ASSUME NEW s, NEW o, NEW k \in Nat \ {0}
  PROVE  /\ Passed(s, o, k) \in Nat
         /\ Passed(s, o, k + 1) = Passed(s, o, k) + (IF s[k].op = o THEN 1 ELSE 0)
<1> DEFINE A == {i \in 1..(k - 1) : s[i].op = o}
           B == {i \in 1..(k + 1 - 1) : s[i].op = o}
<1>1. IsFiniteSet(A) /\ Cardinality(A) \in Nat
  <2>1. IsFiniteSet(1..(k - 1))
    BY FS_Interval
  <2>2. A \in SUBSET (1..(k - 1))
    OBVIOUS
  <2> HIDE DEF A
  <2>3. IsFiniteSet(A)
    BY <2>1, <2>2, FS_Subset
  <2> QED
    BY <2>3, FS_CardinalityType
<1>2. B = IF s[k].op = o THEN A \cup {k} ELSE A
  OBVIOUS
<1>3. k \notin A
  OBVIOUS
<1> HIDE DEF A, B
<1>4. Cardinality(A \cup {k}) = Cardinality(A) + 1
  BY <1>1, <1>3, FS_AddElement
<1>5. Cardinality(B) = Cardinality(A) + (IF s[k].op = o THEN 1 ELSE 0)
  BY <1>1, <1>2, <1>4
<1> QED
  BY <1>1, <1>5 DEF Passed, A, B

(* Further on there are not less, and more behind one of them.             *)
LEMMA PassedRises ==
  ASSUME NEW s, NEW o, NEW k \in Nat \ {0}, NEW l \in Nat \ {0}, k <= l
  PROVE  /\ Passed(s, o, k) \in Nat /\ Passed(s, o, l) \in Nat
         /\ Passed(s, o, k) <= Passed(s, o, l)
         /\ k < l /\ s[k].op = o => Passed(s, o, k) < Passed(s, o, l)
<1>1. \A j \in Nat \ {0} : Passed(s, o, j) \in Nat
  BY PassedNext
<1>2. ASSUME NEW j \in Nat \ {0}, j <= l
      PROVE  Passed(s, o, j) <= Passed(s, o, l)
  <2> DEFINE A == {i \in 1..(j - 1) : s[i].op = o}
             B == {i \in 1..(l - 1) : s[i].op = o}
  <2>1. A \in SUBSET B /\ B \in SUBSET (1..(l - 1))
    BY <1>2
  <2>2. IsFiniteSet(1..(l - 1))
    BY FS_Interval
  <2> HIDE DEF A, B
  <2>3. IsFiniteSet(B)
    BY <2>1, <2>2, FS_Subset
  <2>4. Cardinality(A) <= Cardinality(B)
    BY <2>1, <2>3, FS_Subset
  <2> QED
    BY <2>4 DEF Passed, A, B
<1>3. ASSUME k < l, s[k].op = o PROVE Passed(s, o, k) < Passed(s, o, l)
  <2>1. k + 1 \in Nat \ {0} /\ k + 1 <= l
    BY <1>3
  <2>2. Passed(s, o, k + 1) = Passed(s, o, k) + 1
    BY <1>3, PassedNext
  <2>3. Passed(s, o, k + 1) <= Passed(s, o, l)
    BY <1>2, <2>1
  <2> QED
    BY <1>1, <2>1, <2>2, <2>3
<1> QED
  BY <1>1, <1>2, <1>3

(* In front of the first place there is nothing.                           *)
LEMMA PassedNone ==
  ASSUME NEW s, NEW o
  PROVE  Passed(s, o, 1) = 0
<1>1. {i \in 1..(1 - 1) : s[i].op = o} = {}
  OBVIOUS
<1> QED
  BY <1>1, FS_EmptySet DEF Passed

(* Only what is in front of the place counts.                              *)
LEMMA PassedSame ==
  ASSUME NEW s, NEW t, NEW o, NEW k, \A i \in 1..(k - 1) : s[i] = t[i]
  PROVE  Passed(s, o, k) = Passed(t, o, k)
<1>1. {i \in 1..(k - 1) : s[i].op = o} = {i \in 1..(k - 1) : t[i].op = o}
  OBVIOUS
<1> QED
  BY <1>1 DEF Passed

LEMMA CallsNone ==
  ASSUME NEW o
  PROVE  CallsOf(<<>>, o) = 0
<1>1. Len(<<>>) + 1 = 1
  OBVIOUS
<1> QED
  BY <1>1, PassedNone DEF CallsOf

LEMMA CallsOne ==
  ASSUME NEW s, Len(s) = 1, NEW o
  PROVE  CallsOf(s, o) = IF s[1].op = o THEN 1 ELSE 0
<1>1. Passed(s, o, 1 + 1) = Passed(s, o, 1) + (IF s[1].op = o THEN 1 ELSE 0)
  BY PassedNext
<1>2. Passed(s, o, 1) = 0
  BY PassedNone
<1> QED
  BY <1>1, <1>2 DEF CallsOf

(* The calls of a sequence are those of its parts.                         *)
LEMMA CallsJoined ==
  ASSUME NEW S, NEW s \in Seq(S), NEW t \in Seq(S), NEW o
  PROVE  /\ CallsOf(s \o t, o) = CallsOf(s, o) + CallsOf(t, o)
         /\ CallsOf(s, o) \in Nat /\ CallsOf(t, o) \in Nat
<1> DEFINE u == s \o t
           m == Len(s)
           n == Len(t)
           P(k) == Passed(u, o, m + k + 1) = Passed(s, o, m + 1) + Passed(t, o, k + 1)
           Bad == {k \in 0..n : ~P(k)}
<1>1. /\ u \in Seq(S) /\ Len(u) = m + n /\ m \in Nat /\ n \in Nat
      /\ \A i \in 1..(m + n) : u[i] = IF i <= m THEN s[i] ELSE t[i - m]
  BY ConcatProperties, LenProperties
<1> HIDE DEF u, m, n
<1>2. /\ Passed(s, o, m + 1) \in Nat
      /\ \A k \in Nat : Passed(t, o, k + 1) \in Nat /\ Passed(u, o, m + k + 1) \in Nat
  <2>1. m + 1 \in Nat \ {0} /\ \A k \in Nat : k + 1 \in Nat \ {0} /\ m + k + 1 \in Nat \ {0}
    BY <1>1
  <2> QED
    BY <2>1, PassedNext
<1>3. P(0)
  <2>1. Passed(u, o, m + 1) = Passed(s, o, m + 1)
    <3> DEFINE k == m + 1
    <3>1. \A i \in 1..(k - 1) : u[i] = s[i]
      BY <1>1
    <3> HIDE DEF k
    <3>2. Passed(u, o, k) = Passed(s, o, k)
      BY <3>1, PassedSame
    <3> QED
      BY <3>2 DEF k
  <2>2. Passed(t, o, 1) = 0
    BY PassedNone
  <2>3. m + 0 + 1 = m + 1 /\ 0 + 1 = 1
    BY <1>1
  <2> QED
    BY <1>2, <2>1, <2>2, <2>3
<1>4. ASSUME NEW k \in 0..(n - 1), P(k) PROVE P(k + 1)
  <2>1. k + 1 \in 1..n /\ m + k + 1 \in (m + 1)..(m + n) /\ m + k + 1 - m = k + 1
    BY <1>1
  <2>2. u[m + k + 1] = t[k + 1]
    <3> DEFINE i == m + k + 1
    <3>1. i \in 1..(m + n) /\ ~(i <= m) /\ i - m = k + 1
      BY <1>1
    <3> HIDE DEF i
    <3>2. u[i] = t[i - m]
      BY <1>1, <3>1
    <3> QED
      BY <3>1, <3>2 DEF i
  <2>3. Passed(u, o, m + k + 1 + 1) =
          Passed(u, o, m + k + 1) + (IF u[m + k + 1].op = o THEN 1 ELSE 0)
    <3>1. m + k + 1 \in Nat \ {0}
      BY <1>1
    <3> QED
      BY <3>1, PassedNext
  <2>4. Passed(t, o, k + 1 + 1) = Passed(t, o, k + 1) + (IF t[k + 1].op = o THEN 1 ELSE 0)
    <3>1. k + 1 \in Nat \ {0}
      BY <1>1
    <3> QED
      BY <3>1, PassedNext
  <2>5. m + (k + 1) + 1 = m + k + 1 + 1 /\ k \in Nat /\ k + 1 \in Nat
    BY <1>1
  <2> QED
    <3> DEFINE one == IF t[k + 1].op = o THEN 1 ELSE 0
    <3>1. /\ Passed(u, o, m + k + 1) \in Nat /\ Passed(s, o, m + 1) \in Nat
          /\ Passed(t, o, k + 1) \in Nat /\ one \in Nat
      BY <1>2, <2>5
    <3>2. /\ Passed(u, o, m + k + 1 + 1) = Passed(u, o, m + k + 1) + one
          /\ Passed(t, o, k + 1 + 1) = Passed(t, o, k + 1) + one
          /\ Passed(u, o, m + k + 1) = Passed(s, o, m + 1) + Passed(t, o, k + 1)
      BY <1>4, <2>2, <2>3, <2>4
    <3> HIDE DEF one
    <3>3. Passed(u, o, m + k + 1 + 1) = Passed(s, o, m + 1) + Passed(t, o, k + 1 + 1)
      BY <3>1, <3>2
    <3> QED
      BY <2>5, <3>3
<1> HIDE DEF P
<1>5. Bad = {}
  <2> SUFFICES ASSUME Bad # {} PROVE FALSE
    OBVIOUS
  <2>1. PICK k \in Bad : \A j \in Bad : k <= j
    <3>1. Bad \subseteq Nat
      BY <1>1
    <3> HIDE DEF Bad
    <3> QED
      BY <3>1, NatMin
  <2>2. k \in 0..n /\ ~P(k) /\ k # 0
    BY <1>3, <2>1
  <2>3. k - 1 \in 0..(n - 1) /\ k - 1 \notin Bad /\ k - 1 + 1 = k
    BY <1>1, <2>1, <2>2
  <2>4. P(k - 1)
    BY <1>1, <2>3
  <2>5. P(k - 1 + 1)
    BY <1>4, <2>3, <2>4
  <2> QED
    BY <2>2, <2>3, <2>5
<1>6. P(n)
  BY <1>1, <1>5
<1>7. CallsOf(u, o) = Passed(u, o, m + n + 1)
  BY <1>1 DEF CallsOf
<1>8. CallsOf(s, o) = Passed(s, o, m + 1) /\ CallsOf(t, o) = Passed(t, o, n + 1)
  BY DEF CallsOf, m, n
<1> QED
  BY <1>1, <1>2, <1>6, <1>7, <1>8 DEF P, u

SameCalls(ss, o, tt, q) == \A i \in 1..Len(ss) : CallsOf(ss[i], o) = CallsOf(tt[i], q)

(* Loops whose bodies have as many calls of one kind as of another have    *)
(* so too.                                                                 *)
LEMMA FlattenCalls ==
  ASSUME NEW S, NEW ss \in Seq(Seq(S)), NEW tt \in Seq(Seq(S)), Len(ss) = Len(tt),
         NEW o, NEW q, SameCalls(ss, o, tt, q)
  PROVE  CallsOf(FlattenSeq(ss), o) = CallsOf(FlattenSeq(tt), q)
<1> DEFINE n == Len(ss)
<1>0. n \in Nat /\ ss \in [1..n -> Seq(S)] /\ tt \in [1..n -> Seq(S)]
  OBVIOUS
<1>3. \A i \in 1..n : CallsOf(ss[i], o) = CallsOf(tt[i], q)
  BY DEF SameCalls
<1> HIDE DEF n
<1>1. CASE n = 0
  <2>1. ss = <<>> /\ tt = <<>>
    BY <1>0, <1>1
  <2>2. FlattenSeq(<<>>) = <<>>
    BY DEF FlattenSeq
  <2> QED
    BY <2>1, <2>2, CallsNone
<1>2. CASE n # 0
  <2>1. PICK f \in [1..n -> Seq(S)] : Flattens(f, ss, n) /\ FlattenSeq(ss) = f[n]
    BY <1>0, <1>2, FlattenIs
  <2>2. PICK g \in [1..n -> Seq(S)] : Flattens(g, tt, n) /\ FlattenSeq(tt) = g[n]
    BY <1>0, <1>2, FlattenIs
  <2>3. \A i \in 1..n : /\ f[i] = IF i = 1 THEN ss[i] ELSE f[i - 1] \o ss[i]
                        /\ g[i] = IF i = 1 THEN tt[i] ELSE g[i - 1] \o tt[i]
    BY <2>1, <2>2 DEF Flattens
  <2> DEFINE Bad == {i \in 1..n : CallsOf(f[i], o) # CallsOf(g[i], q)}
  <2>4. Bad = {}
    <3> SUFFICES ASSUME Bad # {} PROVE FALSE
      OBVIOUS
    <3>1. PICK i \in Bad : \A k \in Bad : i <= k
      <4>1. Bad \subseteq Nat
        OBVIOUS
      <4> HIDE DEF Bad
      <4> QED
        BY <4>1, NatMin
    <3>2. i \in 1..n /\ CallsOf(f[i], o) # CallsOf(g[i], q)
      BY <3>1
    <3>3. i # 1
      BY <1>3, <2>3, <3>2
    <3>4. i - 1 \in 1..n /\ i - 1 \notin Bad
      BY <1>0, <3>1, <3>2, <3>3
    <3>5. CallsOf(f[i - 1], o) = CallsOf(g[i - 1], q)
      BY <3>4
    <3>6. f[i] = f[i - 1] \o ss[i] /\ g[i] = g[i - 1] \o tt[i]
      BY <2>3, <3>2, <3>3
    <3>7. CallsOf(f[i - 1] \o ss[i], o) = CallsOf(f[i - 1], o) + CallsOf(ss[i], o)
      BY <1>0, <3>2, <3>4, CallsJoined, SMTT(20)
    <3>8. CallsOf(g[i - 1] \o tt[i], q) = CallsOf(g[i - 1], q) + CallsOf(tt[i], q)
      BY <1>0, <3>2, <3>4, CallsJoined, SMTT(20)
    <3>9. CallsOf(ss[i], o) = CallsOf(tt[i], q)
      BY <1>3, <3>2
    <3> QED
      BY <3>2, <3>5, <3>6, <3>7, <3>8, <3>9
  <2>5. n \in 1..n
    BY <1>0, <1>2
  <2>6. CallsOf(f[n], o) = CallsOf(g[n], q)
    BY <2>4, <2>5
  <2> QED
    BY <2>1, <2>2, <2>6
<1> QED
  BY <1>1, <1>2

(* Repetitions of equally many calls are equally many.                     *)
LEMMA RepeatCalls ==
  ASSUME NEW S, NEW n \in Nat, NEW s \in Seq(S), NEW t \in Seq(S), NEW o, NEW q,
         CallsOf(s, o) = CallsOf(t, q)
  PROVE  CallsOf(Repeat(n, s), o) = CallsOf(Repeat(n, t), q)
<1>1. PICK u, w : u = [i \in 1..n |-> s] /\ w = [i \in 1..n |-> t]
  OBVIOUS
<1>2. /\ u \in Seq(Seq(S)) /\ w \in Seq(Seq(S)) /\ Len(u) = Len(w)
      /\ SameCalls(u, o, w, q)
  BY <1>1 DEF SameCalls
<1>3. CallsOf(FlattenSeq(u), o) = CallsOf(FlattenSeq(w), q)
  BY <1>2, FlattenCalls
<1> QED
  BY <1>1, <1>3 DEF Repeat

(* Reads and writes of the calls that the scripts are made of.             *)
LEMMA CallsOfWrites ==
  ASSUME NEW p \in Payload, NEW o \in {"read", "write"}
  PROVE  /\ CallsOf(Write(p), o) = IF o = "write" THEN 1 ELSE 0
         /\ CallsOf(Say(p), o) = IF o = "write" THEN 1 ELSE 0
<1>1. CallsOf(Write(p), o) = IF o = "write" THEN 1 ELSE 0
  <2>1. Len(Write(p)) = 1 /\ Write(p)[1].op = "write"
    BY DEF Write
  <2> QED
    BY <2>1, CallsOne
<1>2. CallsOf(Flush, o) = 0
  <2>1. Len(Flush) = 1 /\ Flush[1].op = "flush"
    BY DEF Flush
  <2> QED
    BY <2>1, CallsOne
<1>3. Write(p) \in Seq(Op) /\ Flush \in Seq(Op)
  BY OpTyped DEF Op
<1>4. CallsOf(Write(p) \o Flush, o) = CallsOf(Write(p), o) + CallsOf(Flush, o)
  BY <1>3, CallsJoined
<1> QED
  BY <1>1, <1>2, <1>4 DEF Say

(* A read is one read.                                                     *)
LEMMA CallsOfReads ==
  ASSUME NEW want, NEW onErr, NEW o \in {"read", "write"}
  PROVE  CallsOf(Read(want, onErr), o) = IF o = "read" THEN 1 ELSE 0
<1>1. Len(Read(want, onErr)) = 1 /\ Read(want, onErr)[1].op = "read"
  BY DEF Read
<1> QED
  BY <1>1, CallsOne

(* A call on a file is neither.                                            *)
LEMMA CallsOfFiles ==
  ASSUME NEW onErr, NEW o \in {"read", "write"}
  PROVE  CallsOf(Local(onErr), o) = 0
<1>1. Len(Local(onErr)) = 1 /\ Local(onErr)[1].op = "local"
  BY DEF Local
<1> QED
  BY <1>1, CallsOne

------------------------------------------------------------------------------
(* The last word of a dialogue                                             *)

(* The calls of an accepting end in front of its last word: it reads       *)
(* whatever comes, and does not write SyncOK.                              *)
Asking(errs) ==
  [op : {"write"}, payload : Payload \ {SyncOK}] \cup [op : {"flush"}]
    \cup [op : {"read"}, want : {Anything}, onErr : errs]
    \cup [op : {"local"}, onErr : errs \cap {"answer"}]

AskingOp == Asking({"return", "next", "answer"})

(* Such calls are put together from such calls.                            *)
LEMMA AskingTyped ==
  ASSUME NEW errs
  PROVE  LET T == Seq(Asking(errs)) IN
         /\ \A s, t \in T : s \o t \in T
         /\ \A n \in Nat, s \in T : Repeat(n, s) \in T
         /\ \A p \in Payload \ {SyncOK} : Write(p) \in T /\ Say(p) \in T
         /\ \A onErr \in errs : Read(Anything, onErr) \in T
         /\ "answer" \in errs => Local("answer") \in T
<1> DEFINE T == Seq(Asking(errs))
<1>1. \A s, t \in T : s \o t \in T
  BY ConcatProperties
<1>2. ASSUME NEW n \in Nat, NEW s \in T PROVE Repeat(n, s) \in T
  <2> DEFINE ss == [i \in 1..n |-> s]
  <2>1. ss \in [1..n -> T]
    OBVIOUS
  <2> HIDE DEF ss
  <2>2. FlattenSeq(ss) \in T
    BY <2>1, FlattenType
  <2> QED
    BY <2>2 DEF Repeat, ss
<1>3. ASSUME NEW p \in Payload \ {SyncOK} PROVE Write(p) \in T
  <2>1. [op |-> "write", payload |-> p] \in Asking(errs)
    BY DEF Asking
  <2> QED
    BY <2>1 DEF Write
<1>4. Flush \in T
  <2>1. [op |-> "flush"] \in Asking(errs)
    BY DEF Asking
  <2> QED
    BY <2>1 DEF Flush
<1>5. ASSUME NEW onErr \in errs PROVE Read(Anything, onErr) \in T
  <2>1. [op |-> "read", want |-> Anything, onErr |-> onErr] \in Asking(errs)
    BY DEF Asking
  <2> QED
    BY <2>1 DEF Read
<1>7. ASSUME "answer" \in errs PROVE Local("answer") \in T
  <2>1. [op |-> "local", onErr |-> "answer"] \in Asking(errs)
    BY <1>7 DEF Asking
  <2> QED
    BY <2>1 DEF Local
<1> HIDE DEF T
<1>6. \A p \in Payload \ {SyncOK} : Write(p) \in T /\ Say(p) \in T
  BY <1>1, <1>3, <1>4 DEF Say
<1> QED
  BY <1>1, <1>2, <1>5, <1>6, <1>7 DEF T

(* No other answer, and no refusal of any length, is SyncOK.               *)
LEMMA ServerPayloads ==
  /\ \A p \in {Challenge, AuthOK, SyncState, MessagesOK, BlockOK, BlobOK, Refusal} :
       p \in Payload \ {SyncOK}
  /\ \A n \in Nat : Incompressible(n) \in Payload \ {SyncOK}
<1>1. \A p \in {Challenge, AuthOK, SyncState, MessagesOK, BlockOK, BlobOK, Refusal} : p # SyncOK
  BY DEF Challenge, AuthOK, SyncState, MessagesOK, BlockOK, BlobOK, Refusal, SyncOK
<1>2. ASSUME NEW n \in Nat PROVE Incompressible(n) # SyncOK
  <2>1. SyncOK[1] = 15 /\ DOMAIN SyncOK = 1..1
    BY DEF SyncOK
  <2>2. DOMAIN Incompressible(n) = 1..n /\ (1 \in 1..n => Incompressible(n)[1] = 1 % 2)
    BY DEF Incompressible
  <2>3. 1 % 2 # 15
    OBVIOUS
  <2>4. 1 \in 1..1
    OBVIOUS
  <2> QED
    BY <2>1, <2>2, <2>3, <2>4
<1> QED
  BY <1>1, <1>2, Payloads, IncompressibleTyped

(* readBlobs is made of such calls.                                        *)
LEMMA ReadBlobsAsking ==
  ASSUME NEW blocks \in Seq(Nat)
  PROVE  readBlobs(blocks) \in Seq(AskingOp)
<1> DEFINE T == Seq(AskingOp)
           get == Read(Anything, "answer") \o Local("answer")
           one == get \o Say(BlockOK)
           blob(n) == get \o Repeat(n, one) \o Say(BlobOK)
           once == [i \in DOMAIN blocks |-> blob(blocks[i])]
<1>1. /\ \A s, t \in T : s \o t \in T
      /\ \A n \in Nat, s \in T : Repeat(n, s) \in T
      /\ Say(BlockOK) \in T /\ Say(BlobOK) \in T
      /\ Read(Anything, "answer") \in T /\ Local("answer") \in T
  BY AskingTyped, ServerPayloads DEF AskingOp
<1>2. /\ DOMAIN blocks = 1..Len(blocks) /\ Len(blocks) \in Nat
      /\ \A i \in DOMAIN blocks : blocks[i] \in Nat
  BY LenProperties
<1> HIDE DEF T
<1>3. once \in [1..Len(blocks) -> T]
  <2> SUFFICES ASSUME NEW i \in 1..Len(blocks) PROVE blob(blocks[i]) \in T
    BY <1>2
  <2>1. get \in T
    BY <1>1
  <2> HIDE DEF get
  <2>2. one \in T
    BY <1>1, <2>1
  <2> HIDE DEF one
  <2>3. Repeat(blocks[i], one) \in T
    BY <1>1, <1>2, <2>2
  <2> QED
    BY <1>1, <2>1, <2>3
<1> HIDE DEF once
<1>4. FlattenSeq(once) \in T
  BY <1>2, <1>3, FlattenType DEF T
<1>5. Read(Anything, "answer") \o FlattenSeq(once) \in T
  BY <1>1, <1>4
<1> QED
  BY <1>5 DEF readBlobs, once, T

(* The dialling ends return on every error.                                *)
ClientOp == OpType({"return"})

(* sendBlobs returns on every error.                                       *)
LEMMA SendBlobsReturns ==
  ASSUME NEW blocks \in Seq(Nat)
  PROVE  sendBlobs(blocks) \in Seq(ClientOp)
<1> DEFINE T == Seq(ClientOp)
           use == Local("return")
           one == use \o Say(Block) \o expectResponse(BlockOK)
           blob(n) == use \o Say(Count) \o use \o Repeat(n, one) \o expectResponse(BlobOK)
           once == [i \in DOMAIN blocks |-> blob(blocks[i])]
<1>1. /\ \A s, t \in T : s \o t \in T
      /\ \A n \in Nat, s \in T : Repeat(n, s) \in T
      /\ \A p \in Payload : Say(p) \in T /\ expectResponse(p) \in T
      /\ use \in T
  BY CallsTyped DEF ClientOp
<1>2. /\ DOMAIN blocks = 1..Len(blocks) /\ Len(blocks) \in Nat
      /\ \A i \in DOMAIN blocks : blocks[i] \in Nat
  BY LenProperties
<1> HIDE DEF T, use
<1>3. once \in [1..Len(blocks) -> T]
  <2> SUFFICES ASSUME NEW i \in 1..Len(blocks) PROVE blob(blocks[i]) \in T
    BY <1>2
  <2>1. one \in T
    BY <1>1, Payloads
  <2> HIDE DEF one
  <2>2. Repeat(blocks[i], one) \in T
    BY <1>1, <1>2, <2>1
  <2>3. Say(Count) \in T /\ expectResponse(BlobOK) \in T
    BY <1>1, Payloads
  <2> QED
    BY <1>1, <2>2, <2>3
<1> HIDE DEF once
<1>4. FlattenSeq(once) \in T
  BY <1>2, <1>3, FlattenType DEF T
<1>5. Say(BlobIDs) \in T
  BY <1>1, Payloads
<1>6. Say(BlobIDs) \o FlattenSeq(once) \in T
  BY <1>1, <1>4, <1>5
<1> QED
  BY <1>6 DEF sendBlobs, once, use, T

(* There are as many reads on the one side of the transfer of a batch as   *)
(* writes on the other: a call for the list, and those of each blob.       *)
LEMMA BlobCalls ==
  ASSUME NEW blocks \in Seq(Nat), NEW o, NEW q,
         <<o, q>> \in {<<"read", "write">>, <<"write", "read">>}
  PROVE  CallsOf(readBlobs(blocks), o) = CallsOf(sendBlobs(blocks), q)
<1> DEFINE T == Seq(Op)
           use == Local("return")
           get == Read(Anything, "answer") \o Local("answer")
<1>1. /\ \A s, t \in T : s \o t \in T
      /\ \A n \in Nat, s \in T : Repeat(n, s) \in T
      /\ \A p \in {BlockOK, BlobOK, Count, Block, BlobIDs} : Say(p) \in T /\ expectResponse(p) \in T
      /\ Read(Anything, "answer") \in T /\ Local("answer") \in T /\ use \in T
  <2>1. /\ \A s, t \in T : s \o t \in T
        /\ \A n \in Nat, s \in T : Repeat(n, s) \in T
        /\ \A p \in Payload : Say(p) \in T /\ expectResponse(p) \in T
        /\ Read(Anything, "answer") \in T /\ Local("answer") \in T /\ use \in T
    BY CallsTyped DEF Op
  <2> QED
    BY <2>1, Payloads
<1>2. /\ DOMAIN blocks = 1..Len(blocks) /\ Len(blocks) \in Nat
      /\ \A i \in DOMAIN blocks : blocks[i] \in Nat
  BY LenProperties
<1>3. \A x \in {"read", "write"} :
        /\ \A s, t \in T : /\ CallsOf(s \o t, x) = CallsOf(s, x) + CallsOf(t, x)
                           /\ CallsOf(s, x) \in Nat
        /\ \A p \in {BlockOK, BlobOK, Count, Block, BlobIDs} :
             /\ CallsOf(Say(p), x) = IF x = "write" THEN 1 ELSE 0
             /\ CallsOf(expectResponse(p), x) = IF x = "read" THEN 1 ELSE 0
        /\ CallsOf(Read(Anything, "answer"), x) = IF x = "read" THEN 1 ELSE 0
        /\ CallsOf(Local("answer"), x) = 0 /\ CallsOf(use, x) = 0
  <2> TAKE x \in {"read", "write"}
  <2>1. \A s, t \in T : /\ CallsOf(s \o t, x) = CallsOf(s, x) + CallsOf(t, x)
                        /\ CallsOf(s, x) \in Nat
    BY CallsJoined
  <2>2. \A p \in {BlockOK, BlobOK, Count, Block, BlobIDs} :
          CallsOf(Say(p), x) = IF x = "write" THEN 1 ELSE 0
    BY CallsOfWrites, Payloads
  <2>3. \A want, onErr : CallsOf(Read(want, onErr), x) = IF x = "read" THEN 1 ELSE 0
    BY CallsOfReads
  <2>4. \A onErr : CallsOf(Local(onErr), x) = 0
    BY CallsOfFiles
  <2> HIDE DEF T
  <2> QED
    BY <2>1, <2>2, <2>3, <2>4 DEF expectResponse
<1> HIDE DEF T, use
<1>11. o \in {"read", "write"} /\ q \in {"read", "write"} /\ (o = "read" <=> q = "write")
  OBVIOUS
<1>15. \A s, t \in T : /\ CallsOf(s \o t, o) = CallsOf(s, o) + CallsOf(t, o) /\ CallsOf(s, o) \in Nat
                      /\ CallsOf(s \o t, q) = CallsOf(s, q) + CallsOf(t, q) /\ CallsOf(s, q) \in Nat
  BY <1>3, <1>11
<1>16. \A p \in {BlockOK, BlobOK, Count, Block, BlobIDs} :
         /\ CallsOf(Say(p), o) = IF o = "write" THEN 1 ELSE 0
         /\ CallsOf(Say(p), q) = IF q = "write" THEN 1 ELSE 0
         /\ CallsOf(expectResponse(p), q) = IF q = "read" THEN 1 ELSE 0
         /\ Say(p) \in T /\ expectResponse(p) \in T
  BY <1>1, <1>3, <1>11
<1>17. /\ CallsOf(Read(Anything, "answer"), o) = (IF o = "read" THEN 1 ELSE 0)
       /\ CallsOf(Local("answer"), o) = 0 /\ CallsOf(use, q) = 0
  BY <1>3, <1>11
<1> DEFINE sb == Say(Block)
           sk == Say(BlockOK)
           sc == Say(Count)
           sl == Say(BlobOK)
           si == Say(BlobIDs)
           ek == expectResponse(BlockOK)
           el == expectResponse(BlobOK)
<1>18. /\ sb \in T /\ sk \in T /\ sc \in T /\ sl \in T /\ si \in T /\ ek \in T /\ el \in T
       /\ CallsOf(sk, o) = (IF o = "write" THEN 1 ELSE 0) /\ CallsOf(sl, o) = (IF o = "write" THEN 1 ELSE 0)
       /\ CallsOf(sb, q) = (IF q = "write" THEN 1 ELSE 0) /\ CallsOf(sc, q) = (IF q = "write" THEN 1 ELSE 0)
       /\ CallsOf(si, q) = (IF q = "write" THEN 1 ELSE 0)
       /\ CallsOf(ek, q) = (IF q = "read" THEN 1 ELSE 0) /\ CallsOf(el, q) = (IF q = "read" THEN 1 ELSE 0)
  BY <1>16
<1>19. \A s, t \in T : s \o t \in T
  BY <1>1
<1>20. use \in T /\ Read(Anything, "answer") \in T /\ Local("answer") \in T
  BY <1>1
<1> HIDE DEF sb, sk, sc, sl, si, ek, el
<1>12. get \in T /\ CallsOf(get, o) = IF o = "read" THEN 1 ELSE 0
  <2>1. get \in T
    BY <1>19, <1>20
  <2>2. CallsOf(get, o) = CallsOf(Read(Anything, "answer"), o) + CallsOf(Local("answer"), o)
    BY <1>15, <1>20
  <2> QED
    BY <1>17, <2>1, <2>2
<1> HIDE DEF get
<1> DEFINE r == get \o sk
           ub == use \o sb
           w == ub \o ek
           uc == use \o sc
           ucu == uc \o use
           in(i) == get \o Repeat(blocks[i], r) \o sl
           out(i) == ucu \o Repeat(blocks[i], w) \o el
<1>21. r \in T /\ w \in T /\ CallsOf(r, o) = CallsOf(w, q)
  <2>1. CallsOf(r, o) = CallsOf(get, o) + CallsOf(sk, o)
    BY <1>12, <1>15, <1>18
  <2>2. r \in T /\ ub \in T
    BY <1>12, <1>18, <1>19, <1>20
  <2>3. CallsOf(ub, q) = CallsOf(use, q) + CallsOf(sb, q)
    BY <1>15, <1>18, <1>20
  <2> HIDE DEF r, ub
  <2>4. CallsOf(w, q) = CallsOf(ub, q) + CallsOf(ek, q)
    BY <1>15, <1>18, <2>2
  <2>5. w \in T
    BY <1>18, <1>19, <2>2
  <2> HIDE DEF w
  <2>6. CallsOf(r, o) = 1
    BY <1>12, <1>18, <2>1
  <2>7. CallsOf(w, q) = 1
    BY <1>11, <1>17, <1>18, <2>3, <2>4
  <2> QED
    BY <2>2, <2>5, <2>6, <2>7
<1>22. ucu \in T /\ CallsOf(ucu, q) = IF q = "write" THEN 1 ELSE 0
  <2>1. uc \in T
    BY <1>18, <1>19, <1>20
  <2>2. CallsOf(uc, q) = CallsOf(use, q) + CallsOf(sc, q)
    BY <1>15, <1>18, <1>20
  <2> HIDE DEF uc
  <2>3. CallsOf(ucu, q) = CallsOf(uc, q) + CallsOf(use, q)
    BY <1>15, <1>20, <2>1
  <2>4. ucu \in T
    BY <1>19, <1>20, <2>1
  <2> QED
    BY <1>17, <1>18, <2>2, <2>3, <2>4
<1> HIDE DEF r, w, ucu
<1>4. ASSUME NEW i \in DOMAIN blocks
      PROVE  in(i) \in T /\ out(i) \in T /\ CallsOf(in(i), o) = CallsOf(out(i), q)
  <2> DEFINE rs == Repeat(blocks[i], r)
             ws == Repeat(blocks[i], w)
  <2>3. rs \in T /\ ws \in T
    BY <1>1, <1>2, <1>21
  <2>4. CallsOf(rs, o) = CallsOf(ws, q)
    BY <1>2, <1>21, RepeatCalls DEF T
  <2> HIDE DEF rs, ws
  <2> DEFINE a == get \o rs
             b == ucu \o ws
  <2>5. a \in T /\ b \in T /\ CallsOf(a, o) = CallsOf(b, q)
    <3>1. a \in T /\ b \in T
      BY <1>12, <1>19, <1>22, <2>3
    <3>2. CallsOf(a, o) = CallsOf(get, o) + CallsOf(rs, o) /\ CallsOf(rs, o) \in Nat
      BY <1>12, <1>15, <2>3
    <3>3. CallsOf(b, q) = CallsOf(ucu, q) + CallsOf(ws, q)
      BY <1>15, <1>22, <2>3
    <3> HIDE DEF a, b
    <3> QED
      BY <1>11, <1>12, <1>22, <2>4, <3>1, <3>2, <3>3
  <2> HIDE DEF a, b
  <2>6. /\ a \o sl \in T /\ b \o el \in T
        /\ CallsOf(a \o sl, o) = CallsOf(b \o el, q)
    <3>1. sl \in T /\ el \in T
      BY <1>18
    <3>2. a \o sl \in T /\ b \o el \in T
      BY <1>19, <2>5, <3>1
    <3>3. CallsOf(a \o sl, o) = CallsOf(a, o) + CallsOf(sl, o)
      BY <1>15, <2>5, <3>1
    <3>4. CallsOf(b \o el, q) = CallsOf(b, q) + CallsOf(el, q)
      BY <1>15, <2>5, <3>1
    <3>5. CallsOf(sl, o) = CallsOf(el, q)
      BY <1>11, <1>17, <1>18
    <3> QED
      BY <2>5, <3>2, <3>3, <3>4, <3>5
  <2> QED
    BY <2>6 DEF a, b, rs, ws
<1>5. PICK u, v : u = [i \in DOMAIN blocks |-> in(i)] /\ v = [i \in DOMAIN blocks |-> out(i)]
  OBVIOUS
<1>6. /\ u \in Seq(Seq(Op)) /\ v \in Seq(Seq(Op)) /\ Len(u) = Len(blocks) /\ Len(v) = Len(blocks)
      /\ SameCalls(u, o, v, q)
  <2> HIDE DEF in, out
  <2>1. u \in [1..Len(blocks) -> Seq(Op)] /\ v \in [1..Len(blocks) -> Seq(Op)]
    BY <1>2, <1>4, <1>5 DEF T
  <2>2. u \in Seq(Seq(Op)) /\ v \in Seq(Seq(Op)) /\ Len(u) = Len(blocks) /\ Len(v) = Len(blocks)
    <3> DEFINE X == Seq(Op)
               n == Len(blocks)
    <3>1. u \in [1..n -> X] /\ v \in [1..n -> X] /\ n \in Nat
      BY <1>2, <2>1
    <3> HIDE DEF X, n
    <3>2. u \in Seq(X) /\ Len(u) = n /\ v \in Seq(X) /\ Len(v) = n
      BY ONLY <3>1
    <3> QED
      BY <3>2 DEF X, n
  <2> QED
    BY <1>2, <1>4, <1>5, <2>2 DEF SameCalls
<1>7. CallsOf(FlattenSeq(u), o) = CallsOf(FlattenSeq(v), q)
  BY <1>6, FlattenCalls
<1>8. FlattenSeq(u) \in T /\ FlattenSeq(v) \in T
  <2>1. u \in [1..Len(blocks) -> Seq(Op)] /\ v \in [1..Len(blocks) -> Seq(Op)]
    BY <1>2, <1>6
  <2> QED
    BY <1>2, <2>1, FlattenType DEF T
<1>9. CallsOf(Read(Anything, "answer") \o FlattenSeq(u), o)
        = CallsOf(si \o FlattenSeq(v), q)
  <2>1. Read(Anything, "answer") \in T /\ si \in T
    BY <1>1, <1>18
  <2>2. CallsOf(Read(Anything, "answer") \o FlattenSeq(u), o)
          = CallsOf(Read(Anything, "answer"), o) + CallsOf(FlattenSeq(u), o)
    BY <1>8, <1>15, <2>1
  <2>3. CallsOf(si \o FlattenSeq(v), q) = CallsOf(si, q) + CallsOf(FlattenSeq(v), q)
    BY <1>8, <1>15, <2>1
  <2>4. CallsOf(Read(Anything, "answer"), o) = CallsOf(si, q)
    BY <1>11, <1>17, <1>18
  <2> QED
    BY <1>7, <2>2, <2>3, <2>4
<1>13. readBlobs(blocks) = Read(Anything, "answer") \o FlattenSeq([i \in DOMAIN blocks |-> in(i)])
  BY DEF readBlobs, get, sk, sl, r
<1>14. sendBlobs(blocks) = si \o FlattenSeq([i \in DOMAIN blocks |-> out(i)])
  BY DEF sendBlobs, use, sb, sc, si, ek, el, w, ucu
<1> HIDE DEF in, out
<1> QED
  BY <1>5, <1>9, <1>13, <1>14

(* A call on a file whose error is answered passes over an answer to the   *)
(* other end: the last one of a transfer stands behind it.                 *)
Covered(s) ==
  \A i \in 1..Len(s) :
    s[i].op = "local" => /\ s[i].onErr = "answer"
                         /\ i < Len(s) - 1 /\ s[Len(s) - 1].op = "write"

LEMMA CoveredByWord ==
  ASSUME NEW s \in Seq(AskingOp), NEW p \in Payload \ {SyncOK}
  PROVE  Covered(s \o Say(p))
<1>1. Say(p) \in Seq(AskingOp) /\ Len(Say(p)) = 2
  BY AskingTyped, OpTyped DEF AskingOp
<1> DEFINE u == s \o Say(p)
           n == Len(s)
<1>2. PICK t \in Seq(AskingOp) : t = Say(p) /\ Len(t) = 2
  BY <1>1
<1>3. /\ u \in Seq(AskingOp) /\ Len(u) = n + 2 /\ n \in Nat
      /\ \A i \in 1..(n + 2) : u[i] = IF i <= n THEN s[i] ELSE t[i - n]
  <2>1. /\ u \in Seq(AskingOp) /\ Len(u) = n + Len(t) /\ n \in Nat
        /\ \A i \in 1..(n + Len(t)) : u[i] = IF i <= n THEN s[i] ELSE t[i - n]
    <3>1. s \o t \in Seq(AskingOp) /\ Len(s \o t) = Len(s) + Len(t) /\ Len(s) \in Nat
          /\ \A i \in 1..(Len(s) + Len(t)) : (s \o t)[i] = IF i <= Len(s) THEN s[i] ELSE t[i - Len(s)]
      BY ConcatProperties, LenProperties
    <3> QED
      BY <1>2, <3>1
  <2> HIDE DEF u, n
  <2> QED
    BY <1>2, <2>1
<1>4. t[1].op = "write" /\ t[2].op = "flush"
  BY <1>2 DEF Say, Write, Flush
<1> HIDE DEF u, n
<1>5. u[n + 1] = t[1] /\ u[n + 2] = t[2]
  <2>1. n + 1 \in 1..(n + 2) /\ ~(n + 1 <= n) /\ n + 1 - n = 1
        /\ n + 2 \in 1..(n + 2) /\ ~(n + 2 <= n) /\ n + 2 - n = 2
    BY <1>3
  <2>2. u[n + 1] = (IF n + 1 <= n THEN s[n + 1] ELSE t[n + 1 - n])
        /\ u[n + 2] = (IF n + 2 <= n THEN s[n + 2] ELSE t[n + 2 - n])
    BY <1>3, <2>1
  <2> QED
    BY <2>1, <2>2
<1>6. ASSUME NEW i \in 1..Len(u), u[i].op = "local"
      PROVE  u[i].onErr = "answer" /\ i < Len(u) - 1 /\ u[Len(u) - 1].op = "write"
  <2>1. u[i] \in AskingOp
    BY <1>3, ElementOfSeq
  <2>2. u[i].onErr = "answer"
    BY <1>6, <2>1 DEF AskingOp, Asking
  <2>3. i # n + 1 /\ i # n + 2
    BY <1>4, <1>5, <1>6
  <2>4. i < n + 1 /\ Len(u) - 1 = n + 1
    BY <1>3, <2>3
  <2> QED
    BY <1>4, <1>5, <2>2, <2>4
<1> QED
  BY <1>6 DEF Covered, u

LEMMA CoveredBehind ==
  ASSUME NEW S, NEW s \in Seq(S), NEW t \in Seq(S), Covered(t),
         \A i \in 1..Len(s) : s[i].op # "local"
  PROVE  Covered(s \o t)
<1> DEFINE u == s \o t
           n == Len(s)
           m == Len(t)
<1>1. /\ Len(u) = n + m /\ n \in Nat /\ m \in Nat
      /\ \A i \in 1..(n + m) : u[i] = IF i <= n THEN s[i] ELSE t[i - n]
  BY ConcatProperties, LenProperties
<1>2. \A i \in 1..m : t[i].op = "local" => /\ t[i].onErr = "answer"
                                            /\ i < m - 1 /\ t[m - 1].op = "write"
  BY DEF Covered
<1>3. \A i \in 1..n : s[i].op # "local"
  OBVIOUS
<1> HIDE DEF u, n, m
<1>4. ASSUME NEW i \in 1..Len(u), u[i].op = "local"
      PROVE  u[i].onErr = "answer" /\ i < Len(u) - 1 /\ u[Len(u) - 1].op = "write"
  <2>1. ~(i <= n)
    <3> SUFFICES ASSUME i <= n PROVE FALSE
      OBVIOUS
    <3>1. i \in 1..n /\ u[i] = s[i]
      BY <1>1
    <3> QED
      BY <1>3, <1>4, <3>1
  <2>2. i - n \in 1..m /\ u[i] = t[i - n]
    BY <1>1, <2>1
  <2>3. t[i - n].onErr = "answer" /\ i - n < m - 1 /\ t[m - 1].op = "write"
    BY <1>2, <1>4, <2>2
  <2>4. n + m - 1 \in 1..(n + m) /\ ~(n + m - 1 <= n) /\ n + m - 1 - n = m - 1
    BY <1>1, <2>2, <2>3
  <2>5. u[n + m - 1] = t[m - 1]
    BY <1>1, <2>4
  <2> QED
    BY <1>1, <2>2, <2>3, <2>5
<1> QED
  BY <1>4 DEF Covered, u

LEMMA ReadBlobsCovered ==
  ASSUME NEW blocks \in Seq(Nat)
  PROVE  Covered(readBlobs(blocks))
<1> DEFINE T == Seq(AskingOp)
           list == Read(Anything, "answer")
           get == list \o Local("answer")
           one == get \o Say(BlockOK)
           front(i) == get \o Repeat(blocks[i], one)
           once == [i \in DOMAIN blocks |-> front(i) \o Say(BlobOK)]
           n == Len(blocks)
<1>1. /\ \A s, t \in T : s \o t \in T
      /\ \A m \in Nat, s \in T : Repeat(m, s) \in T
      /\ Say(BlockOK) \in T /\ Say(BlobOK) \in T /\ list \in T /\ Local("answer") \in T
      /\ BlobOK \in Payload \ {SyncOK}
  BY AskingTyped, ServerPayloads DEF AskingOp
<1>2. /\ DOMAIN blocks = 1..n /\ n \in Nat /\ \A i \in DOMAIN blocks : blocks[i] \in Nat
  BY LenProperties
<1>10. Len(list) = 1 /\ list[1].op = "read"
  BY DEF Read
<1>11. readBlobs(blocks) = list \o FlattenSeq(once)
  BY DEF readBlobs
<1> HIDE DEF T, list
<1>3. \A i \in 1..n : front(i) \in T /\ front(i) \o Say(BlobOK) \in T
  <2> TAKE i \in 1..n
  <2>1. get \in T
    BY <1>1
  <2> HIDE DEF get
  <2>2. one \in T
    BY <1>1, <2>1
  <2> HIDE DEF one
  <2>3. Repeat(blocks[i], one) \in T
    BY <1>1, <1>2, <2>2
  <2> QED
    BY <1>1, <2>1, <2>3
<1> HIDE DEF front
<1>4. once \in [1..n -> T]
  BY <1>2, <1>3
<1>5. \A i \in 1..n : once[i] = front(i) \o Say(BlobOK)
  BY <1>2
<1> HIDE DEF once, n
<1>6. CASE n = 0
  <2>1. FlattenSeq(once) = <<>>
    <3>1. once \in Seq(T) /\ Len(once) = 0
      BY <1>4, <1>6
    <3> QED
      BY <3>1 DEF FlattenSeq
  <2>2. <<>> \in T /\ Covered(<<>>)
    BY DEF T, Covered
  <2>3. \A i \in 1..Len(list) : list[i].op # "local"
    <3>1. \A i \in 1..1 : i = 1
      OBVIOUS
    <3> QED
      BY <1>10, <3>1
  <2>4. Covered(list \o <<>>)
    BY <1>1, <2>2, <2>3, CoveredBehind DEF T
  <2> QED
    BY <1>11, <2>1, <2>4
<1>7. CASE n # 0
  <2>0. n \in Nat \ {0}
    BY <1>2, <1>7
  <2>1. PICK f \in [1..n -> T] : Flattens(f, once, n) /\ FlattenSeq(once) = f[n]
    BY <1>4, <2>0, FlattenIs DEF T
  <2>2. PICK y \in T : FlattenSeq(once) = y \o Say(BlobOK)
    <3>0. n \in 1..n
      BY <2>0
    <3>1. f[n] = IF n = 1 THEN once[n] ELSE f[n - 1] \o once[n]
      <4>1. \A i \in 1..n : f[i] = IF i = 1 THEN once[i] ELSE f[i - 1] \o once[i]
        BY <2>1, Zenon DEF Flattens
      <4> QED
        BY <3>0, <4>1
    <3>2. CASE n = 1
      BY <1>3, <1>5, <2>1, <3>0, <3>1, <3>2
    <3>3. CASE n # 1
      <4>1. n - 1 \in 1..n
        BY <2>0, <3>3
      <4>2. f[n - 1] \in T /\ front(n) \in T
        BY <1>3, <2>1, <3>0, <4>1
      <4>3. f[n - 1] \o front(n) \in T
        BY <1>1, <4>2
      <4>4. (f[n - 1] \o front(n)) \o Say(BlobOK) = f[n - 1] \o (front(n) \o Say(BlobOK))
        <5> DEFINE a == f[n - 1]
                   b == front(n)
                   c == Say(BlobOK)
        <5>1. a \in Seq(AskingOp) /\ b \in Seq(AskingOp) /\ c \in Seq(AskingOp)
          BY <1>1, <4>2 DEF T
        <5> HIDE DEF a, b, c
        <5>2. (a \o b) \o c = a \o (b \o c)
          BY <5>1, Grouped
        <5> QED
          BY <5>2 DEF a, b, c
      <4> QED
        BY <1>5, <2>1, <3>0, <3>1, <3>3, <4>3, <4>4
    <3> QED
      BY <3>2, <3>3
  <2>3. list \o y \in T
    BY <1>1, <2>2
  <2>4. Covered((list \o y) \o Say(BlobOK))
    BY <1>1, <2>3, CoveredByWord DEF T
  <2>5. (list \o y) \o Say(BlobOK) = list \o (y \o Say(BlobOK))
    <3> DEFINE c == Say(BlobOK)
    <3>1. list \in Seq(AskingOp) /\ y \in Seq(AskingOp) /\ c \in Seq(AskingOp)
      BY <1>1, <2>2 DEF T
    <3> HIDE DEF c
    <3>2. (list \o y) \o c = list \o (y \o c)
      BY <3>1, Grouped
    <3> QED
      BY <3>2 DEF c
  <2> QED
    BY <1>11, <2>2, <2>4, <2>5
<1> QED
  BY <1>6, <1>7

(* What the last word F of an accepting end means: the dialling end waits  *)
(* for it; the other one writes it at its end, when it has read as often   *)
(* as it has been written to and written as often as it is read.  A read   *)
(* that fails brings it there at most, and a file that fails brings it     *)
(* there past an answer.                                                   *)
Accepting(cs, vs) ==
  /\ vs[Len(vs)].op = "flush"
  /\ CallsOf(vs, "read") = CallsOf(cs, "write")
  /\ CallsOf(vs, "write") = CallsOf(cs, "read")

Dialogue(cs, vs, F) ==
  /\ cs \in Seq(ClientOp) /\ Len(cs) > 0
  /\ cs[Len(cs)].op = "read" /\ cs[Len(cs)].want \in {Anything, {F}}
  /\ \A i \in 1..Len(vs) :
       /\ vs[i].op = "read" => /\ vs[i].want = Anything
                               /\ vs[i].onErr = "answer" => i < Len(vs) - 1
       /\ vs[i].op = "local" => /\ vs[i].onErr = "answer"
                                /\ i < Len(vs) - 3 /\ vs[Len(vs) - 3].op = "write"
       /\ vs[i].op = "write" /\ (vs[i].payload = F \/ cs[Len(cs)].want = Anything) =>
            vs[i].payload = F /\ i = Len(vs) - 1 /\ Accepting(cs, vs)

(* What is put behind a sequence is its last element.                      *)
LEMMA LastCall ==
  ASSUME NEW S, NEW s \in Seq(S), NEW t \in Seq(S), Len(t) = 1
  PROVE  Len(s \o t) = Len(s) + 1 /\ Len(s \o t) > 0 /\ (s \o t)[Len(s \o t)] = t[1]
<1>1. Len(s) \in Nat
  BY LenProperties
<1>2. Len(s \o t) = Len(s) + 1
  <2>1. Len(s \o t) = Len(s) + Len(t)
    BY Joined
  <2> QED
    BY <2>1
<1>3. Len(s) + 1 \in 1..(Len(s) + Len(t)) /\ ~(Len(s) + 1 <= Len(s)) /\ Len(s) + 1 - Len(s) = 1
  BY <1>1
<1>4. (s \o t)[Len(s) + 1] = t[Len(s) + 1 - Len(s)]
  BY <1>3, ConcatProperties
<1> QED
  BY <1>1, <1>2, <1>3, <1>4

(* Both dialling ends finish with a read.                                  *)
LEMMA ClientEnds ==
  /\ \A blocks \in Seq(Nat), m \in Payload :
       LET s == syncMsgs(blocks, m) IN
       /\ s \in Seq(ClientOp) /\ Len(s) > 0
       /\ s[Len(s)].op = "read" /\ s[Len(s)].want = {SyncOK}
  /\ LET s == createPeerViaContactID IN
     /\ s \in Seq(ClientOp) /\ Len(s) > 0
     /\ s[Len(s)].op = "read" /\ s[Len(s)].want = Anything
<1> DEFINE T == Seq(ClientOp)
<1>1. /\ \A s, t \in T : s \o t \in T
      /\ \A p \in Payload : Write(p) \in T /\ Say(p) \in T /\ expectResponse(p) \in T
      /\ Read(Anything, "return") \in T
  BY CallsTyped DEF ClientOp
<1>2. \A blocks \in Seq(Nat) : sendBlobs(blocks) \in T
  BY SendBlobsReturns
<1>3. \A s, t \in T : Len(t) = 1 =>
        Len(s \o t) = Len(s) + 1 /\ Len(s \o t) > 0 /\ (s \o t)[Len(s \o t)] = t[1]
  BY LastCall
<1> HIDE DEF T
<1>4. /\ Write(Fingerprint) \in T /\ Say(Signature) \in T /\ Say(RoomID) \in T
      /\ expectResponse(AuthOK) \in T /\ expectResponse(MessagesOK) \in T
      /\ expectResponse(SyncOK) \in T /\ Say(ContactRequest) \in T
  BY <1>1, Payloads
<1>5. fingerprintChallenge \in T
  BY <1>1, <1>4 DEF fingerprintChallenge
<1>6. ASSUME NEW blocks \in Seq(Nat), NEW m \in Payload
      PROVE  LET s == syncMsgs(blocks, m) IN
             s \in T /\ Len(s) > 0 /\ s[Len(s)].op = "read" /\ s[Len(s)].want = {SyncOK}
  <2> DEFINE before == fingerprintChallenge \o Say(RoomID)
                         \o expectResponse(AuthOK) \o Read(Anything, "return")
                         \o Say(m) \o expectResponse(MessagesOK)
                         \o sendBlobs(blocks)
             last == expectResponse(SyncOK)
  <2>1. before \in T
    BY <1>1, <1>2, <1>4, <1>5
  <2>2. syncMsgs(blocks, m) = before \o last
    BY DEF syncMsgs
  <2>3. Len(last) = 1 /\ last[1].op = "read" /\ last[1].want = {SyncOK} /\ last \in T
    BY <1>4 DEF expectResponse, Read
  <2> HIDE DEF before, last
  <2>4. before \o last \in T /\ Len(before \o last) > 0
        /\ (before \o last)[Len(before \o last)] = last[1]
    BY <1>1, <1>3, <2>1, <2>3
  <2> QED
    BY <2>2, <2>3, <2>4
<1>7. LET s == createPeerViaContactID IN
      s \in T /\ Len(s) > 0 /\ s[Len(s)].op = "read" /\ s[Len(s)].want = Anything
  <2> DEFINE before == Say(ContactRequest)
             last == Read(Anything, "return")
  <2>1. createPeerViaContactID = before \o last
    BY DEF createPeerViaContactID
  <2>2. before \in T /\ last \in T
    BY <1>1, <1>4
  <2>3. Len(last) = 1 /\ last[1].op = "read" /\ last[1].want = Anything
    BY DEF Read
  <2> HIDE DEF before, last
  <2>4. before \o last \in T /\ Len(before \o last) > 0
        /\ (before \o last)[Len(before \o last)] = last[1]
    BY <1>1, <1>3, <2>2, <2>3
  <2> QED
    BY <2>1, <2>3, <2>4
<1> QED
  BY <1>6, <1>7 DEF T

(* A refusal is not the word that the dialling end waits for.              *)
LEMMA RefusalDialogue ==
  ASSUME NEW cs \in Seq(ClientOp), Len(cs) > 0,
         cs[Len(cs)].op = "read", cs[Len(cs)].want = {SyncOK},
         NEW vs \in Seq(Asking({"return", "next"}))
  PROVE  Dialogue(cs, vs, SyncOK)
<1>1. {SyncOK} # Anything
  BY DEF Anything
<1>2. ASSUME NEW i \in 1..Len(vs)
      PROVE  /\ vs[i].op = "read" => vs[i].want = Anything /\ vs[i].onErr # "answer"
             /\ vs[i].op = "write" => vs[i].payload # SyncOK
             /\ vs[i].op # "local"
  <2>1. vs[i] \in Asking({"return", "next"})
    BY ElementOfSeq
  <2> QED
    BY <2>1 DEF Asking
<1> QED
  BY <1>1, <1>2 DEF Dialogue

(* Behind other calls, the word and its flush come last.                   *)
LEMMA AnswerDialogue ==
  ASSUME NEW cs \in Seq(ClientOp), Len(cs) > 0,
         NEW F \in Payload,
         cs[Len(cs)].op = "read", cs[Len(cs)].want \in {Anything, {F}},
         NEW before \in Seq(Op),
         \A i \in 1..Len(before) :
           /\ before[i].op = "read" => before[i].want = Anything
           /\ before[i].op = "write" =>
                before[i].payload # F /\ cs[Len(cs)].want # Anything,
         Covered(before),
         CallsOf(before, "read") = CallsOf(cs, "write"),
         CallsOf(before, "write") + 1 = CallsOf(cs, "read")
  PROVE  Dialogue(cs, before \o Say(F), F)
<1> DEFINE vs == before \o Say(F)
           n == Len(before)
<1>1. Say(F) \in Seq(Op) /\ Len(Say(F)) = 2 /\ n \in Nat
  BY OpTyped, LenProperties DEF Op
<1>2. Say(F)[1] = [op |-> "write", payload |-> F] /\ Say(F)[2] = [op |-> "flush"]
  BY DEF Say, Write, Flush
<1>3. /\ vs \in Seq(Op) /\ Len(vs) = n + 2
      /\ \A i \in 1..n : vs[i] = before[i]
      /\ vs[n + 1] = Say(F)[1] /\ vs[n + 2] = Say(F)[2]
  <2>1. PICK t \in Seq(Op) : t = Say(F) /\ Len(t) = 2
    BY <1>1
  <2>2. /\ vs \in Seq(Op) /\ Len(vs) = n + Len(t) /\ n \in Nat
        /\ \A i \in 1..(n + Len(t)) : vs[i] = IF i <= n THEN before[i] ELSE t[i - n]
    BY <1>1, <2>1, ConcatProperties
  <2> HIDE DEF n, vs
  <2>3. \A i \in 1..(n + 2) : vs[i] = IF i <= n THEN before[i] ELSE t[i - n]
    BY <2>1, <2>2
  <2>4. vs[n + 1] = t[1]
    <3>1. n + 1 \in 1..(n + 2) /\ ~(n + 1 <= n) /\ n + 1 - n = 1
      BY <2>2
    <3>2. vs[n + 1] = IF n + 1 <= n THEN before[n + 1] ELSE t[n + 1 - n]
      BY <2>2, <2>3, <3>1
    <3> QED
      BY <2>2, <3>1, <3>2
  <2>5. vs[n + 2] = t[2]
    <3>1. n + 2 \in 1..(n + 2) /\ ~(n + 2 <= n) /\ n + 2 - n = 2
      BY <2>2
    <3>2. vs[n + 2] = IF n + 2 <= n THEN before[n + 2] ELSE t[n + 2 - n]
      BY <2>2, <2>3, <3>1
    <3> QED
      BY <2>2, <3>1, <3>2
  <2>6. \A i \in 1..n : vs[i] = before[i]
    BY <2>2, <2>3
  <2> QED
    BY <2>1, <2>2, <2>4, <2>5, <2>6
<1>4. CallsOf(vs, "read") = CallsOf(before, "read")
      /\ CallsOf(vs, "write") = CallsOf(before, "write") + 1
  <2>1. /\ CallsOf(vs, "read") = CallsOf(before, "read") + CallsOf(Say(F), "read")
        /\ CallsOf(vs, "write") = CallsOf(before, "write") + CallsOf(Say(F), "write")
        /\ CallsOf(before, "read") \in Nat
    BY <1>1, CallsJoined
  <2>2. CallsOf(Say(F), "read") = 0 /\ CallsOf(Say(F), "write") = 1
    BY CallsOfWrites
  <2> QED
    BY <2>1, <2>2
<1> HIDE DEF vs, n
<1>5. vs[n + 1] = [op |-> "write", payload |-> F] /\ vs[n + 2] = [op |-> "flush"]
  BY <1>2, <1>3
<1>6. Accepting(cs, vs)
  BY <1>3, <1>4, <1>5 DEF Accepting
<1>7. ASSUME NEW i \in 1..Len(vs)
      PROVE  /\ vs[i].op = "read" => /\ vs[i].want = Anything
                                     /\ vs[i].onErr = "answer" => i < Len(vs) - 1
             /\ vs[i].op = "local" => /\ vs[i].onErr = "answer"
                                      /\ i < Len(vs) - 3 /\ vs[Len(vs) - 3].op = "write"
             /\ vs[i].op = "write" /\ (vs[i].payload = F \/ cs[Len(cs)].want = Anything) =>
                  vs[i].payload = F /\ i = Len(vs) - 1
  <2>1. i \in 1..n \/ i = n + 1 \/ i = n + 2
    BY <1>1, <1>3
  <2>2. CASE i \in 1..n
    <3>1. vs[i] = before[i]
      BY <1>1, <1>3, <2>2
    <3>2. ASSUME vs[i].op = "local"
          PROVE  vs[i].onErr = "answer" /\ i < Len(vs) - 3 /\ vs[Len(vs) - 3].op = "write"
      <4>1. vs[i].onErr = "answer" /\ i < n - 1 /\ before[n - 1].op = "write"
        BY <2>2, <3>1, <3>2 DEF Covered, n
      <4>2. n - 1 \in 1..n /\ Len(vs) - 3 = n - 1
        BY <1>1, <1>3, <2>2, <4>1
      <4>3. vs[n - 1] = before[n - 1]
        BY <1>3, <4>2
      <4> QED
        BY <4>1, <4>2, <4>3
    <3> QED
      BY <1>1, <1>3, <2>2, <3>1, <3>2 DEF n
  <2>3. CASE i = n + 1
    BY <1>1, <1>3, <1>5, <2>3
  <2>4. CASE i = n + 2
    BY <1>1, <1>3, <1>5, <2>4
  <2> QED
    BY <2>1, <2>2, <2>3, <2>4
<1>8. Dialogue(cs, vs, F)
  BY <1>6, <1>7 DEF Dialogue
<1> QED
  BY <1>8 DEF vs

(* How often the dialling end writes and reads before and after the batch, *)
(* and the accepting end reads and writes.                                 *)
LEMMA SyncCalls ==
  ASSUME NEW blocks \in Seq(Nat), NEW m \in Payload
  PROVE  LET before == readFingerprintWithChallenge \o Read(Anything, "return")
                         \o Write(AuthOK) \o Say(SyncState) \o Read(Anything, "next")
                         \o Say(MessagesOK) \o readBlobs(blocks)
         IN  /\ before \in Seq(AskingOp) /\ before \in Seq(Op) /\ Covered(before)
             /\ CallsOf(before, "read") = CallsOf(syncMsgs(blocks, m), "write")
             /\ CallsOf(before, "write") + 1 = CallsOf(syncMsgs(blocks, m), "read")
<1> DEFINE T == Seq(Op)
           A == Seq(AskingOp)
<1>1. A \subseteq T
  <2>1. AskingOp \subseteq Op
    BY DEF AskingOp, Asking, Op, OpType, Anything
  <2> QED
    BY <2>1, SeqMonotonic
<1>2. \A o : \A s, t \in T : /\ s \o t \in T /\ CallsOf(s, o) \in Nat
                              /\ CallsOf(s \o t, o) = CallsOf(s, o) + CallsOf(t, o)
  BY CallsJoined, ConcatProperties
<1>3. \A p \in Payload, o \in {"read", "write"} :
        /\ Write(p) \in T /\ Say(p) \in T /\ expectResponse(p) \in T
        /\ CallsOf(Write(p), o) = IF o = "write" THEN 1 ELSE 0
        /\ CallsOf(Say(p), o) = IF o = "write" THEN 1 ELSE 0
        /\ CallsOf(expectResponse(p), o) = IF o = "read" THEN 1 ELSE 0
  <2>1. \A p \in Payload : Write(p) \in T /\ Say(p) \in T /\ expectResponse(p) \in T
    BY CallsTyped DEF Op
  <2> HIDE DEF T
  <2> QED
    BY <2>1, CallsOfWrites, CallsOfReads DEF expectResponse
<1>4. \A onErr \in {"return", "next"}, o \in {"read", "write"} :
        /\ Read(Anything, onErr) \in T
        /\ CallsOf(Read(Anything, onErr), o) = IF o = "read" THEN 1 ELSE 0
  <2>1. \A onErr \in {"return", "next"} : Read(Anything, onErr) \in T
    BY CallsTyped DEF Op
  <2> HIDE DEF T
  <2> QED
    BY <2>1, CallsOfReads
<1> HIDE DEF T
(* The accepting end.                                                      *)
<1> DEFINE a1 == Say(Challenge) \o Read(Anything, "return")
           a2 == a1 \o Read(Anything, "return")
           a3 == a2 \o Read(Anything, "return")
           a4 == a3 \o Write(AuthOK)
           a5 == a4 \o Say(SyncState)
           a6 == a5 \o Read(Anything, "next")
           a7 == a6 \o Say(MessagesOK)
           a8 == a7 \o readBlobs(blocks)
           c1 == Read(Anything, "return") \o Write(Fingerprint)
           c2 == c1 \o Say(Signature)
           c3 == c2 \o Say(RoomID)
           c4 == c3 \o expectResponse(AuthOK)
           c5 == c4 \o Read(Anything, "return")
           c6 == c5 \o Say(m)
           c7 == c6 \o expectResponse(MessagesOK)
           c8 == c7 \o sendBlobs(blocks)
           c9 == c8 \o expectResponse(SyncOK)
<1>5. a8 = readFingerprintWithChallenge \o Read(Anything, "return")
             \o Write(AuthOK) \o Say(SyncState) \o Read(Anything, "next")
             \o Say(MessagesOK) \o readBlobs(blocks)
  BY DEF readFingerprintWithChallenge
<1>6. c9 = syncMsgs(blocks, m)
  BY DEF syncMsgs, fingerprintChallenge
<1>7. a8 \in A
  <2>1. /\ \A s, t \in A : s \o t \in A
        /\ \A p \in {Challenge, AuthOK, SyncState, MessagesOK} : Write(p) \in A /\ Say(p) \in A
        /\ Read(Anything, "return") \in A /\ Read(Anything, "next") \in A
        /\ readBlobs(blocks) \in A
    BY AskingTyped, ServerPayloads, ReadBlobsAsking DEF AskingOp
  <2> HIDE DEF A
  <2>2. a4 \in A
    BY <2>1
  <2> QED
    BY <2>1, <2>2
<1>8. readBlobs(blocks) \in T /\ sendBlobs(blocks) \in T
  <2>1. ClientOp \subseteq Op
    BY DEF ClientOp, Op, OpType
  <2>2. Seq(ClientOp) \subseteq Seq(Op)
    BY <2>1, SeqMonotonic
  <2> QED
    BY <2>2, <1>1, ReadBlobsAsking, SendBlobsReturns DEF T
<1> HIDE DEF A
<1>9. /\ CallsOf(a8, "read") = 4 + CallsOf(readBlobs(blocks), "read")
      /\ CallsOf(a8, "write") = 4 + CallsOf(readBlobs(blocks), "write")
  <2>1. a1 \in T /\ CallsOf(a1, "read") = 1 /\ CallsOf(a1, "write") = 1
    BY <1>2, <1>3, <1>4, Payloads
  <2> HIDE DEF a1
  <2>2. a2 \in T /\ CallsOf(a2, "read") = 2 /\ CallsOf(a2, "write") = 1
    BY <1>2, <1>4, <2>1
  <2> HIDE DEF a2
  <2>3. a3 \in T /\ CallsOf(a3, "read") = 3 /\ CallsOf(a3, "write") = 1
    BY <1>2, <1>4, <2>2
  <2> HIDE DEF a3
  <2>4. a4 \in T /\ CallsOf(a4, "read") = 3 /\ CallsOf(a4, "write") = 2
    BY <1>2, <1>3, <2>3, Payloads
  <2> HIDE DEF a4
  <2>5. a5 \in T /\ CallsOf(a5, "read") = 3 /\ CallsOf(a5, "write") = 3
    BY <1>2, <1>3, <2>4, Payloads
  <2> HIDE DEF a5
  <2>6. a6 \in T /\ CallsOf(a6, "read") = 4 /\ CallsOf(a6, "write") = 3
    BY <1>2, <1>4, <2>5
  <2> HIDE DEF a6
  <2>7. a7 \in T /\ CallsOf(a7, "read") = 4 /\ CallsOf(a7, "write") = 4
    BY <1>2, <1>3, <2>6, Payloads
  <2> HIDE DEF a7
  <2> QED
    BY <1>2, <1>8, <2>7
<1>10. /\ CallsOf(c9, "write") = 4 + CallsOf(sendBlobs(blocks), "write")
       /\ CallsOf(c9, "read") = 5 + CallsOf(sendBlobs(blocks), "read")
  <2>1. c1 \in T /\ CallsOf(c1, "write") = 1 /\ CallsOf(c1, "read") = 1
    BY <1>2, <1>3, <1>4, Payloads
  <2> HIDE DEF c1
  <2>2. c2 \in T /\ CallsOf(c2, "write") = 2 /\ CallsOf(c2, "read") = 1
    BY <1>2, <1>3, <2>1, Payloads
  <2> HIDE DEF c2
  <2>3. c3 \in T /\ CallsOf(c3, "write") = 3 /\ CallsOf(c3, "read") = 1
    BY <1>2, <1>3, <2>2, Payloads
  <2> HIDE DEF c3
  <2>4. c4 \in T /\ CallsOf(c4, "write") = 3 /\ CallsOf(c4, "read") = 2
    BY <1>2, <1>3, <2>3, Payloads
  <2> HIDE DEF c4
  <2>5. c5 \in T /\ CallsOf(c5, "write") = 3 /\ CallsOf(c5, "read") = 3
    BY <1>2, <1>4, <2>4
  <2> HIDE DEF c5
  <2>6. c6 \in T /\ CallsOf(c6, "write") = 4 /\ CallsOf(c6, "read") = 3
    BY <1>2, <1>3, <2>5
  <2> HIDE DEF c6
  <2>7. c7 \in T /\ CallsOf(c7, "write") = 4 /\ CallsOf(c7, "read") = 4
    BY <1>2, <1>3, <2>6, Payloads
  <2> HIDE DEF c7
  <2>8. /\ c8 \in T /\ CallsOf(c8, "write") = 4 + CallsOf(sendBlobs(blocks), "write")
        /\ CallsOf(c8, "read") = 4 + CallsOf(sendBlobs(blocks), "read")
    BY <1>2, <1>8, <2>7
  <2> HIDE DEF c8
  <2>9. CallsOf(sendBlobs(blocks), "read") \in Nat
    BY <1>2, <1>8
  <2> QED
    BY <1>2, <1>3, <1>8, <2>8, <2>9, Payloads
<1>11. /\ CallsOf(readBlobs(blocks), "read") = CallsOf(sendBlobs(blocks), "write")
       /\ CallsOf(readBlobs(blocks), "write") = CallsOf(sendBlobs(blocks), "read")
  BY BlobCalls
<1>12. Covered(a8)
  <2> DEFINE P == Seq(Asking({"return", "next"}))
  <2>1. /\ \A s, t \in P : s \o t \in P
        /\ \A p \in {Challenge, AuthOK, SyncState, MessagesOK} : Write(p) \in P /\ Say(p) \in P
        /\ Read(Anything, "return") \in P /\ Read(Anything, "next") \in P
    BY AskingTyped, ServerPayloads
  <2>2. P \subseteq A
    <3>1. Asking({"return", "next"}) \subseteq AskingOp
      BY DEF AskingOp, Asking
    <3> QED
      BY <3>1, SeqMonotonic DEF A
  <2>3. readBlobs(blocks) \in A
    BY ReadBlobsAsking DEF A
  <2> HIDE DEF P
  <2>4. a4 \in P
    BY <2>1
  <2> HIDE DEF a4
  <2>5. a7 \in P
    BY <2>1, <2>4
  <2> HIDE DEF a7
  <2>6. \A i \in 1..Len(a7) : a7[i].op # "local"
    <3> TAKE i \in 1..Len(a7)
    <3>1. a7[i] \in Asking({"return", "next"})
      BY <2>5, ElementOfSeq DEF P
    <3> QED
      BY <3>1 DEF Asking
  <2>7. a7 \in Seq(AskingOp) /\ readBlobs(blocks) \in Seq(AskingOp) /\ Covered(readBlobs(blocks))
    BY <2>2, <2>3, <2>5, ReadBlobsCovered DEF A
  <2> QED
    BY <2>6, <2>7, CoveredBehind
<1>13. CallsOf(sendBlobs(blocks), "read") \in Nat
  BY <1>2, <1>8
<1> HIDE DEF a8, c9
<1> QED
  BY <1>1, <1>5, <1>6, <1>7, <1>9, <1>10, <1>11, <1>12, <1>13 DEF T, A

(* Every answer to a sync is a refusal, or says SyncOK at its end.         *)
LEMMA SyncDialogues ==
  ASSUME NEW blocks \in Seq(Nat), NEW m \in Payload, NEW vs \in convClientHandler(blocks)
  PROVE  Dialogue(syncMsgs(blocks, m), vs, SyncOK)
<1> DEFINE cs == syncMsgs(blocks, m)
           T == Seq(Asking({"return", "next"}))
           authenticate == readFingerprintWithChallenge \o Read(Anything, "return")
           refuseMessages(n) == authenticate \o Write(AuthOK) \o Say(SyncState)
                                  \o Read(Anything, "next") \o Write(Incompressible(n))
           before == authenticate \o Write(AuthOK) \o Say(SyncState) \o Read(Anything, "next")
                       \o Say(MessagesOK) \o readBlobs(blocks)
<1>1. /\ cs \in Seq(ClientOp) /\ Len(cs) > 0
      /\ cs[Len(cs)].op = "read" /\ cs[Len(cs)].want = {SyncOK}
  BY ClientEnds
<1>2. vs \in {readFingerprintWithChallenge \o Write(Refusal), authenticate \o Write(Refusal),
              refuseMessages(7), refuseMessages(MaxMsgSize + 1), before \o Say(SyncOK)}
  BY DEF convClientHandler
<1>3. /\ \A s, t \in T : s \o t \in T
      /\ \A p \in Payload \ {SyncOK} : Write(p) \in T /\ Say(p) \in T
      /\ Read(Anything, "return") \in T /\ Read(Anything, "next") \in T
  BY AskingTyped
<1>4. /\ before \in Seq(AskingOp) /\ before \in Seq(Op) /\ Covered(before)
      /\ CallsOf(before, "read") = CallsOf(cs, "write")
      /\ CallsOf(before, "write") + 1 = CallsOf(cs, "read")
  BY SyncCalls
<1> HIDE DEF T, cs, before
<1>5. readFingerprintWithChallenge \in T
  BY <1>3, ServerPayloads DEF readFingerprintWithChallenge
<1>6. authenticate \in T
  BY <1>3, <1>5
<1> HIDE DEF authenticate
<1>7. readFingerprintWithChallenge \o Write(Refusal) \in T /\ authenticate \o Write(Refusal) \in T
  BY <1>3, <1>5, <1>6, ServerPayloads
<1>8. \A n \in Nat : refuseMessages(n) \in T
  <2>1. authenticate \o Write(AuthOK) \o Say(SyncState) \o Read(Anything, "next") \in T
    BY <1>3, <1>6, ServerPayloads
  <2>2. \A n \in Nat : Write(Incompressible(n)) \in T
    BY <1>3, ServerPayloads
  <2> QED
    BY <1>3, <2>1, <2>2
<1>9. MaxMsgSize + 1 \in Nat /\ 7 \in Nat
  BY ConstantsAssumption
<1> HIDE DEF refuseMessages
<1>10. vs \in T \/ vs = before \o Say(SyncOK)
  BY <1>2, <1>7, <1>8, <1>9
<1>11. CASE vs \in T
  <2>1. Dialogue(cs, vs, SyncOK)
    BY <1>1, <1>11, RefusalDialogue DEF T
  <2> QED
    BY <2>1 DEF cs
<1>12. CASE vs = before \o Say(SyncOK)
  <2>1. SyncOK \in Payload /\ {SyncOK} # Anything
    BY Payloads DEF Anything
  <2>2. ASSUME NEW i \in 1..Len(before)
        PROVE  /\ before[i].op = "read" => before[i].want = Anything
               /\ before[i].op = "write" => before[i].payload # SyncOK
    <3>1. before[i] \in AskingOp
      BY <1>4, ElementOfSeq
    <3> QED
      BY <3>1 DEF AskingOp, Asking
  <2>3. Dialogue(cs, before \o Say(SyncOK), SyncOK)
    BY <1>1, <1>4, <2>1, <2>2, AnswerDialogue
  <2> QED
    BY <1>12, <2>3 DEF cs
<1> QED
  BY <1>10, <1>11, <1>12

(* A contact that is known says ContactResponse at its end, and nothing    *)
(* before.                                                                 *)
LEMMA ContactDialogues ==
  ASSUME NEW vs \in contClientHandler
  PROVE  Dialogue(createPeerViaContactID, vs, ContactResponse)
<1> DEFINE cs == createPeerViaContactID
           r == Read(Anything, "return")
<1>1. /\ cs \in Seq(ClientOp) /\ Len(cs) > 0
      /\ cs[Len(cs)].op = "read" /\ cs[Len(cs)].want = Anything
  BY ClientEnds
<1>2. vs = r \/ vs = r \o Say(ContactResponse)
  BY DEF contClientHandler
<1>3. r \in Seq(Op) /\ Len(r) = 1 /\ r[1].op = "read" /\ r[1].want = Anything
      /\ r[1].onErr = "return"
  <2>1. r \in Seq(Op)
    BY CallsTyped DEF Op
  <2> QED
    BY <2>1 DEF Read
<1>4. CallsOf(r, "read") = 1 /\ CallsOf(r, "write") = 0
  BY CallsOfReads
<1>5. CallsOf(cs, "write") = 1 /\ CallsOf(cs, "read") = 1
  <2>1. Say(ContactRequest) \in Seq(Op)
    BY CallsTyped, Payloads DEF Op
  <2>2. \A o : CallsOf(Say(ContactRequest) \o r, o) =
                CallsOf(Say(ContactRequest), o) + CallsOf(r, o)
    BY <1>3, <2>1, CallsJoined
  <2>3. CallsOf(Say(ContactRequest), "write") = 1 /\ CallsOf(Say(ContactRequest), "read") = 0
    BY CallsOfWrites, Payloads
  <2> QED
    BY <1>4, <2>2, <2>3 DEF createPeerViaContactID
<1> HIDE DEF cs, r
<1>6. CASE vs = r
  <2>1. \A i \in 1..Len(vs) : i = 1
    <3>1. \A i \in 1..1 : i = 1
      OBVIOUS
    <3> QED
      BY <1>3, <1>6, <3>1, Zenon
  <2>2. Dialogue(cs, vs, ContactResponse)
    BY <1>1, <1>3, <1>6, <2>1 DEF Dialogue
  <2> QED
    BY <2>2 DEF cs
<1>7. CASE vs = r \o Say(ContactResponse)
  <2>1. ContactResponse \in Payload
    BY Payloads
  <2>2. \A i \in 1..Len(r) : r[i].op = "read" /\ r[i].want = Anything
    BY <1>3
  <2>3. Dialogue(cs, r \o Say(ContactResponse), ContactResponse)
    <3>1. CallsOf(r, "read") = CallsOf(cs, "write") /\ CallsOf(r, "write") + 1 = CallsOf(cs, "read")
      BY <1>4, <1>5
    <3>2. Covered(r)
      BY <2>2 DEF Covered
    <3> QED
      BY <1>1, <1>3, <2>1, <2>2, <3>1, <3>2, AnswerDialogue
  <2> QED
    BY <1>7, <2>3 DEF cs
<1> QED
  BY <1>2, <1>6, <1>7

(* So every pair of scripts that Init allows is a dialogue.                *)
LEMMA Dialogues ==
  ASSUME Init
  PROVE  \E F \in Payload : Dialogue(script["client"], script["server"], F)
<1>1. CASE script \in Scripts(createPeerViaContactID, contClientHandler)
  <2>1. PICK s \in contClientHandler :
          script = [e \in End |-> IF e = "client" THEN createPeerViaContactID ELSE s]
    BY <1>1 DEF Scripts
  <2>2. script["client"] = createPeerViaContactID /\ script["server"] = s
    BY <2>1 DEF End
  <2> QED
    BY <2>2, ContactDialogues, Payloads
<1>2. ASSUME NEW b \in Blobs, NEW m \in {Messages, LargeMessages},
             script \in Scripts(syncMsgs(b, m), convClientHandler(b))
      PROVE  \E F \in Payload : Dialogue(script["client"], script["server"], F)
  <2>1. PICK s \in convClientHandler(b) :
          script = [e \in End |-> IF e = "client" THEN syncMsgs(b, m) ELSE s]
    BY <1>2 DEF Scripts
  <2>2. script["client"] = syncMsgs(b, m) /\ script["server"] = s
    BY <2>1 DEF End
  <2>3. b \in Seq(Nat) /\ m \in Payload
    BY ConstantsAssumption, BatchTyped
  <2> QED
    BY <2>2, <2>3, SyncDialogues, Payloads
<1> QED
  BY <1>1, <1>2 DEF Init

------------------------------------------------------------------------------
(* What a Read takes                                                       *)

(* A Read of a bytes inside a frame, and the one that ends it.             *)
Halfway(e, a) ==
  /\ Due(e)' = Due(e) /\ Taken(e)' = Taken(e) + a
  /\ pc' = pc /\ status' = status /\ got' = got

Whole(e, a) ==
  /\ Due(e) # <<>> /\ Due(e)' = Tail(Due(e))
  /\ Taken(e)' = 0 /\ Taken(e) + a = Len(Due(e)[1])
  /\ \E payload \in Seq(Byte) :
       /\ got' = [got EXCEPT ![e] = Append(@, payload)]
       /\ IF script[e][pc[e]].want = Anything \/ payload \in script[e][pc[e]].want
          THEN GoTo(e, pc[e] + 1) /\ status' = status
          ELSE Error(e)

(* A Read takes its bytes off the front, and ends the frame or not.        *)
LEMMA ReadAdvances ==
  ASSUME TypeInv, TypeInv', ~SplitHeaders, NEW e \in End, StreamAt(e),
         ReadLength(e) \/ ReadFlag(e) \/ ReadBody(e)
  PROVE  \E a \in 0..Len(Coming(e)) :
           /\ Coming(e)' = SubSeq(Coming(e), a + 1, Len(Coming(e)))
           /\ Halfway(e, a) \/ Whole(e, a)
<1>1. ASSUME NEW n \in Nat, Consume(e, n), Alive(e)' = Alive(e)
      PROVE  /\ Available(e, n) \in 0..Len(Coming(e))
             /\ Coming(e)' = SubSeq(Coming(e), Available(e, n) + 1, Len(Coming(e)))
  <2>1. wire' = wire /\ wbuf' = wbuf
    BY DEF ReadLength, ReadFlag, ReadBody
  <2> QED
    BY <1>1, <2>1, ConsumeComing
<1>2. Reading(e) /\ sent' = sent /\ broken' = broken
  BY DEF ReadLength, ReadFlag, ReadBody
<1>3. CASE ReadLength(e)
  <2>1. /\ Taken(e) = 0 /\ Available(e, 2) = 2 /\ frame'[e].at = "flag"
        /\ pc' = pc /\ status' = status
    BY <1>3, LengthComes
  <2>2. Consume(e, 2) /\ got' = got /\ 2 \in Nat
    BY <1>3 DEF ReadLength
  <2>3. Alive(e)' = Alive(e) /\ Due(e)' = Due(e) /\ Taken(e)' = Taken(e) + Available(e, 2)
    BY <1>2, <2>1, <2>2 DEF Alive, Due, Taken
  <2>4. Halfway(e, Available(e, 2))
    BY <2>1, <2>2, <2>3 DEF Halfway
  <2> QED
    BY <1>1, <2>2, <2>3, <2>4
<1>4. CASE ReadFlag(e)
  <2>1. /\ frame[e].at = "flag" /\ rbuf[e] # <<>> /\ Consume(e, 1) /\ got' = got /\ pc' = pc
        /\ status' = status /\ 1 \in Nat
        /\ \E set : frame' = [frame EXCEPT ![e].at = "body", ![e].compressed = set]
    BY <1>4 DEF ReadFlag
  <2>2. frame'[e].at = "body" /\ frame'[e].total = <<>>
    <3>1. frame'[e].at = "body" /\ frame'[e].total = frame[e].total
      BY <2>1, Typed DEF Locals
    <3> QED
      BY <2>1, <3>1, Unpacked
  <2>3. Available(e, 1) = 1
    <3>1. Len(rbuf[e]) \in Nat /\ Len(rbuf[e]) # 0
      BY <2>1, Typed, LenProperties, EmptySeq
    <3> QED
      BY <3>1 DEF Available
  <2>4. Alive(e)' = Alive(e) /\ Due(e)' = Due(e) /\ Taken(e)' = Taken(e) + Available(e, 1)
    BY <1>2, <2>1, <2>2, <2>3 DEF Alive, Due, Taken
  <2>5. Halfway(e, Available(e, 1))
    BY <2>1, <2>4 DEF Halfway
  <2> QED
    BY <1>1, <2>1, <2>4, <2>5
<1>5. CASE ReadBody(e)
  <2> DEFINE s == sent[Other(e)]
             n == Len(got[e])
             p == s[n + 1]
             rest == frame[e].need - Len(frame[e].total)
             total == frame[e].total \o Bytes(e, rest)
             payload == IF frame[e].compressed /\ Len(total) = 2 THEN Decompress(total) ELSE total
             want == script[e][pc[e]].want
  <2>1. frame[e].at = "body" /\ Consume(e, rest)
    BY <1>5 DEF ReadBody
  <2>2. Follows(e) /\ InTransit(e)
    BY <1>2, <2>1, NoFrameTyped, ReadingTyped DEF StreamAt, Ended
  <2>3. /\ n < Len(s) /\ p \in Fitting
        /\ frame[e].need = Len(Body(p)) /\ frame[e].compressed = IsCompressed(p)
        /\ Len(total) <= Len(Body(p))
        /\ \A i \in 1..Len(total) : total[i] = Body(p)[i]
        /\ Taken(e) + Available(e, rest) = 3 + Len(total)
    BY <2>1, <2>2, BodyStart
  <2>4. rest \in Nat /\ total \in Seq(Byte)
    BY BodyRead
  <2>5. Alive(e)' = Alive(e)
    <3>1. Other(e) \in End /\ Other(e) # e
      BY OtherEnd
    <3>2. Error(e) => status'[Other(e)] = status[Other(e)]
      BY <1>2, <3>1, ErrorTyped
    <3>3. ~Error(e) => status' = status
      BY <1>5 DEF ReadBody
    <3> QED
      BY <1>2, <3>2, <3>3 DEF Alive
  <2>6. s \in Seq(Fitting) /\ n \in Nat /\ Len(s) \in Nat /\ n \in 0..(Len(s) - 1)
    BY <2>2, <2>3, DueTyped
  <2>7. CASE Complete(e, total)
    <3>1. Len(total) = Len(Body(p)) /\ got' = [got EXCEPT ![e] = Append(@, payload)]
      BY <1>5, <2>3, <2>7 DEF Complete, ReadBody
    <3>2. IF want = Anything \/ payload \in want
          THEN frame' = [frame EXCEPT ![e] = NoFrame] /\ GoTo(e, pc[e] + 1) /\ status' = status
          ELSE Error(e)
      BY <1>5, <2>7 DEF ReadBody
    <3>3. payload \in Seq(Byte)
      <4>1. p \in Payload /\ Body(p) \in Seq(Byte)
        BY <2>3, FrameShape DEF Fitting
      <4>2. total = Body(p)
        <5> HIDE DEF total, p
        <5> QED
          BY <2>3, <2>4, <3>1, <4>1, SeqEqual
      <4> HIDE DEF total, p
      <4>3. payload = p
        BY <2>3, <4>1, <4>2, BodyGivesBack
      <4> QED
        BY <4>1, <4>3 DEF Payload
    <3> HIDE DEF payload, total
    <3>4. Len(got'[e]) = n + 1
      <4>1. got[e] \in Seq(Seq(Byte)) /\ got'[e] = Append(got[e], payload)
        BY <3>1, Unpacked
      <4> QED
        BY <3>3, <4>1, AppendProperties
    <3>5. Taken(e)' = 0
      <4>1. frame'[e] = NoFrame
        <5>1. CASE want = Anything \/ payload \in want
          BY <3>2, <5>1, Unpacked
        <5>2. CASE ~(want = Anything \/ payload \in want)
          BY <1>2, <3>2, <5>2, ErrorTyped
        <5> QED
          BY <5>1, <5>2
      <4> QED
        BY <4>1, NoFrameTyped DEF Taken
    <3>6. Due(e) # <<>> /\ Due(e)' = Tail(Due(e)) /\ Due(e)[1] = Frame(p)
      <4>1. Due(e) = Frames(s, n) /\ Due(e)' = Frames(s, n + 1)
        BY <1>2, <3>4 DEF Due
      <4> QED
        BY <2>6, <4>1, FramesNext
    <3>7. Taken(e) + Available(e, rest) = Len(Due(e)[1])
      <4>1. Len(Frame(p)) = 3 + Len(Body(p))
        BY <2>3, FrameShape
      <4> QED
        BY <2>3, <3>1, <3>6, <4>1
    <3>8. Whole(e, Available(e, rest))
      BY <3>1, <3>2, <3>3, <3>5, <3>6, <3>7 DEF Whole
    <3> QED
      BY <1>1, <2>1, <2>4, <2>5, <3>8
  <2>8. CASE ~Complete(e, total)
    <3>1. frame' = [frame EXCEPT ![e].total = total] /\ got' = got /\ status' = status /\ pc' = pc
      BY <1>5, <2>8 DEF ReadBody
    <3> HIDE DEF total
    <3>2. frame'[e].at = "body" /\ frame'[e].total = total
      BY <2>1, <3>1, Typed DEF Locals
    <3>3. Due(e)' = Due(e) /\ Taken(e)' = Taken(e) + Available(e, rest)
      BY <1>2, <2>3, <3>1, <3>2 DEF Due, Taken
    <3>4. Halfway(e, Available(e, rest))
      BY <3>1, <3>3 DEF Halfway
    <3> QED
      BY <1>1, <2>1, <2>4, <2>5, <3>4
  <2> QED
    BY <2>7, <2>8
<1> QED
  BY <1>3, <1>4, <1>5

------------------------------------------------------------------------------
(* The invariant of a success                                              *)

(* The accepting end has passed over an answer, after a call on a file that *)
(* has failed.                                                             *)
Silent == Len(sent["server"]) < Passed(script["server"], "write", pc["server"])

(* It has passed over a read, which has failed, and over no answer.        *)
Lost ==
  /\ Len(got["server"]) < Passed(script["server"], "read", pc["server"])
  /\ ~Silent

Answered(F) == \E i \in 1..Len(sent["server"]) : sent["server"][i] = F

(* A read of the accepting end fails only when the connection does, or the *)
(* dialling end is gone.                                                   *)
Excused == Lost => broken \/ status["client"] # "open"

(* What will never come: the last word, if it was written after a loss.    *)
Missing(F) ==
  \E y \in Seq(WireByte) :
    /\ Laid(Coming("client") \o y, Due("client"), Taken("client"), TRUE)
    /\ Lost /\ Answered(F) => y # <<>>

Short(F) == status["client"] = "open" /\ ~Alive("client") => Missing(F)

LEMMA ClientEnd == "client" \in End /\ "server" \in End /\ Other("client") = "server"
                   /\ Other("server") = "client"
BY DEF End, Other

(* While the connection is there, nothing is missing.                      *)
LEMMA MissingNow ==
  ASSUME TypeInv, StreamAt("client"), Excused, NEW F, Short(F), status["client"] = "open"
  PROVE  Missing(F)
<1>1. CASE ~Alive("client")
  BY <1>1 DEF Short
<1>2. CASE Alive("client")
  <2>1. InTransit("client")
    BY <1>2 DEF StreamAt, Ended
  <2>2. Alive("client") = TRUE
    BY <1>2
  <2>3. Laid(Coming("client"), Due("client"), Taken("client"), TRUE)
    BY <2>1, <2>2 DEF InTransit
  <2>4. Coming("client") \in Seq(WireByte)
    BY ClientEnd, ComingTyped
  <2>5. Coming("client") \o <<>> = Coming("client")
    BY <2>4, ConcatEmptySeq
  <2>6. ~Lost
    BY <1>2 DEF Excused, Alive
  <2>7. <<>> \in Seq(WireByte)
    OBVIOUS
  <2>8. Laid(Coming("client") \o <<>>, Due("client"), Taken("client"), TRUE)
    BY <2>3, <2>5
  <2> QED
    BY <2>6, <2>7, <2>8 DEF Missing
<1> QED
  BY <1>1, <1>2

(* More may get lost.                                                      *)
LEMMA ShortStays ==
  ASSUME TypeInv, StreamAt("client"), Excused, NEW F, Short(F),
         ~Alive("client")' => /\ rbuf'["client"] = rbuf["client"]
                              /\ wire'["client"] \in {wire["client"], <<>>},
         status'["client"] = "open" => status["client"] = "open",
         frame'["client"] = frame["client"], got'["client"] = got["client"],
         sent'["server"] = sent["server"], Lost' /\ Answered(F)' => Lost
  PROVE  Short(F)'
<1> SUFFICES ASSUME status'["client"] = "open", ~Alive("client")' PROVE Missing(F)'
  BY DEF Short
<1>1. Missing(F)
  BY MissingNow
<1>2. PICK y \in Seq(WireByte) :
        /\ Laid(Coming("client") \o y, Due("client"), Taken("client"), TRUE)
        /\ Lost /\ Answered(F) => y # <<>>
  BY <1>1 DEF Missing
<1>3. Due("client")' = Due("client") /\ Taken("client")' = Taken("client")
  BY ClientEnd DEF Due, Taken
<1>4. Lost' /\ Answered(F)' => Lost /\ Answered(F)
  BY DEF Answered
<1> DEFINE r == rbuf["client"]
           w == wire["client"]
           last == IF Alive("client") THEN wbuf["server"] ELSE <<>>
           x == Coming("client")
           z == Coming("client")'
           B == Seq(WireByte)
<1>5. r \in B /\ w \in B /\ last \in B /\ x \in B /\ <<>> \in B /\ y \in B
  <2>1. rbuf["client"] \in B /\ wire["client"] \in B /\ wbuf["server"] \in B
    BY ClientEnd, Typed
  <2>2. <<>> \in B
    OBVIOUS
  <2>3. Coming("client") \in B
    BY ClientEnd, ComingTyped
  <2> QED
    BY <2>1, <2>2, <2>3
<1>6. /\ \A s, t \in B : s \o t \in B
      /\ \A s, t, u \in B : (s \o t) \o u = s \o (t \o u)
      /\ \A s \in B : s \o <<>> = s /\ <<>> \o s = s
  <2>1. \A s, t \in B : s \o t \in B
    BY ConcatProperties
  <2>2. ASSUME NEW s \in B, NEW t \in B, NEW u \in B PROVE (s \o t) \o u = s \o (t \o u)
    <3>1. s \in Seq(WireByte) /\ t \in Seq(WireByte) /\ u \in Seq(WireByte)
      OBVIOUS
    <3> QED
      BY <3>1, Grouped, SMTT(30)
  <2>3. \A s \in B : s \o <<>> = s /\ <<>> \o s = s
    BY ConcatEmptySeq
  <2> QED
    BY <2>1, <2>2, <2>3
<1>7. x = (r \o w) \o last
  BY ClientEnd DEF Coming
<1>8. z = (r \o w) \o <<>> \/ z = (r \o <<>>) \o <<>>
  BY DEF Coming
<1>9. y # <<>> => \A u \in B : u \o y # <<>>
  <2>1. Len(y) \in Nat /\ (y # <<>> => Len(y) # 0)
    BY <1>5, EmptySeq, LenProperties
  <2>2. \A u \in B : Len(u) \in Nat /\ Len(u \o y) = Len(u) + Len(y)
    BY <1>5, ConcatProperties, LenProperties
  <2>3. Len(<<>>) = 0
    OBVIOUS
  <2> QED
    BY <2>1, <2>2, <2>3
<1> HIDE DEF r, w, last, x, z, B
<1>10. \E u \in B : x \o y = z \o (u \o y)
  <2>1. CASE z = (r \o w) \o <<>>
    <3>1. r \o w \in B
      BY <1>5, <1>6
    <3>2. z = r \o w
      BY <1>6, <2>1, <3>1
    <3>3. x \o y = z \o (last \o y)
      <4> DEFINE rw == r \o w
      <4>1. rw \in B /\ x = rw \o last /\ z = rw
        BY <1>7, <3>1, <3>2
      <4> HIDE DEF rw
      <4>2. (rw \o last) \o y = rw \o (last \o y)
        <5>1. rw \in Seq(WireByte) /\ last \in Seq(WireByte) /\ y \in Seq(WireByte)
          BY <1>5, <4>1 DEF B
        <5> QED
          BY <5>1, Grouped, SMTT(30)
      <4> QED
        BY <4>1, <4>2
    <3> QED
      BY <1>5, <3>3
  <2>2. CASE z = (r \o <<>>) \o <<>>
    <3>1. z = r
      BY <1>5, <1>6, <2>2
    <3>2. w \o last \in B /\ x = r \o (w \o last)
      BY <1>5, <1>6, <1>7
    <3>3. x \o y = r \o ((w \o last) \o y)
      <4> DEFINE wl == w \o last
      <4>1. wl \in B /\ x = r \o wl
        BY <3>2
      <4> HIDE DEF wl
      <4>2. (r \o wl) \o y = r \o (wl \o y)
        <5>1. r \in Seq(WireByte) /\ wl \in Seq(WireByte) /\ y \in Seq(WireByte)
          BY <1>5, <4>1 DEF B
        <5> QED
          BY <5>1, Grouped, SMTT(30)
      <4> QED
        BY <4>1, <4>2 DEF wl
    <3> QED
      BY <3>1, <3>2, <3>3
  <2> QED
    BY <1>8, <2>1, <2>2
<1>11. PICK u \in B : x \o y = z \o (u \o y)
  BY <1>10
<1>12. u \o y \in B /\ (y # <<>> => u \o y # <<>>)
  BY <1>5, <1>6, <1>9, <1>11
<1>13. Laid(z \o (u \o y), Due("client"), Taken("client"), TRUE)
  BY <1>2, <1>11 DEF x
<1>14. /\ Laid(Coming("client")' \o (u \o y), Due("client")', Taken("client")', TRUE)
       /\ Lost' /\ Answered(F)' => u \o y # <<>>
  BY <1>2, <1>3, <1>4, <1>12, <1>13 DEF z
<1> QED
  BY <1>12, <1>14 DEF Missing, B

(* What is written to a broken connection is missing too.                  *)
LEMMA ShortWritten ==
  ASSUME TypeInv, StreamAt("client"), Excused, NEW F, Short(F), WriteBytes("server"),
         Lost' => Lost
  PROVE  Short(F)'
<1> DEFINE p == script["server"][pc["server"]].payload
           all == wbuf["server"] \o Frame(p)
           kept == Kept(wbuf["server"], Frame(p))
           out == SubSeq(all, 1, Len(all) - kept)
<1>1. p \in Payload /\ status["server"] = "open"
  BY ClientEnd, WritingTyped DEF WriteBytes, At
<1>2. status' = status /\ rbuf' = rbuf /\ frame' = frame /\ broken' = broken /\ got' = got
  BY DEF WriteBytes
<1>3. Alive("client")' = Alive("client") /\ (Alive("client") <=> ~broken)
  BY <1>1, <1>2, ClientEnd DEF Alive
<1>4. CASE Len(Body(p)) > MaxMsgSize
  <2>1. wire' = wire /\ sent' = sent
    BY <1>4 DEF WriteBytes
  <2> QED
    BY <1>2, <2>1, ShortStays
<1>5. CASE ~(Len(Body(p)) > MaxMsgSize)
  <2>1. Emit("server", out) /\ sent' = [sent EXCEPT !["server"] = Append(@, p)]
    BY <1>5 DEF WriteBytes
  <2>2. p \in Fitting
    <3>1. Len(Body(p)) \in Nat
      BY <1>1, BodyTyped, LenProperties
    <3> QED
      BY <1>1, <1>5, <3>1, ConstantsAssumption DEF Fitting
  <2>3. out \in Seq(WireByte) /\ Frame(p) \in Seq(WireByte)
    BY <2>2, ClientEnd, WriteSplits
  <2> HIDE DEF p, out
  <2>4. sent["server"] \in Seq(Fitting) /\ sent'["server"] = Append(sent["server"], p)
    BY <2>1, ClientEnd, Unpacked
  <2> SUFFICES ASSUME status["client"] = "open", ~Alive("client") PROVE Missing(F)'
    BY <1>2, <1>3 DEF Short
  <2>5. wire'["client"] = wire["client"]
    BY <1>3, <2>1, <2>3, ClientEnd, EmitTyped
  <2>6. Coming("client")' = Coming("client")
    BY <1>2, <1>3, <2>5 DEF Coming
  <2>7. Follows("client")
    BY DEF StreamAt
  <2>8. Due("client")' = Append(Due("client"), Frame(p)) /\ Due("client") \in Seq(Seq(WireByte))
    <3>1. Due("client") = Frames(sent["server"], Len(got["client"]))
      BY ClientEnd DEF Due
    <3>2. Due("client")' = Frames(Append(sent["server"], p), Len(got["client"]))
      BY <1>2, <2>4, ClientEnd DEF Due
    <3>3. Len(got["client"]) \in 0..Len(sent["server"]) /\ Due("client") \in Seq(Seq(WireByte))
      BY <2>7, ClientEnd, DueTyped
    <3> QED
      BY <2>2, <2>4, <3>1, <3>2, <3>3, FramesAppend
  <2>9. Taken("client")' = Taken("client") /\ Taken("client") \in Nat
    <3>1. Len(frame["client"].total) \in Nat
      BY ClientEnd, Typed, LenProperties
    <3> QED
      BY <1>2, <3>1 DEF Taken
  <2>10. PICK y \in Seq(WireByte) :
           Laid(Coming("client") \o y, Due("client"), Taken("client"), TRUE)
    BY DEF Short, Missing
  <2>11. Coming("client") \in Seq(WireByte)
    BY ClientEnd, ComingTyped
  <2> DEFINE x == Coming("client")
             fs == Due("client")
             c == Taken("client")
             f == Frame(p)
  <2>12. /\ x \in Seq(WireByte) /\ y \in Seq(WireByte) /\ f \in Seq(WireByte)
         /\ fs \in Seq(Seq(WireByte)) /\ c \in Nat /\ Laid(x \o y, fs, c, TRUE)
    BY <2>3, <2>8, <2>9, <2>10, <2>11
  <2>13. Len(f) > 0
    <3>1. Len(Frame(p)) = 3 + Len(Body(p)) /\ Len(Body(p)) \in 0..MaxMsgSize
      BY <2>2, FrameShape
    <3> QED
      BY <3>1, ConstantsAssumption
  <2> HIDE DEF x, fs, c, f
  <2>14. Laid((x \o y) \o f, Append(fs, f), c, TRUE)
    <3>1. x \o y \in Seq(WireByte) /\ TRUE \in BOOLEAN
      BY <2>12, ConcatProperties
    <3>2. Laid(IF TRUE THEN (x \o y) \o f ELSE x \o y, Append(fs, f), c, TRUE)
      BY <2>12, <3>1, LaidAppend
    <3> QED
      BY <3>2
  <2>15. (x \o y) \o f = x \o (y \o f)
    BY <2>12, Grouped, SMTT(30)
  <2>16. y \o f \in Seq(WireByte) /\ y \o f # <<>>
    <3>1. Len(y \o f) = Len(y) + Len(f) /\ Len(y) \in Nat /\ y \o f \in Seq(WireByte)
      BY <2>12, Joined
    <3>2. Len(<<>>) = 0
      OBVIOUS
    <3> QED
      BY <2>13, <3>1, <3>2
  <2>17. Laid(x \o (y \o f), Append(fs, f), c, TRUE)
    BY <2>14, <2>15
  <2>18. Laid(Coming("client")' \o (y \o f), Due("client")', Taken("client")', TRUE)
    BY <2>6, <2>8, <2>9, <2>17 DEF x, fs, c, f
  <2> QED
    BY <2>16, <2>18 DEF Missing
<1> QED
  BY <1>4, <1>5

(* What the dialling end takes from the front is not missing.              *)
LEMMA ShortRead ==
  ASSUME TypeInv, TypeInv', ~SplitHeaders, StreamAt("client"), NEW F, Short(F),
         Fill("client") \/ ReadLength("client") \/ ReadFlag("client") \/ ReadBody("client"),
         Lost' => Lost, status["client"] = "open", Alive("client")' = Alive("client"),
         sent' = sent
  PROVE  Short(F)'
<1> SUFFICES ASSUME ~Alive("client") PROVE Missing(F)'
  BY DEF Short
<1>1. PICK y \in Seq(WireByte) :
        /\ Laid(Coming("client") \o y, Due("client"), Taken("client"), TRUE)
        /\ Lost /\ Answered(F) => y # <<>>
  BY DEF Short, Missing
<1>2. Lost' /\ Answered(F)' => y # <<>>
  BY <1>1 DEF Answered
<1>3. CASE Fill("client")
  <2>1. Coming("client")' = Coming("client")
    BY <1>3, ClientEnd, FillComing
  <2>2. Due("client")' = Due("client") /\ Taken("client")' = Taken("client")
    BY <1>3 DEF Fill, Due, Taken
  <2> QED
    BY <1>1, <1>2, <2>1, <2>2 DEF Missing
<1>4. CASE ReadLength("client") \/ ReadFlag("client") \/ ReadBody("client")
  <2>1. PICK a \in 0..Len(Coming("client")) :
          /\ Coming("client")' = SubSeq(Coming("client"), a + 1, Len(Coming("client")))
          /\ Halfway("client", a) \/ Whole("client", a)
    BY <1>4, ClientEnd, ReadAdvances
  <2>2. Follows("client")
    BY DEF StreamAt
  <2>3. Taken("client") \in Nat
    <3>1. Len(frame["client"].total) \in Nat
      BY ClientEnd, Typed, LenProperties
    <3> QED
      BY <3>1 DEF Taken
  <2> DEFINE x == Coming("client")
             fs == Due("client")
             c == Taken("client")
  <2>4. x \in Seq(WireByte) /\ y \in Seq(WireByte) /\ c \in Nat
        /\ fs \in Seq(Seq(WireByte)) /\ Laid(x \o y, fs, c, TRUE) /\ a \in 0..Len(x)
    BY <1>1, <2>1, <2>2, <2>3, ClientEnd, ComingTyped, DueTyped
  <2> HIDE DEF x, fs, c
  <2>5. /\ SubSeq(x, a + 1, Len(x)) \o y = SubSeq(x \o y, a + 1, Len(x \o y))
        /\ a \in 0..Len(x \o y) /\ x \o y \in Seq(WireByte)
    <3>1. x \o y \in Seq(WireByte)
      BY <2>4, ConcatProperties
    <3> QED
      BY <2>4, <3>1, CutOfJoin
  <2>6. Laid(SubSeq(x \o y, a + 1, Len(x \o y)), fs, c + a, TRUE)
    BY <2>4, <2>5, LaidConsume
  <2> DEFINE z == Coming("client")' \o y
  <2>7. Laid(z, fs, c + a, TRUE)
    BY <2>1, <2>5, <2>6 DEF x
  <2> HIDE DEF z
  <2>8. Laid(z, Due("client")', Taken("client")', TRUE)
    <3>1. CASE Halfway("client", a)
      BY <2>7, <3>1 DEF Halfway, fs, c
    <3>2. CASE Whole("client", a)
      <4>1. fs # <<>> /\ c + a = Len(fs[1])
            /\ Due("client")' = Tail(fs) /\ Taken("client")' = 0
        BY <3>2 DEF Whole, fs, c
      <4>2. Laid(z, Tail(fs), 0, TRUE)
        BY <2>4, <2>7, <4>1, LaidNext
      <4> QED
        BY <4>1, <4>2
    <3> QED
      BY <2>1, <3>1, <3>2
  <2> QED
    BY <1>2, <2>8 DEF Missing, z
<1> QED
  BY <1>3, <1>4

LastWant == script["client"][Len(script["client"])].want

(* Nobody has read or written more often than its calls, and the dialling  *)
(* end has read as often while it goes on.                                 *)
ReadsCounted == Len(got["server"]) <= Passed(script["server"], "read", pc["server"])
SaidCounted == Len(sent["server"]) <= Passed(script["server"], "write", pc["server"])
GotCounted ==
  status["client"] = "open" =>
    Len(got["client"]) = Passed(script["client"], "read", pc["client"])
WritesCounted == Len(sent["client"]) <= Passed(script["client"], "write", pc["client"])

(* The dialling end comes to its end by hearing the last word.             *)
Heard(F) ==
  pc["client"] > Len(script["client"]) =>
    got["client"] # <<>> /\ (LastWant = Anything \/ got["client"][Len(got["client"])] = F)

(* The accepting end says it last, and says nothing else to a dialling end *)
(* that takes any answer.                                                  *)
Said(F) ==
  /\ \A i \in 1..Len(sent["server"]) : sent["server"][i] = F => i = Len(sent["server"])
  /\ Answered(F) => /\ pc["server"] >= Len(script["server"])
                    /\ Accepting(script["client"], script["server"])
  /\ LastWant = Anything => \A i \in 1..Len(sent["server"]) : sent["server"][i] = F

Settled(F) == status["client"] = "ok" => Answered(F) /\ SuccessIsMutual

MutualInv(F) ==
  /\ Dialogue(script["client"], script["server"], F)
  /\ ReadsCounted /\ SaidCounted
  /\ GotCounted /\ WritesCounted
  /\ Heard(F) /\ Said(F)
  /\ Excused /\ Short(F)
  /\ Settled(F)

(* Nothing has been said at the start.                                     *)
LEMMA InitMutual ==
  ASSUME Init, TypeInv
  PROVE  \E F \in Payload : MutualInv(F)
<1>1. PICK F \in Payload : Dialogue(script["client"], script["server"], F)
  BY Dialogues
<1>2. /\ \A e \in End : pc[e] = 1 /\ status[e] = "open" /\ sent[e] = <<>> /\ got[e] = <<>>
      /\ broken = FALSE
  BY DEF Init
<1>3. \A s, o : Passed(s, o, 1) = 0
  BY PassedNone
<1>4. Len(<<>>) = 0 /\ \A i \in 1..Len(<<>>) : FALSE
  OBVIOUS
<1>5. ReadsCounted /\ SaidCounted /\ GotCounted /\ WritesCounted /\ ~Lost
  BY <1>2, <1>3, <1>4, ClientEnd DEF ReadsCounted, SaidCounted, GotCounted, WritesCounted, Lost
<1>6. Heard(F)
  <2>1. Len(script["client"]) > 0 /\ Len(script["client"]) \in Nat
    BY <1>1, ClientEnd, Typed DEF Dialogue
  <2> QED
    BY <1>2, <2>1, ClientEnd DEF Heard
<1>7. ~Answered(F)
  BY <1>2, <1>4, ClientEnd DEF Answered
<1>8. Said(F)
  BY <1>2, <1>4, <1>7, ClientEnd DEF Said
<1>9. Excused /\ Short(F) /\ Settled(F)
  BY <1>2, <1>5, ClientEnd DEF Excused, Short, Settled, Alive
<1> QED
  BY <1>1, <1>5, <1>6, <1>8, <1>9 DEF MutualInv

(* Until its flush the accepting end has not said its last word.           *)
LEMMA NotYetSaid ==
  ASSUME TypeInv, NEW F, Said(F), Settled(F),
         Reading("server") \/ At("server", "write") \/ At("server", "local")
  PROVE  ~Answered(F) /\ status["client"] # "ok"
<1>1. ~Answered(F)
  <2> SUFFICES ASSUME Answered(F) PROVE FALSE
    OBVIOUS
  <2>1. pc["server"] >= Len(script["server"]) /\ Accepting(script["client"], script["server"])
    BY DEF Said
  <2>2. pc["server"] <= Len(script["server"]) /\ script["server"][pc["server"]].op # "flush"
    BY DEF Reading, At
  <2>3. pc["server"] = Len(script["server"])
    BY <2>1, <2>2, ClientEnd, Typed
  <2> QED
    BY <2>1, <2>2, <2>3 DEF Accepting
<1> QED
  BY <1>1 DEF Settled

(* What the accepting end has said and read stays when it does nothing.    *)
LEMMA ServerSame ==
  ASSUME NEW F, script' = script, pc'["server"] = pc["server"],
         got'["server"] = got["server"], sent'["server"] = sent["server"]
  PROVE  /\ Said(F) => Said(F)'
         /\ Lost' = Lost /\ Answered(F)' = Answered(F)
         /\ ReadsCounted => ReadsCounted'
         /\ SaidCounted => SaidCounted'
<1>1. /\ Lost' = Lost /\ Answered(F)' = Answered(F)
      /\ (ReadsCounted => ReadsCounted') /\ (SaidCounted => SaidCounted')
  BY DEF Lost, Silent, Answered, ReadsCounted, SaidCounted
<1> QED
  BY <1>1 DEF Said, LastWant

(* A write or a flush of the dialling end is not its last call.            *)
LEMMA ClientWrites ==
  ASSUME TypeInv, StreamInv, NEW F, MutualInv(F), WriteBytes("client") \/ FlushBuffer("client")
  PROVE  MutualInv(F)'
<1> USE ClientEnd
<1>1. /\ script' = script /\ GoTo("client", pc["client"] + 1)
      /\ status["client"] = "open" /\ pc["client"] <= Len(script["client"])
      /\ script["client"][pc["client"]].op # "read"
  BY DEF WriteBytes, FlushBuffer, At
<1>2. /\ status' = status /\ rbuf' = rbuf /\ frame' = frame /\ broken' = broken /\ got' = got
      /\ wire'["client"] = wire["client"] /\ sent'["server"] = sent["server"]
  BY WritingElsewhere
<1>3. /\ pc["client"] \in Nat \ {0} /\ pc'["client"] = pc["client"] + 1
      /\ pc'["server"] = pc["server"] /\ pc'["client"] <= Len(script["client"])
  <2>1. pc["client"] \in Nat \ {0} /\ Len(script["client"]) \in Nat
    BY Typed
  <2>2. DOMAIN pc = End
    BY Unpacked
  <2>3. pc["client"] # Len(script["client"])
    BY <1>1 DEF MutualInv, Dialogue
  <2> QED
    BY <1>1, <2>1, <2>2, <2>3 DEF GoTo
<1>4. /\ Said(F)' /\ ReadsCounted' /\ SaidCounted'
      /\ Lost' = Lost /\ Answered(F)' = Answered(F)
  BY <1>1, <1>2, <1>3, ServerSame DEF MutualInv
<1>5. WritesCounted'
  <2> DEFINE s == script["client"]
             k == pc["client"]
  <2>1. /\ Passed(s, "write", k) \in Nat
        /\ Passed(s, "write", k + 1) = Passed(s, "write", k) + (IF s[k].op = "write" THEN 1 ELSE 0)
    <3>1. k \in Nat \ {0}
      BY <1>3
    <3> HIDE DEF s, k
    <3> QED
      BY <3>1, PassedNext
  <2>2. Len(sent["client"]) <= Passed(s, "write", k) /\ Len(sent["client"]) \in Nat
    BY Typed, LenProperties DEF MutualInv, WritesCounted
  <2>3. CASE sent' = sent
    <3>1. Len(sent'["client"]) <= Passed(s, "write", k + 1)
      BY <2>1, <2>2, <2>3
    <3> QED
      BY <1>1, <1>3, <3>1 DEF WritesCounted
  <2>4. CASE sent' # sent
    <3>1. s[k].op = "write" /\ sent' = [sent EXCEPT !["client"] = Append(@, s[k].payload)]
          /\ At("client", "write")
      BY <2>4 DEF WriteBytes, FlushBuffer, At
    <3>2. sent["client"] \in Seq(Seq(Byte)) /\ s[k].payload \in Seq(Byte)
      BY <3>1, WritingTyped DEF Payload, TypeInv, TypeOK
    <3>3. sent'["client"] = Append(sent["client"], s[k].payload)
      BY <3>1, Unpacked
    <3>4. Len(sent'["client"]) = Len(sent["client"]) + 1
      BY <3>2, <3>3, AppendProperties
    <3>5. Len(sent'["client"]) <= Passed(s, "write", k + 1)
      BY <2>1, <2>2, <3>1, <3>4
    <3> QED
      BY <1>1, <1>3, <3>5 DEF WritesCounted
  <2> QED
    BY <2>3, <2>4
<1>6. Heard(F)'
  <2>1. ~(pc'["client"] > Len(script'["client"]))
    BY <1>1, <1>3, Typed
  <2> QED
    BY <2>1 DEF Heard
<1>7. Excused' /\ Settled(F)'
  BY <1>1, <1>2, <1>4 DEF MutualInv, Excused, Settled
<1>8. Short(F)'
  <2>1. StreamAt("client") /\ Excused /\ Short(F)
    BY DEF StreamInv, MutualInv
  <2> QED
    BY <1>2, <1>4, <2>1, ShortStays
<1>9. Dialogue(script["client"], script["server"], F)'
  BY <1>1 DEF MutualInv
<1>10. GotCounted'
  <2> DEFINE s == script["client"]
             k == pc["client"]
  <2>1. Passed(s, "read", k + 1) = Passed(s, "read", k)
    <3>1. k \in Nat \ {0} /\ s[k].op # "read"
      BY <1>1, <1>3
    <3> HIDE DEF s, k
    <3> QED
      BY <3>1, PassedNext
  <2> QED
    BY <1>1, <1>2, <1>3, <2>1 DEF MutualInv, GotCounted
<1> QED
  BY <1>4, <1>5, <1>6, <1>7, <1>8, <1>9, <1>10 DEF MutualInv

(* What the dialling end reads.                                            *)
LEMMA ClientReads ==
  ASSUME TypeInv, TypeInv', ~SplitHeaders, StreamInv, NEW F, MutualInv(F),
         \/ Fill("client") \/ ReadLength("client") \/ ReadFlag("client") \/ ReadBody("client")
         \/ ReadFails("client")
  PROVE  MutualInv(F)'
<1> USE ClientEnd
<1> DEFINE s == script["client"]
           k == pc["client"]
<1>1. /\ Reading("client") /\ sent' = sent /\ broken' = broken
      /\ status'["server"] = status["server"]
      /\ got'["server"] = got["server"] /\ pc'["server"] = pc["server"]
  BY ReadingElsewhere
<1>2. script' = script
  BY DEF Fill, ReadLength, ReadFlag, ReadBody, ReadFails
<1>3. /\ k \in Nat \ {0} /\ k <= Len(s) /\ Len(s) \in Nat /\ status["client"] = "open"
      /\ s[k].onErr = "return"
  <2>1. k \in 1..Len(s) /\ status["client"] = "open" /\ s[k].op = "read"
    BY <1>1, ReadingTyped DEF Reading, At
  <2>2. s \in Seq(ClientOp) /\ Len(s) \in Nat
    BY Typed DEF MutualInv, Dialogue
  <2>3. s[k] \in ClientOp
    BY <2>1, <2>2, ElementOfSeq
  <2> QED
    BY <2>1, <2>2, <2>3 DEF ClientOp, OpType
<1>4. Error("client") => pc'["client"] = pc["client"] /\ status'["client"] = "error"
  <2> SUFFICES ASSUME Error("client") PROVE pc'["client"] = pc["client"] /\ status'["client"] = "error"
    OBVIOUS
  <2>1. GoTo("client", pc["client"]) /\ status' = [status EXCEPT !["client"] = "error"]
    BY <1>3 DEF Error, Leave
  <2>2. DOMAIN pc = End
    BY Unpacked
  <2> QED
    BY <2>1, <2>2, Unpacked DEF GoTo
<1>5. /\ Said(F)' /\ ReadsCounted' /\ SaidCounted'
      /\ Lost' = Lost /\ Answered(F)' = Answered(F)
  BY <1>1, <1>2, ServerSame DEF MutualInv
<1>6. Dialogue(script["client"], script["server"], F)'
  BY <1>2 DEF MutualInv
<1>7. StreamAt("client") /\ Short(F)
  BY DEF StreamInv, MutualInv
<1>8. CASE ReadFails("client")
  <2>1. Error("client") /\ got' = got
    BY <1>8 DEF ReadFails
  <2>2. WritesCounted' /\ Heard(F)'
    BY <1>1, <1>2, <1>4, <2>1 DEF MutualInv, WritesCounted, Heard, LastWant
  <2>3. Excused' /\ Short(F)' /\ Settled(F)' /\ GotCounted'
    BY <1>4, <2>1 DEF Excused, Short, Settled, GotCounted
  <2> QED
    BY <1>5, <1>6, <2>2, <2>3 DEF MutualInv
<1>9. CASE ~ReadFails("client")
  <2>1. Alive("client")' = Alive("client")
    BY <1>1 DEF Alive
  <2>2. Short(F)'
    BY <1>1, <1>3, <1>5, <1>7, <1>9, <2>1, ShortRead
  <2>3. CASE pc'["client"] = pc["client"] /\ got' = got /\ status' = status
    <3>1. WritesCounted' /\ GotCounted' /\ Heard(F)' /\ Excused' /\ Settled(F)'
      BY <1>1, <1>2, <1>3, <1>5, <2>3
      DEF MutualInv, WritesCounted, GotCounted, Heard, LastWant, Excused, Settled
    <3> QED
      BY <1>5, <1>6, <2>2, <3>1 DEF MutualInv
  <2>4. CASE \E a \in 0..Len(Coming("client")) : Whole("client", a)
    <3>1. PICK payload \in Seq(Byte) :
            /\ got' = [got EXCEPT !["client"] = Append(@, payload)]
            /\ IF s[k].want = Anything \/ payload \in s[k].want
               THEN GoTo("client", k + 1) /\ status' = status
               ELSE Error("client")
      BY <2>4 DEF Whole
    <3>2. CASE s[k].want = Anything \/ payload \in s[k].want
      <4>1. pc'["client"] = k + 1 /\ status' = status
        BY <3>1, <3>2, Unpacked DEF GoTo
      <4>2. WritesCounted'
        <5>1. /\ Passed(s, "write", k) \in Nat
              /\ Passed(s, "write", k + 1) =
                   Passed(s, "write", k) + (IF s[k].op = "write" THEN 1 ELSE 0)
          <6>1. k \in Nat \ {0}
            BY <1>3
          <6> HIDE DEF s, k
          <6> QED
            BY <6>1, PassedNext
        <5>2. Len(sent["client"]) <= Passed(s, "write", k) /\ Len(sent["client"]) \in Nat
          BY Typed, LenProperties DEF MutualInv, WritesCounted
        <5>3. Len(sent'["client"]) <= Passed(s, "write", k + 1)
          BY <1>1, <5>1, <5>2
        <5> QED
          BY <1>2, <4>1, <5>3 DEF WritesCounted
      <4>3. Heard(F)'
        <5> SUFFICES ASSUME k + 1 > Len(s)
                     PROVE  /\ got'["client"] # <<>>
                            /\ LastWant = Anything
                               \/ got'["client"][Len(got'["client"])] = F
          BY <1>2, <4>1 DEF Heard, LastWant
        <5>1. k = Len(s)
          BY <1>3
        <5>2. LastWant = s[k].want /\ LastWant \in {Anything, {F}}
          BY <5>1 DEF LastWant, MutualInv, Dialogue
        <5>3. got["client"] \in Seq(Seq(Byte)) /\ got'["client"] = Append(got["client"], payload)
          BY <3>1, Unpacked
        <5>4. /\ Len(got'["client"]) = Len(got["client"]) + 1 /\ Len(got["client"]) \in Nat
              /\ got'["client"][Len(got["client"]) + 1] = payload
          BY <5>3, AppendProperties, LenProperties
        <5>5. got'["client"] # <<>>
          <6>1. Len(<<>>) = 0
            OBVIOUS
          <6> QED
            BY <5>4, <6>1
        <5> QED
          BY <3>2, <5>2, <5>4, <5>5
      <4>4. Excused' /\ Settled(F)'
        BY <1>1, <1>3, <1>5, <4>1 DEF MutualInv, Excused, Settled
      <4>5. GotCounted'
        <5>1. Passed(s, "read", k + 1) = Passed(s, "read", k) + 1
          <6>1. k \in Nat \ {0} /\ s[k].op = "read"
            BY <1>1, <1>3 DEF Reading, At
          <6> HIDE DEF s, k
          <6> QED
            BY <6>1, PassedNext
        <5>2. Len(got["client"]) = Passed(s, "read", k)
          BY <1>3 DEF MutualInv, GotCounted
        <5>3. Len(got'["client"]) = Len(got["client"]) + 1
          <6>1. got["client"] \in Seq(Seq(Byte))
                /\ got'["client"] = Append(got["client"], payload)
            BY <3>1, Unpacked
          <6> QED
            BY <6>1, AppendProperties
        <5> QED
          BY <1>2, <4>1, <5>1, <5>2, <5>3 DEF GotCounted
      <4> QED
        BY <1>5, <1>6, <2>2, <4>2, <4>3, <4>4, <4>5 DEF MutualInv
    <3>3. CASE ~(s[k].want = Anything \/ payload \in s[k].want)
      <4>1. pc'["client"] = pc["client"] /\ status'["client"] = "error"
        BY <1>4, <3>1, <3>3
      <4>2. WritesCounted'
        BY <1>1, <1>2, <4>1 DEF MutualInv, WritesCounted
      <4>3. Heard(F)'
        <5>1. ~(pc'["client"] > Len(script'["client"]))
          BY <1>2, <1>3, <4>1
        <5> QED
          BY <5>1 DEF Heard
      <4>4. Excused' /\ Settled(F)' /\ GotCounted'
        BY <4>1 DEF Excused, Settled, GotCounted
      <4> QED
        BY <1>5, <1>6, <2>2, <4>2, <4>3, <4>4 DEF MutualInv
    <3> QED
      BY <3>2, <3>3
  <2>5. CASE Fill("client")
    <3>1. pc' = pc /\ got' = got /\ status' = status
      BY <2>5 DEF Fill
    <3> QED
      BY <2>3, <3>1
  <2>6. CASE ReadLength("client") \/ ReadFlag("client") \/ ReadBody("client")
    <3>1. PICK a \in 0..Len(Coming("client")) : Halfway("client", a) \/ Whole("client", a)
      BY <1>7, <2>6, ReadAdvances
    <3>2. Halfway("client", a) => pc' = pc /\ got' = got /\ status' = status
      BY DEF Halfway
    <3> QED
      BY <2>3, <2>4, <3>1, <3>2
  <2> QED
    BY <1>9, <2>5, <2>6
<1> QED
  BY <1>8, <1>9

(* It has heard the last word: nothing is missing, and the other end has   *)
(* read as often as it has been written to.                                *)
LEMMA AllHeard ==
  ASSUME TypeInv, StreamInv, NEW F, MutualInv(F),
         status["client"] = "open", pc["client"] > Len(script["client"])
  PROVE  Answered(F) /\ \A e \in End : got[e] = sent[Other(e)]
<1> USE ClientEnd
<1> DEFINE g == got["client"]
           t == sent["server"]
           h == got["server"]
           u == sent["client"]
           cs == script["client"]
           vs == script["server"]
<1>1. /\ g \in Seq(Seq(Byte)) /\ t \in Seq(Seq(Byte)) /\ h \in Seq(Seq(Byte))
      /\ u \in Seq(Seq(Byte))
  BY DEF TypeInv, TypeOK
<1>2. /\ Len(g) <= Len(t) /\ \A i \in 1..Len(g) : g[i] = t[i]
      /\ Len(h) <= Len(u) /\ \A i \in 1..Len(h) : h[i] = u[i]
  BY DEF StreamInv, StreamAt, Follows
<1>3. Len(g) \in Nat /\ Len(t) \in Nat /\ Len(h) \in Nat /\ Len(u) \in Nat /\ Len(g) # 0
  <2>1. g # <<>>
    BY DEF MutualInv, Heard
  <2> QED
    BY <1>1, <2>1, LenProperties, EmptySeq
<1>4. Len(g) \in 1..Len(g) /\ Len(g) \in 1..Len(t)
  BY <1>2, <1>3
<1>5. t[Len(g)] = F
  <2>1. LastWant = Anything => \A i \in 1..Len(t) : t[i] = F
    BY DEF MutualInv, Said
  <2>2. LastWant = Anything \/ g[Len(g)] = F
    BY DEF MutualInv, Heard
  <2> QED
    BY <1>2, <1>4, <2>1, <2>2
<1>6. Answered(F)
  BY <1>4, <1>5 DEF Answered
<1>7. /\ Len(g) = Len(t) /\ pc["server"] >= Len(vs) /\ Accepting(cs, vs)
  BY <1>4, <1>5, <1>6 DEF MutualInv, Said
<1>8. g = t
  BY <1>1, <1>2, <1>7, SeqEqual
<1>9. ~Lost
  <2>1. StreamAt("client") /\ Excused /\ Short(F)
    BY DEF StreamInv, MutualInv
  <2>2. Missing(F)
    BY <2>1, MissingNow
  <2>3. PICK y \in Seq(WireByte) :
          /\ Laid(Coming("client") \o y, Due("client"), Taken("client"), TRUE)
          /\ Lost /\ Answered(F) => y # <<>>
    BY <2>2 DEF Missing
  <2>4. Len(Due("client")) = 0
    BY <1>3, <1>7, <2>1, DueTyped DEF StreamAt
  <2>5. Taken("client") \in Nat
    <3>1. Len(frame["client"].total) \in Nat
      BY Typed, LenProperties
    <3> QED
      BY <3>1 DEF Taken
  <2>6. Len(Coming("client") \o y) = 0 - Taken("client")
    <3> DEFINE x == Coming("client") \o y
               fs == Due("client")
               c == Taken("client")
    <3>1. Laid(x, fs, c, TRUE) /\ Len(fs) = 0
      BY <2>3, <2>4
    <3> HIDE DEF x, fs, c
    <3>2. Len(x) = 0 - c
      BY <3>1 DEF Laid, LaidAt
    <3> QED
      BY <3>2 DEF x, c
  <2>7. Len(Coming("client") \o y) = Len(Coming("client")) + Len(y)
        /\ Len(Coming("client")) \in Nat /\ Len(y) \in Nat
    BY ComingTyped, Joined
  <2>8. y = <<>>
    <3>1. Len(y) = 0
      BY <2>5, <2>6, <2>7
    <3> QED
      BY <3>1, EmptySeq
  <2> QED
    BY <1>6, <2>3, <2>8
<1>10. Passed(vs, "read", pc["server"]) = CallsOf(cs, "write")
  <2>1. pc["server"] \in Nat \ {0} /\ Len(vs) \in Nat /\ pc["server"] \in {Len(vs), Len(vs) + 1}
    <3>1. pc["server"] \in 1..(Len(vs) + 1) /\ Len(vs) \in Nat
      BY Typed
    <3>2. pc["server"] >= Len(vs)
      BY <1>7
    <3> HIDE DEF vs
    <3> QED
      BY <3>1, <3>2
  <2>2. CallsOf(vs, "read") = CallsOf(cs, "write") /\ vs[Len(vs)].op = "flush"
    BY <1>7 DEF Accepting
  <2>3. CASE pc["server"] = Len(vs) + 1
    BY <2>2, <2>3 DEF CallsOf
  <2>4. CASE pc["server"] = Len(vs)
    <3> DEFINE n == Len(vs)
    <3>1. n \in Nat \ {0} /\ vs[n].op # "read"
      BY <2>1, <2>2, <2>4
    <3> HIDE DEF n, vs
    <3>2. Passed(vs, "read", n + 1) = Passed(vs, "read", n) /\ Passed(vs, "read", n) \in Nat
      BY <3>1, PassedNext, SMTT(20)
    <3> QED
      BY <2>2, <2>4, <3>2 DEF CallsOf, n
  <2> QED
    BY <2>1, <2>3, <2>4
<1>11. Len(u) <= CallsOf(cs, "write")
  <2>1. pc["client"] = Len(cs) + 1
    <3>1. pc["client"] \in 1..(Len(cs) + 1) /\ Len(cs) \in Nat /\ pc["client"] > Len(cs)
      BY Typed
    <3> HIDE DEF cs
    <3> QED
      BY <3>1
  <2> QED
    BY <2>1 DEF MutualInv, WritesCounted, CallsOf
<1>12. ~Silent
  <2> DEFINE n == Len(vs)
  <2>1. Len(g) = CallsOf(cs, "read")
    <3>1. pc["client"] = Len(cs) + 1
      <4>1. pc["client"] \in 1..(Len(cs) + 1) /\ Len(cs) \in Nat /\ pc["client"] > Len(cs)
        BY Typed
      <4> HIDE DEF cs
      <4> QED
        BY <4>1
    <3> QED
      BY <3>1 DEF MutualInv, GotCounted, CallsOf
  <2>2. /\ pc["server"] \in {n, n + 1} /\ n \in Nat /\ pc["server"] \in Nat \ {0}
        /\ vs[n].op = "flush" /\ CallsOf(vs, "write") = CallsOf(cs, "read")
    <3>1. pc["server"] \in 1..(Len(vs) + 1) /\ Len(vs) \in Nat /\ pc["server"] >= Len(vs)
      BY <1>7, Typed
    <3>2. vs[n].op = "flush" /\ CallsOf(vs, "write") = CallsOf(cs, "read")
      BY <1>7 DEF Accepting
    <3> HIDE DEF vs
    <3> QED
      BY <3>1, <3>2
  <2>3. Passed(vs, "write", pc["server"]) <= CallsOf(vs, "write")
        /\ Passed(vs, "write", pc["server"]) \in Nat
    <3>1. pc["server"] \in Nat \ {0} /\ n + 1 \in Nat \ {0} /\ pc["server"] <= n + 1
      BY <2>2
    <3> HIDE DEF vs
    <3> QED
      BY <3>1, PassedRises DEF CallsOf, n
  <2> HIDE DEF n, vs, cs
  <2>4. Len(t) >= Passed(vs, "write", pc["server"])
    BY <1>3, <1>7, <2>1, <2>2, <2>3
  <2> QED
    BY <1>3, <2>3, <2>4 DEF Silent, vs
<1>13. Len(h) = Len(u)
  <2>1. Len(h) = Passed(vs, "read", pc["server"])
    <3>1. Passed(vs, "read", pc["server"]) \in Nat
      <4>1. pc["server"] \in Nat \ {0}
        BY Typed
      <4> HIDE DEF vs
      <4> QED
        BY <4>1, PassedNext
    <3>2. Len(h) <= Passed(vs, "read", pc["server"]) /\ ~(Len(h) < Passed(vs, "read", pc["server"]))
      BY <1>9, <1>12 DEF MutualInv, ReadsCounted, Lost
    <3> HIDE DEF h, vs
    <3> QED
      BY <1>3, <3>1, <3>2
  <2> QED
    BY <1>2, <1>3, <1>10, <1>11, <2>1
<1>14. h = u
  BY <1>1, <1>2, <1>13, SeqEqual
<1> QED
  BY <1>6, <1>8, <1>14 DEF End, Other

(* It closes the connection only after the last word.                      *)
LEMMA ClientCloses ==
  ASSUME TypeInv, StreamInv, NEW F, MutualInv(F), Close("client")
  PROVE  MutualInv(F)'
<1> USE ClientEnd
<1>1. /\ script' = script /\ pc' = pc /\ got' = got /\ sent' = sent
      /\ status' = [status EXCEPT !["client"] = "ok"]
      /\ status["client"] = "open" /\ pc["client"] > Len(script["client"])
  BY DEF Close
<1>2. status'["client"] = "ok"
  BY <1>1, Unpacked
<1>3. Answered(F) /\ \A e \in End : got[e] = sent[Other(e)]
  BY <1>1, AllHeard
<1>4. /\ Said(F)' /\ ReadsCounted' /\ SaidCounted'
      /\ Lost' = Lost /\ Answered(F)' = Answered(F)
  BY <1>1, ServerSame DEF MutualInv
<1>5. Dialogue(script["client"], script["server"], F)' /\ WritesCounted' /\ Heard(F)'
  BY <1>1 DEF MutualInv, WritesCounted, Heard, LastWant
<1>6. Excused' /\ Short(F)' /\ GotCounted'
  BY <1>2 DEF Excused, Short, GotCounted
<1>7. Settled(F)'
  BY <1>1, <1>3, <1>4 DEF Settled, SuccessIsMutual
<1> QED
  BY <1>4, <1>5, <1>6, <1>7 DEF MutualInv

(* What the accepting end reads, as long as something comes.               *)
LEMMA ServerReads ==
  ASSUME TypeInv, TypeInv', ~SplitHeaders, StreamInv, NEW F, MutualInv(F),
         Fill("server") \/ ReadLength("server") \/ ReadFlag("server") \/ ReadBody("server")
  PROVE  MutualInv(F)'
<1> USE ClientEnd
<1> DEFINE s == script["server"]
           k == pc["server"]
<1>1. /\ Reading("server") /\ sent' = sent /\ broken' = broken
      /\ rbuf'["client"] = rbuf["client"] /\ wire'["client"] = wire["client"]
      /\ frame'["client"] = frame["client"] /\ status'["client"] = status["client"]
      /\ got'["client"] = got["client"] /\ pc'["client"] = pc["client"]
  BY ReadingElsewhere
<1>2. script' = script
  BY DEF Fill, ReadLength, ReadFlag, ReadBody
<1>3. ~Answered(F) /\ ~Answered(F)' /\ status["client"] # "ok"
  <2>1. ~Answered(F) /\ status["client"] # "ok"
    BY <1>1, NotYetSaid DEF MutualInv
  <2> QED
    BY <1>1, <2>1 DEF Answered
<1>4. ReadsCounted' /\ SaidCounted' /\ (Lost' => Lost)
  <2>1. CASE pc' = pc /\ got' = got
    BY <1>1, <1>2, <2>1 DEF MutualInv, ReadsCounted, SaidCounted, Lost, Silent
  <2>2. CASE \E a \in 0..Len(Coming("server")) : Whole("server", a)
    <3>1. k \in 1..Len(s) /\ s[k].want = Anything /\ s[k].op = "read"
      <4>1. k \in 1..Len(s) /\ s[k].op = "read"
        BY <1>1, ReadingTyped DEF Reading, At
      <4> QED
        BY <4>1 DEF MutualInv, Dialogue
    <3>2. PICK payload \in Seq(Byte) :
            /\ got' = [got EXCEPT !["server"] = Append(@, payload)]
            /\ GoTo("server", k + 1)
      BY <2>2, <3>1 DEF Whole
    <3>3. pc'["server"] = k + 1
      BY <3>2, Unpacked DEF GoTo
    <3>4. Len(got'["server"]) = Len(got["server"]) + 1 /\ Len(got["server"]) \in Nat
      <4>1. got["server"] \in Seq(Seq(Byte)) /\ got'["server"] = Append(got["server"], payload)
        BY <3>2, Unpacked
      <4> QED
        BY <4>1, AppendProperties, LenProperties
    <3>5. Passed(s, "read", k + 1) = Passed(s, "read", k) + 1 /\ Passed(s, "read", k) \in Nat
      <4>1. k \in Nat \ {0}
        BY <3>1
      <4>2. s[k].op = "read"
        BY <3>1
      <4> HIDE DEF s, k
      <4> QED
        BY <4>1, <4>2, PassedNext
    <3>6. /\ Passed(s, "read", k + 1) = Passed(script["server"], "read", pc["server"])'
          /\ Passed(s, "read", k) = Passed(script["server"], "read", pc["server"])
          /\ Passed(s, "write", k + 1) = Passed(script["server"], "write", pc["server"])'
      BY <1>2, <3>3
    <3>7. Passed(s, "write", k + 1) = Passed(s, "write", k)
      <4>1. k \in Nat \ {0} /\ s[k].op # "write"
        BY <3>1
      <4> HIDE DEF s, k
      <4> QED
        BY <4>1, PassedNext
    <3>8. SaidCounted' /\ Silent' = Silent
      BY <1>1, <3>6, <3>7 DEF MutualInv, SaidCounted, Silent
    <3> QED
      BY <3>4, <3>5, <3>6, <3>8 DEF MutualInv, ReadsCounted, Lost
  <2>3. CASE Fill("server")
    <3>1. pc' = pc /\ got' = got
      BY <2>3 DEF Fill
    <3> QED
      BY <2>1, <3>1
  <2>4. CASE ReadLength("server") \/ ReadFlag("server") \/ ReadBody("server")
    <3>1. StreamAt("server")
      BY DEF StreamInv
    <3>2. PICK a \in 0..Len(Coming("server")) : Halfway("server", a) \/ Whole("server", a)
      BY <2>4, <3>1, ReadAdvances
    <3>3. Halfway("server", a) => pc' = pc /\ got' = got
      BY DEF Halfway
    <3> QED
      BY <2>1, <2>2, <3>2, <3>3
  <2> QED
    BY <2>3, <2>4
<1>5. /\ Dialogue(script["client"], script["server"], F)' /\ Heard(F)'
      /\ WritesCounted' /\ GotCounted'
  BY <1>1, <1>2 DEF MutualInv, WritesCounted, GotCounted, Heard, LastWant
<1>6. Said(F)' /\ Excused' /\ Settled(F)'
  BY <1>1, <1>2, <1>3, <1>4 DEF MutualInv, Said, LastWant, Excused, Settled
<1>7. Short(F)'
  <2>1. StreamAt("client") /\ Excused /\ Short(F)
    BY DEF StreamInv, MutualInv
  <2> QED
    BY <1>1, <1>3, <2>1, ShortStays
<1> QED
  BY <1>4, <1>5, <1>6, <1>7 DEF MutualInv

(* A call that fails passes over other calls; a call on a file passes over *)
(* an answer.                                                              *)
LEMMA ServerLeaves ==
  ASSUME TypeInv, NEW F, MutualInv(F), Reading("server") \/ At("server", "local"),
         Leave("server"), script' = script, got' = got, sent' = sent
  PROVE  /\ ReadsCounted' /\ SaidCounted'
         /\ At("server", "local") => Silent'
<1> USE ClientEnd
<1> DEFINE s == script["server"]
           k == pc["server"]
           onErr == s[k].onErr
           l == CASE onErr = "next" -> k + 1
                  [] onErr = "answer" -> Len(s) - 1
                  [] OTHER -> k
<1>1. /\ k \in 1..Len(s) /\ Len(s) \in Nat
      /\ s[k].op = "read" \/ s[k].op = "local"
      /\ s[k].op = "read" /\ onErr = "answer" => k < Len(s) - 1
      /\ s[k].op = "local" => onErr = "answer" /\ k < Len(s) - 3 /\ s[Len(s) - 3].op = "write"
  <2>1. k \in 1..Len(s) /\ Len(s) \in Nat /\ (s[k].op = "read" \/ s[k].op = "local")
    BY Typed DEF Reading, At
  <2> QED
    BY <2>1 DEF MutualInv, Dialogue
<1>2. l \in Nat \ {0} /\ k \in Nat \ {0} /\ k <= l
      /\ (s[k].op = "local" => l = Len(s) - 1)
  <2>1. CASE onErr = "next"
    BY <1>1, <2>1
  <2>2. CASE onErr = "answer"
    <3>1. l = Len(s) - 1 /\ k < Len(s) - 1
      <4>1. l = Len(s) - 1
        BY <2>2
      <4> HIDE DEF l, onErr, s, k
      <4> QED
        BY <1>1, <2>2, <4>1
    <3> HIDE DEF l, onErr, s, k
    <3> QED
      BY <1>1, <3>1
  <2>3. CASE onErr \notin {"next", "answer"}
    <3>1. l = k
      BY <2>3
    <3> HIDE DEF l, onErr, s, k
    <3> QED
      BY <1>1, <2>3, <3>1
  <2> QED
    BY <2>1, <2>2, <2>3
<1>3. pc'["server"] = l
  BY Unpacked DEF Leave, GoTo
<1> HIDE DEF l, onErr
<1>4. /\ Passed(s, "read", k) <= Passed(s, "read", l)
      /\ Passed(s, "write", k) <= Passed(s, "write", l)
      /\ \A o \in {"read", "write"} : Passed(s, o, k) \in Nat /\ Passed(s, o, l) \in Nat
  <2> HIDE DEF s, k
  <2> QED
    BY <1>2, PassedRises
<1>5. /\ Len(got["server"]) <= Passed(s, "read", k) /\ Len(got["server"]) \in Nat
      /\ Len(sent["server"]) <= Passed(s, "write", k) /\ Len(sent["server"]) \in Nat
  BY Typed, LenProperties DEF MutualInv, ReadsCounted, SaidCounted
<1>6. ReadsCounted' /\ SaidCounted'
  <2>1. Len(got["server"]) <= Passed(s, "read", l) /\ Len(sent["server"]) <= Passed(s, "write", l)
    <3> HIDE DEF s, k
    <3> QED
      BY <1>4, <1>5
  <2> QED
    BY <1>3, <2>1 DEF ReadsCounted, SaidCounted
<1>7. ASSUME At("server", "local") PROVE Silent'
  <2> DEFINE n == Len(s) - 3
  <2>1. /\ s[k].op = "local" /\ k < n /\ s[n].op = "write" /\ l = Len(s) - 1
    BY <1>1, <1>2, <1>7 DEF At
  <2>2. k \in Nat \ {0} /\ n \in Nat \ {0} /\ l \in Nat \ {0} /\ n < l /\ k <= n
    <3> HIDE DEF s, k
    <3> QED
      BY <1>1, <1>2, <2>1
  <2> HIDE DEF n, s, k
  <2>3. Passed(s, "write", n) < Passed(s, "write", l)
        /\ Passed(s, "write", n) \in Nat /\ Passed(s, "write", l) \in Nat
    BY <2>1, <2>2, PassedRises
  <2>4. Passed(s, "write", k) <= Passed(s, "write", n)
    BY <2>2, PassedRises
  <2>5. Len(sent["server"]) < Passed(s, "write", l)
    BY <1>4, <1>5, <2>3, <2>4
  <2> QED
    BY <1>3, <2>5 DEF Silent, s
<1> QED
  BY <1>6, <1>7

(* A read that fails leaves a loss behind; the dialling end cannot go on.  *)
LEMMA ServerFails ==
  ASSUME TypeInv, StreamInv, NEW F, MutualInv(F), ReadFails("server")
  PROVE  MutualInv(F)'
<1> USE ClientEnd
<1>1. /\ Reading("server") /\ sent' = sent /\ broken' = broken
      /\ rbuf'["client"] = rbuf["client"] /\ wire'["client"] = wire["client"]
      /\ frame'["client"] = frame["client"] /\ status'["client"] = status["client"]
      /\ pc'["client"] = pc["client"]
  BY ReadingElsewhere
<1>2. /\ script' = script /\ got' = got /\ Leave("server")
      /\ broken \/ status["client"] # "open"
  BY DEF ReadFails, Error
<1>3. ~Answered(F) /\ ~Answered(F)' /\ status["client"] # "ok"
  <2>1. ~Answered(F) /\ status["client"] # "ok"
    BY <1>1, NotYetSaid DEF MutualInv
  <2> QED
    BY <1>1, <2>1 DEF Answered
<1>4. ReadsCounted' /\ SaidCounted'
  BY <1>1, <1>2, ServerLeaves
<1>5. /\ Dialogue(script["client"], script["server"], F)' /\ Heard(F)'
      /\ WritesCounted' /\ GotCounted'
  BY <1>1, <1>2 DEF MutualInv, WritesCounted, GotCounted, Heard, LastWant
<1>6. Said(F)' /\ Excused' /\ Settled(F)'
  BY <1>1, <1>2, <1>3 DEF MutualInv, Said, LastWant, Excused, Settled
<1>7. Short(F)'
  <2>1. StreamAt("client") /\ Excused /\ Short(F)
    BY DEF StreamInv, MutualInv
  <2> QED
    BY <1>1, <1>2, <1>3, <2>1, ShortStays
<1> QED
  BY <1>4, <1>5, <1>6, <1>7 DEF MutualInv

(* A call on a file that fails leaves an answer out, which the dialling    *)
(* end waits for.                                                          *)
LEMMA ServerUsesFile ==
  ASSUME TypeInv, StreamInv, NEW F, MutualInv(F), UseFile("server")
  PROVE  MutualInv(F)'
<1> USE ClientEnd
<1> DEFINE s == script["server"]
           k == pc["server"]
<1>1. /\ script' = script /\ sent' = sent /\ got' = got /\ broken' = broken
      /\ rbuf' = rbuf /\ wire' = wire /\ frame' = frame /\ At("server", "local")
      /\ (GoTo("server", k + 1) /\ status' = status) \/ Leave("server")
  BY DEF UseFile
<1>2. /\ k \in 1..Len(s) /\ Len(s) \in Nat /\ s[k].op = "local" /\ s[k].onErr = "answer"
  <2>1. k \in 1..Len(s) /\ s[k].op = "local" /\ Len(s) \in Nat
    BY <1>1, Typed DEF At
  <2> QED
    BY <2>1 DEF MutualInv, Dialogue
<1>3. pc'["client"] = pc["client"] /\ status'["client"] = status["client"]
  <2>1. \E i : GoTo("server", i)
    BY <1>1 DEF Leave
  <2>2. Leave("server") => status'["client"] = status["client"]
    BY Unpacked DEF Leave
  <2> QED
    BY <1>1, <2>1, <2>2, Unpacked DEF GoTo
<1>4. ~Answered(F) /\ ~Answered(F)' /\ status["client"] # "ok"
  <2>1. ~Answered(F) /\ status["client"] # "ok"
    BY <1>1, NotYetSaid DEF MutualInv
  <2> QED
    BY <1>1, <2>1 DEF Answered
<1>5. ReadsCounted' /\ SaidCounted' /\ (Lost' => Lost)
  <2>1. CASE GoTo("server", k + 1)
    <3>1. pc'["server"] = k + 1
      BY <2>1, Unpacked DEF GoTo
    <3>2. /\ Passed(s, "read", k + 1) = Passed(s, "read", k)
          /\ Passed(s, "write", k + 1) = Passed(s, "write", k)
      <4>1. k \in Nat \ {0} /\ s[k].op # "read" /\ s[k].op # "write"
        BY <1>2
      <4> HIDE DEF s, k
      <4> QED
        BY <4>1, PassedNext
    <3> QED
      BY <1>1, <3>1, <3>2 DEF MutualInv, ReadsCounted, SaidCounted, Lost, Silent
  <2>2. CASE Leave("server")
    <3>1. ReadsCounted' /\ SaidCounted' /\ Silent'
      BY <1>1, <2>2, ServerLeaves
    <3> QED
      BY <3>1 DEF Lost
  <2> QED
    BY <1>1, <2>1, <2>2
<1>6. /\ Dialogue(script["client"], script["server"], F)' /\ Heard(F)'
      /\ WritesCounted' /\ GotCounted'
  BY <1>1, <1>3 DEF MutualInv, WritesCounted, GotCounted, Heard, LastWant
<1>7. Said(F)' /\ Excused' /\ Settled(F)'
  BY <1>1, <1>3, <1>4, <1>5 DEF MutualInv, Said, LastWant, Excused, Settled
<1>8. Short(F)'
  <2>1. StreamAt("client") /\ Excused /\ Short(F)
    BY DEF StreamInv, MutualInv
  <2> QED
    BY <1>1, <1>3, <1>5, <2>1, ShortStays
<1> QED
  BY <1>5, <1>6, <1>7, <1>8 DEF MutualInv

(* The dialling end returns when a file fails, and that is not its last    *)
(* call.                                                                   *)
LEMMA ClientUsesFile ==
  ASSUME TypeInv, StreamInv, NEW F, MutualInv(F), UseFile("client")
  PROVE  MutualInv(F)'
<1> USE ClientEnd
<1> DEFINE s == script["client"]
           k == pc["client"]
<1>1. /\ script' = script /\ sent' = sent /\ got' = got /\ broken' = broken
      /\ rbuf' = rbuf /\ wire' = wire /\ frame' = frame /\ At("client", "local")
      /\ (GoTo("client", k + 1) /\ status' = status) \/ Leave("client")
  BY DEF UseFile
<1>2. /\ k \in 1..Len(s) /\ Len(s) \in Nat /\ s[k].op = "local" /\ s[k].onErr = "return"
      /\ k < Len(s) /\ status["client"] = "open"
  <2>1. k \in 1..Len(s) /\ s[k].op = "local" /\ Len(s) \in Nat /\ status["client"] = "open"
    BY <1>1, Typed DEF At
  <2>2. s \in Seq(ClientOp) /\ s[Len(s)].op = "read"
    BY DEF MutualInv, Dialogue
  <2>3. s[k] \in ClientOp
    BY <2>1, <2>2, ElementOfSeq
  <2>4. s[k].onErr = "return"
    BY <2>1, <2>3 DEF ClientOp, OpType
  <2>5. k # Len(s)
    BY <2>1, <2>2
  <2> HIDE DEF s, k
  <2> QED
    BY <2>1, <2>4, <2>5
<1>3. /\ pc'["server"] = pc["server"]
      /\ \/ pc'["client"] = k + 1 /\ status' = status
         \/ pc'["client"] = k /\ status'["client"] = "error"
  <2>1. CASE GoTo("client", k + 1) /\ status' = status
    BY <2>1, Unpacked DEF GoTo
  <2>2. CASE Leave("client")
    <3>1. GoTo("client", k) /\ status' = [status EXCEPT !["client"] = "error"]
      BY <1>2, <2>2 DEF Leave
    <3> QED
      BY <3>1, Unpacked DEF GoTo
  <2> QED
    BY <1>1, <2>1, <2>2
<1>4. /\ Said(F)' /\ ReadsCounted' /\ SaidCounted'
      /\ Lost' = Lost /\ Answered(F)' = Answered(F)
  BY <1>1, <1>3, ServerSame DEF MutualInv
<1>5. WritesCounted' /\ GotCounted'
  <2>1. /\ Passed(s, "read", k + 1) = Passed(s, "read", k)
        /\ Passed(s, "write", k + 1) = Passed(s, "write", k)
    <3>1. k \in Nat \ {0} /\ s[k].op # "read" /\ s[k].op # "write"
      BY <1>2
    <3> HIDE DEF s, k
    <3> QED
      BY <3>1, PassedNext
  <2> QED
    BY <1>1, <1>2, <1>3, <2>1 DEF MutualInv, WritesCounted, GotCounted
<1>6. Heard(F)'
  <2>1. ~(pc'["client"] > Len(script["client"]))
    <3>1. pc'["client"] \in {k, k + 1}
      BY <1>3
    <3> HIDE DEF k
    <3> QED
      BY <1>2, <3>1
  <2> QED
    BY <1>1, <2>1 DEF Heard
<1>7. Excused' /\ Settled(F)'
  BY <1>1, <1>2, <1>3, <1>4 DEF MutualInv, Excused, Settled
<1>8. Short(F)'
  <2>1. StreamAt("client") /\ Excused /\ Short(F)
    BY DEF StreamInv, MutualInv
  <2> QED
    BY <1>1, <1>2, <1>4, <2>1, ShortStays
<1>9. Dialogue(script["client"], script["server"], F)'
  BY <1>1 DEF MutualInv
<1> QED
  BY <1>4, <1>5, <1>6, <1>7, <1>8, <1>9 DEF MutualInv

(* What the accepting end writes: its last word comes once.                *)
LEMMA ServerWrites ==
  ASSUME TypeInv, StreamInv, NEW F, MutualInv(F), WriteBytes("server")
  PROVE  MutualInv(F)'
<1> USE ClientEnd
<1> DEFINE s == script["server"]
           k == pc["server"]
           p == s[k].payload
<1>1. /\ status' = status /\ broken' = broken /\ got' = got /\ sent'["client"] = sent["client"]
  BY WritingElsewhere
<1>2. /\ script' = script /\ At("server", "write") /\ GoTo("server", k + 1)
      /\ sent' = sent \/ sent' = [sent EXCEPT !["server"] = Append(@, p)]
  BY DEF WriteBytes
<1>3. /\ k \in 1..Len(s) /\ s[k].op = "write" /\ p \in Payload /\ Len(s) \in Nat
      /\ pc'["server"] = k + 1 /\ pc'["client"] = pc["client"]
  <2>1. k \in 1..Len(s) /\ p \in Payload /\ Len(s) \in Nat /\ s[k].op = "write"
    BY <1>2, WritingTyped, Typed DEF At
  <2> QED
    BY <1>2, <2>1, Unpacked DEF GoTo
<1>4. ~Answered(F) /\ status["client"] # "ok"
  BY <1>2, NotYetSaid DEF MutualInv
<1>5. ReadsCounted' /\ SaidCounted' /\ (Lost' => Lost)
  <2>1. k \in Nat \ {0} /\ s[k].op # "read"
    BY <1>3
  <2>2. Passed(s, "read", k + 1) = Passed(s, "read", k)
    <3>1. k \in Nat \ {0} /\ s[k].op # "read"
      BY <2>1
    <3> HIDE DEF s, k
    <3> QED
      BY <3>1, PassedNext
  <2>3. Passed(script["server"], "read", pc["server"])' = Passed(script["server"], "read", pc["server"])
    BY <1>2, <1>3, <2>2
  <2>4. Passed(s, "write", k + 1) = Passed(s, "write", k) + 1 /\ Passed(s, "write", k) \in Nat
    <3>1. k \in Nat \ {0} /\ s[k].op = "write"
      BY <1>3
    <3> HIDE DEF s, k
    <3> QED
      BY <3>1, PassedNext
  <2>5. Len(sent'["server"]) \in {Len(sent["server"]), Len(sent["server"]) + 1}
        /\ Len(sent["server"]) \in Nat
    <3> DEFINE v == sent["server"]
    <3>1. v \in Seq(Seq(Byte)) /\ p \in Seq(Byte)
      BY <1>3 DEF TypeInv, TypeOK, Payload
    <3>2. sent'["server"] = v \/ sent'["server"] = Append(v, p)
      BY <1>2, Unpacked
    <3> HIDE DEF v, p
    <3>3. Len(Append(v, p)) = Len(v) + 1 /\ Len(v) \in Nat
      BY <3>1, AppendProperties, LenProperties
    <3> QED
      BY <3>2, <3>3 DEF v
  <2>6. Len(sent["server"]) <= Passed(s, "write", k)
    BY DEF MutualInv, SaidCounted
  <2>7. /\ Len(sent'["server"]) <= Passed(s, "write", k + 1)
        /\ Len(sent["server"]) < Passed(s, "write", k) =>
             Len(sent'["server"]) < Passed(s, "write", k + 1)
    <3> HIDE DEF s, k
    <3> QED
      BY <2>4, <2>5, <2>6
  <2>8. SaidCounted' /\ (Silent => Silent')
    BY <1>2, <1>3, <2>7 DEF SaidCounted, Silent
  <2> QED
    BY <1>1, <2>3, <2>8 DEF MutualInv, ReadsCounted, Lost
<1>6. /\ Dialogue(script["client"], script["server"], F)' /\ Heard(F)'
      /\ WritesCounted' /\ GotCounted'
  BY <1>1, <1>2, <1>3 DEF MutualInv, WritesCounted, GotCounted, Heard, LastWant
<1>7. Said(F)'
  <2>1. CASE sent' = sent
    BY <1>2, <1>4, <2>1 DEF MutualInv, Said, LastWant, Answered
  <2>2. CASE sent' = [sent EXCEPT !["server"] = Append(@, p)]
    <3> DEFINE t == sent["server"]
               n == Len(sent["server"])
    <3>1. /\ n \in Nat /\ Len(sent'["server"]) = n + 1 /\ sent'["server"][n + 1] = p
          /\ \A i \in 1..n : sent'["server"][i] = t[i]
      <4>1. t \in Seq(Seq(Byte)) /\ p \in Seq(Byte)
        BY <1>3 DEF TypeInv, TypeOK, Payload
      <4>2. sent'["server"] = Append(t, p)
        BY <2>2, Unpacked
      <4> HIDE DEF t, p
      <4> QED
        BY <4>1, <4>2, AppendProperties, LenProperties DEF t
    <3>2. \A i \in 1..n : t[i] # F
      BY <1>4 DEF Answered
    <3>3. p = F \/ LastWant = Anything => p = F /\ k = Len(s) - 1 /\ Accepting(script["client"], s)
      BY <1>3 DEF MutualInv, Dialogue, LastWant
    <3>4. LastWant = Anything => \A i \in 1..n : t[i] = F
      BY DEF MutualInv, Said
    <3>5. \A i \in 1..(n + 1) : i \in 1..n \/ i = n + 1
      BY <3>1
    <3> HIDE DEF t, n, p, k, s
    <3>6. \A i \in 1..(n + 1) : sent'["server"][i] = F => i = n + 1 /\ p = F
      BY <3>1, <3>2, <3>5
    <3>7. LastWant = Anything => \A i \in 1..(n + 1) : sent'["server"][i] = F
      BY <3>1, <3>3, <3>4, <3>5
    <3>8. Answered(F)' => p = F
      BY <3>1, <3>6 DEF Answered
    <3>9. Answered(F)' => pc'["server"] >= Len(script'["server"])
                          /\ Accepting(script["client"], script["server"])'
      <4>1. p = F => k + 1 >= Len(s) /\ Accepting(script["client"], s)
        BY <1>3, <3>3 DEF s, k
      <4> QED
        BY <1>2, <1>3, <3>8, <4>1 DEF s, k
    <3>10. LastWant' = LastWant
      BY <1>2 DEF LastWant
    <3> QED
      BY <3>1, <3>6, <3>7, <3>9, <3>10 DEF Said
  <2> QED
    BY <1>2, <2>1, <2>2
<1>8. Excused' /\ Settled(F)'
  BY <1>1, <1>4, <1>5 DEF MutualInv, Excused, Settled
<1>9. Short(F)'
  <2>1. StreamAt("client") /\ Excused /\ Short(F)
    BY DEF StreamInv, MutualInv
  <2> QED
    BY <1>5, <2>1, ShortWritten
<1> QED
  BY <1>5, <1>6, <1>7, <1>8, <1>9 DEF MutualInv

(* A flush of the accepting end reads nothing and says nothing new.        *)
LEMMA ServerFlushes ==
  ASSUME TypeInv, StreamInv, NEW F, MutualInv(F), FlushBuffer("server")
  PROVE  MutualInv(F)'
<1> USE ClientEnd
<1> DEFINE s == script["server"]
           k == pc["server"]
<1>1. /\ script' = script /\ status' = status /\ rbuf' = rbuf /\ frame' = frame
      /\ broken' = broken /\ sent' = sent /\ got' = got
      /\ At("server", "flush") /\ GoTo("server", k + 1) /\ Emit("server", wbuf["server"])
  BY DEF FlushBuffer
<1>2. /\ k \in Nat \ {0} /\ s[k].op # "read" /\ s[k].op # "write" /\ pc'["server"] = k + 1
      /\ pc'["client"] = pc["client"] /\ Len(s) \in Nat
  <2>1. k \in Nat \ {0} /\ s[k].op # "read" /\ s[k].op # "write" /\ Len(s) \in Nat
    BY <1>1, Typed DEF At
  <2> QED
    BY <1>1, <2>1, Unpacked DEF GoTo
<1>3. ReadsCounted' /\ SaidCounted' /\ Lost' = Lost /\ Answered(F)' = Answered(F)
  <2>1. /\ Passed(s, "read", k + 1) = Passed(s, "read", k)
        /\ Passed(s, "write", k + 1) = Passed(s, "write", k)
    <3>1. k \in Nat \ {0} /\ s[k].op # "read" /\ s[k].op # "write"
      BY <1>2
    <3> HIDE DEF s, k
    <3> QED
      BY <3>1, PassedNext
  <2>2. \A o \in {"read", "write"} :
          Passed(script["server"], o, pc["server"])' = Passed(script["server"], o, pc["server"])
    BY <1>1, <1>2, <2>1
  <2> QED
    BY <1>1, <2>2 DEF MutualInv, ReadsCounted, SaidCounted, Lost, Silent, Answered
<1>4. /\ Dialogue(script["client"], script["server"], F)' /\ Heard(F)'
      /\ WritesCounted' /\ GotCounted'
  BY <1>1, <1>2 DEF MutualInv, WritesCounted, GotCounted, Heard, LastWant
<1>5. Said(F)'
  <2>1. k >= Len(s) => k + 1 >= Len(s)
    <3>1. k \in Nat /\ Len(s) \in Nat
      BY <1>2
    <3> HIDE DEF s, k
    <3> QED
      BY <3>1
  <2> QED
    BY <1>1, <1>2, <1>3, <2>1 DEF MutualInv, Said, LastWant
<1>6. Excused' /\ Settled(F)'
  BY <1>1, <1>3 DEF MutualInv, Excused, Settled, SuccessIsMutual
<1>7. Short(F)'
  <2>1. StreamAt("client") /\ Excused /\ Short(F)
    BY DEF StreamInv, MutualInv
  <2>2. ~Alive("client")' => wire'["client"] = wire["client"]
    <3>1. ~Alive("client")' => broken
      BY <1>1 DEF Alive, At
    <3> QED
      BY <1>1, <3>1 DEF Emit
  <2> QED
    BY <1>1, <1>3, <2>1, <2>2, ShortStays
<1> QED
  BY <1>3, <1>4, <1>5, <1>6, <1>7 DEF MutualInv

(* Nothing else takes from what the dialling end has heard or will hear,   *)
(* except that it is lost with the connection.                             *)
LEMMA NothingSaid ==
  ASSUME TypeInv, StreamInv, NEW F, MutualInv(F), Close("server") \/ Break \/ UNCHANGED vars
  PROVE  MutualInv(F)'
<1> USE ClientEnd
<1>1. /\ script' = script /\ pc' = pc /\ got' = got /\ sent' = sent
      /\ rbuf' = rbuf /\ frame' = frame /\ (broken => broken')
      /\ status'["client"] = status["client"]
      /\ wire' = wire \/ wire'["client"] = <<>>
  BY Unpacked DEF Close, Break, vars
<1>2. /\ Said(F)' /\ ReadsCounted' /\ SaidCounted'
      /\ Lost' = Lost /\ Answered(F)' = Answered(F)
  BY <1>1, ServerSame DEF MutualInv
<1>3. /\ Dialogue(script["client"], script["server"], F)' /\ Heard(F)'
      /\ WritesCounted' /\ GotCounted'
  BY <1>1 DEF MutualInv, WritesCounted, GotCounted, Heard, LastWant
<1>4. Excused' /\ Settled(F)'
  BY <1>1, <1>2 DEF MutualInv, Excused, Settled, SuccessIsMutual
<1>5. Short(F)'
  <2>1. StreamAt("client") /\ Excused /\ Short(F)
    BY DEF StreamInv, MutualInv
  <2> QED
    BY <1>1, <1>2, <2>1, ShortStays
<1> QED
  BY <1>2, <1>3, <1>4, <1>5 DEF MutualInv

(* Every step keeps what a success rests on.                               *)
LEMMA MutualStep ==
  ASSUME ~SplitHeaders, TypeInv, TypeInv', StreamInv, [Next]_vars, NEW F, MutualInv(F)
  PROVE  MutualInv(F)'
<1>1. CASE Break \/ UNCHANGED vars
  BY <1>1, NothingSaid
<1>2. CASE Step("client")
  <2>1. CASE WriteBytes("client") \/ FlushBuffer("client")
    BY <2>1, ClientWrites
  <2>2. CASE Close("client")
    BY <2>2, ClientCloses
  <2>3. CASE \/ Fill("client") \/ ReadLength("client") \/ ReadFlag("client") \/ ReadBody("client")
             \/ ReadFails("client")
    BY <2>3, ClientReads
  <2>4. CASE UseFile("client")
    BY <2>4, ClientUsesFile
  <2> QED
    BY <1>2, <2>1, <2>2, <2>3, <2>4 DEF Step
<1>3. CASE Step("server")
  <2>1. CASE WriteBytes("server")
    BY <2>1, ServerWrites
  <2>2. CASE FlushBuffer("server")
    BY <2>2, ServerFlushes
  <2>3. CASE Close("server")
    BY <2>3, NothingSaid
  <2>4. CASE ReadFails("server")
    BY <2>4, ServerFails
  <2>5. CASE Fill("server") \/ ReadLength("server") \/ ReadFlag("server") \/ ReadBody("server")
    BY <2>5, ServerReads
  <2>6. CASE UseFile("server")
    BY <2>6, ServerUsesFile
  <2> QED
    BY <1>3, <2>1, <2>2, <2>3, <2>4, <2>5, <2>6 DEF Step
<1> QED
  BY <1>1, <1>2, <1>3 DEF Next, End

(* When the dialling end has come to the end of its script without an      *)
(* error, both ends have read everything that the other has written, in    *)
(* a sync and in a handshake, for any number and size of blobs, however    *)
(* the bytes are cut, whenever the connection breaks and whichever call on *)
(* a file fails: the last word is written behind everything else and only  *)
(* when nothing has been lost before it, or else it never arrives, or      *)
(* stands where the dialling end waits for an answer that was passed over. *)
THEOREM BothSucceed ==
  ASSUME SplitHeaders = FALSE
  PROVE  FairSpec => []SuccessIsMutual
<1> DEFINE Inv == \E F \in Payload : MutualInv(F)
<1>1. TypeInv /\ [Next]_vars => TypeInv'
  BY StepTyped
<1>2. TypeInv /\ TypeInv' /\ StreamInv /\ [Next]_vars => StreamInv'
  BY StreamStep
<1>3. Init /\ TypeInv => Inv
  BY InitMutual
<1>4. TypeInv /\ TypeInv' /\ StreamInv /\ Inv /\ [Next]_vars => Inv'
  <2> SUFFICES ASSUME TypeInv, TypeInv', StreamInv, [Next]_vars, NEW F \in Payload, MutualInv(F)
               PROVE  MutualInv(F)'
    BY DEF Payload, Byte
  <2> QED
    BY MutualStep
<1>5. Inv => SuccessIsMutual
  BY DEF MutualInv, Settled, SuccessIsMutual
<1> HIDE DEF Inv
<1> QED
  BY InitTyped, InitStreams, <1>1, <1>2, <1>3, <1>4, <1>5, PTL DEF FairSpec

=============================================================================
