---------------------------- MODULE RegistryProofs ---------------------------
(***************************************************************************)
(* Theorems about Registry: for any goroutines, calls, races, failures of  *)
(* Tor and restarts, lists hold rooms and contacts, and an identity that   *)
(* was promised to an inviter is kept until the user deletes it.           *)
(*                                                                         *)
(* A request is dropped at three places only: when its room is there, when *)
(* the user refuses it, or by a write that counts as a hit.  A room leaves *)
(* data.Rooms when the user deletes it, or by such a write.                *)
(***************************************************************************)
EXTENDS Registry, SequenceTheorems, FiniteSetTheorems, WellFoundedInduction, TLAPS

------------------------------------------------------------------------------
(* The inductive invariants                                                *)

ChangesSet(t) == pc[t] \in {"push", "drop", "append_contact", "remove_contact"}
ChangesRooms(t) == pc[t] \in {"append", "append_new", "remove"}

(* A goroutine has read the slice that it is going to change.              *)
HeaderTyped ==
  /\ header \in [Thread -> SUBSET ((SUBSET Obj) \cup Seq(Obj))]
  /\ \A t \in Thread :
       /\ ChangesSet(t) => header[t] \subseteq SUBSET Obj
       /\ ChangesRooms(t) => header[t] \subseteq Seq(Obj)
       /\ ~ChangesSet(t) /\ ~ChangesRooms(t) => header[t] = {}

ImageTyped == image \subseteq [contacts : SUBSET Obj, rooms : Seq(Obj)]

TypeInv == TypeOK /\ HeaderTyped /\ ImageTyped

(* Who is about to drop a request has put its room into the list, or the   *)
(* user has refused it; who removes a room does so for the user.           *)
DropsWhatIsThere ==
  \A t \in Thread : pc[t] \in {"run", "drop"} => obj[t][1] \in given \cup hit \cup Ids(Listed)

RemovesWhatWasGiven ==
  \A t \in Thread : pc[t] \in {"unserve", "stop", "remove"} => obj[t][1] \in given

KeptInv == PromisedIsKept /\ DropsWhatIsThere /\ RemovesWhatWasGiven

------------------------------------------------------------------------------
(* The operators of the model                                              *)

(* What occurs in a sequence has a first occurrence.                       *)
LEMMA FirstOccurrence ==
  ASSUME NEW S, NEW s \in Seq(S), NEW o \in ToSet(s)
  PROVE  \E j \in DOMAIN s : s[j] = o /\ \A k \in 1..(j - 1) : s[k] # o
<1> DEFINE R == OpToRel(<, Nat)
           places == {j \in DOMAIN s : s[j] = o}
<1>1. \A i, j \in Nat : i < j => <<i, j>> \in R
  BY DEF OpToRel
<1>2. DOMAIN s = 1..Len(s) /\ Len(s) \in Nat
  BY LenProperties
<1>3. PICK j \in places : \A k \in places : ~(<<k, j>> \in R)
  <2>1. IsWellFoundedOn(R, Nat)
    BY NatLessThanWellFounded
  <2>2. places # {} /\ places \subseteq Nat
    BY <1>2 DEF ToSet
  <2> HIDE DEF R, places
  <2> QED
    BY <2>1, <2>2, WFMin
<1> HIDE DEF R
<1>4. ASSUME NEW k \in 1..(j - 1) PROVE s[k] # o
  <2>1. j \in 1..Len(s) /\ k \in 1..Len(s) /\ k \in Nat /\ j \in Nat /\ k < j
    BY <1>2
  <2>2. ~(<<k, j>> \in R) => (k < j => FALSE)
    BY <1>1, <2>1, Zenon
  <2>3. k \in DOMAIN s
    BY <1>2, <2>1
  <2> QED
    BY <1>3, <2>1, <2>2, <2>3, Zenon
<1> QED
  BY <1>3, <1>4

(* deleteFromSlice returns a slice that lacks nothing but what it deletes. *)
LEMMA DeleteEffect ==
  ASSUME NEW S, NEW s \in Seq(S), NEW o \in ToSet(s)
  PROVE  /\ deleteFromSlice(s, o) \in Seq(S)
         /\ \A e \in ToSet(s) : e # o => e \in ToSet(deleteFromSlice(s, o))
<1> DEFINE First(j) == s[j] = o /\ \A k \in 1..(j - 1) : s[k] # o
           first == CHOOSE j \in DOMAIN s : First(j)
           moved == [s EXCEPT ![first] = Last(s)]
<1>1. first \in DOMAIN s /\ s[first] = o
  <2>1. \E j \in DOMAIN s : First(j)
    BY FirstOccurrence
  <2> QED
    BY <2>1
<1>2. deleteFromSlice(s, o) = SubSeq(moved, 1, Len(moved) - 1)
  BY DEF deleteFromSlice, Front
<1> HIDE DEF first
<1>3. DOMAIN s = 1..Len(s) /\ Len(s) \in Nat /\ Len(s) > 0 /\ Last(s) = s[Len(s)] /\ Last(s) \in S
  BY <1>1, LenProperties, ElementOfSeq DEF Last
<1>4. moved \in Seq(S) /\ Len(moved) = Len(s)
  BY <1>1, <1>3, ExceptSeq
<1>5. /\ deleteFromSlice(s, o) \in Seq(S)
      /\ DOMAIN deleteFromSlice(s, o) = 1..(Len(s) - 1)
      /\ \A k \in 1..(Len(s) - 1) : deleteFromSlice(s, o)[k] = moved[k]
  <2> HIDE DEF moved
  <2>1. /\ SubSeq(moved, 1, Len(moved) - 1) \in Seq(S)
        /\ Len(SubSeq(moved, 1, Len(moved) - 1)) = Len(s) - 1
        /\ \A k \in 1..(Len(s) - 1) : SubSeq(moved, 1, Len(moved) - 1)[k] = moved[k]
    BY <1>3, <1>4, SubSeqProperties
  <2> QED
    BY <1>2, <2>1, LenProperties
<1>6. ASSUME NEW e \in ToSet(s), e # o PROVE e \in ToSet(deleteFromSlice(s, o))
  <2>1. PICK k \in DOMAIN s : s[k] = e
    BY DEF ToSet
  <2>2. k # first
    BY <1>1, <1>6, <2>1
  <2>3. CASE k < Len(s)
    <3>1. k \in 1..(Len(s) - 1) /\ moved[k] = e
      BY <1>3, <2>1, <2>2, <2>3
    <3> QED
      BY <1>5, <3>1 DEF ToSet
  <2>4. CASE k = Len(s)
    <3>1. first \in 1..(Len(s) - 1) /\ moved[first] = e
      BY <1>1, <1>3, <2>1, <2>2, <2>4
    <3> QED
      BY <1>5, <3>1 DEF ToSet
  <2> QED
    BY <1>3, <2>3, <2>4
<1> QED
  BY <1>5, <1>6

(* What only one of two versions has is where they differ.                 *)
LEMMA LostIsDifferent ==
  ASSUME NEW S, NEW old \in Seq(S), NEW now \in Seq(S), NEW o \in ToSet(now), o \notin ToSet(old)
  PROVE  o \in SeqDiff(old, now)
<1> DEFINE here == {j \in DOMAIN now : now[j] = o}
<1>1. {j \in DOMAIN old : old[j] = o} = {} /\ here # {}
  BY DEF ToSet
<1>2. IsFiniteSet(here)
  <2>1. DOMAIN now = 1..Len(now) /\ Len(now) \in Nat
    BY LenProperties
  <2>2. IsFiniteSet(1..Len(now))
    BY <2>1, FS_Interval
  <2> QED
    BY <2>1, <2>2, FS_Subset
<1>3. Occurrences(old, o) = 0
  BY <1>1, FS_EmptySet DEF Occurrences
<1>4. Occurrences(now, o) # 0
  BY <1>1, <1>2, FS_EmptySet DEF Occurrences
<1> QED
  BY <1>3, <1>4 DEF SeqDiff

LEMMA AppendEffect ==
  ASSUME NEW S, NEW s \in Seq(S), NEW o \in S
  PROVE  Append(s, o) \in Seq(S) /\ ToSet(Append(s, o)) = ToSet(s) \cup {o}
<1>1. /\ Append(s, o) \in Seq(S) /\ DOMAIN Append(s, o) = 1..(Len(s) + 1)
      /\ \A k \in 1..Len(s) : Append(s, o)[k] = s[k]
      /\ Append(s, o)[Len(s) + 1] = o
      /\ DOMAIN s = 1..Len(s) /\ Len(s) \in Nat
  BY AppendProperties, LenProperties
<1>2. 1..(Len(s) + 1) = 1..Len(s) \cup {Len(s) + 1}
  BY <1>1
<1> QED
  BY <1>1, <1>2 DEF ToSet

------------------------------------------------------------------------------
(* Types                                                                   *)

LEMMA ObjTyped ==
  ASSUME NEW o \in Obj
  PROVE  o[1] \in Id /\ Twin(o) \in Obj /\ Twin(o)[1] = o[1]
BY DEF Obj, Twin

LEMMA FreshTyped ==
  ASSUME TypeOK, last < MaxId
  PROVE  Fresh \in Obj /\ last + 1 \in Id /\ last + 1 \in 0..MaxId
BY ConstantsAssumption DEF TypeOK, Fresh, Obj, Id

LEMMA SeenTyped ==
  ASSUME TypeInv, NEW t \in Thread, NEW old \in Seen(t)
  PROVE  /\ ChangesSet(t) => old \in SUBSET Obj
         /\ ChangesRooms(t) => old \in Seq(Obj)
BY DEF TypeInv, TypeOK, HeaderTyped, Seen, Target, ChangesSet, ChangesRooms

LEMMA TypeInit == Init => TypeInv
<1> SUFFICES ASSUME Init PROVE TypeInv
  OBVIOUS
<1>1. <<>> \in Seq(Obj)
  BY EmptySeq
<1>2. TypeOK
  BY <1>1, ConstantsAssumption DEF Init, TypeOK
<1>3. HeaderTyped /\ ImageTyped
  BY DEF Init, HeaderTyped, ImageTyped, ChangesSet, ChangesRooms
<1> QED
  BY <1>2, <1>3 DEF TypeInv

LEMMA TypeInvited ==
  ASSUME TypeInv, NEW t \in Thread, NEW r \in RoomID, Invited(t, r)
  PROVE  TypeInv'
BY FreshTyped, ConstantsAssumption DEF TypeInv, TypeOK, HeaderTyped, ImageTyped, ChangesSet,
     ChangesRooms, Invited, Begin, NewIdentity, dataVars, roomVars, countVars, histVars

LEMMA TypeCreateRoom ==
  ASSUME TypeInv, NEW t \in Thread, NEW r \in RoomID, CreateRoom(t, r)
  PROVE  TypeInv'
BY FreshTyped, ConstantsAssumption DEF TypeInv, TypeOK, HeaderTyped, ImageTyped, ChangesSet,
     ChangesRooms, CreateRoom, Begin, NewIdentity, SetContext, dataVars, roomVars, countVars,
     histVars

LEMMA TypeCreateContact == ASSUME TypeInv, NEW t \in Thread, CreateContact(t) PROVE TypeInv'
BY FreshTyped, ConstantsAssumption DEF TypeInv, TypeOK, HeaderTyped, ImageTyped, ChangesSet,
     ChangesRooms, CreateContact, Begin, NewIdentity, dataVars, roomVars, countVars, histVars

LEMMA TypeDeleteContact ==
  ASSUME TypeInv, NEW t \in Thread, NEW o, DeleteContact(t, o)
  PROVE  TypeInv'
BY ConstantsAssumption DEF TypeInv, TypeOK, HeaderTyped, ImageTyped, ChangesSet,
     ChangesRooms, DeleteContact, Begin, dataVars, roomVars, countVars, histVars

LEMMA TypeNotFound == ASSUME TypeInv, NEW t \in Thread, NotFound(t) PROVE TypeInv'
BY ConstantsAssumption DEF TypeInv, TypeOK, HeaderTyped, ImageTyped, ChangesSet,
     ChangesRooms, NotFound, GoOn, dataVars, roomVars, countVars, histVars

LEMMA TypeRunQueues == ASSUME TypeInv, NEW t \in Thread, RunQueues(t) PROVE TypeInv'
BY ConstantsAssumption DEF TypeInv, TypeOK, HeaderTyped, ImageTyped, ChangesSet,
     ChangesRooms, RunQueues, GoOn, dataVars, roomVars, countVars, histVars

LEMMA TypeStopQueues == ASSUME TypeInv, NEW t \in Thread, StopQueues(t) PROVE TypeInv'
BY ConstantsAssumption DEF TypeInv, TypeOK, HeaderTyped, ImageTyped, ChangesSet,
     ChangesRooms, StopQueues, GoOn, dataVars, roomVars, countVars, histVars

LEMMA TypeUnserve == ASSUME TypeInv, NEW t \in Thread, Unserve(t) PROVE TypeInv'
BY ConstantsAssumption DEF TypeInv, TypeOK, HeaderTyped, ImageTyped, ChangesSet,
     ChangesRooms, Unserve, DeregisterService, GoOn, dataVars, roomVars, countVars, histVars

LEMMA TypeReadHeader == ASSUME TypeInv, NEW t \in Thread, ReadHeader(t) PROVE TypeInv'
BY ConstantsAssumption DEF TypeInv, TypeOK, HeaderTyped, ImageTyped, ChangesSet,
     ChangesRooms, ReadHeader, Target, dataVars, roomVars, countVars, histVars

LEMMA TypeRefuse == ASSUME TypeInv, NEW t \in Thread, NEW o, Refuse(t, o) PROVE TypeInv'
<1>1. o \in Obj /\ o[1] \in Id
  BY ObjTyped DEF TypeInv, TypeOK, Refuse
<1> QED
  BY <1>1, ConstantsAssumption DEF TypeInv, TypeOK, HeaderTyped, ImageTyped, ChangesSet,
       ChangesRooms, Refuse, Begin, dataVars, roomVars, countVars, histVars

LEMMA TypeAccept == ASSUME TypeInv, NEW t \in Thread, NEW o, Accept(t, o) PROVE TypeInv'
<1>1. o \in Obj
  BY DEF TypeInv, TypeOK, Accept
<1>2. ctx' \in [Obj -> {"none", "live", "cancelled"}]
  BY <1>1 DEF TypeInv, TypeOK, Accept, SetContext
<1>3. doubled' \subseteq Obj
  BY DEF TypeInv, TypeOK, Accept, Accepting
<1>4. /\ pc' = [pc EXCEPT ![t] = "serve"]
      /\ obj' = [obj EXCEPT ![t] = o]
      /\ pc[t] \in {"idle", "find"}
  BY DEF TypeInv, TypeOK, Accept, Begin, GoOn
<1> QED
  BY <1>1, <1>2, <1>3, <1>4, ConstantsAssumption DEF TypeInv, TypeOK, HeaderTyped,
     ImageTyped, ChangesSet, ChangesRooms, Accept, dataVars, roomVars, countVars, histVars

LEMMA RegisterTyped ==
  ASSUME TypeOK, NEW t \in Thread, NEW p, NEW q, NEW failed, RegisterService(t, p, q, failed),
         obj[t] \in Obj, failed \subseteq Obj
  PROVE  services' \subseteq Id /\ leaked' \subseteq Obj /\ fails' \in 0..MaxFail
<1>1. obj[t][1] \in Id
  BY ObjTyped
<1> QED
  BY <1>1, ConstantsAssumption DEF TypeOK, RegisterService

LEMMA TypeServe == ASSUME TypeInv, NEW t \in Thread, Serve(t) \/ ServeContact(t) PROVE TypeInv'
<1> DEFINE Goes(p, q) == GoOn(t, p, q) \/ GoOn(t, p, "idle")
<1>1. \/ Goes("serve", "append")
      \/ Goes("serve_new", "append_new")
      \/ Goes("serve_contact", "append_contact")
  BY DEF Serve, ServeContact, RegisterService
<1>2. obj[t] \in Obj
  BY <1>1 DEF TypeInv, TypeOK, GoOn
<1>3. services' \subseteq Id /\ leaked' \subseteq Obj /\ fails' \in 0..MaxFail
  BY <1>2, RegisterTyped DEF TypeInv, Serve, ServeContact
<1>4. HeaderTyped'
  BY <1>1 DEF TypeInv, TypeOK, HeaderTyped, ChangesSet, ChangesRooms, GoOn, Serve, ServeContact
<1>5. TypeOK'
  BY <1>1, <1>3 DEF TypeInv, TypeOK, GoOn, Serve, ServeContact, dataVars, roomVars, histVars
<1> QED
  BY <1>4, <1>5 DEF TypeInv, ImageTyped, Serve, ServeContact

(* A goroutine that has changed a slice returns or goes on.                *)
LEMMA StoredTyped ==
  ASSUME TypeInv, NEW t \in Thread, obj[t] \in Obj, NEW stale, NEW diff \in SUBSET Obj,
         Stored(t, stale, diff)
  PROVE  hit' \subseteq Id /\ header' = [header EXCEPT ![t] = {}]
BY ObjTyped DEF TypeInv, TypeOK, Stored, Ids

LEMMA TypePushRequest == ASSUME TypeInv, NEW t \in Thread, PushRequest(t) PROVE TypeInv'
<1>1. GoOn(t, "push", "find") \/ GoOn(t, "push", "idle")
  BY DEF PushRequest, GoOn
<1>2. obj[t] \in Obj
  BY <1>1 DEF TypeInv, TypeOK, GoOn
<1>3. requests' \subseteq Obj /\ hit' \subseteq Id /\ header' = [header EXCEPT ![t] = {}]
  <2>1. PICK old \in Seen(t) :
             requests' = old \cup {obj[t]} /\ Stored(t, old # requests, SetDiff(old, requests))
    BY DEF PushRequest
  <2>2. old \in SUBSET Obj
    BY <1>1, SeenTyped DEF ChangesSet, GoOn
  <2>3. SetDiff(old, requests) \in SUBSET Obj
    BY <2>2 DEF SetDiff, TypeInv, TypeOK
  <2> QED
    BY <1>2, <2>1, <2>2, <2>3, StoredTyped DEF TypeInv, TypeOK
<1>4. HeaderTyped'
  BY <1>1, <1>3 DEF TypeInv, TypeOK, HeaderTyped, ChangesSet, ChangesRooms, GoOn
<1>5. TypeOK'
  BY <1>1, <1>2, <1>3 DEF TypeInv, TypeOK, GoOn, PushRequest, dataVars, roomVars, countVars
<1> QED
  BY <1>4, <1>5 DEF TypeInv, ImageTyped, PushRequest

LEMMA TypeDropRequest == ASSUME TypeInv, NEW t \in Thread, DropRequest(t) PROVE TypeInv'
<1>1. GoOn(t, "drop", "idle")
  BY DEF DropRequest, GoOn
<1>2. obj[t] \in Obj
  BY <1>1 DEF TypeInv, TypeOK, GoOn
<1>3. requests' \subseteq Obj /\ hit' \subseteq Id /\ header' = [header EXCEPT ![t] = {}]
  <2>1. PICK old \in Seen(t) :
             IF obj[t] \in old
             THEN requests' = old \ {obj[t]} /\ Stored(t, old # requests, SetDiff(old, requests))
             ELSE header' = [header EXCEPT ![t] = {}] /\ UNCHANGED <<requests, hit>>
    BY DEF DropRequest
  <2>2. old \in SUBSET Obj
    BY <1>1, SeenTyped DEF ChangesSet, GoOn
  <2>3. SetDiff(old, requests) \in SUBSET Obj
    BY <2>2 DEF SetDiff, TypeInv, TypeOK
  <2> QED
    BY <1>2, <2>1, <2>2, <2>3, StoredTyped DEF TypeInv, TypeOK
<1>4. HeaderTyped'
  BY <1>1, <1>3 DEF TypeInv, TypeOK, HeaderTyped, ChangesSet, ChangesRooms, GoOn
<1>5. TypeOK'
  BY <1>1, <1>2, <1>3 DEF TypeInv, TypeOK, GoOn, DropRequest, dataVars, roomVars, countVars
<1> QED
  BY <1>4, <1>5 DEF TypeInv, ImageTyped, DropRequest

LEMMA TypeAppendContact == ASSUME TypeInv, NEW t \in Thread, AppendContact(t) PROVE TypeInv'
<1>1. GoOn(t, "append_contact", "idle")
  BY DEF AppendContact, GoOn
<1>2. obj[t] \in Obj
  BY <1>1 DEF TypeInv, TypeOK, GoOn
<1>3. contacts' \subseteq Obj /\ hit' \subseteq Id /\ header' = [header EXCEPT ![t] = {}]
  <2>1. PICK old \in Seen(t) :
             contacts' = old \cup {obj[t]} /\ Stored(t, old # contacts, SetDiff(old, contacts))
    BY DEF AppendContact
  <2>2. old \in SUBSET Obj
    BY <1>1, SeenTyped DEF ChangesSet, GoOn
  <2>3. SetDiff(old, contacts) \in SUBSET Obj
    BY <2>2 DEF SetDiff, TypeInv, TypeOK
  <2> QED
    BY <1>2, <2>1, <2>2, <2>3, StoredTyped DEF TypeInv, TypeOK
<1>4. HeaderTyped'
  BY <1>1, <1>3 DEF TypeInv, TypeOK, HeaderTyped, ChangesSet, ChangesRooms, GoOn
<1>5. TypeOK'
  BY <1>1, <1>2, <1>3 DEF TypeInv, TypeOK, GoOn, AppendContact, dataVars, roomVars, countVars
<1> QED
  BY <1>4, <1>5 DEF TypeInv, ImageTyped, AppendContact

LEMMA TypeRemoveContact == ASSUME TypeInv, NEW t \in Thread, RemoveContact(t) PROVE TypeInv'
<1>1. GoOn(t, "remove_contact", "idle")
  BY DEF RemoveContact, GoOn
<1>2. obj[t] \in Obj
  BY <1>1 DEF TypeInv, TypeOK, GoOn
<1>3. contacts' \subseteq Obj /\ hit' \subseteq Id /\ header' = [header EXCEPT ![t] = {}]
  <2>1. PICK old \in Seen(t) :
             IF obj[t] \in old
             THEN contacts' = old \ {obj[t]} /\ Stored(t, old # contacts, SetDiff(old, contacts))
             ELSE FoundNothing(t) /\ UNCHANGED contacts
    BY DEF RemoveContact
  <2>2. old \in SUBSET Obj
    BY <1>1, SeenTyped DEF ChangesSet, GoOn
  <2>3. SetDiff(old, contacts) \in SUBSET Obj
    BY <2>2 DEF SetDiff, TypeInv, TypeOK
  <2> QED
    <3>1. FoundNothing(t) => hit' \subseteq Id /\ header' = [header EXCEPT ![t] = {}]
      BY <1>2, ObjTyped DEF FoundNothing, TypeInv, TypeOK
    <3> QED
      BY <1>2, <2>1, <2>2, <2>3, <3>1, StoredTyped DEF TypeInv, TypeOK
<1>4. HeaderTyped'
  BY <1>1, <1>3 DEF TypeInv, TypeOK, HeaderTyped, ChangesSet, ChangesRooms, GoOn
<1>5. TypeOK'
  BY <1>1, <1>2, <1>3 DEF TypeInv, TypeOK, GoOn, RemoveContact, dataVars, roomVars, countVars
<1> QED
  BY <1>4, <1>5 DEF TypeInv, ImageTyped, RemoveContact

LEMMA TypeAppendRoom == ASSUME TypeInv, NEW t \in Thread, AppendRoom(t) PROVE TypeInv'
<1>1. GoOn(t, "append", "run") \/ GoOn(t, "append_new", "idle")
  BY DEF AppendRoom
<1>2. obj[t] \in Obj
  BY <1>1 DEF TypeInv, TypeOK, GoOn
<1>3. rooms' \in Seq(Obj) /\ hit' \subseteq Id /\ header' = [header EXCEPT ![t] = {}]
  <2>1. PICK old \in Seen(t) :
             rooms' = Append(old, obj[t]) /\ Stored(t, old # rooms, SeqDiff(old, rooms))
    BY DEF AppendRoom
  <2>2. old \in Seq(Obj) /\ rooms \in Seq(Obj)
    BY <1>1, SeenTyped DEF ChangesRooms, GoOn, TypeInv, TypeOK
  <2>3. SeqDiff(old, rooms) \in SUBSET Obj
    BY <2>2, ElementOfSeq, LenProperties DEF SeqDiff, ToSet
  <2> QED
    BY <1>2, <2>1, <2>2, <2>3, StoredTyped, AppendEffect DEF TypeInv, TypeOK
<1>4. HeaderTyped'
  BY <1>1, <1>3 DEF TypeInv, TypeOK, HeaderTyped, ChangesSet, ChangesRooms, GoOn
<1>5. TypeOK'
  BY <1>1, <1>2, <1>3 DEF TypeInv, TypeOK, GoOn, AppendRoom, dataVars, roomVars, countVars
<1> QED
  BY <1>4, <1>5 DEF TypeInv, ImageTyped, AppendRoom

LEMMA TypeRemoveRoom == ASSUME TypeInv, NEW t \in Thread, RemoveRoom(t) PROVE TypeInv'
<1>1. GoOn(t, "remove", "idle")
  BY DEF RemoveRoom
<1>2. obj[t] \in Obj
  BY <1>1 DEF TypeInv, TypeOK, GoOn
<1>3. rooms' \in Seq(Obj) /\ hit' \subseteq Id /\ header' = [header EXCEPT ![t] = {}]
  <2>1. PICK old \in Seen(t) :
             IF obj[t] \in ToSet(old)
             THEN /\ rooms' = deleteFromSlice(old, obj[t])
                  /\ Stored(t, old # rooms, SeqDiff(old, rooms))
             ELSE FoundNothing(t) /\ UNCHANGED rooms
    BY DEF RemoveRoom
  <2>2. old \in Seq(Obj) /\ rooms \in Seq(Obj)
    BY <1>1, SeenTyped DEF ChangesRooms, GoOn, TypeInv, TypeOK
  <2>3. SeqDiff(old, rooms) \in SUBSET Obj
    BY <2>2, ElementOfSeq, LenProperties DEF SeqDiff, ToSet
  <2> QED
    <3>1. FoundNothing(t) => hit' \subseteq Id /\ header' = [header EXCEPT ![t] = {}]
      BY <1>2, ObjTyped DEF FoundNothing, TypeInv, TypeOK
    <3> QED
      BY <1>2, <2>1, <2>2, <2>3, <3>1, StoredTyped, DeleteEffect DEF TypeInv, TypeOK
<1>4. HeaderTyped'
  BY <1>1, <1>3 DEF TypeInv, TypeOK, HeaderTyped, ChangesSet, ChangesRooms, GoOn
<1>5. TypeOK'
  BY <1>1, <1>2, <1>3 DEF TypeInv, TypeOK, GoOn, RemoveRoom, dataVars, roomVars, countVars
<1> QED
  BY <1>4, <1>5 DEF TypeInv, ImageTyped, RemoveRoom

LEMMA TypeDeleteRoom ==
  ASSUME TypeInv, NEW t \in Thread, NEW r, DeleteRoom(t, r)
  PROVE  TypeInv'
<1>1. PICK o \in GetRoom(r) : Begin(t, "delete", "unserve", o) /\ given' = given \cup {o[1]}
  BY DEF DeleteRoom
<1>2. o \in Obj /\ o[1] \in Id
  BY ObjTyped, ElementOfSeq, LenProperties DEF GetRoom, TypeInv, TypeOK
<1>3. HeaderTyped'
  BY <1>1 DEF TypeInv, TypeOK, HeaderTyped, ChangesSet, ChangesRooms, Begin, DeleteRoom
<1>4. TypeOK'
  BY <1>1, <1>2 DEF TypeInv, TypeOK, Begin, DeleteRoom, dataVars, roomVars, countVars
<1> QED
  BY <1>3, <1>4 DEF TypeInv, ImageTyped, DeleteRoom

LEMMA TypeSaveRooms == ASSUME TypeInv, SaveRooms PROVE TypeInv'
BY ConstantsAssumption DEF TypeInv, TypeOK, HeaderTyped, ImageTyped, ChangesSet,
     ChangesRooms, SaveRooms, dataVars, roomVars, histVars

LEMMA ListedTyped == ASSUME NEW s \in Seq(Obj) PROVE ToSet(s) \subseteq Obj
BY ElementOfSeq, LenProperties DEF ToSet

(* What the next start finds.                                              *)
Loaded(img) ==
  /\ contacts' = img.contacts
  /\ rooms' = img.rooms
  /\ requests' = {IF o \in ToSet(img.rooms) THEN Twin(o) ELSE o : o \in requests}
  /\ services' = Served(img.contacts, img.rooms)
  /\ running' = ToSet(img.rooms)
  /\ ctx' = [o \in Obj |-> IF o \in ToSet(img.rooms) THEN "live" ELSE "none"]
  /\ hit' = hit \cup (Ids(ToSet(rooms)) \ (Ids(requests) \cup Ids(ToSet(img.rooms))))
                \cup {obj[t][1] : t \in {u \in Thread : pc[u] = "push"}}

LEMMA RestartEffect ==
  ASSUME TypeInv, Restart
  PROVE  \E img \in image :
           Loaded(img) /\ img.contacts \in SUBSET Obj /\ img.rooms \in Seq(Obj)
<1>1. PICK img \in image : Loaded(img)
  BY DEF Restart, Loaded
<1>2. img \in [contacts : SUBSET Obj, rooms : Seq(Obj)]
  BY DEF TypeInv, ImageTyped
<1> QED
  BY <1>1, <1>2 DEF Loaded

LEMMA TypeRestart == ASSUME TypeInv, Restart PROVE TypeInv'
<1>1. PICK img \in image : Loaded(img) /\ img.contacts \in SUBSET Obj /\ img.rooms \in Seq(Obj)
  BY RestartEffect
<1>2. contacts' \subseteq Obj /\ rooms' \in Seq(Obj)
  BY <1>1 DEF Loaded
<1>3. ToSet(img.rooms) \subseteq Obj /\ ToSet(rooms) \subseteq Obj
  BY <1>1, ListedTyped DEF TypeInv, TypeOK
<1>4. requests' \subseteq Obj
  BY <1>1, ObjTyped DEF Loaded, TypeInv, TypeOK
<1>5. services' \subseteq Id
  BY <1>1, <1>3, ObjTyped DEF Loaded, Served, Ids
<1>6. hit' \subseteq Id
  BY <1>1, <1>3, ObjTyped DEF Loaded, Ids, TypeInv, TypeOK
<1>7. running' \subseteq Obj /\ ctx' \in [Obj -> {"none", "live", "cancelled"}]
  BY <1>1, <1>3 DEF Loaded
<1>8. TypeOK'
  BY <1>2, <1>4, <1>5, <1>6, <1>7 DEF TypeInv, TypeOK, Restart, countVars
<1>9. HeaderTyped' /\ ImageTyped'
  BY DEF HeaderTyped, ImageTyped, ChangesSet, ChangesRooms, Restart
<1> QED
  BY <1>8, <1>9 DEF TypeInv

(* The steps of a goroutine.                                               *)
LEMMA ThreadSteps ==
  ASSUME NEW t \in Thread, ThreadNext(t)
  PROVE  \/ \E r \in RoomID : Invited(t, r) \/ CreateRoom(t, r) \/ DeleteRoom(t, r)
         \/ \E o \in requests : Accept(t, o) \/ Refuse(t, o)
         \/ \E o \in contacts : DeleteContact(t, o)
         \/ ReadHeader(t) \/ PushRequest(t) \/ NotFound(t)
         \/ Serve(t) \/ AppendRoom(t) \/ RunQueues(t) \/ DropRequest(t)
         \/ Unserve(t) \/ StopQueues(t) \/ RemoveRoom(t)
         \/ CreateContact(t) \/ ServeContact(t) \/ AppendContact(t) \/ RemoveContact(t)
BY DEF ThreadNext

LEMMA TypeNext == TypeInv /\ [Next]_vars => TypeInv'
<1> SUFFICES ASSUME TypeInv, [Next]_vars PROVE TypeInv'
  OBVIOUS
<1>1. ASSUME NEW t \in Thread, ThreadNext(t) PROVE TypeInv'
  <2>1. CASE \E r \in RoomID : Invited(t, r) \/ CreateRoom(t, r) \/ DeleteRoom(t, r)
    BY <2>1, TypeInvited, TypeCreateRoom, TypeDeleteRoom
  <2>2. CASE \E o \in requests : Accept(t, o) \/ Refuse(t, o)
    BY <2>2, TypeAccept, TypeRefuse
  <2>3. CASE \E o \in contacts : DeleteContact(t, o)
    BY <2>3, TypeDeleteContact
  <2>4. CASE ReadHeader(t) \/ PushRequest(t) \/ NotFound(t)
    BY <2>4, TypeReadHeader, TypePushRequest, TypeNotFound
  <2>5. CASE Serve(t) \/ AppendRoom(t) \/ RunQueues(t) \/ DropRequest(t)
    BY <2>5, TypeServe, TypeAppendRoom, TypeRunQueues, TypeDropRequest
  <2>6. CASE Unserve(t) \/ StopQueues(t) \/ RemoveRoom(t)
    BY <2>6, TypeUnserve, TypeStopQueues, TypeRemoveRoom
  <2>7. CASE CreateContact(t) \/ ServeContact(t) \/ AppendContact(t) \/ RemoveContact(t)
    BY <2>7, TypeCreateContact, TypeServe, TypeAppendContact, TypeRemoveContact
  <2> QED
    BY <1>1, <2>1, <2>2, <2>3, <2>4, <2>5, <2>6, <2>7, ThreadSteps
<1>2. CASE UNCHANGED vars
  BY <1>2 DEF TypeInv, TypeOK, HeaderTyped, ImageTyped, ChangesSet, ChangesRooms, vars,
     dataVars, roomVars, countVars, histVars
<1> QED
  BY <1>1, <1>2, TypeSaveRooms, TypeRestart DEF Next

LEMMA TypeInvariant == Spec => []TypeInv
BY TypeInit, TypeNext, PTL DEF Spec

(* Lists hold rooms and contacts with an identity and the slices that      *)
(* goroutines have read do too: deleteFromSlice leaves no hole in one,     *)
(* whatever it races with.                                                 *)
THEOREM TypeCorrect == Spec => []TypeOK
<1>1. TypeInv => TypeOK
  BY DEF TypeInv
<1> QED
  BY <1>1, TypeInvariant, PTL

------------------------------------------------------------------------------
(* Promised identities                                                     *)

LEMMA KeptInit == Init => KeptInv
BY DEF Init, KeptInv, PromisedIsKept, DropsWhatIsThere, RemovesWhatWasGiven

OthersStay(t) == \A u \in Thread \ {t} : pc'[u] = pc[u] /\ obj'[u] = obj[u]

(* What a step must not lose.                                              *)
NothingIsLost ==
  /\ given \subseteq given' /\ hit \subseteq hit'
  /\ \A o \in Listed : o[1] \in given' \cup hit' \cup Ids(Listed')
  /\ \A o \in requests : o[1] \in given' \cup hit' \cup Ids(requests') \cup Ids(Listed')

(* What the goroutine that takes the step has to see to.                   *)
Responsible(t) ==
  /\ pc[t] = "push" /\ obj[t][1] \notin given' \cup hit' =>
       \/ pc'[t] = "push" /\ obj'[t] = obj[t]
       \/ obj[t][1] \in Ids(requests')
  /\ pc'[t] \in {"run", "drop"} => obj'[t][1] \in given' \cup hit' \cup Ids(Listed')
  /\ pc'[t] \in {"unserve", "stop", "remove"} => obj'[t][1] \in given'

LEMMA KeptStep ==
  ASSUME KeptInv, NEW t \in Thread, OthersStay(t), NothingIsLost, Responsible(t),
         \A i \in promised' \ promised : pc'[t] = "push" /\ obj'[t][1] = i
  PROVE  KeptInv'
<1>1. ASSUME NEW i \in Ids(Listed) PROVE i \in given' \cup hit' \cup Ids(Listed')
  BY DEF Ids, NothingIsLost
<1>2. ASSUME NEW i \in Ids(requests)
      PROVE  i \in given' \cup hit' \cup Ids(requests') \cup Ids(Listed')
  BY DEF Ids, NothingIsLost
<1>3. /\ Ids(requests \cup Listed) = Ids(requests) \cup Ids(Listed)
      /\ Ids(requests' \cup Listed') = Ids(requests') \cup Ids(Listed')
  BY DEF Ids
<1>4. PromisedIsKept'
  <2> SUFFICES ASSUME NEW i \in promised' \ (given' \cup hit')
               PROVE  \/ i \in Ids(requests' \cup Listed')
                      \/ \E u \in Thread : pc'[u] = "push" /\ obj'[u][1] = i
    BY DEF PromisedIsKept
  <2>1. CASE i \notin promised
    BY <2>1
  <2>2. CASE i \in Ids(requests \cup Listed)
    BY <1>1, <1>2, <1>3, <2>2
  <2>3. ASSUME NEW u \in Thread, pc[u] = "push", obj[u][1] = i
        PROVE  \/ i \in Ids(requests' \cup Listed')
               \/ \E k \in Thread : pc'[k] = "push" /\ obj'[k][1] = i
    BY <1>3, <2>3 DEF OthersStay, Responsible
  <2> QED
    BY <2>1, <2>2, <2>3 DEF KeptInv, PromisedIsKept, NothingIsLost
<1>5. DropsWhatIsThere'
  BY <1>1 DEF KeptInv, DropsWhatIsThere, OthersStay, NothingIsLost, Responsible
<1>6. RemovesWhatWasGiven'
  BY DEF KeptInv, RemovesWhatWasGiven, OthersStay, NothingIsLost, Responsible
<1> QED
  BY <1>4, <1>5, <1>6 DEF KeptInv

(* A step that leaves the lists alone and promises nothing.                *)
LEMMA KeptAlone ==
  ASSUME KeptInv, NEW t \in Thread, OthersStay(t), Responsible(t),
         UNCHANGED <<rooms, requests, promised, hit>>, given \subseteq given'
  PROVE  KeptInv'
<1>1. NothingIsLost
  BY DEF NothingIsLost, Listed, Ids
<1> QED
  BY <1>1, KeptStep

(* Beginning, going on and returning are steps of one goroutine.           *)
LEMMA OthersStayThen ==
  ASSUME TypeOK, NEW t \in Thread, NEW op, NEW p, NEW q, NEW o,
         Begin(t, op, p, o) \/ GoOn(t, p, q)
  PROVE  OthersStay(t)
BY DEF TypeOK, OthersStay, Begin, GoOn

(* A stale write hits every entry that it loses.                           *)
LEMMA RequestsAreHit ==
  ASSUME NEW t \in Thread, NEW old, Stored(t, old # requests, SetDiff(old, requests))
  PROVE  hit \subseteq hit' /\ \A o \in requests : o[1] \in hit' \/ o \in old
BY DEF Stored, SetDiff, Ids

LEMMA RoomsAreHit ==
  ASSUME TypeInv, NEW t \in Thread, NEW old \in Seq(Obj),
         Stored(t, old # rooms, SeqDiff(old, rooms))
  PROVE  hit \subseteq hit' /\ \A o \in Listed : o[1] \in hit' \/ o \in ToSet(old)
<1>1. rooms \in Seq(Obj)
  BY DEF TypeInv, TypeOK
<1>2. ASSUME NEW o \in Listed, o \notin ToSet(old) PROVE o \in SeqDiff(old, rooms)
  BY <1>1, <1>2, LostIsDifferent DEF Listed
<1> QED
  BY <1>2 DEF Stored, Ids, Listed

LEMMA KeptInvited ==
  ASSUME TypeInv, KeptInv, NEW t \in Thread, NEW r, Invited(t, r)
  PROVE  KeptInv'
<1>1. pc[t] = "idle" /\ pc'[t] = "push" /\ obj'[t] = Fresh /\ OthersStay(t)
  BY DEF Invited, Begin, OthersStay, TypeInv, TypeOK
<1>2. NothingIsLost
  BY DEF NothingIsLost, Invited, dataVars, Listed, Ids
<1>3. Responsible(t)
  BY <1>1 DEF Responsible
<1> QED
  BY <1>1, <1>2, <1>3, KeptStep DEF Invited, Fresh

LEMMA KeptBegun ==
  ASSUME TypeInv, KeptInv, NEW t \in Thread, NEW r, NEW o,
         \/ CreateRoom(t, r) \/ Refuse(t, o) \/ CreateContact(t) \/ DeleteContact(t, o)
         \/ DeleteRoom(t, r)
  PROVE  KeptInv'
<1>1. OthersStay(t)
  BY OthersStayThen DEF TypeInv, CreateRoom, Refuse, CreateContact, DeleteContact, DeleteRoom
<1>2. Responsible(t)
  BY DEF Responsible, CreateRoom, Refuse, CreateContact, DeleteContact, DeleteRoom, Begin,
         TypeInv, TypeOK
<1> QED
  BY <1>1, <1>2, KeptAlone DEF CreateRoom, Refuse, CreateContact, DeleteContact, DeleteRoom,
     dataVars, histVars

LEMMA KeptAccept ==
  ASSUME TypeInv, KeptInv, NEW t \in Thread, NEW o, Accept(t, o)
  PROVE  KeptInv'
<1>1. OthersStay(t)
  BY OthersStayThen DEF TypeInv, Accept
<1>2. Responsible(t)
  BY DEF Responsible, Accept, Begin, GoOn, TypeInv, TypeOK
<1> QED
  BY <1>1, <1>2, KeptAlone DEF Accept, dataVars

LEMMA KeptGoneOn ==
  ASSUME TypeInv, KeptInv, NEW t \in Thread,
         \/ NotFound(t) \/ Serve(t) \/ ServeContact(t) \/ RunQueues(t)
         \/ Unserve(t) \/ StopQueues(t)
  PROVE  KeptInv'
<1>1. OthersStay(t)
  BY OthersStayThen DEF TypeInv, NotFound, Serve, ServeContact, RunQueues, Unserve, StopQueues,
     RegisterService, DeregisterService
<1>2. Responsible(t)
  <2>1. CASE NotFound(t) \/ Serve(t) \/ ServeContact(t)
    BY <2>1 DEF Responsible, NotFound, Serve, ServeContact, RegisterService, GoOn, TypeInv, TypeOK
  <2>2. CASE RunQueues(t)
    BY <2>2 DEF Responsible, RunQueues, GoOn, TypeInv, TypeOK, KeptInv, DropsWhatIsThere,
       histVars, dataVars, Listed
  <2>3. CASE Unserve(t) \/ StopQueues(t)
    BY <2>3 DEF Responsible, Unserve, StopQueues, DeregisterService, GoOn, TypeInv, TypeOK,
       KeptInv, RemovesWhatWasGiven, histVars
  <2> QED
    BY <2>1, <2>2, <2>3
<1> QED
  BY <1>1, <1>2, KeptAlone DEF NotFound, Serve, ServeContact, RunQueues, Unserve, StopQueues,
     dataVars, histVars

LEMMA KeptReadHeader ==
  ASSUME TypeInv, KeptInv, NEW t \in Thread, ReadHeader(t)
  PROVE  KeptInv'
BY DEF KeptInv, PromisedIsKept, DropsWhatIsThere, RemovesWhatWasGiven, ReadHeader, Listed, Ids,
       dataVars, histVars

LEMMA KeptContacts ==
  ASSUME TypeInv, KeptInv, NEW t \in Thread, AppendContact(t) \/ RemoveContact(t)
  PROVE  KeptInv'
<1>1. OthersStay(t)
  BY OthersStayThen DEF TypeInv, AppendContact, RemoveContact
<1>2. Responsible(t)
  BY DEF Responsible, AppendContact, RemoveContact, GoOn, TypeInv, TypeOK
<1>3. hit \subseteq hit'
  BY DEF AppendContact, RemoveContact, Stored, FoundNothing
<1>4. NothingIsLost
  BY <1>3 DEF NothingIsLost, AppendContact, RemoveContact, Listed, Ids
<1> QED
  BY <1>1, <1>2, <1>4, KeptStep DEF AppendContact, RemoveContact

(* The request of the step is stored, and a stale write hits what it loses.*)
LEMMA KeptPushRequest ==
  ASSUME TypeInv, KeptInv, NEW t \in Thread, PushRequest(t)
  PROVE  KeptInv'
<1>1. PICK old \in Seen(t) :
        requests' = old \cup {obj[t]} /\ Stored(t, old # requests, SetDiff(old, requests))
  BY DEF PushRequest
<1>2. OthersStay(t)
  BY OthersStayThen DEF TypeInv, PushRequest
<1>3. Responsible(t)
  BY <1>1 DEF Responsible, PushRequest, GoOn, Ids, TypeInv, TypeOK
<1>4. NothingIsLost
  BY <1>1, RequestsAreHit DEF NothingIsLost, PushRequest, Listed, Ids
<1> QED
  BY <1>2, <1>3, <1>4, KeptStep DEF PushRequest

(* The room of a request that is dropped is listed, unless it was refused. *)
LEMMA KeptDropRequest ==
  ASSUME TypeInv, KeptInv, NEW t \in Thread, DropRequest(t)
  PROVE  KeptInv'
<1>1. PICK old \in Seen(t) :
        IF obj[t] \in old
        THEN requests' = old \ {obj[t]} /\ Stored(t, old # requests, SetDiff(old, requests))
        ELSE header' = [header EXCEPT ![t] = {}] /\ UNCHANGED <<requests, hit>>
  BY DEF DropRequest
<1>2. OthersStay(t)
  BY OthersStayThen DEF TypeInv, DropRequest
<1>3. Responsible(t)
  BY DEF Responsible, DropRequest, GoOn, TypeInv, TypeOK
<1>4. obj[t][1] \in given \cup hit \cup Ids(Listed)
  BY DEF KeptInv, DropsWhatIsThere, DropRequest, GoOn
<1>5. Listed' = Listed /\ given' = given /\ promised' = promised
  BY DEF DropRequest, Listed
<1>6. hit \subseteq hit' /\ \A o \in requests : o[1] \in hit' \/ o = obj[t] \/ o \in requests'
  BY <1>1, RequestsAreHit
<1>7. NothingIsLost
  BY <1>4, <1>5, <1>6 DEF NothingIsLost, Ids
<1> QED
  BY <1>2, <1>3, <1>5, <1>7, KeptStep

LEMMA KeptAppendRoom ==
  ASSUME TypeInv, KeptInv, NEW t \in Thread, AppendRoom(t)
  PROVE  KeptInv'
<1>1. PICK old \in Seen(t) :
        rooms' = Append(old, obj[t]) /\ Stored(t, old # rooms, SeqDiff(old, rooms))
  BY DEF AppendRoom
<1>2. old \in Seq(Obj) /\ obj[t] \in Obj
  BY SeenTyped DEF AppendRoom, GoOn, ChangesRooms, TypeInv, TypeOK
<1>3. Listed' = ToSet(old) \cup {obj[t]}
  BY <1>1, <1>2, AppendEffect DEF Listed
<1>4. OthersStay(t)
  BY OthersStayThen DEF TypeInv, AppendRoom
<1>5. Responsible(t)
  BY <1>3 DEF Responsible, AppendRoom, GoOn, Ids, TypeInv, TypeOK
<1>6. hit \subseteq hit' /\ \A o \in Listed : o[1] \in hit' \/ o \in Listed'
  BY <1>1, <1>2, <1>3, RoomsAreHit
<1>7. NothingIsLost
  BY <1>6 DEF NothingIsLost, AppendRoom, Ids
<1> QED
  BY <1>4, <1>5, <1>7, KeptStep DEF AppendRoom

(* deleteRoom removes what the user has deleted, and nothing else.         *)
LEMMA KeptRemoveRoom ==
  ASSUME TypeInv, KeptInv, NEW t \in Thread, RemoveRoom(t)
  PROVE  KeptInv'
<1>1. PICK old \in Seen(t) :
        IF obj[t] \in ToSet(old)
        THEN /\ rooms' = deleteFromSlice(old, obj[t])
             /\ Stored(t, old # rooms, SeqDiff(old, rooms))
        ELSE FoundNothing(t) /\ UNCHANGED rooms
  BY DEF RemoveRoom
<1>2. old \in Seq(Obj)
  BY SeenTyped DEF RemoveRoom, GoOn, ChangesRooms, TypeInv, TypeOK
<1>3. OthersStay(t)
  BY OthersStayThen DEF TypeInv, RemoveRoom
<1>4. Responsible(t)
  BY DEF Responsible, RemoveRoom, GoOn, TypeInv, TypeOK
<1>5. obj[t][1] \in given
  BY DEF KeptInv, RemovesWhatWasGiven, RemoveRoom, GoOn
<1>6. hit \subseteq hit' /\ \A o \in Listed : o[1] \in hit' \/ o = obj[t] \/ o \in Listed'
  BY <1>1, <1>2, RoomsAreHit, DeleteEffect DEF Listed, FoundNothing
<1>7. NothingIsLost
  BY <1>5, <1>6 DEF NothingIsLost, RemoveRoom, Ids
<1> QED
  BY <1>3, <1>4, <1>7, KeptStep DEF RemoveRoom

(* An exit keeps requests and what the image has of the rooms.             *)
LEMMA KeptRestart ==
  ASSUME TypeInv, KeptInv, Restart
  PROVE  KeptInv'
<1>1. PICK img \in image : Loaded(img)
  BY RestartEffect
<1>2. \A t \in Thread : pc'[t] = "idle"
  BY DEF Restart
<1>3. promised' = promised /\ given' = given /\ hit \subseteq hit'
  BY <1>1 DEF Restart, Loaded
<1>4. ASSUME NEW o \in requests PROVE o[1] \in Ids(requests')
  <2>1. o \in Obj
    BY DEF TypeInv, TypeOK
  <2> DEFINE next == IF o \in ToSet(img.rooms) THEN Twin(o) ELSE o
  <2>2. next \in requests' /\ next[1] = o[1]
    BY <1>1, <2>1, ObjTyped DEF Loaded
  <2> QED
    BY <2>2 DEF Ids
<1>5. ASSUME NEW o \in Listed PROVE o[1] \in Ids(requests) \cup Ids(Listed') \cup hit'
  BY <1>1 DEF Loaded, Listed, Ids
<1>6. PromisedIsKept'
  <2> SUFFICES ASSUME NEW i \in promised \ (given \cup hit')
               PROVE  i \in Ids(requests' \cup Listed')
    BY <1>3 DEF PromisedIsKept
  <2>1. Ids(requests) \subseteq Ids(requests')
    BY <1>4 DEF Ids
  <2>2. Ids(Listed) \subseteq Ids(requests) \cup Ids(Listed') \cup hit'
    BY <1>5 DEF Ids
  <2>3. ASSUME NEW t \in Thread, pc[t] = "push" PROVE obj[t][1] \in hit'
    BY <1>1, <2>3 DEF Loaded
  <2>4. Ids(requests \cup Listed) = Ids(requests) \cup Ids(Listed)
    BY DEF Ids
  <2>5. Ids(requests' \cup Listed') = Ids(requests') \cup Ids(Listed')
    BY DEF Ids
  <2> QED
    BY <1>3, <2>1, <2>2, <2>3, <2>4, <2>5 DEF KeptInv, PromisedIsKept
<1> QED
  BY <1>2, <1>6 DEF KeptInv, DropsWhatIsThere, RemovesWhatWasGiven

LEMMA KeptNext == TypeInv /\ KeptInv /\ [Next]_vars => KeptInv'
<1> SUFFICES ASSUME TypeInv, KeptInv, [Next]_vars PROVE KeptInv'
  OBVIOUS
<1>1. ASSUME NEW t \in Thread, ThreadNext(t) PROVE KeptInv'
  <2>1. CASE \E r \in RoomID : Invited(t, r) \/ CreateRoom(t, r) \/ DeleteRoom(t, r)
    BY <2>1, KeptInvited, KeptBegun
  <2>2. CASE \E o \in requests : Accept(t, o) \/ Refuse(t, o)
    BY <2>2, KeptAccept, KeptBegun
  <2>3. CASE \E o \in contacts : DeleteContact(t, o)
    BY <2>3, KeptBegun
  <2>4. CASE ReadHeader(t) \/ PushRequest(t) \/ NotFound(t)
    BY <2>4, KeptReadHeader, KeptPushRequest, KeptGoneOn
  <2>5. CASE Serve(t) \/ AppendRoom(t) \/ RunQueues(t) \/ DropRequest(t)
    BY <2>5, KeptGoneOn, KeptAppendRoom, KeptDropRequest
  <2>6. CASE Unserve(t) \/ StopQueues(t) \/ RemoveRoom(t)
    BY <2>6, KeptGoneOn, KeptRemoveRoom
  <2>7. CASE CreateContact(t) \/ ServeContact(t) \/ AppendContact(t) \/ RemoveContact(t)
    BY <2>7, KeptBegun, KeptGoneOn, KeptContacts
  <2> QED
    BY <1>1, <2>1, <2>2, <2>3, <2>4, <2>5, <2>6, <2>7, ThreadSteps
<1>2. CASE SaveRooms \/ UNCHANGED vars
  BY <1>2 DEF KeptInv, PromisedIsKept, DropsWhatIsThere, RemovesWhatWasGiven, SaveRooms, vars,
     dataVars, histVars, Listed, Ids
<1> QED
  BY <1>1, <1>2, KeptRestart DEF Next

LEMMA KeptInvariant == Spec => []KeptInv
<1>1. Init => KeptInv
  BY KeptInit
<1>2. TypeInv /\ KeptInv /\ [Next]_vars => KeptInv'
  BY KeptNext
<1> QED
  BY <1>1, <1>2, TypeInvariant, PTL DEF Spec

(* An identity that contClientHandler has given to an inviter stays a      *)
(* request or a room until the user deletes it, however many handlers and  *)
(* frontends there are, whatever fails, and through exits and restarts:    *)
(* only what hit names is lost.                                            *)
THEOREM PromisesAreKept == Spec => []PromisedIsKept
<1>1. KeptInv => PromisedIsKept
  BY DEF KeptInv
<1> QED
  BY <1>1, KeptInvariant, PTL

==============================================================================
