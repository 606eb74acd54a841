------------------------------- MODULE RoomLog -------------------------------
(***************************************************************************)
(* What the message synchronisation of a room promises, without saying how *)
(* it is done.  Every member publishes messages in the order of its own    *)
(* clock, and every other member learns them one at a time, without ever   *)
(* skipping an earlier message of the same sender.  That is the condition  *)
(* under which a SyncMap (src/internal/types/util.go), which records only  *)
(* the newest time per sender, is a sound summary of what a room holds.    *)
(***************************************************************************)
EXTENDS Naturals

CONSTANTS Node,  \* the members of the room
          Time   \* the times a message may carry

VARIABLE held    \* held[n]: the set of messages in the room of member n

Message == [sender : Node, time : Time, sigOk : BOOLEAN]

(* The messages of k's sender in the set S that are older than m.          *)
Older(S, m) == {k \in S : k.sender = m.sender /\ k.time < m.time}

Init == held = [n \in Node |-> {}]

(* A member adds a message of its own, newer than all it published before. *)
Publish(m) ==
  /\ \A k \in held[m.sender] : k.sender = m.sender => k.time < m.time
  /\ held' = [held EXCEPT ![m.sender] = @ \cup {m}]

(* Member n learns a validly signed message that its sender published.     *)
Learn(n, m) ==
  /\ n # m.sender
  /\ m.sigOk
  /\ m \in held[m.sender]
  /\ Older(held[m.sender], m) \subseteq held[n]
  /\ held' = [held EXCEPT ![n] = @ \cup {m}]

Next == \E m \in Message : Publish(m) \/ \E n \in Node : Learn(n, m)

Spec == Init /\ [][Next]_held
==============================================================================
