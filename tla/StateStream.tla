----------------------------- MODULE StateStream ----------------------------
(***************************************************************************)
(* What the server tells its clients about the player table: the events of *)
(* appendEventInMem, the 20 Hz frames of pendingStates, the 1 Hz full      *)
(* snapshots (state.ts) and the welcome of a hello (ws.ts).  Every message *)
(* is encrypted by a thread pool before it is sent, so messages overtake   *)
(* each other there; who receives it is decided when it comes out.         *)
(*                                                                         *)
(* A pose is the number of the state message that set it.  The outcome of  *)
(* combat is reduced to who has fallen: Combat models it in full.          *)
(***************************************************************************)
EXTENDS Integers, FiniteSets

CONSTANTS
    Id,         \* player ids; each is given to one connection
    Absent,     \* no pose, no entry, nobody
    All,        \* the addressee of a broadcast
    Mover,      \* bound: the players whose state messages are accepted
    MaxPose,    \* bound: state messages accepted from each of them
    MaxSending  \* bound: messages being encrypted when another is begun

ASSUME StreamAssumption ==
    /\ Mover \subseteq Id
    /\ MaxPose \in Nat
    /\ MaxSending \in Nat \ {0}
    /\ Absent \notin Id \cup Nat \cup {All} /\ All \notin Id

VARIABLES
    met,        \* ids whose hello was handled
    clients,    \* ids with a registered client
    cached,     \* id -> its pose in playersCache, or Absent
    pose,       \* id -> the last pose accepted from it
    fallen,     \* ids with no hp left
    pending,    \* pendingStates: id -> pose, or Absent
    sending     \* messages being encrypted

svars == <<met, clients, cached, pose, fallen, pending, sending>>

Pose == 0 .. MaxPose
Poses == [Id -> Pose \cup {Absent}]
Nobody == [p \in Id |-> Absent]

Room == Cardinality(sending) < MaxSending

Event(t, p) == [t |-> t, to |-> All, id |-> p, pose |-> cached'[p]]
Welcome(p) == [t |-> "welcome", to |-> p]
Snapshot(to) == [t |-> "snapshot", to |-> to, players |-> cached]
States == [t |-> "states", to |-> All, list |-> pending]

Message ==
    [t : {"join", "leave", "respawn"}, to : {All}, id : Id, pose : Pose \cup {Absent}]
    \cup [t : {"welcome", "error"}, to : Id]
    \cup [t : {"snapshot"}, to : Id \cup {All}, players : Poses]
    \cup [t : {"states"}, to : {All}, list : Poses]

StreamInit ==
    /\ met = {}
    /\ clients = {}
    /\ cached = Nobody
    /\ pose = [p \in Id |-> 0]
    /\ fallen = {}
    /\ pending = Nobody
    /\ sending = {}

\* Each player has one pending state, the one queued last.
enqueuePendingState(p, s) == pending' = [pending EXCEPT ![p] = s]

----------------------------------------------------------------------------
\* The hello handler registers the client, writes its entry and broadcasts
\* the join.
Hello(p) ==
    /\ p \notin met
    /\ Room
    /\ met' = met \cup {p}
    /\ clients' = clients \cup {p}
    /\ cached' = [cached EXCEPT ![p] = 0]
    /\ sending' = sending \cup {Event("join", p)}
    /\ UNCHANGED <<pose, fallen, pending>>

\* onclose forgets the client and its entry; its pending state stays.
OnClose(p) ==
    /\ p \in clients
    /\ Room
    /\ clients' = clients \ {p}
    /\ cached' = [cached EXCEPT ![p] = Absent]
    /\ fallen' = fallen \ {p}
    /\ sending' = sending \cup {Event("leave", p)}
    /\ UNCHANGED <<met, pose, pending>>

\* The clean-up drops the entry that a late state message left behind.
Cleanup(p) ==
    /\ p \notin clients
    /\ cached[p] # Absent
    /\ cached' = [cached EXCEPT ![p] = Absent]
    /\ fallen' = fallen \ {p}
    /\ UNCHANGED <<met, clients, pose, pending, sending>>

\* A snowball takes the player's last hp.
Fall(p) ==
    /\ cached[p] # Absent
    /\ p \notin fallen
    /\ p \in Mover /\ pose[p] < MaxPose
    /\ fallen' = fallen \cup {p}
    /\ UNCHANGED <<met, clients, cached, pose, pending, sending>>

\* serverHandleState on a player who stands: the entry is written, created
\* where it is missing, and queued for the next frame.
Move(p) ==
    /\ p \in met \ fallen
    /\ p \in Mover /\ pose[p] < MaxPose
    /\ pose' = [pose EXCEPT ![p] = @ + 1]
    /\ cached' = [cached EXCEPT ![p] = pose'[p]]
    /\ enqueuePendingState(p, pose'[p])
    /\ UNCHANGED <<met, clients, fallen, sending>>

\* serverHandleState on a player who is due to revive: the entry is written
\* and the respawn broadcast; the new pose is queued after that broadcast.
Revive(p) ==
    /\ p \in met \cap fallen
    /\ Room
    /\ p \in Mover /\ pose[p] < MaxPose
    /\ pose' = [pose EXCEPT ![p] = @ + 1]
    /\ cached' = [cached EXCEPT ![p] = pose'[p]]
    /\ fallen' = fallen \ {p}
    /\ sending' = sending \cup {Event("respawn", p)}
    /\ UNCHANGED <<met, clients, pending>>

\* One turn of the loop of startStateTickOnce, which waits for its frame.
StateTick ==
    /\ clients # {}
    /\ pending # Nobody
    /\ Room
    /\ \A m \in sending : m.t # "states"
    /\ sending' = sending \cup {States}
    /\ pending' = Nobody
    /\ UNCHANGED <<met, clients, cached, pose, fallen>>

\* One turn of the loop of startStateSyncOnce, which waits for its snapshot.
StateSync ==
    /\ clients # {}
    /\ Room
    /\ \A m \in sending : ~ (m.t = "snapshot" /\ m.to = All)
    /\ sending' = sending \cup {Snapshot(All)}
    /\ UNCHANGED <<met, clients, cached, pose, fallen, pending>>

\* Encryption of m ends: it is handed to the sockets, and the handler that
\* waits for the broadcast goes on.
Encrypted(m) ==
    /\ m \in sending
    /\ sending' = (sending \ {m}) \cup
         IF m.t = "join" THEN {Welcome(m.id), Snapshot(m.id)} ELSE {}
    /\ IF m.t = "respawn" THEN enqueuePendingState(m.id, m.pose)
                           ELSE UNCHANGED pending
    /\ UNCHANGED <<met, clients, cached, pose, fallen>>

----------------------------------------------------------------------------
\* Type invariant: whoever is registered or down has said hello.
StreamTypeOK ==
    /\ met \subseteq Id
    /\ clients \subseteq met
    /\ cached \in Poses
    /\ pose \in [Id -> Pose]
    /\ fallen \subseteq met
    /\ pending \in Poses
    /\ sending \subseteq Message
=============================================================================
