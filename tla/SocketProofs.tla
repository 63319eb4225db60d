---------------------------- MODULE SocketProofs ----------------------------
(***************************************************************************)
(* Theorems about what a Room's Participants see, for every value of the   *)
(* constants: who connects and disconnects whom (Connections), how a Bot   *)
(* Token is revoked (TokenRevocation), how a Bot's socket follows its Room *)
(* (RoomAgent), and how the frames of a replay follow the table            *)
(* (ReplayFrames).  ServicesProofs carries them over to the parts of       *)
(* Services.                                                               *)
(***************************************************************************)
EXTENDS Integers, Sequences, FiniteSets, FiniteSetTheorems, SequenceTheorems, TLAPS

-----------------------------------------------------------------------------
(* The locks and the sockets *)

CONSTANTS C, Humans, Agents, MaxLock

VARIABLES task, slot, owner, entry, told, valid, expelled, room

Sockets == INSTANCE Connections

P == Sockets!P
Users == Sockets!Users
Locks == Sockets!Locks
Task == [pc : Sockets!Pc, op : Sockets!Op, p : P \cup {"none"}, lock : Locks]

\* One task moves; all others stay as they are.
Moves(u, pc, op, p, lock) ==
  /\ task' \in [Users -> Task]
  /\ \A v \in Users : v # u => task'[v] = task[v]
  /\ task'[u].pc = pc /\ task'[u].op = op /\ task'[u].p = p /\ task'[u].lock = lock

LEMMA GoesMoves ==
  ASSUME Sockets!TypeOK, NEW u \in Users, NEW pc \in Sockets!Pc, Sockets!Goes(u, pc)
  PROVE  Moves(u, pc, task[u].op, task[u].p, task[u].lock)
BY DEF Sockets!TypeOK, Sockets!Goes, Moves, Task, P, Users, Locks

LEMMA RecordMoves ==
  ASSUME Sockets!TypeOK, NEW u \in Users, NEW pc \in Sockets!Pc, NEW op \in Sockets!Op,
         NEW p \in P \cup {"none"}, NEW lock \in Locks,
         task' = [task EXCEPT ![u] = [pc |-> pc, op |-> op, p |-> p, lock |-> lock]]
  PROVE  Moves(u, pc, op, p, lock)
BY DEF Sockets!TypeOK, Moves, Task, P, Users, Locks

\* A task that takes the lock of its Participant into its hands.
LEMMA WantsMoves ==
  ASSUME Sockets!Assumption, Sockets!TypeOK, NEW u \in Users, NEW op \in Sockets!Op, NEW p \in P,
         Sockets!Wants(u, op, p)
  PROVE  \E l \in Locks :
           /\ Moves(u, "want", op, p, l)
           /\ \/ p \in Agents /\ l = 0 /\ UNCHANGED slot
              \/ /\ p \in Humans /\ l # 0
                 /\ slot' = [slot EXCEPT ![p] = l]
                 /\ slot[p] # 0 => l = slot[p]
<1>1. CASE /\ p \in Agents
           /\ task' = [task EXCEPT ![u] = [pc |-> "want", op |-> op, p |-> p, lock |-> 0]]
           /\ UNCHANGED slot
  <2>1. 0 \in Locks
    BY DEF Locks, Sockets!Locks, Sockets!Assumption
  <2>2. Moves(u, "want", op, p, 0)
    BY <1>1, <2>1, RecordMoves DEF Sockets!Pc
  <2> QED
    BY <1>1, <2>1, <2>2
<1>2. CASE /\ p \in Humans
           /\ \E l \in Locks \ {0} :
                /\ IF slot[p] # 0 THEN l = slot[p]
                   ELSE l \in Sockets!Unused /\ \A k \in Sockets!Unused : l <= k
                /\ slot' = [slot EXCEPT ![p] = l]
                /\ task' = [task EXCEPT ![u] = [pc |-> "want", op |-> op, p |-> p, lock |-> l]]
  <2>1. PICK l \in Locks \ {0} :
          /\ slot[p] # 0 => l = slot[p]
          /\ slot' = [slot EXCEPT ![p] = l]
          /\ task' = [task EXCEPT ![u] = [pc |-> "want", op |-> op, p |-> p, lock |-> l]]
    BY <1>2
  <2>2. Moves(u, "want", op, p, l)
    BY <2>1, RecordMoves DEF Sockets!Pc
  <2> QED
    BY <1>2, <2>1, <2>2
<1> QED
  BY <1>1, <1>2 DEF Sockets!Wants, Locks

-----------------------------------------------------------------------------
(* The locks *)

Inv == Sockets!TypeOK /\ Sockets!LockInv /\ Sockets!TaskInv

\* Who holds a lock, or has none, changes nothing for the others.
LEMMA LocksStay ==
  ASSUME Inv, NEW u \in Users, NEW pc, NEW op, NEW p, NEW lock, Moves(u, pc, op, p, lock),
         UNCHANGED <<slot, owner>>,
         pc \in Sockets!Active =>
           /\ task[u].pc \in Sockets!Active /\ (task[u].pc = "want" => pc = "want")
           /\ p = task[u].p /\ lock = task[u].lock
  PROVE  Sockets!LockInv'
<1>1. ASSUME NEW v \in Users, v # u, task'[v].pc \in Sockets!Active
      PROVE  /\ task'[v].pc # "want" => owner'[task'[v].lock] = v
             /\ task'[v].p \in Humans => task'[v].lock # 0 /\ task'[v].lock = slot'[task'[v].p]
             /\ task'[v].p \in Agents => task'[v].lock = 0
  BY <1>1 DEF Inv, Sockets!LockInv, Moves, Users
<1>2. ASSUME task'[u].pc \in Sockets!Active
      PROVE  /\ task'[u].pc # "want" => owner'[task'[u].lock] = u
             /\ task'[u].p \in Humans => task'[u].lock # 0 /\ task'[u].lock = slot'[task'[u].p]
             /\ task'[u].p \in Agents => task'[u].lock = 0
  BY <1>2 DEF Inv, Sockets!LockInv, Moves, Users
<1> QED
  BY <1>1, <1>2 DEF Sockets!LockInv, Users

\* Whoever wants a lock takes the one of its Participant, or a new one.
LEMMA WantsKeepsLocks ==
  ASSUME Sockets!Assumption, Inv, NEW u \in Users, NEW op \in Sockets!Op, NEW p \in P,
         Sockets!Wants(u, op, p), UNCHANGED owner
  PROVE  Sockets!LockInv'
<1>1. PICK l \in Locks :
        /\ Moves(u, "want", op, p, l)
        /\ \/ p \in Agents /\ l = 0 /\ UNCHANGED slot
           \/ /\ p \in Humans /\ l # 0
              /\ slot' = [slot EXCEPT ![p] = l]
              /\ slot[p] # 0 => l = slot[p]
  BY WantsMoves DEF Inv
<1>2. \A q \in Humans : slot'[q] = IF p \in Humans /\ q = p THEN l ELSE slot[q]
  BY <1>1 DEF Inv, Sockets!TypeOK, Sockets!Assumption
<1>3. ASSUME NEW v \in Users, v # u, task'[v].pc \in Sockets!Active
      PROVE  /\ task'[v].pc # "want" => owner'[task'[v].lock] = v
             /\ task'[v].p \in Humans => task'[v].lock # 0 /\ task'[v].lock = slot'[task'[v].p]
             /\ task'[v].p \in Agents => task'[v].lock = 0
  BY <1>1, <1>2, <1>3 DEF Inv, Sockets!LockInv, Moves, Users
<1>4. ASSUME task'[u].pc \in Sockets!Active
      PROVE  /\ task'[u].pc # "want" => owner'[task'[u].lock] = u
             /\ task'[u].p \in Humans => task'[u].lock # 0 /\ task'[u].lock = slot'[task'[u].p]
             /\ task'[u].p \in Agents => task'[u].lock = 0
  BY <1>1, <1>2, <1>4 DEF Moves, Sockets!Assumption, Users
<1> QED
  BY <1>3, <1>4 DEF Sockets!LockInv, Users

\* Nobody else has the lock that a task holds.
LEMMA OnlyHolder ==
  ASSUME Inv, NEW u \in Users, task[u].pc \in Sockets!Active \ {"want"}, task[u].p \in P,
         NEW v \in Users, v # u, task[v].pc \in Sockets!Active \ {"want"}
  PROVE  task[v].p # task[u].p
BY DEF Inv, Sockets!LockInv, Users, P, Sockets!P

-----------------------------------------------------------------------------
(* A step of one task that leaves the sockets as they are *)

\* What the task of a user may become.
Proper(u, pc, op, p) ==
  /\ pc \in Sockets!Active \cup {"reclaim"} => p \in P
  /\ u \in C => /\ pc # "told" /\ op \notin {"kick", "revoke"}
                /\ pc = "joined" => op = "open"
                /\ pc = "remove" => p \in Humans /\ op = "end"
                /\ op = "refused" => pc \in {"unlock", "reclaim", "over"}
  /\ u = "admin" => task'[u] = Sockets!Idle \/ (op = "kick" /\ p \in Humans)
  /\ u = "worker" => task'[u] = Sockets!Idle \/ (op = "revoke" /\ p \in Agents \ valid')

LEMMA TasksStay ==
  ASSUME Sockets!Assumption, Inv, NEW u \in Users, NEW pc, NEW op, NEW p, NEW lock,
         Moves(u, pc, op, p, lock), Proper(u, pc, op, p), valid' \subseteq valid
  PROVE  Sockets!TaskInv'
<1>1. \A v \in Users : task'[v].pc \in Sockets!Active \cup {"reclaim"} => task'[v].p \in P
  BY DEF Inv, Sockets!TaskInv, Moves, Proper, Users, P
<1>2. ASSUME NEW c \in C
      PROVE  /\ task'[c].pc # "told" /\ task'[c].op \notin {"kick", "revoke"}
             /\ task'[c].pc = "joined" => task'[c].op = "open"
             /\ task'[c].pc = "remove" => task'[c].p \in Humans /\ task'[c].op = "end"
             /\ task'[c].op = "refused" => task'[c].pc \in {"unlock", "reclaim", "over"}
  <2>1. c \in Users
    BY DEF Users, Sockets!Users
  <2>2. CASE c = u
    BY <2>2 DEF Moves, Proper
  <2>3. CASE c # u
    BY <2>1, <2>3 DEF Inv, Sockets!TaskInv, Moves
  <2> QED
    BY <2>2, <2>3
<1>3. task'["admin"] # Sockets!Idle => task'["admin"].op = "kick" /\ task'["admin"].p \in Humans
  <2>1. "admin" \in Users
    BY DEF Users, Sockets!Users
  <2> QED
    BY <2>1 DEF Inv, Sockets!TaskInv, Moves, Proper
<1>4. task'["worker"] # Sockets!Idle =>
        task'["worker"].op = "revoke" /\ task'["worker"].p \in Agents \ valid'
  <2>1. "worker" \in Users
    BY DEF Users, Sockets!Users
  <2> QED
    BY <2>1 DEF Inv, Sockets!TaskInv, Moves, Proper
<1> QED
  BY <1>1, <1>2, <1>3, <1>4 DEF Sockets!TaskInv, Sockets!Idle, Users, P

\* The task of a socket neither opens its Participant nor registers.
Quiet(u, pc, op, p) ==
  /\ u \in C =>
       \/ task[u] = Sockets!Idle /\ pc = "want"
       \/ /\ p = task[u].p /\ pc # "joined" /\ task[u].pc # "joined"
          /\ op = "open" =>
               /\ task[u].op = "open"
               /\ task[u].pc \in {"unlock", "reclaim", "run", "over"} =>
                    pc \in {"unlock", "reclaim", "run", "over"}
               /\ pc \in {"unlock", "reclaim", "run"} => Sockets!Registered(u)
  /\ u = "worker" => pc # "told"

RoomsEnd == room' \in [P -> Sockets!Presence] /\ \A q \in P : room'[q] \in {room[q], "gone"}

LEMMA SocketsStay ==
  ASSUME Sockets!Assumption, Sockets!ConnectionInv, NEW u \in Users, NEW pc, NEW op, NEW p,
         NEW lock, Moves(u, pc, op, p, lock), Quiet(u, pc, op, p), RoomsEnd,
         valid' \subseteq valid, UNCHANGED <<entry, told, expelled>>
  PROVE  Sockets!SocketInv' /\ Sockets!ExpelInv' /\ Sockets!AgentsLeaveNoGhost'
<1>0. /\ Sockets!TypeOK /\ Sockets!SocketInv /\ Sockets!ExpelInv /\ Sockets!AgentsLeaveNoGhost
      /\ "none" \notin P /\ C \subseteq Users /\ "worker" \in Users /\ "worker" \notin C
      /\ expelled \subseteq P
  BY DEF Sockets!ConnectionInv, Sockets!Assumption, P, Sockets!P, Users, Sockets!Users, Sockets!TypeOK
<1>1. ASSUME NEW c \in C, task'[c].op = "open", task'[c].pc \in {"unlock", "reclaim", "run"}
      PROVE  Sockets!Registered(c) /\ task'[c].p = task[c].p
  BY <1>0, <1>1 DEF Moves, Quiet, Sockets!Registered
<1>2. ASSUME NEW c \in C
      PROVE  /\ task'[c].pc = "joined" => task[c].pc = "joined" /\ task'[c].p = task[c].p
             /\ task[c].pc = "joined" => task'[c].pc = "joined" /\ task'[c].p = task[c].p
  BY <1>0 DEF Moves, Quiet, Sockets!Idle
<1>3. ASSUME NEW c \in C, task[c].p # "none"
      PROVE  /\ task'[c].p = task[c].p
             /\ task'[c].op = "open" =>
                  /\ task[c].op = "open"
                  /\ task[c].pc \in {"unlock", "reclaim", "run", "over"} =>
                       task'[c].pc \in {"unlock", "reclaim", "run", "over"}
  BY <1>0, <1>3 DEF Moves, Quiet, Sockets!Idle
<1>4. /\ entry' = entry /\ told' = told /\ expelled' = expelled
      /\ \A q \in P : room'[q] \in {room[q], "gone"}
  BY DEF RoomsEnd
<1>5. Sockets!SocketInv'
  <2>1. ASSUME NEW c \in C, Sockets!Registered(c)'
        PROVE  entry'[task'[c].p] = c \/ c \in told'
    BY <1>0, <1>1, <1>4, <2>1 DEF Sockets!Registered, Sockets!SocketInv
  <2>2. ASSUME NEW c \in C, task'[c].pc = "joined"
        PROVE  room'[task'[c].p] # "away"
    <3>1. task[c].pc = "joined" /\ task'[c].p = task[c].p /\ task[c].p \in P
      BY <1>2, <2>2, <1>0 DEF Sockets!ConnectionInv, Sockets!TaskInv, Sockets!Active, P, Users
    <3> QED
      BY <3>1, <1>4, <1>0 DEF Sockets!SocketInv
  <2>3. ASSUME NEW q \in P, entry'[q] \in C
        PROVE  /\ task'[entry'[q]].p = q
               /\ task'[entry'[q]].op = "open" =>
                    task'[entry'[q]].pc \in {"unlock", "reclaim", "run", "over"}
               /\ Sockets!Registered(entry[q])' => room'[q] # "away"
    <3>1. PICK c \in C : entry[q] = c /\ entry'[q] = c
      BY <2>3, <1>4
    <3>2. /\ task[c].p = q
          /\ task[c].op = "open" => task[c].pc \in {"unlock", "reclaim", "run", "over"}
          /\ Sockets!Registered(c) => room[q] # "away"
      BY <3>1, <1>0 DEF Sockets!SocketInv, P
    <3>3. task'[c].p = q /\ (task'[c].op = "open" => task'[c].pc \in {"unlock", "reclaim", "run", "over"})
      BY <3>2, <1>3, <1>0
    <3>4. Sockets!Registered(entry[q])' => Sockets!Registered(c)
      BY <1>1, <3>1 DEF Sockets!Registered
    <3> QED
      BY <3>1, <3>2, <3>3, <3>4, <1>4
  <2> QED
    BY <2>1, <2>2, <2>3 DEF Sockets!SocketInv, P
<1>6. Sockets!ExpelInv'
  <2>1. expelled' \cap valid' = {}
    BY <1>0, <1>4 DEF Sockets!ExpelInv
  <2>2. ASSUME NEW c \in C, task'[c].p \in expelled'
        PROVE  task'[c].pc # "joined" /\ (Sockets!Registered(c)' => c \in told')
    BY <1>0, <1>1, <1>2, <1>4, <2>2 DEF Sockets!ExpelInv, Sockets!Registered
  <2>3. task'["worker"].pc = "told" => task' ["worker"] = task["worker"]
    BY <1>0 DEF Moves, Quiet
  <2> QED
    BY <2>1, <2>2, <2>3, <1>0, <1>4 DEF Sockets!ExpelInv
<1>7. Sockets!AgentsLeaveNoGhost'
  BY <1>0, <1>2, <1>4 DEF Sockets!AgentsLeaveNoGhost, P, Sockets!P
<1> QED
  BY <1>5, <1>6, <1>7

-----------------------------------------------------------------------------
(* The actions that leave the sockets as they are *)

LEMMA TasksType ==
  ASSUME Sockets!TypeOK, NEW u \in Users, NEW pc, NEW op, NEW p, NEW lock,
         Moves(u, pc, op, p, lock)
  PROVE  task' \in [Sockets!Users -> [pc : Sockets!Pc, op : Sockets!Op,
                                      p : Sockets!P \cup {"none"}, lock : Sockets!Locks]]
BY DEF Moves, Task, Users, P, Locks

LEMMA StepKeeps ==
  ASSUME Sockets!Assumption, Sockets!ConnectionInv, NEW u \in Users, NEW pc, NEW op, NEW p,
         NEW lock, Moves(u, pc, op, p, lock), Proper(u, pc, op, p), Quiet(u, pc, op, p), RoomsEnd,
         valid' \subseteq valid, UNCHANGED <<slot, owner, entry, told, expelled>>,
         pc \in Sockets!Active =>
           /\ task[u].pc \in Sockets!Active /\ (task[u].pc = "want" => pc = "want")
           /\ p = task[u].p /\ lock = task[u].lock
  PROVE  Sockets!ConnectionInv'
<1>1. Inv
  BY DEF Inv, Sockets!ConnectionInv
<1>2. Sockets!TypeOK'
  BY <1>1, TasksType DEF Inv, Sockets!TypeOK, RoomsEnd, P
<1>3. Sockets!LockInv'
  BY <1>1, LocksStay
<1>4. Sockets!TaskInv'
  BY <1>1, TasksStay
<1> QED
  BY <1>2, <1>3, <1>4, SocketsStay DEF Sockets!ConnectionInv

LEMMA WantsKeep ==
  ASSUME Sockets!Assumption, Sockets!ConnectionInv, NEW u \in Users, NEW op \in Sockets!Op,
         NEW p \in P, Sockets!Wants(u, op, p), Proper(u, "want", op, p), Quiet(u, "want", op, p),
         valid' \subseteq valid, UNCHANGED <<owner, entry, told, expelled, room>>
  PROVE  Sockets!ConnectionInv'
<1>1. Inv
  BY DEF Inv, Sockets!ConnectionInv
<1>2. PICK l \in Locks :
        /\ Moves(u, "want", op, p, l)
        /\ \/ p \in Agents /\ l = 0 /\ UNCHANGED slot
           \/ /\ p \in Humans /\ l # 0
              /\ slot' = [slot EXCEPT ![p] = l]
              /\ slot[p] # 0 => l = slot[p]
  BY <1>1, WantsMoves DEF Inv
<1>3. Sockets!TypeOK'
  <2>1. slot' \in [Humans -> Sockets!Locks]
    BY <1>1, <1>2 DEF Inv, Sockets!TypeOK, Locks
  <2> QED
    BY <1>1, <1>2, <2>1, TasksType DEF Inv, Sockets!TypeOK
<1>4. Sockets!LockInv'
  BY <1>1, WantsKeepsLocks
<1>5. Sockets!TaskInv'
  BY <1>1, <1>2, TasksStay
<1>6. RoomsEnd
  BY <1>1 DEF Inv, Sockets!TypeOK, RoomsEnd, P
<1> QED
  BY <1>2, <1>3, <1>4, <1>5, <1>6, SocketsStay DEF Sockets!ConnectionInv

LEMMA UpgradeKeeps ==
  ASSUME Sockets!Assumption, Sockets!ConnectionInv, NEW c \in C, NEW p \in P,
         Sockets!Upgrade(c, p)
  PROVE  Sockets!ConnectionInv'
<1>1. Proper(c, "want", "open", p) /\ Quiet(c, "want", "open", p)
  BY DEF Proper, Quiet, Sockets!Upgrade, Sockets!Assumption
<1> QED
  BY <1>1, WantsKeep DEF Sockets!Upgrade, Users, Sockets!Users, Sockets!Op

LEMMA WantsPlaced ==
  ASSUME NEW u, NEW op, NEW p, Sockets!Wants(u, op, p)
  PROVE  p \in P
BY DEF Sockets!Wants, P, Sockets!P

LEMMA EndSocketKeeps ==
  ASSUME Sockets!Assumption, Sockets!ConnectionInv, NEW c \in C, Sockets!EndSocket(c)
  PROVE  Sockets!ConnectionInv'
<1>1. task[c].p \in P
  BY WantsPlaced DEF Sockets!EndSocket
<1>2. Proper(c, "want", "end", task[c].p) /\ Quiet(c, "want", "end", task[c].p)
  BY <1>1 DEF Proper, Quiet, Sockets!EndSocket, Sockets!Assumption
<1> QED
  BY <1>1, <1>2, WantsKeep DEF Sockets!EndSocket, Users, Sockets!Users, Sockets!Op

LEMMA LeaveKeeps ==
  ASSUME Sockets!Assumption, Sockets!ConnectionInv, NEW c \in C, Sockets!Leave(c)
  PROVE  Sockets!ConnectionInv'
<1>1. task[c].p \in P
  BY WantsPlaced DEF Sockets!Leave
<1>2. Proper(c, "want", "leave", task[c].p) /\ Quiet(c, "want", "leave", task[c].p)
  BY <1>1 DEF Proper, Quiet, Sockets!Leave, Sockets!Assumption
<1> QED
  BY <1>1, <1>2, WantsKeep DEF Sockets!Leave, Users, Sockets!Users, Sockets!Op

LEMMA KickKeeps ==
  ASSUME Sockets!Assumption, Sockets!ConnectionInv, NEW p \in P, Sockets!Kick(p)
  PROVE  Sockets!ConnectionInv'
<1>1. Proper("admin", "want", "kick", p) /\ Quiet("admin", "want", "kick", p)
  BY DEF Proper, Quiet, Sockets!Kick, Sockets!Assumption
<1> QED
  BY <1>1, WantsKeep DEF Sockets!Kick, Users, Sockets!Users, Sockets!Op

LEMMA RevokeTokenKeeps ==
  ASSUME Sockets!Assumption, Sockets!ConnectionInv, NEW p \in P, Sockets!RevokeToken(p)
  PROVE  Sockets!ConnectionInv'
<1>1. Proper("worker", "want", "revoke", p) /\ Quiet("worker", "want", "revoke", p)
  BY DEF Proper, Quiet, Sockets!RevokeToken, Sockets!Assumption
<1> QED
  BY <1>1, WantsKeep DEF Sockets!RevokeToken, Users, Sockets!Users, Sockets!Op

LEMMA SubscribeFailsKeeps ==
  ASSUME Sockets!Assumption, Sockets!ConnectionInv, NEW c \in C, Sockets!SubscribeFails(c)
  PROVE  Sockets!ConnectionInv'
<1>1. c \in Users /\ Sockets!TypeOK /\ "over" \in Sockets!Pc
  BY DEF Users, Sockets!Users, Sockets!ConnectionInv, Sockets!Pc
<1>2. Moves(c, "over", task[c].op, task[c].p, task[c].lock)
  BY <1>1, GoesMoves DEF Sockets!SubscribeFails
<1>3. Proper(c, "over", task[c].op, task[c].p) /\ Quiet(c, "over", task[c].op, task[c].p)
  BY DEF Proper, Quiet, Sockets!SubscribeFails, Sockets!Assumption, Sockets!Active
<1>4. RoomsEnd /\ UNCHANGED <<slot, owner, entry, told, expelled, valid>>
  BY <1>1 DEF RoomsEnd, Sockets!SubscribeFails, Sockets!TypeOK, P
<1> QED
  BY <1>1, <1>2, <1>3, <1>4, StepKeeps DEF Sockets!Active

\* Under the lock: the Room takes the leave or is busy, the guest session ends.
LEMMA LeaveRoomKeeps ==
  ASSUME Sockets!Assumption, Sockets!ConnectionInv, NEW c \in C, Sockets!LeaveRoom(c)
  PROVE  Sockets!ConnectionInv'
<1>1. c \in Users /\ Sockets!TypeOK /\ "unlock" \in Sockets!Pc /\ task[c].p \in P
  BY DEF Users, Sockets!Users, Sockets!ConnectionInv, Sockets!Pc, Sockets!TaskInv, Sockets!LeaveRoom,
         Sockets!Active, P
<1>2. Moves(c, "unlock", task[c].op, task[c].p, task[c].lock)
  BY <1>1, GoesMoves DEF Sockets!LeaveRoom
<1>3. Proper(c, "unlock", task[c].op, task[c].p) /\ Quiet(c, "unlock", task[c].op, task[c].p)
  BY <1>1 DEF Proper, Quiet, Sockets!LeaveRoom, Sockets!Assumption
<1>4. RoomsEnd /\ UNCHANGED <<slot, owner, entry, told, expelled>> /\ valid' \subseteq valid
  BY <1>1 DEF RoomsEnd, Sockets!LeaveRoom, Sockets!TypeOK, Sockets!Presence, P
<1> QED
  BY <1>1, <1>2, <1>3, <1>4, StepKeeps DEF Sockets!Active, Sockets!LeaveRoom

LEMMA KickRoomKeeps ==
  ASSUME Sockets!Assumption, Sockets!ConnectionInv, Sockets!KickRoom
  PROVE  Sockets!ConnectionInv'
<1>1. /\ "admin" \in Users /\ Sockets!TypeOK /\ {"told", "unlock"} \subseteq Sockets!Pc
      /\ task["admin"].op = "kick" /\ task["admin"].p \in Humans /\ task["admin"].p \in P
  BY DEF Users, Sockets!Users, Sockets!ConnectionInv, Sockets!Pc, Sockets!TaskInv, Sockets!KickRoom,
         Sockets!Idle, P, Sockets!P
<1>2. PICK pc \in {"told", "unlock"} : Sockets!Goes("admin", pc)
  BY DEF Sockets!KickRoom
<1>3. Moves("admin", pc, task["admin"].op, task["admin"].p, task["admin"].lock)
  BY <1>1, <1>2, GoesMoves
<1>4. Proper("admin", pc, task["admin"].op, task["admin"].p)
      /\ Quiet("admin", pc, task["admin"].op, task["admin"].p)
  BY <1>1 DEF Proper, Quiet, Sockets!Assumption
<1>5. RoomsEnd /\ UNCHANGED <<slot, owner, entry, told, expelled, valid>>
  BY <1>1 DEF RoomsEnd, Sockets!KickRoom, Sockets!TypeOK, Sockets!Presence, P
<1> QED
  BY <1>1, <1>2, <1>3, <1>4, <1>5, StepKeeps DEF Sockets!Active, Sockets!KickRoom

\* Steps of nobody: the Room forgets a Participant, a guest session is pruned.
LEMMA OthersKeep ==
  ASSUME Sockets!Assumption, Sockets!ConnectionInv, NEW p \in P,
         Sockets!RoomForgets(p) \/ Sockets!Prune(p)
  PROVE  Sockets!ConnectionInv'
<1>1. "admin" \in Users /\ Sockets!TypeOK /\ Sockets!TaskInv /\ UNCHANGED task
  BY DEF Users, Sockets!Users, Sockets!ConnectionInv, Sockets!RoomForgets, Sockets!Prune
<1> DEFINE t == task["admin"]
<1>2. Moves("admin", t.pc, t.op, t.p, t.lock)
  BY <1>1 DEF Moves, Sockets!TypeOK, Users, Task, P, Locks
<1>3. Proper("admin", t.pc, t.op, t.p) /\ Quiet("admin", t.pc, t.op, t.p)
  BY <1>1 DEF Proper, Quiet, Sockets!TaskInv, Sockets!Assumption, P, Users
<1>4. RoomsEnd /\ UNCHANGED <<slot, owner, entry, told, expelled>> /\ valid' \subseteq valid
  BY <1>1 DEF RoomsEnd, Sockets!RoomForgets, Sockets!Prune, Sockets!TypeOK, Sockets!Presence, P
<1> QED
  BY <1>1, <1>2, <1>3, <1>4, StepKeeps

-----------------------------------------------------------------------------
(* The locks change hands *)

LEMMA AcquireKeeps ==
  ASSUME Sockets!Assumption, Sockets!ConnectionInv, NEW u \in Users, Sockets!Acquire(u)
  PROVE  Sockets!ConnectionInv'
<1>0. Inv /\ Sockets!TypeOK /\ Sockets!TaskInv /\ Sockets!LockInv /\ "hold" \in Sockets!Pc
  BY DEF Inv, Sockets!ConnectionInv, Sockets!Pc
<1> DEFINE t == task[u]
<1>1. Moves(u, "hold", t.op, t.p, t.lock)
  BY <1>0, GoesMoves DEF Sockets!Acquire
<1>2. /\ t.lock \in Locks /\ owner[t.lock] = "none" /\ owner' = [owner EXCEPT ![t.lock] = u]
      /\ owner \in [Locks -> Users \cup {"none"}] /\ "none" \notin Users /\ t.pc = "want"
  BY <1>0 DEF Sockets!Acquire, Sockets!Holds, Sockets!TypeOK, Locks, Users, Sockets!Users,
              Sockets!Assumption
<1>3. Proper(u, "hold", t.op, t.p)
  BY <1>0, <1>2 DEF Proper, Sockets!TaskInv, Sockets!Acquire, Users, Sockets!Users, P, Sockets!Idle,
     Sockets!Active
<1>4. Quiet(u, "hold", t.op, t.p)
  BY <1>0, <1>2 DEF Quiet, Sockets!ConnectionInv, Sockets!SocketInv
<1>5. RoomsEnd /\ UNCHANGED <<slot, entry, told, expelled, valid>>
  BY <1>0 DEF RoomsEnd, Sockets!Acquire, Sockets!TypeOK, P
<1>6. Sockets!TypeOK'
  BY <1>0, <1>1, <1>2, <1>5, TasksType DEF Sockets!TypeOK, Sockets!Acquire, Locks, Users
<1>7. Sockets!LockInv'
  <2>1. ASSUME NEW v \in Users, v # u, task'[v].pc \in Sockets!Active
        PROVE  /\ task'[v].pc # "want" => owner'[task'[v].lock] = v
               /\ task'[v].p \in Humans => task'[v].lock # 0 /\ task'[v].lock = slot'[task'[v].p]
               /\ task'[v].p \in Agents => task'[v].lock = 0
    BY <2>1, <1>0, <1>1, <1>2, <1>5 DEF Sockets!LockInv, Moves, Users
  <2>2. /\ owner'[task'[u].lock] = u
        /\ task'[u].p \in Humans => task'[u].lock # 0 /\ task'[u].lock = slot'[task'[u].p]
        /\ task'[u].p \in Agents => task'[u].lock = 0
    BY <1>0, <1>1, <1>2, <1>5 DEF Sockets!LockInv, Moves, Users, Sockets!Active
  <2> QED
    BY <2>1, <2>2 DEF Sockets!LockInv, Users
<1>8. Sockets!TaskInv'
  BY <1>0, <1>1, <1>3, <1>5, TasksStay
<1> QED
  BY <1>1, <1>4, <1>5, <1>6, <1>7, <1>8, SocketsStay DEF Sockets!ConnectionInv

\* The owner lets its lock go, to go on without it or to wait for it again.
LEMMA LetsGo ==
  ASSUME Sockets!Assumption, Inv, NEW u \in Users, NEW pc \in {"reclaim", "want"},
         task[u].pc \in Sockets!Active \ {"want"},
         Moves(u, pc, task[u].op, task[u].p, task[u].lock), UNCHANGED slot,
         owner' = [owner EXCEPT ![task[u].lock] = "none"]
  PROVE  Sockets!LockInv' /\ owner' \in [Locks -> Users \cup {"none"}]
<1>1. /\ task[u].lock \in Locks /\ owner[task[u].lock] = u
      /\ owner \in [Locks -> Users \cup {"none"}]
  BY DEF Inv, Sockets!TypeOK, Sockets!LockInv, Locks, Users
<1>2. ASSUME NEW v \in Users, v # u, task'[v].pc \in Sockets!Active
      PROVE  /\ task'[v].pc # "want" => owner'[task'[v].lock] = v
             /\ task'[v].p \in Humans => task'[v].lock # 0 /\ task'[v].lock = slot'[task'[v].p]
             /\ task'[v].p \in Agents => task'[v].lock = 0
  <2>1. task'[v] = task[v] /\ task[v].lock \in Locks
    BY <1>2 DEF Moves, Inv, Sockets!TypeOK, Users, Locks
  <2> QED
    BY <1>1, <1>2, <2>1 DEF Inv, Sockets!LockInv, Users
<1>3. ASSUME task'[u].pc \in Sockets!Active
      PROVE  /\ task'[u].pc = "want"
             /\ task'[u].p \in Humans => task'[u].lock # 0 /\ task'[u].lock = slot'[task'[u].p]
             /\ task'[u].p \in Agents => task'[u].lock = 0
  BY <1>3 DEF Inv, Sockets!LockInv, Users, Moves, Sockets!Active
<1> QED
  BY <1>1, <1>2, <1>3 DEF Sockets!LockInv, Users

LEMMA UnlockKeeps ==
  ASSUME Sockets!Assumption, Sockets!ConnectionInv, NEW u \in Users, Sockets!Unlock(u)
  PROVE  Sockets!ConnectionInv'
<1>0. Inv /\ Sockets!TypeOK /\ Sockets!TaskInv /\ "reclaim" \in Sockets!Pc /\ task[u].pc = "unlock"
  BY DEF Inv, Sockets!ConnectionInv, Sockets!Pc, Sockets!Unlock
<1> DEFINE t == task[u]
<1>1. Moves(u, "reclaim", t.op, t.p, t.lock)
  BY <1>0, GoesMoves DEF Sockets!Unlock
<1>2. Sockets!LockInv' /\ owner' \in [Locks -> Users \cup {"none"}]
  BY <1>0, <1>1, LetsGo DEF Sockets!Unlock, Sockets!Holds, Sockets!Active
<1>3. Proper(u, "reclaim", t.op, t.p)
  BY <1>0 DEF Proper, Sockets!TaskInv, Sockets!Unlock, Users, Sockets!Users, P, Sockets!Idle,
     Sockets!Active
<1>4. Quiet(u, "reclaim", t.op, t.p)
  BY <1>0 DEF Quiet, Sockets!Registered
<1>5. RoomsEnd /\ UNCHANGED <<slot, entry, told, expelled, valid>>
  BY <1>0 DEF RoomsEnd, Sockets!Unlock, Sockets!TypeOK, P
<1>6. Sockets!TypeOK'
  BY <1>0, <1>1, <1>2, <1>5, TasksType DEF Sockets!TypeOK, Sockets!Unlock, Locks, Users
<1>7. Sockets!TaskInv'
  BY <1>0, <1>1, <1>3, <1>5, TasksStay
<1> QED
  BY <1>1, <1>2, <1>4, <1>5, <1>6, <1>7, SocketsStay DEF Sockets!ConnectionInv

\* The lock leaves the map only when nobody wants or holds it.
LEMMA ReclaimKeeps ==
  ASSUME Sockets!Assumption, Sockets!ConnectionInv, NEW u \in Users, Sockets!Reclaim(u)
  PROVE  Sockets!ConnectionInv'
<1>0. /\ Inv /\ Sockets!TypeOK /\ Sockets!TaskInv /\ Sockets!LockInv /\ task[u].pc = "reclaim"
      /\ task[u] # Sockets!Idle /\ 0 \in Locks
  BY DEF Inv, Sockets!ConnectionInv, Sockets!Reclaim, Sockets!Idle, Locks, Sockets!Locks, Sockets!Assumption
<1> DEFINE n == Sockets!After(u)
           over == n = "over" /\ u \notin C
           t == task[u]
<1>1. n \in {"run", "remove", "over"} /\ n \in Sockets!Pc
  BY DEF Sockets!After, Sockets!Pc
<1>2. /\ t.op \in Sockets!Op /\ t.p \in P \cup {"none"}
      /\ n = "run" => t.op \in {"open", "leave"}
      /\ n = "remove" => t.op = "end" /\ t.p \in Humans
  BY <1>0 DEF Sockets!TypeOK, Users, P, Sockets!After
<1>3. \E pc, op, p : /\ Moves(u, pc, op, p, 0) /\ Proper(u, pc, op, p) /\ Quiet(u, pc, op, p)
                     /\ pc \notin Sockets!Active
  <2>1. CASE over
    <3>1. task' = [task EXCEPT ![u] = Sockets!Idle]
      BY <2>1 DEF Sockets!Reclaim, Sockets!Over
    <3>2. Moves(u, "idle", "none", "none", 0) /\ task'[u] = Sockets!Idle
      BY <3>1, <1>0, RecordMoves DEF Sockets!Idle, Sockets!Pc, Sockets!Op, Sockets!TypeOK, Users
    <3>3. Proper(u, "idle", "none", "none") /\ Quiet(u, "idle", "none", "none")
      BY <2>1, <3>2 DEF Proper, Quiet, Sockets!Active
    <3> QED
      BY <3>2, <3>3 DEF Sockets!Active
  <2>2. CASE ~over
    <3>1. task' = [task EXCEPT ![u] = [pc |-> n, op |-> t.op, p |-> t.p, lock |-> 0]]
      BY <2>2 DEF Sockets!Reclaim, Sockets!Over
    <3>2. Moves(u, n, t.op, t.p, 0)
      <4> HIDE DEF n
      <4> QED
        BY <3>1, <1>0, <1>1, <1>2, RecordMoves
    <3>3. u \in C
      <4>1. CASE u = "admin"
        BY <4>1, <2>2, <1>0 DEF Sockets!TaskInv, Sockets!After
      <4>2. CASE u = "worker"
        BY <4>2, <2>2, <1>0 DEF Sockets!TaskInv, Sockets!After
      <4> QED
        BY <4>1, <4>2 DEF Users, Sockets!Users
    <3>4. /\ t.op \notin {"kick", "revoke"} /\ (t.op = "refused" => n = "over")
          /\ t.op = "open" => n = "run"
      BY <3>3, <1>0 DEF Sockets!TaskInv, Sockets!After
    <3>5. Proper(u, n, t.op, t.p)
      <4> HIDE DEF n
      <4> QED
        BY <3>3, <3>4, <1>1, <1>2 DEF Proper, Sockets!Active, Sockets!Assumption
    <3>6. Quiet(u, n, t.op, t.p)
      <4> HIDE DEF n
      <4> QED
        BY <3>3, <3>4, <1>0, <1>1 DEF Quiet, Sockets!Registered, Sockets!Assumption
    <3> QED
      BY <3>2, <3>5, <3>6, <1>1 DEF Sockets!Active
  <2> QED
    BY <2>1, <2>2
<1>4. PICK pc, op, p : /\ Moves(u, pc, op, p, 0) /\ Proper(u, pc, op, p) /\ Quiet(u, pc, op, p)
                       /\ pc \notin Sockets!Active
  BY <1>3
<1>5. RoomsEnd /\ UNCHANGED <<owner, entry, told, expelled, valid>>
  BY <1>0 DEF RoomsEnd, Sockets!Reclaim, Sockets!TypeOK, P
<1>6. /\ slot' \in [Humans -> Locks]
      /\ \A q \in Humans : Sockets!Clones(slot[q]) # {} => slot'[q] = slot[q]
  BY <1>0 DEF Sockets!Reclaim, Sockets!TypeOK, Locks
<1>7. Sockets!TypeOK'
  <2>1. task' \in [Sockets!Users -> [pc : Sockets!Pc, op : Sockets!Op,
                                     p : Sockets!P \cup {"none"}, lock : Sockets!Locks]]
    BY <1>0, <1>4, TasksType
  <2> QED
    BY <1>0, <1>5, <1>6, <2>1 DEF Sockets!TypeOK, Locks, RoomsEnd, P
<1>8. Sockets!LockInv'
  <2>1. ASSUME NEW v \in Users, task'[v].pc \in Sockets!Active
        PROVE  /\ task'[v].pc # "want" => owner'[task'[v].lock] = v
               /\ task'[v].p \in Humans => task'[v].lock # 0 /\ task'[v].lock = slot'[task'[v].p]
               /\ task'[v].p \in Agents => task'[v].lock = 0
    <3>1. v # u /\ task'[v] = task[v] /\ v \in Sockets!Clones(task[v].lock)
      BY <2>1, <1>4 DEF Moves, Sockets!Clones, Users, Sockets!Active
    <3>2. task[v].p \in Humans => slot'[task[v].p] = slot[task[v].p]
      BY <3>1, <2>1, <1>0, <1>6 DEF Sockets!LockInv, Users
    <3> QED
      BY <3>1, <3>2, <2>1, <1>0, <1>5 DEF Sockets!LockInv, Users
  <2> QED
    BY <2>1 DEF Sockets!LockInv, Users
<1>9. Sockets!TaskInv'
  BY <1>0, <1>4, <1>5, TasksStay
<1> QED
  BY <1>4, <1>5, <1>7, <1>8, <1>9, SocketsStay DEF Sockets!ConnectionInv

-----------------------------------------------------------------------------
(* A socket opens, registers and ends *)

\* What a task under the lock may count on: nobody else works on its Participant.
LEMMA Alone ==
  ASSUME Sockets!ConnectionInv, NEW u \in Users, task[u].pc \in {"hold", "joined", "told", "unlock"}
  PROVE  /\ task[u].p \in P
         /\ \A v \in Users : v # u /\ task[v].pc \in {"hold", "joined", "told", "unlock"} =>
              task[v].p # task[u].p
<1>1. Inv /\ task[u].pc \in Sockets!Active \ {"want"}
  BY DEF Inv, Sockets!ConnectionInv, Sockets!Active
<1>2. task[u].p \in P
  BY <1>1 DEF Inv, Sockets!TaskInv, Users, P
<1>3. ASSUME NEW v \in Users, v # u, task[v].pc \in {"hold", "joined", "told", "unlock"}
      PROVE  task[v].p # task[u].p
  BY <1>1, <1>2, <1>3, OnlyHolder DEF Sockets!Active
<1> QED
  BY <1>2, <1>3

LEMMA NamesApart ==
  ASSUME Sockets!Assumption
  PROVE  /\ "none" \notin P /\ "none" \notin C /\ "admin" \notin C /\ "worker" \notin C
         /\ C \subseteq Users /\ "admin" \in Users /\ "worker" \in Users
         /\ Humans \subseteq P /\ Agents \subseteq P /\ Humans \cap Agents = {}
BY DEF Sockets!Assumption, P, Sockets!P, Users, Sockets!Users

LEMMA ReconnectKeeps ==
  ASSUME Sockets!Assumption, Sockets!ConnectionInv, NEW c \in C, Sockets!Reconnect(c)
  PROVE  Sockets!ConnectionInv'
<1> DEFINE t == task[c]
<1>0. /\ Inv /\ Sockets!TypeOK /\ Sockets!TaskInv /\ c \in Users /\ t.pc = "hold" /\ t.op = "open"
      /\ t.p \in P /\ t.lock \in Locks /\ Sockets!SocketInv /\ Sockets!ExpelInv
      /\ {"joined", "unlock"} \subseteq Sockets!Pc /\ "refused" \in Sockets!Op
  BY NamesApart, Alone DEF Inv, Sockets!ConnectionInv, Sockets!Reconnect, Sockets!Pc, Sockets!Op,
     Sockets!TypeOK, Users, Locks
<1>1. CASE /\ t.p \in valid /\ room[t.p] # "gone" /\ room' = [room EXCEPT ![t.p] = "here"]
           /\ Sockets!Goes(c, "joined") /\ UNCHANGED <<slot, owner, entry, told, valid, expelled>>
  <2>1. Moves(c, "joined", t.op, t.p, t.lock)
    BY <1>0, <1>1, GoesMoves
  <2>2. Proper(c, "joined", t.op, t.p)
    BY <1>0, NamesApart DEF Proper
  <2>3. Sockets!LockInv' /\ Sockets!TaskInv'
    BY <1>0, <1>1, <2>1, <2>2, LocksStay, TasksStay DEF Sockets!Active
  <2>4. Sockets!TypeOK'
    BY <1>0, <1>1, <2>1, TasksType DEF Sockets!TypeOK, Sockets!Presence
  <2>5. /\ \A q \in P : room'[q] = IF q = t.p THEN "here" ELSE room[q]
        /\ \A d \in C : d # c => task'[d] = task[d]
        /\ task'[c].pc = "joined" /\ task'[c].p = t.p /\ task'[c].op = "open"
    BY <1>0, <1>1, <2>1, NamesApart DEF Sockets!TypeOK, Moves, P
  <2>6. \A q \in P : entry[q] # c
    BY <1>0 DEF Sockets!SocketInv, P
  <2>7. Sockets!SocketInv'
    <3>1. \A d \in C : Sockets!Registered(d)' => d # c /\ Sockets!Registered(d)
      BY <2>5 DEF Sockets!Registered
    <3>2. \A d \in C : Sockets!Registered(d)' => entry'[task'[d].p] = d \/ d \in told'
      BY <1>0, <1>1, <2>5, <3>1 DEF Sockets!SocketInv
    <3>3. ASSUME NEW d \in C, task'[d].pc = "joined" PROVE room'[task'[d].p] # "away"
      <4>1. d # c => task[d].p \in P
        BY <3>3, <2>5, Alone, NamesApart
      <4> QED
        BY <3>3, <4>1, <1>0, <2>5 DEF Sockets!SocketInv
    <3>4. ASSUME NEW q \in P, entry'[q] \in C
          PROVE  /\ task'[entry'[q]].p = q
                 /\ task'[entry'[q]].op = "open" =>
                      task'[entry'[q]].pc \in {"unlock", "reclaim", "run", "over"}
                 /\ Sockets!Registered(entry[q])' => room'[q] # "away"
      <4>1. PICK d \in C : entry[q] = d /\ entry'[q] = d /\ d # c
        BY <3>4, <1>1, <2>6
      <4>2. Sockets!Registered(entry[q])' => Sockets!Registered(d)
        BY <4>1, <2>5, <1>1 DEF Sockets!Registered
      <4> QED
        BY <4>1, <4>2, <1>0, <2>5 DEF Sockets!SocketInv, P
    <3> QED
      BY <3>2, <3>3, <3>4 DEF Sockets!SocketInv, P
  <2>8. Sockets!ExpelInv'
    <3>1. \A d \in C : task'[d].p \in expelled' =>
            task'[d].pc # "joined" /\ (Sockets!Registered(d)' => d \in told')
      BY <1>0, <1>1, <2>5 DEF Sockets!ExpelInv, Sockets!Registered
    <3>2. task'["worker"] = task["worker"]
      BY <2>1, NamesApart DEF Moves
    <3> QED
      BY <3>1, <3>2, <1>0, <1>1 DEF Sockets!ExpelInv
  <2>9. Sockets!AgentsLeaveNoGhost'
    <3>1. ASSUME NEW q \in Agents, room'[q] = "here", entry'[q] = "none"
          PROVE  \E d \in C : task'[d].p = q /\ task'[d].pc = "joined"
      <4>1. CASE q = t.p
        BY <4>1, <2>5
      <4>2. CASE q # t.p
        <5>1. room[q] = "here" /\ entry[q] = "none"
          BY <4>2, <3>1, <1>1, <2>5, NamesApart
        <5>2. PICK d \in C : task[d].p = q /\ task[d].pc = "joined"
          BY <5>1 DEF Sockets!ConnectionInv, Sockets!AgentsLeaveNoGhost
        <5> QED
          BY <5>2, <2>5, <1>0
      <4> QED
        BY <4>1, <4>2
    <3> QED
      BY <3>1 DEF Sockets!AgentsLeaveNoGhost
  <2> QED
    BY <2>3, <2>4, <2>7, <2>8, <2>9 DEF Sockets!ConnectionInv
<1>2. CASE /\ task' = [task EXCEPT ![c] = [pc |-> "unlock", op |-> "refused", p |-> t.p,
                                           lock |-> Sockets!Holds(c)]]
           /\ UNCHANGED <<slot, owner, entry, told, valid, expelled, room>>
  <2>1. Moves(c, "unlock", "refused", t.p, t.lock)
    BY <1>0, <1>2, RecordMoves DEF Sockets!Holds
  <2>2. Proper(c, "unlock", "refused", t.p) /\ Quiet(c, "unlock", "refused", t.p)
    BY <1>0, NamesApart DEF Proper, Quiet
  <2>3. RoomsEnd
    BY <1>0, <1>2 DEF RoomsEnd, Sockets!TypeOK, P
  <2> QED
    BY <1>0, <1>2, <2>1, <2>2, <2>3, StepKeeps DEF Sockets!Active
<1> QED
  BY <1>1, <1>2 DEF Sockets!Reconnect

LEMMA RegisterKeeps ==
  ASSUME Sockets!Assumption, Sockets!ConnectionInv, NEW c \in C, Sockets!Register(c)
  PROVE  Sockets!ConnectionInv'
<1> DEFINE t == task[c]
<1>0. /\ Inv /\ Sockets!TypeOK /\ Sockets!TaskInv /\ c \in Users /\ t.pc = "joined" /\ t.op = "open"
      /\ t.p \in P /\ t.lock \in Locks /\ Sockets!SocketInv /\ Sockets!ExpelInv
      /\ "unlock" \in Sockets!Pc /\ Sockets!AgentsLeaveNoGhost
  BY NamesApart, Alone DEF Inv, Sockets!ConnectionInv, Sockets!Register, Sockets!Pc, Sockets!TaskInv,
     Sockets!TypeOK, Users, Locks
<1>1. /\ entry' = [entry EXCEPT ![t.p] = c] /\ told' = told \cup ({entry[t.p]} \cap C)
      /\ UNCHANGED <<slot, owner, valid, expelled, room>>
  BY DEF Sockets!Register
<1>2. Moves(c, "unlock", t.op, t.p, t.lock)
  BY <1>0, GoesMoves DEF Sockets!Register
<1>3. Proper(c, "unlock", t.op, t.p)
  BY <1>0, NamesApart DEF Proper
<1>4. Sockets!LockInv' /\ Sockets!TaskInv'
  BY <1>0, <1>1, <1>2, <1>3, LocksStay, TasksStay DEF Sockets!Active
<1>5. Sockets!TypeOK'
  BY <1>0, <1>1, <1>2, TasksType DEF Sockets!TypeOK
<1>6. /\ \A q \in P : entry'[q] = IF q = t.p THEN c ELSE entry[q]
      /\ \A d \in C : d # c => task'[d] = task[d]
      /\ task'[c].pc = "unlock" /\ task'[c].p = t.p /\ task'[c].op = "open"
  BY <1>0, <1>1, <1>2, NamesApart DEF Sockets!TypeOK, Moves, P
<1>7. /\ \A d \in C : d # c /\ task[d].pc = "joined" => task[d].p # t.p
      /\ task["worker"].pc = "told" => task["worker"].p # t.p
      /\ task'["worker"] = task["worker"]
  BY <1>0, <1>2, Alone, NamesApart DEF Moves
<1>8. Sockets!SocketInv'
  <2>1. ASSUME NEW d \in C, Sockets!Registered(d)' PROVE entry'[task'[d].p] = d \/ d \in told'
    <3>1. CASE d = c
      BY <3>1, <1>6, <1>0
    <3>2. CASE d # c
      <4>1. task'[d] = task[d] /\ Sockets!Registered(d)
        BY <3>2, <2>1, <1>6 DEF Sockets!Registered
      <4>2. entry[task[d].p] = d \/ d \in told
        BY <4>1, <1>0 DEF Sockets!SocketInv
      <4>3. task[d].p = t.p => d \in told'
        BY <4>2, <1>1
      <4>4. CASE task[d].p # t.p
        <5>1. entry'[task[d].p] = entry[task[d].p]
          BY <4>4, <1>1, <1>0 DEF Sockets!TypeOK
        <5> QED
          BY <5>1, <4>1, <4>2, <1>1
      <4> QED
        BY <4>3, <4>4
    <3> QED
      BY <3>1, <3>2
  <2>2. \A d \in C : task'[d].pc = "joined" => room'[task'[d].p] # "away"
    BY <1>0, <1>1, <1>6 DEF Sockets!SocketInv
  <2>3. ASSUME NEW q \in P, entry'[q] \in C
        PROVE  /\ task'[entry'[q]].p = q
               /\ task'[entry'[q]].op = "open" =>
                    task'[entry'[q]].pc \in {"unlock", "reclaim", "run", "over"}
               /\ Sockets!Registered(entry[q])' => room'[q] # "away"
    <3>1. CASE q = t.p
      <4>1. entry'[q] = c
        BY <3>1, <1>6
      <4> QED
        BY <4>1, <3>1, <1>0, <1>1, <1>6 DEF Sockets!SocketInv
    <3>2. CASE q # t.p
      <4>1. PICK d \in C : entry[q] = d /\ entry'[q] = d
        BY <2>3, <3>2, <1>6
      <4>2. task[d].p = q /\ d # c
        BY <4>1, <3>2, <1>0 DEF Sockets!SocketInv, P
      <4>3. Sockets!Registered(entry[q])' => Sockets!Registered(d)
        BY <4>1, <4>2, <1>6 DEF Sockets!Registered
      <4> QED
        BY <4>1, <4>2, <4>3, <1>0, <1>1, <1>6 DEF Sockets!SocketInv, P
    <3> QED
      BY <3>1, <3>2
  <2> QED
    BY <2>1, <2>2, <2>3 DEF Sockets!SocketInv, P
<1>9. Sockets!ExpelInv'
  <2>1. ASSUME NEW d \in C, task'[d].p \in expelled'
        PROVE  task'[d].pc # "joined" /\ (Sockets!Registered(d)' => d \in told')
    <3>1. t.p \notin expelled
      BY <1>0 DEF Sockets!ExpelInv
    <3>2. d # c /\ task'[d] = task[d]
      BY <3>1, <2>1, <1>1, <1>6
    <3> QED
      BY <3>2, <2>1, <1>0, <1>1 DEF Sockets!ExpelInv, Sockets!Registered
  <2>2. task'["worker"].pc = "told" /\ entry'[task'["worker"].p] \in C =>
          entry'[task'["worker"].p] \in told'
    <3>1. task["worker"].pc = "told" => entry'[task["worker"].p] = entry[task["worker"].p]
      BY <1>7, <1>6, Alone, NamesApart
    <3> QED
      BY <3>1, <1>0, <1>1, <1>7 DEF Sockets!ExpelInv
  <2> QED
    BY <2>1, <2>2, <1>0, <1>1 DEF Sockets!ExpelInv
<1>10. Sockets!AgentsLeaveNoGhost'
  <2>1. ASSUME NEW q \in Agents, room'[q] = "here", entry'[q] = "none"
        PROVE  \E d \in C : task'[d].p = q /\ task'[d].pc = "joined"
    <3>1. q # t.p /\ q \in P
      BY <2>1, <1>6, NamesApart
    <3>2. room[q] = "here" /\ entry[q] = "none"
      BY <3>1, <2>1, <1>1, <1>6
    <3>3. PICK d \in C : task[d].p = q /\ task[d].pc = "joined"
      BY <3>2, <1>0 DEF Sockets!AgentsLeaveNoGhost
    <3> QED
      BY <3>1, <3>3, <1>6
  <2> QED
    BY <2>1 DEF Sockets!AgentsLeaveNoGhost
<1> QED
  BY <1>4, <1>5, <1>8, <1>9, <1>10 DEF Sockets!ConnectionInv

LEMMA DisconnectKeeps ==
  ASSUME Sockets!Assumption, Sockets!ConnectionInv, NEW c \in C, Sockets!Disconnect(c)
  PROVE  Sockets!ConnectionInv'
<1> DEFINE t == task[c]
<1>0. /\ Inv /\ Sockets!TypeOK /\ Sockets!TaskInv /\ c \in Users /\ t.pc = "hold" /\ t.op = "end"
      /\ t.p \in P /\ t.lock \in Locks /\ Sockets!SocketInv /\ Sockets!ExpelInv
      /\ "unlock" \in Sockets!Pc /\ Sockets!AgentsLeaveNoGhost
  BY NamesApart, Alone DEF Inv, Sockets!ConnectionInv, Sockets!Disconnect, Sockets!Pc,
     Sockets!TypeOK, Users, Locks
<1>1. /\ \/ entry[t.p] = c /\ \E as \in {"away", "stuck"} :
              room' = [room EXCEPT ![t.p] = IF @ \in {"here", "stuck"} THEN as ELSE @]
         \/ entry[t.p] # c /\ UNCHANGED room
      /\ entry' = [entry EXCEPT ![t.p] = IF t.p \in Agents /\ entry[t.p] = c THEN "none" ELSE @]
      /\ UNCHANGED <<slot, owner, told, valid, expelled>>
  BY DEF Sockets!Disconnect
<1>2. Moves(c, "unlock", t.op, t.p, t.lock)
  BY <1>0, GoesMoves DEF Sockets!Disconnect
<1>3. Proper(c, "unlock", t.op, t.p)
  BY <1>0, NamesApart DEF Proper
<1>4. Sockets!LockInv' /\ Sockets!TaskInv'
  BY <1>0, <1>1, <1>2, <1>3, LocksStay, TasksStay DEF Sockets!Active
<1>5. Sockets!TypeOK'
  <2>1. entry' \in [Sockets!P -> C \cup {"none"}]
    BY <1>0, <1>1 DEF Sockets!TypeOK
  <2>2. room' \in [Sockets!P -> Sockets!Presence]
    <3>1. ASSUME NEW as \in {"away", "stuck"},
                 room' = [room EXCEPT ![t.p] = IF @ \in {"here", "stuck"} THEN as ELSE @]
          PROVE  room' \in [Sockets!P -> Sockets!Presence]
      BY <1>0, <3>1 DEF Sockets!TypeOK, Sockets!Presence
    <3> QED
      BY <1>0, <1>1, <3>1 DEF Sockets!TypeOK
  <2> QED
    BY <1>0, <1>1, <1>2, <2>1, <2>2, TasksType DEF Sockets!TypeOK
<1>6. /\ \A q \in P : /\ entry'[q] # entry[q] => entry[q] = c /\ entry'[q] = "none"
                      /\ room'[q] # room[q] => q = t.p /\ entry[q] = c
                      /\ q \in Agents /\ entry'[q] # entry[q] => room'[q] # "here"
      /\ \A d \in C : d # c => task'[d] = task[d]
      /\ task'[c].pc = "unlock" /\ task'[c].p = t.p /\ task'[c].op = "end"
  BY <1>0, <1>1, <1>2, NamesApart DEF Sockets!TypeOK, Moves, P
<1>7. /\ \A d \in C : d # c /\ task[d].pc = "joined" => task[d].p # t.p /\ task[d].p \in P
      /\ task["worker"].pc = "told" => task["worker"].p # t.p
      /\ task'["worker"] = task["worker"]
  BY <1>0, <1>2, Alone, NamesApart DEF Moves
<1>8. Sockets!SocketInv'
  <2>1. ASSUME NEW d \in C, Sockets!Registered(d)' PROVE entry'[task'[d].p] = d \/ d \in told'
    <3>1. d # c /\ task'[d] = task[d] /\ Sockets!Registered(d)
      BY <2>1, <1>6 DEF Sockets!Registered
    <3>2. entry[task[d].p] = d \/ d \in told
      BY <3>1, <1>0 DEF Sockets!SocketInv
    <3>3. entry[task[d].p] = d => entry'[task[d].p] = d
      BY <3>1, <1>0, <1>1 DEF Sockets!TypeOK
    <3> QED
      BY <3>1, <3>2, <3>3, <1>1
  <2>2. \A d \in C : task'[d].pc = "joined" => room'[task'[d].p] # "away"
    BY <1>0, <1>6, <1>7 DEF Sockets!SocketInv
  <2>3. ASSUME NEW q \in P, entry'[q] \in C
        PROVE  /\ task'[entry'[q]].p = q
               /\ task'[entry'[q]].op = "open" =>
                    task'[entry'[q]].pc \in {"unlock", "reclaim", "run", "over"}
               /\ Sockets!Registered(entry[q])' => room'[q] # "away"
    <3>1. PICK d \in C : entry[q] = d /\ entry'[q] = d
      BY <2>3, <1>6, NamesApart
    <3>2. task[d].p = q
      BY <3>1, <1>0 DEF Sockets!SocketInv, P
    <3>3. CASE d = c
      BY <3>1, <3>2, <3>3, <1>6 DEF Sockets!Registered
    <3>4. CASE d # c
      <4>1. Sockets!Registered(entry[q])' => Sockets!Registered(d)
        BY <3>1, <3>4, <1>6 DEF Sockets!Registered
      <4> QED
        BY <3>1, <3>2, <3>4, <4>1, <1>0, <1>6 DEF Sockets!SocketInv, P
    <3> QED
      BY <3>3, <3>4
  <2> QED
    BY <2>1, <2>2, <2>3 DEF Sockets!SocketInv, P
<1>9. Sockets!ExpelInv'
  <2>1. \A d \in C : task'[d].p \in expelled' =>
          task'[d].pc # "joined" /\ (Sockets!Registered(d)' => d \in told')
    BY <1>0, <1>1, <1>6 DEF Sockets!ExpelInv, Sockets!Registered
  <2>2. task["worker"].pc = "told" => entry'[task["worker"].p] = entry[task["worker"].p]
    BY <1>7, <1>0, <1>1 DEF Sockets!TypeOK
  <2> QED
    BY <2>1, <2>2, <1>0, <1>1, <1>7 DEF Sockets!ExpelInv
<1>10. Sockets!AgentsLeaveNoGhost'
  <2>1. ASSUME NEW q \in Agents, room'[q] = "here", entry'[q] = "none"
        PROVE  \E d \in C : task'[d].p = q /\ task'[d].pc = "joined"
    <3>1. q \in P /\ entry[q] = "none"
      BY <2>1, <1>6, NamesApart
    <3>2. room[q] = "here"
      BY <3>1, <2>1, <1>6, NamesApart
    <3>3. PICK d \in C : task[d].p = q /\ task[d].pc = "joined"
      BY <3>1, <3>2, <1>0 DEF Sockets!AgentsLeaveNoGhost
    <3> QED
      BY <3>3, <1>6, <1>0
  <2> QED
    BY <2>1 DEF Sockets!AgentsLeaveNoGhost
<1> QED
  BY <1>4, <1>5, <1>8, <1>9, <1>10 DEF Sockets!ConnectionInv

LEMMA RemoveKeeps ==
  ASSUME Sockets!Assumption, Sockets!ConnectionInv, NEW c \in C, Sockets!Remove(c)
  PROVE  Sockets!ConnectionInv'
<1> DEFINE t == task[c]
<1>0. /\ Inv /\ Sockets!TypeOK /\ Sockets!TaskInv /\ c \in Users /\ t.pc = "remove" /\ t.op = "end"
      /\ t.p \in Humans /\ t.lock \in Locks /\ Sockets!SocketInv /\ Sockets!ExpelInv
      /\ "over" \in Sockets!Pc /\ Sockets!AgentsLeaveNoGhost /\ t.p \in P /\ t.p \notin Agents
  BY NamesApart DEF Inv, Sockets!ConnectionInv, Sockets!Remove, Sockets!Pc, Sockets!TaskInv,
     Sockets!TypeOK, Users, Locks
<1>1. /\ entry' = [entry EXCEPT ![t.p] = IF @ = c THEN "none" ELSE @]
      /\ UNCHANGED <<slot, owner, told, valid, expelled, room>>
  BY DEF Sockets!Remove
<1>2. Moves(c, "over", t.op, t.p, t.lock)
  BY <1>0, GoesMoves DEF Sockets!Remove
<1>3. Proper(c, "over", t.op, t.p)
  BY <1>0, NamesApart DEF Proper, Sockets!Active
<1>4. Sockets!LockInv' /\ Sockets!TaskInv'
  BY <1>0, <1>1, <1>2, <1>3, LocksStay, TasksStay DEF Sockets!Active
<1>5. Sockets!TypeOK'
  <2>1. entry' \in [Sockets!P -> C \cup {"none"}]
    BY <1>0, <1>1 DEF Sockets!TypeOK
  <2> QED
    BY <1>0, <1>1, <1>2, <2>1, TasksType DEF Sockets!TypeOK
<1>6. /\ \A q \in P : entry'[q] # entry[q] => q = t.p /\ entry[q] = c /\ entry'[q] = "none"
      /\ \A d \in C : d # c => task'[d] = task[d]
      /\ task'[c].pc = "over" /\ task'[c].p = t.p /\ task'[c].op = "end"
      /\ task'["worker"] = task["worker"]
  BY <1>0, <1>1, <1>2, NamesApart DEF Sockets!TypeOK, Moves, P
<1>8. Sockets!SocketInv'
  <2>1. ASSUME NEW d \in C, Sockets!Registered(d)' PROVE entry'[task'[d].p] = d \/ d \in told'
    <3>1. d # c /\ task'[d] = task[d] /\ Sockets!Registered(d)
      BY <2>1, <1>6 DEF Sockets!Registered
    <3>2. entry[task[d].p] = d \/ d \in told
      BY <3>1, <1>0 DEF Sockets!SocketInv
    <3>3. entry[task[d].p] = d => entry'[task[d].p] = d
      BY <3>1, <1>0, <1>1 DEF Sockets!TypeOK
    <3> QED
      BY <3>1, <3>2, <3>3, <1>1
  <2>2. \A d \in C : task'[d].pc = "joined" => room'[task'[d].p] # "away"
    BY <1>0, <1>1, <1>6 DEF Sockets!SocketInv
  <2>3. ASSUME NEW q \in P, entry'[q] \in C
        PROVE  /\ task'[entry'[q]].p = q
               /\ task'[entry'[q]].op = "open" =>
                    task'[entry'[q]].pc \in {"unlock", "reclaim", "run", "over"}
               /\ Sockets!Registered(entry[q])' => room'[q] # "away"
    <3>1. PICK d \in C : entry[q] = d /\ entry'[q] = d
      BY <2>3, <1>6, NamesApart
    <3>2. task[d].p = q
      BY <3>1, <1>0 DEF Sockets!SocketInv, P
    <3>3. CASE d = c
      BY <3>1, <3>2, <3>3, <1>6 DEF Sockets!Registered
    <3>4. CASE d # c
      <4>1. Sockets!Registered(entry[q])' => Sockets!Registered(d)
        BY <3>1, <3>4, <1>6 DEF Sockets!Registered
      <4> QED
        BY <3>1, <3>2, <3>4, <4>1, <1>0, <1>1, <1>6 DEF Sockets!SocketInv, P
    <3> QED
      BY <3>3, <3>4
  <2> QED
    BY <2>1, <2>2, <2>3 DEF Sockets!SocketInv, P
<1>9. Sockets!ExpelInv'
  <2>1. \A d \in C : task'[d].p \in expelled' =>
          task'[d].pc # "joined" /\ (Sockets!Registered(d)' => d \in told')
    BY <1>0, <1>1, <1>6 DEF Sockets!ExpelInv, Sockets!Registered
  <2>2. task["worker"].pc = "told" => task["worker"].p \in P
    BY Alone, NamesApart
  <2>3. task["worker"].pc = "told" /\ entry'[task["worker"].p] \in C =>
          entry'[task["worker"].p] = entry[task["worker"].p]
    BY <2>2, <1>6, NamesApart
  <2> QED
    BY <2>1, <2>3, <1>0, <1>1, <1>6 DEF Sockets!ExpelInv
<1>10. Sockets!AgentsLeaveNoGhost'
  <2>1. ASSUME NEW q \in Agents, room'[q] = "here", entry'[q] = "none"
        PROVE  \E d \in C : task'[d].p = q /\ task'[d].pc = "joined"
    <3>1. q \in P /\ entry[q] = "none" /\ room[q] = "here"
      BY <2>1, <1>0, <1>1, <1>6, NamesApart
    <3>2. PICK d \in C : task[d].p = q /\ task[d].pc = "joined"
      BY <3>1, <1>0 DEF Sockets!AgentsLeaveNoGhost
    <3> QED
      BY <3>2, <1>6, <1>0
  <2> QED
    BY <2>1 DEF Sockets!AgentsLeaveNoGhost
<1> QED
  BY <1>4, <1>5, <1>8, <1>9, <1>10 DEF Sockets!ConnectionInv

-----------------------------------------------------------------------------
(* The Admin and the worker expel *)

LEMMA OfficialsKeepSockets ==
  ASSUME Sockets!Assumption, Sockets!ConnectionInv, \A d \in C : task'[d] = task[d],
         UNCHANGED entry, told \subseteq told', RoomsEnd
  PROVE  Sockets!SocketInv' /\ Sockets!AgentsLeaveNoGhost'
<1>0. Sockets!SocketInv /\ Sockets!AgentsLeaveNoGhost /\ Sockets!TypeOK
  BY DEF Sockets!ConnectionInv
<1>1. ASSUME NEW d \in C PROVE Sockets!Registered(d)' <=> Sockets!Registered(d)
  BY DEF Sockets!Registered
<1>2. \A d \in C : Sockets!Registered(d)' => entry'[task'[d].p] = d \/ d \in told'
  BY <1>0, <1>1 DEF Sockets!SocketInv
<1>3. ASSUME NEW d \in C, task'[d].pc = "joined" PROVE room'[task'[d].p] # "away"
  <2>1. task[d].p \in P
    BY <1>3, Alone, NamesApart
  <2> QED
    BY <2>1, <1>3, <1>0 DEF Sockets!SocketInv, RoomsEnd
<1>4. ASSUME NEW q \in P, entry'[q] \in C
      PROVE  /\ task'[entry'[q]].p = q
             /\ task'[entry'[q]].op = "open" =>
                  task'[entry'[q]].pc \in {"unlock", "reclaim", "run", "over"}
             /\ Sockets!Registered(entry[q])' => room'[q] # "away"
  <2>1. PICK d \in C : entry[q] = d /\ entry'[q] = d
    BY <1>4
  <2>2. Sockets!Registered(entry[q])' => Sockets!Registered(d)
    BY <2>1 DEF Sockets!Registered
  <2> QED
    BY <2>1, <2>2, <1>0 DEF Sockets!SocketInv, P, RoomsEnd
<1>5. Sockets!AgentsLeaveNoGhost'
  BY <1>0, NamesApart DEF Sockets!AgentsLeaveNoGhost, RoomsEnd
<1> QED
  BY <1>2, <1>3, <1>4, <1>5 DEF Sockets!SocketInv, P

\* A kick: the guest session ends and the current socket is told, under the lock.
LEMMA KickEndsKeeps ==
  ASSUME Sockets!Assumption, Sockets!ConnectionInv, Sockets!KickEnds
  PROVE  Sockets!ConnectionInv'
<1> DEFINE u == "admin"
           t == task[u]
<1>0. /\ Inv /\ Sockets!TypeOK /\ Sockets!TaskInv /\ u \in Users /\ t.pc = "told"
      /\ t.op = "kick" /\ t.p \in Humans /\ t.p \in P /\ Sockets!SocketInv /\ Sockets!ExpelInv
      /\ "unlock" \in Sockets!Pc /\ u \notin C
  BY NamesApart DEF Inv, Sockets!ConnectionInv, Sockets!KickEnds, Sockets!Pc, Sockets!TaskInv,
     Sockets!Idle
<1>1. /\ valid' = valid \ {t.p} /\ told' = told \cup ({entry[t.p]} \cap C)
      /\ expelled' = expelled \cup {t.p} /\ UNCHANGED <<slot, owner, entry, room>>
  BY DEF Sockets!KickEnds
<1>2. Moves(u, "unlock", t.op, t.p, t.lock)
  BY <1>0, GoesMoves DEF Sockets!KickEnds
<1>3. Proper(u, "unlock", t.op, t.p)
  BY <1>0, NamesApart DEF Proper
<1>4. Sockets!LockInv' /\ Sockets!TaskInv'
  BY <1>0, <1>1, <1>2, <1>3, LocksStay, TasksStay DEF Sockets!Active
<1>5. Sockets!TypeOK'
  BY <1>0, <1>1, <1>2, TasksType DEF Sockets!TypeOK, P
<1>6. /\ \A d \in C : task'[d] = task[d]
      /\ task'["worker"] = task["worker"] /\ RoomsEnd
  BY <1>0, <1>1, <1>2, NamesApart DEF Moves, RoomsEnd, Sockets!TypeOK, P
<1>7. Sockets!SocketInv' /\ Sockets!AgentsLeaveNoGhost'
  BY <1>1, <1>6, OfficialsKeepSockets
<1>8. Sockets!ExpelInv'
  <2>1. ASSUME NEW d \in C, task'[d].p \in expelled'
        PROVE  task'[d].pc # "joined" /\ (Sockets!Registered(d)' => d \in told')
    <3>1. task'[d] = task[d] /\ (Sockets!Registered(d)' => Sockets!Registered(d))
      BY <1>6 DEF Sockets!Registered
    <3>2. CASE task[d].p = t.p
      <4>1. d # u /\ d \in Users
        BY <1>0, NamesApart
      <4>2. task[d].pc # "joined"
        BY <4>1, <3>2, <1>0, Alone
      <4>3. Sockets!Registered(d) => d \in told'
        BY <3>2, <1>0, <1>1 DEF Sockets!SocketInv
      <4> QED
        BY <4>2, <4>3, <3>1
    <3>3. CASE task[d].p # t.p
      BY <3>1, <3>3, <2>1, <1>0, <1>1 DEF Sockets!ExpelInv
    <3> QED
      BY <3>2, <3>3
  <2> QED
    BY <2>1, <1>0, <1>1, <1>6 DEF Sockets!ExpelInv
<1> QED
  BY <1>4, <1>5, <1>7, <1>8 DEF Sockets!ConnectionInv

\* A revocation: the current socket is told ...
LEMMA CloseAgentsKeeps ==
  ASSUME Sockets!Assumption, Sockets!ConnectionInv, Sockets!CloseAgents
  PROVE  Sockets!ConnectionInv'
<1> DEFINE u == "worker"
           t == task[u]
<1>0. /\ Inv /\ Sockets!TypeOK /\ Sockets!TaskInv /\ u \in Users /\ t.pc = "hold"
      /\ t.op = "revoke" /\ t.p \in Agents \ valid /\ t.p \in P /\ Sockets!ExpelInv
      /\ "told" \in Sockets!Pc /\ u \notin C
  BY NamesApart DEF Inv, Sockets!ConnectionInv, Sockets!CloseAgents, Sockets!Pc, Sockets!TaskInv,
     Sockets!Idle
<1>1. /\ told' = told \cup ({entry[t.p]} \cap C)
      /\ UNCHANGED <<slot, owner, entry, room, valid, expelled>>
  BY DEF Sockets!CloseAgents
<1>2. Moves(u, "told", t.op, t.p, t.lock)
  BY <1>0, GoesMoves DEF Sockets!CloseAgents
<1>3. Proper(u, "told", t.op, t.p)
  BY <1>0, <1>1, NamesApart DEF Proper
<1>4. Sockets!LockInv' /\ Sockets!TaskInv'
  BY <1>0, <1>1, <1>2, <1>3, LocksStay, TasksStay DEF Sockets!Active
<1>5. Sockets!TypeOK'
  BY <1>0, <1>1, <1>2, TasksType DEF Sockets!TypeOK, P
<1>6. /\ \A d \in C : task'[d] = task[d]
      /\ task'[u].p = t.p /\ RoomsEnd
  BY <1>0, <1>1, <1>2, NamesApart DEF Moves, RoomsEnd, Sockets!TypeOK, P
<1>7. Sockets!SocketInv' /\ Sockets!AgentsLeaveNoGhost'
  BY <1>1, <1>6, OfficialsKeepSockets
<1>8. Sockets!ExpelInv'
  BY <1>0, <1>1, <1>6 DEF Sockets!ExpelInv, Sockets!Registered
<1> QED
  BY <1>4, <1>5, <1>7, <1>8 DEF Sockets!ConnectionInv

\* ... and the Rooms hear of it, or did not answer in time.
LEMMA RoomsHearKeeps ==
  ASSUME Sockets!Assumption, Sockets!ConnectionInv, Sockets!RoomsHear
  PROVE  Sockets!ConnectionInv'
<1> DEFINE u == "worker"
           t == task[u]
<1>0. /\ Inv /\ Sockets!TypeOK /\ Sockets!TaskInv /\ u \in Users /\ t.pc = "told"
      /\ t.op = "revoke" /\ t.p \in Agents \ valid /\ t.p \in P /\ Sockets!ExpelInv
      /\ {"unlock", "want"} \subseteq Sockets!Pc /\ u \notin C /\ Sockets!LockInv /\ Sockets!SocketInv
  BY NamesApart DEF Inv, Sockets!ConnectionInv, Sockets!RoomsHear, Sockets!Pc, Sockets!TaskInv,
     Sockets!Idle
<1>1. CASE /\ room' = [room EXCEPT ![t.p] = "gone"] /\ expelled' = expelled \cup {t.p}
           /\ Sockets!Goes(u, "unlock") /\ UNCHANGED owner
  <2>1. UNCHANGED <<slot, entry, told, valid>>
    BY DEF Sockets!RoomsHear
  <2>2. Moves(u, "unlock", t.op, t.p, t.lock)
    BY <1>0, <1>1, GoesMoves
  <2>3. Proper(u, "unlock", t.op, t.p)
    BY <1>0, <2>1, NamesApart DEF Proper
  <2>4. Sockets!LockInv' /\ Sockets!TaskInv'
    BY <1>0, <1>1, <2>1, <2>2, <2>3, LocksStay, TasksStay DEF Sockets!Active
  <2>5. Sockets!TypeOK'
    BY <1>0, <1>1, <2>1, <2>2, TasksType DEF Sockets!TypeOK, Sockets!Presence, P
  <2>6. /\ \A d \in C : task'[d] = task[d]
        /\ task'[u].pc = "unlock" /\ RoomsEnd
    BY <1>0, <1>1, <2>2, NamesApart DEF Moves, RoomsEnd, Sockets!TypeOK, Sockets!Presence, P
  <2>7. Sockets!SocketInv' /\ Sockets!AgentsLeaveNoGhost'
    BY <2>1, <2>6, OfficialsKeepSockets
  <2>8. Sockets!ExpelInv'
    <3>1. ASSUME NEW d \in C, task'[d].p \in expelled'
          PROVE  task'[d].pc # "joined" /\ (Sockets!Registered(d)' => d \in told')
      <4>1. task'[d] = task[d] /\ (Sockets!Registered(d)' => Sockets!Registered(d))
        BY <2>6 DEF Sockets!Registered
      <4>2. CASE task[d].p = t.p
        <5>1. d # u /\ d \in Users
          BY <1>0, NamesApart
        <5>2. task[d].pc # "joined"
          BY <5>1, <4>2, <1>0, Alone
        <5>3. Sockets!Registered(d) => d \in told
          BY <4>2, <1>0 DEF Sockets!SocketInv, Sockets!ExpelInv
        <5> QED
          BY <5>2, <5>3, <4>1, <2>1
      <4>3. CASE task[d].p # t.p
        BY <4>1, <4>3, <3>1, <1>0, <1>1, <2>1 DEF Sockets!ExpelInv
      <4> QED
        BY <4>2, <4>3
    <3> QED
      BY <3>1, <1>0, <1>1, <2>1, <2>6 DEF Sockets!ExpelInv
  <2> QED
    BY <2>4, <2>5, <2>7, <2>8 DEF Sockets!ConnectionInv
<1>2. CASE /\ owner' = [owner EXCEPT ![0] = "none"] /\ Sockets!Goes(u, "want")
           /\ UNCHANGED <<room, expelled>>
  <2>1. UNCHANGED <<slot, entry, told, valid, room, expelled>> /\ t.lock = 0
    BY <1>0, <1>2 DEF Sockets!RoomsHear, Sockets!LockInv, Sockets!Active, Users
  <2>2. Moves(u, "want", t.op, t.p, t.lock)
    BY <1>0, <1>2, GoesMoves
  <2>3. Proper(u, "want", t.op, t.p) /\ Quiet(u, "want", t.op, t.p)
    BY <1>0, <2>1, NamesApart DEF Proper, Quiet
  <2>4. Sockets!LockInv' /\ owner' \in [Locks -> Users \cup {"none"}]
    BY <1>0, <1>2, <2>1, <2>2, LetsGo DEF Sockets!Active
  <2>5. Sockets!TaskInv'
    BY <1>0, <2>1, <2>2, <2>3, TasksStay
  <2>6. RoomsEnd
    BY <1>0, <2>1 DEF RoomsEnd, Sockets!TypeOK, P
  <2>7. Sockets!TypeOK'
    BY <1>0, <2>1, <2>2, <2>4, TasksType DEF Sockets!TypeOK, Locks, Users
  <2>8. Sockets!SocketInv' /\ Sockets!ExpelInv' /\ Sockets!AgentsLeaveNoGhost'
    BY <1>0, <2>1, <2>2, <2>3, <2>6, SocketsStay
  <2> QED
    BY <2>4, <2>5, <2>7, <2>8 DEF Sockets!ConnectionInv
<1> QED
  BY <1>1, <1>2 DEF Sockets!RoomsHear

-----------------------------------------------------------------------------
(* The theorems *)

LEMMA ConnectionInit == ASSUME Sockets!Assumption, Sockets!Init PROVE Sockets!ConnectionInv
<1>1. Sockets!TypeOK
  BY DEF Sockets!Assumption, Sockets!Init, Sockets!TypeOK, Sockets!Idle, Sockets!Pc, Sockets!Op,
         Sockets!Locks, Sockets!Presence
<1>2. \A u \in Users : task[u] = Sockets!Idle
  BY DEF Sockets!Init, Users
<1>3. Sockets!LockInv /\ Sockets!TaskInv
  BY <1>2, NamesApart DEF Sockets!LockInv, Sockets!TaskInv, Sockets!Idle, Sockets!Active, Users, P
<1>4. \A p \in P : entry[p] = "none" /\ room[p] = "away"
  BY DEF Sockets!Init, P
<1>5. Sockets!SocketInv
  BY <1>2, <1>4, NamesApart DEF Sockets!SocketInv, Sockets!Registered, Sockets!Idle, P
<1>6. Sockets!ExpelInv
  <2>1. expelled = {}
    BY DEF Sockets!Init
  <2> QED
    BY <2>1, <1>2, NamesApart DEF Sockets!ExpelInv, Sockets!Idle
<1>7. Sockets!AgentsLeaveNoGhost
  BY <1>4, NamesApart DEF Sockets!AgentsLeaveNoGhost
<1> QED
  BY <1>1, <1>3, <1>5, <1>6, <1>7 DEF Sockets!ConnectionInv

LEMMA ConnectionStep ==
  ASSUME Sockets!Assumption, Sockets!ConnectionInv, [Sockets!Next]_(Sockets!vars)
  PROVE  Sockets!ConnectionInv'
<1>1. ASSUME NEW c \in C, NEW p \in P, Sockets!Upgrade(c, p) PROVE Sockets!ConnectionInv'
  BY <1>1, UpgradeKeeps
<1>2. ASSUME NEW c \in C, Sockets!Reconnect(c) \/ Sockets!Register(c) \/ Sockets!EndSocket(c)
      PROVE  Sockets!ConnectionInv'
  BY <1>2, ReconnectKeeps, RegisterKeeps, EndSocketKeeps
<1>3. ASSUME NEW c \in C, Sockets!Disconnect(c) \/ Sockets!Remove(c) \/ Sockets!SubscribeFails(c)
      PROVE  Sockets!ConnectionInv'
  BY <1>3, DisconnectKeeps, RemoveKeeps, SubscribeFailsKeeps
<1>4. ASSUME NEW c \in C, Sockets!Leave(c) \/ Sockets!LeaveRoom(c) PROVE Sockets!ConnectionInv'
  BY <1>4, LeaveKeeps, LeaveRoomKeeps
<1>5. ASSUME NEW u \in Users, Sockets!Acquire(u) \/ Sockets!Unlock(u) \/ Sockets!Reclaim(u)
      PROVE  Sockets!ConnectionInv'
  BY <1>5, AcquireKeeps, UnlockKeeps, ReclaimKeeps
<1>6. ASSUME NEW p \in P, Sockets!Kick(p) \/ Sockets!RevokeToken(p) PROVE Sockets!ConnectionInv'
  BY <1>6, KickKeeps, RevokeTokenKeeps
<1>7. ASSUME NEW p \in P, Sockets!RoomForgets(p) \/ Sockets!Prune(p) PROVE Sockets!ConnectionInv'
  BY <1>7, OthersKeep
<1>8. CASE Sockets!KickRoom \/ Sockets!KickEnds \/ Sockets!CloseAgents \/ Sockets!RoomsHear
  BY <1>8, KickRoomKeeps, KickEndsKeeps, CloseAgentsKeeps, RoomsHearKeeps
<1>9. CASE UNCHANGED Sockets!vars
  BY <1>9 DEF Sockets!vars, Sockets!ConnectionInv, Sockets!TypeOK, Sockets!LockInv, Sockets!TaskInv,
     Sockets!SocketInv, Sockets!ExpelInv, Sockets!AgentsLeaveNoGhost, Sockets!Registered
<1> QED
  BY <1>1, <1>2, <1>3, <1>4, <1>5, <1>6, <1>7, <1>8, <1>9 DEF Sockets!Next, P, Users

\* For any number of sockets and Participants, and with locks made anew whenever nobody
\* wants them: one task at a time works on a Participant, the end of a replaced socket
\* disconnects nobody, and no agent stays connected without a socket (http.rs
\* operation_lock, run_human, compat.rs teardown_room_connection).
THEOREM OneSocketAtATime ==
  ASSUME Sockets!Assumption
  PROVE  Sockets!Spec => []Sockets!SessionsAreSound
<1>1. Sockets!ConnectionInv => Sockets!SessionsAreSound
  <2> SUFFICES ASSUME Sockets!ConnectionInv PROVE Sockets!SessionsAreSound
    OBVIOUS
  <2>1. Sockets!OneOperationAtATime
    BY Alone DEF Sockets!OneOperationAtATime, Users
  <2>2. Sockets!ReplacedEndsQuietly
    <3>1. ASSUME NEW p \in P, entry[p] # "none", task[entry[p]].pc = "run",
                 task[entry[p]].op = "open"
          PROVE  room[p] # "away"
      <4>1. entry[p] \in C
        BY <3>1 DEF Sockets!ConnectionInv, Sockets!TypeOK, P
      <4> QED
        BY <3>1, <4>1 DEF Sockets!ConnectionInv, Sockets!SocketInv, Sockets!Registered, P
    <3> QED
      BY <3>1 DEF Sockets!ReplacedEndsQuietly, P
  <2> QED
    BY <2>1, <2>2 DEF Sockets!SessionsAreSound, Sockets!ConnectionInv
<1> QED
  BY <1>1, ConnectionInit, ConnectionStep, PTL DEF Sockets!Spec

\* Whoever was kicked or lost its Bot Token has no socket that was not told to close,
\* one that was being opened meanwhile included (http.rs admin_participant_command,
\* human_upgrade; compat.rs deliver_revocation, room_mjai_upgrade).
THEOREM ExpelledSocketsClose ==
  ASSUME Sockets!Assumption
  PROVE  Sockets!Spec => []Sockets!ExpelledAreOut
<1>1. Sockets!ConnectionInv => Sockets!ExpelledAreOut
  BY DEF Sockets!ConnectionInv, Sockets!ExpelInv, Sockets!ExpelledAreOut, Sockets!Registered
<1> QED
  BY <1>1, ConnectionInit, ConnectionStep, PTL DEF Sockets!Spec

-----------------------------------------------------------------------------
(* The revocation of Bot Tokens *)

CONSTANTS T, Rm, Stream, Box

VARIABLES up, disk, cache, admin, stream, lagged, worker, sema, join, box, member, waiting

Tokens == INSTANCE TokenRevocation

LEMMA InRange ==
  ASSUME NEW S, NEW q \in Seq(S), NEW x
  PROVE  x \in Tokens!Range(q) <=> \E i \in 1 .. Len(q) : q[i] = x
<1>1. DOMAIN q = 1 .. Len(q)
  OBVIOUS
<1> QED
  BY <1>1 DEF Tokens!Range

\* A queue without its head.
LEMMA AfterHead ==
  ASSUME NEW S, NEW q \in Seq(S), q # <<>>
  PROVE  /\ Head(q) \in S /\ Head(q) = q[1] /\ Tail(q) \in Seq(S)
         /\ Len(q) \in Nat /\ Len(q) > 0 /\ Len(Tail(q)) = Len(q) - 1
         /\ \A i \in 1 .. (Len(q) - 1) : Tail(q)[i] = q[i + 1]
         /\ Tokens!Range(q) = {Head(q)} \cup Tokens!Range(Tail(q))
<1>1. /\ Head(q) \in S /\ Head(q) = q[1] /\ Tail(q) \in Seq(S)
      /\ Len(q) \in Nat /\ Len(q) > 0 /\ Len(Tail(q)) = Len(q) - 1
      /\ \A i \in 1 .. (Len(q) - 1) : Tail(q)[i] = q[i + 1]
  BY HeadTailProperties
<1>2. ASSUME NEW x \in Tokens!Range(q), x # Head(q) PROVE x \in Tokens!Range(Tail(q))
  <2>1. PICK i \in 1 .. Len(q) : q[i] = x
    BY <1>2, InRange
  <2>2. i - 1 \in 1 .. Len(Tail(q)) /\ Tail(q)[i - 1] = x
    BY <1>1, <1>2, <2>1
  <2> QED
    BY <1>1, <2>2, InRange
<1>3. ASSUME NEW x \in Tokens!Range(Tail(q)) PROVE x \in Tokens!Range(q)
  <2>1. PICK i \in 1 .. Len(Tail(q)) : Tail(q)[i] = x
    BY <1>1, <1>3, InRange
  <2>2. i + 1 \in 1 .. Len(q) /\ q[i + 1] = x
    BY <1>1, <2>1
  <2> QED
    BY <2>2, InRange
<1>4. Head(q) \in Tokens!Range(q)
  BY <1>1, InRange
<1> QED
  BY <1>1, <1>2, <1>3, <1>4

\* A queue with one more at its end.
LEMMA AfterAppend ==
  ASSUME NEW S, NEW q \in Seq(S), NEW x \in S
  PROVE  /\ Append(q, x) \in Seq(S) /\ Len(Append(q, x)) = Len(q) + 1
         /\ \A i \in 1 .. Len(q) : Append(q, x)[i] = q[i]
         /\ Append(q, x)[Len(q) + 1] = x
         /\ Tokens!Range(Append(q, x)) = Tokens!Range(q) \cup {x}
<1>1. /\ Append(q, x) \in Seq(S) /\ Len(Append(q, x)) = Len(q) + 1 /\ Len(q) \in Nat
      /\ \A i \in 1 .. Len(q) : Append(q, x)[i] = q[i]
      /\ Append(q, x)[Len(q) + 1] = x
  BY AppendProperties
<1>2. Tokens!Range(Append(q, x)) = Tokens!Range(q) \cup {x}
  BY <1>1 DEF Tokens!Range
<1> QED
  BY <1>1, <1>2

LEMMA AdminKeeps ==
  ASSUME Tokens!RevocationInv,
         \/ \E t \in T, op \in {"create", "revoke"} : Tokens!Ask(op, t)
         \/ Tokens!Commit \/ Tokens!DropAdmin
  PROVE  Tokens!RevocationInv'
<1>1. /\ UNCHANGED <<up, cache, stream, lagged, worker, sema, join, box, member, waiting>>
      /\ disk' \in [T -> Tokens!States]
      /\ admin' \in [pc : {"idle", "create", "revoke", "created", "revoked"}, t : T \cup {"none"}]
      /\ admin'.pc # "idle" => admin'.t \in T
  <2>1. CASE (\E t \in T, op \in {"create", "revoke"} : Tokens!Ask(op, t)) \/ Tokens!DropAdmin
    BY <2>1 DEF Tokens!Ask, Tokens!DropAdmin, Tokens!channel, Tokens!agents, Tokens!Idle,
       Tokens!RevocationInv, Tokens!TypeOK
  <2>2. CASE Tokens!Commit
    <3>1. /\ UNCHANGED <<up, cache, stream, lagged, worker, sema, join, box, member, waiting>>
          /\ disk' \in [T -> Tokens!States]
      BY <2>2 DEF Tokens!Commit, Tokens!channel, Tokens!agents, Tokens!RevocationInv,
         Tokens!TypeOK, Tokens!States
    <3>2. admin.t \in T
      BY <2>2 DEF Tokens!Commit, Tokens!RevocationInv, Tokens!NamesInv
    <3>3. \/ admin' = Tokens!Idle \/ admin' = [admin EXCEPT !.pc = "created"]
          \/ admin' = [admin EXCEPT !.pc = "revoked"]
      BY <2>2 DEF Tokens!Commit
    <3>4. admin \in [pc : {"idle", "create", "revoke", "created", "revoked"}, t : T \cup {"none"}]
      BY DEF Tokens!RevocationInv, Tokens!TypeOK
    <3>5. /\ admin' \in [pc : {"idle", "create", "revoke", "created", "revoked"},
                         t : T \cup {"none"}]
          /\ admin'.pc # "idle" => admin'.t \in T
      BY <3>2, <3>3, <3>4 DEF Tokens!Idle
    <3> QED
      BY <3>1, <3>5
  <2> QED
    BY <2>1, <2>2
<1>2. Tokens!TypeOK' /\ Tokens!NamesInv' /\ Tokens!SemaphoreInv'
  BY <1>1 DEF Tokens!RevocationInv, Tokens!TypeOK, Tokens!NamesInv, Tokens!SemaphoreInv, Tokens!Working
<1>3. Tokens!DeliveryInv' /\ Tokens!RevokedInv'
  BY <1>1 DEF Tokens!RevocationInv, Tokens!DeliveryInv, Tokens!RevokedInv, Tokens!Swept,
     Tokens!Owed, Tokens!Out
<1> QED
  BY <1>2, <1>3 DEF Tokens!RevocationInv

\* A message is kept, or the channel knows that one was lost.
LEMMA SentIsOwed ==
  ASSUME Tokens!Assumption, Tokens!TypeOK, NEW t \in T, Tokens!Sent(t)
  PROVE  /\ stream' \in Seq(T) /\ Len(stream') <= Stream /\ lagged' \in BOOLEAN
         /\ t \in Tokens!Range(stream')
         /\ lagged' \/ Tokens!Range(stream) \subseteq Tokens!Range(stream')
         /\ lagged => lagged'
<1>1. CASE Len(stream) < Stream
  <2>1. stream' = Append(stream, t) /\ Len(stream) \in Nat /\ stream \in Seq(T)
    BY <1>1 DEF Tokens!Sent, Tokens!TypeOK
  <2>2. (lagged => lagged') /\ lagged' \in BOOLEAN
    <3>1. lagged \in BOOLEAN /\ lagged' = (lagged \/ Len(stream) = Stream)
      BY DEF Tokens!Sent, Tokens!TypeOK
    <3> QED
      BY <3>1, Zenon
  <2> QED
    BY <1>1, <2>1, <2>2, AfterAppend DEF Tokens!Assumption
<1>2. CASE ~(Len(stream) < Stream)
  <2>1. Len(stream) = Stream /\ stream # <<>>
    BY <1>2 DEF Tokens!TypeOK, Tokens!Assumption
  <2>2. Tail(stream) \in Seq(T) /\ Len(Tail(stream)) = Stream - 1
    BY <2>1, AfterHead DEF Tokens!TypeOK
  <2>3. stream' = Append(Tail(stream), t)
    BY <1>2 DEF Tokens!Sent
  <2>4. lagged' = TRUE
    BY <2>1 DEF Tokens!Sent
  <2>5. /\ Append(Tail(stream), t) \in Seq(T) /\ Len(Append(Tail(stream), t)) = Stream
        /\ t \in Tokens!Range(Append(Tail(stream), t))
    <3> DEFINE rest == Tail(stream)
    <3>1. rest \in Seq(T) /\ Len(rest) = Stream - 1
      BY <2>2
    <3> HIDE DEF rest
    <3>2. /\ Append(rest, t) \in Seq(T) /\ Len(Append(rest, t)) = Len(rest) + 1
          /\ Tokens!Range(Append(rest, t)) = Tokens!Range(rest) \cup {t}
      BY <3>1, AfterAppend
    <3>3. /\ Append(rest, t) \in Seq(T) /\ Len(Append(rest, t)) = Stream
          /\ t \in Tokens!Range(Append(rest, t))
      BY <3>1, <3>2 DEF Tokens!Assumption
    <3> QED
      BY <3>3 DEF rest
  <2> QED
    BY <2>3, <2>4, <2>5 DEF Tokens!Assumption
<1> QED
  BY <1>1, <1>2

LEMMA CacheKeeps ==
  ASSUME Tokens!Assumption, Tokens!RevocationInv, Tokens!Cache
  PROVE  Tokens!RevocationInv'
<1> DEFINE t == admin.t
<1>1. /\ UNCHANGED <<up, disk, worker, sema, join, box, member, waiting>>
      /\ t \in T /\ admin' = Tokens!Idle
  BY DEF Tokens!Cache, Tokens!agents, Tokens!RevocationInv, Tokens!NamesInv
<1>2. /\ cache' \in [T -> Tokens!States] /\ stream' \in Seq(T) /\ Len(stream') <= Stream
      /\ lagged' \in BOOLEAN
      /\ \A x \in T : Tokens!Owed(x) => Tokens!Owed(x)'
      /\ \A x \in T : cache'[x] = "revoked" => cache[x] = "revoked" \/ Tokens!Owed(x)'
  <2>1. CASE cache' = [cache EXCEPT ![t] = "active"] /\ UNCHANGED Tokens!channel
    BY <1>1, <2>1 DEF Tokens!channel, Tokens!RevocationInv, Tokens!TypeOK, Tokens!States, Tokens!Owed
  <2>2. CASE cache' = [cache EXCEPT ![t] = "revoked"] /\ Tokens!Sent(t)
    BY <1>1, <2>2, SentIsOwed DEF Tokens!RevocationInv, Tokens!TypeOK, Tokens!States, Tokens!Owed
  <2>3. CASE UNCHANGED <<cache, Tokens!channel>>
    BY <1>1, <2>3 DEF Tokens!channel, Tokens!RevocationInv, Tokens!TypeOK, Tokens!Owed
  <2> QED
    BY <2>1, <2>2, <2>3 DEF Tokens!Cache
<1>3. Tokens!TypeOK'
  BY <1>1, <1>2 DEF Tokens!RevocationInv, Tokens!TypeOK, Tokens!Idle
<1>4. Tokens!NamesInv' /\ Tokens!SemaphoreInv' /\ Tokens!DeliveryInv'
  BY <1>1 DEF Tokens!RevocationInv, Tokens!NamesInv, Tokens!SemaphoreInv, Tokens!DeliveryInv,
     Tokens!Idle, Tokens!Working, Tokens!Swept
<1>5. Tokens!RevokedInv'
  BY <1>1, <1>2 DEF Tokens!RevocationInv, Tokens!RevokedInv, Tokens!Out
<1> QED
  BY <1>3, <1>4, <1>5 DEF Tokens!RevocationInv

\* A token keeps what was promised of it while its revocation is owed as before, and no
\* agent of it comes in.
LEMMA RevokedStays ==
  ASSUME Tokens!RevokedInv,
         \A x \in T : /\ up' /\ cache'[x] = "revoked" /\ ~Tokens!Owed(x)' =>
                           up /\ cache[x] = "revoked" /\ ~Tokens!Owed(x)
                      /\ cache[x] = "revoked" /\ Tokens!Out(x) /\ join[x].pc \notin {"send", "reply"} =>
                           Tokens!Out(x)' /\ join'[x].pc \notin {"send", "reply"}
  PROVE  Tokens!RevokedInv'
BY DEF Tokens!RevokedInv

\* The request of one agent goes on.
LEMMA JoinMoves ==
  ASSUME Tokens!TypeOK, NEW t \in T, NEW pc \in {"idle", "wait", "send", "reply"},
         join' = [join EXCEPT ![t].pc = pc]
  PROVE  /\ join' \in [T -> [pc : {"idle", "wait", "send", "reply"}, r : Rm]]
         /\ join'[t].pc = pc /\ \A x \in T : x # t => join'[x].pc = join[x].pc
<1>1. join \in [T -> [pc : {"idle", "wait", "send", "reply"}, r : Rm]]
  BY DEF Tokens!TypeOK
<1> QED
  BY <1>1

\* A Room's queue takes one more command.
LEMMA BoxTakes ==
  ASSUME Tokens!Assumption, Tokens!TypeOK, NEW r \in Rm, NEW c \in {"join", "revoke"} \X T,
         Len(box[r]) < Box, box' = [box EXCEPT ![r] = Append(@, c)]
  PROVE  /\ box' \in [Rm -> Seq({"join", "revoke"} \X T)] /\ \A q \in Rm : Len(box'[q]) <= Box
         /\ \A q \in Rm \ {r} : box'[q] = box[q]
         /\ Len(box[r]) \in Nat /\ Len(box'[r]) = Len(box[r]) + 1
         /\ \A i \in 1 .. Len(box[r]) : box'[r][i] = box[r][i]
         /\ box'[r][Len(box[r]) + 1] = c
         /\ Tokens!Range(box'[r]) = Tokens!Range(box[r]) \cup {c}
<1> DEFINE Commands == {"join", "revoke"} \X T
<1>1. box \in [Rm -> Seq(Commands)] /\ \A q \in Rm : Len(box[q]) <= Box
  BY DEF Tokens!TypeOK
<1>2. c \in Commands /\ Box \in Nat
  BY DEF Tokens!Assumption
<1> HIDE DEF Commands
<1>3. box[r] \in Seq(Commands) /\ Len(box[r]) \in Nat
  BY <1>1
<1>4. /\ Append(box[r], c) \in Seq(Commands) /\ Len(Append(box[r], c)) = Len(box[r]) + 1
      /\ \A i \in 1 .. Len(box[r]) : Append(box[r], c)[i] = box[r][i]
      /\ Append(box[r], c)[Len(box[r]) + 1] = c
      /\ Tokens!Range(Append(box[r], c)) = Tokens!Range(box[r]) \cup {c}
  BY <1>2, <1>3, AfterAppend
<1>5. box'[r] = Append(box[r], c) /\ \A q \in Rm \ {r} : box'[q] = box[q]
  BY <1>1
<1>6. box' \in [Rm -> Seq(Commands)]
  BY <1>1, <1>4
<1>7. \A q \in Rm : Len(box'[q]) <= Box
  BY <1>1, <1>2, <1>3, <1>4, <1>5
<1> QED
  BY <1>3, <1>4, <1>5, <1>6, <1>7 DEF Commands

LEMMA AskJoinKeeps ==
  ASSUME Tokens!RevocationInv, NEW t \in T, NEW r \in Rm, Tokens!AskJoin(t, r)
  PROVE  Tokens!RevocationInv'
<1>1. /\ UNCHANGED <<up, disk, cache, admin, stream, lagged, worker, sema, box, member, waiting>>
      /\ join' = [join EXCEPT ![t] = [pc |-> "wait", r |-> r]] /\ join[t].pc = "idle"
  BY DEF Tokens!AskJoin, Tokens!tokens, Tokens!channel
<1>2. /\ join' \in [T -> [pc : {"idle", "wait", "send", "reply"}, r : Rm]]
      /\ \A x \in T : join'[x].pc \in {"send", "reply"} <=> join[x].pc \in {"send", "reply"}
  BY <1>1 DEF Tokens!RevocationInv, Tokens!TypeOK
<1>3. Tokens!TypeOK'
  BY <1>1, <1>2 DEF Tokens!RevocationInv, Tokens!TypeOK
<1>4. Tokens!NamesInv' /\ Tokens!SemaphoreInv' /\ Tokens!DeliveryInv'
  BY SMTT(30), <1>1, <1>2 DEF Tokens!RevocationInv, Tokens!NamesInv, Tokens!SemaphoreInv,
     Tokens!DeliveryInv, Tokens!Working, Tokens!Swept
<1>5. Tokens!RevokedInv'
  BY <1>1, <1>2, RevokedStays DEF Tokens!RevocationInv, Tokens!Owed, Tokens!Out
<1> QED
  BY <1>3, <1>4, <1>5 DEF Tokens!RevocationInv

LEMMA LockJoinKeeps ==
  ASSUME Tokens!Assumption, Tokens!RevocationInv, NEW t \in T, Tokens!LockJoin(t)
  PROVE  Tokens!RevocationInv'
<1>1. /\ UNCHANGED <<up, disk, cache, admin, stream, lagged, worker, box, member, waiting>>
      /\ join[t].pc = "wait" /\ sema = "none"
  BY DEF Tokens!LockJoin, Tokens!tokens, Tokens!channel
<1>2. \/ cache[t] = "active" /\ sema' = t /\ join' = [join EXCEPT ![t].pc = "send"]
      \/ sema' = "none" /\ join' = [join EXCEPT ![t].pc = "idle"]
  BY DEF Tokens!LockJoin
<1>3. /\ join' \in [T -> [pc : {"idle", "wait", "send", "reply"}, r : Rm]]
      /\ sema' \in T \cup {"none", "worker"} /\ sema' # "worker" /\ ~Tokens!Working
      /\ \A x \in T : x # t => join'[x].pc = join[x].pc
      /\ sema' = t <=> join'[t].pc \in {"send", "reply"}
      /\ \A x \in T : x # t => sema' # x /\ sema # x
      /\ join'[t].pc \in {"send", "reply"} => cache[t] = "active"
  <2>1. /\ "none" \notin T /\ "worker" \notin T /\ ~Tokens!Working /\ Tokens!TypeOK
        /\ \A x \in T : sema = x <=> join[x].pc \in {"send", "reply"}
    BY <1>1 DEF Tokens!RevocationInv, Tokens!SemaphoreInv, Tokens!Assumption
  <2> QED
    BY <1>1, <1>2, <2>1, JoinMoves
<1>4. Tokens!TypeOK'
  BY <1>1, <1>3 DEF Tokens!RevocationInv, Tokens!TypeOK
<1>5. Tokens!NamesInv' /\ Tokens!SemaphoreInv' /\ Tokens!DeliveryInv'
  BY <1>1, <1>3 DEF Tokens!RevocationInv, Tokens!NamesInv, Tokens!SemaphoreInv,
     Tokens!DeliveryInv, Tokens!Working, Tokens!Swept
<1>6. Tokens!RevokedInv'
  BY <1>1, <1>3, RevokedStays DEF Tokens!RevocationInv, Tokens!Owed, Tokens!Out
<1> QED
  BY <1>4, <1>5, <1>6 DEF Tokens!RevocationInv

LEMMA SendJoinKeeps ==
  ASSUME Tokens!Assumption, Tokens!RevocationInv, NEW t \in T, Tokens!SendJoin(t)
  PROVE  Tokens!RevocationInv'
<1> DEFINE r == join[t].r
<1>1. /\ UNCHANGED <<up, disk, cache, admin, stream, lagged, worker, member, waiting>>
      /\ join[t].pc = "send" /\ r \in Rm
  BY DEF Tokens!SendJoin, Tokens!tokens, Tokens!channel, Tokens!RevocationInv, Tokens!TypeOK
<1>2. sema = t /\ ~Tokens!Working /\ \A x \in T : x # t => join[x].pc \notin {"send", "reply"}
  BY <1>1 DEF Tokens!RevocationInv, Tokens!SemaphoreInv, Tokens!Assumption
<1>3. /\ join' \in [T -> [pc : {"idle", "wait", "send", "reply"}, r : Rm]]
      /\ sema' \in T \cup {"none", "worker"} /\ sema' # "worker"
      /\ \A x \in T : x # t => join'[x].pc = join[x].pc
      /\ sema' = t <=> join'[t].pc \in {"send", "reply"}
      /\ \A x \in T : x # t => sema' # x
  <2>1. \/ sema' = t /\ join' = [join EXCEPT ![t].pc = "reply"]
        \/ sema' = "none" /\ join' = [join EXCEPT ![t].pc = "idle"]
    BY <1>2 DEF Tokens!SendJoin
  <2>2. "none" \notin T /\ "worker" \notin T /\ Tokens!TypeOK
    BY DEF Tokens!RevocationInv, Tokens!Assumption
  <2> QED
    BY <2>1, <2>2, JoinMoves
<1>4. /\ box' \in [Rm -> Seq({"join", "revoke"} \X T)] /\ \A q \in Rm : Len(box'[q]) <= Box
      /\ \A x \in T, q \in Rm : x # t =>
           (<<"join", x>> \in Tokens!Range(box'[q]) => <<"join", x>> \in Tokens!Range(box[q]))
  <2>1. CASE UNCHANGED box
    BY <2>1 DEF Tokens!RevocationInv, Tokens!TypeOK
  <2>2. CASE Len(box[r]) < Box /\ box' = [box EXCEPT ![r] = Append(@, <<"join", t>>)]
    <3>1. <<"join", t>> \in {"join", "revoke"} \X T /\ Tokens!TypeOK
      BY DEF Tokens!RevocationInv
    <3>2. /\ box' \in [Rm -> Seq({"join", "revoke"} \X T)] /\ \A q \in Rm : Len(box'[q]) <= Box
          /\ \A q \in Rm \ {r} : box'[q] = box[q]
          /\ Tokens!Range(box'[r]) = Tokens!Range(box[r]) \cup {<<"join", t>>}
      BY <1>1, <2>2, <3>1, BoxTakes
    <3>3. ASSUME NEW x \in T, NEW q \in Rm, x # t, <<"join", x>> \in Tokens!Range(box'[q])
          PROVE  <<"join", x>> \in Tokens!Range(box[q])
      BY <3>2, <3>3
    <3> QED
      BY <3>2, <3>3
  <2> QED
    BY <2>1, <2>2 DEF Tokens!SendJoin
<1>5. Tokens!TypeOK'
  BY <1>1, <1>3, <1>4 DEF Tokens!RevocationInv, Tokens!TypeOK
<1>6. Tokens!NamesInv' /\ Tokens!SemaphoreInv' /\ Tokens!DeliveryInv'
  BY <1>1, <1>2, <1>3 DEF Tokens!RevocationInv, Tokens!NamesInv, Tokens!SemaphoreInv,
     Tokens!DeliveryInv, Tokens!Working
<1>7. Tokens!RevokedInv'
  BY <1>1, <1>2, <1>3, <1>4, RevokedStays DEF Tokens!RevocationInv, Tokens!Owed, Tokens!Out
<1> QED
  BY <1>5, <1>6, <1>7 DEF Tokens!RevocationInv

LEMMA EndJoinKeeps ==
  ASSUME Tokens!Assumption, Tokens!RevocationInv, NEW t \in T, Tokens!EndJoin(t)
  PROVE  Tokens!RevocationInv'
<1>1. /\ UNCHANGED <<up, disk, cache, admin, stream, lagged, worker, box, member, waiting>>
      /\ join' = [join EXCEPT ![t].pc = "idle"] /\ sema' = IF sema = t THEN "none" ELSE sema
  BY DEF Tokens!EndJoin, Tokens!tokens, Tokens!channel
<1>2. /\ join' \in [T -> [pc : {"idle", "wait", "send", "reply"}, r : Rm]]
      /\ sema' \in T \cup {"none", "worker"} /\ (sema' = "worker" <=> sema = "worker")
      /\ \A x \in T : x # t => join'[x].pc = join[x].pc /\ (sema' = x <=> sema = x)
      /\ sema' # t /\ join'[t].pc = "idle"
  <2>1. /\ "none" \notin T /\ "worker" \notin T /\ sema \in T \cup {"none", "worker"}
        /\ Tokens!TypeOK
    BY DEF Tokens!RevocationInv, Tokens!TypeOK, Tokens!Assumption
  <2> QED
    BY ZenonT(60), <1>1, <2>1, JoinMoves
<1>3. Tokens!TypeOK'
  BY <1>1, <1>2 DEF Tokens!RevocationInv, Tokens!TypeOK
<1>4. Tokens!NamesInv' /\ Tokens!SemaphoreInv' /\ Tokens!DeliveryInv'
  <2>1. Tokens!NamesInv' /\ Tokens!DeliveryInv'
    BY <1>1 DEF Tokens!RevocationInv, Tokens!NamesInv, Tokens!DeliveryInv, Tokens!Swept
  <2>2. \A x \in T : sema' = x <=> join'[x].pc \in {"send", "reply"}
    BY <1>2 DEF Tokens!RevocationInv, Tokens!SemaphoreInv
  <2> QED
    BY <1>1, <1>2, <2>1, <2>2 DEF Tokens!RevocationInv, Tokens!SemaphoreInv, Tokens!Working
<1>5. Tokens!RevokedInv'
  BY <1>1, <1>2, RevokedStays DEF Tokens!RevocationInv, Tokens!Owed, Tokens!Out
<1> QED
  BY <1>3, <1>4, <1>5 DEF Tokens!RevocationInv

LEMMA WaitKeeps ==
  ASSUME Tokens!RevocationInv, NEW t \in T, Tokens!Wait(t)
  PROVE  Tokens!RevocationInv'
<1>1. /\ UNCHANGED <<up, disk, cache, admin, stream, lagged, worker, sema, join, box, member>>
      /\ waiting' = waiting \cup {t} /\ cache[t] = "active" /\ ~Tokens!Working
  BY DEF Tokens!Wait, Tokens!tokens, Tokens!channel, Tokens!agents, Tokens!RevocationInv,
     Tokens!SemaphoreInv
<1>2. Tokens!TypeOK'
  BY <1>1 DEF Tokens!RevocationInv, Tokens!TypeOK
<1>3. Tokens!NamesInv' /\ Tokens!SemaphoreInv' /\ Tokens!DeliveryInv'
  BY <1>1 DEF Tokens!RevocationInv, Tokens!NamesInv, Tokens!SemaphoreInv, Tokens!DeliveryInv,
     Tokens!Working
<1>4. Tokens!RevokedInv'
  BY <1>1, RevokedStays DEF Tokens!RevocationInv, Tokens!Owed, Tokens!Out
<1> QED
  BY <1>2, <1>3, <1>4 DEF Tokens!RevocationInv

\* In a Room's queue the revocation stays behind the joins when the Room takes the next
\* command.
LEMMA SweptActs ==
  ASSUME Tokens!TypeOK, NEW r \in Rm, box[r] # <<>>, Tokens!Swept(r),
         worker' = worker, box'[r] = Tail(box[r]),
         worker.t \in member'[r] =>
           \/ Head(box[r]) = <<"join", worker.t>>
           \/ worker.t \in member[r] /\ Head(box[r]) # <<"revoke", worker.t>>
  PROVE  /\ Tokens!Swept(r)'
         /\ <<"revoke", worker.t>> \in Tokens!Range(box'[r]) =>
              <<"revoke", worker.t>> \in Tokens!Range(box[r])
<1> DEFINE q == box[r]
           e == Tail(q)
           w == worker.t
<1>1. q \in Seq({"join", "revoke"} \X T) /\ q # <<>>
  BY DEF Tokens!TypeOK
<1> HIDE DEF q
<1>2. /\ Head(q) = q[1] /\ Len(q) \in Nat /\ Len(q) > 0 /\ Len(e) = Len(q) - 1
      /\ \A i \in 1 .. (Len(q) - 1) : e[i] = q[i + 1]
      /\ Tokens!Range(q) = {Head(q)} \cup Tokens!Range(e)
      /\ e \in Seq({"join", "revoke"} \X T)
  BY <1>1, AfterHead
<1>3. DOMAIN q = 1 .. Len(q) /\ DOMAIN e = 1 .. Len(e)
  BY <1>1, <1>2
<1>4. \A i \in 1 .. Len(q) : q[i] = <<"join", w>> => \E j \in 1 .. Len(q) : j > i /\ q[j] = <<"revoke", w>>
  BY <1>3 DEF Tokens!Swept, q
<1>5. ASSUME NEW i \in 1 .. Len(e), e[i] = <<"join", w>>
      PROVE  \E j \in 1 .. Len(e) : j > i /\ e[j] = <<"revoke", w>>
  <2>1. i + 1 \in 1 .. Len(q) /\ q[i + 1] = <<"join", w>>
    BY <1>2, <1>5
  <2>2. PICK j \in 1 .. Len(q) : j > i + 1 /\ q[j] = <<"revoke", w>>
    BY <2>1, <1>4
  <2>3. j - 1 \in 1 .. Len(e) /\ j - 1 > i /\ e[j - 1] = <<"revoke", w>>
    BY <1>2, <2>1, <2>2
  <2> QED
    BY <2>3
<1>6. ASSUME w \in member'[r] PROVE <<"revoke", w>> \in Tokens!Range(e)
  <2>1. CASE Head(q) = <<"join", w>>
    <3>1. PICK j \in 1 .. Len(q) : j > 1 /\ q[j] = <<"revoke", w>>
      BY <1>2, <1>4, <2>1
    <3>2. j - 1 \in 1 .. Len(e) /\ e[j - 1] = <<"revoke", w>>
      BY <1>2, <3>1
    <3> QED
      BY <1>2, <3>2, InRange
  <2>2. CASE w \in member[r] /\ Head(q) # <<"revoke", w>>
    BY <1>2, <2>2 DEF Tokens!Swept, q
  <2> QED
    BY <1>6, <2>1, <2>2 DEF q
<1>7. box'[r] = e /\ worker'.t = w
  BY DEF q
<1> HIDE DEF e, w
<1>8. Tokens!Swept(r)'
  BY <1>3, <1>5, <1>6, <1>7 DEF Tokens!Swept
<1> QED
  BY <1>2, <1>7, <1>8 DEF q, w

LEMMA RoomActsKeeps ==
  ASSUME Tokens!Assumption, Tokens!RevocationInv, NEW r \in Rm, Tokens!RoomActs(r)
  PROVE  Tokens!RevocationInv'
<1> DEFINE q == box[r]
           t == Head(q)[2]
<1>1. /\ UNCHANGED <<up, disk, cache, admin, stream, lagged, worker, sema, join, waiting>>
      /\ q # <<>> /\ box' = [box EXCEPT ![r] = Tail(@)]
      /\ \/ Head(q)[1] = "join" /\ member' = [member EXCEPT ![r] = @ \cup {t}]
         \/ Head(q)[1] = "revoke" /\ member' = [member EXCEPT ![r] = @ \ {t}]
  BY DEF Tokens!RoomActs, Tokens!tokens, Tokens!channel
<1>2. /\ box \in [Rm -> Seq({"join", "revoke"} \X T)] /\ \A x \in Rm : Len(box[x]) <= Box
      /\ member \in [Rm -> SUBSET T] /\ Box \in Nat
  BY DEF Tokens!RevocationInv, Tokens!TypeOK, Tokens!Assumption
<1>3. /\ Head(q) \in {"join", "revoke"} \X T /\ Tail(q) \in Seq({"join", "revoke"} \X T)
      /\ Len(q) \in Nat /\ Len(Tail(q)) = Len(q) - 1
      /\ Tokens!Range(q) = {Head(q)} \cup Tokens!Range(Tail(q))
  BY <1>1, <1>2, AfterHead
<1>4. t \in T /\ (Head(q) = <<"join", t>> \/ Head(q) = <<"revoke", t>>)
  BY <1>3
<1>5. /\ box'[r] = Tail(q) /\ \A x \in Rm \ {r} : box'[x] = box[x] /\ member'[x] = member[x]
      /\ \/ Head(q) = <<"join", t>> /\ member'[r] = member[r] \cup {t}
         \/ Head(q) = <<"revoke", t>> /\ member'[r] = member[r] \ {t}
  BY <1>1, <1>2, <1>4
<1>6. Tokens!TypeOK'
  <2>1. box' \in [Rm -> Seq({"join", "revoke"} \X T)] /\ member' \in [Rm -> SUBSET T]
    BY <1>1, <1>2, <1>3, <1>4
  <2>2. \A x \in Rm : Len(box'[x]) <= Box
    BY SMTT(30), <1>2, <1>3, <1>5
  <2> QED
    BY <1>1, <2>1, <2>2 DEF Tokens!RevocationInv, Tokens!TypeOK
<1>7. Tokens!NamesInv' /\ Tokens!SemaphoreInv'
  BY <1>1 DEF Tokens!RevocationInv, Tokens!NamesInv, Tokens!SemaphoreInv, Tokens!Working
<1>8. Tokens!DeliveryInv'
  <2> SUFFICES ASSUME worker.pc \in {"rooms", "reply"}, NEW x \in Rm \ worker.left
               PROVE  /\ Tokens!Swept(x)'
                      /\ <<"revoke", worker.t>> \in Tokens!Range(box'[x]) =>
                           <<"revoke", worker.t>> \in Tokens!Range(box[x])
    BY <1>1 DEF Tokens!RevocationInv, Tokens!DeliveryInv
  <2>1. Tokens!Swept(x) /\ Tokens!TypeOK
    BY DEF Tokens!RevocationInv, Tokens!DeliveryInv
  <2>2. CASE x # r
    <3>1. box'[x] = box[x] /\ member'[x] = member[x] /\ worker' = worker
      BY <1>1, <1>5, <2>2
    <3> QED
      BY <2>1, <3>1 DEF Tokens!Swept
  <2>3. CASE x = r
    <3>1. worker.t \in member'[r] =>
            \/ Head(box[r]) = <<"join", worker.t>>
            \/ worker.t \in member[r] /\ Head(box[r]) # <<"revoke", worker.t>>
      BY <1>5
    <3> QED
      BY <1>1, <1>5, <2>1, <2>3, <3>1, SweptActs
  <2> QED
    BY <2>2, <2>3
<1>9. Tokens!RevokedInv'
  <2>1. ASSUME NEW x \in T, Tokens!Out(x), NEW y \in Rm
        PROVE  x \notin member'[y] /\ <<"join", x>> \notin Tokens!Range(box'[y])
    <3>1. x \notin member[y] /\ <<"join", x>> \notin Tokens!Range(box[y])
      BY <2>1 DEF Tokens!Out
    <3>2. CASE y = r
      <4>1. Head(q) # <<"join", x>> /\ <<"join", x>> \notin Tokens!Range(Tail(q))
        BY <1>3, <3>1, <3>2
      <4> QED
        BY <1>5, <3>1, <3>2, <4>1
    <3> QED
      BY <1>5, <3>1, <3>2
  <2> QED
    BY <1>1, <2>1, RevokedStays DEF Tokens!RevocationInv, Tokens!Owed, Tokens!Out
<1> QED
  BY <1>6, <1>7, <1>8, <1>9 DEF Tokens!RevocationInv

\* What a step of the worker leaves alone.
Aside == UNCHANGED <<up, disk, cache, admin, join, member>>

Worker == [pc : {"receive", "wait", "queue", "rooms", "reply", "retry"}, todo : SUBSET T,
           t : T \cup {"none"}, r : Rm \cup {"none"}, left : SUBSET Rm, ok : BOOLEAN]

\* The worker takes up a revocation, or the list of all when some were lost.
Takes ==
  /\ worker' \in Worker /\ stream' \in Seq(T) /\ Len(stream') <= Stream /\ lagged' \in BOOLEAN
  /\ worker'.pc \in {"receive", "wait"} /\ (worker'.pc = "wait" => worker'.t \in T)
  /\ \A x \in T : cache[x] = "revoked" /\ Tokens!Owed(x) => Tokens!Owed(x)'

LEMMA ReceiveTakes ==
  ASSUME Tokens!Assumption, Tokens!TypeOK, Tokens!Receive
  PROVE  Takes
<1>1. /\ worker \in Worker /\ stream \in Seq(T) /\ Len(stream) <= Stream /\ lagged \in BOOLEAN
      /\ worker.pc = "receive"
  BY DEF Tokens!TypeOK, Worker, Tokens!Receive
<1>2. ASSUME NEW t \in worker.todo,
             Tokens!Step("wait", worker.todo \ {t}, t, worker.r, worker.left, worker.ok),
             UNCHANGED <<stream, lagged>>
      PROVE  Takes
  <2>1. t \in T /\ worker.todo \subseteq T
    BY <1>1, <1>2 DEF Worker
  <2> QED
    BY <1>1, <1>2, <2>1 DEF Takes, Worker, Tokens!Step, Tokens!Owed
<1>3. CASE /\ worker.todo = {} /\ ~lagged /\ stream # <<>>
           /\ Tokens!Step("wait", {}, Head(stream), worker.r, worker.left, worker.ok)
           /\ stream' = Tail(stream) /\ UNCHANGED lagged
  <2>1. /\ Head(stream) \in T /\ Tail(stream) \in Seq(T) /\ Len(stream) \in Nat
        /\ Len(Tail(stream)) = Len(stream) - 1
        /\ Tokens!Range(stream) = {Head(stream)} \cup Tokens!Range(Tail(stream))
    BY <1>1, <1>3, AfterHead
  <2>2. worker' \in Worker /\ worker'.pc = "wait" /\ worker'.t = Head(stream)
    BY <1>1, <1>3, <2>1 DEF Worker, Tokens!Step
  <2>3. stream' \in Seq(T) /\ Len(stream') <= Stream
    BY <1>1, <1>3, <2>1 DEF Tokens!Assumption
  <2>4. \A x \in T : Tokens!Owed(x) => Tokens!Owed(x)'
    BY <1>1, <1>3, <2>1, <2>2 DEF Tokens!Owed
  <2> QED
    BY <1>1, <1>3, <2>1, <2>2, <2>3, <2>4 DEF Takes
<1>4. CASE /\ worker.todo = {} /\ lagged /\ UNCHANGED stream /\ lagged' = FALSE
           /\ Tokens!Step("receive", {t \in T : cache[t] = "revoked"}, worker.t, worker.r,
                          worker.left, worker.ok)
  <2>1. worker' \in Worker /\ worker'.pc = "receive" /\ worker'.todo = {t \in T : cache[t] = "revoked"}
    BY <1>1, <1>4 DEF Worker, Tokens!Step
  <2> QED
    BY <1>1, <1>4, <2>1 DEF Takes, Tokens!Owed
<1> QED
  BY <1>2, <1>3, <1>4 DEF Tokens!Receive, Tokens!channel

LEMMA ReceiveKeeps ==
  ASSUME Tokens!Assumption, Tokens!RevocationInv, Tokens!Receive
  PROVE  Tokens!RevocationInv'
<1>1. Aside /\ UNCHANGED <<sema, box, waiting>> /\ worker.pc = "receive"
  BY DEF Tokens!Receive, Tokens!tokens, Tokens!agents, Aside
<1>2. Takes
  BY ReceiveTakes DEF Tokens!RevocationInv
<1>3. Tokens!TypeOK'
  BY <1>1, <1>2 DEF Tokens!RevocationInv, Tokens!TypeOK, Takes, Worker, Aside
<1>4. Tokens!NamesInv' /\ Tokens!SemaphoreInv' /\ Tokens!DeliveryInv'
  BY <1>1, <1>2 DEF Tokens!RevocationInv, Tokens!NamesInv, Tokens!SemaphoreInv,
     Tokens!DeliveryInv, Tokens!Working, Takes, Aside
<1>5. Tokens!RevokedInv'
  BY <1>1, <1>2, RevokedStays DEF Tokens!RevocationInv, Tokens!Out, Takes, Aside
<1> QED
  BY <1>3, <1>4, <1>5 DEF Tokens!RevocationInv

LEMMA TakeSemaphoreKeeps ==
  ASSUME Tokens!Assumption, Tokens!RevocationInv, Tokens!TakeSemaphore
  PROVE  Tokens!RevocationInv'
<1>1. /\ Aside /\ UNCHANGED <<stream, lagged, box, waiting>> /\ worker.pc = "wait"
      /\ sema = "none" /\ sema' = "worker"
      /\ Tokens!Step("queue", worker.todo, worker.t, worker.r, worker.left, TRUE)
  BY DEF Tokens!TakeSemaphore, Tokens!tokens, Tokens!channel, Tokens!agents, Aside
<1>2. worker \in Worker
  BY DEF Tokens!RevocationInv, Tokens!TypeOK, Worker
<1>3. /\ worker' \in Worker /\ worker'.pc = "queue" /\ worker'.t = worker.t
      /\ worker'.todo = worker.todo
  BY <1>1, <1>2 DEF Tokens!Step, Worker
<1>4. Tokens!TypeOK'
  BY <1>1, <1>3 DEF Tokens!RevocationInv, Tokens!TypeOK, Worker, Aside
<1>5. Tokens!NamesInv' /\ Tokens!SemaphoreInv' /\ Tokens!DeliveryInv'
  BY <1>1, <1>3 DEF Tokens!RevocationInv, Tokens!NamesInv, Tokens!SemaphoreInv,
     Tokens!DeliveryInv, Tokens!Working, Tokens!Assumption, Aside
<1>6. Tokens!RevokedInv'
  BY <1>1, <1>3, RevokedStays DEF Tokens!RevocationInv, Tokens!Out, Tokens!Owed, Aside
<1> QED
  BY <1>4, <1>5, <1>6 DEF Tokens!RevocationInv

LEMMA RevokeQueueKeeps ==
  ASSUME Tokens!RevocationInv, Tokens!RevokeQueue
  PROVE  Tokens!RevocationInv'
<1>1. /\ Aside /\ UNCHANGED <<stream, lagged, box, sema>> /\ worker.pc = "queue"
      /\ waiting' \subseteq waiting
  BY DEF Tokens!RevokeQueue, Tokens!tokens, Tokens!channel, Tokens!agents, Aside
<1>2. \/ /\ waiting' = waiting \ {worker.t}
         /\ Tokens!Step("rooms", worker.todo, worker.t, worker.r, Rm, TRUE)
      \/ Tokens!Step("rooms", worker.todo, worker.t, worker.r, Rm, FALSE)
  BY DEF Tokens!RevokeQueue
<1>3. worker \in Worker /\ waiting \subseteq T
  BY DEF Tokens!RevocationInv, Tokens!TypeOK, Worker
<1>4. /\ worker' \in Worker /\ worker'.pc = "rooms" /\ worker'.t = worker.t
      /\ worker'.todo = worker.todo /\ worker'.left = Rm
      /\ worker'.ok => worker'.t \notin waiting'
  <2>1. CASE Tokens!Step("rooms", worker.todo, worker.t, worker.r, Rm, FALSE)
    BY <1>3, <2>1 DEF Tokens!Step, Worker
  <2>2. CASE /\ waiting' = waiting \ {worker.t}
             /\ Tokens!Step("rooms", worker.todo, worker.t, worker.r, Rm, TRUE)
    BY <1>3, <2>2 DEF Tokens!Step, Worker
  <2> QED
    BY <1>2, <2>1, <2>2
<1>5. Tokens!TypeOK'
  BY <1>1, <1>3, <1>4 DEF Tokens!RevocationInv, Tokens!TypeOK, Worker, Aside
<1>6. Tokens!NamesInv' /\ Tokens!SemaphoreInv' /\ Tokens!DeliveryInv'
  BY <1>1, <1>4 DEF Tokens!RevocationInv, Tokens!NamesInv, Tokens!SemaphoreInv,
     Tokens!DeliveryInv, Tokens!Working, Aside
<1>7. Tokens!RevokedInv'
  BY <1>1, <1>4, RevokedStays DEF Tokens!RevocationInv, Tokens!Out, Tokens!Owed, Aside
<1> QED
  BY <1>5, <1>6, <1>7 DEF Tokens!RevocationInv

\* The revocation is the last command of the Room's queue.
LEMMA ToldIsSwept ==
  ASSUME Tokens!Assumption, Tokens!TypeOK, NEW r \in Rm, worker.t \in T, Len(box[r]) < Box,
         box' = [box EXCEPT ![r] = Append(@, <<"revoke", worker.t>>)], worker'.t = worker.t
  PROVE  Tokens!Swept(r)'
<1> DEFINE w == worker.t
           n == Len(box[r]) + 1
<1>1. <<"revoke", w>> \in {"join", "revoke"} \X T
  OBVIOUS
<1>2. /\ box' \in [Rm -> Seq({"join", "revoke"} \X T)]
      /\ Len(box[r]) \in Nat /\ Len(box'[r]) = n /\ box'[r][n] = <<"revoke", w>>
      /\ <<"revoke", w>> \in Tokens!Range(box'[r])
  <2>1. /\ box' \in [Rm -> Seq({"join", "revoke"} \X T)]
        /\ Len(box[r]) \in Nat /\ Len(box'[r]) = Len(box[r]) + 1
        /\ box'[r][Len(box[r]) + 1] = <<"revoke", w>>
        /\ Tokens!Range(box'[r]) = Tokens!Range(box[r]) \cup {<<"revoke", w>>}
    BY <1>1, BoxTakes
  <2> QED
    BY <2>1
<1>3. DOMAIN box'[r] = 1 .. n
  BY <1>2
<1>4. ASSUME NEW i \in 1 .. n, box'[r][i] = <<"join", w>>
      PROVE  \E j \in 1 .. n : j > i /\ box'[r][j] = <<"revoke", w>>
  <2>1. i # n
    BY <1>2, <1>4
  <2> QED
    BY <1>2, <2>1
<1> QED
  BY <1>2, <1>3, <1>4 DEF Tokens!Swept

LEMMA RevokeRoomKeeps ==
  ASSUME Tokens!Assumption, Tokens!RevocationInv, NEW r \in Rm, Tokens!RevokeRoom(r)
  PROVE  Tokens!RevocationInv'
<1> DEFINE w == worker.t
<1>1. /\ Aside /\ UNCHANGED <<stream, lagged, sema, waiting>> /\ worker.pc = "rooms"
      /\ Len(box[r]) < Box /\ box' = [box EXCEPT ![r] = Append(@, <<"revoke", w>>)]
      /\ Tokens!Step("reply", worker.todo, w, r, worker.left \ {r}, worker.ok)
  BY DEF Tokens!RevokeRoom, Tokens!tokens, Tokens!channel, Aside
<1>2. worker \in Worker /\ w \in T /\ Tokens!TypeOK
  BY <1>1 DEF Tokens!RevocationInv, Tokens!NamesInv, Tokens!TypeOK, Worker
<1>3. /\ worker' \in Worker /\ worker'.pc = "reply" /\ worker'.t = w /\ worker'.r = r
      /\ worker'.todo = worker.todo /\ worker'.left = worker.left \ {r} /\ worker'.ok = worker.ok
  BY <1>1, <1>2 DEF Tokens!Step, Worker
<1>4. <<"revoke", w>> \in {"join", "revoke"} \X T
  BY <1>2
<1>5. /\ box' \in [Rm -> Seq({"join", "revoke"} \X T)] /\ \A x \in Rm : Len(box'[x]) <= Box
      /\ \A x \in Rm \ {r} : box'[x] = box[x]
      /\ Tokens!Range(box'[r]) = Tokens!Range(box[r]) \cup {<<"revoke", w>>}
  BY <1>1, <1>2, <1>4, BoxTakes
<1>6. Tokens!TypeOK'
  BY <1>1, <1>3, <1>5 DEF Tokens!RevocationInv, Tokens!TypeOK, Worker, Aside
<1>7. Tokens!NamesInv' /\ Tokens!SemaphoreInv'
  BY <1>1, <1>2, <1>3 DEF Tokens!RevocationInv, Tokens!NamesInv, Tokens!SemaphoreInv,
     Tokens!Working, Aside
<1>8. Tokens!DeliveryInv'
  <2>1. ASSUME NEW x \in Rm \ worker'.left
        PROVE  Tokens!Swept(x)' /\ (<<"revoke", w>> \in Tokens!Range(box'[x]) => x = r)
    <3>1. CASE x = r
      BY <1>1, <1>2, <1>3, <3>1, ToldIsSwept
    <3>2. CASE x # r
      <4>1. Tokens!Swept(x) /\ <<"revoke", w>> \notin Tokens!Range(box[x])
        BY <1>1, <1>3, <2>1, <3>2 DEF Tokens!RevocationInv, Tokens!DeliveryInv
      <4>2. box'[x] = box[x] /\ member' = member /\ worker'.t = worker.t
        BY <1>1, <1>3, <1>5, <3>2 DEF Aside
      <4> QED
        BY <4>1, <4>2 DEF Tokens!Swept
    <3> QED
      BY <3>1, <3>2
  <2>2. worker'.ok => w \notin waiting'
    BY <1>1, <1>3 DEF Tokens!RevocationInv, Tokens!DeliveryInv
  <2> QED
    BY <1>3, <2>1, <2>2 DEF Tokens!DeliveryInv
<1>9. Tokens!RevokedInv'
  <2>1. ASSUME NEW x \in T, Tokens!Out(x), NEW y \in Rm
        PROVE  <<"join", x>> \notin Tokens!Range(box'[y])
    <3>1. <<"join", x>> \notin Tokens!Range(box[y]) /\ <<"join", x>> # <<"revoke", w>>
      BY <2>1 DEF Tokens!Out
    <3> QED
      BY <1>5, <3>1
  <2> QED
    BY <1>1, <1>3, <2>1, RevokedStays DEF Tokens!RevocationInv, Tokens!Owed, Tokens!Out, Aside
<1> QED
  BY <1>6, <1>7, <1>8, <1>9 DEF Tokens!RevocationInv

LEMMA RoomAnswersKeeps ==
  ASSUME Tokens!RevocationInv, Tokens!RoomAnswers
  PROVE  Tokens!RevocationInv'
<1>1. /\ Aside /\ UNCHANGED <<stream, lagged, sema, waiting, box>> /\ worker.pc = "reply"
      /\ <<"revoke", worker.t>> \notin Tokens!Range(box[worker.r])
      /\ Tokens!Step("rooms", worker.todo, worker.t, "none", worker.left, worker.ok)
  BY DEF Tokens!RoomAnswers, Tokens!tokens, Tokens!channel, Tokens!agents, Aside
<1>2. worker \in Worker
  BY DEF Tokens!RevocationInv, Tokens!TypeOK, Worker
<1>3. /\ worker' \in Worker /\ worker'.pc = "rooms" /\ worker'.t = worker.t
      /\ worker'.todo = worker.todo /\ worker'.left = worker.left /\ worker'.ok = worker.ok
  BY <1>1, <1>2 DEF Tokens!Step, Worker
<1>4. Tokens!TypeOK'
  BY <1>1, <1>3 DEF Tokens!RevocationInv, Tokens!TypeOK, Worker, Aside
<1>5. Tokens!NamesInv' /\ Tokens!SemaphoreInv'
  BY <1>1, <1>3 DEF Tokens!RevocationInv, Tokens!NamesInv, Tokens!SemaphoreInv,
     Tokens!Working, Aside
<1>6. Tokens!DeliveryInv'
  <2>1. ASSUME NEW x \in Rm \ worker.left
        PROVE  Tokens!Swept(x)' /\ <<"revoke", worker.t>> \notin Tokens!Range(box[x])
    <3>1. Tokens!Swept(x) /\ <<"revoke", worker.t>> \notin Tokens!Range(box[x])
      BY <1>1 DEF Tokens!RevocationInv, Tokens!DeliveryInv
    <3> QED
      BY <1>1, <1>3, <3>1 DEF Tokens!Swept, Aside
  <2>2. worker'.ok => worker.t \notin waiting'
    BY <1>1, <1>3 DEF Tokens!RevocationInv, Tokens!DeliveryInv
  <2> QED
    BY <1>1, <1>3, <2>1, <2>2 DEF Tokens!DeliveryInv
<1>7. Tokens!RevokedInv'
  BY <1>1, <1>3, RevokedStays DEF Tokens!RevocationInv, Tokens!Out, Tokens!Owed, Aside
<1> QED
  BY <1>4, <1>5, <1>6, <1>7 DEF Tokens!RevocationInv

\* When every Room has answered, and the queue and the sockets before, nothing of the
\* token is left.
LEMMA DeliveredIsOut ==
  ASSUME Tokens!Assumption, Tokens!RevocationInv,
         worker.pc = "rooms", worker.left = {}, worker.ok
  PROVE  Tokens!Out(worker.t) /\ \A x \in T : join[x].pc \notin {"send", "reply"}
<1> DEFINE w == worker.t
<1>1. w \notin waiting
  BY DEF Tokens!RevocationInv, Tokens!DeliveryInv
<1>2. ASSUME NEW x \in Rm
      PROVE  w \notin member[x] /\ <<"join", w>> \notin Tokens!Range(box[x])
  <2>1. Tokens!Swept(x) /\ <<"revoke", w>> \notin Tokens!Range(box[x])
    BY DEF Tokens!RevocationInv, Tokens!DeliveryInv
  <2> QED
    BY <2>1 DEF Tokens!Swept, Tokens!Range
<1>3. sema = "worker"
  BY DEF Tokens!RevocationInv, Tokens!SemaphoreInv, Tokens!Working
<1>4. \A x \in T : join[x].pc \notin {"send", "reply"}
  BY <1>3 DEF Tokens!RevocationInv, Tokens!SemaphoreInv, Tokens!Assumption
<1> QED
  BY <1>1, <1>2, <1>4 DEF Tokens!Out

LEMMA EndDeliveryKeeps ==
  ASSUME Tokens!Assumption, Tokens!RevocationInv, Tokens!EndDelivery
  PROVE  Tokens!RevocationInv'
<1>1. /\ Aside /\ UNCHANGED <<stream, lagged, waiting, box>> /\ worker.pc \in {"rooms", "reply"}
      /\ sema' = "none"
  BY DEF Tokens!EndDelivery, Tokens!tokens, Tokens!channel, Tokens!agents, Aside
<1>2. worker \in Worker /\ worker.t \in T
  BY <1>1 DEF Tokens!RevocationInv, Tokens!TypeOK, Tokens!NamesInv, Worker
<1>3. sema = "worker" /\ "none" \notin T
  BY <1>1 DEF Tokens!RevocationInv, Tokens!SemaphoreInv, Tokens!Working, Tokens!Assumption
<1>4. \A x \in T : join[x].pc \notin {"send", "reply"}
  BY <1>3 DEF Tokens!RevocationInv, Tokens!SemaphoreInv, Tokens!Assumption
<1>5. /\ worker' \in Worker /\ worker'.pc \in {"receive", "retry"} /\ worker'.todo = worker.todo
      /\ worker'.pc = "retry" => worker'.t = worker.t
      /\ worker'.pc = "receive" => worker.pc = "rooms" /\ worker.left = {} /\ worker.ok
  <2>1. CASE /\ worker.pc = "rooms" /\ worker.left = {} /\ worker.ok
             /\ Tokens!Step("receive", worker.todo, "none", "none", {}, TRUE)
    <3>1. worker' \in Worker /\ worker'.pc = "receive" /\ worker'.todo = worker.todo
      BY <1>2, <2>1 DEF Tokens!Step, Worker
    <3> QED
      BY <2>1, <3>1
  <2>2. CASE Tokens!Step("retry", worker.todo, worker.t, "none", {}, worker.ok)
    BY <1>2, <2>2 DEF Tokens!Step, Worker
  <2> QED
    BY <2>1, <2>2 DEF Tokens!EndDelivery
<1>6. Tokens!TypeOK'
  BY <1>1, <1>5 DEF Tokens!RevocationInv, Tokens!TypeOK, Worker, Aside
<1>7. Tokens!NamesInv' /\ Tokens!SemaphoreInv' /\ Tokens!DeliveryInv'
  BY <1>1, <1>2, <1>3, <1>4, <1>5 DEF Tokens!RevocationInv, Tokens!NamesInv,
     Tokens!SemaphoreInv, Tokens!DeliveryInv, Tokens!Working, Aside
<1>8. Tokens!RevokedInv'
  <2> SUFFICES ASSUME NEW x \in T, up', cache'[x] = "revoked", ~Tokens!Owed(x)'
               PROVE  Tokens!Out(x)' /\ join'[x].pc \notin {"send", "reply"}
    BY DEF Tokens!RevokedInv
  <2>1. Tokens!Out(x)
    <3>1. CASE ~Tokens!Owed(x)
      BY <1>1, <3>1 DEF Tokens!RevocationInv, Tokens!RevokedInv, Aside
    <3>2. CASE Tokens!Owed(x)
      <4>1. worker.t = x /\ worker'.pc = "receive"
        BY <1>1, <1>5, <3>2 DEF Tokens!Owed
      <4> QED
        BY <1>5, <4>1, DeliveredIsOut
    <3> QED
      BY <3>1, <3>2
  <2> QED
    BY <1>1, <1>4, <2>1 DEF Tokens!Out, Aside
<1> QED
  BY <1>6, <1>7, <1>8 DEF Tokens!RevocationInv

LEMMA RetryKeeps ==
  ASSUME Tokens!RevocationInv, Tokens!Retry
  PROVE  Tokens!RevocationInv'
<1>1. /\ Aside /\ UNCHANGED <<stream, lagged, waiting, box, sema>> /\ worker.pc = "retry"
      /\ Tokens!Step("wait", worker.todo, worker.t, worker.r, worker.left, worker.ok)
  BY DEF Tokens!Retry, Tokens!tokens, Tokens!channel, Tokens!agents, Aside
<1>2. worker \in Worker
  BY DEF Tokens!RevocationInv, Tokens!TypeOK, Worker
<1>3. /\ worker' \in Worker /\ worker'.pc = "wait" /\ worker'.t = worker.t
      /\ worker'.todo = worker.todo
  BY <1>1, <1>2 DEF Tokens!Step, Worker
<1>4. Tokens!TypeOK'
  BY <1>1, <1>3 DEF Tokens!RevocationInv, Tokens!TypeOK, Worker, Aside
<1>5. Tokens!NamesInv' /\ Tokens!SemaphoreInv' /\ Tokens!DeliveryInv'
  BY <1>1, <1>3 DEF Tokens!RevocationInv, Tokens!NamesInv, Tokens!SemaphoreInv,
     Tokens!DeliveryInv, Tokens!Working, Aside
<1>6. Tokens!RevokedInv'
  BY <1>1, <1>3, RevokedStays DEF Tokens!RevocationInv, Tokens!Out, Tokens!Owed, Aside
<1> QED
  BY <1>4, <1>5, <1>6 DEF Tokens!RevocationInv

LEMMA CrashKeeps ==
  ASSUME Tokens!Assumption, Tokens!RevocationInv, Tokens!Crash
  PROVE  Tokens!RevocationInv'
<1>1. Tokens!Receiving \in Worker
  BY DEF Tokens!Receiving, Worker
<1>2. /\ join' \in [T -> [pc : {"idle", "wait", "send", "reply"}, r : Rm]]
      /\ \A t \in T : join'[t].pc = "idle"
  <2>1. join \in [T -> [pc : {"idle", "wait", "send", "reply"}, r : Rm]]
    BY DEF Tokens!RevocationInv, Tokens!TypeOK
  <2> QED
    BY <2>1 DEF Tokens!Crash
<1>3. box' \in [Rm -> Seq({"join", "revoke"} \X T)] /\ \A r \in Rm : Len(box'[r]) <= Box
  BY DEF Tokens!Crash, Tokens!Assumption
<1>4. /\ ~up' /\ up' \in BOOLEAN /\ UNCHANGED <<disk, cache>> /\ admin' = Tokens!Idle
      /\ stream' = <<>> /\ lagged' \in BOOLEAN /\ worker' = Tokens!Receiving /\ sema' = "none"
      /\ member' \in [Rm -> SUBSET T] /\ waiting' = {}
  BY DEF Tokens!Crash
<1>5. stream' \in Seq(T) /\ Len(stream') <= Stream
  BY <1>4 DEF Tokens!Assumption
<1>6. Tokens!TypeOK'
  BY <1>1, <1>2, <1>3, <1>4, <1>5 DEF Tokens!RevocationInv, Tokens!TypeOK, Worker, Tokens!Idle
<1>7. Tokens!NamesInv' /\ Tokens!SemaphoreInv' /\ Tokens!DeliveryInv' /\ Tokens!RevokedInv'
  BY <1>2, <1>4 DEF Tokens!NamesInv, Tokens!SemaphoreInv, Tokens!DeliveryInv, Tokens!RevokedInv,
     Tokens!Working, Tokens!Idle, Tokens!Receiving, Tokens!Assumption
<1> QED
  BY <1>6, <1>7 DEF Tokens!RevocationInv

LEMMA RestartKeeps ==
  ASSUME Tokens!RevocationInv, Tokens!DownInv, Tokens!Restart
  PROVE  Tokens!RevocationInv'
<1>1. /\ ~up /\ up' = TRUE /\ cache' = disk
      /\ UNCHANGED <<disk, admin, stream, lagged, sema, join, box, member, waiting>>
      /\ Tokens!Step("receive", {t \in T : disk[t] = "revoked"}, "none", "none", {}, TRUE)
  BY DEF Tokens!Restart, Tokens!channel, Tokens!agents
<1>2. /\ worker' \in Worker /\ worker'.pc = "receive"
      /\ worker'.todo = {t \in T : disk[t] = "revoked"}
  BY <1>1 DEF Tokens!Step, Worker
<1>3. Tokens!TypeOK'
  BY <1>1, <1>2 DEF Tokens!RevocationInv, Tokens!TypeOK, Worker
<1>4. Tokens!NamesInv' /\ Tokens!SemaphoreInv' /\ Tokens!DeliveryInv'
  BY <1>1, <1>2 DEF Tokens!RevocationInv, Tokens!NamesInv, Tokens!SemaphoreInv,
     Tokens!DeliveryInv, Tokens!DownInv, Tokens!Working
<1>5. Tokens!RevokedInv'
  BY <1>1, <1>2 DEF Tokens!RevokedInv, Tokens!Owed
<1> QED
  BY <1>3, <1>4, <1>5 DEF Tokens!RevocationInv

\* Only a process that runs takes a step, apart from its start.
LEMMA DownStays ==
  ASSUME Tokens!DownInv, [Tokens!Next]_(Tokens!vars)
  PROVE  Tokens!DownInv'
<1>1. ASSUME Tokens!Next PROVE Tokens!Crash \/ Tokens!Restart \/ (up /\ up' = up)
  <2>1. ASSUME NEW t \in T,
               \/ \E op \in {"create", "revoke"} : Tokens!Ask(op, t)
               \/ \E r \in Rm : Tokens!AskJoin(t, r)
               \/ Tokens!LockJoin(t) \/ Tokens!SendJoin(t) \/ Tokens!EndJoin(t) \/ Tokens!Wait(t)
        PROVE  up /\ up' = up
    BY <2>1 DEF Tokens!Ask, Tokens!AskJoin, Tokens!LockJoin, Tokens!SendJoin, Tokens!EndJoin,
       Tokens!Wait
  <2>2. ASSUME NEW r \in Rm, Tokens!RoomActs(r) \/ Tokens!RevokeRoom(r) PROVE up /\ up' = up
    BY <2>2 DEF Tokens!RoomActs, Tokens!RevokeRoom
  <2>3. CASE Tokens!Commit \/ Tokens!Cache \/ Tokens!DropAdmin
    BY <2>3 DEF Tokens!Commit, Tokens!Cache, Tokens!DropAdmin
  <2>4. CASE \/ Tokens!Receive \/ Tokens!TakeSemaphore \/ Tokens!RevokeQueue
             \/ Tokens!RoomAnswers \/ Tokens!EndDelivery \/ Tokens!Retry
    BY <2>4 DEF Tokens!Receive, Tokens!TakeSemaphore, Tokens!RevokeQueue, Tokens!RoomAnswers,
       Tokens!EndDelivery, Tokens!Retry
  <2> QED
    BY <1>1, <2>1, <2>2, <2>3, <2>4 DEF Tokens!Next
<1>2. CASE Tokens!Crash
  BY <1>2 DEF Tokens!Crash, Tokens!DownInv, Tokens!Working, Tokens!Receiving
<1>3. CASE Tokens!Restart
  BY <1>3 DEF Tokens!Restart, Tokens!DownInv
<1>4. CASE up /\ up' = up
  BY <1>4 DEF Tokens!DownInv
<1>5. CASE UNCHANGED Tokens!vars
  BY <1>5 DEF Tokens!vars, Tokens!DownInv, Tokens!Working
<1> QED
  BY <1>1, <1>2, <1>3, <1>4, <1>5

LEMMA RevocationStep ==
  ASSUME Tokens!Assumption, Tokens!RevocationInv, Tokens!DownInv, [Tokens!Next]_(Tokens!vars)
  PROVE  Tokens!RevocationInv'
<1>1. ASSUME NEW t \in T, NEW op \in {"create", "revoke"}, Tokens!Ask(op, t)
      PROVE  Tokens!RevocationInv'
  BY <1>1, AdminKeeps
<1>2. CASE Tokens!Commit \/ Tokens!Cache \/ Tokens!DropAdmin
  BY <1>2, AdminKeeps, CacheKeeps
<1>3. ASSUME NEW t \in T, NEW r \in Rm, Tokens!AskJoin(t, r) PROVE Tokens!RevocationInv'
  BY <1>3, AskJoinKeeps
<1>4. ASSUME NEW t \in T,
             Tokens!LockJoin(t) \/ Tokens!SendJoin(t) \/ Tokens!EndJoin(t) \/ Tokens!Wait(t)
      PROVE  Tokens!RevocationInv'
  BY <1>4, LockJoinKeeps, SendJoinKeeps, EndJoinKeeps, WaitKeeps
<1>5. ASSUME NEW r \in Rm, Tokens!RoomActs(r) \/ Tokens!RevokeRoom(r)
      PROVE  Tokens!RevocationInv'
  BY <1>5, RoomActsKeeps, RevokeRoomKeeps
<1>6. CASE Tokens!Receive \/ Tokens!TakeSemaphore \/ Tokens!RevokeQueue
  BY <1>6, ReceiveKeeps, TakeSemaphoreKeeps, RevokeQueueKeeps
<1>7. CASE Tokens!RoomAnswers \/ Tokens!EndDelivery \/ Tokens!Retry
  BY <1>7, RoomAnswersKeeps, EndDeliveryKeeps, RetryKeeps
<1>8. CASE Tokens!Crash \/ Tokens!Restart
  BY <1>8, CrashKeeps, RestartKeeps
<1>9. CASE UNCHANGED Tokens!vars
  <2>1. /\ UNCHANGED <<up, disk, cache, admin, stream, lagged, worker>>
        /\ UNCHANGED <<sema, join, box, member, waiting>>
    BY <1>9 DEF Tokens!vars
  <2>2. Tokens!TypeOK' /\ Tokens!NamesInv' /\ Tokens!SemaphoreInv'
    BY <2>1 DEF Tokens!RevocationInv, Tokens!TypeOK, Tokens!NamesInv, Tokens!SemaphoreInv,
       Tokens!Working
  <2>3. Tokens!DeliveryInv'
    BY <2>1 DEF Tokens!RevocationInv, Tokens!DeliveryInv, Tokens!Swept
  <2>4. Tokens!RevokedInv'
    BY <2>1 DEF Tokens!RevocationInv, Tokens!RevokedInv, Tokens!Owed, Tokens!Out
  <2> QED
    BY <2>2, <2>3, <2>4 DEF Tokens!RevocationInv
<1> QED
  BY <1>1, <1>2, <1>3, <1>4, <1>5, <1>6, <1>7, <1>8, <1>9 DEF Tokens!Next

LEMMA RevocationInit ==
  ASSUME Tokens!Assumption, Tokens!Init
  PROVE  Tokens!RevocationInv /\ Tokens!DownInv
<1>1. (CHOOSE r \in Rm : TRUE) \in Rm
  BY DEF Tokens!Assumption
<1>2. join \in [T -> [pc : {"idle", "wait", "send", "reply"}, r : Rm]] /\ \A t \in T : join[t].pc = "idle"
  BY <1>1 DEF Tokens!Init
<1>3. box \in [Rm -> Seq({"join", "revoke"} \X T)] /\ \A r \in Rm : Len(box[r]) <= Box
  BY DEF Tokens!Init, Tokens!Assumption
<1>4. stream \in Seq(T) /\ Len(stream) <= Stream
  BY DEF Tokens!Init, Tokens!Assumption
<1>5. Tokens!TypeOK
  BY <1>2, <1>3, <1>4 DEF Tokens!Init, Tokens!TypeOK, Tokens!States, Tokens!Idle, Tokens!Receiving
<1>6. Tokens!NamesInv /\ Tokens!SemaphoreInv /\ Tokens!DeliveryInv /\ Tokens!DownInv
  BY <1>2 DEF Tokens!Init, Tokens!NamesInv, Tokens!SemaphoreInv, Tokens!DeliveryInv,
     Tokens!DownInv, Tokens!Working, Tokens!Idle, Tokens!Receiving, Tokens!Assumption
<1>7. Tokens!RevokedInv
  BY DEF Tokens!Init, Tokens!RevokedInv
<1> QED
  BY <1>5, <1>6, <1>7 DEF Tokens!RevocationInv

\* For any number of tokens and Rooms, and however short the channel and the queues: once
\* the worker is done with a revocation, no agent of the token plays, waits or is on its
\* way into a Room (compat.rs deliver_revocation, agent_join; auth.rs
\* BotTokenAuthority::revoke).
THEOREM RevokedTokensAreOut ==
  ASSUME Tokens!Assumption
  PROVE  Tokens!Spec => []Tokens!ExpelledAreOut
<1>1. Tokens!RevocationInv => Tokens!ExpelledAreOut
  BY DEF Tokens!RevocationInv, Tokens!RevokedInv, Tokens!ExpelledAreOut
<1> QED
  BY <1>1, RevocationInit, RevocationStep, DownStays, PTL DEF Tokens!Spec

-----------------------------------------------------------------------------
(* The socket of a Mjai Bot in a Room *)

CONSTANTS Matches, Decisions, Notes, LongTime

VARIABLES place, notes, on, agent, old, action, asked, taken

Bots == INSTANCE RoomAgent WITH room <- place, Box <- Notes

\* The Room moves on: to a later Decision, or it stays at one that is not opened
\* again and gets no more time.
Forward ==
  /\ place' \in Bots!Rooms
  /\ place'.st \in {"playing", "held", "post"} => place'.match # 0
  /\ \/ place'.match > place.match
     \/ place'.match = place.match /\ place'.id > place.id
     \/ /\ place'.match = place.match /\ place'.id = place.id
        /\ Bots!Chooses' => Bots!Chooses
        /\ Bots!Chooses' /\ place'.time => place.time

LEMMA PassedStays ==
  ASSUME place \in Bots!Rooms, Forward, NEW p \in Nat \X Nat
  PROVE  /\ Bots!Before(p) => Bots!Before(p)'
         /\ p = Bots!Place => Bots!Before(p)' \/ p = Bots!Place'
         /\ Bots!Passed(p) => Bots!Passed(p)'
         /\ p = Bots!Place /\ ~place.time =>
              Bots!Passed(p)' \/ (p = Bots!Place' /\ ~place'.time)
<1>1. /\ place.match \in Nat /\ place.id \in Nat /\ place'.match \in Nat /\ place'.id \in Nat
      /\ p[1] \in Nat /\ p[2] \in Nat /\ p = <<p[1], p[2]>>
  BY DEF Forward, Bots!Rooms
<1>2. Bots!Before(p) => Bots!Before(p)'
  BY <1>1 DEF Forward, Bots!Before
<1>3. p = Bots!Place => Bots!Before(p)' \/ p = Bots!Place'
  BY <1>1 DEF Forward, Bots!Before, Bots!Place
<1>4. p = Bots!Place /\ ~Bots!Chooses => Bots!Passed(p)'
  BY <1>1 DEF Forward, Bots!Before, Bots!Place, Bots!Passed
<1>5. p = Bots!Place /\ ~place.time =>
        Bots!Passed(p)' \/ (p = Bots!Place' /\ ~place'.time)
  BY <1>1 DEF Forward, Bots!Before, Bots!Place, Bots!Passed
<1> QED
  BY <1>2, <1>3, <1>4, <1>5 DEF Bots!Passed

\* What may follow the open Decision.
LEMMA ResolutionFacts ==
  ASSUME Bots!TypeOK, place.st = "playing", NEW r \in Bots!Resolutions(place), place' = r
  PROVE  Forward
<1>1. place \in Bots!Rooms /\ place.match # 0
  BY DEF Bots!TypeOK
<1>2. CASE r = Bots!At("held", place.match, place.log + 1, place.id, FALSE)
  <2>1. /\ r \in Bots!Rooms /\ r.st = "held" /\ r.match = place.match /\ r.id = place.id
    BY <1>1, <1>2 DEF Bots!Rooms, Bots!At
  <2> QED
    BY <1>1, <2>1 DEF Forward, Bots!Chooses
<1>3. ASSUME NEW asks \in BOOLEAN, r = Bots!At("playing", place.match, place.log + 1, place.id + 1, asks)
      PROVE  Forward
  <2>1. /\ r \in Bots!Rooms /\ r.match = place.match /\ r.id = place.id + 1
    BY <1>1, <1>3 DEF Bots!Rooms, Bots!At
  <2> QED
    BY <1>1, <2>1 DEF Forward, Bots!Rooms
<1> QED
  BY <1>2, <1>3 DEF Bots!Resolutions

Kept == UNCHANGED <<agent, old, action, asked, taken>>

LEMMA AskedPlaces ==
  ASSUME Bots!TypeOK, Bots!TrackerInv
  PROVE  /\ \A i \in 1 .. Len(asked) : asked[i] \in Nat \X Nat
         /\ \A i \in old : asked[i] \in Nat \X Nat
         /\ \A t \in taken : t[1] \in 1 .. Len(asked) /\ t[2] \in Nat \X Nat
<1>1. \A i \in 1 .. Len(asked) : asked[i] \in Nat \X (Nat \ {0})
  BY DEF Bots!TypeOK
<1>2. \A i \in 1 .. Len(asked) : asked[i] \in Nat \X Nat
  BY <1>1
<1>3. \A i \in old : i \in 1 .. Len(asked)
  BY DEF Bots!TypeOK, Bots!TrackerInv
<1>4. \A t \in taken : t[1] \in 1 .. Len(asked) /\ t[2] \in Nat \X Nat
  BY DEF Bots!TypeOK
<1> QED
  BY <1>2, <1>3, <1>4

\* What the socket remembers stays true when only the Room moves.
LEMMA RoomMoves ==
  ASSUME Bots!AgentInv, Forward, Kept
  PROVE  Bots!TrackerInv' /\ Bots!TakenInv' /\ Bots!OldInv'
<1> USE DEF Bots!AgentInv, Kept
<1>1. place \in Bots!Rooms /\ agent.match \in Nat /\ agent.decision \in Nat
  BY DEF Bots!TypeOK, Bots!Agents
<1>2. Bots!TrackerInv'
  <2>1. agent.decision # Bots!None =>
          /\ Bots!Before(<<agent.match, agent.decision>>)' \/
               <<agent.match, agent.decision>> = Bots!Place'
          /\ agent.request = Bots!None => Bots!Passed(<<agent.match, agent.decision>>)'
    <3> DEFINE p == <<agent.match, agent.decision>>
    <3>1. p \in Nat \X Nat /\ p' = p
      BY <1>1
    <3>2. agent.decision # Bots!None =>
            /\ Bots!Before(p) \/ p = Bots!Place
            /\ agent.request = Bots!None => Bots!Passed(p)
      BY DEF Bots!TrackerInv
    <3>3. \A q \in Nat \X Nat :
            /\ Bots!Before(q) => Bots!Before(q)'
            /\ q = Bots!Place => Bots!Before(q)' \/ q = Bots!Place'
            /\ Bots!Passed(q) => Bots!Passed(q)'
      BY <1>1, PassedStays
    <3> QED
      BY <3>1, <3>2, <3>3
  <2> QED
    BY <2>1 DEF Bots!TrackerInv
<1>3. Bots!TakenInv'
  <2>1. \A t \in taken : Bots!Passed(t[2])'
    <3> SUFFICES ASSUME NEW t \in taken PROVE Bots!Passed(t[2])'
      OBVIOUS
    <3>1. t[2] \in Nat \X Nat /\ Bots!Passed(t[2])
      BY AskedPlaces DEF Bots!TakenInv
    <3> QED
      BY <1>1, <3>1, PassedStays
  <2> QED
    BY <2>1 DEF Bots!TakenInv
<1>4. Bots!OldInv'
  <2> SUFFICES ASSUME ~LongTime, NEW r \in old
               PROVE  Bots!Passed(asked[r])' \/ (asked[r] = Bots!Place' /\ ~place'.time)
    BY DEF Bots!OldInv
  <2>1. asked[r] \in Nat \X Nat
    BY AskedPlaces
  <2>2. Bots!Passed(asked[r]) \/ (asked[r] = Bots!Place /\ ~place.time)
    BY DEF Bots!OldInv
  <2>3. CASE Bots!Passed(asked[r])
    BY <1>1, <2>1, <2>3, PassedStays
  <2>4. CASE asked[r] = Bots!Place /\ ~place.time
    BY <1>1, <2>1, <2>4, PassedStays
  <2> QED
    BY <2>2, <2>3, <2>4
<1> QED
  BY <1>2, <1>3, <1>4

LEMMA Notified ==
  ASSUME notes \in Nat, on \in BOOLEAN, Bots!Notify
  PROVE  notes' \in Nat /\ on' \in BOOLEAN /\ ~(on' /\ notes' = 0)
<1>1. CASE on /\ notes < Notes
  <2>1. notes' = notes + 1 /\ on' = on
    BY <1>1 DEF Bots!Notify
  <2> QED
    BY <2>1
<1>2. CASE ~(on /\ notes < Notes)
  <2>1. notes' = notes /\ on' = FALSE
    BY <1>2 DEF Bots!Notify
  <2> QED
    BY <2>1
<1> QED
  BY <1>1, <1>2

\* The Room moves on and tells the socket.
LEMMA ChangeKeeps ==
  ASSUME Bots!AgentInv, NEW r, Bots!Changes(r), Forward
  PROVE  Bots!AgentInv'
<1>1. Kept /\ Bots!Notify
  BY DEF Kept, Bots!Changes
<1>4. notes' \in Nat /\ on' \in BOOLEAN /\ ~(on' /\ notes' = 0)
  BY <1>1, Notified DEF Bots!AgentInv, Bots!TypeOK
<1>2. Bots!TypeOK'
  BY <1>4, <1>1 DEF Bots!AgentInv, Bots!TypeOK, Forward, Kept
<1>3. Bots!CaughtInv'
  BY <1>4 DEF Bots!CaughtInv
<1> QED
  BY <1>1, <1>2, <1>3, RoomMoves DEF Bots!AgentInv

\* The same Match and Decision in another stage: nothing opens.
LEMMA StageMoves ==
  ASSUME Bots!TypeOK, NEW st \in {"lobby", "closed"},
         place' = [place EXCEPT !.st = st]
  PROVE  Forward
<1>1. /\ place' \in Bots!Rooms /\ place'.st = st
      /\ place'.match = place.match /\ place'.id = place.id
  BY DEF Bots!TypeOK, Bots!Rooms
<1> QED
  BY <1>1 DEF Forward, Bots!Chooses

LEMMA StartKeeps ==
  ASSUME Bots!AgentInv, Bots!Start
  PROVE  Bots!AgentInv'
<1>1. place \in Bots!Rooms
  BY DEF Bots!AgentInv, Bots!TypeOK
<1>2. PICK asks \in BOOLEAN : Bots!Changes(Bots!At("playing", place.match + 1, 1, 1, asks))
  BY DEF Bots!Start
<1>3. place' = Bots!At("playing", place.match + 1, 1, 1, asks)
  BY <1>2 DEF Bots!Changes
<1>4. place' \in Bots!Rooms /\ place'.match = place.match + 1 /\ place.match \in Nat
  BY <1>1, <1>3 DEF Bots!At, Bots!Rooms
<1>5. Forward
  BY <1>4 DEF Forward
<1> QED
  BY <1>2, <1>5, ChangeKeeps

LEMMA ResolveKeeps ==
  ASSUME Bots!AgentInv, Bots!Resolve
  PROVE  Bots!AgentInv'
<1>1. Bots!TypeOK /\ place.st = "playing"
  BY DEF Bots!AgentInv, Bots!Resolve
<1>2. PICK r \in Bots!Resolutions(place) : Bots!Changes(r)
  BY DEF Bots!Resolve
<1>3. place' = r
  BY <1>2 DEF Bots!Changes
<1>4. Forward
  BY <1>1, <1>3, ResolutionFacts
<1> QED
  BY <1>2, <1>4, ChangeKeeps

LEMMA OtherKeeps ==
  ASSUME Bots!AgentInv, Bots!Other
  PROVE  Bots!AgentInv'
<1>1. Bots!Changes(place) /\ place' = place
  BY DEF Bots!Other, Bots!Changes
<1>2. Forward
  BY <1>1 DEF Forward, Bots!AgentInv, Bots!TypeOK, Bots!Chooses
<1> QED
  BY <1>1, <1>2, ChangeKeeps

LEMMA LateKeeps ==
  ASSUME Bots!AgentInv, Bots!Late
  PROVE  Bots!AgentInv'
<1>1. Kept /\ notes' = notes /\ on' = on /\ place' = [place EXCEPT !.time = FALSE]
  BY DEF Bots!Late, Kept
<1>2. place \in Bots!Rooms
  BY DEF Bots!AgentInv, Bots!TypeOK
<1>3. /\ place' \in Bots!Rooms /\ place'.st = place.st /\ place'.match = place.match
      /\ place'.id = place.id /\ place'.asks = place.asks /\ place'.log = place.log
      /\ place'.answered = place.answered /\ place'.time = FALSE
  BY <1>1, <1>2 DEF Bots!Rooms
<1>4. Bots!Chooses' <=> Bots!Chooses
  BY <1>3 DEF Bots!Chooses
<1>5. Forward
  BY <1>3, <1>4 DEF Forward, Bots!AgentInv, Bots!TypeOK
<1>6. Bots!TypeOK'
  BY <1>1, <1>3 DEF Bots!AgentInv, Bots!TypeOK, Kept
<1>7. Bots!CaughtInv'
  BY <1>1, <1>3, <1>4 DEF Bots!AgentInv, Bots!CaughtInv, Kept, Bots!Place
<1> QED
  BY <1>1, <1>5, <1>6, <1>7, RoomMoves DEF Bots!AgentInv

LEMMA ReleaseKeeps ==
  ASSUME Bots!AgentInv, Bots!Release
  PROVE  Bots!AgentInv'
<1>1. place \in Bots!Rooms /\ place.match # 0
  BY DEF Bots!AgentInv, Bots!TypeOK, Bots!Release
<1>2. CASE Bots!Changes(Bots!At("post", place.match, place.log + 1, place.id, FALSE))
  <2>1. place' = Bots!At("post", place.match, place.log + 1, place.id, FALSE)
    BY <1>2 DEF Bots!Changes
  <2>2. /\ place' \in Bots!Rooms /\ place'.st = "post" /\ place'.match = place.match
        /\ place'.id = place.id
    BY <1>1, <2>1 DEF Bots!At, Bots!Rooms
  <2>3. Forward
    BY <1>1, <2>2 DEF Forward, Bots!Chooses
  <2> QED
    BY <1>2, <2>3, ChangeKeeps
<1>3. ASSUME NEW asks \in BOOLEAN,
             Bots!Changes(Bots!At("playing", place.match, place.log + 1, place.id + 1, asks))
      PROVE  Bots!AgentInv'
  <2>1. place' = Bots!At("playing", place.match, place.log + 1, place.id + 1, asks)
    BY <1>3 DEF Bots!Changes
  <2>2. /\ place' \in Bots!Rooms /\ place'.match = place.match /\ place'.id = place.id + 1
        /\ place.id \in Nat
    BY <1>1, <2>1 DEF Bots!At, Bots!Rooms
  <2>3. Forward
    BY <1>1, <2>2 DEF Forward
  <2> QED
    BY <1>3, <2>3, ChangeKeeps
<1> QED
  BY <1>2, <1>3 DEF Bots!Release

LEMMA StageKeeps ==
  ASSUME Bots!AgentInv, Bots!Abort \/ Bots!BackToLobby \/ Bots!Close
  PROVE  Bots!AgentInv'
<1>1. PICK st \in {"lobby", "closed"} : Bots!Changes([place EXCEPT !.st = st])
  BY DEF Bots!Abort, Bots!BackToLobby, Bots!Close
<1>2. place' = [place EXCEPT !.st = st]
  BY <1>1 DEF Bots!Changes
<1>3. Bots!TypeOK
  BY DEF Bots!AgentInv
<1>4. Forward
  BY <1>2, <1>3, StageMoves
<1> QED
  BY <1>1, <1>4, ChangeKeeps

LEMMA RoomActsOn ==
  ASSUME Bots!AgentInv,
         \/ Bots!Start \/ Bots!Resolve \/ Bots!Other \/ Bots!Late \/ Bots!Release
         \/ Bots!Abort \/ Bots!BackToLobby \/ Bots!Close
  PROVE  Bots!AgentInv'
BY StartKeeps, ResolveKeeps, OtherKeeps, LateKeeps, ReleaseKeeps, StageKeeps

\* The socket ends.
LEMMA EndKeeps ==
  ASSUME Bots!AgentInv, agent' = [agent EXCEPT !.open = FALSE],
         UNCHANGED <<place, on, old, action, asked, taken>>, notes' \in Nat
  PROVE  Bots!AgentInv'
<1>1. /\ agent' \in Bots!Agents /\ agent'.open = FALSE /\ agent'.match = agent.match
      /\ agent'.cursor = agent.cursor /\ agent'.decision = agent.decision
      /\ agent'.request = agent.request /\ agent'.pending = agent.pending
      /\ agent'.next = agent.next
  BY DEF Bots!AgentInv, Bots!TypeOK, Bots!Agents
<1>2. Bots!TypeOK'
  BY <1>1 DEF Bots!AgentInv, Bots!TypeOK
<1>3. Bots!TrackerInv'
  BY <1>1 DEF Bots!AgentInv, Bots!TrackerInv, Bots!Passed, Bots!Before, Bots!Place, Bots!Chooses
<1>4. Bots!CaughtInv'
  BY <1>1 DEF Bots!CaughtInv
<1>5. Bots!TakenInv' /\ Bots!OldInv'
  BY <1>1 DEF Bots!AgentInv, Bots!TakenInv, Bots!OldInv, Bots!Passed, Bots!Before, Bots!Place,
              Bots!Chooses
<1> QED
  BY <1>2, <1>3, <1>4, <1>5 DEF Bots!AgentInv

LEMMA AgeKeeps ==
  ASSUME Bots!AgentInv, Bots!Age
  PROVE  Bots!AgentInv'
<1> USE DEF Bots!AgentInv
<1>0. UNCHANGED <<place, notes, on, agent, action, asked, taken>>
  BY DEF Bots!Age
<1>1. PICK r \in agent.pending \ old :
        /\ LongTime \/ asked[r] # Bots!Place \/ ~place.time
        /\ old' = old \cup {r}
  BY DEF Bots!Age
<1>2. Bots!TypeOK'
  BY <1>0, <1>1 DEF Bots!TypeOK
<1>3. Bots!TrackerInv' /\ Bots!CaughtInv' /\ Bots!TakenInv'
  BY <1>0 DEF Bots!TrackerInv, Bots!CaughtInv, Bots!TakenInv, Bots!Passed, Bots!Before,
              Bots!Place, Bots!Chooses
<1>4. Bots!OldInv'
  <2>1. r = agent.request /\ agent.request # Bots!None
    BY DEF Bots!TrackerInv
  <2>2. Bots!Before(asked[r]) \/ asked[r] = Bots!Place
    BY <2>1 DEF Bots!TrackerInv
  <2>3. ~LongTime => \A i \in old' :
          Bots!Passed(asked[i]) \/ (asked[i] = Bots!Place /\ ~place.time)
    BY <1>1, <2>2 DEF Bots!OldInv, Bots!Passed
  <2> QED
    BY <1>0, <2>3 DEF Bots!OldInv, Bots!Passed, Bots!Before, Bots!Place, Bots!Chooses
<1> QED
  BY <1>2, <1>3, <1>4

\* What a request leaves behind when it is retired.
LEMMA RetiredFacts ==
  ASSUME NEW a \in Bots!Agents, a.pending = {a.request} \ {Bots!None}
  PROVE  LET b == Bots!Retired(a) IN
         /\ b \in Bots!Agents /\ b.open = a.open /\ b.match = a.match /\ b.cursor = a.cursor
         /\ b.decision = a.decision /\ b.request = Bots!None /\ b.pending = {} /\ b.next = a.next
<1> DEFINE d == [a EXCEPT !.pending = {}]
           b == [d EXCEPT !.request = Bots!None]
<1>1. a.pending \ {a.request} = {}
  OBVIOUS
<1>2. Bots!Retired(a) = b
  BY <1>1 DEF Bots!Retired, Bots!Agents
<1>3. /\ d \in Bots!Agents /\ d.open = a.open /\ d.match = a.match /\ d.cursor = a.cursor
      /\ d.decision = a.decision /\ d.pending = {} /\ d.next = a.next
  BY DEF Bots!Agents
<1> HIDE DEF d
<1>4. /\ b \in Bots!Agents /\ b.open = d.open /\ b.match = d.match /\ b.cursor = d.cursor
      /\ b.decision = d.decision /\ b.pending = d.pending /\ b.next = d.next
      /\ b.request = Bots!None
  BY <1>3 DEF Bots!Agents, Bots!None
<1> HIDE DEF b
<1> QED
  BY <1>2, <1>3, <1>4

Now == IF place.st = "lobby" THEN 0 ELSE place.match

LEMMA TurnedFacts ==
  ASSUME place.match \in Nat, NEW a \in Bots!Agents, a.pending = {a.request} \ {Bots!None}
  PROVE  LET b == Bots!Turned(a) IN
         /\ b \in Bots!Agents /\ b.open = a.open /\ b.match = Now /\ b.next = a.next
         /\ b.pending = {b.request} \ {Bots!None}
         /\ b = a \/ (b.decision = Bots!None /\ b.request = Bots!None)
<1>1. CASE a.match = Now
  BY <1>1 DEF Bots!Turned, Now
<1>2. CASE a.match # Now
  <2> DEFINE c == Bots!Retired(a)
             b == [c EXCEPT !.decision = Bots!None, !.cursor = 0, !.match = Now]
  <2>1. Bots!Turned(a) = b
    BY <1>2 DEF Bots!Turned, Now
  <2>2. /\ c \in Bots!Agents /\ c.open = a.open /\ c.request = Bots!None /\ c.pending = {}
        /\ c.next = a.next
    BY RetiredFacts
  <2>3. Now \in Nat
    BY DEF Now
  <2> HIDE DEF c
  <2>4. /\ b \in Bots!Agents /\ b.open = c.open /\ b.match = Now /\ b.next = c.next
        /\ b.pending = c.pending /\ b.request = c.request /\ b.decision = Bots!None
    BY <2>2, <2>3 DEF Bots!Agents, Bots!None
  <2> QED
    BY <2>1, <2>2, <2>4
<1> QED
  BY <1>1, <1>2

\* What sync_room leaves: no request, the request it found, or a new one.
Silent(a) ==
  /\ a.request = Bots!None /\ a.pending = {} /\ a.next = agent.next
  /\ ~(Bots!Chooses /\ place.time)
  /\ a.decision # Bots!None =>
       /\ a.decision = agent.decision /\ a.match = agent.match /\ a.decision # place.id

Steady(a) ==
  /\ Bots!Chooses /\ a.decision = place.id /\ a.decision = agent.decision
  /\ a.match = agent.match /\ a.request = agent.request /\ a.next = agent.next
  /\ a.pending = {a.request} \ {Bots!None}

Asking(a) ==
  /\ Bots!Chooses /\ place.time /\ a.decision = place.id /\ a.request = agent.next
  /\ a.pending = {agent.next} /\ a.next = agent.next + 1

LEMMA SyncedFacts ==
  ASSUME Bots!TypeOK, Bots!TrackerInv, NEW a, a = Bots!Synced(agent)
  PROVE  /\ a \in Bots!Agents /\ a.open = agent.open /\ a.match = Now
         /\ place.st # "lobby" => a.cursor = place.log
         /\ Silent(a) \/ Steady(a) \/ Asking(a)
<1> DEFINE b == Bots!Turned(agent)
           c == [b EXCEPT !.cursor = place.log]
           d == Bots!Retired(c)
<1>1. /\ place \in Bots!Rooms /\ place.match \in Nat /\ place.log \in Nat /\ place.id \in Nat
      /\ place.id # 0 /\ place.time \in BOOLEAN
      /\ agent \in Bots!Agents /\ agent.pending = {agent.request} \ {Bots!None}
      /\ agent.next \in Nat /\ agent.match \in Nat
      /\ agent.decision # Bots!None => agent.match # 0
      /\ agent.request # Bots!None => agent.decision # Bots!None
  BY DEF Bots!TypeOK, Bots!Rooms, Bots!Agents, Bots!TrackerInv
<1>2. /\ b \in Bots!Agents /\ b.open = agent.open /\ b.match = Now /\ b.next = agent.next
      /\ b.pending = {b.request} \ {Bots!None}
      /\ b = agent \/ (b.decision = Bots!None /\ b.request = Bots!None)
  BY <1>1, TurnedFacts
<1>3. Bots!Synced(agent) =
        IF place.st = "lobby" THEN b
        ELSE IF ~Bots!Chooses THEN [d EXCEPT !.decision = Bots!None]
        ELSE IF c.decision = place.id THEN c
        ELSE IF place.time THEN Bots!Opened(d) ELSE d
  BY DEF Bots!Synced
<1> HIDE DEF b
<1>4. /\ c \in Bots!Agents /\ c.open = b.open /\ c.match = b.match /\ c.next = b.next
      /\ c.pending = b.pending /\ c.request = b.request /\ c.decision = b.decision
      /\ c.cursor = place.log
  BY <1>1, <1>2 DEF Bots!Agents
<1> HIDE DEF c
<1>5. /\ d \in Bots!Agents /\ d.open = c.open /\ d.match = c.match /\ d.cursor = c.cursor
      /\ d.decision = c.decision /\ d.request = Bots!None /\ d.pending = {} /\ d.next = c.next
  BY <1>2, <1>4, RetiredFacts
<1> HIDE DEF d
<1>6. CASE place.st = "lobby"
  <2>1. a = b /\ ~Bots!Chooses
    BY <1>3, <1>6 DEF Bots!Chooses
  <2>2. b.decision = Bots!None /\ b.request = Bots!None
    BY <1>1, <1>2, <1>6 DEF Now
  <2>3. Silent(a)
    BY <1>2, <2>1, <2>2 DEF Silent
  <2> QED
    BY <1>2, <1>6, <2>1, <2>3
<1>7. CASE place.st # "lobby" /\ ~Bots!Chooses
  <2> DEFINE e == [d EXCEPT !.decision = Bots!None]
  <2>1. a = e
    BY <1>3, <1>7
  <2>2. /\ e \in Bots!Agents /\ e.open = d.open /\ e.match = d.match /\ e.cursor = d.cursor
        /\ e.decision = Bots!None /\ e.request = d.request /\ e.pending = d.pending
        /\ e.next = d.next
    BY <1>5 DEF Bots!Agents, Bots!None
  <2> HIDE DEF e
  <2>3. Silent(e)
    BY <1>2, <1>4, <1>5, <1>7, <2>2 DEF Silent
  <2> QED
    BY <1>2, <1>4, <1>5, <2>1, <2>2, <2>3
<1>8. CASE place.st # "lobby" /\ Bots!Chooses /\ c.decision = place.id
  <2>1. a = c
    BY <1>3, <1>8
  <2>2. b = agent
    BY <1>1, <1>2, <1>4, <1>8 DEF Bots!None
  <2>3. Steady(c)
    BY <1>1, <1>4, <1>8, <2>2 DEF Steady
  <2> QED
    BY <1>2, <1>4, <2>1, <2>3
<1>9. CASE place.st # "lobby" /\ Bots!Chooses /\ c.decision # place.id /\ place.time
  <2>1. a = Bots!Opened(d)
    BY <1>3, <1>9
  <2>2. Bots!Live(d) = {}
    BY <1>5 DEF Bots!Live
  <2>3. a = [open |-> d.open, match |-> d.match, cursor |-> d.cursor, decision |-> place.id,
             request |-> d.next, pending |-> {d.next}, next |-> d.next + 1]
    BY <2>1, <2>2 DEF Bots!Opened
  <2>4. /\ a \in Bots!Agents /\ a.open = d.open /\ a.match = d.match /\ a.cursor = d.cursor
        /\ a.decision = place.id /\ a.request = d.next /\ a.pending = {d.next}
        /\ a.next = d.next + 1
    BY <1>1, <1>5, <2>3 DEF Bots!Agents
  <2>5. Asking(a)
    BY <1>2, <1>4, <1>5, <1>9, <2>4 DEF Asking
  <2> QED
    BY <1>2, <1>4, <1>5, <2>4, <2>5
<1>10. CASE place.st # "lobby" /\ Bots!Chooses /\ c.decision # place.id /\ ~place.time
  <2>1. a = d
    BY <1>3, <1>10
  <2>2. d.decision # Bots!None => d.decision = agent.decision /\ d.match = agent.match
    BY <1>2, <1>4, <1>5
  <2>3. Silent(d)
    BY <1>2, <1>4, <1>5, <1>10, <2>2 DEF Silent
  <2> QED
    BY <1>2, <1>4, <1>5, <2>1, <2>3
<1> QED
  BY <1>6, <1>7, <1>8, <1>9, <1>10

\* The Room itself does not move.
Still == UNCHANGED <<place, on, action, taken>> /\ action = Bots!NoAction /\ notes' \in Nat

LEMMA StillHolds ==
  ASSUME UNCHANGED place
  PROVE  /\ Bots!Place' = Bots!Place /\ (Bots!Chooses' <=> Bots!Chooses)
         /\ \A p : (Bots!Before(p))' = Bots!Before(p)
         /\ \A p : (Bots!Passed(p))' = Bots!Passed(p)
BY DEF Bots!Place, Bots!Chooses, Bots!Before, Bots!Passed

LEMMA QuietKeeps ==
  ASSUME Bots!AgentInv, Still, agent' \in Bots!Agents, Silent(agent'), Bots!Remember(agent'),
         place.st # "lobby" => agent'.cursor = place.log
  PROVE  Bots!AgentInv'
<1> USE DEF Bots!AgentInv
<1>1. asked' = asked /\ old' = {} /\ agent'.next = agent.next
  BY DEF Silent, Bots!Remember
<1>2. place' = place /\ on' = on /\ action' = action /\ taken' = taken
  BY DEF Still
<1>3. Bots!TypeOK'
  BY <1>1, <1>2 DEF Bots!TypeOK, Still
<1>4. Bots!TrackerInv'
  <2>1. agent'.pending = {agent'.request} \ {Bots!None} /\ agent'.request = Bots!None
    BY DEF Silent
  <2>2. ASSUME agent'.decision # Bots!None
        PROVE  /\ Bots!Before(<<agent'.match, agent'.decision>>) /\ agent'.match # 0
    <3>1. agent'.decision = agent.decision /\ agent'.match = agent.match
          /\ agent'.decision # place.id
      BY <2>2 DEF Silent
    <3> QED
      BY <2>2, <3>1 DEF Bots!TrackerInv, Bots!Place
  <2>3. action' = Bots!NoAction
    BY <1>2 DEF Still
  <2> QED
    BY <1>2, <2>1, <2>2, <2>3 DEF Bots!TrackerInv, Bots!Passed, Bots!Before
<1>5. Bots!CaughtInv'
  <2>1. ~(Bots!Chooses' /\ place'.time) /\ agent'.request = Bots!None
    BY <1>2 DEF Silent, Bots!Chooses
  <2> QED
    BY <1>2, <2>1 DEF Bots!CaughtInv
<1>6. Bots!TakenInv'
  <2>1. \A t \in taken : t[1] # agent'.request
    BY AskedPlaces DEF Silent, Bots!None
  <2> QED
    BY <1>1, <1>2, <2>1, StillHolds DEF Bots!TakenInv
<1>7. Bots!OldInv'
  BY <1>1 DEF Bots!OldInv
<1> QED
  BY <1>3, <1>4, <1>5, <1>6, <1>7

LEMMA SteadyKeeps ==
  ASSUME Bots!AgentInv, Still, agent' \in Bots!Agents, Steady(agent'), Bots!Remember(agent'),
         agent'.match = Now, agent'.cursor = place.log
  PROVE  Bots!AgentInv'
<1> USE DEF Bots!AgentInv
<1>1. asked' = asked /\ old' = old \cap agent'.pending /\ agent'.next = agent.next
      /\ agent'.request = agent.request /\ agent'.pending = {agent.request} \ {Bots!None}
      /\ agent'.match = agent.match /\ agent'.decision = agent.decision
  BY DEF Steady, Bots!Remember
<1>2. place' = place /\ on' = on /\ action' = action /\ taken' = taken
  BY DEF Still
<1>3. Bots!TypeOK'
  BY <1>1, <1>2 DEF Bots!TypeOK, Still
<1>4. Bots!TrackerInv'
  BY <1>1, <1>2 DEF Bots!TrackerInv, Bots!Passed, Bots!Before, Bots!Place, Bots!Chooses
<1>5. Bots!Chooses /\ agent.request # Bots!None /\ asked[agent.request] = Bots!Place
  <2>1. Bots!Chooses /\ <<agent.match, agent.decision>> = Bots!Place /\ agent.decision # Bots!None
    BY <1>1 DEF Steady, Now, Bots!Place, Bots!Chooses, Bots!TypeOK, Bots!Rooms, Bots!None
  <2>2. ~Bots!Passed(Bots!Place)
    BY <2>1 DEF Bots!Passed, Bots!Before, Bots!Place, Bots!TypeOK, Bots!Rooms
  <2> QED
    BY <2>1, <2>2 DEF Bots!TrackerInv
<1>6. Bots!CaughtInv'
  BY <1>1, <1>2, <1>5, StillHolds DEF Bots!CaughtInv
<1>7. Bots!TakenInv'
  BY <1>1, <1>2, StillHolds DEF Bots!TakenInv
<1>8. Bots!OldInv'
  BY <1>1, <1>2, StillHolds DEF Bots!OldInv
<1> QED
  BY <1>3, <1>4, <1>6, <1>7, <1>8

LEMMA AskingKeeps ==
  ASSUME Bots!AgentInv, Still, agent' \in Bots!Agents, Asking(agent'), Bots!Remember(agent'),
         agent'.match = Now, agent'.cursor = place.log
  PROVE  Bots!AgentInv'
<1> USE DEF Bots!AgentInv
<1> DEFINE n == Len(asked) + 1
<1>1. place' = place /\ on' = on /\ action' = action /\ taken' = taken
  BY DEF Still
<1>2. /\ Len(asked) \in Nat /\ n \in Nat /\ n # 0 /\ agent.next = n
      /\ agent'.request = n /\ agent'.pending = {n} /\ agent'.next = n + 1
  BY DEF Asking, Bots!TypeOK
<1>3. old' = {}
  BY <1>2, AskedPlaces DEF Bots!Remember, Bots!TypeOK, Bots!TrackerInv
<1>4. asked' = Append(asked, Bots!Place)
  BY <1>2 DEF Bots!Remember
<1>5. /\ Bots!Chooses /\ place.time /\ Bots!Place = <<agent'.match, agent'.decision>>
      /\ agent'.decision # Bots!None /\ agent'.match # 0
      /\ Bots!Place \in Nat \X (Nat \ {0})
  BY DEF Asking, Now, Bots!Place, Bots!Chooses, Bots!TypeOK, Bots!Rooms, Bots!None
<1>6. /\ asked' \in Seq(Nat \X (Nat \ {0})) /\ Len(asked') = n
      /\ asked'[n] = Bots!Place /\ \A i \in 1 .. Len(asked) : asked'[i] = asked[i]
  BY <1>4, <1>5 DEF Bots!TypeOK
<1> HIDE DEF n
<1>7. Bots!TypeOK'
  <2>1. taken \subseteq (1 .. Len(asked')) \X (Nat \X (Nat \ {0}))
    BY <1>2, <1>6 DEF Bots!TypeOK, n
  <2> QED
    BY <1>1, <1>2, <1>3, <1>6, <2>1 DEF Bots!TypeOK, Still
<1>8. Bots!TrackerInv'
  <2>1. action' = Bots!NoAction
    BY <1>1 DEF Still
  <2>2. n \in 1 .. Len(asked')
    BY <1>2, <1>6
  <2> QED
    BY <1>1, <1>2, <1>5, <1>6, <2>1, <2>2, StillHolds DEF Bots!TrackerInv, Bots!None
<1>9. Bots!CaughtInv'
  BY <1>1, <1>2, <1>5, <1>6, StillHolds DEF Bots!CaughtInv, Bots!None
<1>10. Bots!TakenInv'
  <2>1. \A t \in taken : t[1] # n /\ asked'[t[1]] = asked[t[1]]
    BY SMTT(30), <1>2, <1>6, AskedPlaces DEF n
  <2> QED
    BY <1>1, <1>2, <2>1, StillHolds DEF Bots!TakenInv
<1>11. Bots!OldInv'
  BY <1>3 DEF Bots!OldInv
<1> QED
  BY <1>7, <1>8, <1>9, <1>10, <1>11

LEMMA SyncKeeps ==
  ASSUME Bots!AgentInv, Bots!Sync
  PROVE  Bots!AgentInv'
<1>1. /\ UNCHANGED <<place, on, action, taken>> /\ action = Bots!NoAction /\ notes' = notes - 1
      /\ notes' \in Nat
  BY DEF Bots!Sync, Bots!Idle, Bots!AgentInv, Bots!TypeOK
<1>2. CASE agent' = [agent EXCEPT !.open = FALSE] /\ UNCHANGED <<old, asked>>
  BY <1>1, <1>2, EndKeeps
<1>3. CASE Bots!Remember(Bots!Synced(agent))
  <2>1. agent' = Bots!Synced(agent) /\ Bots!Remember(agent') /\ Still
    BY <1>1, <1>3 DEF Bots!Remember, Still
  <2>2. /\ agent' \in Bots!Agents /\ agent'.match = Now
        /\ place.st # "lobby" => agent'.cursor = place.log
        /\ Silent(agent') \/ Steady(agent') \/ Asking(agent')
    BY <2>1, SyncedFacts DEF Bots!AgentInv
  <2>3. Bots!Chooses => place.st # "lobby"
    BY DEF Bots!Chooses
  <2>4. CASE Silent(agent')
    BY <2>1, <2>2, <2>4, QuietKeeps
  <2>5. CASE Steady(agent')
    BY <2>1, <2>2, <2>3, <2>5, SteadyKeeps DEF Steady
  <2>6. CASE Asking(agent')
    BY <2>1, <2>2, <2>3, <2>6, AskingKeeps DEF Asking
  <2> QED
    BY <2>2, <2>4, <2>5, <2>6
<1> QED
  BY <1>2, <1>3 DEF Bots!Sync

\* A reply is for the one request that is pending.
LEMMA MeantIsPending ==
  ASSUME Bots!TypeOK, Bots!TrackerInv, NEW r \in Nat, Bots!Peeked(agent, r) = "current"
  PROVE  Bots!Meant(agent, r) = agent.request /\ agent.request # Bots!None
<1>1. agent.request \in Nat /\ agent.pending = {agent.request} \ {Bots!None}
  BY DEF Bots!TypeOK, Bots!Agents, Bots!TrackerInv
<1>2. Bots!Live(agent) \subseteq {agent.request} \ {Bots!None}
  BY <1>1 DEF Bots!Live
<1>3. CASE r = Bots!None
  <2>1. Bots!Live(agent) = {agent.request} /\ agent.request # Bots!None
    BY <1>2, <1>3 DEF Bots!Peeked
  <2>2. Bots!Meant(agent, r) =
          CHOOSE q \in {agent.request} : \A p \in {agent.request} : q <= p
    BY <1>3, <2>1 DEF Bots!Meant
  <2> QED
    BY <1>1, <2>1, <2>2
<1>4. CASE r # Bots!None
  <2>1. r \in Bots!Live(agent)
    BY <1>4 DEF Bots!Peeked
  <2> QED
    BY <1>2, <1>4, <2>1 DEF Bots!Meant
<1> QED
  BY <1>3, <1>4

LEMMA ReplyKeeps ==
  ASSUME Bots!AgentInv, NEW r \in Nat, Bots!Reply(r)
  PROVE  Bots!AgentInv'
<1> USE DEF Bots!AgentInv
<1> DEFINE fits == agent.decision = place.id /\ Bots!Chooses
           with == [agent EXCEPT !.request = IF @ = Bots!None THEN Bots!Meant(agent, r) ELSE @]
           bare == Bots!Retired(agent)
           next == [bare EXCEPT !.decision = Bots!None]
<1>1. /\ UNCHANGED <<place, notes, on, asked, taken>>
      /\ agent.open /\ action = Bots!NoAction /\ place.st = "playing"
  BY DEF Bots!Reply, Bots!Idle
<1>2. Bots!Meant(agent, r) = agent.request /\ agent.request # Bots!None
  BY MeantIsPending DEF Bots!Reply
<1>3. CASE fits
  <2>1. /\ action' = [request |-> agent.request, id |-> place.id]
        /\ agent' = agent /\ old' = old
    BY <1>2, <1>3 DEF Bots!Reply
  <2>2. action'.request = agent.request /\ action'.id = agent.decision
    BY <1>3, <2>1
  <2>3. Bots!TypeOK'
    BY <1>1, <2>1 DEF Bots!TypeOK, Bots!Agents, Bots!Rooms
  <2>4. Bots!TrackerInv'
    BY <1>1, <1>2, <2>1, <2>2, StillHolds DEF Bots!TrackerInv
  <2>5. Bots!CaughtInv' /\ Bots!TakenInv' /\ Bots!OldInv'
    BY <1>1, <2>1, StillHolds DEF Bots!CaughtInv, Bots!TakenInv, Bots!OldInv
  <2> QED
    BY <2>3, <2>4, <2>5
<1>4. CASE ~fits
  <2>1. with = agent
    BY <1>2 DEF Bots!TypeOK, Bots!Agents
  <2>2. agent' = next /\ old' = old \cap agent'.pending /\ action' = action
    BY <1>2, <1>4, <2>1 DEF Bots!Reply
  <2>3. /\ bare \in Bots!Agents /\ bare.open = agent.open /\ bare.match = agent.match
        /\ bare.request = Bots!None /\ bare.pending = {} /\ bare.next = agent.next
    BY RetiredFacts DEF Bots!TypeOK, Bots!TrackerInv
  <2> HIDE DEF bare
  <2>4. /\ next \in Bots!Agents /\ next.open = bare.open /\ next.match = bare.match
        /\ next.request = bare.request /\ next.pending = bare.pending /\ next.next = bare.next
        /\ next.decision = Bots!None
    BY <2>3 DEF Bots!Agents, Bots!None
  <2> HIDE DEF next
  <2>5. /\ agent' \in Bots!Agents /\ agent'.decision = Bots!None /\ agent'.request = Bots!None
        /\ agent'.pending = {} /\ agent'.next = agent.next /\ old' = {}
    BY <2>2, <2>3, <2>4
  <2>6. Bots!TypeOK'
    BY <1>1, <2>2, <2>5 DEF Bots!TypeOK
  <2>7. Bots!TrackerInv'
    BY <1>1, <2>2, <2>5 DEF Bots!TrackerInv
  <2>8. ~(on /\ notes = 0)
    BY <1>1, <1>2, <1>4 DEF Bots!CaughtInv, Bots!TrackerInv, Bots!Place
  <2>9. Bots!CaughtInv'
    BY <1>1, <2>8 DEF Bots!CaughtInv
  <2>10. Bots!TakenInv'
    <3>1. \A t \in taken : t[1] # agent'.request
      BY <2>5, AskedPlaces DEF Bots!None
    <3> QED
      BY <1>1, <3>1, StillHolds DEF Bots!TakenInv
  <2>11. Bots!OldInv'
    BY <2>5 DEF Bots!OldInv
  <2> QED
    BY <2>6, <2>7, <2>9, <2>10, <2>11
<1> QED
  BY <1>3, <1>4

LEMMA DroppedKeeps ==
  ASSUME Bots!AgentInv, Bots!Dropped
  PROVE  Bots!AgentInv'
<1>1. /\ agent' = [agent EXCEPT !.open = FALSE] /\ notes' = notes
      /\ UNCHANGED <<place, on, old, action, asked, taken>>
  BY DEF Bots!Dropped
<1> QED
  BY <1>1, EndKeeps DEF Bots!AgentInv, Bots!TypeOK

LEMMA AcceptedMoves ==
  ASSUME Bots!TypeOK, Bots!Chooses,
         place' \in {[place EXCEPT !.answered = TRUE]} \cup Bots!Resolutions(place)
  PROVE  /\ Forward
         /\ \A p : p = Bots!Place => (Bots!Passed(p))'
         /\ place'.answered => Bots!Place' = Bots!Place
<1>1. place \in Bots!Rooms /\ place.match # 0 /\ place.st = "playing"
  BY DEF Bots!TypeOK, Bots!Chooses
<1>2. CASE place' = [place EXCEPT !.answered = TRUE]
  <2>1. /\ place' \in Bots!Rooms /\ place'.match = place.match /\ place'.id = place.id
        /\ place'.answered = TRUE
    BY <1>1, <1>2 DEF Bots!Rooms
  <2>2. ~Bots!Chooses' /\ Bots!Place' = Bots!Place
    BY <2>1 DEF Bots!Chooses, Bots!Place
  <2> QED
    BY <1>1, <2>1, <2>2 DEF Forward, Bots!Passed
<1>3. CASE place' \in Bots!Resolutions(place)
  <2>1. Forward
    BY <1>1, <1>3, ResolutionFacts
  <2>2. \/ /\ place'.st = "held" /\ place'.match = place.match /\ place'.id = place.id
           /\ place'.answered = FALSE
        \/ /\ place'.match = place.match /\ place'.id = place.id + 1
           /\ place'.answered = FALSE
    BY <1>3 DEF Bots!Resolutions, Bots!At
  <2>3. \A p : p = Bots!Place => (Bots!Passed(p))'
    BY <1>1, <2>2 DEF Bots!Passed, Bots!Before, Bots!Place, Bots!Chooses, Bots!Rooms
  <2> QED
    BY <2>1, <2>2, <2>3
<1> QED
  BY <1>2, <1>3

LEMMA AcceptKeeps ==
  ASSUME Bots!AgentInv, Bots!Submit, Bots!Chooses, place.time, place.id = action.id
  PROVE  Bots!AgentInv'
<1> USE DEF Bots!AgentInv
<1>1. /\ action # Bots!NoAction /\ action' = Bots!NoAction /\ asked' = asked
      /\ taken' = taken \cup {<<action.request, Bots!Place>>}
      /\ place' \in {[place EXCEPT !.answered = TRUE]} \cup Bots!Resolutions(place)
      /\ agent' = [agent EXCEPT !.pending = Bots!Live(agent) \ {action.request},
                                !.request = Bots!None,
                                !.decision = IF place'.answered THEN @ ELSE Bots!None]
      /\ old' = {} /\ Bots!Notify
  BY DEF Bots!Submit
<1>2. /\ action.request = agent.request /\ action.id = agent.decision
      /\ agent.request # Bots!None /\ agent.request \in 1 .. Len(asked)
      /\ asked[agent.request] = <<agent.match, agent.decision>>
  BY <1>1 DEF Bots!TrackerInv
<1>3. Forward /\ (\A p : p = Bots!Place => (Bots!Passed(p))')
  BY <1>1, AcceptedMoves
<1>4. \A p \in Nat \X Nat : Bots!Passed(p) => (Bots!Passed(p))'
  BY <1>3, PassedStays DEF Bots!TypeOK
<1>5. \A p \in Nat \X Nat :
        Bots!Before(p) \/ p = Bots!Place =>
          (Bots!Passed(p))' /\ ((Bots!Before(p))' \/ p = Bots!Place')
  BY <1>3, <1>4 DEF Bots!Passed
<1>6. /\ agent' \in Bots!Agents /\ agent'.open = agent.open /\ agent'.match = agent.match
      /\ agent'.request = Bots!None /\ agent'.pending = {} /\ agent'.next = agent.next
      /\ agent'.decision # Bots!None => agent'.decision = agent.decision
  <2> DEFINE none == Bots!Live(agent) \ {action.request}
             d == [agent EXCEPT !.pending = {}]
             e == [d EXCEPT !.request = Bots!None]
             f == [e EXCEPT !.decision = IF place'.answered THEN @ ELSE Bots!None]
  <2>1. none = {}
    BY <1>2 DEF Bots!Live, Bots!TrackerInv
  <2> HIDE DEF none
  <2>2. agent \in Bots!Agents
    BY DEF Bots!TypeOK
  <2>3. agent' = f
    BY <1>1, <2>1, <2>2 DEF Bots!Agents, none
  <2>4. /\ d \in Bots!Agents /\ d.open = agent.open /\ d.match = agent.match
        /\ d.decision = agent.decision /\ d.pending = {} /\ d.next = agent.next
    BY <2>2 DEF Bots!Agents
  <2> HIDE DEF d
  <2>5. /\ e \in Bots!Agents /\ e.open = d.open /\ e.match = d.match /\ e.request = Bots!None
        /\ e.decision = d.decision /\ e.pending = d.pending /\ e.next = d.next
    BY <2>4 DEF Bots!Agents, Bots!None
  <2> HIDE DEF e
  <2>6. /\ f \in Bots!Agents /\ f.open = e.open /\ f.match = e.match /\ f.request = e.request
        /\ f.decision \in {e.decision, Bots!None} /\ f.pending = e.pending /\ f.next = e.next
    BY <2>5 DEF Bots!Agents, Bots!None
  <2> HIDE DEF f
  <2> QED
    BY <2>3, <2>4, <2>5, <2>6
<1>7. notes' \in Nat /\ on' \in BOOLEAN /\ ~(on' /\ notes' = 0)
  BY <1>1, Notified DEF Bots!TypeOK
<1>8. Bots!TypeOK'
  <2>1. action' \in [request : Nat, id : Nat]
    BY <1>1 DEF Bots!NoAction, Bots!None
  <2>2. Bots!Place \in Nat \X (Nat \ {0})
    BY DEF Bots!Place, Bots!TypeOK, Bots!Rooms
  <2>3. taken' \subseteq (1 .. Len(asked)) \X (Nat \X (Nat \ {0}))
    BY <1>1, <1>2, <2>2 DEF Bots!TypeOK
  <2> QED
    BY <1>1, <1>3, <1>6, <1>7, <2>1, <2>3 DEF Bots!TypeOK, Forward
<1>9. Bots!TrackerInv'
  <2>1. \A p : p = <<agent'.match, agent'.decision>> /\ agent'.decision # Bots!None =>
          (Bots!Passed(p))' /\ ((Bots!Before(p))' \/ p = Bots!Place') /\ agent'.match # 0
    <3> SUFFICES ASSUME NEW p, p = <<agent'.match, agent'.decision>>,
                        agent'.decision # Bots!None
                 PROVE  /\ (Bots!Passed(p))' /\ ((Bots!Before(p))' \/ p = Bots!Place')
                        /\ agent'.match # 0
      OBVIOUS
    <3>1. p = <<agent.match, agent.decision>> /\ agent.decision # Bots!None
      BY <1>6
    <3>2. agent.match \in Nat /\ agent.decision \in Nat
      BY DEF Bots!TypeOK, Bots!Agents
    <3>3. p \in Nat \X Nat
      BY <3>1, <3>2
    <3>4. (Bots!Before(p) \/ p = Bots!Place) /\ agent.match # 0
      BY <3>1 DEF Bots!TrackerInv
    <3> QED
      BY <1>5, <1>6, <3>3, <3>4
  <2>2. agent'.decision # Bots!None =>
          /\ (Bots!Before(<<agent.match, agent.decision>>) \/
                <<agent.match, agent.decision>> = Bots!Place)'
          /\ (Bots!Passed(<<agent.match, agent.decision>>))' /\ agent'.match # 0
    BY <2>1
  <2> QED
    BY <1>1, <1>6, <2>2 DEF Bots!TrackerInv
<1>10. Bots!CaughtInv'
  BY <1>7 DEF Bots!CaughtInv
<1>11. Bots!TakenInv'
  <2>1. ~Bots!Passed(Bots!Place)
    BY DEF Bots!Passed, Bots!Before, Bots!Place, Bots!TypeOK, Bots!Rooms
  <2>2. \A t \in taken : t[1] # agent.request /\ t[2] # Bots!Place
    BY <2>1 DEF Bots!TakenInv
  <2>3. asked[agent.request][2] = Bots!Place[2]
    BY <1>2 DEF Bots!Place
  <2>4. \A t \in taken' : (Bots!Passed(t[2]))' /\ asked[t[1]][2] = t[2][2]
    BY <1>1, <1>2, <1>3, <1>4, <2>3, AskedPlaces DEF Bots!TakenInv
  <2>5. \A t \in taken' : t[1] # agent'.request
    BY <1>1, <1>2, <1>6, AskedPlaces DEF Bots!None
  <2>6. \A t, u \in taken' : t[1] = u[1] \/ t[2] = u[2] => t = u
    BY <1>1, <1>2, <2>2 DEF Bots!TakenInv
  <2> QED
    BY <1>1, <2>4, <2>5, <2>6 DEF Bots!TakenInv
<1>12. Bots!OldInv'
  BY <1>1 DEF Bots!OldInv
<1> QED
  BY <1>8, <1>9, <1>10, <1>11, <1>12

LEMMA SubmitKeeps ==
  ASSUME Bots!AgentInv, Bots!Submit
  PROVE  Bots!AgentInv'
<1>1. CASE Bots!Chooses /\ place.time /\ place.id = action.id
  BY <1>1, AcceptKeeps
<1>2. CASE ~(Bots!Chooses /\ place.time /\ place.id = action.id)
  <2>1. /\ action' = Bots!NoAction
        /\ UNCHANGED <<place, notes, on, agent, old, asked, taken>>
    BY <1>2 DEF Bots!Submit
  <2>2. action' \in [request : Nat, id : Nat]
    BY <2>1 DEF Bots!NoAction, Bots!None
  <2> QED
    BY <2>1, <2>2, StillHolds
       DEF Bots!AgentInv, Bots!TypeOK, Bots!TrackerInv, Bots!CaughtInv, Bots!TakenInv, Bots!OldInv
<1> QED
  BY <1>1, <1>2

LEMMA BotInit == Bots!Init => Bots!AgentInv
<1> SUFFICES ASSUME Bots!Init PROVE Bots!AgentInv
  OBVIOUS
<1>1. /\ notes = 1 /\ on = TRUE /\ old = {} /\ action = Bots!NoAction /\ asked = <<>>
      /\ taken = {}
      /\ agent = [open |-> TRUE, match |-> 0, cursor |-> 0, decision |-> Bots!None,
                  request |-> Bots!None, pending |-> {}, next |-> 1]
  BY DEF Bots!Init
<1>2. place \in Bots!Rooms /\ (place.st \in {"playing", "held", "post"} => place.match # 0)
  <2>1. PICK asks \in BOOLEAN :
          place = Bots!At("playing", 1, 1, 1, asks) \/ place = Bots!At("lobby", 0, 1, 1, asks)
    BY DEF Bots!Init
  <2>2. CASE place = Bots!At("playing", 1, 1, 1, asks)
    BY <2>2 DEF Bots!At, Bots!Rooms
  <2>3. CASE place = Bots!At("lobby", 0, 1, 1, asks)
    BY <2>3 DEF Bots!At, Bots!Rooms
  <2> QED
    BY <2>1, <2>2, <2>3
<1>3. Bots!TypeOK
  <2>1. agent \in Bots!Agents /\ action \in [request : Nat, id : Nat]
    BY <1>1 DEF Bots!Agents, Bots!None, Bots!NoAction
  <2>2. asked \in Seq(Nat \X (Nat \ {0})) /\ agent.next = Len(asked) + 1
    BY <1>1
  <2> QED
    BY <1>1, <1>2, <2>1, <2>2 DEF Bots!TypeOK
<1>4. Bots!TrackerInv
  BY <1>1 DEF Bots!TrackerInv
<1>5. Bots!CaughtInv /\ Bots!TakenInv /\ Bots!OldInv
  BY <1>1 DEF Bots!CaughtInv, Bots!TakenInv, Bots!OldInv
<1> QED
  BY <1>3, <1>4, <1>5 DEF Bots!AgentInv

LEMMA BotStep == Bots!AgentInv /\ [Bots!Next]_(Bots!vars) => Bots!AgentInv'
<1> SUFFICES ASSUME Bots!AgentInv, [Bots!Next]_(Bots!vars) PROVE Bots!AgentInv'
  OBVIOUS
<1>1. CASE \/ Bots!Start \/ Bots!Resolve \/ Bots!Other \/ Bots!Late \/ Bots!Release
           \/ Bots!Abort \/ Bots!BackToLobby \/ Bots!Close
  BY <1>1, RoomActsOn
<1>2. CASE Bots!Sync
  BY <1>2, SyncKeeps
<1>3. CASE Bots!Dropped
  BY <1>3, DroppedKeeps
<1>4. CASE Bots!Age
  BY <1>4, AgeKeeps
<1>5. CASE Bots!Submit
  BY <1>5, SubmitKeeps
<1>6. ASSUME NEW r \in 0 .. Len(asked) + 1, Bots!Reply(r)
      PROVE  Bots!AgentInv'
  <2>1. r \in Nat
    BY DEF Bots!AgentInv, Bots!TypeOK
  <2> QED
    BY <1>6, <2>1, ReplyKeeps
<1>7. CASE UNCHANGED Bots!vars
  <2>1. UNCHANGED <<place, notes, on, agent, old, action, asked, taken>>
    BY <1>7 DEF Bots!vars
  <2> QED
    BY <2>1, StillHolds
       DEF Bots!AgentInv, Bots!TypeOK, Bots!TrackerInv, Bots!CaughtInv, Bots!TakenInv, Bots!OldInv
<1> QED
  BY <1>1, <1>2, <1>3, <1>4, <1>5, <1>6, <1>7 DEF Bots!Next

\* The invariant says that a Bot is asked and heard as it must be.
LEMMA BotAnswers == Bots!AgentInv => Bots!BotsAnswer
<1> SUFFICES ASSUME Bots!AgentInv PROVE Bots!BotsAnswer
  OBVIOUS
<1> USE DEF Bots!AgentInv
<1>1. Bots!AsksWhatIsOpen
  BY DEF Bots!AsksWhatIsOpen, Bots!Caught, Bots!CaughtInv
<1>2. Bots!AnswersWhatWasAsked
  BY DEF Bots!AnswersWhatWasAsked, Bots!TrackerInv, Bots!TakenInv
<1>3. ASSUME ~LongTime PROVE Bots!TimeIsKept
  <2> SUFFICES ASSUME Bots!Caught, Bots!Chooses, place.time
               PROVE  agent.request \in Bots!Live(agent)
    BY DEF Bots!TimeIsKept
  <2>1. agent.request # Bots!None /\ asked[agent.request] = Bots!Place
    BY DEF Bots!CaughtInv, Bots!Caught, Bots!Chooses
  <2>2. ~Bots!Passed(Bots!Place)
    BY DEF Bots!Passed, Bots!Before, Bots!Place, Bots!TypeOK, Bots!Rooms
  <2>3. agent.request \notin old
    BY <1>3, <2>1, <2>2 DEF Bots!OldInv
  <2> QED
    BY <2>1, <2>3 DEF Bots!Live, Bots!TrackerInv
<1> QED
  BY <1>1, <1>2, <1>3 DEF Bots!BotsAnswer

\* The socket of a Mjai Bot asks it about the Decision that is open for it, once it has
\* read its notifications, takes one reply to a request and gives it to the Decision it was
\* asked about, and refuses none that comes in time, unless the Decision outlasts the
\* reply window (compat.rs sync_room, room_reply; mjai lib.rs ReplyTracker).
THEOREM BotsAreHeard == Bots!Spec => []Bots!BotsAnswer
BY BotInit, BotStep, BotAnswers, PTL DEF Bots!Spec

-----------------------------------------------------------------------------
(* The frames of a replay: what the file keeps of the tiles *)

CONSTANTS N, ThreePlayers, HandSize, Kinds, Fives, North, Deals, Kyokus

VARIABLES table, frame

Film == INSTANCE ReplayFrames WITH Sanma <- ThreePlayers

Seats == Film!Seats
Tiles == Film!Tiles

\* A tile after the file.
Filed(t) == Film!Parsed(Film!Name(t))

\* Tiles after the file, in their order.
FiledEach(seq) == [i \in DOMAIN seq |-> Filed(seq[i])]

\* A hand as the reader shows it.
Shown(hand) == [t \in Tiles |-> Cardinality({u \in hand : Filed(u) = t})]

\* The instance counts as the library does.
LEMMA FilmCounts == \A X : Film!Cardinality(X) = Cardinality(X)
BY DEF Film!Cardinality, Cardinality

LEMMA FiledTwice ==
  ASSUME NEW t
  PROVE  /\ Filed(Filed(t)) = Filed(t)
         /\ Film!Name(Filed(t)) = Film!Name(t)
         /\ Film!Kind(Filed(t)) = Film!Kind(t)
<1> DEFINE red == Film!Kind(t) \in Fives /\ t[2] = 0
           copy == IF ~red /\ Film!Kind(t) \in Fives THEN 1 ELSE 0
<1>1. Film!Name(t) = [kind |-> Film!Kind(t), red |-> red]
  BY DEF Film!Name, Film!Red
<1>2. Filed(t) = <<Film!Kind(t), copy>>
  <2> HIDE DEF red
  <2> QED
    BY <1>1 DEF Filed, Film!Parsed
<1>3. Film!Kind(Filed(t)) = Film!Kind(t) /\ Filed(t)[2] = copy
  BY <1>2 DEF Film!Kind
<1>4. Film!Kind(t) \in Fives /\ copy = 0 <=> red
  OBVIOUS
<1>5. Film!Name(Filed(t)) = [kind |-> Film!Kind(t), red |-> Film!Kind(t) \in Fives /\ copy = 0]
  BY <1>3 DEF Film!Name, Film!Red
<1>6. Film!Name(Filed(t)) = Film!Name(t)
  BY <1>1, <1>4, <1>5, Zenon
<1> QED
  BY <1>3, <1>6 DEF Filed

LEMMA FiledTile ==
  ASSUME NEW t \in Tiles
  PROVE  Filed(t) \in Tiles
BY DEF Filed, Tiles, Film!Tiles, Film!Parsed, Film!Name, Film!Red, Film!Kind

LEMMA FiledSeq ==
  ASSUME NEW seq \in Seq(Tiles)
  PROVE  /\ FiledEach(seq) \in Seq(Tiles) /\ Len(FiledEach(seq)) = Len(seq)
         /\ DOMAIN FiledEach(seq) = DOMAIN seq
         /\ \A i \in DOMAIN seq : FiledEach(seq)[i] = Filed(seq[i])
<1>1. DOMAIN seq = 1..Len(seq) /\ Len(seq) \in Nat /\ \A i \in 1..Len(seq) : seq[i] \in Tiles
  BY LenProperties, ElementOfSeq
<1>2. FiledEach(seq) = [i \in 1..Len(seq) |-> Filed(seq[i])]
  BY <1>1 DEF FiledEach
<1>3. \A i \in 1..Len(seq) : Filed(seq[i]) \in Tiles
  BY <1>1, FiledTile
<1> QED
  BY <1>1, <1>2, <1>3

\* An injective sequence has each of its tiles once.
LEMMA CountFiled ==
  ASSUME NEW seq \in Seq(Tiles), Film!IsInjective(seq), NEW t
  PROVE  /\ Film!Count(FiledEach(seq), t) = Cardinality({u \in Film!ToSet(seq) : Filed(u) = t})
         /\ IsFiniteSet(Film!ToSet(seq)) /\ Cardinality(Film!ToSet(seq)) = Len(seq)
<1>1. DOMAIN seq = 1..Len(seq) /\ Len(seq) \in Nat
  BY LenProperties
<1> DEFINE A == {i \in DOMAIN seq : Filed(seq[i]) = t}
           B == {u \in Film!ToSet(seq) : Filed(u) = t}
<1>2. IsFiniteSet(DOMAIN seq) /\ Cardinality(DOMAIN seq) = Len(seq)
  BY <1>1, FS_Interval
<1>3. IsFiniteSet(A)
  BY <1>2, FS_Subset
<1>4. ExistsBijection(A, B)
  <2> DEFINE f == [i \in A |-> seq[i]]
  <2>1. f \in [A -> B]
    BY DEF Film!ToSet
  <2>2. \A i, j \in A : f[i] = f[j] => i = j
    BY DEF Film!IsInjective
  <2>3. \A u \in B : \E i \in A : f[i] = u
    BY DEF Film!ToSet
  <2>4. f \in Bijection(A, B)
    BY <2>1, <2>2, <2>3 DEF Bijection, Injection, Surjection, IsInjective
  <2> QED
    BY <2>4 DEF ExistsBijection
<1>5. Cardinality(A) = Cardinality(B)
  BY <1>3, <1>4, FS_Bijection
<1>6. Film!Count(FiledEach(seq), t) = Cardinality(A)
  <2>1. {i \in DOMAIN FiledEach(seq) : FiledEach(seq)[i] = t} = A
    BY DEF FiledEach
  <2> QED
    BY <2>1, FilmCounts DEF Film!Count
<1>7. ExistsBijection(DOMAIN seq, Film!ToSet(seq))
  <2>1. \A i \in DOMAIN seq : seq[i] \in Film!ToSet(seq)
    BY DEF Film!ToSet
  <2>2. seq \in [DOMAIN seq -> Film!ToSet(seq)]
    BY <1>1, <2>1
  <2>3. seq \in Bijection(DOMAIN seq, Film!ToSet(seq))
    BY <2>2 DEF Bijection, Injection, Surjection, IsInjective, Film!ToSet, Film!IsInjective
  <2> QED
    BY <2>3 DEF ExistsBijection
<1>8. IsFiniteSet(Film!ToSet(seq)) /\ Cardinality(Film!ToSet(seq)) = Len(seq)
  BY <1>2, <1>7, FS_Bijection
<1> QED
  BY <1>5, <1>6, <1>8

\* The tiles of a set in some order.
LEMMA InOrder ==
  ASSUME NEW S \in SUBSET Tiles, IsFiniteSet(S)
  PROVE  /\ Film!SetToSeq(S) \in Seq(Tiles) /\ Film!IsInjective(Film!SetToSeq(S))
         /\ Film!ToSet(Film!SetToSeq(S)) = S
         /\ Len(Film!SetToSeq(S)) = Cardinality(S)
<1> DEFINE n == Cardinality(S)
           q == Film!SetToSeq(S)
<1>1. n \in Nat /\ ExistsBijection(1..n, S)
  BY FS_CardinalityType
<1>2. PICK f \in Bijection(1..n, S) : TRUE
  BY <1>1 DEF ExistsBijection
<1>3. f \in [1..n -> S] /\ Film!IsInjective(f)
  BY <1>2 DEF Bijection, Injection, Film!IsInjective, IsInjective
<1>4. q = CHOOSE g \in [1..n -> S] : Film!IsInjective(g)
  BY FilmCounts DEF Film!SetToSeq
<1> HIDE DEF q
<1>5. q \in [1..n -> S] /\ Film!IsInjective(q)
  BY <1>3, <1>4
<1>6. q \in Seq(Tiles) /\ Len(q) = n
  BY <1>1, <1>5
<1>7. IsFiniteSet(Film!ToSet(q)) /\ Cardinality(Film!ToSet(q)) = n
  BY <1>5, <1>6, CountFiled
<1>8. Film!ToSet(q) \in SUBSET S
  BY <1>5 DEF Film!ToSet
<1>9. Film!ToSet(q) = S
  BY <1>7, <1>8, FS_Subset
<1> QED
  BY <1>5, <1>6, <1>9 DEF q

\* The hand that is dealt.
LEMMA Dealt ==
  ASSUME NEW seq \in Seq(Tiles), Film!IsInjective(seq)
  PROVE  Film!HandOf(FiledEach(seq)) = Shown(Film!ToSet(seq))
BY CountFiled DEF Film!HandOf, Shown, Tiles

\* A tile that comes in.
LEMMA Gains ==
  ASSUME NEW hand \in SUBSET Tiles, IsFiniteSet(hand), NEW x \in Tiles, x \notin hand
  PROVE  Film!Plus(Shown(hand), FiledEach(<<x>>)) = Shown(hand \cup {x})
<1>1. <<x>> \in Seq(Tiles) /\ Film!IsInjective(<<x>>) /\ Film!ToSet(<<x>>) = {x}
  BY DEF Film!IsInjective, Film!ToSet
<1>2. ASSUME NEW t \in Tiles
      PROVE  Shown(hand)[t] + Film!Count(FiledEach(<<x>>), t) = Shown(hand \cup {x})[t]
  <2> DEFINE A == {u \in hand : Filed(u) = t}
             B == {u \in {x} : Filed(u) = t}
             AB == {u \in hand \cup {x} : Filed(u) = t}
  <2>1. Film!Count(FiledEach(<<x>>), t) = Cardinality(B)
    BY <1>1, CountFiled
  <2>2. IsFiniteSet(A) /\ IsFiniteSet(B)
    BY FS_Subset, FS_Singleton
  <2>3. AB = A \cup B /\ A \cap B = {}
    OBVIOUS
  <2>4. Cardinality(A \cup B) = Cardinality(A) + Cardinality(B) - Cardinality(A \cap B)
        /\ Cardinality(A) \in Nat /\ Cardinality(B) \in Nat
    BY <2>2, FS_Union, FS_CardinalityType
  <2>5. Shown(hand)[t] = Cardinality(A) /\ Shown(hand \cup {x})[t] = Cardinality(AB)
    BY DEF Shown
  <2> HIDE DEF A, B, AB
  <2>6. Cardinality(AB) = Cardinality(A) + Cardinality(B)
    <3>1. Cardinality(A \cap B) = 0
      BY <2>3, FS_EmptySet, Zenon
    <3>2. Cardinality(AB) = Cardinality(A) + Cardinality(B) - 0
      BY <2>3, <2>4, <3>1, Zenon
    <3> QED
      BY <2>4, <3>2
  <2> QED
    BY <2>1, <2>5, <2>6
<1> QED
  BY <1>2 DEF Film!Plus, Shown, Tiles

\* Tiles that go out.
LEMMA Loses ==
  ASSUME NEW hand \in SUBSET Tiles, IsFiniteSet(hand), NEW seq \in Seq(Tiles),
         Film!IsInjective(seq), Film!ToSet(seq) \subseteq hand
  PROVE  /\ Film!Holds(Shown(hand), FiledEach(seq))
         /\ Film!Without(Shown(hand), FiledEach(seq)) = Shown(hand \ Film!ToSet(seq))
<1> DEFINE out == Film!ToSet(seq)
<1>1. ASSUME NEW t \in Tiles
      PROVE  /\ Shown(hand)[t] >= Film!Count(FiledEach(seq), t)
             /\ Shown(hand)[t] - Film!Count(FiledEach(seq), t) = Shown(hand \ out)[t]
  <2> DEFINE A == {u \in hand : Filed(u) = t}
             B == {u \in out : Filed(u) = t}
             Rest == {u \in hand \ out : Filed(u) = t}
  <2>1. Film!Count(FiledEach(seq), t) = Cardinality(B)
    BY CountFiled
  <2>2. IsFiniteSet(A)
    BY FS_Subset
  <2>3. Rest = A \ B /\ A \cap B = B /\ B \in SUBSET A
    OBVIOUS
  <2>4. Cardinality(A \ B) = Cardinality(A) - Cardinality(A \cap B)
        /\ Cardinality(A) \in Nat /\ Cardinality(B) \in Nat /\ Cardinality(B) <= Cardinality(A)
    BY <2>2, <2>3, FS_Difference, FS_CardinalityType, FS_Subset
  <2>5. Cardinality(Rest) = Cardinality(A) - Cardinality(B)
    BY <2>3, <2>4
  <2>6. Shown(hand)[t] = Cardinality(A) /\ Shown(hand \ out)[t] = Cardinality(Rest)
    BY DEF Shown
  <2> QED
    BY <2>1, <2>4, <2>5, <2>6
<1> QED
  BY <1>1 DEF Film!Holds, Film!Without, Shown, Tiles

\* The reader shows a name as often as the hand has it.
LEMMA ShowsNames ==
  ASSUME NEW hand \in SUBSET Tiles, IsFiniteSet(hand), NEW tile \in Tiles
  PROVE  Film!Shows(Shown(hand), Film!Name(tile))
           = Cardinality({t \in hand : Film!Name(t) = Film!Name(tile)})
<1> DEFINE n == Film!Name(tile)
           k == n.kind
           c0 == Filed(tile)[2]
           Of(c) == IF Film!Name(<<k, c>>) = n THEN Shown(hand)[<<k, c>>] ELSE 0
           A == {t \in hand : Film!Name(t) = n}
<1>1. k = Film!Kind(tile) /\ Filed(tile) = <<k, c0>> /\ c0 \in {0, 1} /\ k \in Kinds
      /\ n.red \in BOOLEAN
  BY DEF Filed, Film!Parsed, Film!Name, Film!Kind, Film!Red, Tiles, Film!Tiles
<1>2. \A c \in 0..3 : <<k, c>> \in Tiles
  BY <1>1 DEF Tiles, Film!Tiles
<1>3. \A c \in 0..3 :
        Of(c) = IF Film!Name(<<k, c>>) = n THEN Cardinality({u \in hand : Filed(u) = <<k, c>>}) ELSE 0
  BY <1>2 DEF Shown
<1>4. Film!Name(<<k, c0>>) = n
  BY <1>1, FiledTwice
<1>5. {u \in hand : Filed(u) = <<k, c0>>} = A
  <2>1. \A u \in hand : Filed(u) = <<k, c0>> => Film!Name(u) = n
    BY <1>4, FiledTwice
  <2>2. \A u \in hand : Film!Name(u) = n => Filed(u) = <<k, c0>>
    BY <1>1 DEF Filed
  <2> QED
    BY <2>1, <2>2
<1>6. ASSUME NEW c \in 0..3, c # c0
      PROVE  Of(c) = 0
  <2>1. CASE Film!Name(<<k, c>>) = n
    <3>1. ASSUME NEW u \in hand, Filed(u) = <<k, c>>
          PROVE  FALSE
      <4>1. Film!Name(u) = n
        BY <2>1, <3>1, FiledTwice
      <4>2. Filed(u) = Filed(tile)
        BY <4>1 DEF Filed
      <4> QED
        BY <1>1, <1>6, <3>1, <4>2
    <3>2. {u \in hand : Filed(u) = <<k, c>>} = {}
      BY <3>1
    <3> QED
      BY <1>3, <3>2, FS_EmptySet
  <2>2. CASE Film!Name(<<k, c>>) # n
    BY <2>2
  <2> QED
    BY <2>1, <2>2
<1>7. Of(c0) = Cardinality(A)
  <2>1. c0 \in 0..3
    BY <1>1
  <2> HIDE DEF n, k, c0, A
  <2>2. Of(c0) = Cardinality({u \in hand : Filed(u) = <<k, c0>>})
    BY <1>3, <1>4, <2>1, Zenon
  <2> QED
    BY <1>5, <2>2, Zenon
<1>8. Cardinality(A) \in Nat
  BY FS_Subset, FS_CardinalityType
<1>9. Film!Shows(Shown(hand), n) = Of(0) + Of(1) + Of(2) + Of(3)
  BY DEF Film!Shows
<1> HIDE DEF Of, A, n, k, c0
<1> QED
  BY <1>1, <1>6, <1>7, <1>8, <1>9 DEF A, n

-----------------------------------------------------------------------------
(* Events through the file *)

\* An event with all its fields.
Event(kind, actor, target, tile, tiles, hands) ==
  [kind |-> kind, actor |-> actor, target |-> target, tile |-> tile, tiles |-> tiles,
   hands |-> hands]

FiledHands(hands) == [s \in DOMAIN hands |-> FiledEach(hands[s])]

LEMMA EachFiled ==
  ASSUME NEW seq
  PROVE  /\ Film!Each(Film!Each(seq, Film!Name), Film!Parsed) = FiledEach(seq)
         /\ FiledEach(FiledEach(seq)) = FiledEach(seq)
         /\ Film!Each(FiledEach(seq), Film!Name) = Film!Each(seq, Film!Name)
<1>1. Film!Each(Film!Each(seq, Film!Name), Film!Parsed) = FiledEach(seq)
  BY DEF Film!Each, FiledEach, Filed
<1>2. \A i \in DOMAIN seq : Filed(Filed(seq[i])) = Filed(seq[i])
                            /\ Film!Name(Filed(seq[i])) = Film!Name(seq[i])
  BY FiledTwice
<1> QED
  BY <1>1, <1>2 DEF FiledEach, Film!Each

LEMMA HandsFiled ==
  ASSUME NEW hands
  PROVE  /\ Film!EachHand(Film!EachHand(hands, Film!Name), Film!Parsed) = FiledHands(hands)
         /\ FiledHands(FiledHands(hands)) = FiledHands(hands)
<1>1. ASSUME NEW s \in DOMAIN hands
      PROVE  /\ Film!Each(Film!Each(hands[s], Film!Name), Film!Parsed) = FiledEach(hands[s])
             /\ FiledEach(FiledEach(hands[s])) = FiledEach(hands[s])
  BY EachFiled
<1>2. Film!EachHand(Film!EachHand(hands, Film!Name), Film!Parsed)
        = [s \in DOMAIN hands |-> Film!Each(Film!Each(hands[s], Film!Name), Film!Parsed)]
  BY DEF Film!EachHand
<1> QED
  BY <1>1, <1>2 DEF FiledHands

\* Written and read, once or twice, an event keeps the names of its tiles.
LEMMA WrittenAndRead ==
  ASSUME NEW kind, NEW actor, NEW target, NEW tile, NEW tiles, NEW hands
  PROVE  Film!Read(Film!Written(Event(kind, actor, target, tile, tiles, hands)))
           = Event(kind, actor, target, FiledEach(tile), FiledEach(tiles), FiledHands(hands))
<1>1. \A a, b, c, x : [Event(kind, actor, target, a, b, c) EXCEPT !.tile = x]
                        = Event(kind, actor, target, x, b, c)
  BY DEF Event
<1>2. \A a, b, c, y : [Event(kind, actor, target, a, b, c) EXCEPT !.tiles = y]
                        = Event(kind, actor, target, a, y, c)
  BY DEF Event
<1>3. \A a, b, c, z : [Event(kind, actor, target, a, b, c) EXCEPT !.hands = z]
                        = Event(kind, actor, target, a, b, z)
  BY DEF Event
<1>4. \A a, b, c :
        LET e == Event(kind, actor, target, a, b, c)
        IN  e.tile = a /\ e.tiles = b /\ e.hands = c
  BY DEF Event
<1>5. \A a, b, c :
        Film!Written(Event(kind, actor, target, a, b, c))
          = Event(kind, actor, target, Film!Each(a, Film!Name), Film!Each(b, Film!Name),
                  Film!EachHand(c, Film!Name))
  <2> TAKE a, b, c
  <2> DEFINE e == Event(kind, actor, target, a, b, c)
             x == Film!Each(a, Film!Name)
             y == Film!Each(b, Film!Name)
             z == Film!EachHand(c, Film!Name)
  <2>1. Film!Written(e) = [e EXCEPT !.tile = Film!Each(e.tile, Film!Name),
                             !.tiles = Film!Each(e.tiles, Film!Name),
                             !.hands = Film!EachHand(e.hands, Film!Name)]
    BY DEF Film!Written, Film!Mapped
  <2>2. e.tile = a /\ e.tiles = b /\ e.hands = c
    BY <1>4
  <2>3. Film!Written(e) = [e EXCEPT !.tile = x, !.tiles = y, !.hands = z]
    BY <2>1, <2>2
  <2> HIDE DEF e, x, y, z
  <2>4. [Event(kind, actor, target, a, b, c) EXCEPT !.tile = x] = Event(kind, actor, target, x, b, c)
    BY <1>1
  <2>5. [Event(kind, actor, target, x, b, c) EXCEPT !.tiles = y] = Event(kind, actor, target, x, y, c)
    BY <1>2
  <2>6. [Event(kind, actor, target, x, y, c) EXCEPT !.hands = z] = Event(kind, actor, target, x, y, z)
    BY <1>3
  <2> QED
    BY <2>3, <2>4, <2>5, <2>6 DEF e, x, y, z
<1>6. \A a, b, c :
        Film!Read(Event(kind, actor, target, a, b, c))
          = Event(kind, actor, target, Film!Each(a, Film!Parsed), Film!Each(b, Film!Parsed),
                  Film!EachHand(c, Film!Parsed))
  <2> TAKE a, b, c
  <2> DEFINE e == Event(kind, actor, target, a, b, c)
             x == Film!Each(a, Film!Parsed)
             y == Film!Each(b, Film!Parsed)
             z == Film!EachHand(c, Film!Parsed)
  <2>1. Film!Read(e) = [e EXCEPT !.tile = Film!Each(e.tile, Film!Parsed),
                          !.tiles = Film!Each(e.tiles, Film!Parsed),
                          !.hands = Film!EachHand(e.hands, Film!Parsed)]
    BY DEF Film!Read, Film!Mapped
  <2>2. e.tile = a /\ e.tiles = b /\ e.hands = c
    BY <1>4
  <2>3. Film!Read(e) = [e EXCEPT !.tile = x, !.tiles = y, !.hands = z]
    BY <2>1, <2>2
  <2> HIDE DEF e, x, y, z
  <2>4. [Event(kind, actor, target, a, b, c) EXCEPT !.tile = x] = Event(kind, actor, target, x, b, c)
    BY <1>1
  <2>5. [Event(kind, actor, target, x, b, c) EXCEPT !.tiles = y] = Event(kind, actor, target, x, y, c)
    BY <1>2
  <2>6. [Event(kind, actor, target, x, y, c) EXCEPT !.hands = z] = Event(kind, actor, target, x, y, z)
    BY <1>3
  <2> QED
    BY <2>3, <2>4, <2>5, <2>6 DEF e, x, y, z
<1> QED
  BY <1>5, <1>6, EachFiled, HandsFiled

LEMMA Through ==
  ASSUME NEW kind, NEW actor, NEW target, NEW tile, NEW tiles, NEW hands
  PROVE  Film!Read(Film!Written(Film!Logged(Event(kind, actor, target, tile, tiles, hands))))
           = Event(kind, actor, target, FiledEach(tile), FiledEach(tiles), FiledHands(hands))
<1> DEFINE e == Event(kind, actor, target, tile, tiles, hands)
<1>1. Film!Logged(e) = Event(kind, actor, target, FiledEach(tile),
                             IF kind = "kakan" THEN tiles ELSE FiledEach(tiles), FiledHands(hands))
  <2>1. e.kind = kind /\ e.tiles = tiles
    BY DEF Event
  <2>2. Film!Read(Film!Written(e))
          = Event(kind, actor, target, FiledEach(tile), FiledEach(tiles), FiledHands(hands))
    BY WrittenAndRead
  <2>3. \A a, b, c, x : [Event(kind, actor, target, a, b, c) EXCEPT !.tiles = x]
                          = Event(kind, actor, target, a, x, c)
    BY DEF Event
  <2> HIDE DEF e
  <2> QED
    BY <2>1, <2>2, <2>3 DEF Film!Logged
<1> QED
  BY <1>1, WrittenAndRead, EachFiled, HandsFiled

LEMMA EventFields ==
  ASSUME NEW kind, NEW actor, NEW target, NEW tile, NEW tiles, NEW hands, NEW x
  PROVE  LET e == Event(kind, actor, target, tile, tiles, hands)
         IN  /\ e.kind = kind /\ e.actor = actor /\ e.target = target
             /\ e.tile = tile /\ e.tiles = tiles /\ e.hands = hands
             /\ [e EXCEPT !.kind = x] = Event(x, actor, target, tile, tiles, hands)
             /\ [e EXCEPT !.actor = x] = Event(kind, x, target, tile, tiles, hands)
             /\ [e EXCEPT !.target = x] = Event(kind, actor, x, tile, tiles, hands)
             /\ [e EXCEPT !.tile = x] = Event(kind, actor, target, x, tiles, hands)
             /\ [e EXCEPT !.tiles = x] = Event(kind, actor, target, tile, x, hands)
             /\ [e EXCEPT !.hands = x] = Event(kind, actor, target, tile, tiles, x)
BY DEF Event

\* The events the engine logs.
LEMMA EvEvent ==
  ASSUME NEW kind, NEW actor
  PROVE  Film!Ev(kind, actor) = Event(kind, actor, 1, <<>>, <<>>, <<>>)
<1> DEFINE no == ""
<1>1. Film!Blank = Event(no, 1, 1, <<>>, <<>>, <<>>)
  BY DEF Film!Blank, Event
<1> HIDE DEF no
<1>2. [Event(no, 1, 1, <<>>, <<>>, <<>>) EXCEPT !.kind = kind]
        = Event(kind, 1, 1, <<>>, <<>>, <<>>)
  BY EventFields
<1>3. [Event(kind, 1, 1, <<>>, <<>>, <<>>) EXCEPT !.actor = actor]
        = Event(kind, actor, 1, <<>>, <<>>, <<>>)
  BY EventFields
<1> QED
  BY <1>1, <1>2, <1>3 DEF Film!Ev

LEMMA WithEvent ==
  ASSUME NEW kind, NEW actor, NEW x, NEW tiles
  PROVE  Film!With(kind, actor, x, tiles) = Event(kind, actor, 1, <<x>>, tiles, <<>>)
<1>1. [Event(kind, actor, 1, <<>>, <<>>, <<>>) EXCEPT !.tile = <<x>>]
        = Event(kind, actor, 1, <<x>>, <<>>, <<>>)
  BY EventFields
<1>2. [Event(kind, actor, 1, <<x>>, <<>>, <<>>) EXCEPT !.tiles = tiles]
        = Event(kind, actor, 1, <<x>>, tiles, <<>>)
  BY EventFields
<1> QED
  BY EvEvent, <1>1, <1>2 DEF Film!With

LEMMA FromEvent ==
  ASSUME NEW kind, NEW actor, NEW target, NEW x, NEW tiles
  PROVE  Film!From(Film!With(kind, actor, x, tiles), target)
           = Event(kind, actor, target, <<x>>, tiles, <<>>)
<1>1. [Event(kind, actor, 1, <<x>>, tiles, <<>>) EXCEPT !.target = target]
        = Event(kind, actor, target, <<x>>, tiles, <<>>)
  BY EventFields
<1> QED
  BY WithEvent, <1>1 DEF Film!From

LEMMA TilesEvent ==
  ASSUME NEW kind, NEW actor, NEW target, NEW tiles
  PROVE  Film!From([Film!Ev(kind, actor) EXCEPT !.tiles = tiles], target)
           = Event(kind, actor, target, <<>>, tiles, <<>>)
<1>1. [Event(kind, actor, 1, <<>>, <<>>, <<>>) EXCEPT !.tiles = tiles]
        = Event(kind, actor, 1, <<>>, tiles, <<>>)
  BY EventFields
<1>2. [Event(kind, actor, 1, <<>>, tiles, <<>>) EXCEPT !.target = target]
        = Event(kind, actor, target, <<>>, tiles, <<>>)
  BY EventFields
<1> QED
  BY EvEvent, <1>1, <1>2 DEF Film!From

LEMMA HandsEvent ==
  ASSUME NEW kind, NEW actor, NEW hands
  PROVE  [Film!Ev(kind, actor) EXCEPT !.hands = hands]
           = Event(kind, actor, 1, <<>>, <<>>, hands)
<1>1. [Event(kind, actor, 1, <<>>, <<>>, <<>>) EXCEPT !.hands = hands]
        = Event(kind, actor, 1, <<>>, <<>>, hands)
  BY EventFields
<1> QED
  BY EvEvent, <1>1

\* Nothing and one tile, after the file.
LEMMA FiledNone == FiledEach(<<>>) = <<>> /\ FiledHands(<<>>) = <<>>
BY DEF FiledEach, FiledHands

LEMMA FiledOne ==
  ASSUME NEW x
  PROVE  FiledEach(<<x>>) = <<Filed(x)>>
BY DEF FiledEach

-----------------------------------------------------------------------------
(* The reader, event by event *)

\* Truth values that are not unfolded.
Yes == TRUE
No == FALSE

\* What the reader has, with all its fields.
Reader(ok, active, hands, melds, discards, riichi, pending, index) ==
  [ok |-> ok, active |-> active, hands |-> hands, melds |-> melds, discards |-> discards,
   riichi |-> riichi, pending |-> pending, index |-> index]

-----------------------------------------------------------------------------
(* Where the tiles are *)

MeldType == [tiles : Seq(Tiles), opened : BOOLEAN, from : Seats]

TableType ==
  [hands : [Seats -> SUBSET Tiles], wall : Seq(Tiles), melds : [Seats -> Seq(MeldType)],
   discards : [Seats -> Seq(Tiles)], riichi : SUBSET Seats, index : [Seats -> Nat],
   turn : Seats, phase : {"draw", "act", "respond", "over"}, last : Seq(Tiles),
   drawn : Seq(Tiles), kyoku : Nat]

\* The tiles of a hand are in no other and are not loose.
HandsApart(hands, loose) ==
  \A s \in Seats : /\ IsFiniteSet(hands[s]) /\ hands[s] \cap loose = {}
                   /\ \A r \in Seats \ {s} : hands[s] \cap hands[r] = {}

\* Those of a meld are in no hand and in no other meld of the Seat.
MeldsApart(hands, melds, loose) ==
  \A s \in Seats : \A i \in DOMAIN melds[s] :
    LET meld == Film!ToSet(melds[s][i].tiles) IN
    /\ Film!IsInjective(melds[s][i].tiles) /\ meld \cap loose = {}
    /\ \A r \in Seats : meld \cap hands[r] = {}
    /\ \A j \in DOMAIN melds[s] \ {i} : meld \cap Film!ToSet(melds[s][j].tiles) = {}

\* The wall and the discard that waits for an answer are loose.
LooseApart(t) ==
  /\ Film!IsInjective(t.wall) /\ Film!ToSet(t.last) \cap Film!ToSet(t.wall) = {}
  /\ t.phase \in {"draw", "act"} => t.last = <<>>
  /\ t.phase = "respond" => Len(t.last) = 1

Loose(t) == Film!ToSet(t.wall) \cup Film!ToSet(t.last)

TableOk(t) ==
  /\ t \in TableType
  /\ HandsApart(t.hands, Loose(t))
  /\ MeldsApart(t.hands, t.melds, Loose(t))
  /\ LooseApart(t)

\* A hand gains a loose tile.
LEMMA HandGains ==
  ASSUME NEW hands \in [Seats -> SUBSET Tiles], NEW melds \in [Seats -> Seq(MeldType)], NEW loose,
         HandsApart(hands, loose), MeldsApart(hands, melds, loose),
         NEW a \in Seats, NEW x \in loose, x \in Tiles
  PROVE  LET hands1 == [hands EXCEPT ![a] = @ \cup {x}] IN
         /\ hands1 \in [Seats -> SUBSET Tiles]
         /\ HandsApart(hands1, loose \ {x}) /\ MeldsApart(hands1, melds, loose \ {x})
<1> DEFINE hands1 == [hands EXCEPT ![a] = @ \cup {x}]
           loose1 == loose \ {x}
<1>1. hands1 \in [Seats -> SUBSET Tiles]
  OBVIOUS
<1>2. \A s \in Seats : hands1[s] = IF s = a THEN hands[s] \cup {x} ELSE hands[s]
  OBVIOUS
<1> HIDE DEF hands1
<1>3. ASSUME NEW s \in Seats
      PROVE  /\ IsFiniteSet(hands1[s]) /\ hands1[s] \cap loose1 = {}
             /\ \A r \in Seats \ {s} : hands1[s] \cap hands1[r] = {}
  <2>1. IsFiniteSet(hands[s]) /\ IsFiniteSet(hands[s] \cup {x})
    BY FS_AddElement DEF HandsApart
  <2>2. IsFiniteSet(hands1[s])
    BY <1>2, <2>1
  <2>3. hands1[s] \cap loose1 = {}
    BY <1>2 DEF HandsApart
  <2>4. ASSUME NEW r \in Seats \ {s}
        PROVE  hands1[s] \cap hands1[r] = {}
    BY <1>2, ZenonT(60) DEF HandsApart
  <2> QED
    BY <2>2, <2>3, <2>4
<1>4. HandsApart(hands1, loose1)
  BY <1>3 DEF HandsApart
<1>5. MeldsApart(hands1, melds, loose1)
  <2> SUFFICES ASSUME NEW s \in Seats, NEW i \in DOMAIN melds[s]
               PROVE  LET meld == Film!ToSet(melds[s][i].tiles) IN
                      /\ Film!IsInjective(melds[s][i].tiles) /\ meld \cap loose1 = {}
                      /\ \A r \in Seats : meld \cap hands1[r] = {}
                      /\ \A j \in DOMAIN melds[s] \ {i} : meld \cap Film!ToSet(melds[s][j].tiles) = {}
    BY DEF MeldsApart
  <2> DEFINE meld == Film!ToSet(melds[s][i].tiles)
  <2>1. /\ Film!IsInjective(melds[s][i].tiles) /\ meld \cap loose = {}
        /\ \A r \in Seats : meld \cap hands[r] = {}
        /\ \A j \in DOMAIN melds[s] \ {i} : meld \cap Film!ToSet(melds[s][j].tiles) = {}
    BY DEF MeldsApart
  <2> HIDE DEF meld
  <2>2. meld \cap loose1 = {} /\ \A r \in Seats : meld \cap hands1[r] = {}
    BY <1>2, <2>1
  <2> QED
    BY <2>1, <2>2 DEF meld
<1> QED
  BY <1>1, <1>4, <1>5 DEF hands1

\* Hands lose tiles, and what becomes loose was in a hand and is in none.
Lost(hands, loose, hands1, loose1) ==
  /\ \A s \in Seats : hands1[s] \in SUBSET hands[s] /\ hands1[s] \cap loose1 = {}
  /\ \A x \in loose1 : x \in loose \/ \E s \in Seats : x \in hands[s]

LEMMA HandsLose ==
  ASSUME NEW hands \in [Seats -> SUBSET Tiles], NEW melds \in [Seats -> Seq(MeldType)], NEW loose,
         HandsApart(hands, loose), MeldsApart(hands, melds, loose), NEW hands1, NEW loose1,
         Lost(hands, loose, hands1, loose1)
  PROVE  HandsApart(hands1, loose1) /\ MeldsApart(hands1, melds, loose1)
<1>1. ASSUME NEW s \in Seats
      PROVE  /\ IsFiniteSet(hands1[s]) /\ hands1[s] \cap loose1 = {}
             /\ \A r \in Seats \ {s} : hands1[s] \cap hands1[r] = {}
  <2>1. IsFiniteSet(hands[s]) /\ hands1[s] \in SUBSET hands[s]
    BY DEF HandsApart, Lost
  <2>2. IsFiniteSet(hands1[s])
    BY <2>1, FS_Subset
  <2>3. ASSUME NEW r \in Seats \ {s}
        PROVE  hands1[s] \cap hands1[r] = {}
    <3>1. hands1[r] \in SUBSET hands[r] /\ hands[s] \cap hands[r] = {}
      BY DEF HandsApart, Lost
    <3> QED
      BY <2>1, <3>1
  <2> QED
    BY <2>2, <2>3 DEF Lost
<1>2. HandsApart(hands1, loose1)
  BY <1>1 DEF HandsApart
<1>3. MeldsApart(hands1, melds, loose1)
  <2> SUFFICES ASSUME NEW s \in Seats, NEW i \in DOMAIN melds[s]
               PROVE  LET meld == Film!ToSet(melds[s][i].tiles) IN
                      /\ Film!IsInjective(melds[s][i].tiles) /\ meld \cap loose1 = {}
                      /\ \A r \in Seats : meld \cap hands1[r] = {}
                      /\ \A j \in DOMAIN melds[s] \ {i} : meld \cap Film!ToSet(melds[s][j].tiles) = {}
    BY DEF MeldsApart
  <2> DEFINE meld == Film!ToSet(melds[s][i].tiles)
  <2>1. /\ Film!IsInjective(melds[s][i].tiles) /\ meld \cap loose = {}
        /\ \A r \in Seats : meld \cap hands[r] = {}
        /\ \A j \in DOMAIN melds[s] \ {i} : meld \cap Film!ToSet(melds[s][j].tiles) = {}
    BY DEF MeldsApart
  <2> HIDE DEF meld
  <2>2. meld \cap loose1 = {}
    BY <2>1 DEF Lost
  <2>3. \A r \in Seats : meld \cap hands1[r] = {}
    BY <2>1 DEF Lost
  <2> QED
    BY <2>1, <2>2, <2>3 DEF meld
<1> QED
  BY <1>2, <1>3

LEMMA Appended ==
  ASSUME NEW seq \in Seq(Tiles), Film!IsInjective(seq), NEW x \in Tiles, x \notin Film!ToSet(seq)
  PROVE  /\ Append(seq, x) \in Seq(Tiles) /\ Film!IsInjective(Append(seq, x))
         /\ Film!ToSet(Append(seq, x)) = Film!ToSet(seq) \cup {x}
         /\ Len(Append(seq, x)) = Len(seq) + 1
<1> DEFINE q == Append(seq, x)
<1>1. /\ q \in Seq(Tiles) /\ Len(q) = Len(seq) + 1 /\ q[Len(seq) + 1] = x
      /\ \A i \in 1..Len(seq) : q[i] = seq[i]
  BY AppendProperties
<1>2. DOMAIN seq = 1..Len(seq) /\ DOMAIN q = 1..Len(seq) + 1 /\ Len(seq) \in Nat
  BY <1>1, LenProperties
<1> HIDE DEF q
<1>3. Film!ToSet(q) = Film!ToSet(seq) \cup {x}
  BY <1>1, <1>2 DEF Film!ToSet
<1>4. \A i \in 1..Len(seq) : seq[i] # x
  BY <1>2 DEF Film!ToSet
<1>5. Film!IsInjective(q)
  BY <1>1, <1>2, <1>4 DEF Film!IsInjective
<1> QED
  BY <1>1, <1>3, <1>5 DEF q

\* A Seat has one meld more.
Joins(hands, melds, loose, a, m) ==
  /\ Film!IsInjective(m.tiles) /\ Film!ToSet(m.tiles) \cap loose = {}
  /\ \A s \in Seats : Film!ToSet(m.tiles) \cap hands[s] = {}
  /\ \A j \in DOMAIN melds[a] : Film!ToSet(m.tiles) \cap Film!ToSet(melds[a][j].tiles) = {}

LEMMA MeldJoins ==
  ASSUME NEW hands \in [Seats -> SUBSET Tiles], NEW melds \in [Seats -> Seq(MeldType)], NEW loose,
         MeldsApart(hands, melds, loose), NEW a \in Seats, NEW m \in MeldType,
         Joins(hands, melds, loose, a, m), NEW melds1, melds1 = [melds EXCEPT ![a] = Append(@, m)]
  PROVE  melds1 \in [Seats -> Seq(MeldType)] /\ MeldsApart(hands, melds1, loose)
<1> DEFINE n == Len(melds[a])
<1>1. melds[a] \in Seq(MeldType) /\ n \in Nat /\ DOMAIN melds[a] = 1..n
  BY LenProperties
<1>2. /\ Append(melds[a], m) \in Seq(MeldType) /\ DOMAIN Append(melds[a], m) = 1..n + 1
      /\ Append(melds[a], m)[n + 1] = m /\ \A i \in 1..n : Append(melds[a], m)[i] = melds[a][i]
  BY <1>1, AppendProperties, LenProperties
<1>3. melds1 \in [Seats -> Seq(MeldType)] /\ melds1[a] = Append(melds[a], m)
      /\ \A s \in Seats \ {a} : melds1[s] = melds[s]
  BY <1>2
<1> HIDE DEF n
<1>4. ASSUME NEW s \in Seats, NEW i \in DOMAIN melds1[s]
      PROVE  LET meld == Film!ToSet(melds1[s][i].tiles) IN
             /\ Film!IsInjective(melds1[s][i].tiles) /\ meld \cap loose = {}
             /\ \A r \in Seats : meld \cap hands[r] = {}
             /\ \A j \in DOMAIN melds1[s] \ {i} : meld \cap Film!ToSet(melds1[s][j].tiles) = {}
  <2>1. CASE s # a
    BY <1>3, <2>1 DEF MeldsApart
  <2>2. CASE s = a /\ i = n + 1
    <3>1. melds1[s][i] = m
      BY <1>2, <1>3, <2>2
    <3>2. \A j \in DOMAIN melds1[s] \ {i} : j \in DOMAIN melds[a] /\ melds1[s][j] = melds[a][j]
      BY <1>1, <1>2, <1>3, <2>2
    <3> QED
      BY <2>2, <3>1, <3>2 DEF Joins
  <2>3. CASE s = a /\ i # n + 1
    <3>1. i \in DOMAIN melds[a] /\ melds1[s][i] = melds[a][i]
      BY <1>1, <1>2, <1>3, <2>3
    <3>2. ASSUME NEW j \in DOMAIN melds1[s] \ {i}
          PROVE  Film!ToSet(melds1[s][i].tiles) \cap Film!ToSet(melds1[s][j].tiles) = {}
      <4>1. CASE j = n + 1
        <5>1. melds1[s][j] = m
          BY <1>2, <1>3, <2>3, <4>1
        <5> QED
          BY <3>1, <5>1 DEF Joins
      <4>2. CASE j # n + 1
        <5>1. j \in DOMAIN melds[a] /\ melds1[s][j] = melds[a][j]
          BY <1>1, <1>2, <1>3, <2>3, <4>2
        <5> QED
          BY <3>1, <5>1 DEF MeldsApart
      <4> QED
        BY <4>1, <4>2
    <3>3. /\ Film!IsInjective(melds[a][i].tiles) /\ Film!ToSet(melds[a][i].tiles) \cap loose = {}
          /\ \A r \in Seats : Film!ToSet(melds[a][i].tiles) \cap hands[r] = {}
      BY <3>1 DEF MeldsApart
    <3> QED
      BY <3>1, <3>2, <3>3
  <2> QED
    BY <2>1, <2>2, <2>3
<1>5. MeldsApart(hands, melds1, loose)
  BY <1>4 DEF MeldsApart
<1> QED
  BY <1>3, <1>5

\* A meld of a Seat has one tile more.
Grows(hands, melds, loose, a, x) ==
  /\ x \notin loose /\ \A s \in Seats : x \notin hands[s]
  /\ \A j \in DOMAIN melds[a] : x \notin Film!ToSet(melds[a][j].tiles)

OneMore(melds, a, i, x) == [melds EXCEPT ![a][i].tiles = Append(@, x)]

LEMMA MeldGrows ==
  ASSUME NEW hands \in [Seats -> SUBSET Tiles], NEW melds \in [Seats -> Seq(MeldType)], NEW loose,
         MeldsApart(hands, melds, loose), NEW a \in Seats, NEW i \in DOMAIN melds[a],
         NEW x \in Tiles, Grows(hands, melds, loose, a, x),
         NEW melds1, melds1 = OneMore(melds, a, i, x)
  PROVE  melds1 \in [Seats -> Seq(MeldType)] /\ MeldsApart(hands, melds1, loose)
<1> DEFINE n == Len(melds[a])
           m == [melds[a][i] EXCEPT !.tiles = Append(@, x)]
<1>1. melds[a] \in Seq(MeldType) /\ n \in Nat /\ DOMAIN melds[a] = 1..n /\ melds[a][i] \in MeldType
  BY LenProperties, ElementOfSeq
<1>2. /\ melds[a][i].tiles \in Seq(Tiles) /\ Film!IsInjective(melds[a][i].tiles)
      /\ x \notin Film!ToSet(melds[a][i].tiles)
  BY <1>1 DEF MeldType, MeldsApart, Grows
<1>3. /\ m \in MeldType /\ Film!IsInjective(m.tiles)
      /\ Film!ToSet(m.tiles) = Film!ToSet(melds[a][i].tiles) \cup {x}
  <2>1. m.tiles = Append(melds[a][i].tiles, x)
    BY <1>1 DEF MeldType
  <2>2. Append(melds[a][i].tiles, x) \in Seq(Tiles)
    BY <1>2, Appended
  <2>3. m \in MeldType
    BY <1>1, <2>2 DEF MeldType
  <2> QED
    BY <1>2, <2>1, <2>3, Appended
<1>4. /\ melds1[a] = [melds[a] EXCEPT ![i] = m]
      /\ \A s \in Seats \ {a} : melds1[s] = melds[s]
  BY DEF OneMore
<1> HIDE DEF m
<1>5. [melds[a] EXCEPT ![i] = m] \in Seq(MeldType)
  BY <1>1, <1>3, ExceptSeq
<1>6. melds1 \in [Seats -> Seq(MeldType)]
  <2>1. melds1 = [melds EXCEPT ![a] = [melds[a] EXCEPT ![i] = m]]
    BY DEF m, OneMore
  <2> QED
    BY <1>5, <2>1
<1>7. /\ DOMAIN melds1[a] = DOMAIN melds[a] /\ melds1[a][i] = m
      /\ \A j \in DOMAIN melds[a] \ {i} : melds1[a][j] = melds[a][j]
  BY <1>1, <1>4
<1>8. ASSUME NEW s \in Seats, NEW k \in DOMAIN melds1[s]
      PROVE  LET meld == Film!ToSet(melds1[s][k].tiles) IN
             /\ Film!IsInjective(melds1[s][k].tiles) /\ meld \cap loose = {}
             /\ \A r \in Seats : meld \cap hands[r] = {}
             /\ \A j \in DOMAIN melds1[s] \ {k} : meld \cap Film!ToSet(melds1[s][j].tiles) = {}
  <2>1. CASE s # a
    BY <1>4, <2>1 DEF MeldsApart
  <2>2. CASE s = a
    <3>1. /\ Film!IsInjective(melds[a][k].tiles) /\ Film!ToSet(melds[a][k].tiles) \cap loose = {}
          /\ \A r \in Seats : Film!ToSet(melds[a][k].tiles) \cap hands[r] = {}
          /\ \A j \in DOMAIN melds[a] \ {k} :
               Film!ToSet(melds[a][k].tiles) \cap Film!ToSet(melds[a][j].tiles) = {}
          /\ k \in DOMAIN melds[a]
      BY <1>7, <2>2 DEF MeldsApart
    <3>2. CASE k = i
      <4> DEFINE was == Film!ToSet(melds[a][k].tiles)
                 new == Film!ToSet(melds1[s][k].tiles)
      <4>1. melds1[s][k] = m /\ new = was \cup {x}
        BY <1>3, <1>7, <2>2, <3>2
      <4>2. ASSUME NEW j \in DOMAIN melds1[s] \ {k}
            PROVE  melds1[s][j] = melds[a][j] /\ j \in DOMAIN melds[a] \ {k}
        BY <1>7, <2>2, <3>2
      <4> HIDE DEF was, new
      <4>3. new \cap loose = {} /\ \A r \in Seats : new \cap hands[r] = {}
        BY <3>1, <4>1 DEF was, Grows
      <4>4. ASSUME NEW j \in DOMAIN melds1[s] \ {k}
            PROVE  new \cap Film!ToSet(melds1[s][j].tiles) = {}
        <5>1. melds1[s][j] = melds[a][j] /\ j \in DOMAIN melds[a] \ {k}
          BY <4>2
        <5>2. x \notin Film!ToSet(melds[a][j].tiles)
          BY <5>1 DEF Grows
        <5>3. was \cap Film!ToSet(melds[a][j].tiles) = {}
          BY <3>1, <5>1 DEF was
        <5> QED
          BY <4>1, <5>1, <5>2, <5>3
      <4> QED
        BY <1>3, <4>1, <4>3, <4>4 DEF new
    <3>3. CASE k # i
      BY <1>3, <1>7, <2>2, <3>1, <3>3 DEF Grows
    <3> QED
      BY <3>2, <3>3
  <2> QED
    BY <2>1, <2>2
<1>9. MeldsApart(hands, melds1, loose)
  BY <1>8 DEF MeldsApart
<1> QED
  BY <1>6, <1>9

LEMMA OneTile ==
  ASSUME NEW x
  PROVE  Film!ToSet(<<x>>) = {x} /\ Film!ToSet(<<>>) = {}
BY DEF Film!ToSet

-----------------------------------------------------------------------------
(* The frame of a table *)

MeldFiled(m) == [tiles |-> FiledEach(m.tiles), opened |-> m.opened, from |-> m.from]
MeldsFiled(melds) == [i \in DOMAIN melds |-> MeldFiled(melds[i])]

ShownHands(hands) == [s \in Seats |-> Shown(hands[s])]
ShownMelds(melds) == [s \in Seats |-> MeldsFiled(melds[s])]
ShownDiscards(discards) == [s \in Seats |-> FiledEach(discards[s])]

NoSeats == {}
Playing(t) == t.phase # "over"

FrameOf(t) ==
  Reader(Yes, Playing(t), ShownHands(t.hands), ShownMelds(t.melds), ShownDiscards(t.discards),
         t.riichi, NoSeats, t.index)

LEMMA FiledAppend ==
  ASSUME NEW seq \in Seq(Tiles), NEW x \in Tiles
  PROVE  FiledEach(Append(seq, x)) = FiledEach(seq) \o FiledEach(<<x>>)
<1>1. DOMAIN seq = 1..Len(seq) /\ Len(seq) \in Nat
  BY LenProperties
<1>2. Append(seq, x) \in Seq(Tiles) /\ FiledEach(Append(seq, x)) \in Seq(Tiles)
      /\ Len(FiledEach(Append(seq, x))) = Len(seq) + 1
  BY AppendProperties, FiledSeq
<1>3. FiledEach(seq) \in Seq(Tiles) /\ Len(FiledEach(seq)) = Len(seq)
  BY FiledSeq
<1>4. FiledEach(<<x>>) = <<Filed(x)>> /\ Filed(x) \in Tiles
  BY FiledOne, FiledTile
<1>5. FiledEach(seq) \o <<Filed(x)>> = Append(FiledEach(seq), Filed(x))
  BY <1>3, <1>4
<1>6. \A i \in 1..Len(seq) : FiledEach(Append(seq, x))[i] = Append(FiledEach(seq), Filed(x))[i]
  <2> SUFFICES ASSUME NEW i \in 1..Len(seq)
               PROVE  FiledEach(Append(seq, x))[i] = Append(FiledEach(seq), Filed(x))[i]
    OBVIOUS
  <2>1. i \in DOMAIN Append(seq, x) /\ Append(seq, x)[i] = seq[i] /\ i \in DOMAIN seq
    BY <1>1, AppendProperties
  <2>2. FiledEach(Append(seq, x))[i] = Filed(seq[i]) /\ FiledEach(seq)[i] = Filed(seq[i])
    BY <2>1 DEF FiledEach
  <2>3. Append(FiledEach(seq), Filed(x))[i] = FiledEach(seq)[i]
    BY <1>1, <1>3, <1>4, AppendProperties
  <2> QED
    BY <2>2, <2>3
<1>7. FiledEach(Append(seq, x))[Len(seq) + 1] = Filed(x)
  <2>1. Len(seq) + 1 \in DOMAIN Append(seq, x) /\ Append(seq, x)[Len(seq) + 1] = x
    BY <1>1, AppendProperties
  <2> QED
    BY <2>1 DEF FiledEach
<1>8. Append(FiledEach(seq), Filed(x)) \in Seq(Tiles)
      /\ Len(Append(FiledEach(seq), Filed(x))) = Len(seq) + 1
      /\ Append(FiledEach(seq), Filed(x))[Len(seq) + 1] = Filed(x)
  BY <1>3, <1>4, AppendProperties
<1>9. FiledEach(Append(seq, x)) = Append(FiledEach(seq), Filed(x))
  <2> DEFINE p == FiledEach(Append(seq, x))
             q == Append(FiledEach(seq), Filed(x))
  <2>1. p \in Seq(Tiles) /\ q \in Seq(Tiles) /\ Len(p) = Len(seq) + 1 /\ Len(q) = Len(seq) + 1
    BY <1>2, <1>8
  <2>2. \A i \in 1..Len(seq) + 1 : p[i] = q[i]
    BY <1>1, <1>6, <1>7, <1>8
  <2> HIDE DEF p, q
  <2>3. p = q
    BY <1>1, <2>1, <2>2, SeqEqual
  <2> QED
    BY <2>3 DEF p, q
<1> QED
  BY <1>4, <1>5, <1>9

LEMMA MeldFiledType ==
  ASSUME NEW m \in MeldType
  PROVE  MeldFiled(m) \in MeldType
<1>1. FiledEach(m.tiles) \in Seq(Tiles) /\ m.opened \in BOOLEAN /\ m.from \in Seats
  BY FiledSeq DEF MeldType
<1> QED
  BY <1>1 DEF MeldFiled, MeldType

LEMMA MeldsFiledSeq ==
  ASSUME NEW melds \in Seq(MeldType)
  PROVE  MeldsFiled(melds) \in Seq(MeldType) /\ Len(MeldsFiled(melds)) = Len(melds)
<1>1. DOMAIN melds = 1..Len(melds) /\ Len(melds) \in Nat
      /\ \A i \in 1..Len(melds) : melds[i] \in MeldType
  BY LenProperties, ElementOfSeq
<1>2. MeldsFiled(melds) = [i \in 1..Len(melds) |-> MeldFiled(melds[i])]
  BY <1>1 DEF MeldsFiled
<1>3. \A i \in 1..Len(melds) : MeldFiled(melds[i]) \in MeldType
  BY <1>1, MeldFiledType
<1> QED
  BY <1>1, <1>2, <1>3

LEMMA MeldsAppend ==
  ASSUME NEW melds \in Seq(MeldType), NEW m \in MeldType
  PROVE  MeldsFiled(Append(melds, m)) = Append(MeldsFiled(melds), MeldFiled(m))
<1> DEFINE n == Len(melds)
           p == MeldsFiled(Append(melds, m))
           q == Append(MeldsFiled(melds), MeldFiled(m))
<1>1. DOMAIN melds = 1..n /\ n \in Nat
  BY LenProperties
<1>2. /\ Append(melds, m) \in Seq(MeldType) /\ Len(Append(melds, m)) = n + 1
      /\ Append(melds, m)[n + 1] = m /\ \A i \in 1..n : Append(melds, m)[i] = melds[i]
  BY AppendProperties
<1>3. MeldsFiled(melds) \in Seq(MeldType) /\ Len(MeldsFiled(melds)) = n
  BY MeldsFiledSeq
<1>4. p \in Seq(MeldType) /\ Len(p) = n + 1
  BY <1>2, MeldsFiledSeq
<1>5. /\ q \in Seq(MeldType) /\ Len(q) = n + 1 /\ q[n + 1] = MeldFiled(m)
      /\ \A i \in 1..n : q[i] = MeldsFiled(melds)[i]
  BY <1>3, MeldFiledType, AppendProperties
<1>6. DOMAIN Append(melds, m) = 1..n + 1
  BY <1>2, LenProperties
<1>7. \A i \in 1..n : p[i] = MeldFiled(melds[i]) /\ MeldsFiled(melds)[i] = MeldFiled(melds[i])
  BY <1>1, <1>2, <1>6 DEF MeldsFiled
<1>8. p[n + 1] = MeldFiled(m)
  BY <1>1, <1>2, <1>6 DEF MeldsFiled
<1> HIDE DEF p, q, n
<1>9. \A i \in 1..n + 1 : p[i] = q[i]
  BY <1>1, <1>5, <1>7, <1>8
<1>10. p = q
  BY <1>1, <1>4, <1>5, <1>9, SeqEqual
<1> QED
  BY <1>10 DEF p, q

LEMMA MeldGrown ==
  ASSUME NEW m \in MeldType, NEW x \in Tiles
  PROVE  MeldFiled([m EXCEPT !.tiles = Append(@, x)])
           = [MeldFiled(m) EXCEPT !.tiles = @ \o FiledEach(<<x>>)]
<1> DEFINE X == FiledEach(m.tiles) \o FiledEach(<<x>>)
           n == [m EXCEPT !.tiles = Append(@, x)]
<1>1. FiledEach(Append(m.tiles, x)) = X
  BY FiledAppend DEF MeldType
<1>2. n.tiles = Append(m.tiles, x) /\ n.opened = m.opened /\ n.from = m.from
  BY DEF MeldType
<1>3. MeldFiled(m).tiles \o FiledEach(<<x>>) = X
  BY DEF MeldFiled
<1> HIDE DEF n, X
<1>4. MeldFiled(n) = [tiles |-> X, opened |-> m.opened, from |-> m.from]
  BY <1>1, <1>2 DEF MeldFiled
<1>5. [MeldFiled(m) EXCEPT !.tiles = X] = [tiles |-> X, opened |-> m.opened, from |-> m.from]
  BY DEF MeldFiled
<1> QED
  BY <1>3, <1>4, <1>5 DEF n

\* The file keeps the kinds.
LEMMA KindsFiled ==
  ASSUME NEW seq
  PROVE  Film!KindsOf(FiledEach(seq)) = Film!KindsOf(seq)
<1>1. DOMAIN FiledEach(seq) = DOMAIN seq
      /\ \A i \in DOMAIN seq : Film!Kind(FiledEach(seq)[i]) = Film!Kind(seq[i])
  BY FiledTwice DEF FiledEach
<1>2. \A q : Film!KindsOf(q) = {Film!Kind(q[i]) : i \in DOMAIN q}
  BY DEF Film!KindsOf, Film!ToSet
<1> QED
  BY <1>1, <1>2

\* Of the Norths a hand shows the first copy alone.
LEMMA NorthShown ==
  ASSUME Film!Assumption, NEW hand \in SUBSET Tiles, IsFiniteSet(hand), NEW x \in hand,
         Film!Kind(x) = North
  PROVE  Film!Norths(Shown(hand)) = {Filed(x)}
<1>1. \A u : Film!Kind(u) = North => Filed(u) = <<North, 0>>
  BY DEF Film!Assumption, Filed, Film!Parsed, Film!Name
<1>2. Filed(x) = <<North, 0>> /\ Filed(x) \in Tiles /\ Film!Kind(Filed(x)) = North
  BY <1>1, FiledTile, FiledTwice
<1>3. ASSUME NEW q \in Tiles, Film!Kind(q) = North, Shown(hand)[q] > 0
      PROVE  q = Filed(x)
  <2>1. {u \in hand : Filed(u) = q} # {}
    <3>1. ASSUME {u \in hand : Filed(u) = q} = {}
          PROVE  FALSE
      <4>1. Shown(hand)[q] = Cardinality({u \in hand : Filed(u) = q})
        BY DEF Shown
      <4>2. Shown(hand)[q] = 0
        BY <3>1, <4>1, FS_EmptySet
      <4> QED
        BY <1>3, <4>2
    <3> QED
      BY <3>1
  <2>2. PICK u \in hand : Filed(u) = q
    BY <2>1
  <2>3. Film!Kind(u) = North
    BY <1>3, <2>2, FiledTwice
  <2> QED
    BY <1>1, <1>2, <2>2, <2>3
<1>4. Shown(hand)[Filed(x)] > 0
  <2> DEFINE A == {u \in hand : Filed(u) = Filed(x)}
  <2>1. x \in A /\ IsFiniteSet(A)
    BY FS_Subset
  <2>2. Cardinality(A) \in Nat /\ Cardinality(A) # 0
    BY <2>1, FS_EmptySet, FS_CardinalityType
  <2>3. Shown(hand)[Filed(x)] = Cardinality(A)
    BY <1>2 DEF Shown
  <2> HIDE DEF A
  <2> QED
    BY <2>2, <2>3
<1>5. \A q : q \in Film!Norths(Shown(hand)) <=> q \in Tiles /\ Film!Kind(q) = North /\ Shown(hand)[q] > 0
  BY DEF Film!Norths, Tiles
<1> QED
  BY <1>2, <1>3, <1>4, <1>5

-----------------------------------------------------------------------------
(* The reader, event by event *)

LEMMA FrameTsumo ==
  ASSUME Film!Assumption, NEW t, Playing(t) = Yes,
         t.hands \in [Seats -> SUBSET Tiles],
         NEW a \in Seats, IsFiniteSet(t.hands[a]), NEW x \in Tiles \ t.hands[a]
  PROVE  Film!Framed(FrameOf(t), Film!With("tsumo", a, x, <<>>))
           = Reader(Yes, Yes, ShownHands([t.hands EXCEPT ![a] = @ \cup {x}]), ShownMelds(t.melds),
                    ShownDiscards(t.discards), t.riichi, NoSeats, t.index)
<1> DEFINE hs == ShownHands(t.hands)
           ms == ShownMelds(t.melds)
           ds == ShownDiscards(t.discards)
           kind == "tsumo"
           f == FrameOf(t)
           ev == Film!With(kind, a, x, <<>>)
           r == Event(kind, a, 1, FiledEach(<<x>>), <<>>, <<>>)
<1>1. Film!Read(Film!Written(Film!Logged(ev))) = r
  BY WithEvent, Through, FiledNone
<1>2. /\ r.kind = kind /\ r.actor = a /\ r.target = 1 /\ r.tile = FiledEach(<<x>>)
      /\ r.tiles = <<>> /\ r.hands = <<>>
  BY EventFields
<1>3. f = Reader(Yes, Yes, hs, ms, ds, t.riichi, NoSeats, t.index)
  BY DEF FrameOf
<1>4. /\ f.ok = Yes /\ f.active = Yes /\ f.hands = hs /\ f.melds = ms /\ f.discards = ds
      /\ f.riichi = t.riichi /\ f.pending = NoSeats /\ f.index = t.index
  BY DEF FrameOf, Reader
<1>5. kind = "tsumo"
  OBVIOUS
<1>6. 1 \in Film!Seats /\ a \in Film!Seats
  BY DEF Film!Assumption, Film!Seats, Seats
<1> HIDE DEF hs, ms, ds, f, ev, r, kind
<1>7. Film!EventValid(r)
  BY <1>2, <1>5, <1>6 DEF Film!EventValid
<1>8. Film!Fits(f, r)
  BY <1>2, <1>4, <1>5 DEF Film!Fits, Film!Open, Yes, No
<1>9. Film!Applied(f, r) = [f EXCEPT !.hands = [hs EXCEPT ![a] = Film!Plus(@, FiledEach(<<x>>))]]
  BY <1>2, <1>3, <1>4, <1>5 DEF Film!Applied, Film!Open, Reader
<1>10. Film!Framed(f, ev) = Film!Applied(f, r)
  BY <1>1, <1>4, <1>7, <1>8 DEF Film!Framed, Yes
<1>11. Film!Applied(f, r)
         = Reader(Yes, Yes, [hs EXCEPT ![a] = Film!Plus(@, FiledEach(<<x>>))], ms, ds, t.riichi,
                  NoSeats, t.index)
  BY <1>3, <1>9 DEF Reader
<1>12. ShownHands([t.hands EXCEPT ![a] = @ \cup {x}])
         = [hs EXCEPT ![a] = Film!Plus(@, FiledEach(<<x>>))]
  <2>1. Film!Plus(Shown(t.hands[a]), FiledEach(<<x>>)) = Shown(t.hands[a] \cup {x})
    BY Gains
  <2> QED
    BY <2>1 DEF ShownHands, hs
<1> QED
  BY <1>10, <1>11, <1>12, Zenon DEF f, ev, hs, ms, ds, kind

LEMMA FrameReach ==
  ASSUME Film!Assumption, NEW t, Playing(t) = Yes,
         NEW a \in Seats
  PROVE  Film!Framed(FrameOf(t), Film!Ev("reach", a))
           = Reader(Yes, Yes, ShownHands(t.hands), ShownMelds(t.melds),
                    ShownDiscards(t.discards), t.riichi \cup {a}, {a}, t.index)
<1> DEFINE hs == ShownHands(t.hands)
           ms == ShownMelds(t.melds)
           ds == ShownDiscards(t.discards)
           kind == "reach"
           f == FrameOf(t)
           ev == Film!Ev(kind, a)
           r == Event(kind, a, 1, <<>>, <<>>, <<>>)
<1>1. Film!Read(Film!Written(Film!Logged(ev))) = r
  BY EvEvent, Through, FiledNone
<1>2. /\ r.kind = kind /\ r.actor = a /\ r.target = 1 /\ r.tile = <<>>
      /\ r.tiles = <<>> /\ r.hands = <<>>
  BY EventFields
<1>3. f = Reader(Yes, Yes, hs, ms, ds, t.riichi, NoSeats, t.index)
  BY DEF FrameOf
<1>4. /\ f.ok = Yes /\ f.active = Yes /\ f.hands = hs /\ f.melds = ms /\ f.discards = ds
      /\ f.riichi = t.riichi /\ f.pending = NoSeats /\ f.index = t.index
  BY DEF FrameOf, Reader
<1>5. kind = "reach"
  OBVIOUS
<1>6. 1 \in Film!Seats /\ a \in Film!Seats
  BY DEF Film!Assumption, Film!Seats, Seats
<1> HIDE DEF hs, ms, ds, f, ev, r, kind
<1>7. Film!EventValid(r)
  BY <1>2, <1>5, <1>6 DEF Film!EventValid
<1>8. Film!Fits(f, r)
  BY <1>2, <1>4, <1>5 DEF Film!Fits, Film!Open, Yes, No
<1>9. Film!Applied(f, r) = [f EXCEPT !.riichi = t.riichi \cup {a}, !.pending = {a}]
  BY <1>2, <1>3, <1>4, <1>5 DEF Film!Applied, Film!Open, Reader, NoSeats
<1>10. Film!Framed(f, ev) = Film!Applied(f, r)
  BY <1>1, <1>4, <1>7, <1>8 DEF Film!Framed, Yes
<1>11. Film!Applied(f, r) = Reader(Yes, Yes, hs, ms, ds, t.riichi \cup {a}, {a}, t.index)
  BY <1>3, <1>9 DEF Reader
<1> QED
  BY <1>10, <1>11, Zenon DEF f, ev, hs, ms, ds, kind

LEMMA FrameOther ==
  ASSUME Film!Assumption, NEW t, Playing(t) = Yes,
         NEW kind \in {"hora", "ryukyoku", "reach_accepted"},
         NEW a \in Seats
  PROVE  Film!Framed(FrameOf(t), Film!Ev(kind, a))
           = Reader(Yes, Yes, ShownHands(t.hands), ShownMelds(t.melds),
                    ShownDiscards(t.discards), t.riichi, NoSeats, t.index)
<1> DEFINE hs == ShownHands(t.hands)
           ms == ShownMelds(t.melds)
           ds == ShownDiscards(t.discards)
           f == FrameOf(t)
           ev == Film!Ev(kind, a)
           r == Event(kind, a, 1, <<>>, <<>>, <<>>)
<1>1. Film!Read(Film!Written(Film!Logged(ev))) = r
  BY EvEvent, Through, FiledNone
<1>2. /\ r.kind = kind /\ r.actor = a /\ r.target = 1 /\ r.tile = <<>>
      /\ r.tiles = <<>> /\ r.hands = <<>>
  BY EventFields
<1>3. f = Reader(Yes, Yes, hs, ms, ds, t.riichi, NoSeats, t.index)
  BY DEF FrameOf
<1>4. /\ f.ok = Yes /\ f.active = Yes /\ f.hands = hs /\ f.melds = ms /\ f.discards = ds
      /\ f.riichi = t.riichi /\ f.pending = NoSeats /\ f.index = t.index
  BY DEF FrameOf, Reader
<1>5. 1 \in Film!Seats /\ a \in Film!Seats
  BY DEF Film!Assumption, Film!Seats, Seats
<1> HIDE DEF hs, ms, ds, f, ev, r
<1>6. Film!EventValid(r)
  BY <1>2, <1>5 DEF Film!EventValid
<1>7. Film!Fits(f, r)
  BY <1>2, <1>4 DEF Film!Fits, Film!Open, Yes, No
<1>8. Film!Applied(f, r) = f
  BY <1>2, <1>3, <1>4 DEF Film!Applied, Film!Open, Reader
<1>9. Film!Framed(f, ev) = Film!Applied(f, r)
  BY <1>1, <1>4, <1>6, <1>7 DEF Film!Framed, Yes
<1> QED
  BY <1>3, <1>8, <1>9, Zenon DEF f, ev, hs, ms, ds

LEMMA FrameEndKyoku ==
  ASSUME Film!Assumption, NEW t, Playing(t) = Yes,
         NEW a \in Seats
  PROVE  Film!Framed(FrameOf(t), Film!Ev("end_kyoku", a))
           = Reader(Yes, No, ShownHands(t.hands), ShownMelds(t.melds),
                    ShownDiscards(t.discards), t.riichi, NoSeats, t.index)
<1> DEFINE hs == ShownHands(t.hands)
           ms == ShownMelds(t.melds)
           ds == ShownDiscards(t.discards)
           kind == "end_kyoku"
           f == FrameOf(t)
           ev == Film!Ev(kind, a)
           r == Event(kind, a, 1, <<>>, <<>>, <<>>)
<1>1. Film!Read(Film!Written(Film!Logged(ev))) = r
  BY EvEvent, Through, FiledNone
<1>2. /\ r.kind = kind /\ r.actor = a /\ r.target = 1 /\ r.tile = <<>>
      /\ r.tiles = <<>> /\ r.hands = <<>>
  BY EventFields
<1>3. f = Reader(Yes, Yes, hs, ms, ds, t.riichi, NoSeats, t.index)
  BY DEF FrameOf
<1>4. /\ f.ok = Yes /\ f.active = Yes /\ f.hands = hs /\ f.melds = ms /\ f.discards = ds
      /\ f.riichi = t.riichi /\ f.pending = NoSeats /\ f.index = t.index
  BY DEF FrameOf, Reader
<1>5. kind = "end_kyoku"
  OBVIOUS
<1>6. 1 \in Film!Seats /\ a \in Film!Seats
  BY DEF Film!Assumption, Film!Seats, Seats
<1> HIDE DEF hs, ms, ds, f, ev, r, kind
<1>7. Film!EventValid(r)
  BY <1>2, <1>5, <1>6 DEF Film!EventValid
<1>8. Film!Fits(f, r)
  BY <1>2, <1>4, <1>5 DEF Film!Fits, Film!Open, Yes, No
<1>9. Film!Applied(f, r) = [f EXCEPT !.active = No]
  BY <1>2, <1>3, <1>4, <1>5 DEF Film!Applied, Film!Open, Reader, No
<1>10. Film!Framed(f, ev) = Film!Applied(f, r)
  BY <1>1, <1>4, <1>7, <1>8 DEF Film!Framed, Yes
<1>11. Film!Applied(f, r) = Reader(Yes, No, hs, ms, ds, t.riichi, NoSeats, t.index)
  BY <1>3, <1>9 DEF Reader
<1> QED
  BY <1>10, <1>11, Zenon DEF f, ev, hs, ms, ds, kind

LEMMA FrameEndGame ==
  ASSUME Film!Assumption, NEW t, Playing(t) = No,
         NEW a \in Seats
  PROVE  Film!Framed(FrameOf(t), Film!Ev("end_game", a))
           = Reader(Yes, No, ShownHands(t.hands), ShownMelds(t.melds),
                    ShownDiscards(t.discards), t.riichi, NoSeats, t.index)
<1> DEFINE hs == ShownHands(t.hands)
           ms == ShownMelds(t.melds)
           ds == ShownDiscards(t.discards)
           kind == "end_game"
           f == FrameOf(t)
           ev == Film!Ev(kind, a)
           r == Event(kind, a, 1, <<>>, <<>>, <<>>)
<1>1. Film!Read(Film!Written(Film!Logged(ev))) = r
  BY EvEvent, Through, FiledNone
<1>2. /\ r.kind = kind /\ r.actor = a /\ r.target = 1 /\ r.tile = <<>>
      /\ r.tiles = <<>> /\ r.hands = <<>>
  BY EventFields
<1>3. f = Reader(Yes, No, hs, ms, ds, t.riichi, NoSeats, t.index)
  BY DEF FrameOf
<1>4. /\ f.ok = Yes /\ f.active = No /\ f.hands = hs /\ f.melds = ms /\ f.discards = ds
      /\ f.riichi = t.riichi /\ f.pending = NoSeats /\ f.index = t.index
  BY DEF FrameOf, Reader
<1>5. kind = "end_game"
  OBVIOUS
<1>6. 1 \in Film!Seats /\ a \in Film!Seats
  BY DEF Film!Assumption, Film!Seats, Seats
<1> HIDE DEF hs, ms, ds, f, ev, r, kind
<1>7. Film!EventValid(r)
  BY <1>2, <1>5, <1>6 DEF Film!EventValid
<1>8. Film!Fits(f, r)
  BY <1>2, <1>4, <1>5 DEF Film!Fits, Film!Open, Yes, No
<1>9. Film!Applied(f, r) = f
  BY <1>2, <1>3, <1>4, <1>5 DEF Film!Applied, Film!Open, Reader
<1>10. Film!Framed(f, ev) = Film!Applied(f, r)
  BY <1>1, <1>4, <1>7, <1>8 DEF Film!Framed, Yes
<1> QED
  BY <1>3, <1>9, <1>10, Zenon DEF f, ev, hs, ms, ds, kind

LEMMA FrameDahai ==
  ASSUME Film!Assumption, NEW t, Playing(t) = Yes,
         t.hands \in [Seats -> SUBSET Tiles],
         t.discards \in [Seats -> Seq(Tiles)],
         NEW a \in Seats, IsFiniteSet(t.hands[a]), NEW x \in t.hands[a]
  PROVE  Film!Framed(FrameOf(t), Film!With("dahai", a, x, <<>>))
           = Reader(Yes, Yes, ShownHands([t.hands EXCEPT ![a] = @ \ {x}]), ShownMelds(t.melds),
                    ShownDiscards([t.discards EXCEPT ![a] = Append(@, x)]), t.riichi, NoSeats, t.index)
<1> DEFINE hs == ShownHands(t.hands)
           ms == ShownMelds(t.melds)
           ds == ShownDiscards(t.discards)
           kind == "dahai"
           f == FrameOf(t)
           ev == Film!With(kind, a, x, <<>>)
           r == Event(kind, a, 1, FiledEach(<<x>>), <<>>, <<>>)
<1>1. Film!Read(Film!Written(Film!Logged(ev))) = r
  BY WithEvent, Through, FiledNone
<1>2. /\ r.kind = kind /\ r.actor = a /\ r.target = 1 /\ r.tile = FiledEach(<<x>>)
      /\ r.tiles = <<>> /\ r.hands = <<>>
  BY EventFields
<1>3. f = Reader(Yes, Yes, hs, ms, ds, t.riichi, NoSeats, t.index)
  BY DEF FrameOf
<1>4. /\ f.ok = Yes /\ f.active = Yes /\ f.hands = hs /\ f.melds = ms /\ f.discards = ds
      /\ f.riichi = t.riichi /\ f.pending = NoSeats /\ f.index = t.index
  BY DEF FrameOf, Reader
<1>5. kind = "dahai"
  OBVIOUS
<1>6. 1 \in Film!Seats /\ a \in Film!Seats
  BY DEF Film!Assumption, Film!Seats, Seats
<1>7. Film!Holds(hs[a], FiledEach(<<x>>))
      /\ Film!Without(hs[a], FiledEach(<<x>>)) = Shown(t.hands[a] \ {x})
  <2>1. /\ <<x>> \in Seq(Tiles) /\ Film!IsInjective(<<x>>) /\ Film!ToSet(<<x>>) = {x}
        /\ x \in Tiles /\ t.hands[a] \in SUBSET Tiles
    BY OneTile DEF Film!IsInjective
  <2>2. Film!Holds(Shown(t.hands[a]), FiledEach(<<x>>))
        /\ Film!Without(Shown(t.hands[a]), FiledEach(<<x>>)) = Shown(t.hands[a] \ {x})
    BY <2>1, Loses
  <2> QED
    BY <2>2 DEF ShownHands
<1> HIDE DEF hs, ms, ds, f, ev, r, kind
<1>8. Film!EventValid(r)
  BY <1>2, <1>5, <1>6 DEF Film!EventValid
<1>9. Film!Fits(f, r)
  BY <1>2, <1>4, <1>5, <1>7 DEF Film!Fits, Film!Open, Yes, No
<1>10. Film!Applied(f, r)
         = [f EXCEPT !.hands = [hs EXCEPT ![a] = Film!Without(@, FiledEach(<<x>>))],
                     !.discards = [ds EXCEPT ![a] = @ \o FiledEach(<<x>>)]]
  BY <1>2, <1>3, <1>4, <1>5 DEF Film!Applied, Film!Open, Reader, Film!Discarded, NoSeats
<1>11. Film!Framed(f, ev) = Film!Applied(f, r)
  BY <1>1, <1>4, <1>8, <1>9 DEF Film!Framed, Yes
<1>12. Film!Applied(f, r)
         = Reader(Yes, Yes, [hs EXCEPT ![a] = Film!Without(@, FiledEach(<<x>>))], ms,
                  [ds EXCEPT ![a] = @ \o FiledEach(<<x>>)], t.riichi, NoSeats, t.index)
  BY <1>3, <1>10 DEF Reader
<1>13. ShownHands([t.hands EXCEPT ![a] = @ \ {x}])
         = [hs EXCEPT ![a] = Film!Without(@, FiledEach(<<x>>))]
  BY <1>7 DEF ShownHands, hs
<1>14. ShownDiscards([t.discards EXCEPT ![a] = Append(@, x)]) = [ds EXCEPT ![a] = @ \o FiledEach(<<x>>)]
  <2>1. FiledEach(Append(t.discards[a], x)) = FiledEach(t.discards[a]) \o FiledEach(<<x>>)
    BY FiledAppend
  <2> QED
    BY <2>1 DEF ShownDiscards, ds
<1> QED
  BY <1>11, <1>12, <1>13, <1>14, Zenon DEF f, ev, hs, ms, ds, kind

LEMMA FrameDahaiAfterReach ==
  ASSUME Film!Assumption, NEW t,
         t.hands \in [Seats -> SUBSET Tiles],
         t.discards \in [Seats -> Seq(Tiles)],
         NEW a \in Seats, IsFiniteSet(t.hands[a]), NEW x \in t.hands[a]
  PROVE  Film!Framed(Reader(Yes, Yes, ShownHands(t.hands), ShownMelds(t.melds),
                            ShownDiscards(t.discards), t.riichi \cup {a}, {a}, t.index),
                     Film!With("dahai", a, x, <<>>))
           = Reader(Yes, Yes, ShownHands([t.hands EXCEPT ![a] = @ \ {x}]), ShownMelds(t.melds),
                    ShownDiscards([t.discards EXCEPT ![a] = Append(@, x)]), t.riichi \cup {a},
                    NoSeats, [t.index EXCEPT ![a] = Len(t.discards[a]) + 1])
<1> DEFINE hs == ShownHands(t.hands)
           ms == ShownMelds(t.melds)
           ds == ShownDiscards(t.discards)
           kind == "dahai"
           f == Reader(Yes, Yes, ShownHands(t.hands), ShownMelds(t.melds),
                       ShownDiscards(t.discards), t.riichi \cup {a}, {a}, t.index)
           ev == Film!With(kind, a, x, <<>>)
           r == Event(kind, a, 1, FiledEach(<<x>>), <<>>, <<>>)
<1>1. Film!Read(Film!Written(Film!Logged(ev))) = r
  BY WithEvent, Through, FiledNone
<1>2. /\ r.kind = kind /\ r.actor = a /\ r.target = 1 /\ r.tile = FiledEach(<<x>>)
      /\ r.tiles = <<>> /\ r.hands = <<>>
  BY EventFields
<1>3. f = Reader(Yes, Yes, hs, ms, ds, t.riichi \cup {a}, {a}, t.index)
  BY DEF FrameOf
<1>4. /\ f.ok = Yes /\ f.active = Yes /\ f.hands = hs /\ f.melds = ms /\ f.discards = ds
      /\ f.riichi = t.riichi \cup {a} /\ f.pending = {a} /\ f.index = t.index
  BY DEF FrameOf, Reader
<1>5. kind = "dahai"
  OBVIOUS
<1>6. 1 \in Film!Seats /\ a \in Film!Seats
  BY DEF Film!Assumption, Film!Seats, Seats
<1>7. Film!Holds(hs[a], FiledEach(<<x>>))
      /\ Film!Without(hs[a], FiledEach(<<x>>)) = Shown(t.hands[a] \ {x})
  <2>1. /\ <<x>> \in Seq(Tiles) /\ Film!IsInjective(<<x>>) /\ Film!ToSet(<<x>>) = {x}
        /\ x \in Tiles /\ t.hands[a] \in SUBSET Tiles
    BY OneTile DEF Film!IsInjective
  <2>2. Film!Holds(Shown(t.hands[a]), FiledEach(<<x>>))
        /\ Film!Without(Shown(t.hands[a]), FiledEach(<<x>>)) = Shown(t.hands[a] \ {x})
    BY <2>1, Loses
  <2> QED
    BY <2>2 DEF ShownHands
<1> HIDE DEF hs, ms, ds, f, ev, r, kind
<1>8. Film!EventValid(r)
  BY <1>2, <1>5, <1>6 DEF Film!EventValid
<1>9. Film!Fits(f, r)
  BY <1>2, <1>4, <1>5, <1>7 DEF Film!Fits, Film!Open, Yes, No
<1>10. Film!Applied(f, r)
         = [[f EXCEPT !.hands = [hs EXCEPT ![a] = Film!Without(@, FiledEach(<<x>>))],
                      !.discards = [ds EXCEPT ![a] = @ \o FiledEach(<<x>>)]]
             EXCEPT !.pending = NoSeats, !.index = [t.index EXCEPT ![a] = Len(ds[a]) + 1]]
  BY <1>2, <1>3, <1>4, <1>5 DEF Film!Applied, Film!Open, Reader, Film!Discarded, NoSeats
<1>11. Film!Framed(f, ev) = Film!Applied(f, r)
  BY <1>1, <1>4, <1>8, <1>9 DEF Film!Framed, Yes
<1>12. Film!Applied(f, r)
         = Reader(Yes, Yes, [hs EXCEPT ![a] = Film!Without(@, FiledEach(<<x>>))], ms,
                  [ds EXCEPT ![a] = @ \o FiledEach(<<x>>)], t.riichi \cup {a}, NoSeats,
                  [t.index EXCEPT ![a] = Len(ds[a]) + 1])
  BY <1>3, <1>10 DEF Reader
<1>13. ShownHands([t.hands EXCEPT ![a] = @ \ {x}])
         = [hs EXCEPT ![a] = Film!Without(@, FiledEach(<<x>>))]
  BY <1>7 DEF ShownHands, hs
<1>14. ShownDiscards([t.discards EXCEPT ![a] = Append(@, x)]) = [ds EXCEPT ![a] = @ \o FiledEach(<<x>>)]
  <2>1. FiledEach(Append(t.discards[a], x)) = FiledEach(t.discards[a]) \o FiledEach(<<x>>)
    BY FiledAppend
  <2> QED
    BY <2>1 DEF ShownDiscards, ds
<1>15. Len(ds[a]) = Len(t.discards[a])
  BY FiledSeq DEF ShownDiscards, ds
<1> QED
  BY <1>11, <1>12, <1>13, <1>14, <1>15, Zenon DEF f, ev, hs, ms, ds, kind

LEMMA FrameKita ==
  ASSUME Film!Assumption, NEW t, Playing(t) = Yes,
         t.hands \in [Seats -> SUBSET Tiles],
         NEW a \in Seats, IsFiniteSet(t.hands[a]), NEW x \in t.hands[a],
         ThreePlayers,
         Film!Kind(x) = North
  PROVE  Film!Framed(FrameOf(t), Film!Ev("kita", a))
           = Reader(Yes, Yes, ShownHands([t.hands EXCEPT ![a] = @ \ {x}]), ShownMelds(t.melds),
                    ShownDiscards(t.discards), t.riichi, NoSeats, t.index)
<1> DEFINE hs == ShownHands(t.hands)
           ms == ShownMelds(t.melds)
           ds == ShownDiscards(t.discards)
           kind == "kita"
           f == FrameOf(t)
           ev == Film!Ev(kind, a)
           r == Event(kind, a, 1, <<>>, <<>>, <<>>)
<1>1. Film!Read(Film!Written(Film!Logged(ev))) = r
  BY EvEvent, Through, FiledNone
<1>2. /\ r.kind = kind /\ r.actor = a /\ r.target = 1 /\ r.tile = <<>>
      /\ r.tiles = <<>> /\ r.hands = <<>>
  BY EventFields
<1>3. f = Reader(Yes, Yes, hs, ms, ds, t.riichi, NoSeats, t.index)
  BY DEF FrameOf
<1>4. /\ f.ok = Yes /\ f.active = Yes /\ f.hands = hs /\ f.melds = ms /\ f.discards = ds
      /\ f.riichi = t.riichi /\ f.pending = NoSeats /\ f.index = t.index
  BY DEF FrameOf, Reader
<1>5. kind = "kita"
  OBVIOUS
<1>6. 1 \in Film!Seats /\ a \in Film!Seats
  BY DEF Film!Assumption, Film!Seats, Seats
<1>7. Film!Holds(hs[a], FiledEach(<<x>>))
      /\ Film!Without(hs[a], FiledEach(<<x>>)) = Shown(t.hands[a] \ {x})
  <2>1. /\ <<x>> \in Seq(Tiles) /\ Film!IsInjective(<<x>>) /\ Film!ToSet(<<x>>) = {x}
        /\ x \in Tiles /\ t.hands[a] \in SUBSET Tiles
    BY OneTile DEF Film!IsInjective
  <2>2. Film!Holds(Shown(t.hands[a]), FiledEach(<<x>>))
        /\ Film!Without(Shown(t.hands[a]), FiledEach(<<x>>)) = Shown(t.hands[a] \ {x})
    BY <2>1, Loses
  <2> QED
    BY <2>2 DEF ShownHands
<1>8. Film!Norths(hs[a]) = {Filed(x)}
  BY NorthShown DEF ShownHands
<1> HIDE DEF hs, ms, ds, f, ev, r, kind
<1>9. Film!EventValid(r)
  BY <1>2, <1>5, <1>6 DEF Film!EventValid
<1>10. Film!Fits(f, r)
  BY <1>2, <1>4, <1>5, <1>8 DEF Film!Fits, Film!Open, Yes, No
<1>11. Film!Applied(f, r) = [f EXCEPT !.hands = [hs EXCEPT ![a] = Film!Without(@, FiledEach(<<x>>))]]
  <2>1. Film!Applied(f, r)
          = [f EXCEPT !.hands =
               [hs EXCEPT ![a] = Film!Without(@, <<CHOOSE q \in Film!Norths(@) : TRUE>>)]]
    BY <1>2, <1>3, <1>4, <1>5 DEF Film!Applied, Film!Open, Reader
  <2>2. (CHOOSE q \in Film!Norths(hs[a]) : TRUE) = Filed(x)
    BY <1>8
  <2>3. <<CHOOSE q \in Film!Norths(hs[a]) : TRUE>> = FiledEach(<<x>>)
    BY <2>2, FiledOne
  <2> QED
    BY <2>1, <2>3
<1>12. Film!Framed(f, ev) = Film!Applied(f, r)
  BY <1>1, <1>4, <1>9, <1>10 DEF Film!Framed, Yes
<1>13. Film!Applied(f, r)
         = Reader(Yes, Yes, [hs EXCEPT ![a] = Film!Without(@, FiledEach(<<x>>))], ms, ds, t.riichi,
                  NoSeats, t.index)
  BY <1>3, <1>11 DEF Reader
<1>14. ShownHands([t.hands EXCEPT ![a] = @ \ {x}])
         = [hs EXCEPT ![a] = Film!Without(@, FiledEach(<<x>>))]
  BY <1>7 DEF ShownHands, hs
<1> QED
  BY <1>12, <1>13, <1>14, Zenon DEF f, ev, hs, ms, ds, kind

\* Tiles of a hand; what validate_event and the melds ask of a call of a discard.
OfHand(t, a, tiles) ==
  /\ t.hands \in [Seats -> SUBSET Tiles] /\ t.melds \in [Seats -> Seq(MeldType)]
  /\ a \in Seats /\ IsFiniteSet(t.hands[a])
  /\ tiles \in Seq(Tiles) /\ Film!IsInjective(tiles) /\ Film!ToSet(tiles) \in SUBSET t.hands[a]

CanCall(kind, tiles, x) ==
  LET kinds == Film!KindsOf(Append(tiles, x)) IN
  /\ kind \in {"pon", "chi", "daiminkan"} /\ Len(tiles) = IF kind = "daiminkan" THEN 3 ELSE 2
  /\ IF kind = "chi" THEN Film!IsSequence(kinds) ELSE kinds = {Film!Kind(x)}

\* A meld of tiles of a hand; a meld that has one more.
MeldOf(tiles, opened, from) == [tiles |-> tiles, opened |-> opened, from |-> from]

Melded(t, a, tiles, m, hands, melds) ==
  /\ hands = [t.hands EXCEPT ![a] = @ \ Film!ToSet(tiles)]
  /\ melds = [t.melds EXCEPT ![a] = Append(@, m)]

Lengthened(t, a, x, i, hands, melds) ==
  /\ hands = [t.hands EXCEPT ![a] = @ \ {x}]
  /\ melds = [t.melds EXCEPT ![a][i].tiles = Append(@, x)]

LEMMA FrameCall ==
  ASSUME Film!Assumption, NEW t, Playing(t) = Yes,
         NEW a, NEW tiles, OfHand(t, a, tiles), NEW from \in Seats,
         a # from, NEW x \in Tiles, NEW kind, CanCall(kind, tiles, x),
         NEW hands, NEW melds, Melded(t, a, tiles, MeldOf(Append(tiles, x), Yes, from), hands, melds)
  PROVE  Film!Framed(FrameOf(t), Film!From(Film!With(kind, a, x, tiles), from))
           = Reader(Yes, Yes, ShownHands(hands), ShownMelds(melds),
                    ShownDiscards(t.discards), t.riichi, NoSeats, t.index)
<1> DEFINE hs == ShownHands(t.hands)
           shown == [tiles |-> FiledEach(tiles) \o FiledEach(<<x>>), opened |-> Yes, from |-> from]
           laid == [tiles |-> Append(tiles, x), opened |-> Yes, from |-> from]
           ms == ShownMelds(t.melds)
           ds == ShownDiscards(t.discards)
           f == FrameOf(t)
           ev == Film!From(Film!With(kind, a, x, tiles), from)
           r == Event(kind, a, from, FiledEach(<<x>>), FiledEach(tiles), <<>>)
           kinds == Film!KindsOf(Append(tiles, x))
<1>1. /\ kind \in {"pon", "chi", "daiminkan"} /\ Len(tiles) = IF kind = "daiminkan" THEN 3 ELSE 2
      /\ IF kind = "chi" THEN Film!IsSequence(kinds) ELSE kinds = {Film!Kind(x)}
  BY DEF CanCall
<1>2. /\ t.hands \in [Seats -> SUBSET Tiles] /\ t.melds \in [Seats -> Seq(MeldType)]
       /\ a \in Seats /\ IsFiniteSet(t.hands[a])
       /\ tiles \in Seq(Tiles) /\ Film!IsInjective(tiles) /\ Film!ToSet(tiles) \subseteq t.hands[a]
  BY DEF OfHand
<1> USE <1>2
<1>3. Film!Read(Film!Written(Film!Logged(ev))) = r
  BY <1>1, FromEvent, Through, FiledNone
<1>4. /\ r.kind = kind /\ r.actor = a /\ r.target = from /\ r.tile = FiledEach(<<x>>)
      /\ r.tiles = FiledEach(tiles) /\ r.hands = <<>>
  BY EventFields
<1>5. f = Reader(Yes, Yes, hs, ms, ds, t.riichi, NoSeats, t.index)
  BY DEF FrameOf
<1>6. /\ f.ok = Yes /\ f.active = Yes /\ f.hands = hs /\ f.melds = ms /\ f.discards = ds
      /\ f.riichi = t.riichi /\ f.pending = NoSeats /\ f.index = t.index
  BY DEF FrameOf, Reader
<1>7. 1 \in Film!Seats /\ a \in Film!Seats /\ from \in Film!Seats
  BY DEF Film!Assumption, Film!Seats, Seats
<1>8. Film!Holds(hs[a], FiledEach(tiles))
      /\ Film!Without(hs[a], FiledEach(tiles)) = Shown(t.hands[a] \ Film!ToSet(tiles))
  <2>1. Film!Holds(Shown(t.hands[a]), FiledEach(tiles))
        /\ Film!Without(Shown(t.hands[a]), FiledEach(tiles)) = Shown(t.hands[a] \ Film!ToSet(tiles))
    BY Loses
  <2> QED
    BY <2>1 DEF ShownHands
<1>9. Film!MeldValid(r)
  <2>1. FiledEach(tiles) \o FiledEach(<<x>>) = FiledEach(Append(tiles, x))
    BY FiledAppend
  <2>2. Film!KindsOf(r.tiles \o r.tile) = kinds
    BY <1>4, <2>1, KindsFiled
  <2>3. Film!Kind(r.tile[1]) = Film!Kind(x)
    BY <1>4, FiledOne, FiledTwice
  <2> HIDE DEF r, kinds
  <2> QED
    BY <1>1, <1>4, <2>2, <2>3 DEF Film!MeldValid
<1>10. Len(FiledEach(tiles)) = Len(tiles)
  BY FiledSeq
<1> HIDE DEF hs, ms, ds, f, ev, r
<1>11. Film!EventValid(r)
  BY <1>1, <1>4, <1>7, <1>10 DEF Film!EventValid
<1>12. Film!Fits(f, r)
  BY <1>1, <1>4, <1>6, <1>7, <1>8, <1>9 DEF Film!Fits, Film!Open, Yes, No
<1>13. Film!Applied(f, r)
         = [f EXCEPT !.hands = [hs EXCEPT ![a] = Film!Without(@, FiledEach(tiles))],
                     !.melds = [ms EXCEPT ![a] = Append(@, shown)]]
  <2>1. Film!Applied(f, r) = Film!Called(f, r)
    BY <1>1, <1>4 DEF Film!Applied, Film!Open
  <2>2. (r.kind \in Film!Open) = TRUE
    BY <1>1, <1>4 DEF Film!Open
  <2>3. (r.kind \in Film!Open) = Yes
    BY <2>2, Zenon DEF Yes
  <2>4. Film!Called(f, r)
           = [f EXCEPT !.hands = [hs EXCEPT ![a] = Film!Without(@, FiledEach(tiles))], !.melds[a] =
          Append(@, [tiles |-> FiledEach(tiles) \o FiledEach(<<x>>),
                     opened |-> r.kind \in Film!Open, from |-> from])]
    BY <1>4, <1>5, <1>6 DEF Film!Called, Reader
  <2>5. Film!Called(f, r)
           = [f EXCEPT !.hands = [hs EXCEPT ![a] = Film!Without(@, FiledEach(tiles))],
                       !.melds[a] = Append(@, shown)]
    BY <2>3, <2>4, Zenon
  <2> QED
    BY <1>5, <1>6, <2>1, <2>5 DEF Reader
<1>14. Film!Framed(f, ev) = Film!Applied(f, r)
  BY <1>3, <1>6, <1>11, <1>12 DEF Film!Framed, Yes
<1>15. Film!Applied(f, r)
         = Reader(Yes, Yes, [hs EXCEPT ![a] = Film!Without(@, FiledEach(tiles))],
                  [ms EXCEPT ![a] = Append(@, shown)], ds, t.riichi, NoSeats, t.index)
  BY <1>5, <1>13 DEF Reader
<1>16. ShownHands([t.hands EXCEPT ![a] = @ \ Film!ToSet(tiles)])
         = [hs EXCEPT ![a] = Film!Without(@, FiledEach(tiles))]
  BY <1>8 DEF ShownHands, hs
<1>17. ShownMelds([t.melds EXCEPT ![a] = Append(@, laid)])
         = [ms EXCEPT ![a] = Append(@, shown)]
  <2> DEFINE m == [tiles |-> Append(tiles, x), opened |-> Yes, from |-> from]
  <2>1. m \in MeldType
    BY AppendProperties DEF MeldType, Yes
  <2>2. MeldFiled(m) = [tiles |-> FiledEach(tiles) \o FiledEach(<<x>>), opened |-> Yes, from |-> from]
    BY FiledAppend DEF MeldFiled
  <2> HIDE DEF m
  <2>3. MeldsFiled(Append(t.melds[a], m)) = Append(MeldsFiled(t.melds[a]), MeldFiled(m))
    BY <2>1, MeldsAppend
  <2>4. ShownMelds([t.melds EXCEPT ![a] = Append(@, m)]) = [ms EXCEPT ![a] = Append(@, MeldFiled(m))]
    BY <2>3 DEF ShownMelds, ms
  <2> QED
    BY <2>2, <2>4, Zenon DEF m
<1>18. /\ hands = [t.hands EXCEPT ![a] = @ \ Film!ToSet(tiles)]
       /\ melds
                = [t.melds EXCEPT ![a] = Append(@, laid)]
  BY DEF Melded, MeldOf
<1> QED
  BY <1>18, <1>14, <1>15, <1>16, <1>17, Zenon DEF f, ev, hs, ms, ds

\* A closed quad, and what is logged of it.
OneKind(tiles) == Len(tiles) = 4 /\ Film!KindsOf(tiles) = {Film!Kind(tiles[1])}
QuadLogged(a, tiles, from) == Film!From([Film!Ev("ankan", a) EXCEPT !.tiles = tiles], from)

LEMMA FrameAnkan ==
  ASSUME Film!Assumption, NEW t, Playing(t) = Yes,
         NEW a, NEW tiles, OfHand(t, a, tiles), NEW from \in Seats,
         OneKind(tiles),
         NEW hands, NEW melds, Melded(t, a, tiles, MeldOf(tiles, No, from), hands, melds)
  PROVE  Film!Framed(FrameOf(t), QuadLogged(a, tiles, from))
           = Reader(Yes, Yes, ShownHands(hands), ShownMelds(melds),
                    ShownDiscards(t.discards), t.riichi, NoSeats, t.index)
<1> DEFINE hs == ShownHands(t.hands)
           shown == [tiles |-> FiledEach(tiles), opened |-> No, from |-> from]
           ms == ShownMelds(t.melds)
           ds == ShownDiscards(t.discards)
           kind == "ankan"
           f == FrameOf(t)
           ev == Film!From([Film!Ev(kind, a) EXCEPT !.tiles = tiles], from)
           r == Event(kind, a, from, <<>>, FiledEach(tiles), <<>>)
<1>1. /\ t.hands \in [Seats -> SUBSET Tiles] /\ t.melds \in [Seats -> Seq(MeldType)]
       /\ a \in Seats /\ IsFiniteSet(t.hands[a])
       /\ tiles \in Seq(Tiles) /\ Film!IsInjective(tiles) /\ Film!ToSet(tiles) \subseteq t.hands[a]
  BY DEF OfHand
<1>2. Len(tiles) = 4 /\ Film!KindsOf(tiles) = {Film!Kind(tiles[1])}
  BY DEF OneKind
<1> USE <1>1, <1>2
<1>3. Film!Read(Film!Written(Film!Logged(ev))) = r
  BY TilesEvent, Through, FiledNone
<1>4. /\ r.kind = kind /\ r.actor = a /\ r.target = from /\ r.tile = <<>>
      /\ r.tiles = FiledEach(tiles) /\ r.hands = <<>>
  BY EventFields
<1>5. f = Reader(Yes, Yes, hs, ms, ds, t.riichi, NoSeats, t.index)
  BY DEF FrameOf
<1>6. /\ f.ok = Yes /\ f.active = Yes /\ f.hands = hs /\ f.melds = ms /\ f.discards = ds
      /\ f.riichi = t.riichi /\ f.pending = NoSeats /\ f.index = t.index
  BY DEF FrameOf, Reader
<1>7. kind = "ankan"
  OBVIOUS
<1>8. 1 \in Film!Seats /\ a \in Film!Seats /\ from \in Film!Seats
  BY DEF Film!Assumption, Film!Seats, Seats
<1>9. Film!Holds(hs[a], FiledEach(tiles))
      /\ Film!Without(hs[a], FiledEach(tiles)) = Shown(t.hands[a] \ Film!ToSet(tiles))
  <2>1. Film!Holds(Shown(t.hands[a]), FiledEach(tiles))
        /\ Film!Without(Shown(t.hands[a]), FiledEach(tiles)) = Shown(t.hands[a] \ Film!ToSet(tiles))
    BY Loses
  <2> QED
    BY <2>1 DEF ShownHands
<1>10. /\ Film!KindsOf(FiledEach(tiles)) = {Film!Kind(FiledEach(tiles)[1])}
      /\ FiledEach(tiles) \o <<>> = FiledEach(tiles) /\ Len(FiledEach(tiles)) = 4
  <2>1. 1 \in DOMAIN tiles
    BY LenProperties
  <2>2. FiledEach(tiles) \in Seq(Tiles) /\ Len(FiledEach(tiles)) = 4
        /\ Film!Kind(FiledEach(tiles)[1]) = Film!Kind(tiles[1])
    BY <2>1, FiledSeq, FiledTwice
  <2> QED
    BY <2>2, KindsFiled, ConcatEmptySeq
<1> HIDE DEF hs, ms, ds, f, ev, r, kind
<1>11. Film!EventValid(r)
  BY <1>4, <1>7, <1>8, <1>10 DEF Film!EventValid
<1>12. Film!Fits(f, r)
  BY <1>4, <1>6, <1>7, <1>8, <1>9, <1>10 DEF Film!Fits, Film!Open, Yes, No
<1>13. Film!Applied(f, r)
         = [f EXCEPT !.hands = [hs EXCEPT ![a] = Film!Without(@, FiledEach(tiles))],
                     !.melds = [ms EXCEPT ![a] = Append(@, shown)]]
  <2>1. Film!Applied(f, r) = Film!Called(f, r)
    BY <1>4, <1>7 DEF Film!Applied, Film!Open
  <2>2. (r.kind \in Film!Open) = FALSE
    BY <1>4, <1>7 DEF Film!Open
  <2>3. (r.kind \in Film!Open) = No
    BY <2>2, Zenon DEF No
  <2>4. Film!Called(f, r)
           = [f EXCEPT !.hands = [hs EXCEPT ![a] = Film!Without(@, FiledEach(tiles))], !.melds[a] =
          Append(@, [tiles |-> FiledEach(tiles), opened |-> r.kind \in Film!Open, from |-> from])]
    BY <1>4, <1>5, <1>6, <1>10 DEF Film!Called, Reader
  <2>5. Film!Called(f, r)
           = [f EXCEPT !.hands = [hs EXCEPT ![a] = Film!Without(@, FiledEach(tiles))],
                       !.melds[a] = Append(@, shown)]
    BY <2>3, <2>4, Zenon
  <2> QED
    BY <1>5, <1>6, <2>1, <2>5 DEF Reader
<1>14. Film!Framed(f, ev) = Film!Applied(f, r)
  BY <1>3, <1>6, <1>11, <1>12 DEF Film!Framed, Yes
<1>15. Film!Applied(f, r)
         = Reader(Yes, Yes, [hs EXCEPT ![a] = Film!Without(@, FiledEach(tiles))],
                  [ms EXCEPT ![a] = Append(@, shown)], ds, t.riichi, NoSeats, t.index)
  BY <1>5, <1>13 DEF Reader
<1>16. ShownHands([t.hands EXCEPT ![a] = @ \ Film!ToSet(tiles)])
         = [hs EXCEPT ![a] = Film!Without(@, FiledEach(tiles))]
  BY <1>9 DEF ShownHands, hs
<1>17. ShownMelds([t.melds EXCEPT ![a] = Append(@, [tiles |-> tiles, opened |-> No, from |-> from])])
         = [ms EXCEPT ![a] = Append(@, shown)]
  <2> DEFINE m == [tiles |-> tiles, opened |-> No, from |-> from]
  <2>1. m \in MeldType
    BY DEF MeldType, No
  <2>2. MeldFiled(m) = [tiles |-> FiledEach(tiles), opened |-> No, from |-> from]
    BY DEF MeldFiled
  <2> HIDE DEF m
  <2>3. MeldsFiled(Append(t.melds[a], m)) = Append(MeldsFiled(t.melds[a]), MeldFiled(m))
    BY <2>1, MeldsAppend
  <2>4. ShownMelds([t.melds EXCEPT ![a] = Append(@, m)]) = [ms EXCEPT ![a] = Append(@, MeldFiled(m))]
    BY <2>3 DEF ShownMelds, ms
  <2> QED
    BY <2>2, <2>4, Zenon DEF m
<1>18. /\ hands = [t.hands EXCEPT ![a] = @ \ Film!ToSet(tiles)]
       /\ melds = [t.melds EXCEPT ![a] = Append(@, [tiles |-> tiles, opened |-> No, from |-> from])]
  BY DEF Melded, MeldOf
<1> QED
  BY <1>18, <1>14, <1>15, <1>16, <1>17, Zenon DEF QuadLogged, f, ev, hs, ms, ds, kind

\* The one open triplet a tile of the hand can be added to.
CanAdd(t, a, x, i) ==
  /\ t.hands \in [Seats -> SUBSET Tiles] /\ t.melds \in [Seats -> Seq(MeldType)]
  /\ a \in Seats /\ IsFiniteSet(t.hands[a]) /\ x \in t.hands[a] /\ i \in DOMAIN t.melds[a]
  /\ Len(t.melds[a][i].tiles) = 3 /\ Film!Triplets(t.melds[a], x) = {i}

LEMMA FrameKakan ==
  ASSUME Film!Assumption, NEW t, Playing(t) = Yes, NEW a, NEW x, NEW i, CanAdd(t, a, x, i),
         NEW hands, NEW melds, Lengthened(t, a, x, i, hands, melds)
  PROVE  Film!Framed(FrameOf(t), Film!With("kakan", a, x, t.melds[a][i].tiles))
           = Reader(Yes, Yes, ShownHands(hands), ShownMelds(melds),
                    ShownDiscards(t.discards), t.riichi, NoSeats, t.index)
<1> DEFINE hs == ShownHands(t.hands)
           ms == ShownMelds(t.melds)
           ds == ShownDiscards(t.discards)
           kind == "kakan"
           f == FrameOf(t)
           ev == Film!With(kind, a, x, t.melds[a][i].tiles)
           r == Event(kind, a, 1, FiledEach(<<x>>), FiledEach(t.melds[a][i].tiles), <<>>)
<1>1. /\ t.hands \in [Seats -> SUBSET Tiles] /\ t.melds \in [Seats -> Seq(MeldType)]
       /\ a \in Seats /\ IsFiniteSet(t.hands[a]) /\ x \in t.hands[a] /\ i \in DOMAIN t.melds[a]
       /\ Len(t.melds[a][i].tiles) = 3 /\ Film!Triplets(t.melds[a], x) = {i}
  BY DEF CanAdd
<1> USE <1>1
<1>2. Film!Read(Film!Written(Film!Logged(ev))) = r
  BY WithEvent, Through, FiledNone
<1>3. /\ r.kind = kind /\ r.actor = a /\ r.target = 1 /\ r.tile = FiledEach(<<x>>)
      /\ r.tiles = FiledEach(t.melds[a][i].tiles) /\ r.hands = <<>>
  BY EventFields
<1>4. f = Reader(Yes, Yes, hs, ms, ds, t.riichi, NoSeats, t.index)
  BY DEF FrameOf
<1>5. /\ f.ok = Yes /\ f.active = Yes /\ f.hands = hs /\ f.melds = ms /\ f.discards = ds
      /\ f.riichi = t.riichi /\ f.pending = NoSeats /\ f.index = t.index
  BY DEF FrameOf, Reader
<1>6. kind = "kakan"
  OBVIOUS
<1>7. 1 \in Film!Seats /\ a \in Film!Seats
  BY DEF Film!Assumption, Film!Seats, Seats
<1>8. Film!Holds(hs[a], FiledEach(<<x>>))
      /\ Film!Without(hs[a], FiledEach(<<x>>)) = Shown(t.hands[a] \ {x})
  <2>1. /\ <<x>> \in Seq(Tiles) /\ Film!IsInjective(<<x>>) /\ Film!ToSet(<<x>>) = {x}
        /\ x \in Tiles /\ t.hands[a] \in SUBSET Tiles
    BY OneTile DEF Film!IsInjective
  <2>2. Film!Holds(Shown(t.hands[a]), FiledEach(<<x>>))
        /\ Film!Without(Shown(t.hands[a]), FiledEach(<<x>>)) = Shown(t.hands[a] \ {x})
    BY <2>1, Loses
  <2> QED
    BY <2>2 DEF ShownHands
<1>9. Film!Triplets(ms[a], Filed(x)) = {i}
  <2>1. ms[a] = MeldsFiled(t.melds[a]) /\ DOMAIN ms[a] = DOMAIN t.melds[a]
    BY DEF ShownMelds, MeldsFiled
  <2>2. ASSUME NEW j \in DOMAIN t.melds[a]
        PROVE  /\ ms[a][j].opened = t.melds[a][j].opened
               /\ Len(ms[a][j].tiles) = Len(t.melds[a][j].tiles)
               /\ Film!KindsOf(ms[a][j].tiles) = Film!KindsOf(t.melds[a][j].tiles)
    <3>1. t.melds[a][j] \in MeldType
      BY ElementOfSeq, LenProperties
    <3>2. t.melds[a][j].tiles \in Seq(Tiles)
      BY <3>1 DEF MeldType
    <3>3. ms[a][j] = MeldFiled(t.melds[a][j])
      BY <2>1 DEF MeldsFiled
    <3>4. ms[a][j].opened = t.melds[a][j].opened /\ ms[a][j].tiles = FiledEach(t.melds[a][j].tiles)
      BY <3>3 DEF MeldFiled
    <3> QED
      BY <3>2, <3>4, FiledSeq, KindsFiled
  <2>3. Film!Kind(Filed(x)) = Film!Kind(x)
    BY FiledTwice
  <2> HIDE DEF ms
  <2> QED
    BY <2>1, <2>2, <2>3 DEF Film!Triplets
<1>10. Film!First({i}) = i /\ FiledEach(<<x>>)[1] = Filed(x) /\ i \in Nat
  <2>1. i \in Nat
    BY LenProperties
  <2> QED
    BY <2>1, FiledOne DEF Film!First
<1>11. Len(FiledEach(t.melds[a][i].tiles)) = 3
  <2>1. t.melds[a][i] \in MeldType
    BY ElementOfSeq, LenProperties
  <2>2. t.melds[a][i].tiles \in Seq(Tiles)
    BY <2>1 DEF MeldType
  <2> QED
    BY <2>2, FiledSeq
<1> HIDE DEF hs, ms, ds, f, ev, r, kind
<1>12. Film!EventValid(r)
  BY <1>3, <1>6, <1>7, <1>11 DEF Film!EventValid
<1>13. Film!Fits(f, r)
  BY <1>3, <1>5, <1>6, <1>8, <1>9, <1>10 DEF Film!Fits, Film!Open, Yes, No
<1>14. Film!Applied(f, r)
         = [f EXCEPT !.hands = [hs EXCEPT ![a] = Film!Without(@, FiledEach(<<x>>))],
                     !.melds = [ms EXCEPT ![a][i].tiles = @ \o FiledEach(<<x>>)]]
  <2>1. Film!Applied(f, r) = Film!Added(f, r)
    BY <1>3, <1>6 DEF Film!Applied, Film!Open
  <2>2. Film!First(Film!Triplets(f.melds[r.actor], r.tile[1])) = i
    BY <1>3, <1>5, <1>9, <1>10
  <2>3. Film!Added(f, r) = [f EXCEPT !.hands[a] = Film!Without(@, FiledEach(<<x>>)),
                                     !.melds[a][i].tiles = @ \o FiledEach(<<x>>)]
    BY <1>3, <2>2 DEF Film!Added
  <2> QED
    BY <1>4, <1>5, <2>1, <2>3 DEF Reader
<1>15. Film!Framed(f, ev) = Film!Applied(f, r)
  BY <1>2, <1>5, <1>12, <1>13 DEF Film!Framed, Yes
<1>16. Film!Applied(f, r)
         = Reader(Yes, Yes, [hs EXCEPT ![a] = Film!Without(@, FiledEach(<<x>>))],
                  [ms EXCEPT ![a][i].tiles = @ \o FiledEach(<<x>>)], ds, t.riichi, NoSeats, t.index)
  BY <1>4, <1>14 DEF Reader
<1>17. ShownHands([t.hands EXCEPT ![a] = @ \ {x}])
         = [hs EXCEPT ![a] = Film!Without(@, FiledEach(<<x>>))]
  BY <1>8 DEF ShownHands, hs
<1>18. ShownMelds([t.melds EXCEPT ![a][i].tiles = Append(@, x)])
         = [ms EXCEPT ![a][i].tiles = @ \o FiledEach(<<x>>)]
  <2>1. x \in Tiles
    OBVIOUS
  <2> DEFINE m == t.melds[a][i]
             n == [m EXCEPT !.tiles = Append(@, x)]
  <2>2. m \in MeldType
    BY ElementOfSeq, LenProperties
  <2>3. MeldFiled(n) = [MeldFiled(m) EXCEPT !.tiles = @ \o FiledEach(<<x>>)]
    <3> HIDE DEF m
    <3> QED
      BY <2>1, <2>2, MeldGrown
  <2>4. [t.melds EXCEPT ![a][i].tiles = Append(@, x)] = [t.melds EXCEPT ![a][i] = n]
    OBVIOUS
  <2>5. ms[a][i] = MeldFiled(m)
    BY DEF ShownMelds, MeldsFiled, ms
  <2> HIDE DEF n, m
  <2>6. ShownMelds([t.melds EXCEPT ![a][i] = n]) = [ms EXCEPT ![a][i] = MeldFiled(n)]
    BY DEF ShownMelds, MeldsFiled, ms
  <2> QED
    BY <2>3, <2>4, <2>5, <2>6
<1>19. /\ hands = [t.hands EXCEPT ![a] = @ \ {x}]
       /\ melds = [t.melds EXCEPT ![a][i].tiles = Append(@, x)]
  BY DEF Lengthened
<1> QED
  BY <1>19, <1>15, <1>16, <1>17, <1>18, Zenon DEF f, ev, hs, ms, ds, kind

LEMMA FrameStart ==
  ASSUME Film!Assumption, NEW t, Playing(t) = No,
         NEW deal \in [Seats -> Seq(Tiles)],
         \A s \in Seats : Len(deal[s]) = HandSize /\ Film!IsInjective(deal[s])
  PROVE  Film!Framed(FrameOf(t), [Film!Ev("start_kyoku", 1) EXCEPT !.hands = deal])
           = Reader(Yes, Yes, ShownHands([s \in Seats |-> Film!ToSet(deal[s])]),
                    ShownMelds([s \in Seats |-> <<>>]),
                    ShownDiscards([s \in Seats |-> <<>>]), NoSeats, NoSeats, [s \in Seats |-> 0])
<1> DEFINE hs == ShownHands(t.hands)
           ms == ShownMelds(t.melds)
           ds == ShownDiscards(t.discards)
           kind == "start_kyoku"
           f == FrameOf(t)
           ev == [Film!Ev(kind, 1) EXCEPT !.hands = deal]
           r == Event(kind, 1, 1, <<>>, <<>>, FiledHands(deal))
           hands == [s \in Seats |-> Film!HandOf(FiledEach(deal[s]))]
           none == [s \in Seats |-> <<>>]
           zero == [s \in Seats |-> 0]
<1>1. Film!Read(Film!Written(Film!Logged(ev))) = r
  BY HandsEvent, Through, FiledNone
<1>2. /\ r.kind = kind /\ r.actor = 1 /\ r.target = 1 /\ r.tile = <<>>
      /\ r.tiles = <<>> /\ r.hands = FiledHands(deal)
  BY EventFields
<1>3. f = Reader(Yes, No, hs, ms, ds, t.riichi, NoSeats, t.index)
  BY DEF FrameOf
<1>4. /\ f.ok = Yes /\ f.active = No /\ f.hands = hs /\ f.melds = ms /\ f.discards = ds
      /\ f.riichi = t.riichi /\ f.pending = NoSeats /\ f.index = t.index
  BY DEF FrameOf, Reader
<1>5. kind = "start_kyoku"
  OBVIOUS
<1>6. 1 \in Film!Seats
  BY DEF Film!Assumption, Film!Seats, Seats
<1>7. \A s \in Seats : FiledHands(deal)[s] = FiledEach(deal[s]) /\ Len(FiledEach(deal[s])) = HandSize
  BY FiledSeq DEF FiledHands
<1>8. Len(FiledHands(deal)) = N
  BY DEF FiledHands, Seats, Film!Seats, Film!Assumption
<1> HIDE DEF hs, ms, ds, f, ev, r, kind
<1>9. Film!EventValid(r)
  BY <1>2, <1>5, <1>6, <1>7, <1>8 DEF Film!EventValid, Seats
<1>10. Film!Fits(f, r)
  BY <1>2, <1>4, <1>5 DEF Film!Fits, Film!Open, Yes, No
<1>11. Film!Applied(f, r)
         = [[[f EXCEPT !.active = Yes, !.hands = hands] EXCEPT !.discards = none, !.melds = none]
                             EXCEPT !.riichi = NoSeats, !.pending = NoSeats, !.index = zero]
  <2>1. Film!Applied(f, r) = Film!Started(f, r)
    BY <1>2, <1>5 DEF Film!Applied, Film!Open
  <2>2. [s \in Film!Seats |-> Film!HandOf(r.hands[s])] = hands
    BY <1>2, <1>7 DEF Seats
  <2>3. [s \in Film!Seats |-> <<>>] = none /\ [s \in Film!Seats |-> 0] = zero
    BY DEF Seats
  <2> HIDE DEF hands, none, zero
  <2>4. Film!Started(f, r)
           = [f EXCEPT !.active = Yes, !.hands = hands, !.discards = none, !.melds = none,
                                       !.riichi = NoSeats, !.pending = NoSeats, !.index = zero]
    BY <2>2, <2>3 DEF Film!Started, Yes, NoSeats
  <2> QED
    BY <1>3, <2>1, <2>4 DEF Reader
<1>12. Film!Framed(f, ev) = Film!Applied(f, r)
  BY <1>1, <1>4, <1>9, <1>10 DEF Film!Framed, Yes
<1>13. Film!Applied(f, r) = Reader(Yes, Yes, hands, none, none, NoSeats, NoSeats, zero)
  BY <1>3, <1>11 DEF Reader
<1>14. ShownHands([s \in Seats |-> Film!ToSet(deal[s])]) = hands
  <2>1. \A s \in Seats : Film!HandOf(FiledEach(deal[s])) = Shown(Film!ToSet(deal[s]))
    BY Dealt
  <2> QED
    BY <2>1 DEF ShownHands
<1>15. ShownMelds([s \in Seats |-> <<>>]) = none /\ ShownDiscards([s \in Seats |-> <<>>]) = none
  BY FiledNone DEF ShownMelds, ShownDiscards, MeldsFiled
<1> QED
  BY <1>12, <1>13, <1>14, <1>15, Zenon DEF f, ev, hs, ms, ds, kind

-----------------------------------------------------------------------------
(* The table and the frame, step by step *)

LEMMA TableFields ==
  ASSUME NEW t, TableOk(t)
  PROVE  /\ t.hands \in [Seats -> SUBSET Tiles] /\ t.wall \in Seq(Tiles)
         /\ t.melds \in [Seats -> Seq(MeldType)] /\ t.discards \in [Seats -> Seq(Tiles)]
         /\ t.riichi \in SUBSET Seats /\ t.index \in [Seats -> Nat] /\ t.turn \in Seats
         /\ t.last \in Seq(Tiles) /\ t.drawn \in Seq(Tiles) /\ t.kyoku \in Nat
         /\ HandsApart(t.hands, Loose(t)) /\ MeldsApart(t.hands, t.melds, Loose(t))
         /\ LooseApart(t)
BY DEF TableOk, TableType

LEMMA TheFirst ==
  ASSUME NEW seq \in Seq(Tiles), Film!IsInjective(seq), seq # <<>>
  PROVE  /\ Head(seq) \in Film!ToSet(seq) /\ Head(seq) \in Tiles /\ Tail(seq) \in Seq(Tiles)
         /\ Film!IsInjective(Tail(seq)) /\ Film!ToSet(Tail(seq)) = Film!ToSet(seq) \ {Head(seq)}
<1> DEFINE q == Tail(seq)
           n == Len(seq)
<1>1. n \in Nat /\ n >= 1 /\ DOMAIN seq = 1..n /\ \A i \in 1..n : seq[i] \in Tiles
  BY LenProperties, ElementOfSeq, EmptySeq
<1>2. Head(seq) = seq[1] /\ q \in Seq(Tiles) /\ Len(q) = n - 1 /\ DOMAIN q = 1..n - 1
      /\ \A i \in 1..n - 1 : q[i] = seq[i + 1]
  <2>1. /\ Head(seq) = seq[1] /\ q \in Seq(Tiles) /\ Len(q) = n - 1
        /\ \A i \in 1..Len(q) : q[i] = seq[i + 1]
    BY HeadTailProperties
  <2> QED
    BY <2>1, LenProperties
<1> HIDE DEF q, n
<1>3. Film!IsInjective(q)
  <2> SUFFICES ASSUME NEW i \in 1..n - 1, NEW j \in 1..n - 1, q[i] = q[j]
               PROVE  i = j
    BY <1>2 DEF Film!IsInjective
  <2>1. i + 1 \in DOMAIN seq /\ j + 1 \in DOMAIN seq /\ seq[i + 1] = seq[j + 1]
    BY <1>1, <1>2
  <2>2. i + 1 = j + 1
    BY <2>1 DEF Film!IsInjective
  <2> QED
    BY <1>1, <2>2
<1>4. \A i \in 2..n : i - 1 \in 1..n - 1 /\ q[i - 1] = seq[i]
  BY <1>1, <1>2
<1>5. Film!ToSet(q) = {seq[i] : i \in 2..n}
  <2>1. \A i \in 1..n - 1 : i + 1 \in 2..n /\ q[i] = seq[i + 1]
    BY <1>1, <1>2
  <2> QED
    BY <1>2, <1>4, <2>1, SMTT(30) DEF Film!ToSet
<1>6. \A i \in 2..n : seq[i] # seq[1]
  BY <1>1 DEF Film!IsInjective
<1>7. Film!ToSet(seq) = {seq[i] : i \in 2..n} \cup {seq[1]}
  <2>1. 1..n = (2..n) \cup {1}
    BY <1>1
  <2> QED
    BY <1>1, <2>1 DEF Film!ToSet
<1> QED
  BY <1>1, <1>2, <1>3, <1>5, <1>6, <1>7 DEF q

Drew(t) ==
  [t EXCEPT !.hands[t.turn] = @ \cup {Head(t.wall)}, !.wall = Tail(@),
            !.phase = "act", !.drawn = <<Head(t.wall)>>]

LEMMA DrawKeeps ==
  ASSUME Film!Assumption, NEW t, TableOk(t), t.phase = "draw", t.wall # <<>>, NEW u, u = Drew(t)
  PROVE  /\ TableOk(u)
         /\ Film!Framed(FrameOf(t), Film!With("tsumo", t.turn, Head(t.wall), <<>>)) = FrameOf(u)
<1> DEFINE a == t.turn
           x == Head(t.wall)
           kind == "tsumo"
           hands == [t.hands EXCEPT ![a] = @ \cup {x}]
<1>1. /\ t.hands \in [Seats -> SUBSET Tiles] /\ t.wall \in Seq(Tiles) /\ a \in Seats
      /\ t.melds \in [Seats -> Seq(MeldType)] /\ t.last = <<>>
      /\ HandsApart(t.hands, Loose(t)) /\ MeldsApart(t.hands, t.melds, Loose(t))
      /\ LooseApart(t) /\ Film!IsInjective(t.wall)
  BY TableFields DEF LooseApart
<1>2. /\ u.hands = hands /\ u.wall = Tail(t.wall) /\ u.melds = t.melds
      /\ u.discards = t.discards /\ u.riichi = t.riichi /\ u.index = t.index
      /\ u.phase = "act" /\ u.last = t.last
  BY DEF TableOk, TableType, Drew
<1>3. /\ x \in Film!ToSet(t.wall) /\ x \in Tiles /\ Tail(t.wall) \in Seq(Tiles)
      /\ Film!IsInjective(Tail(t.wall))
      /\ Film!ToSet(Tail(t.wall)) = Film!ToSet(t.wall) \ {x}
  BY <1>1, TheFirst
<1>4. Loose(t) = Film!ToSet(t.wall) /\ Loose(u) = Loose(t) \ {x}
  BY <1>1, <1>2, <1>3, OneTile DEF Loose
<1>5. /\ hands \in [Seats -> SUBSET Tiles] /\ HandsApart(hands, Loose(u))
      /\ MeldsApart(hands, t.melds, Loose(u))
  <2>1. x \in Loose(t) /\ x \in Tiles /\ hands = [t.hands EXCEPT ![a] = @ \cup {x}]
    BY <1>3, <1>4
  <2> HIDE DEF x, a
  <2>2. /\ hands \in [Seats -> SUBSET Tiles] /\ HandsApart(hands, Loose(t) \ {x})
        /\ MeldsApart(hands, t.melds, Loose(t) \ {x})
    BY <1>1, <2>1, HandGains
  <2> HIDE DEF hands
  <2> QED
    BY <1>4, <2>2, Zenon
<1>6. LooseApart(u)
  BY <1>1, <1>2, <1>3, OneTile DEF LooseApart
<1>7. u \in TableType
  <2>1. <<x>> \in Seq(Tiles)
    BY <1>3
  <2> HIDE DEF x
  <2>2. u = [t EXCEPT !.hands = hands, !.wall = Tail(t.wall), !.phase = "act", !.drawn = <<x>>]
    BY DEF x, Drew
  <2> HIDE DEF hands
  <2> QED
    BY <1>3, <1>5, <2>1, <2>2 DEF TableOk, TableType
<1>8. TableOk(u)
  BY <1>2, <1>5, <1>6, <1>7 DEF TableOk
<1>9. Playing(t) = Yes /\ Playing(u) = Yes
  BY <1>2 DEF Playing, Yes
<1>10. IsFiniteSet(t.hands[a]) /\ x \notin t.hands[a] /\ t.hands[a] \in SUBSET Tiles
  BY <1>1, <1>3, <1>4 DEF HandsApart
<1>11. Film!Framed(FrameOf(t), Film!With(kind, a, x, <<>>))
         = Reader(Yes, Yes, ShownHands(hands), ShownMelds(t.melds),
                  ShownDiscards(t.discards), t.riichi, NoSeats, t.index)
  BY <1>1, <1>3, <1>9, <1>10, FrameTsumo
<1>12. FrameOf(u) = Reader(Yes, Yes, ShownHands(hands), ShownMelds(t.melds),
                           ShownDiscards(t.discards), t.riichi, NoSeats, t.index)
  BY <1>2, <1>9 DEF FrameOf
<1> QED
  BY <1>8, <1>11, <1>12

\* Each step of the table is one of a few changes of its fields.
PutsAway(t, a, x, u) ==
  /\ a \in Seats /\ x \in t.hands[a] /\ t.last = <<>> /\ u \in TableType
  /\ \A s \in Seats : u.hands[s] = IF s = a THEN t.hands[s] \ {x} ELSE t.hands[s]
  /\ u.wall = t.wall /\ u.melds = t.melds
  /\ \/ u.phase = "respond" /\ u.last = <<x>>
     \/ u.phase = "draw" /\ u.last = <<>>

LEMMA PutAwayOk ==
  ASSUME NEW t, TableOk(t), NEW a, NEW x, NEW u, PutsAway(t, a, x, u)
  PROVE  TableOk(u) /\ x \in Tiles /\ IsFiniteSet(t.hands[a])
<1> DEFINE hands == t.hands
           hands1 == u.hands
           melds == t.melds
           loose == Loose(t)
           loose1 == Loose(u)
<1>1. /\ hands \in [Seats -> SUBSET Tiles] /\ melds \in [Seats -> Seq(MeldType)]
      /\ HandsApart(hands, loose) /\ MeldsApart(hands, melds, loose) /\ LooseApart(t)
  BY TableFields
<1>2. x \in Tiles /\ IsFiniteSet(hands[a]) /\ Film!IsInjective(t.wall)
  BY <1>1 DEF HandsApart, LooseApart, PutsAway
<1>3. \A s \in Seats : hands1[s] = IF s = a THEN hands[s] \ {x} ELSE hands[s]
  BY DEF PutsAway
<1>4. /\ loose = Film!ToSet(t.wall) /\ Film!ToSet(u.last) \in SUBSET {x}
      /\ loose1 = loose \cup Film!ToSet(u.last)
  BY OneTile DEF Loose, PutsAway
<1>5. /\ \A s \in Seats : hands[s] \cap loose = {}
      /\ \A s \in Seats : \A r \in Seats \ {s} : hands[s] \cap hands[r] = {}
  BY <1>1 DEF HandsApart
<1>6. Lost(hands, loose, hands1, loose1)
  <2> HIDE DEF hands, hands1, loose, loose1
  <2>1. ASSUME NEW s \in Seats
        PROVE  x \notin hands1[s] /\ hands1[s] \in SUBSET hands[s] /\ hands1[s] \cap loose = {}
    <3>1. CASE s = a
      BY <1>3, <1>5, <3>1 DEF hands, PutsAway
    <3>2. CASE s # a
      BY <1>3, <1>5, <3>2 DEF hands, PutsAway
    <3> QED
      BY <3>1, <3>2
  <2>2. \A s \in Seats : hands1[s] \in SUBSET hands[s] /\ hands1[s] \cap loose1 = {}
    BY <1>4, <2>1
  <2>3. \A y \in loose1 : y \in loose \/ \E s \in Seats : y \in hands[s]
    BY <1>4 DEF hands, PutsAway
  <2> QED
    BY <2>2, <2>3 DEF Lost
<1>7. HandsApart(hands1, loose1) /\ MeldsApart(hands1, melds, loose1)
  <2> HIDE DEF hands, hands1, melds, loose, loose1
  <2> QED
    BY <1>1, <1>6, HandsLose
<1>8. LooseApart(u)
  <2>1. Film!ToSet(u.last) \cap Film!ToSet(u.wall) = {}
    BY <1>4, <1>5 DEF PutsAway
  <2>2. /\ u.phase \in {"draw", "act"} => u.last = <<>>
        /\ u.phase = "respond" => Len(u.last) = 1
    BY DEF PutsAway
  <2> QED
    BY <1>2, <2>1, <2>2 DEF LooseApart, PutsAway
<1> QED
  BY <1>2, <1>7, <1>8 DEF TableOk, PutsAway

Thrown(t, x) ==
  [t EXCEPT !.hands[t.turn] = @ \ {x}, !.discards[t.turn] = Append(@, x),
            !.phase = "respond", !.last = <<x>>, !.drawn = <<>>]

LEMMA DiscardShown ==
  ASSUME Film!Assumption, NEW t, TableOk(t), t.phase = "act", NEW a \in Seats,
         NEW x \in t.hands[a], IsFiniteSet(t.hands[a])
  PROVE  Film!Framed(FrameOf(t), Film!With("dahai", a, x, <<>>))
           = Reader(Yes, Yes, ShownHands([t.hands EXCEPT ![a] = @ \ {x}]), ShownMelds(t.melds),
                    ShownDiscards([t.discards EXCEPT ![a] = Append(@, x)]),
                    t.riichi, NoSeats, t.index)
<1> DEFINE kind == "dahai"
<1>1. t.hands \in [Seats -> SUBSET Tiles] /\ t.discards \in [Seats -> Seq(Tiles)]
  BY TableFields
<1>2. Playing(t) = Yes
  BY DEF Playing, Yes
<1> QED
  BY <1>1, <1>2, FrameDahai

LEMMA DiscardKeeps ==
  ASSUME Film!Assumption, NEW t, TableOk(t), t.phase = "act", NEW x \in t.hands[t.turn],
         NEW u, u = Thrown(t, x)
  PROVE  /\ TableOk(u)
         /\ Film!Framed(FrameOf(t), Film!With("dahai", t.turn, x, <<>>)) = FrameOf(u)
<1> DEFINE a == t.turn
           hands == [t.hands EXCEPT ![a] = @ \ {x}]
           discards == [t.discards EXCEPT ![a] = Append(@, x)]
           last == <<x>>
           drawn == <<>>
<1>1. /\ t \in TableType /\ t.last = <<>> /\ a \in Seats /\ x \in Tiles
      /\ t.hands \in [Seats -> SUBSET Tiles] /\ t.discards \in [Seats -> Seq(Tiles)]
  BY TableFields DEF LooseApart, TableOk
<1>2. u = [t EXCEPT !.hands = hands, !.discards = discards, !.phase = "respond", !.last = last,
                    !.drawn = drawn]
  BY <1>1 DEF TableType, Thrown
<1>3. last \in Seq(Tiles) /\ drawn \in Seq(Tiles) /\ hands \in [Seats -> SUBSET Tiles]
  BY <1>1
<1>4. discards \in [Seats -> Seq(Tiles)]
  <2>1. \A s \in Seats : Append(t.discards[s], x) \in Seq(Tiles)
    BY <1>1, AppendProperties
  <2> QED
    BY <1>1, <2>1
<1>5. /\ u \in TableType /\ u.hands = hands /\ u.discards = discards /\ u.wall = t.wall
      /\ u.melds = t.melds /\ u.riichi = t.riichi /\ u.index = t.index
      /\ u.phase = "respond" /\ u.last = last
  <2> HIDE DEF hands, discards, last, drawn
  <2> QED
    BY <1>1, <1>2, <1>3, <1>4 DEF TableType
<1>6. TableOk(u) /\ IsFiniteSet(t.hands[a])
  <2>1. \A s \in Seats : hands[s] = IF s = a THEN t.hands[s] \ {x} ELSE t.hands[s]
    BY <1>1
  <2>2. PutsAway(t, a, x, u)
    <3> HIDE DEF hands
    <3> QED
      BY <1>1, <1>5, <2>1 DEF PutsAway
  <2> QED
    BY <2>2, PutAwayOk
<1>7. Film!Framed(FrameOf(t), Film!With("dahai", a, x, <<>>))
        = Reader(Yes, Yes, ShownHands(hands), ShownMelds(t.melds), ShownDiscards(discards),
                 t.riichi, NoSeats, t.index)
  <2>1. x \in t.hands[a]
    OBVIOUS
  <2> HIDE DEF a
  <2> QED
    BY <1>1, <1>6, <2>1, DiscardShown, Zenon
<1>8. Playing(u) = Yes
  BY <1>5 DEF Playing, Yes
<1> HIDE DEF a, hands, discards
<1>9. FrameOf(u) = Reader(Yes, Yes, ShownHands(hands), ShownMelds(t.melds), ShownDiscards(discards),
                          t.riichi, NoSeats, t.index)
  BY <1>5, <1>8 DEF FrameOf
<1> QED
  BY <1>6, <1>7, <1>9 DEF a

\* With a declaration of riichi the index of the discard is noted.
Declared(t, x) ==
  [Thrown(t, x) EXCEPT !.riichi = @ \cup {t.turn},
                       !.index[t.turn] = Len(t.discards[t.turn]) + 1]

LEMMA ReachShown ==
  ASSUME Film!Assumption, NEW t, TableOk(t), t.phase = "act", NEW a \in Seats,
         NEW x \in t.hands[a], IsFiniteSet(t.hands[a])
  PROVE  Film!Framed(Film!Framed(FrameOf(t), Film!Ev("reach", a)), Film!With("dahai", a, x, <<>>))
           = Reader(Yes, Yes, ShownHands([t.hands EXCEPT ![a] = @ \ {x}]), ShownMelds(t.melds),
                    ShownDiscards([t.discards EXCEPT ![a] = Append(@, x)]),
                    t.riichi \cup {a}, NoSeats, [t.index EXCEPT ![a] = Len(t.discards[a]) + 1])
<1> DEFINE f == Reader(Yes, Yes, ShownHands(t.hands), ShownMelds(t.melds),
                       ShownDiscards(t.discards), t.riichi \cup {a}, {a}, t.index)
           ev == Film!With("dahai", a, x, <<>>)
           g == Reader(Yes, Yes, ShownHands([t.hands EXCEPT ![a] = @ \ {x}]), ShownMelds(t.melds),
                       ShownDiscards([t.discards EXCEPT ![a] = Append(@, x)]),
                       t.riichi \cup {a}, NoSeats, [t.index EXCEPT ![a] = Len(t.discards[a]) + 1])
<1>1. t.hands \in [Seats -> SUBSET Tiles] /\ t.discards \in [Seats -> Seq(Tiles)]
  BY TableFields
<1>2. Playing(t) = Yes
  BY DEF Playing, Yes
<1>3. Film!Framed(FrameOf(t), Film!Ev("reach", a)) = f
  BY <1>2, FrameReach, Zenon
<1>4. Film!Framed(f, ev) = g
  BY <1>1, FrameDahaiAfterReach, Zenon
<1> HIDE DEF f, g, ev
<1>5. Film!Framed(Film!Framed(FrameOf(t), Film!Ev("reach", a)), ev) = g
  BY <1>3, <1>4, Zenon
<1> QED
  BY <1>5 DEF ev, g

LEMMA DeclareKeeps ==
  ASSUME Film!Assumption, NEW t, TableOk(t), t.phase = "act", NEW x \in t.hands[t.turn],
         NEW u, u = Declared(t, x)
  PROVE  /\ TableOk(u)
         /\ Film!Framed(Film!Framed(FrameOf(t), Film!Ev("reach", t.turn)),
                        Film!With("dahai", t.turn, x, <<>>)) = FrameOf(u)
<1> DEFINE a == t.turn
           hands == [t.hands EXCEPT ![a] = @ \ {x}]
           discards == [t.discards EXCEPT ![a] = Append(@, x)]
           riichi == t.riichi \cup {a}
           index == [t.index EXCEPT ![a] = Len(t.discards[a]) + 1]
           last == <<x>>
           drawn == <<>>
<1>1. /\ t \in TableType /\ t.last = <<>> /\ a \in Seats /\ x \in Tiles
      /\ t.hands \in [Seats -> SUBSET Tiles] /\ t.discards \in [Seats -> Seq(Tiles)]
      /\ t.riichi \in SUBSET Seats /\ t.index \in [Seats -> Nat]
  BY TableFields DEF LooseApart, TableOk
<1>2. u = [t EXCEPT !.hands = hands, !.discards = discards, !.phase = "respond", !.last = last,
                    !.drawn = drawn, !.riichi = riichi, !.index = index]
  <2>1. Thrown(t, x) = [t EXCEPT !.hands = hands, !.discards = discards, !.phase = "respond",
                                 !.last = last, !.drawn = drawn]
    BY <1>1 DEF TableType, Thrown
  <2>2. Thrown(t, x).riichi = t.riichi /\ Thrown(t, x).index = t.index
    <3> HIDE DEF hands, discards, last, drawn
    <3> QED
      BY <1>1, <2>1 DEF TableType
  <2>3. u = [Thrown(t, x) EXCEPT !.riichi = riichi, !.index = index]
    BY <2>1, <2>2 DEF Declared
  <2> HIDE DEF hands, discards, last, drawn, riichi, index
  <2> QED
    BY <1>1, <2>1, <2>3 DEF TableType
<1>3. /\ last \in Seq(Tiles) /\ drawn \in Seq(Tiles) /\ hands \in [Seats -> SUBSET Tiles]
      /\ riichi \in SUBSET Seats
  BY <1>1
<1>4. discards \in [Seats -> Seq(Tiles)] /\ index \in [Seats -> Nat]
  <2>1. \A s \in Seats : Append(t.discards[s], x) \in Seq(Tiles) /\ Len(t.discards[s]) + 1 \in Nat
    BY <1>1, AppendProperties, LenProperties
  <2> QED
    BY <1>1, <2>1
<1>5. /\ u \in TableType /\ u.hands = hands /\ u.discards = discards /\ u.wall = t.wall
      /\ u.melds = t.melds /\ u.riichi = riichi /\ u.index = index
      /\ u.phase = "respond" /\ u.last = last
  <2> HIDE DEF hands, discards, last, drawn, riichi, index
  <2> QED
    BY <1>1, <1>2, <1>3, <1>4 DEF TableType
<1>6. TableOk(u) /\ IsFiniteSet(t.hands[a])
  <2>1. \A s \in Seats : hands[s] = IF s = a THEN t.hands[s] \ {x} ELSE t.hands[s]
    BY <1>1
  <2>2. PutsAway(t, a, x, u)
    <3> HIDE DEF hands
    <3> QED
      BY <1>1, <1>5, <2>1 DEF PutsAway
  <2> QED
    BY <2>2, PutAwayOk
<1>7. Film!Framed(Film!Framed(FrameOf(t), Film!Ev("reach", a)), Film!With("dahai", a, x, <<>>))
        = Reader(Yes, Yes, ShownHands(hands), ShownMelds(t.melds), ShownDiscards(discards),
                 riichi, NoSeats, index)
  <2>1. x \in t.hands[a]
    OBVIOUS
  <2> HIDE DEF a
  <2> QED
    BY <1>1, <1>6, <2>1, ReachShown, Zenon
<1>8. Playing(u) = Yes
  BY <1>5 DEF Playing, Yes
<1> HIDE DEF a, hands, discards, riichi, index
<1>9. FrameOf(u) = Reader(Yes, Yes, ShownHands(hands), ShownMelds(t.melds), ShownDiscards(discards),
                          riichi, NoSeats, index)
  BY <1>5, <1>8 DEF FrameOf
<1> QED
  BY <1>6, <1>7, <1>9 DEF a

\* Kita: the tile is gone, nobody can call it, and the same Seat draws.
SetAside(t, x) ==
  [t EXCEPT !.hands[t.turn] = @ \ {x}, !.phase = "draw", !.drawn = <<>>]

LEMMA KitaShown ==
  ASSUME Film!Assumption, NEW t, TableOk(t), t.phase = "act", NEW a \in Seats,
         NEW x \in t.hands[a], IsFiniteSet(t.hands[a]), ThreePlayers, Film!Kind(x) = North
  PROVE  Film!Framed(FrameOf(t), Film!Ev("kita", a))
           = Reader(Yes, Yes, ShownHands([t.hands EXCEPT ![a] = @ \ {x}]), ShownMelds(t.melds),
                    ShownDiscards(t.discards), t.riichi, NoSeats, t.index)
<1>1. t.hands \in [Seats -> SUBSET Tiles]
  BY TableFields
<1>2. Playing(t) = Yes
  BY DEF Playing, Yes
<1> QED
  BY <1>1, <1>2, FrameKita

LEMMA KitaKeeps ==
  ASSUME Film!Assumption, NEW t, TableOk(t), t.phase = "act", NEW x \in t.hands[t.turn],
         ThreePlayers, Film!Kind(x) = North, NEW u, u = SetAside(t, x)
  PROVE  TableOk(u) /\ Film!Framed(FrameOf(t), Film!Ev("kita", t.turn)) = FrameOf(u)
<1> DEFINE a == t.turn
           hands == [t.hands EXCEPT ![a] = @ \ {x}]
           drawn == <<>>
<1>1. /\ t \in TableType /\ t.last = <<>> /\ a \in Seats /\ x \in Tiles
      /\ t.hands \in [Seats -> SUBSET Tiles]
  BY TableFields DEF LooseApart, TableOk
<1>2. u = [t EXCEPT !.hands = hands, !.phase = "draw", !.drawn = drawn]
  BY <1>1 DEF TableType, SetAside
<1>3. drawn \in Seq(Tiles) /\ hands \in [Seats -> SUBSET Tiles]
  BY <1>1
<1>4. /\ u \in TableType /\ u.hands = hands /\ u.discards = t.discards /\ u.wall = t.wall
      /\ u.melds = t.melds /\ u.riichi = t.riichi /\ u.index = t.index
      /\ u.phase = "draw" /\ u.last = t.last
  <2> HIDE DEF hands, drawn
  <2> QED
    BY <1>1, <1>2, <1>3 DEF TableType
<1>5. TableOk(u) /\ IsFiniteSet(t.hands[a])
  <2>1. \A s \in Seats : hands[s] = IF s = a THEN t.hands[s] \ {x} ELSE t.hands[s]
    BY <1>1
  <2>2. PutsAway(t, a, x, u)
    <3> HIDE DEF hands
    <3> QED
      BY <1>1, <1>4, <2>1 DEF PutsAway
  <2> QED
    BY <2>2, PutAwayOk
<1>6. Film!Framed(FrameOf(t), Film!Ev("kita", a))
        = Reader(Yes, Yes, ShownHands(hands), ShownMelds(t.melds), ShownDiscards(t.discards),
                 t.riichi, NoSeats, t.index)
  <2>1. x \in t.hands[a]
    OBVIOUS
  <2> HIDE DEF a
  <2> QED
    BY <1>1, <1>5, <2>1, KitaShown, Zenon
<1>7. Playing(u) = Yes
  BY <1>4 DEF Playing, Yes
<1> HIDE DEF a, hands
<1>8. FrameOf(u) = Reader(Yes, Yes, ShownHands(hands), ShownMelds(t.melds), ShownDiscards(t.discards),
                          t.riichi, NoSeats, t.index)
  BY <1>4, <1>7 DEF FrameOf
<1> QED
  BY <1>5, <1>6, <1>8 DEF a

\* Nobody takes the discard, and the next Seat draws.
NextTurn(t) == [t EXCEPT !.turn = (@ % N) + 1, !.phase = "draw", !.last = <<>>]

LEMMA PassKeeps ==
  ASSUME Film!Assumption, NEW t, TableOk(t), t.phase = "respond", NEW u, u = NextTurn(t)
  PROVE  /\ TableOk(u) /\ FrameOf(t) = FrameOf(u)
         /\ Film!Framed(FrameOf(t), Film!Ev("reach_accepted", t.turn)) = FrameOf(u)
<1> DEFINE last == <<>>
           turn == (t.turn % N) + 1
           hands == t.hands
           melds == t.melds
           loose == Loose(t)
           loose1 == Loose(u)
           kind == "reach_accepted"
<1>1. /\ t \in TableType /\ hands \in [Seats -> SUBSET Tiles] /\ melds \in [Seats -> Seq(MeldType)]
      /\ HandsApart(hands, loose) /\ MeldsApart(hands, melds, loose) /\ LooseApart(t)
      /\ t.turn \in Seats
  BY TableFields DEF TableOk
<1>2. turn \in Seats
  BY <1>1 DEF Film!Assumption, Seats, Film!Seats
<1>3. /\ u \in TableType /\ u.hands = hands /\ u.wall = t.wall /\ u.melds = melds
      /\ u.discards = t.discards /\ u.riichi = t.riichi /\ u.index = t.index
      /\ u.phase = "draw" /\ u.last = last
  <2>1. last \in Seq(Tiles)
    OBVIOUS
  <2> HIDE DEF last, turn
  <2>2. u = [t EXCEPT !.turn = turn, !.phase = "draw", !.last = last]
    BY DEF NextTurn, last, turn
  <2> QED
    BY <1>1, <1>2, <2>1, <2>2 DEF TableType
<1>4. loose1 \in SUBSET loose
  BY <1>3, OneTile DEF Loose
<1>5. Lost(hands, loose, hands, loose1)
  <2>1. \A s \in Seats : hands[s] \cap loose = {}
    BY <1>1 DEF HandsApart
  <2> HIDE DEF hands, loose, loose1
  <2> QED
    BY <1>4, <2>1 DEF Lost
<1>6. HandsApart(hands, loose1) /\ MeldsApart(hands, melds, loose1)
  <2> HIDE DEF hands, melds, loose, loose1
  <2> QED
    BY <1>1, <1>5, HandsLose
<1>7. LooseApart(u)
  <2>1. Film!IsInjective(u.wall) /\ Film!ToSet(u.last) = {}
    BY <1>1, <1>3, OneTile DEF LooseApart
  <2> QED
    BY <1>3, <2>1 DEF LooseApart
<1>8. TableOk(u)
  BY <1>3, <1>6, <1>7 DEF TableOk
<1>9. Playing(t) = Yes /\ Playing(u) = Yes
  BY <1>3 DEF Playing, Yes
<1>10. FrameOf(t) = FrameOf(u)
  <2> HIDE DEF hands, melds
  <2> QED
    BY <1>3, <1>9 DEF FrameOf, hands, melds
<1>11. Film!Framed(FrameOf(t), Film!Ev(kind, t.turn))
         = Reader(Yes, Yes, ShownHands(t.hands), ShownMelds(t.melds),
                  ShownDiscards(t.discards), t.riichi, NoSeats, t.index)
  BY <1>1, <1>9, FrameOther
<1>12. FrameOf(t) = Reader(Yes, Yes, ShownHands(t.hands), ShownMelds(t.melds),
                           ShownDiscards(t.discards), t.riichi, NoSeats, t.index)
  BY <1>9 DEF FrameOf
<1> QED
  BY <1>8, <1>10, <1>11, <1>12

\* The Kyoku is over: the reader ends it too.
Over(t) == [t EXCEPT !.phase = "over"]

LEMMA OverKeeps ==
  ASSUME Film!Assumption, NEW t, TableOk(t), t.phase # "over", NEW u, u = Over(t)
  PROVE  TableOk(u) /\ Playing(u) = No /\ u.kyoku = t.kyoku
<1>1. t \in TableType /\ LooseApart(t)
  BY DEF TableOk
<1>2. /\ u \in TableType /\ u.hands = t.hands /\ u.wall = t.wall /\ u.melds = t.melds
      /\ u.last = t.last /\ u.phase = "over" /\ u.kyoku = t.kyoku
  BY <1>1 DEF TableType, Over
<1>3. LooseApart(u) /\ Loose(u) = Loose(t)
  BY <1>1, <1>2 DEF LooseApart, Loose
<1>4. HandsApart(u.hands, Loose(u)) /\ MeldsApart(u.hands, u.melds, Loose(u))
  BY <1>2, <1>3 DEF TableOk
<1>5. TableOk(u)
  BY <1>2, <1>3, <1>4 DEF TableOk
<1> QED
  BY <1>2, <1>5 DEF Playing, No

LEMMA OverShown ==
  ASSUME Film!Assumption, NEW t, TableOk(t), t.phase # "over", NEW u, u = Over(t),
         NEW kind \in {"hora", "ryukyoku", "reach_accepted"}
  PROVE  /\ Film!Framed(Film!Framed(FrameOf(t), Film!Ev(kind, t.turn)), Film!Ev("end_kyoku", 1))
           = FrameOf(u)
         /\ Film!Framed(FrameOf(u), Film!Ev("end_game", 1)) = FrameOf(u)
<1> DEFINE f == Reader(Yes, Yes, ShownHands(t.hands), ShownMelds(t.melds),
                       ShownDiscards(t.discards), t.riichi, NoSeats, t.index)
           g == Reader(Yes, No, ShownHands(t.hands), ShownMelds(t.melds),
                       ShownDiscards(t.discards), t.riichi, NoSeats, t.index)
           end == Film!Ev("end_kyoku", 1)
           over == Film!Ev("end_game", 1)
<1>1. t \in TableType /\ t.turn \in Seats
  BY TableFields DEF TableOk
<1>2. 1 \in Seats
  BY DEF Film!Assumption, Seats, Film!Seats
<1>3. Playing(t) = Yes /\ Playing(u) = No
  BY OverKeeps DEF Playing, Yes
<1>4. FrameOf(t) = f
  BY <1>3 DEF FrameOf
<1>5. FrameOf(u) = g
  <2>1. /\ u.hands = t.hands /\ u.melds = t.melds /\ u.discards = t.discards
        /\ u.riichi = t.riichi /\ u.index = t.index
    BY <1>1 DEF TableType, Over
  <2> QED
    BY <1>3, <2>1 DEF FrameOf
<1>6. Film!Framed(FrameOf(t), Film!Ev(kind, t.turn)) = f
  BY <1>1, <1>3, FrameOther
<1>7. Film!Framed(FrameOf(t), end) = g
  BY <1>2, <1>3, FrameEndKyoku, Zenon
<1>8. Film!Framed(FrameOf(u), over)
        = Reader(Yes, No, ShownHands(u.hands), ShownMelds(u.melds),
                 ShownDiscards(u.discards), u.riichi, NoSeats, u.index)
  BY <1>2, <1>3, FrameEndGame, Zenon
<1>9. FrameOf(u) = Reader(Yes, No, ShownHands(u.hands), ShownMelds(u.melds),
                          ShownDiscards(u.discards), u.riichi, NoSeats, u.index)
  BY <1>3 DEF FrameOf
<1> HIDE DEF f, g, end, over
<1> QED
  <2>1. Film!Framed(Film!Framed(FrameOf(t), Film!Ev(kind, t.turn)), end) = FrameOf(u)
    BY <1>4, <1>5, <1>6, <1>7, Zenon
  <2>2. Film!Framed(FrameOf(u), over) = FrameOf(u)
    BY <1>8, <1>9, Zenon
  <2> QED
    BY <2>1, <2>2 DEF end, over

\* The next Kyoku is dealt.
LEMMA DealKeeps ==
  ASSUME Film!Assumption, NEW t, Playing(t) = No, NEW deal \in Deals, NEW kyoku \in Nat,
         NEW u, u = Film!DealOf(deal, kyoku)
  PROVE  TableOk(u) /\ Film!Framed(FrameOf(t), Film!StartOf(deal)) = FrameOf(u)
<1> DEFINE hands == [s \in Seats |-> Film!ToSet(deal.hands[s])]
           none == [s \in Seats |-> <<>>]
           zero == [s \in Seats |-> 0]
           dealt == deal.hands
<1>1. /\ dealt \in [Seats -> Seq(Tiles)] /\ deal.wall \in Seq(Tiles)
      /\ \A s \in Seats : Len(dealt[s]) = HandSize /\ Film!IsInjective(dealt[s])
                          /\ Film!ToSet(dealt[s]) \cap Film!ToSet(deal.wall) = {}
      /\ \A s, r \in Seats : s # r => Film!ToSet(dealt[s]) \cap Film!ToSet(dealt[r]) = {}
      /\ Film!IsInjective(deal.wall) /\ 1 \in Seats
  <2>1. Film!DealAssumption(deal) /\ N \in Nat \ {0}
    BY DEF Film!Assumption
  <2>2. 1 \in Seats
    BY <2>1 DEF Seats, Film!Seats
  <2> QED
    BY <2>1, <2>2 DEF Film!DealAssumption, Seats, Tiles
<1>2. /\ u.hands = hands /\ u.wall = deal.wall /\ u.melds = none /\ u.discards = none
      /\ u.riichi = NoSeats /\ u.index = zero /\ u.phase = "draw" /\ u.last = <<>>
  BY DEF Film!DealOf, Seats, NoSeats
<1>3. \A s \in Seats : /\ Film!ToSet(dealt[s]) \in SUBSET Tiles
                       /\ IsFiniteSet(Film!ToSet(dealt[s]))
  <2> SUFFICES ASSUME NEW s \in Seats
               PROVE  Film!ToSet(dealt[s]) \in SUBSET Tiles /\ IsFiniteSet(Film!ToSet(dealt[s]))
    OBVIOUS
  <2>1. dealt[s] \in Seq(Tiles) /\ Film!IsInjective(dealt[s])
    BY <1>1
  <2>2. IsFiniteSet(Film!ToSet(dealt[s]))
    BY <2>1, CountFiled
  <2>3. \A i \in DOMAIN dealt[s] : dealt[s][i] \in Tiles
    BY <2>1, ElementOfSeq, LenProperties
  <2> QED
    BY <2>2, <2>3 DEF Film!ToSet
<1> HIDE DEF dealt
<1>4. hands \in [Seats -> SUBSET Tiles]
  BY <1>3 DEF dealt
<1>5. u \in TableType
  <2>1. /\ none \in [Seats -> Seq(MeldType)] /\ none \in [Seats -> Seq(Tiles)]
        /\ zero \in [Seats -> Nat] /\ NoSeats \in SUBSET Seats
    BY DEF NoSeats
  <2>2. u = [hands |-> hands, wall |-> deal.wall, melds |-> none, discards |-> none,
             riichi |-> NoSeats, index |-> zero, turn |-> 1, phase |-> "draw", last |-> <<>>,
             drawn |-> <<>>, kyoku |-> kyoku]
    BY DEF Film!DealOf, Seats, NoSeats
  <2> HIDE DEF hands, none, zero
  <2> QED
    BY <1>1, <1>4, <2>1, <2>2 DEF TableType
<1>6. Loose(u) = Film!ToSet(deal.wall)
  BY <1>2, OneTile DEF Loose
<1>7. HandsApart(u.hands, Loose(u))
  BY <1>1, <1>2, <1>3, <1>6 DEF HandsApart, dealt
<1>8. MeldsApart(u.hands, u.melds, Loose(u))
  BY <1>2 DEF MeldsApart
<1>9. LooseApart(u)
  BY <1>1, <1>2, OneTile DEF LooseApart
<1>10. TableOk(u)
  BY <1>5, <1>7, <1>8, <1>9 DEF TableOk
<1>11. Film!Framed(FrameOf(t), [Film!Ev("start_kyoku", 1) EXCEPT !.hands = dealt])
         = Reader(Yes, Yes, ShownHands([s \in Seats |-> Film!ToSet(dealt[s])]), ShownMelds(none),
                  ShownDiscards(none), NoSeats, NoSeats, zero)
  BY <1>1, FrameStart, Zenon
<1>12. Playing(u) = Yes
  BY <1>2 DEF Playing, Yes
<1>13. FrameOf(u) = Reader(Yes, Yes, ShownHands(hands), ShownMelds(none),
                           ShownDiscards(none), NoSeats, NoSeats, zero)
  <2> HIDE DEF hands, none, zero
  <2> QED
    BY <1>2, <1>12 DEF FrameOf
<1> QED
  BY <1>10, <1>11, <1>13 DEF Film!StartOf, dealt

\* Before the first Kyoku the reader has nothing.
Before ==
  [phase |-> "over", hands |-> [s \in Seats |-> {}], melds |-> [s \in Seats |-> <<>>],
   discards |-> [s \in Seats |-> <<>>], riichi |-> {}, index |-> [s \in Seats |-> 0]]
Unread ==
  [ok |-> TRUE, active |-> FALSE, hands |-> [s \in Seats |-> Film!HandOf(<<>>)],
   melds |-> [s \in Seats |-> <<>>], discards |-> [s \in Seats |-> <<>>],
   riichi |-> {}, pending |-> {}, index |-> [s \in Seats |-> 0]]

LEMMA FirstFrame == Playing(Before) = No /\ FrameOf(Before) = Unread
<1> DEFINE none == [s \in Seats |-> <<>>]
           zero == [s \in Seats |-> 0]
           empty == [s \in Seats |-> {}]
           first == [s \in Seats |-> Film!HandOf(<<>>)]
<1>1. Playing(Before) = No
  BY DEF Playing, No, Before
<1>2. Film!HandOf(<<>>) = Shown({})
  <2>1. <<>> \in Seq(Tiles) /\ Film!IsInjective(<<>>)
    BY DEF Film!IsInjective
  <2> QED
    BY <2>1, Dealt, FiledNone, OneTile
<1>3. ShownHands(empty) = first
  BY <1>2 DEF ShownHands
<1>4. ShownMelds(none) = none /\ ShownDiscards(none) = none
  BY FiledNone DEF ShownMelds, ShownDiscards, MeldsFiled
<1>5. /\ Before.hands = empty /\ Before.melds = none /\ Before.discards = none
      /\ Before.riichi = {} /\ Before.index = zero
  BY DEF Before
<1>6. FrameOf(Before) = Reader(Yes, No, first, none, none, {}, NoSeats, zero)
  <2> HIDE DEF none, zero, empty, first
  <2> QED
    BY <1>1, <1>3, <1>4, <1>5 DEF FrameOf
<1> QED
  BY <1>1, <1>6 DEF Reader, Yes, No, NoSeats, Unread

\* A meld of tiles of a hand, and the discard that waited for an answer if there was one.
TakenUp(t, a, used, m, u) ==
  /\ a \in Seats /\ used \in SUBSET t.hands[a] /\ u \in TableType
  /\ m \in MeldType /\ Film!IsInjective(m.tiles) /\ Film!ToSet(m.tiles) = used \cup Film!ToSet(t.last)
  /\ \A s \in Seats : u.hands[s] = IF s = a THEN t.hands[s] \ used ELSE t.hands[s]
  /\ u.melds = [t.melds EXCEPT ![a] = Append(@, m)]
  /\ u.wall = t.wall /\ u.last = <<>> /\ u.phase \in {"draw", "act"}

LEMMA TakenUpOk ==
  ASSUME NEW t, TableOk(t), NEW a, NEW used, NEW m, NEW u, TakenUp(t, a, used, m, u)
  PROVE  TableOk(u)
<1> DEFINE hands == t.hands
           hands1 == u.hands
           melds == t.melds
           melds1 == u.melds
           loose == Loose(t)
           loose1 == Loose(u)
           last == Film!ToSet(t.last)
           tiles == Film!ToSet(m.tiles)
<1>1. /\ hands \in [Seats -> SUBSET Tiles] /\ melds \in [Seats -> Seq(MeldType)]
      /\ HandsApart(hands, loose) /\ MeldsApart(hands, melds, loose) /\ LooseApart(t)
      /\ hands1 \in [Seats -> SUBSET Tiles]
  BY TableFields DEF TakenUp, TableType
<1>2. /\ a \in Seats /\ used \in SUBSET hands[a] /\ m \in MeldType
      /\ tiles = used \cup last /\ melds1 = [melds EXCEPT ![a] = Append(@, m)]
      /\ Film!IsInjective(m.tiles)
  BY DEF TakenUp
<1>3. \A s \in Seats : hands1[s] = IF s = a THEN hands[s] \ used ELSE hands[s]
  BY DEF TakenUp
<1>4. loose1 \cup last = loose /\ last \cap loose1 = {}
  BY <1>1, OneTile DEF Loose, LooseApart, TakenUp
<1>5. /\ \A s \in Seats : hands[s] \cap loose = {}
      /\ \A s \in Seats : \A r \in Seats \ {s} : hands[s] \cap hands[r] = {}
  BY <1>1 DEF HandsApart
<1> HIDE DEF hands, hands1, melds, melds1, loose, loose1, last, tiles
<1>6. ASSUME NEW s \in Seats
      PROVE  hands1[s] \in SUBSET hands[s] /\ hands1[s] \cap loose = {} /\ tiles \cap hands1[s] = {}
  <2>1. CASE s = a
    BY <1>2, <1>3, <1>4, <1>5, <2>1
  <2>2. CASE s # a
    <3>1. hands1[s] = hands[s] /\ hands[s] \cap hands[a] = {} /\ hands[s] \cap loose = {}
      BY <1>2, <1>3, <1>5, <2>2
    <3> QED
      BY <1>2, <1>4, <3>1
  <2> QED
    BY <2>1, <2>2
<1>7. Lost(hands, loose, hands1, loose1)
  BY <1>4, <1>6 DEF Lost
<1>8. HandsApart(hands1, loose1) /\ MeldsApart(hands1, melds, loose1)
  BY <1>1, <1>7, HandsLose
<1>9. Joins(hands1, melds, loose1, a, m)
  <2>1. tiles \cap loose1 = {}
    <3>1. hands[a] \cap loose = {}
      BY <1>2, <1>5
    <3> QED
      BY <1>2, <1>4, <3>1
  <2>2. ASSUME NEW j \in DOMAIN melds[a]
        PROVE  tiles \cap Film!ToSet(melds[a][j].tiles) = {}
    <3>1. Film!ToSet(melds[a][j].tiles) \cap loose = {}
          /\ Film!ToSet(melds[a][j].tiles) \cap hands[a] = {}
      BY <1>1, <1>2 DEF MeldsApart
    <3> QED
      BY <1>2, <1>4, <3>1
  <2> QED
    BY <1>2, <1>6, <2>1, <2>2 DEF Joins, tiles
<1>10. MeldsApart(hands1, melds1, loose1)
  BY <1>1, <1>2, <1>8, <1>9, MeldJoins
<1>11. LooseApart(u)
  <2>1. u.wall = t.wall /\ u.last = <<>> /\ u.phase \in {"draw", "act"}
    BY DEF TakenUp
  <2>2. Film!IsInjective(u.wall) /\ Film!ToSet(u.last) = {}
    BY <1>1, <2>1, OneTile DEF LooseApart
  <2> QED
    BY <2>1, <2>2 DEF LooseApart
<1> QED
  BY <1>8, <1>10, <1>11 DEF TableOk, TakenUp, hands1, melds1, loose1

\* A call.
Called(t, kind, a, used) ==
  LET x == t.last[1]
      tiles == Film!SetToSeq(used)
      meld == [tiles |-> Append(tiles, x), opened |-> TRUE, from |-> t.turn]
  IN [t EXCEPT !.hands[a] = @ \ used, !.melds[a] = Append(@, meld), !.turn = a, !.last = <<>>,
               !.phase = IF kind = "daiminkan" THEN "draw" ELSE "act"]

LEMMA CallTiles ==
  ASSUME NEW t, TableOk(t), t.phase = "respond", NEW a \in Seats, NEW used \in SUBSET t.hands[a]
  PROVE  LET x == t.last[1] tiles == Film!SetToSeq(used)
         IN  /\ x \in Tiles /\ t.last = <<x>> /\ x \notin used /\ IsFiniteSet(t.hands[a])
             /\ tiles \in Seq(Tiles) /\ Film!IsInjective(tiles) /\ Film!ToSet(tiles) = used
             /\ Len(tiles) = Cardinality(used)
             /\ Append(tiles, x) \in Seq(Tiles) /\ Film!IsInjective(Append(tiles, x))
             /\ Film!ToSet(Append(tiles, x)) = used \cup {x}
<1> DEFINE x == t.last[1]
           tiles == Film!SetToSeq(used)
<1>1. /\ t.last \in Seq(Tiles) /\ Len(t.last) = 1 /\ HandsApart(t.hands, Loose(t))
      /\ t.hands \in [Seats -> SUBSET Tiles]
  BY TableFields DEF LooseApart
<1>2. x \in Tiles
  BY <1>1, ElementOfSeq
<1>3. t.last = <<x>>
  BY <1>1
<1>4. x \in Loose(t) /\ IsFiniteSet(t.hands[a]) /\ t.hands[a] \cap Loose(t) = {}
  BY <1>1, <1>3, OneTile DEF Loose, HandsApart
<1>5. x \notin used /\ used \in SUBSET Tiles /\ IsFiniteSet(used)
  BY <1>1, <1>4, FS_Subset
<1>6. tiles \in Seq(Tiles) /\ Film!IsInjective(tiles) /\ Film!ToSet(tiles) = used
      /\ Len(tiles) = Cardinality(used)
  BY <1>5, InOrder
<1> HIDE DEF x, tiles
<1>7. /\ Append(tiles, x) \in Seq(Tiles) /\ Film!IsInjective(Append(tiles, x))
      /\ Film!ToSet(Append(tiles, x)) = used \cup {x}
  BY <1>2, <1>5, <1>6, Appended
<1> QED
  BY <1>2, <1>3, <1>4, <1>5, <1>6, <1>7 DEF x, tiles

LEMMA CallKeeps ==
  ASSUME Film!Assumption, NEW t, TableOk(t), t.phase = "respond", NEW a \in Seats \ {t.turn},
         NEW used \in SUBSET t.hands[a], NEW kind,
         CanCall(kind, Film!SetToSeq(used), t.last[1]), NEW u, u = Called(t, kind, a, used)
  PROVE  /\ TableOk(u)
         /\ Film!Framed(FrameOf(t),
                        Film!From(Film!With(kind, a, t.last[1], Film!SetToSeq(used)),
                                  t.turn)) = FrameOf(u)
<1> DEFINE x == t.last[1]
           tiles == Film!SetToSeq(used)
           m == [tiles |-> Append(tiles, x), opened |-> Yes, from |-> t.turn]
           hands == [t.hands EXCEPT ![a] = @ \ used]
           melds == [t.melds EXCEPT ![a] = Append(@, m)]
           last == <<>>
           phase == IF kind = "daiminkan" THEN "draw" ELSE "act"
<1>1. /\ t \in TableType /\ a \in Seats /\ t.turn \in Seats
      /\ t.hands \in [Seats -> SUBSET Tiles] /\ t.melds \in [Seats -> Seq(MeldType)]
  BY TableFields DEF TableOk
<1>2. /\ Film!ToSet(tiles) = used /\ Append(tiles, x) \in Seq(Tiles)
      /\ Film!IsInjective(Append(tiles, x)) /\ Film!ToSet(Append(tiles, x)) = used \cup {x}
      /\ t.last = <<x>>
  BY <1>1, CallTiles
<1>3. m \in MeldType /\ m.tiles = Append(tiles, x)
  <2> HIDE DEF x, tiles
  <2> QED
    BY <1>1, <1>2 DEF MeldType, Yes
<1>4. u = [t EXCEPT !.hands = hands, !.melds = melds, !.turn = a, !.last = last, !.phase = phase]
  BY <1>1 DEF TableType, Called, Yes
<1>5. hands \in [Seats -> SUBSET Tiles] /\ last \in Seq(Tiles) /\ phase \in {"draw", "act"}
  BY <1>1
<1>6. melds \in [Seats -> Seq(MeldType)]
  <2> HIDE DEF m
  <2>1. Append(t.melds[a], m) \in Seq(MeldType)
    BY <1>1, <1>3, AppendProperties
  <2> QED
    BY <1>1, <2>1
<1>7. /\ u \in TableType /\ u.hands = hands /\ u.discards = t.discards /\ u.wall = t.wall
      /\ u.melds = melds /\ u.riichi = t.riichi /\ u.index = t.index
      /\ u.phase = phase /\ u.last = last
  <2> HIDE DEF hands, melds, last, phase
  <2> QED
    BY <1>1, <1>4, <1>5, <1>6 DEF TableType
<1>8. TableOk(u)
  <2>1. \A s \in Seats : hands[s] = IF s = a THEN t.hands[s] \ used ELSE t.hands[s]
    BY <1>1
  <2>2. Film!ToSet(t.last) = {x}
    BY <1>2, OneTile
  <2>3. Film!IsInjective(m.tiles) /\ Film!ToSet(m.tiles) = used \cup Film!ToSet(t.last)
    BY <1>2, <1>3, <2>2
  <2>4. TakenUp(t, a, used, m, u)
    <3> HIDE DEF hands, m, phase
    <3> QED
      BY <1>1, <1>3, <1>5, <1>7, <2>1, <2>3 DEF TakenUp
  <2> QED
    BY <2>4, TakenUpOk
<1>9. Playing(u) = Yes
  BY <1>7 DEF Playing, Yes
<1>10. FrameOf(u) = Reader(Yes, Yes, ShownHands(hands), ShownMelds(melds),
                           ShownDiscards(t.discards), t.riichi, NoSeats, t.index)
  <2> HIDE DEF hands, melds
  <2> QED
    BY <1>7, <1>9 DEF FrameOf
<1>11. Film!Framed(FrameOf(t), Film!From(Film!With(kind, a, x, tiles), t.turn))
         = Reader(Yes, Yes, ShownHands(hands), ShownMelds(melds),
                  ShownDiscards(t.discards), t.riichi, NoSeats, t.index)
  <2> DEFINE from == t.turn
  <2>1. Melded(t, a, tiles, MeldOf(Append(tiles, x), Yes, from), hands, melds)
    BY <1>2 DEF Melded, MeldOf
  <2> HIDE DEF hands, melds
  <2>2. x \in Tiles /\ OfHand(t, a, tiles) /\ CanCall(kind, tiles, x)
    BY <1>1, CallTiles DEF OfHand
  <2>3. from \in Seats /\ a # from /\ Playing(t) = Yes
    BY <1>1 DEF Playing, Yes
  <2> HIDE DEF from, x, tiles
  <2>4. Film!Framed(FrameOf(t), Film!From(Film!With(kind, a, x, tiles), from))
          = Reader(Yes, Yes, ShownHands(hands), ShownMelds(melds),
                   ShownDiscards(t.discards), t.riichi, NoSeats, t.index)
    BY <2>1, <2>2, <2>3, FrameCall
  <2> QED
    BY <2>4 DEF from
<1> QED
  BY <1>8, <1>10, <1>11

\* A closed quad.
Quad(t, used) ==
  LET tiles == Film!SetToSeq(used)
      meld == [tiles |-> tiles, opened |-> FALSE, from |-> t.turn]
  IN [t EXCEPT !.hands[t.turn] = @ \ used, !.phase = "draw", !.drawn = <<>>,
               !.melds[t.turn] = Append(@, meld)]

LEMMA QuadTiles ==
  ASSUME NEW t, TableOk(t), NEW a \in Seats, NEW used \in SUBSET t.hands[a],
         Cardinality(used) = 4, \A q, r \in used : Film!Kind(q) = Film!Kind(r),
         NEW tiles, tiles = Film!SetToSeq(used)
  PROVE  /\ OfHand(t, a, tiles) /\ Film!ToSet(tiles) = used /\ OneKind(tiles)
<1>1. /\ t.hands \in [Seats -> SUBSET Tiles] /\ t.melds \in [Seats -> Seq(MeldType)]
      /\ HandsApart(t.hands, Loose(t))
  BY TableFields
<1>2. IsFiniteSet(t.hands[a]) /\ used \in SUBSET Tiles /\ IsFiniteSet(used)
  BY <1>1, FS_Subset DEF HandsApart
<1>3. tiles \in Seq(Tiles) /\ Film!IsInjective(tiles) /\ Film!ToSet(tiles) = used /\ Len(tiles) = 4
  BY <1>2, InOrder
<1>4. tiles[1] \in used
  BY <1>3, LenProperties DEF Film!ToSet
<1> QED
  BY <1>1, <1>2, <1>3, <1>4 DEF OfHand, OneKind, Film!KindsOf

LEMMA QuadKeeps ==
  ASSUME Film!Assumption, NEW t, TableOk(t), t.phase = "act", NEW used \in SUBSET t.hands[t.turn],
         Cardinality(used) = 4, \A q, r \in used : Film!Kind(q) = Film!Kind(r),
         NEW u, u = Quad(t, used)
  PROVE  /\ TableOk(u)
         /\ Film!Framed(FrameOf(t), QuadLogged(t.turn, Film!SetToSeq(used), t.turn)) = FrameOf(u)
<1> DEFINE a == t.turn
           tiles == Film!SetToSeq(used)
           m == MeldOf(tiles, No, a)
           hands == [t.hands EXCEPT ![a] = @ \ used]
           melds == [t.melds EXCEPT ![a] = Append(@, m)]
           drawn == <<>>
<1>1. /\ t \in TableType /\ a \in Seats /\ t.last = <<>>
      /\ t.hands \in [Seats -> SUBSET Tiles] /\ t.melds \in [Seats -> Seq(MeldType)]
  BY TableFields DEF TableOk, LooseApart
<1>2. /\ OfHand(t, a, tiles) /\ Film!ToSet(tiles) = used /\ OneKind(tiles)
  BY <1>1, QuadTiles
<1>3. tiles \in Seq(Tiles) /\ Film!IsInjective(tiles) /\ m \in MeldType /\ m.tiles = tiles
  BY <1>1, <1>2 DEF MeldType, MeldOf, No, OfHand
<1>4. u = [t EXCEPT !.hands = hands, !.phase = "draw", !.drawn = drawn, !.melds = melds]
  BY <1>1 DEF TableType, Quad, No, MeldOf
<1>5. hands \in [Seats -> SUBSET Tiles] /\ drawn \in Seq(Tiles)
  BY <1>1
<1>6. melds \in [Seats -> Seq(MeldType)]
  <2> HIDE DEF m
  <2>1. Append(t.melds[a], m) \in Seq(MeldType)
    BY <1>1, <1>3, AppendProperties
  <2> QED
    BY <1>1, <2>1
<1>7. /\ u \in TableType /\ u.hands = hands /\ u.discards = t.discards /\ u.wall = t.wall
      /\ u.melds = melds /\ u.riichi = t.riichi /\ u.index = t.index
      /\ u.phase = "draw" /\ u.last = t.last
  <2> HIDE DEF hands, melds, drawn
  <2> QED
    BY <1>1, <1>4, <1>5, <1>6 DEF TableType
<1>8. TableOk(u)
  <2>1. \A s \in Seats : hands[s] = IF s = a THEN t.hands[s] \ used ELSE t.hands[s]
    BY <1>1
  <2>2. Film!IsInjective(m.tiles) /\ Film!ToSet(m.tiles) = used \cup Film!ToSet(t.last)
    BY <1>1, <1>2, <1>3, OneTile
  <2>3. TakenUp(t, a, used, m, u)
    <3> HIDE DEF hands, m
    <3> QED
      BY <1>1, <1>3, <1>7, <2>1, <2>2 DEF TakenUp
  <2> QED
    BY <2>3, TakenUpOk
<1>9. Playing(u) = Yes /\ Playing(t) = Yes
  BY <1>7 DEF Playing, Yes
<1>10. FrameOf(u) = Reader(Yes, Yes, ShownHands(hands), ShownMelds(melds),
                           ShownDiscards(t.discards), t.riichi, NoSeats, t.index)
  <2> HIDE DEF hands, melds
  <2> QED
    BY <1>7, <1>9 DEF FrameOf
<1>11. Film!Framed(FrameOf(t), QuadLogged(a, tiles, a))
         = Reader(Yes, Yes, ShownHands(hands), ShownMelds(melds),
                  ShownDiscards(t.discards), t.riichi, NoSeats, t.index)
  <2>1. Melded(t, a, tiles, MeldOf(tiles, No, a), hands, melds)
    BY <1>2 DEF Melded
  <2> HIDE DEF a, tiles, hands, melds
  <2> QED
    BY <1>1, <1>2, <1>9, <2>1, FrameAnkan
<1> QED
  BY <1>8, <1>10, <1>11

\* There are four tiles of a kind.
LEMMA FourOfAKind ==
  ASSUME NEW A \in SUBSET Tiles, NEW B \in SUBSET Tiles, NEW k, A \cap B = {},
         \A q \in A \cup B : Film!Kind(q) = k,
         IsFiniteSet(A), IsFiniteSet(B)
  PROVE  Cardinality(A) + Cardinality(B) <= 4
<1> DEFINE copies == {k} \X (0..3)
           n == Cardinality(A)
           m == Cardinality(B)
<1>1. A \cup B \in SUBSET copies
  BY DEF Tiles, Film!Tiles, Film!Kind
<1>2. IsFiniteSet({k}) /\ Cardinality({k}) = 1
  BY FS_Singleton
<1>3. IsFiniteSet(0..3) /\ Cardinality(0..3) = 4
  <2>1. 0 \in Int /\ 3 \in Int
    OBVIOUS
  <2>2. IsFiniteSet(0..3) /\ Cardinality(0..3) = IF 0 > 3 THEN 0 ELSE 3 - 0 + 1
    BY <2>1, FS_Interval, Zenon
  <2> QED
    BY <2>2
<1>4. IsFiniteSet(copies) /\ Cardinality(copies) = 4
  <2>1. IsFiniteSet(copies) /\ Cardinality(copies) = Cardinality({k}) * Cardinality(0..3)
    BY <1>2, <1>3, FS_Product, Zenon
  <2>2. Cardinality(copies) = 1 * 4
    BY <1>2, <1>3, <2>1, Zenon
  <2> QED
    BY <2>1, <2>2
<1> HIDE DEF copies
<1>5. Cardinality(A \cup B) <= 4
  BY <1>1, <1>4, FS_Subset
<1>6. Cardinality(A \cap B) = 0
  BY FS_EmptySet
<1>7. Cardinality(A \cup B) = n + m - Cardinality(A \cap B)
  BY FS_Union
<1>8. n \in Nat /\ m \in Nat
  BY FS_CardinalityType
<1>9. Cardinality(A \cup B) = n + m - 0
  BY <1>6, <1>7, Zenon
<1> HIDE DEF n, m
<1>10. n + m <= 4
  BY <1>5, <1>8, <1>9
<1> QED
  BY <1>10 DEF n, m

\* so a Seat has one open triplet of a kind,
LEMMA OneTriplet ==
  ASSUME NEW t, TableOk(t), NEW a \in Seats, NEW x, NEW i, i \in Film!Triplets(t.melds[a], x)
  PROVE  Film!Triplets(t.melds[a], x) = {i}
<1> DEFINE melds == t.melds[a]
           k == Film!Kind(x)
<1>1. melds \in Seq(MeldType) /\ MeldsApart(t.hands, t.melds, Loose(t))
  BY TableFields
<1> SUFFICES ASSUME NEW j \in Film!Triplets(melds, x), j # i
             PROVE  FALSE
  OBVIOUS
<1>2. ASSUME NEW p \in Film!Triplets(melds, x)
      PROVE  /\ p \in DOMAIN melds /\ IsFiniteSet(Film!ToSet(melds[p].tiles))
             /\ Film!ToSet(melds[p].tiles) \in SUBSET Tiles
             /\ Cardinality(Film!ToSet(melds[p].tiles)) = 3
             /\ \A q \in Film!ToSet(melds[p].tiles) : Film!Kind(q) = k
  <2>1. p \in DOMAIN melds /\ Len(melds[p].tiles) = 3 /\ Film!KindsOf(melds[p].tiles) = {k}
    BY DEF Film!Triplets
  <2>2. Film!IsInjective(melds[p].tiles)
    BY <1>1, <2>1 DEF MeldsApart
  <2>3. melds[p] \in MeldType
    BY <1>1, <2>1, ElementOfSeq, LenProperties
  <2>4. melds[p].tiles \in Seq(Tiles)
    BY <2>3 DEF MeldType
  <2>5. IsFiniteSet(Film!ToSet(melds[p].tiles)) /\ Cardinality(Film!ToSet(melds[p].tiles)) = 3
    BY <2>1, <2>2, <2>4, CountFiled
  <2>6. Film!ToSet(melds[p].tiles) \in SUBSET Tiles
    <3>1. \A n \in DOMAIN melds[p].tiles : melds[p].tiles[n] \in Tiles
      BY <2>4, ElementOfSeq, LenProperties
    <3> QED
      BY <3>1 DEF Film!ToSet
  <2>7. \A q \in Film!ToSet(melds[p].tiles) : Film!Kind(q) = k
    BY <2>1 DEF Film!KindsOf
  <2> QED
    BY <2>1, <2>5, <2>6, <2>7
<1> DEFINE A == Film!ToSet(melds[i].tiles)
           B == Film!ToSet(melds[j].tiles)
<1>3. /\ A \in SUBSET Tiles /\ B \in SUBSET Tiles /\ IsFiniteSet(A) /\ IsFiniteSet(B)
      /\ \A q \in A \cup B : Film!Kind(q) = k
      /\ Cardinality(A) = 3 /\ Cardinality(B) = 3
  BY <1>2
<1>4. A \cap B = {}
  BY <1>1, <1>2 DEF MeldsApart
<1> HIDE DEF A, B
<1>5. Cardinality(A) + Cardinality(B) <= 4
  BY <1>3, <1>4, FourOfAKind
<1>6. 3 + 3 <= 4
  BY <1>3, <1>5, Zenon
<1> QED
  BY <1>6

\* the one a tile is added to.
Extended(t, i, x) ==
  [t EXCEPT !.hands[t.turn] = @ \ {x}, !.phase = "draw", !.drawn = <<>>,
            !.melds[t.turn][i].tiles = Append(@, x)]

LEMMA ExtendedOk ==
  ASSUME NEW t, TableOk(t), t.last = <<>>, NEW a \in Seats, NEW x \in t.hands[a],
         NEW i \in DOMAIN t.melds[a], NEW hands1, NEW melds1, Lengthened(t, a, x, i, hands1, melds1)
  PROVE  /\ hands1 \in [Seats -> SUBSET Tiles] /\ melds1 \in [Seats -> Seq(MeldType)]
         /\ HandsApart(hands1, Loose(t)) /\ MeldsApart(hands1, melds1, Loose(t))
         /\ x \in Tiles /\ IsFiniteSet(t.hands[a])
<1> DEFINE hands == t.hands
           melds == t.melds
           loose == Loose(t)
<1>1. /\ hands \in [Seats -> SUBSET Tiles] /\ melds \in [Seats -> Seq(MeldType)]
      /\ HandsApart(hands, loose) /\ MeldsApart(hands, melds, loose)
  BY TableFields
<1>2. x \in Tiles /\ IsFiniteSet(hands[a]) /\ x \notin loose
  BY <1>1 DEF HandsApart
<1>3. /\ hands1 = [hands EXCEPT ![a] = @ \ {x}]
      /\ melds1 = OneMore(melds, a, i, x)
  BY DEF Lengthened, OneMore
<1>4. /\ hands1 \in [Seats -> SUBSET Tiles]
      /\ \A s \in Seats : hands1[s] = IF s = a THEN hands[s] \ {x} ELSE hands[s]
  BY <1>1, <1>3
<1>5. /\ \A s \in Seats : hands[s] \cap loose = {}
      /\ \A s \in Seats : \A r \in Seats \ {s} : hands[s] \cap hands[r] = {}
      /\ x \in hands[a]
  BY <1>1 DEF HandsApart
<1> HIDE DEF hands, loose
<1>6. ASSUME NEW s \in Seats
      PROVE  x \notin hands1[s] /\ hands1[s] \in SUBSET hands[s] /\ hands1[s] \cap loose = {}
  <2>1. CASE s = a
    BY <1>4, <1>5, <2>1
  <2>2. CASE s # a
    BY <1>4, <1>5, <2>2
  <2> QED
    BY <2>1, <2>2
<1>7. Lost(hands, loose, hands1, loose)
  BY <1>6 DEF Lost
<1>8. HandsApart(hands1, loose) /\ MeldsApart(hands1, melds, loose)
  <2> HIDE DEF melds
  <2> QED
    BY <1>1, <1>7, HandsLose
<1>9. Grows(hands1, melds, loose, a, x)
  <2>1. ASSUME NEW j \in DOMAIN melds[a]
        PROVE  x \notin Film!ToSet(melds[a][j].tiles)
    BY <1>1, <1>5 DEF MeldsApart
  <2> QED
    BY <1>2, <1>6, <2>1 DEF Grows
<1>10. melds1 \in [Seats -> Seq(MeldType)] /\ MeldsApart(hands1, melds1, loose)
  <2>1. i \in DOMAIN melds[a]
    OBVIOUS
  <2> HIDE DEF melds
  <2> QED
    BY <1>1, <1>2, <1>3, <1>4, <1>8, <1>9, <2>1, MeldGrows
<1> QED
  BY <1>2, <1>4, <1>8, <1>10 DEF loose, hands

LEMMA AddKeeps ==
  ASSUME Film!Assumption, NEW t, TableOk(t), t.phase = "act", NEW x \in t.hands[t.turn],
         NEW i \in Film!Triplets(t.melds[t.turn], x), NEW u, u = Extended(t, i, x)
  PROVE  /\ TableOk(u)
         /\ Film!Framed(FrameOf(t), Film!With("kakan", t.turn, x, t.melds[t.turn][i].tiles))
                  = FrameOf(u)
<1> DEFINE a == t.turn
           hands == [t.hands EXCEPT ![a] = @ \ {x}]
           melds == [t.melds EXCEPT ![a][i].tiles = Append(@, x)]
           drawn == <<>>
           kind == "kakan"
<1>1. /\ t \in TableType /\ a \in Seats /\ t.last = <<>>
      /\ t.hands \in [Seats -> SUBSET Tiles] /\ t.melds \in [Seats -> Seq(MeldType)]
      /\ LooseApart(t)
  BY TableFields DEF TableOk, LooseApart
<1>2. i \in DOMAIN t.melds[a] /\ Len(t.melds[a][i].tiles) = 3
  BY DEF Film!Triplets
<1>3. Lengthened(t, a, x, i, hands, melds)
  BY DEF Lengthened
<1>4. u = [t EXCEPT !.hands = hands, !.phase = "draw", !.drawn = drawn, !.melds = melds]
  BY <1>1 DEF TableType, Extended
<1>5. /\ hands \in [Seats -> SUBSET Tiles] /\ melds \in [Seats -> Seq(MeldType)]
      /\ HandsApart(hands, Loose(t)) /\ MeldsApart(hands, melds, Loose(t))
      /\ x \in Tiles /\ IsFiniteSet(t.hands[a])
  <2>1. x \in t.hands[a]
    OBVIOUS
  <2> HIDE DEF hands, melds, a
  <2> QED
    BY <1>1, <1>2, <1>3, <2>1, ExtendedOk
<1> HIDE DEF hands, melds
<1>6. /\ u \in TableType /\ u.hands = hands /\ u.discards = t.discards /\ u.wall = t.wall
      /\ u.melds = melds /\ u.riichi = t.riichi /\ u.index = t.index
      /\ u.phase = "draw" /\ u.last = t.last
  <2>1. drawn \in Seq(Tiles)
    OBVIOUS
  <2> HIDE DEF drawn
  <2> QED
    BY <1>1, <1>4, <1>5, <2>1 DEF TableType
<1>7. Loose(u) = Loose(t) /\ LooseApart(u)
  BY <1>1, <1>6 DEF Loose, LooseApart
<1>8. TableOk(u)
  BY <1>5, <1>6, <1>7 DEF TableOk
<1>9. Playing(u) = Yes /\ Playing(t) = Yes
  BY <1>6 DEF Playing, Yes
<1>10. FrameOf(u) = Reader(Yes, Yes, ShownHands(hands), ShownMelds(melds),
                           ShownDiscards(t.discards), t.riichi, NoSeats, t.index)
  BY <1>6, <1>9 DEF FrameOf
<1>11. CanAdd(t, a, x, i)
  <2>1. Film!Triplets(t.melds[a], x) = {i}
    <3>1. a \in Seats /\ i \in Film!Triplets(t.melds[a], x)
      BY <1>1
    <3> HIDE DEF a
    <3> QED
      BY <3>1, OneTriplet
  <2> QED
    BY <1>1, <1>2, <1>5, <2>1 DEF CanAdd
<1> HIDE DEF a
<1>12. Film!Framed(FrameOf(t), Film!With(kind, a, x, t.melds[a][i].tiles))
         = Reader(Yes, Yes, ShownHands(hands), ShownMelds(melds),
                  ShownDiscards(t.discards), t.riichi, NoSeats, t.index)
  BY <1>3, <1>9, <1>11, FrameKakan
<1> QED
  BY <1>8, <1>10, <1>12 DEF a

-----------------------------------------------------------------------------
(* Every step *)

Follows(t, f) == TableOk(t) /\ f = FrameOf(t)

\* A batch that ends a Kyoku ends the Match or deals the next one.
LEMMA EndFollows ==
  ASSUME Film!Assumption, Follows(table, frame), table.phase # "over",
         NEW kind \in {"hora", "ryukyoku", "reach_accepted"}, Film!End(kind)
  PROVE  Follows(table', frame')
<1> DEFINE u == Over(table)
           ended == Film!Framed(Film!Framed(frame, Film!Ev(kind, table.turn)), Film!Ev("end_kyoku", 1))
           last == Film!Ev("end_game", 1)
<1>1. TableOk(table) /\ frame = FrameOf(table) /\ table.kyoku \in Nat
  BY TableFields DEF Follows
<1>2. TableOk(u) /\ Playing(u) = No
  BY <1>1, OverKeeps
<1>3. ended = FrameOf(u) /\ Film!Framed(FrameOf(u), last) = FrameOf(u)
  BY <1>1, OverShown
<1>4. CASE table.kyoku = Kyokus
  <2>1. table' = u /\ frame' = Film!Framed(ended, last)
    BY <1>4 DEF Film!End, Film!Step, Over
  <2> QED
    BY <1>2, <1>3, <2>1 DEF Follows
<1>5. CASE table.kyoku # Kyokus
  <2>1. PICK deal \in Deals : /\ table' = Film!DealOf(deal, table.kyoku + 1)
                              /\ frame' = Film!Framed(ended, Film!StartOf(deal))
    BY <1>5 DEF Film!End, Film!Step
  <2>2. table.kyoku + 1 \in Nat
    BY <1>1
  <2> HIDE DEF u, ended
  <2>3. TableOk(table') /\ Film!Framed(FrameOf(u), Film!StartOf(deal)) = FrameOf(table')
    BY <1>2, <2>1, <2>2, DealKeeps
  <2> QED
    BY <1>3, <2>1, <2>3 DEF Follows
<1> QED
  BY <1>4, <1>5

LEMMA DrawFollows ==
  ASSUME Film!Assumption, Follows(table, frame), Film!Draw
  PROVE  Follows(table', frame')
<1>1. TableOk(table) /\ frame = FrameOf(table)
  BY DEF Follows
<1>2. /\ table.phase = "draw" /\ table.wall # <<>> /\ table' = Drew(table)
      /\ frame' = Film!Framed(frame, Film!With("tsumo", table.turn, Head(table.wall), <<>>))
  BY DEF Film!Draw, Film!Step, Drew
<1>3. /\ TableOk(table')
      /\ Film!Framed(FrameOf(table), Film!With("tsumo", table.turn, Head(table.wall), <<>>))
           = FrameOf(table')
  BY <1>1, <1>2, DrawKeeps
<1> QED
  BY <1>1, <1>2, <1>3 DEF Follows

LEMMA DiscardFollows ==
  ASSUME Film!Assumption, Follows(table, frame), NEW declare \in BOOLEAN, Film!Discard(declare)
  PROVE  Follows(table', frame')
<1>1. TableOk(table) /\ frame = FrameOf(table) /\ table.phase = "act"
  BY DEF Follows, Film!Discard
<1>2. CASE declare
  <2>1. PICK x \in table.hands[table.turn] :
          /\ table' = Declared(table, x)
          /\ frame' = Film!Framed(Film!Framed(frame, Film!Ev("reach", table.turn)),
                                  Film!With("dahai", table.turn, x, <<>>))
    BY <1>2 DEF Film!Discard, Film!Hand, Film!Step, Thrown, Declared
  <2> DEFINE shown == Film!Framed(Film!Framed(FrameOf(table), Film!Ev("reach", table.turn)),
                                  Film!With("dahai", table.turn, x, <<>>))
  <2>2. TableOk(table') /\ shown = FrameOf(table')
    BY <1>1, <2>1, DeclareKeeps
  <2> QED
    BY <1>1, <2>1, <2>2 DEF Follows
<1>3. CASE ~declare
  <2>1. PICK x \in table.hands[table.turn] :
          /\ table' = Thrown(table, x)
          /\ frame' = Film!Framed(frame, Film!With("dahai", table.turn, x, <<>>))
    BY <1>3 DEF Film!Discard, Film!Hand, Film!Step, Thrown
  <2>2. /\ TableOk(table')
        /\ Film!Framed(FrameOf(table), Film!With("dahai", table.turn, x, <<>>)) = FrameOf(table')
    BY <1>1, <2>1, DiscardKeeps
  <2> QED
    BY <1>1, <2>1, <2>2 DEF Follows
<1> QED
  BY <1>2, <1>3

LEMMA CallFollows ==
  ASSUME Film!Assumption, Follows(table, frame), Film!Call
  PROVE  Follows(table', frame')
<1> DEFINE x == table.last[1]
<1>1. TableOk(table) /\ frame = FrameOf(table) /\ table.phase = "respond"
  BY DEF Follows, Film!Call
<1>2. PICK a \in Seats \ ({table.turn} \cup table.riichi) : \E used \in SUBSET table.hands[a] :
        LET kinds == {Film!Kind(q) : q \in used \cup {x}} IN
        \/ kinds = {Film!Kind(x)} /\ Film!Cardinality(used) = 2 /\ Film!CallWith("pon", a, used)
        \/ kinds = {Film!Kind(x)} /\ Film!Cardinality(used) = 3 /\ Film!CallWith("daiminkan", a, used)
        \/ /\ Film!Cardinality(used) = 2 /\ Film!IsSequence(kinds)
           /\ Film!CallWith("chi", a, used)
  BY DEF Film!Call, Seats
<1>3. PICK used \in SUBSET table.hands[a] :
        LET kinds == {Film!Kind(q) : q \in used \cup {x}} IN
        \/ kinds = {Film!Kind(x)} /\ Film!Cardinality(used) = 2 /\ Film!CallWith("pon", a, used)
        \/ kinds = {Film!Kind(x)} /\ Film!Cardinality(used) = 3 /\ Film!CallWith("daiminkan", a, used)
        \/ /\ Film!Cardinality(used) = 2 /\ Film!IsSequence(kinds)
           /\ Film!CallWith("chi", a, used)
  BY <1>2
<1> DEFINE tiles == Film!SetToSeq(used)
           kinds == {Film!Kind(q) : q \in used \cup {x}}
<1>4. /\ Len(tiles) = Film!Cardinality(used)
      /\ Film!KindsOf(Append(tiles, x)) = kinds
  <2>1. a \in Seats
    OBVIOUS
  <2>2. Len(tiles) = Cardinality(used) /\ Film!ToSet(Append(tiles, x)) = used \cup {x}
    BY <1>1, <2>1, CallTiles
  <2> QED
    BY <2>2, FilmCounts DEF Film!KindsOf
<1>5. PICK kind \in {"pon", "chi", "daiminkan"} :
        CanCall(kind, tiles, x) /\ Film!CallWith(kind, a, used)
  <2> HIDE DEF tiles, x
  <2>1. CASE kinds = {Film!Kind(x)} /\ Film!Cardinality(used) = 2 /\ Film!CallWith("pon", a, used)
    BY <1>4, <2>1 DEF CanCall
  <2>2. CASE kinds = {Film!Kind(x)} /\ Film!Cardinality(used) = 3 /\ Film!CallWith("daiminkan", a, used)
    BY <1>4, <2>2 DEF CanCall
  <2>3. CASE /\ Film!Cardinality(used) = 2 /\ Film!IsSequence(kinds)
             /\ Film!CallWith("chi", a, used)
    BY <1>4, <2>3 DEF CanCall
  <2> QED
    BY <1>3, <2>1, <2>2, <2>3 DEF x
<1>6. /\ table' = Called(table, kind, a, used)
      /\ frame' = Film!Framed(frame, Film!From(Film!With(kind, a, x, tiles), table.turn))
  BY <1>5 DEF Film!CallWith, Film!Step, Called
<1>7. /\ TableOk(table')
      /\ Film!Framed(FrameOf(table), Film!From(Film!With(kind, a, x, tiles), table.turn))
           = FrameOf(table')
  <2>1. a \in Seats \ {table.turn}
    OBVIOUS
  <2> QED
    BY <1>1, <1>5, <1>6, <2>1, CallKeeps
<1> QED
  BY <1>1, <1>6, <1>7 DEF Follows

LEMMA KanFollows ==
  ASSUME Film!Assumption, Follows(table, frame), Film!Kan
  PROVE  Follows(table', frame')
<1>1. TableOk(table) /\ frame = FrameOf(table) /\ table.phase = "act"
  BY DEF Follows, Film!Kan
<1>2. PICK used \in SUBSET table.hands[table.turn] :
        /\ Cardinality(used) = 4 /\ \A q, r \in used : Film!Kind(q) = Film!Kind(r)
        /\ table' = Quad(table, used)
        /\ frame' = Film!Framed(frame, QuadLogged(table.turn, Film!SetToSeq(used), table.turn))
  BY FilmCounts DEF Film!Kan, Film!Hand, Film!Step, Quad, QuadLogged
<1>3. /\ TableOk(table')
      /\ Film!Framed(FrameOf(table), QuadLogged(table.turn, Film!SetToSeq(used), table.turn))
           = FrameOf(table')
  BY <1>1, <1>2, QuadKeeps
<1> QED
  BY <1>1, <1>2, <1>3 DEF Follows

LEMMA AddToPonFollows ==
  ASSUME Film!Assumption, Follows(table, frame), Film!AddToPon
  PROVE  Follows(table', frame')
<1>1. TableOk(table) /\ frame = FrameOf(table) /\ table.phase = "act"
  BY SMTT(30) DEF Follows, Film!AddToPon
<1>2. PICK i \in DOMAIN table.melds[table.turn], x \in table.hands[table.turn] :
        /\ i \in Film!Triplets(table.melds[table.turn], x)
        /\ table' = Extended(table, i, x)
        /\ frame' = Film!Framed(frame, Film!With("kakan", table.turn, x,
                                                 table.melds[table.turn][i].tiles))
  BY DEF Film!AddToPon, Film!Hand, Film!Step, Extended, Film!Triplets
<1>3. /\ TableOk(table')
      /\ Film!Framed(FrameOf(table), Film!With("kakan", table.turn, x,
                                               table.melds[table.turn][i].tiles)) = FrameOf(table')
  BY <1>1, <1>2, AddKeeps
<1> QED
  BY <1>1, <1>2, <1>3 DEF Follows

LEMMA KitaFollows ==
  ASSUME Film!Assumption, Follows(table, frame), Film!Kita
  PROVE  Follows(table', frame')
<1>1. TableOk(table) /\ frame = FrameOf(table) /\ table.phase = "act" /\ ThreePlayers
  BY DEF Follows, Film!Kita
<1>2. PICK x \in table.hands[table.turn] :
        /\ Film!Kind(x) = North /\ table' = SetAside(table, x)
        /\ frame' = Film!Framed(frame, Film!Ev("kita", table.turn))
  BY DEF Film!Kita, Film!Hand, Film!Step, SetAside
<1>3. TableOk(table') /\ Film!Framed(FrameOf(table), Film!Ev("kita", table.turn)) = FrameOf(table')
  BY <1>1, <1>2, KitaKeeps
<1> QED
  BY <1>1, <1>2, <1>3 DEF Follows

LEMMA PassFollows ==
  ASSUME Film!Assumption, Follows(table, frame), Film!Pass
  PROVE  Follows(table', frame')
<1> DEFINE kind == "ryukyoku"
<1>1. TableOk(table) /\ frame = FrameOf(table) /\ table.phase = "respond"
  BY DEF Follows, Film!Pass
<1>2. CASE table.wall = <<>>
  BY <1>1, <1>2, EndFollows DEF Film!Pass
<1>3. CASE table.wall # <<>>
  <2>1. /\ table' = NextTurn(table)
        /\ \/ frame' = frame
           \/ frame' = Film!Framed(frame, Film!Ev("reach_accepted", table.turn))
    BY <1>3 DEF Film!Pass, Film!Step, NextTurn
  <2>2. /\ TableOk(table') /\ FrameOf(table) = FrameOf(table')
        /\ Film!Framed(FrameOf(table), Film!Ev("reach_accepted", table.turn)) = FrameOf(table')
    BY <1>1, <2>1, PassKeeps
  <2> QED
    BY <1>1, <2>1, <2>2 DEF Follows
<1> QED
  BY <1>2, <1>3

LEMMA StepFollows ==
  ASSUME Film!Assumption, Follows(table, frame), [Film!Next]_Film!vars
  PROVE  Follows(table', frame')
<1>1. CASE Film!Draw
  BY <1>1, DrawFollows
<1>2. CASE Film!Discard(FALSE)
  BY <1>2, DiscardFollows
<1>3. CASE Film!Discard(TRUE)
  BY <1>3, DiscardFollows
<1>4. CASE Film!Call
  BY <1>4, CallFollows
<1>5. CASE Film!Kan
  BY <1>5, KanFollows
<1>6. CASE Film!AddToPon
  BY <1>6, AddToPonFollows
<1>7. CASE Film!Kita
  BY <1>7, KitaFollows
<1>8. CASE Film!Win
  BY <1>8, EndFollows DEF Film!Win
<1>9. CASE Film!Pass
  BY <1>9, PassFollows
<1>10. CASE UNCHANGED Film!vars
  BY <1>10 DEF Film!vars
<1> QED
  BY <1>1, <1>2, <1>3, <1>4, <1>5, <1>6, <1>7, <1>8, <1>9, <1>10 DEF Film!Next

LEMMA InitFollows ==
  ASSUME Film!Assumption, Film!Init
  PROVE  Follows(table, frame)
<1>1. PICK deal \in Deals : /\ table = Film!DealOf(deal, 1)
                            /\ frame = Film!Framed(Unread, Film!StartOf(deal))
  BY DEF Film!Init, Unread, Seats
<1>2. TableOk(table) /\ Film!Framed(FrameOf(Before), Film!StartOf(deal)) = FrameOf(table)
  <2>1. 1 \in Nat
    OBVIOUS
  <2> QED
    BY <1>1, <2>1, FirstFrame, DealKeeps
<1> QED
  BY <1>1, <1>2, FirstFrame DEF Follows

-----------------------------------------------------------------------------
(* What the frames show *)

\* A meld as the reader has it shows the names of the meld's tiles.
LEMMA MeldShown ==
  ASSUME NEW melds \in Seq(MeldType), NEW i \in DOMAIN melds
  PROVE  /\ Film!Each(MeldsFiled(melds)[i].tiles, Film!Name) = Film!Each(melds[i].tiles, Film!Name)
         /\ MeldsFiled(melds)[i].opened = melds[i].opened /\ MeldsFiled(melds)[i].from = melds[i].from
<1>1. MeldsFiled(melds)[i] = MeldFiled(melds[i])
  BY DEF MeldsFiled
<1>2. Film!Each(FiledEach(melds[i].tiles), Film!Name) = Film!Each(melds[i].tiles, Film!Name)
  BY EachFiled
<1> QED
  BY <1>1, <1>2 DEF MeldFiled

LEMMA FollowsShows ==
  ASSUME Follows(table, frame)
  PROVE  Film!FramesShowTheTable
<1>1. /\ table.hands \in [Seats -> SUBSET Tiles] /\ table.melds \in [Seats -> Seq(MeldType)]
      /\ HandsApart(table.hands, Loose(table)) /\ frame = FrameOf(table)
  BY TableFields DEF Follows
<1>2. /\ frame.ok = Yes /\ frame.active = Playing(table)
      /\ frame.hands = ShownHands(table.hands) /\ frame.melds = ShownMelds(table.melds)
      /\ frame.riichi = table.riichi /\ frame.index = table.index
  BY <1>1 DEF FrameOf, Reader
<1>3. ASSUME NEW s \in Seats
      PROVE  /\ \A n \in {Film!Name(q) : q \in Tiles} :
                  Film!Shows(frame.hands[s], n)
                    = Film!Cardinality({q \in table.hands[s] : Film!Name(q) = n})
             /\ Len(frame.melds[s]) = Len(table.melds[s])
             /\ \A i \in DOMAIN table.melds[s] :
                  LET shown == frame.melds[s][i] real == table.melds[s][i] IN
                  /\ Film!Each(shown.tiles, Film!Name) = Film!Each(real.tiles, Film!Name)
                  /\ shown.opened = real.opened /\ shown.from = real.from
  <2> DEFINE hand == table.hands[s]
             melds == table.melds[s]
  <2>1. hand \in SUBSET Tiles /\ IsFiniteSet(hand) /\ melds \in Seq(MeldType)
    BY <1>1 DEF HandsApart
  <2>2. frame.hands[s] = Shown(hand) /\ frame.melds[s] = MeldsFiled(melds)
    BY <1>2 DEF ShownHands, ShownMelds
  <2> HIDE DEF hand, melds
  <2>3. ASSUME NEW tile \in Tiles
        PROVE  Film!Shows(Shown(hand), Film!Name(tile))
                 = Film!Cardinality({q \in hand : Film!Name(q) = Film!Name(tile)})
    BY <2>1, ShowsNames, FilmCounts
  <2>4. Len(MeldsFiled(melds)) = Len(melds)
    BY <2>1, MeldsFiledSeq
  <2>5. ASSUME NEW i \in DOMAIN melds
        PROVE  LET shown == MeldsFiled(melds)[i] real == melds[i] IN
               /\ Film!Each(shown.tiles, Film!Name) = Film!Each(real.tiles, Film!Name)
               /\ shown.opened = real.opened /\ shown.from = real.from
    BY <2>1, MeldShown
  <2> QED
    BY <2>2, <2>3, <2>4, <2>5 DEF hand, melds
<1>4. frame.ok /\ frame.active = (table.phase # "over")
  BY <1>2 DEF Yes, Playing
<1> QED
  BY <1>2, <1>3, <1>4 DEF Film!FramesShowTheTable, Seats, Tiles

\* Every file of a Match can be read, and a frame has the hands, the melds and the riichi
\* of the table, whatever the tiles and the deals (frames.rs ReplayState::apply, mjson.rs
\* tile_name, parse_tile).
THEOREM FramesFollowTheTable ==
  ASSUME Film!Assumption
  PROVE  Film!Spec => []Film!FramesShowTheTable
<1>1. Film!Init => Follows(table, frame)
  BY InitFollows
<1>2. Follows(table, frame) /\ [Film!Next]_Film!vars => Follows(table, frame)'
  BY StepFollows
<1>3. Follows(table, frame) => Film!FramesShowTheTable
  BY FollowsShows
<1> QED
  BY <1>1, <1>2, <1>3, PTL DEF Film!Spec

=============================================================================
