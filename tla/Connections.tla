---------------------------- MODULE Connections ----------------------------
(***************************************************************************)
(* The sockets of Room Participants: Humans (crates/double_riichi_server/  *)
(* src/http.rs) and Mjai agents (src/compat.rs).  A socket connects its    *)
(* Participant, is replaced by the next one, ends, leaves, or is closed by *)
(* the Admin or by the revocation of its Bot Token.                        *)
(*                                                                         *)
(* A Human's operations are serialised by a lock of its own, made when it  *)
(* is wanted and dropped from the map by the last one that used it; the    *)
(* agents share one semaphore.  A socket's id is its generation.           *)
(***************************************************************************)
EXTENDS Naturals, FiniteSets

CONSTANTS
  C,       \* sockets
  Humans,  \* Participants with a guest session
  Agents,  \* Participants with a Bot Token
  MaxLock  \* bound: locks that exist at once, 0 being the agents' semaphore

\* The names of tasks and Participants are told apart.
Assumption ==
  /\ {"none", "admin", "worker"} \cap C = {} /\ "none" \notin Humans \cup Agents
  /\ Humans \cap Agents = {}
  /\ MaxLock \in Nat

VARIABLES
  task,    \* what each socket, the Admin and the revocation worker do
  slot,    \* participant_locks: the lock in the map, or 0
  owner,   \* who holds each lock
  entry,   \* the current socket of each Participant
  told,    \* sockets whose control channel holds a Close
  valid,   \* Participants whose guest session or Bot Token is valid
  expelled, \* Participants whose kick or revocation has been carried out
  room     \* what the Room holds of each Participant

vars == <<task, slot, owner, entry, told, valid, expelled, room>>

P == Humans \cup Agents
Users == C \cup {"admin", "worker"}
Locks == 0..MaxLock
Idle == [pc |-> "idle", op |-> "none", p |-> "none", lock |-> 0]

Pc == {"idle", "want", "hold", "joined", "told", "unlock", "reclaim", "run", "remove", "over"}
\* "stuck": connected, and the Room was too busy for its last disconnect.
Presence == {"here", "stuck", "away", "gone"}
Op == {"none", "open", "refused", "leave", "end", "kick", "revoke"}

TypeOK ==
  /\ task \in [Users -> [pc : Pc, op : Op, p : P \cup {"none"}, lock : Locks]]
  /\ slot \in [Humans -> Locks]
  /\ owner \in [Locks -> Users \cup {"none"}]
  /\ entry \in [P -> C \cup {"none"}]
  /\ told \subseteq C /\ valid \subseteq P /\ expelled \subseteq P
  /\ room \in [P -> Presence]

\* Every Participant has joined and has not connected yet.
Init ==
  /\ task = [u \in Users |-> Idle]
  /\ slot = [p \in Humans |-> 0]
  /\ owner = [l \in Locks |-> "none"]
  /\ entry = [p \in P |-> "none"]
  /\ told = {} /\ valid = P /\ expelled = {}
  /\ room = [p \in P |-> "away"]

Holds(u) == task[u].lock

Goes(u, pc) == task' = [task EXCEPT ![u].pc = pc]

-----------------------------------------------------------------------------
(* The locks *)

\* The tasks that keep a lock alive: they wait for it or hold it.
Clones(l) == {u \in Users : task[u].pc \in {"want", "hold", "joined", "told", "unlock"}
                              /\ task[u].lock = l}

Unused == {l \in Locks \ {0} : Clones(l) = {} /\ \A p \in Humans : slot[p] # l}

\* operation_lock: the lock in the map, or a new one; transition.acquire_owned.
Wants(u, op, p) ==
  \/ /\ p \in Agents
     /\ task' = [task EXCEPT ![u] = [pc |-> "want", op |-> op, p |-> p, lock |-> 0]]
     /\ UNCHANGED slot
  \/ /\ p \in Humans
     /\ \E l \in Locks \ {0} :
          /\ IF slot[p] # 0 THEN l = slot[p] ELSE l \in Unused /\ \A k \in Unused : l <= k
          /\ slot' = [slot EXCEPT ![p] = l]
          /\ task' = [task EXCEPT ![u] = [pc |-> "want", op |-> op, p |-> p, lock |-> l]]

Acquire(u) ==
  /\ task[u].pc = "want" /\ owner[Holds(u)] = "none"
  /\ owner' = [owner EXCEPT ![Holds(u)] = u]
  /\ Goes(u, "hold")
  /\ UNCHANGED <<slot, entry, told, valid, expelled, room>>

Unlock(u) ==
  /\ task[u].pc = "unlock"
  /\ owner' = [owner EXCEPT ![Holds(u)] = "none"]
  /\ Goes(u, "reclaim")
  /\ UNCHANGED <<slot, entry, told, valid, expelled, room>>

\* What follows the operation.
After(u) ==
  CASE task[u].op = "open" -> "run"
    [] task[u].op = "leave" -> "run"
    [] task[u].op = "end" /\ task[u].p \in Humans -> "remove"
    [] OTHER -> "over"

Over(u) ==
  task' = [task EXCEPT ![u] =
             IF After(u) = "over" /\ u \notin C THEN Idle
             ELSE [pc |-> After(u), op |-> task[u].op, p |-> task[u].p, lock |-> 0]]

\* Slip: the lock leaves the map although others wait for it.
ReclaimAlways(u) ==
  /\ task[u].pc = "reclaim"
  /\ slot' = [p \in Humans |-> IF p = task[u].p THEN 0 ELSE slot[p]]
  /\ Over(u)
  /\ UNCHANGED <<owner, entry, told, valid, expelled, room>>

\* ParticipantOperationGuard::drop, its second half: the lock leaves the map if
\* the map has the only reference.
Reclaim(u) ==
  /\ task[u].pc = "reclaim"
  /\ slot' = [p \in Humans |->
                IF p = task[u].p /\ Clones(slot[p]) = {} THEN 0 ELSE slot[p]]
  /\ Over(u)
  /\ UNCHANGED <<owner, entry, told, valid, expelled, room>>

-----------------------------------------------------------------------------
(* A socket opens *)

\* human_upgrade, room_mjai_upgrade: the credential and the Room are looked at
\* before the upgrade.
Upgrade(c, p) ==
  /\ task[c] = Idle /\ p \in valid /\ room[p] # "gone"
  /\ Wants(c, "open", p)
  /\ UNCHANGED <<owner, entry, told, valid, expelled, room>>

\* Under the lock: the credential again, then the Room, which may be busy.
Reconnect(c) ==
  LET p == task[c].p IN
  /\ task[c].pc = "hold" /\ task[c].op = "open"
  /\ \/ /\ p \in valid /\ room[p] # "gone"
        /\ room' = [room EXCEPT ![p] = "here"] /\ Goes(c, "joined")
     \/ /\ task' = [task EXCEPT ![c] =
                      [pc |-> "unlock", op |-> "refused", p |-> p, lock |-> Holds(c)]]
        /\ UNCHANGED room
  /\ UNCHANGED <<slot, owner, entry, told, valid, expelled>>

\* register: the new socket replaces the old one and tells it to close.
Register(c) ==
  /\ task[c].pc = "joined"
  /\ entry' = [entry EXCEPT ![task[c].p] = c]
  /\ told' = told \cup ({entry[task[c].p]} \cap C)
  /\ Goes(c, "unlock")
  /\ UNCHANGED <<slot, owner, valid, expelled, room>>

-----------------------------------------------------------------------------
(* A socket ends *)

\* The loop of run_human or run_room_socket breaks: told to close, closed by
\* the client, silent, slow, or its Room deleted.
EndSocket(c) ==
  /\ task[c].pc = "run"
  /\ Wants(c, "end", task[c].p)
  /\ UNCHANGED <<owner, entry, told, valid, expelled, room>>


\* Under the lock, the current socket disconnects its Participant.  A busy Room
\* refuses: a Human's socket tries once, an agent's ROOM_COMMAND_CAPACITY times more,
\* and both go on as if it had been told.
Disconnect(c) ==
  LET p == task[c].p IN
  /\ task[c].pc = "hold" /\ task[c].op = "end"
  /\ \/ /\ entry[p] = c
        /\ \E as \in {"away", "stuck"} :
             room' = [room EXCEPT ![p] = IF @ \in {"here", "stuck"} THEN as ELSE @]
     \/ entry[p] # c /\ UNCHANGED room
  /\ entry' = [entry EXCEPT ![p] = IF p \in Agents /\ entry[p] = c THEN "none" ELSE @]
  /\ Goes(c, "unlock")
  /\ UNCHANGED <<slot, owner, told, valid, expelled>>

\* A Human's entry goes after the lock, unless a newer socket has it.
Remove(c) ==
  LET p == task[c].p IN
  /\ task[c].pc = "remove"
  /\ entry' = [entry EXCEPT ![p] = IF @ = c THEN "none" ELSE @]
  /\ Goes(c, "over")
  /\ UNCHANGED <<slot, owner, told, valid, expelled, room>>

\* run_human returns at once when the Room does not take its subscription.
SubscribeFails(c) ==
  /\ task[c].pc = "run" /\ task[c].op = "open" /\ task[c].p \in Humans
  /\ Goes(c, "over")
  /\ UNCHANGED <<slot, owner, entry, told, valid, expelled, room>>

-----------------------------------------------------------------------------
(* Leaving, the Admin, the revocation *)

\* The Human's message "leave".
Leave(c) ==
  /\ task[c].pc = "run" /\ task[c].op = "open" /\ task[c].p \in Humans
  /\ Wants(c, "leave", task[c].p)
  /\ UNCHANGED <<owner, entry, told, valid, expelled, room>>

\* The Room may be busy; the guest session ends either way.
LeaveRoom(c) ==
  /\ task[c].pc = "hold" /\ task[c].op = "leave"
  /\ \E r \in {"gone", room[task[c].p]} : room' = [room EXCEPT ![task[c].p] = r]
  /\ valid' = valid \ {task[c].p}
  /\ Goes(c, "unlock")
  /\ UNCHANGED <<slot, owner, entry, told, expelled>>

\* admin_participant_command with a kick.
Kick(p) ==
  /\ task["admin"] = Idle /\ p \in Humans
  /\ Wants("admin", "kick", p)
  /\ UNCHANGED <<owner, entry, told, valid, expelled, room>>

KickRoom ==
  LET p == task["admin"].p IN
  /\ task["admin"].pc = "hold"
  /\ \/ /\ room[p] # "gone" /\ room' = [room EXCEPT ![p] = "gone"] /\ Goes("admin", "told")
     \/ Goes("admin", "unlock") /\ UNCHANGED room
  /\ UNCHANGED <<slot, owner, entry, told, valid, expelled>>

\* The guest session ends and the current socket is told.
KickEnds ==
  /\ task["admin"].pc = "told"
  /\ valid' = valid \ {task["admin"].p}
  /\ told' = told \cup ({entry[task["admin"].p]} \cap C)
  /\ expelled' = expelled \cup {task["admin"].p}
  /\ Goes("admin", "unlock")
  /\ UNCHANGED <<slot, owner, entry, room>>

\* The Bot Token becomes invalid, and the worker hears of it.
RevokeToken(p) ==
  /\ p \in Agents \cap valid /\ task["worker"] = Idle
  /\ valid' = valid \ {p}
  /\ Wants("worker", "revoke", p)
  /\ UNCHANGED <<owner, entry, told, expelled, room>>


\* deliver_revocation: the sockets of the token, then the Rooms.
CloseAgents ==
  /\ task["worker"].pc = "hold"
  /\ told' = told \cup ({entry[task["worker"].p]} \cap C)
  /\ Goes("worker", "told")
  /\ UNCHANGED <<slot, owner, entry, valid, expelled, room>>

\* The Rooms may not answer in time; then everything is delivered again.
RoomsHear ==
  LET p == task["worker"].p IN
  /\ task["worker"].pc = "told"
  /\ \/ /\ room' = [room EXCEPT ![p] = "gone"] /\ expelled' = expelled \cup {p}
        /\ Goes("worker", "unlock") /\ UNCHANGED owner
     \/ /\ owner' = [owner EXCEPT ![0] = "none"] /\ Goes("worker", "want")
        /\ UNCHANGED <<room, expelled>>
  /\ UNCHANGED <<slot, entry, told, valid>>

\* The Room forgets a Participant that stayed away, or is deleted; the guest
\* session is pruned when the Participant is no longer in the Room.
RoomForgets(p) ==
  /\ room[p] \in {"away", "stuck"} /\ \A u \in Users : task[u].p # p \/ task[u].pc \in {"idle", "over"}
  /\ room' = [room EXCEPT ![p] = "gone"]
  /\ UNCHANGED <<task, slot, owner, entry, told, valid, expelled>>

Prune(p) ==
  /\ p \in Humans \cap valid /\ room[p] = "gone"
  /\ valid' = valid \ {p}
  /\ UNCHANGED <<task, slot, owner, entry, told, expelled, room>>

-----------------------------------------------------------------------------

Next ==
  \/ \E c \in C : \/ \E p \in P : Upgrade(c, p)
                  \/ Reconnect(c) \/ Register(c) \/ EndSocket(c) \/ Disconnect(c)
                  \/ Remove(c) \/ SubscribeFails(c) \/ Leave(c) \/ LeaveRoom(c)
  \/ \E u \in Users : Acquire(u) \/ Unlock(u) \/ Reclaim(u)
  \/ \E p \in P : Kick(p) \/ RevokeToken(p) \/ RoomForgets(p) \/ Prune(p)
  \/ KickRoom \/ KickEnds \/ CloseAgents \/ RoomsHear

Spec == Init /\ [][Next]_vars

-----------------------------------------------------------------------------
(* Properties *)

\* At most one task works on a Participant's connection at a time, although
\* the lock is made anew whenever nobody wants it (http.rs operation_lock,
\* ParticipantOperationGuard::drop).
OneOperationAtATime ==
  \A u \in Users, v \in Users :
    u # v /\ task[u].p = task[v].p /\ task[u].p # "none" =>
      ~ (task[u].pc \in {"hold", "joined", "told"} /\ task[v].pc \in {"hold", "joined", "told"})

\* Unless an operation on it is under way, a Participant whose current socket
\* runs is not disconnected: the end of an old socket never disconnects the new
\* one (http.rs run_human, compat.rs teardown_room_connection).
ReplacedEndsQuietly ==
  \A p \in P :
    LET c == entry[p] IN
    c # "none" /\ task[c].pc = "run" /\ task[c].op = "open" => room[p] # "away"

\* A socket of a Participant that was kicked or lost its Bot Token was told to
\* close, one that was being opened meanwhile included (http.rs
\* admin_participant_command, human_upgrade; compat.rs deliver_revocation,
\* room_mjai_upgrade).
ExpelledAreOut ==
  \A c \in C : task[c].p \in expelled /\ task[c].pc = "run" /\ task[c].op = "open" => c \in told

\* An agent the Room thinks connected has a current socket, or one being opened,
\* unless the Room was too busy when the last one ended (compat.rs
\* teardown_room_connection).
AgentsLeaveNoGhost ==
  \A p \in Agents : room[p] = "here" =>
    \/ entry[p] # "none"
    \/ \E c \in C : task[c].p = p /\ task[c].pc = "joined"

\* The sessions are sound.
SessionsAreSound == OneOperationAtATime /\ ReplacedEndsQuietly /\ AgentsLeaveNoGhost

-----------------------------------------------------------------------------
(* The inductive invariant *)

\* A task that works under a lock owns it, and all tasks of a Participant have the
\* same one: a lock leaves the map only when nobody has it.
Active == {"want", "hold", "joined", "told", "unlock"}

LockInv ==
  \A u \in Users : task[u].pc \in Active =>
    /\ task[u].pc # "want" => owner[task[u].lock] = u
    /\ task[u].p \in Humans => task[u].lock # 0 /\ task[u].lock = slot[task[u].p]
    /\ task[u].p \in Agents => task[u].lock = 0

\* Who does what.
TaskInv ==
  /\ \A u \in Users : task[u].pc \in Active \cup {"reclaim"} => task[u].p \in P
  /\ \A c \in C : /\ task[c].pc # "told" /\ task[c].op \notin {"kick", "revoke"}
                  /\ task[c].pc = "joined" => task[c].op = "open"
                  /\ task[c].pc = "remove" => task[c].p \in Humans /\ task[c].op = "end"
                  /\ task[c].op = "refused" => task[c].pc \in {"unlock", "reclaim", "over"}
  /\ task["admin"] # Idle => task["admin"].op = "kick" /\ task["admin"].p \in Humans
  /\ task["worker"] # Idle =>
       task["worker"].op = "revoke" /\ task["worker"].p \in Agents \ valid

\* A socket that has registered is the current one of its Participant or was told to
\* close; the current one has a Participant that is not away.
Registered(c) == task[c].op = "open" /\ task[c].pc \in {"unlock", "reclaim", "run"}

SocketInv ==
  /\ \A c \in C : Registered(c) => entry[task[c].p] = c \/ c \in told
  /\ \A c \in C : task[c].pc = "joined" => room[task[c].p] # "away"
  /\ \A p \in P : entry[p] \in C =>
       /\ task[entry[p]].p = p
       /\ task[entry[p]].op = "open" => task[entry[p]].pc \in {"unlock", "reclaim", "run", "over"}
       /\ Registered(entry[p]) => room[p] # "away"

\* Nobody opens a socket for whoever is expelled, and those that had registered were told.
ExpelInv ==
  /\ expelled \cap valid = {}
  /\ \A c \in C : task[c].p \in expelled =>
       task[c].pc # "joined" /\ (Registered(c) => c \in told)
  /\ LET p == task["worker"].p IN
     task["worker"].pc = "told" /\ entry[p] \in C => entry[p] \in told

ConnectionInv ==
  TypeOK /\ LockInv /\ TaskInv /\ SocketInv /\ ExpelInv /\ AgentsLeaveNoGhost
=============================================================================
