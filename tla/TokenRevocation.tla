-------------------------- MODULE TokenRevocation --------------------------
(***************************************************************************)
(* A Bot Token from its creation to the last Room that hears of its        *)
(* revocation (crates/double_riichi_server/src/auth.rs, storage.rs, and    *)
(* compat.rs watch_revocations; RoomRegistry::revoke_token in              *)
(* crates/double_riichi_core/src/room.rs).                                 *)
(*                                                                         *)
(* The Admin's request commits to the database, changes the cache and tells*)
(* a broadcast channel of bounded length; a worker delivers to the ranked  *)
(* queue, the sockets and every Room, again and again until all have       *)
(* answered.  Agents join Rooms meanwhile, under the semaphore the worker  *)
(* takes.  The process may stop.                                           *)
(***************************************************************************)
EXTENDS Naturals, Sequences, Functions

CONSTANTS
  T,      \* Bot Tokens
  Rm,     \* Rooms
  Stream, \* messages the channel keeps for a slow receiver (64 in the code)
  Box     \* ROOM_COMMAND_CAPACITY

\* The names are told apart, and a channel and a Room exist.
Assumption ==
  /\ {"none", "worker"} \cap T = {} /\ "none" \notin Rm /\ Rm # {}
  /\ Stream \in Nat \ {0} /\ Box \in Nat

VARIABLES
  up,     \* the process runs
  disk,   \* bot_tokens
  cache,  \* BotTokenAuthority: records
  admin,  \* the Admin's request, under admin_mutation_lock
  stream, \* revocations the worker has still to receive
  lagged, \* the channel dropped some
  worker, \* the task of watch_revocations
  sema,   \* who holds the semaphore of the agents: a token's join, or the worker
  join,   \* the request of an agent to join
  box,    \* commands in each Room's queue
  member, \* tokens with a Participant in each Room
  waiting \* tokens with a place in the ranked queue or an open socket

vars == <<up, disk, cache, admin, stream, lagged, worker, sema, join, box, member, waiting>>

tokens == <<disk, cache, admin>>
channel == <<stream, lagged>>
agents == <<join, box, member>>

States == {"none", "active", "revoked"}

Idle == [pc |-> "idle", t |-> "none"]
Receiving == [pc |-> "receive", todo |-> {}, t |-> "none", r |-> "none",
              left |-> {}, ok |-> TRUE]

TypeOK ==
  /\ up \in BOOLEAN
  /\ disk \in [T -> States] /\ cache \in [T -> States]
  /\ admin \in [pc : {"idle", "create", "revoke", "created", "revoked"}, t : T \cup {"none"}]
  /\ stream \in Seq(T) /\ Len(stream) <= Stream /\ lagged \in BOOLEAN
  /\ worker \in [pc : {"receive", "wait", "queue", "rooms", "reply", "retry"}, todo : SUBSET T,
                 t : T \cup {"none"}, r : Rm \cup {"none"}, left : SUBSET Rm, ok : BOOLEAN]
  /\ sema \in T \cup {"none", "worker"}
  /\ join \in [T -> [pc : {"idle", "wait", "send", "reply"}, r : Rm]]
  /\ box \in [Rm -> Seq({"join", "revoke"} \X T)] /\ \A r \in Rm : Len(box[r]) <= Box
  /\ member \in [Rm -> SUBSET T] /\ waiting \subseteq T

Init ==
  /\ up = TRUE
  /\ disk = [t \in T |-> "none"] /\ cache = disk
  /\ admin = Idle
  /\ stream = <<>> /\ lagged = FALSE
  /\ worker = Receiving
  /\ sema = "none"
  /\ join = [t \in T |-> [pc |-> "idle", r |-> CHOOSE r \in Rm : TRUE]]
  /\ box = [r \in Rm |-> <<>>]
  /\ member = [r \in Rm |-> {}] /\ waiting = {}

-----------------------------------------------------------------------------
(* The Admin *)

Ask(op, t) ==
  /\ up /\ admin = Idle
  /\ op = "create" => disk[t] = "none"
  /\ op = "revoke" => disk[t] # "none"
  /\ admin' = [pc |-> op, t |-> t]
  /\ UNCHANGED <<up, disk, cache, channel, worker, sema, agents, waiting>>

\* insert_bot_token, revoke_bot_token: one transaction with the audit entry; it
\* may fail, and a token that is revoked already ends the request.
Commit ==
  /\ up /\ admin.pc \in {"create", "revoke"}
  /\ LET t == admin.t IN
     \/ /\ admin.pc = "create" \/ disk[t] = "active"
        /\ disk' = [disk EXCEPT ![t] = IF admin.pc = "create" THEN "active" ELSE "revoked"]
        /\ admin' = [admin EXCEPT !.pc = IF @ = "create" THEN "created" ELSE "revoked"]
     \/ admin' = Idle /\ UNCHANGED disk
  /\ UNCHANGED <<up, cache, channel, worker, sema, agents, waiting>>

\* A message to the channel; the oldest goes when it is full.
Sent(t) ==
  /\ stream' = IF Len(stream) < Stream THEN Append(stream, t) ELSE Append(Tail(stream), t)
  /\ lagged' = (lagged \/ Len(stream) = Stream)

\* insert_active, or BotTokenAuthority::revoke with its message.
Cache ==
  /\ up /\ admin.pc \in {"created", "revoked"}
  /\ \/ /\ admin.pc = "created"
        /\ cache' = [cache EXCEPT ![admin.t] = "active"] /\ UNCHANGED channel
     \/ /\ admin.pc = "revoked" /\ cache[admin.t] = "active"
        /\ cache' = [cache EXCEPT ![admin.t] = "revoked"] /\ Sent(admin.t)
     \/ /\ admin.pc = "revoked" /\ cache[admin.t] # "active" /\ UNCHANGED <<cache, channel>>
  /\ admin' = Idle
  /\ UNCHANGED <<up, disk, worker, sema, agents, waiting>>

\* The connection of the Admin ends and the handler is dropped, also between
\* the commit and the cache.
DropAdmin ==
  /\ up /\ admin # Idle /\ admin' = Idle
  /\ UNCHANGED <<up, disk, cache, channel, worker, sema, agents, waiting>>

-----------------------------------------------------------------------------
(* Agents *)

\* agent_join: authenticated, then the semaphore, then authenticated again.
AskJoin(t, r) ==
  /\ up /\ cache[t] = "active" /\ join[t].pc = "idle" /\ t \notin member[r]
  /\ join' = [join EXCEPT ![t] = [pc |-> "wait", r |-> r]]
  /\ UNCHANGED <<up, tokens, channel, worker, sema, box, member, waiting>>

\* Slip: the token is not looked at again under the semaphore.
LockJoinBlind(t) ==
  /\ up /\ join[t].pc = "wait" /\ sema = "none"
  /\ sema' = t /\ join' = [join EXCEPT ![t].pc = "send"]
  /\ UNCHANGED <<up, tokens, channel, worker, box, member, waiting>>

LockJoin(t) ==
  /\ up /\ join[t].pc = "wait" /\ sema = "none"
  /\ IF cache[t] = "active"
     THEN sema' = t /\ join' = [join EXCEPT ![t].pc = "send"]
     ELSE join' = [join EXCEPT ![t].pc = "idle"] /\ UNCHANGED sema
  /\ UNCHANGED <<up, tokens, channel, worker, box, member, waiting>>

\* The command to the Room; a full queue is refused at once.
SendJoin(t) ==
  LET r == join[t].r IN
  /\ up /\ join[t].pc = "send"
  /\ IF Len(box[r]) < Box
     THEN /\ box' = [box EXCEPT ![r] = Append(@, <<"join", t>>)]
          /\ join' = [join EXCEPT ![t].pc = "reply"] /\ UNCHANGED sema
     ELSE /\ join' = [join EXCEPT ![t].pc = "idle"] /\ sema' = "none" /\ UNCHANGED box
  /\ UNCHANGED <<up, tokens, channel, worker, member, waiting>>

\* The answer came, or the agent's connection ended; a command in the queue of
\* the Room stays there.
EndJoin(t) ==
  /\ up /\ join[t].pc # "idle"
  /\ join' = [join EXCEPT ![t].pc = "idle"]
  /\ sema' = IF sema = t THEN "none" ELSE sema
  /\ UNCHANGED <<up, tokens, channel, worker, box, member, waiting>>

\* The ranked queue and the sockets of the compatibility API, under the same
\* look at the token.
Wait(t) ==
  /\ up /\ cache[t] = "active" /\ sema = "none"
  /\ waiting' = waiting \cup {t}
  /\ UNCHANGED <<up, tokens, channel, worker, sema, agents>>

\* The next command of a Room: a join, or RoomCommand::revoke_token.
RoomActs(r) ==
  LET t == Head(box[r])[2] IN
  /\ up /\ box[r] # <<>>
  /\ box' = [box EXCEPT ![r] = Tail(@)]
  /\ \/ Head(box[r])[1] = "join" /\ member' = [member EXCEPT ![r] = @ \cup {t}]
     \/ Head(box[r])[1] = "revoke" /\ member' = [member EXCEPT ![r] = @ \ {t}]
  /\ UNCHANGED <<up, tokens, channel, worker, sema, join, waiting>>

-----------------------------------------------------------------------------
(* The worker *)

Step(pc, todo, t, r, left, ok) ==
  worker' = [pc |-> pc, todo |-> todo, t |-> t, r |-> r, left |-> left, ok |-> ok]

\* The next token of a list, a message, or, when messages were lost, the list
\* of all tokens that are revoked.
Receive ==
  /\ up /\ worker.pc = "receive"
  /\ \/ \E t \in worker.todo :
          /\ Step("wait", worker.todo \ {t}, t, worker.r, worker.left, worker.ok)
          /\ UNCHANGED channel
     \/ /\ worker.todo = {} /\ ~lagged /\ stream # <<>>
        /\ Step("wait", {}, Head(stream), worker.r, worker.left, worker.ok)
        /\ stream' = Tail(stream) /\ UNCHANGED lagged
     \/ /\ worker.todo = {} /\ lagged
        /\ Step("receive", {t \in T : cache[t] = "revoked"}, worker.t, worker.r, worker.left, worker.ok)
        /\ lagged' = FALSE /\ UNCHANGED stream
  /\ UNCHANGED <<up, tokens, sema, agents, waiting>>

TakeSemaphore ==
  /\ up /\ worker.pc = "wait" /\ sema = "none"
  /\ sema' = "worker" /\ Step("queue", worker.todo, worker.t, worker.r, worker.left, TRUE)
  /\ UNCHANGED <<up, tokens, channel, agents, waiting>>

\* revoke_token_locked: out of the queue, and every socket told to close; one
\* that does not take the message in time leaves the delivery undone.
RevokeQueue ==
  /\ up /\ worker.pc = "queue"
  /\ \/ waiting' = waiting \ {worker.t} /\ Step("rooms", worker.todo, worker.t, worker.r, Rm, TRUE)
     \/ UNCHANGED waiting /\ Step("rooms", worker.todo, worker.t, worker.r, Rm, FALSE)
  /\ UNCHANGED <<up, tokens, channel, sema, agents>>

\* RoomRegistry::revoke_token: one Room after the other.
RevokeRoom(r) ==
  /\ up /\ worker.pc = "rooms" /\ r \in worker.left /\ Len(box[r]) < Box
  /\ box' = [box EXCEPT ![r] = Append(@, <<"revoke", worker.t>>)]
  /\ Step("reply", worker.todo, worker.t, r, worker.left \ {r}, worker.ok)
  /\ UNCHANGED <<up, tokens, channel, sema, join, member, waiting>>

\* The Room answered.
RoomAnswers ==
  /\ up /\ worker.pc = "reply" /\ <<"revoke", worker.t>> \notin Range(box[worker.r])
  /\ Step("rooms", worker.todo, worker.t, "none", worker.left, worker.ok)
  /\ UNCHANGED <<up, tokens, channel, sema, agents, waiting>>


\* All Rooms answered; or one stayed busy, or the attempt took too long, and
\* what was sent stays in the queues.  The semaphore is given back either way.
EndDelivery ==
  /\ up /\ worker.pc \in {"rooms", "reply"}
  /\ \/ /\ worker.pc = "rooms" /\ worker.left = {} /\ worker.ok
        /\ Step("receive", worker.todo, "none", "none", {}, TRUE)
     \/ Step("retry", worker.todo, worker.t, "none", {}, worker.ok)
  /\ sema' = "none"
  /\ UNCHANGED <<up, tokens, channel, agents, waiting>>

Retry ==
  /\ up /\ worker.pc = "retry"
  /\ Step("wait", worker.todo, worker.t, worker.r, worker.left, worker.ok)
  /\ UNCHANGED <<up, tokens, channel, sema, agents, waiting>>

-----------------------------------------------------------------------------

\* The process stops; Rooms and sockets are in memory only.
Crash ==
  /\ up /\ up' = FALSE
  /\ admin' = Idle /\ stream' = <<>> /\ lagged' = FALSE /\ worker' = Receiving /\ sema' = "none"
  /\ join' = [t \in T |-> [join[t] EXCEPT !.pc = "idle"]]
  /\ box' = [r \in Rm |-> <<>>] /\ member' = [r \in Rm |-> {}] /\ waiting' = {}
  /\ UNCHANGED <<disk, cache>>

\* from_config: the cache is loaded, and the worker begins with the tokens
\* revoked before.
Restart ==
  /\ ~up /\ up' = TRUE
  /\ cache' = disk
  /\ Step("receive", {t \in T : disk[t] = "revoked"}, "none", "none", {}, TRUE)
  /\ UNCHANGED <<disk, admin, channel, sema, agents, waiting>>

Next ==
  \/ \E t \in T : \/ \E op \in {"create", "revoke"} : Ask(op, t)
                  \/ \E r \in Rm : AskJoin(t, r)
                  \/ LockJoin(t) \/ SendJoin(t) \/ EndJoin(t) \/ Wait(t)
  \/ \E r \in Rm : RoomActs(r) \/ RevokeRoom(r)
  \/ Commit \/ Cache \/ DropAdmin
  \/ Receive \/ TakeSemaphore \/ RevokeQueue \/ RoomAnswers \/ EndDelivery \/ Retry
  \/ Crash \/ Restart

Spec == Init /\ [][Next]_vars

-----------------------------------------------------------------------------
(* Properties *)

\* The worker has still to deliver the revocation of the token.
Owed(t) ==
  \/ lagged \/ t \in Range(stream)
  \/ t \in worker.todo \/ (worker.t = t /\ worker.pc # "receive")

\* No agent of the token plays, waits or is on its way into a Room.
Out(t) ==
  /\ t \notin waiting
  /\ \A r \in Rm : t \notin member[r] /\ <<"join", t>> \notin Range(box[r])

\* Once the worker is done with a revocation, no agent of the token plays, waits
\* or is on its way into a Room, whatever join was under way, which Room was
\* busy, and however many revocations the channel lost (compat.rs
\* deliver_revocation, agent_join).
ExpelledAreOut ==
  \A t \in T : up /\ cache[t] = "revoked" /\ ~Owed(t) => Out(t)

-----------------------------------------------------------------------------
(* The inductive invariant behind them *)

Working == worker.pc \in {"queue", "rooms", "reply"}

\* The requests and the worker know whom they are about.
NamesInv ==
  /\ admin.pc # "idle" => admin.t \in T
  /\ worker.pc # "receive" => worker.t \in T
  /\ worker.pc = "reply" => worker.r \in Rm

\* The semaphore is held by the worker while it delivers, and by a join whose
\* command is under way.
SemaphoreInv ==
  /\ sema = "worker" <=> Working
  /\ \A t \in T : sema = t <=> join[t].pc \in {"send", "reply"}

\* In a Room that was told, the revocation comes after every join of the token.
Swept(r) ==
  LET t == worker.t  q == box[r] IN
  /\ \A i \in DOMAIN q : q[i] = <<"join", t>> =>
       \E j \in DOMAIN q : j > i /\ q[j] = <<"revoke", t>>
  /\ t \in member[r] => <<"revoke", t>> \in Range(q)

\* What the delivery has done so far: the Rooms that are not left were told, and
\* have answered, save the one it waits for.
DeliveryInv ==
  worker.pc \in {"rooms", "reply"} =>
    /\ worker.ok => worker.t \notin waiting
    /\ \A r \in Rm \ worker.left :
         /\ Swept(r)
         /\ <<"revoke", worker.t>> \in Range(box[r]) => worker.pc = "reply" /\ r = worker.r

RevokedInv ==
  \A t \in T : up /\ cache[t] = "revoked" /\ ~Owed(t) =>
    Out(t) /\ join[t].pc \notin {"send", "reply"}

\* A process that stopped delivers nothing.
DownInv == up \/ ~Working

RevocationInv == TypeOK /\ NamesInv /\ SemaphoreInv /\ DeliveryInv /\ RevokedInv
=============================================================================
