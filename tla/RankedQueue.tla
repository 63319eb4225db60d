---------------------------- MODULE RankedQueue ----------------------------
(***************************************************************************)
(* The ranked queue and the validation endpoint of the compatibility server *)
(* (crates/double_riichi_server/src/compat.rs): Bots wait in one queue, a   *)
(* batch is drained when it is full or when the fill timer fires, a batch   *)
(* takes one Match slot, and revocations and the shutdown cut in anywhere.  *)
(*                                                                          *)
(* An action is what one task does under one hold of `inner`'s lock, so     *)
(* everything between two locks interleaves.  A connection joins the queue  *)
(* at most once, so its name stands for its ticket, and a batch is named    *)
(* after its first member.  A timer task of an old generation does nothing  *)
(* (the first test of fill_ranked), so `timer` is both timer_running and    *)
(* the one sleeping task of the current generation.                         *)
(***************************************************************************)
EXTENDS Integers, Sequences, FiniteSets

CONSTANTS
  C,          \* connections
  Token,      \* Bot Tokens
  TokenOf,    \* [C -> Token]
  KindOf,     \* [C -> {"Ranked", "Validate"}]
  Quitters,   \* bound: the connections whose Bot may go away by itself
  Revocable,  \* bound: the tokens that may be revoked
  MaxInterruptions, \* bound: revocations and shutdowns in one behaviour
  BatchSize,  \* Bots of a full batch (4 in the code)
  MaxActive,  \* max_active
  MaxQueue    \* max_queue

Assumption ==
  /\ IsFiniteSet(C) /\ Quitters \subseteq C /\ TokenOf \in [C -> Token]
  /\ BatchSize \in Nat \ {0} /\ MaxActive \in Nat /\ MaxQueue \in Nat

VARIABLES
  at,       \* where the task of each connection is
  verdict,  \* the oneshot a waiting connection is answered on
  told,     \* connections with a Close in their control channel
  queue,    \* inner.queue
  batch,    \* batches: starter, game and entry of inner.active
  slots,    \* active_matches
  timer,    \* timer_running, and its sleeping task
  calls,    \* timer calls a task is about to make
  active,   \* tokens the token service accepts
  notices,  \* revocations not yet delivered
  down      \* "up", "flagged" (atomic flag), "locked" (inner.shutting_down)

vars == <<at, verdict, told, queue, batch, slots, timer, calls, active, notices, down>>

socketVars == <<at, verdict, told>>
tokenVars == <<active, notices>>

-----------------------------------------------------------------------------

NoHost == "timer"

NoBatch ==
  [members |-> {}, host |-> NoHost, starter |-> "none",
   game |-> "none", listed |-> FALSE, armed |-> FALSE, released |-> FALSE,
   cancelled |-> FALSE]

\* starter: the task in start_batch; game: the Match actor; listed: the entry
\* of inner.active, armed when its controls are set; cancelled: task.abort().
Batch ==
  [members : SUBSET C, host : C \cup {NoHost},
   starter : {"none", "drained", "opening", "spawned", "done"},
   game : {"none", "on", "left", "over"}, listed : BOOLEAN, armed : BOOLEAN,
   released : BOOLEAN, cancelled : BOOLEAN]

Call == [host : C \cup {NoHost}, op : {"schedule", "starter", "restart", "failed"}]

\* Whoever left the queue or emptied it: their calls are alike, so two that are
\* due at the same time are one.
ScheduleCall == [host |-> NoHost, op |-> "schedule"]

TypeOK ==
  /\ at \in [C -> {"new", "admitted", "hosting", "reading", "playing", "closed"}]
  /\ verdict \in [C -> {"none", "assigned", "server_busy", "protocol_error",
                        "token_revoked", "server_shutdown"}]
  /\ told \subseteq C
  /\ queue \in Seq(C) /\ Len(queue) <= MaxQueue
  /\ batch \in [C -> Batch]
  /\ slots \in 0..MaxActive
  /\ timer \in BOOLEAN
  /\ calls \subseteq Call
  /\ active \subseteq Token
  /\ notices \subseteq Token
  /\ down \in {"up", "flagged", "locked"}

Init ==
  /\ at = [c \in C |-> "new"]
  /\ verdict = [c \in C |-> "none"]
  /\ told = {}
  /\ queue = <<>>
  /\ batch = [c \in C |-> NoBatch]
  /\ slots = 0
  /\ timer = FALSE
  /\ calls = {}
  /\ active = Token
  /\ notices = {}
  /\ down = "up"

Waiting == {queue[i] : i \in DOMAIN queue}

Listed == {b \in C : batch[b].listed}

Tokens(members) == {TokenOf[c] : c \in members}

TokensListed == UNION {Tokens(batch[b].members) : b \in Listed}

\* token_in_use, and the same test under the lock of both enqueues.
InUse(t) == t \in Tokens(Waiting) \cup TokensListed

\* The answer to each member that is still there to hear it.
Answered(members, v) ==
  [c \in C |-> IF c \in members /\ at[c] # "closed" THEN v ELSE verdict[c]]

\* The queue q without its member of `gone`: there is at most one, since a ticket is
\* unique and a token in the queue is in use.
Without(q, gone) ==
  IF \A i \in DOMAIN q : q[i] \notin gone THEN q
  ELSE LET k == CHOOSE i \in DOMAIN q : q[i] \in gone
       IN  SubSeq(q, 1, k - 1) \o SubSeq(q, k + 1, Len(q))

\* A socket that ends drops its ends of the channels.
Closes(c) ==
  /\ at' = [at EXCEPT ![c] = "closed"]
  /\ verdict' = [verdict EXCEPT ![c] = "none"]
  /\ told' = told \ {c}

\* Whether start_ranked_timer would start one.
TimerWanted(q, s) == down # "locked" /\ q # <<>> /\ s < MaxActive

Full == slots >= MaxActive

\* drain_batch, and the starter that will take it from there.
Drained(q) == {q[i] : i \in 1..(IF Len(q) < BatchSize THEN Len(q) ELSE BatchSize)}

Undrained(q) == SubSeq(q, BatchSize + 1, Len(q))

NewBatch(members, host) ==
  [NoBatch EXCEPT !.members = members, !.host = host, !.starter = "drained"]

-----------------------------------------------------------------------------
(* Connections *)

\* ranked_upgrade, validate_upgrade: accepted here, enqueued after the switch
\* of protocols.  Refusals are plain HTTP answers and change nothing.
Upgrade(c) ==
  /\ at[c] = "new"
  /\ TokenOf[c] \in active
  /\ ~InUse(TokenOf[c])
  /\ at' = [at EXCEPT ![c] = "admitted"]
  /\ UNCHANGED <<verdict, told, queue, batch, slots, timer, calls, tokenVars, down>>

\* Closed at once, with server_busy.
Refuse(c) ==
  /\ Closes(c)
  /\ UNCHANGED <<queue, batch, slots, timer, calls, tokenVars, down>>

\* Slip: a Bot that finds the slots taken starts no timer, not even later.
EnqueueRankedNoTimer(c) ==
  /\ at[c] = "admitted" /\ KindOf[c] = "Ranked"
  /\ IF down # "up" \/ InUse(TokenOf[c]) \/ Len(queue) >= MaxQueue THEN Refuse(c)
     ELSE /\ queue' = Append(queue, c)
          /\ at' = [at EXCEPT ![c] = "reading"]
          /\ UNCHANGED <<verdict, told, batch, slots, timer, calls, tokenVars, down>>

EnqueueRanked(c) ==
  /\ at[c] = "admitted" /\ KindOf[c] = "Ranked"
  /\ IF down # "up" \/ InUse(TokenOf[c]) \/ Len(queue) >= MaxQueue THEN Refuse(c)
     ELSE LET q == Append(queue, c) IN
          /\ IF Len(q) >= BatchSize /\ ~Full
             THEN /\ timer' = FALSE
                  /\ queue' = Undrained(q)
                  /\ batch' = [batch EXCEPT ![q[1]] = NewBatch(Drained(q), c)]
                  /\ at' = [at EXCEPT ![c] = "hosting"]
             ELSE /\ timer' = (timer \/ TimerWanted(q, slots))
                  /\ queue' = q
                  /\ at' = [at EXCEPT ![c] = "reading"]
                  /\ UNCHANGED batch
          /\ UNCHANGED <<verdict, told, slots, calls, tokenVars, down>>

EnqueueValidate(c) ==
  /\ at[c] = "admitted" /\ KindOf[c] = "Validate"
  /\ IF down # "up" \/ Full \/ InUse(TokenOf[c]) THEN Refuse(c)
     ELSE /\ batch' = [batch EXCEPT ![c] = NewBatch({c}, c)]
          /\ at' = [at EXCEPT ![c] = "hosting"]
          /\ UNCHANGED <<verdict, told, queue, slots, timer, calls, tokenVars, down>>

\* run_waiting_socket: the answer arrives.
ReadVerdict(c) ==
  /\ at[c] = "reading" /\ verdict[c] # "none"
  /\ IF verdict[c] = "assigned"
     THEN at' = [at EXCEPT ![c] = "playing"] /\ UNCHANGED <<verdict, told>>
     ELSE Closes(c)
  /\ UNCHANGED <<queue, batch, slots, timer, calls, tokenVars, down>>

\* run_waiting_socket: the Bot goes away (cancel_waiting), perhaps too late.
LeaveQueue(c) ==
  /\ at[c] = "reading"
  /\ Closes(c)
  /\ IF KindOf[c] = "Validate" THEN UNCHANGED <<queue, timer, calls>>
     ELSE /\ queue' = Without(queue, {c})
          /\ timer' = (timer /\ queue' # <<>>)
          /\ calls' = calls \cup {ScheduleCall}
  /\ UNCHANGED <<batch, slots, tokenVars, down>>

BatchOf(c) == {b \in C : c \in batch[b].members}

\* run_assigned_socket ends: the Bot goes away, a Close is read from the
\* control channel, or the Match has ended and dropped the output.
EndSocket(c) ==
  /\ at[c] = "playing"
  /\ Closes(c)
  /\ UNCHANGED <<queue, batch, slots, timer, calls, tokenVars, down>>

\* The part of EndSocket that the server itself brings about.
ServerEndsSocket(c) ==
  EndSocket(c) /\ (c \in told \/ \A b \in BatchOf(c) : batch[b].game \in {"left", "over"})

-----------------------------------------------------------------------------
(* The fill timer *)

\* fill_ranked, by the timer task of the current generation.
Fill ==
  /\ timer
  /\ timer' = FALSE
  /\ IF queue = <<>> \/ down # "up" \/ Full
     THEN UNCHANGED <<queue, batch>>
     ELSE /\ queue' = Undrained(queue)
          /\ batch' = [batch EXCEPT ![queue[1]] = NewBatch(Drained(queue), NoHost)]
  /\ UNCHANGED <<socketVars, slots, calls, tokenVars, down>>

\* Whether a starter came from the queue: a validation is its own host.
Ranked(host) == host = NoHost \/ KindOf[host] = "Ranked"

\* The host of a batch goes back to its own socket.
HostReturns(host) == at' = [c \in C |-> IF c = host THEN "reading" ELSE at[c]]

\* schedule_ranked_timer.
Schedule(call) ==
  /\ call \in calls /\ call.op \in {"schedule", "starter"}
  /\ calls' = calls \ {call}
  /\ timer' = (timer \/ TimerWanted(queue, slots))
  /\ IF call.op = "starter" THEN HostReturns(call.host) ELSE UNCHANGED at
  /\ UNCHANGED <<verdict, told, queue, batch, slots, tokenVars, down>>

\* restart_ranked_timer, called when a slot came free; a starter whose batch
\* failed goes on as after any start_batch.
Restart(call) ==
  /\ call \in calls /\ call.op \in {"restart", "failed"}
  /\ timer' = TimerWanted(queue, slots)
  /\ IF call.op = "failed" /\ Ranked(call.host)
     THEN calls' = (calls \ {call}) \cup {[call EXCEPT !.op = "starter"]} /\ UNCHANGED at
     ELSE /\ calls' = calls \ {call}
          /\ IF call.op = "failed" THEN HostReturns(call.host) ELSE UNCHANGED at
  /\ UNCHANGED <<verdict, told, queue, batch, slots, tokenVars, down>>

-----------------------------------------------------------------------------
(* start_batch *)

\* The starter returns: the ranked ones go on to schedule the timer.
StarterReturns(b) ==
  IF Ranked(batch[b].host)
  THEN calls' = calls \cup {[host |-> batch[b].host, op |-> "starter"]} /\ UNCHANGED at
  ELSE HostReturns(batch[b].host) /\ UNCHANGED calls

\* Slip: the slots are not counted again when the drained batch gets the lock.
RegisterUnchecked(b) ==
  /\ batch[b].starter = "drained"
  /\ IF down # "up" \/ Tokens(batch[b].members) \cap TokensListed # {}
     THEN /\ verdict' = Answered(batch[b].members, "server_busy")
          /\ batch' = [batch EXCEPT ![b] = NoBatch]
          /\ StarterReturns(b)
          /\ UNCHANGED slots
     ELSE /\ slots' = slots + 1
          /\ batch' = [batch EXCEPT ![b].starter = "opening", ![b].listed = TRUE]
          /\ UNCHANGED <<at, verdict, calls>>
  /\ UNCHANGED <<told, queue, timer, tokenVars, down>>


\* The first lock: the whole batch is refused, or takes a slot.
Register(b) ==
  /\ batch[b].starter = "drained"
  /\ IF down # "up" \/ Full \/ Tokens(batch[b].members) \cap TokensListed # {}
     THEN /\ verdict' = Answered(batch[b].members, "server_busy")
          /\ batch' = [batch EXCEPT ![b] = NoBatch]
          /\ StarterReturns(b)
          /\ UNCHANGED slots
     ELSE /\ slots' = slots + 1
          /\ batch' = [batch EXCEPT ![b].starter = "opening", ![b].listed = TRUE]
          /\ UNCHANGED <<at, verdict, calls>>
  /\ UNCHANGED <<told, queue, timer, tokenVars, down>>

\* release_slot: once per batch, and never below zero.
Released(b) == IF batch[b].released \/ slots = 0 THEN slots ELSE slots - 1

\* A batch that got its slot is given up; both ways out release the slot and
\* restart the timer.  Nobody tells the two locks of `finish` apart.
GiveUp(b, v) ==
  /\ verdict' = Answered(batch[b].members, v)
  /\ slots' = Released(b)
  /\ batch' = [batch EXCEPT ![b] = NoBatch]
  /\ calls' = calls \cup {[host |-> batch[b].host, op |-> "failed"]}
  /\ UNCHANGED <<at, told, queue, timer, tokenVars, down>>

\* prepare_match fails (the engine refuses the Match).
PrepareFails(b) == batch[b].starter = "opening" /\ GiveUp(b, "protocol_error")

\* Slip: the tokens are not looked at again after the replay is opened.
CheckNoTokens(b) ==
  /\ batch[b].starter = "opening"
  /\ verdict' = Answered(batch[b].members, "assigned")
  /\ batch' = [batch EXCEPT ![b].starter = "spawned", ![b].game = "on",
                            ![b].armed = batch[b].listed]
  /\ UNCHANGED <<at, told, queue, slots, timer, calls, tokenVars, down>>

\* The second lock, after the replay is opened: every member's token must
\* still be good.  Then the assignments are sent and the actor is spawned.
Check(b) ==
  /\ batch[b].starter = "opening"
  /\ IF Tokens(batch[b].members) \subseteq active
     THEN /\ verdict' = Answered(batch[b].members, "assigned")
          /\ batch' = [batch EXCEPT ![b].starter = "spawned", ![b].game = "on",
                                    ![b].armed = batch[b].listed]
          /\ UNCHANGED <<at, told, queue, slots, timer, calls, tokenVars, down>>
     ELSE GiveUp(b, "token_revoked")


\* The third lock: the entry adopts the task, or the task is aborted.
Adopt(b) ==
  /\ batch[b].starter = "spawned"
  /\ batch' = [batch EXCEPT ![b] = IF @.game = "over" THEN NoBatch
       ELSE [@ EXCEPT !.starter = "done", !.cancelled = down = "locked" \/ ~batch[b].listed]]
  /\ StarterReturns(b)
  /\ UNCHANGED <<verdict, told, queue, slots, timer, tokenVars, down>>

\* The actor ends (complete, failed, panicked or aborted): its lease is dropped.
Finish(b) ==
  /\ batch[b].game = "on"
  /\ slots' = Released(b)
  /\ batch' = [batch EXCEPT ![b].game = "left", ![b].released = TRUE]
  /\ UNCHANGED <<socketVars, queue, timer, calls, tokenVars, down>>

\* The task the lease spawned removes the entry and restarts the timer.
Unlist(b) ==
  /\ batch[b].game = "left"
  /\ batch' = [batch EXCEPT ![b] = IF @.starter = "done" THEN NoBatch
                                   ELSE [@ EXCEPT !.game = "over", !.listed = FALSE]]
  /\ calls' = calls \cup {[host |-> NoHost, op |-> "restart"]}
  /\ UNCHANGED <<socketVars, queue, slots, timer, tokenVars, down>>

-----------------------------------------------------------------------------
(* Revocation and shutdown *)

Interruptions == Cardinality(Token \ active) + (IF down = "up" THEN 0 ELSE 1)

\* The token service forgets the token, then tells its listeners.
Revoke(t) ==
  /\ t \in active \cap Revocable /\ Interruptions < MaxInterruptions
  /\ active' = active \ {t}
  /\ notices' = notices \cup {t}
  /\ UNCHANGED <<socketVars, queue, batch, slots, timer, calls, down>>

\* The connections of a token whose batch has its controls set.
Controlled(tokens) ==
  UNION {{c \in batch[b].members : TokenOf[c] \in tokens} :
           b \in {b \in Listed : batch[b].armed}}

\* deliver_revocation, revoke_token_locked: the compatibility half.
Deliver(t) ==
  /\ t \in notices /\ down = "up"
  /\ notices' = notices \ {t}
  /\ queue' = Without(queue, {c \in C : TokenOf[c] = t})
  /\ timer' = (timer /\ queue' # <<>>)
  /\ verdict' = Answered({c \in Waiting : TokenOf[c] = t}, "token_revoked")
  /\ told' = told \cup Controlled({t})
  /\ calls' = calls \cup {ScheduleCall}
  /\ UNCHANGED <<at, batch, slots, active, down>>

BeginShutdown ==
  /\ down = "up" /\ Interruptions < MaxInterruptions
  /\ down' = "flagged"
  /\ UNCHANGED <<socketVars, queue, batch, slots, timer, calls, tokenVars>>

\* shutdown: one lock empties the queue and the table of Matches; the tasks it
\* found are aborted, and no lease may count its slot a second time.
Shutdown ==
  /\ down = "flagged"
  /\ down' = "locked"
  /\ timer' = FALSE
  /\ queue' = <<>>
  /\ verdict' = Answered(Waiting, "server_shutdown")
  /\ told' = told \cup Controlled(Token)
  /\ slots' = 0
  /\ batch' = [b \in C |->
       IF ~batch[b].listed THEN batch[b]
       ELSE [batch[b] EXCEPT !.listed = FALSE, !.released = TRUE,
                             !.cancelled = batch[b].starter = "done"]]
  /\ UNCHANGED <<at, calls, tokenVars>>

-----------------------------------------------------------------------------

Starter(b) == Register(b) \/ PrepareFails(b) \/ Check(b) \/ Adopt(b)

Socket(c) == EnqueueRanked(c) \/ EnqueueValidate(c) \/ ReadVerdict(c) \/ ServerEndsSocket(c)

TimerCall == \E call \in calls : Schedule(call) \/ Restart(call)

\* What goes on by itself: tasks run, the timer fires, a Match ends, a revocation
\* is delivered, a shutdown goes on once begun.
System ==
  \/ \E c \in C : Socket(c)
  \/ \E b \in C : Starter(b) \/ Finish(b) \/ Unlist(b)
  \/ Fill \/ TimerCall
  \/ \E t \in Token : Deliver(t)
  \/ Shutdown

Next ==
  \/ System
  \/ \E c \in C : Upgrade(c)
  \/ \E c \in Quitters : LeaveQueue(c) \/ EndSocket(c)
  \/ \E t \in Token : Revoke(t)
  \/ BeginShutdown

-----------------------------------------------------------------------------
(* Properties *)

Live == {b \in C : batch[b].game = "on" \/ batch[b].starter = "opening"}

\* A slot is held by exactly the batches that took one and did not release it,
\* so the Matches under way never exceed max_active, through failures to
\* prepare, revocations, the end of a Match and the shutdown
\* (compat.rs release_slot, start_batch, ActiveMatchLease::drop).
Capacity ==
  /\ slots = Cardinality({b \in Live : ~batch[b].released})
  /\ down # "locked" => Cardinality(Live) <= MaxActive

\* No Bot Token is in the queue twice or in two Matches at a time, although a token
\* whose batch is drained but not registered may queue again (compat.rs
\* enqueue_ranked, start_batch).
OneMatchPerToken ==
  /\ \A i, j \in DOMAIN queue : TokenOf[queue[i]] = TokenOf[queue[j]] => i = j
  /\ \A b, d \in Listed :
       b # d => Tokens(batch[b].members) \cap Tokens(batch[d].members) = {}

\* Once its revocation is delivered, a token plays in no Match unless its
\* connection has been told to close (compat.rs deliver_revocation and the
\* second lock of start_batch).
RevokedStaysOut ==
  \A c \in C : TokenOf[c] \notin active \cup notices /\ verdict[c] = "assigned" =>
    c \in told \/ \A b \in BatchOf(c) : ~batch[b].armed \/ batch[b].game \in {"left", "over"}

\* When the shutdown has emptied the table, every Match still on has been
\* aborted or is about to be (compat.rs shutdown, third lock of start_batch).
ShutdownReachesEveryMatch ==
  down = "locked" =>
    \A b \in C : batch[b].game = "on" /\ batch[b].starter = "done" => batch[b].cancelled

\* The inductive invariant behind the four.  Whoever has not joined the queue or is
\* in it has no answer and is in no batch;
WaitingInv ==
  /\ \A c \in Waiting : at[c] \in {"reading", "hosting"} /\ KindOf[c] = "Ranked"
  /\ \A c \in C : at[c] \in {"new", "admitted"} \/ c \in Waiting =>
       verdict[c] = "none" /\ \A b \in C : c \notin batch[b].members

\* a batch holds its entry from the first lock of its start to the end of its
\* Match, unless the shutdown has released its slot and emptied the table.
EntryInv(b, x, d) ==
  x # NoBatch =>
    /\ b \in x.members /\ x.starter # "none"
    /\ x.game # "none" <=> x.starter \in {"spawned", "done"}
    /\ x.armed => x.game # "none"
    /\ x.starter = "drained" => ~x.released
    /\ x.listed <=> d # "locked" /\ (x.starter = "opening" \/ x.game \in {"on", "left"})
    /\ x.game = "on" \/ x.starter = "opening" => (x.released <=> d = "locked")

BatchInv == \A b \in C : EntryInv(b, batch[b], down)

QueueInv ==
  /\ TypeOK /\ WaitingInv /\ BatchInv
  /\ Capacity /\ OneMatchPerToken /\ RevokedStaysOut /\ ShutdownReachesEveryMatch

\* No connection is in the queue, in a batch that is not answered, or busy with the
\* start of one.
NobodyWaits == \A c \in C : at[c] \notin {"hosting", "reading"}
=============================================================================
