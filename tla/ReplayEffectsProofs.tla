------------------------- MODULE ReplayEffectsProofs -------------------------
(* Theorems about ReplayEffects, for every number of Matches, of lines and of *)
(* effects in the queue, and whatever fails: a completed replay is whole, no  *)
(* finished file is ever without a row, the Room says of a replay what the    *)
(* database has, and nothing is left behind without a report.                 *)
EXTENDS ReplayEffects, SequenceTheorems, TLAPS

Steady == WorkInv /\ CompletedIsWhole /\ NoOrphanFile

\* What the files, the rows and the worker are does not change.
Idling == UNCHANGED <<process, job, writer, file, row, records, doomed>>

\* No step of the actor, and none that only moves effects, disturbs them.
LEMMA IdlingKeeps ==
  ASSUME Steady, Idling, process = "up" \/ UNCHANGED asked
  PROVE  Steady'
<1>1. WorkInv'
  BY DEF Steady, WorkInv, Idling, Unfinished
<1>2. CompletedIsWhole'
  BY DEF Steady, CompletedIsWhole, Validates, Idling
<1>3. NoOrphanFile'
  BY DEF Steady, NoOrphanFile, Idling
<1> QED BY <1>1, <1>2, <1>3 DEF Steady

LEMMA QueueGrows ==
  ASSUME TypeOK, NEW e \in Effect, Send(e)
  PROVE  queue' \in Seq(Effect) /\ Len(queue') <= Capacity
<1>1. queue \in Seq(Effect) BY DEF TypeOK
<1>2. queue' = Append(queue, e) /\ Len(queue) < Capacity BY DEF Send, HasRoom
<1>3. Len(queue') = Len(queue) + 1 BY <1>1, <1>2
<1>4. Capacity \in Nat /\ Len(queue) \in Nat BY <1>1, BoundAssumption
<1> QED BY <1>1, <1>2, <1>3, <1>4

LEMMA QueueShrinks ==
  ASSUME TypeOK, queue # << >>
  PROVE  /\ Head(queue) \in Effect
         /\ Tail(queue) \in Seq(Effect)
         /\ Len(Tail(queue)) <= Capacity
<1>1. queue \in Seq(Effect) /\ Len(queue) <= Capacity BY DEF TypeOK
<1>2. Head(queue) \in Effect /\ Tail(queue) \in Seq(Effect) BY <1>1
<1>3. Len(Tail(queue)) = Len(queue) - 1 BY <1>1
<1>4. Capacity \in Nat /\ Len(queue) \in Nat BY <1>1, BoundAssumption
<1> QED BY <1>1, <1>2, <1>3, <1>4

\* An answer changes nothing of the Room but the answer.
LEMMA AnswerType ==
  ASSUME TypeOK, NEW op, NEW m, NEW r \in {"ok", "err"}, Answer(op, m, r)
  PROVE  room' \in Room
BY DEF TypeOK, Answer, Room

\* One effect on one Match.
LEMMA EffectType ==
  ASSUME NEW op \in {"Open", "Append", "Before", "After", "Flush", "Finalize", "Delete", "Cleanup"},
         NEW m \in Match, NEW line \in 0 .. Total
  PROVE  Eff(op, m, line) \in Effect
BY DEF Eff, Effect

-----------------------------------------------------------------------------
(* The actor *)

LEMMA LineNumbers == 0 \in 0 .. Total /\ 1 \in 0 .. Total /\ Total \in Nat
BY LinesAssumption

PC == {"lobby", "opening", "playing", "batch", "flush", "flushing", "finish", "finalizing",
       "abort", "aborting", "post", "closed"}

\* A step of the actor keeps every type if it keeps those of what it writes.
LEMMA ActorType ==
  ASSUME TypeOK, Quiet, room' \in Room, asked' \subseteq Match, spawned' \subseteq Match,
         queue' \in Seq(Effect), Len(queue') <= Capacity
  PROVE  TypeOK'
BY DEF TypeOK, Quiet

LEMMA FailReplayType ==
  ASSUME TypeOK, NEW m \in Match, NEW pc \in PC, FailReplay(m, pc)
  PROVE  /\ room' \in Room /\ asked' \subseteq Match /\ spawned' \subseteq Match
         /\ room'.pc = pc /\ room'.m = room.m /\ room'.next = room.next
         /\ room'.home = room.home
BY DEF TypeOK, FailReplay, Room, PC

LEMMA StartKeeps ==
  ASSUME ReplayInv, Start
  PROVE  TypeOK' /\ RoomInv'
<1> USE LineNumbers DEF ReplayInv
<1>1. room \in Room /\ MaxMatches \in Nat BY BoundAssumption DEF TypeOK
<1>2. room.next + 1 \in Match BY <1>1 DEF Start, Room, Match
<1>3. room' \in Room
  <2>1. CASE room' = [room EXCEPT !.pc = "opening", !.home = room.pc, !.next = @ + 1,
                                  !.reply = "none"]
    <3>1. room.pc \in {"lobby", "post"} BY DEF Start, Listening
    <3> QED BY <1>1, <1>2, <2>1, <3>1 DEF Room
  <2>2. CASE room' = [room EXCEPT !.next = @ + 1, !.avail = FALSE, !.lost = TRUE]
    BY <1>1, <1>2, <2>2 DEF Room
  <2> QED BY <2>1, <2>2 DEF Start
<1>4. queue' \in Seq(Effect) /\ Len(queue') <= Capacity
  <2>1. Eff("Open", room.next + 1, 1) \in Effect BY <1>2, EffectType
  <2>2. CASE Send(Eff("Open", room.next + 1, 1)) BY <2>1, <2>2, QueueGrows
  <2>3. CASE UNCHANGED queue BY <2>3 DEF TypeOK
  <2> QED BY <2>2, <2>3 DEF Start
<1>5. asked' \subseteq Match /\ spawned' \subseteq Match BY <1>2 DEF Start, TypeOK
<1>6. TypeOK' BY <1>3, <1>4, <1>5, ActorType DEF Start
<1>7. RoomInv'
  BY <1>1, <1>2 DEF Start, Listening, RoomInv, Room
<1> QED BY <1>6, <1>7

LEMMA OpenedKeeps ==
  ASSUME ReplayInv, Opened
  PROVE  TypeOK' /\ RoomInv'
<1> USE LineNumbers DEF ReplayInv
<1>1. room \in Room /\ room.next \in Match BY DEF TypeOK, Opened, RoomInv
<1>2. queue' \in Seq(Effect) /\ Len(queue') <= Capacity BY DEF Opened, TypeOK
<1>3. CASE /\ room' = [room EXCEPT !.pc = "playing", !.m = room.next, !.sent = 1, !.reply = "none"]
           /\ UNCHANGED <<asked, spawned>>
  <2>1. room' \in Room BY <1>1, <1>3 DEF Room
  <2>2. TypeOK' BY <1>2, <1>3, <2>1, ActorType DEF Opened, TypeOK
  <2>3. RoomInv' BY <1>1, <1>3 DEF RoomInv, Room
  <2> QED BY <2>2, <2>3
<1>4. CASE FailReplay(room.next, room.home)
  <2>1. room.home \in PC /\ room.home \in {"lobby", "post", "closed"} BY <1>1 DEF Room, PC
  <2>2. /\ room' \in Room /\ asked' \subseteq Match /\ spawned' \subseteq Match
        /\ room'.pc = room.home /\ room'.m = room.m /\ room'.home = room.home
    BY <1>1, <1>4, <2>1, FailReplayType
  <2>3. TypeOK' BY <1>2, <2>2, ActorType DEF Opened
  <2>4. RoomInv' BY <2>1, <2>2 DEF RoomInv, Opened
  <2> QED BY <2>3, <2>4
<1> QED BY <1>3, <1>4 DEF Opened

\* The actor keeps its Match and has it in hand.
AtWork ==
  {"playing", "batch", "flush", "flushing", "finish", "finalizing", "post"}

LEMMA WorkGoesOn ==
  ASSUME RoomInv, room' \in Room, room.pc \in AtWork, room'.pc \in AtWork, room'.m = room.m
  PROVE  RoomInv'
BY DEF RoomInv, AtWork

LEMMA EmitKeeps ==
  ASSUME ReplayInv, Emit
  PROVE  TypeOK' /\ RoomInv'
<1> USE LineNumbers DEF ReplayInv
<1>1. room \in Room /\ room.m \in Match BY DEF TypeOK, Emit, RoomInv
<1>2. room.sent + 1 \in 0 .. Total BY <1>1 DEF Emit, Room
<1>3. room' \in Room /\ room'.pc \in AtWork /\ room'.m = room.m
  BY <1>1, <1>2 DEF Emit, Room, AfterLine, AtWork
<1>4. asked' \subseteq Match /\ spawned' \subseteq Match BY <1>1 DEF Emit, TypeOK
<1>5. queue' \in Seq(Effect) /\ Len(queue') <= Capacity
  <2>1. Eff("Append", room.m, room.sent + 1) \in Effect BY <1>1, <1>2, EffectType
  <2>2. CASE Send(Eff("Append", room.m, room.sent + 1)) BY <2>1, <2>2, QueueGrows
  <2>3. CASE UNCHANGED queue BY <2>3 DEF TypeOK
  <2> QED BY <2>2, <2>3 DEF Emit
<1>6. TypeOK' BY <1>3, <1>4, <1>5, ActorType DEF Emit
<1>7. RoomInv' BY <1>3, WorkGoesOn DEF Emit, AtWork
<1> QED BY <1>6, <1>7

\* A step that loses the replay of the Match in hand and goes on with it.
LEMMA LosingKeeps ==
  ASSUME ReplayInv, Quiet, NEW pc \in AtWork, room.pc \in AtWork, FailReplay(room.m, pc),
         UNCHANGED queue
  PROVE  TypeOK' /\ RoomInv'
<1> USE DEF ReplayInv
<1>1. room.m \in Match BY DEF RoomInv, AtWork
<1>2. pc \in PC BY DEF AtWork, PC
<1>3. /\ room' \in Room /\ asked' \subseteq Match /\ spawned' \subseteq Match
      /\ room'.pc = pc /\ room'.m = room.m
  BY <1>1, <1>2, FailReplayType
<1>4. TypeOK' BY <1>3, ActorType DEF TypeOK
<1>5. RoomInv' BY <1>3, WorkGoesOn
<1> QED BY <1>4, <1>5

\* A step that sends an effect of the Match in hand and goes on with it.
LEMMA SendingKeeps ==
  ASSUME ReplayInv, Quiet, room.m \in Match, room' \in Room, RoomInv',
         NEW op \in {"Flush", "Before", "After", "Finalize", "Cleanup"}, NEW line \in 0 .. Total,
         Send(Eff(op, room.m, line)), UNCHANGED <<asked, spawned>>
  PROVE  TypeOK'
<1>1. Eff(op, room.m, line) \in Effect BY EffectType
<1>2. queue' \in Seq(Effect) /\ Len(queue') <= Capacity BY <1>1, QueueGrows DEF ReplayInv
<1> QED BY <1>2, ActorType DEF ReplayInv, TypeOK

\* A step of the actor alone.
LEMMA AloneKeeps ==
  ASSUME ReplayInv, Quiet, room' \in Room, UNCHANGED <<asked, spawned, queue>>
  PROVE  TypeOK'
BY ActorType DEF ReplayInv, TypeOK

LEMMA FlushKeeps ==
  ASSUME ReplayInv, Flush \/ Flushed
  PROVE  TypeOK' /\ RoomInv'
<1> USE LineNumbers DEF ReplayInv
<1>1. room \in Room /\ room.m \in Match /\ room.pc \in AtWork
  BY DEF TypeOK, Flush, Flushed, RoomInv, AtWork
<1>2. Quiet BY DEF Flush, Flushed
<1>3. CASE /\ Send(Eff("Flush", room.m, room.sent))
           /\ room' = [room EXCEPT !.pc = "flushing"] /\ UNCHANGED <<asked, spawned>>
  <2>1. room' \in Room /\ room'.pc \in AtWork /\ room'.m = room.m /\ room.sent \in 0 .. Total
    BY <1>1, <1>3 DEF Room, AtWork
  <2>2. RoomInv' BY <1>1, <2>1, WorkGoesOn
  <2> QED BY <1>1, <1>2, <1>3, <2>1, <2>2, SendingKeeps
<1>4. CASE /\ room' = [room EXCEPT !.pc = "batch", !.reply = "none"]
           /\ UNCHANGED <<asked, spawned, queue>>
  <2>1. room' \in Room /\ room'.pc \in AtWork /\ room'.m = room.m
    BY <1>1, <1>4 DEF Room, AtWork
  <2> QED BY <1>1, <1>2, <1>4, <2>1, WorkGoesOn, AloneKeeps
<1>5. CASE FailReplay(room.m, "batch") /\ UNCHANGED queue
  <2>1. "batch" \in AtWork BY DEF AtWork
  <2> QED BY <1>1, <1>2, <1>5, <2>1, LosingKeeps
<1> QED BY <1>3, <1>4, <1>5 DEF Flush, Flushed

LEMMA MarkKeeps ==
  ASSUME ReplayInv, Mark
  PROVE  TypeOK' /\ RoomInv'
<1> USE LineNumbers DEF ReplayInv
<1>1. room \in Room /\ room.m \in Match /\ room.pc = "playing" /\ Quiet
  BY DEF TypeOK, Mark, RoomInv
<1>2. room.pc \in AtWork /\ "playing" \in AtWork BY <1>1 DEF AtWork
<1>3. PICK op \in {"Before", "After"} :
        \/ Send(Eff(op, room.m, 0)) /\ UNCHANGED roomVars
        \/ ~HasRoom /\ FailReplay(room.m, "playing") /\ UNCHANGED queue
  BY DEF Mark
<1>4. CASE Send(Eff(op, room.m, 0)) /\ UNCHANGED roomVars
  <2>1. room' \in Room /\ RoomInv' BY <1>1, <1>4 DEF roomVars, RoomInv
  <2>2. UNCHANGED <<asked, spawned>> BY <1>4 DEF roomVars
  <2>3. op \in {"Flush", "Before", "After", "Finalize", "Cleanup"} OBVIOUS
  <2> QED BY <1>1, <1>4, <2>1, <2>2, <2>3, SendingKeeps
<1>5. CASE FailReplay(room.m, "playing") /\ UNCHANGED queue
  BY <1>1, <1>2, <1>5, LosingKeeps
<1> QED BY <1>3, <1>4, <1>5

LEMMA FinishKeeps ==
  ASSUME ReplayInv, Finish \/ Finalize \/ Finalized
  PROVE  TypeOK' /\ RoomInv'
<1> USE LineNumbers DEF ReplayInv
<1>1. room \in Room /\ room.m \in Match /\ room.pc \in AtWork
  BY DEF TypeOK, Finish, Finalize, Finalized, RoomInv, AtWork
<1>2. Quiet BY DEF Finish, Finalize, Finalized
<1>3. CASE Finish
  <2>1. room' \in Room /\ room'.pc \in AtWork /\ room'.m = room.m
    BY <1>1, <1>3 DEF Finish, Room, AtWork
  <2> QED BY <1>1, <1>2, <1>3, <2>1, WorkGoesOn, AloneKeeps DEF Finish
<1>4. CASE Finalize
  <2>1. room' \in Room /\ room'.pc \in AtWork /\ room'.m = room.m
    BY <1>1, <1>4 DEF Finalize, Room, AtWork
  <2>2. RoomInv' BY <1>1, <2>1, WorkGoesOn
  <2>3. Send(Eff("Finalize", room.m, 0)) /\ UNCHANGED <<asked, spawned>> BY <1>4 DEF Finalize
  <2> QED BY <1>1, <1>2, <2>1, <2>2, <2>3, SendingKeeps
<1>5. CASE Finalized
  <2>1. CASE room' = [room EXCEPT !.pc = "post", !.reply = "none"] /\ UNCHANGED <<asked, spawned>>
    <3>1. room' \in Room /\ room'.pc \in AtWork /\ room'.m = room.m
      BY <1>1, <2>1 DEF Room, AtWork
    <3> QED BY <1>1, <1>2, <1>5, <2>1, <3>1, WorkGoesOn, AloneKeeps DEF Finalized
  <2>2. CASE FailReplay(room.m, "post")
    <3>1. "post" \in AtWork /\ UNCHANGED queue BY <1>5 DEF AtWork, Finalized
    <3> QED BY <1>1, <1>2, <2>2, <3>1, LosingKeeps
  <2> QED BY <1>5, <2>1, <2>2 DEF Finalized
<1> QED BY <1>3, <1>4, <1>5

LEMMA AbortKeeps ==
  ASSUME ReplayInv, Abort \/ CleanUp \/ CleanedUp
  PROVE  TypeOK' /\ RoomInv'
<1> USE LineNumbers DEF ReplayInv
<1>1. room \in Room /\ room.m \in Match
  BY DEF TypeOK, Abort, CleanUp, CleanedUp, RoomInv
<1>2. CASE Abort
  <2>1. room' \in Room /\ RoomInv' BY <1>1, <1>2 DEF Abort, Room, RoomInv
  <2> QED BY <1>2, <2>1, AloneKeeps DEF Abort
<1>3. CASE CleanUp
  <2>1. room' \in Room BY <1>1, <1>3 DEF CleanUp, Room
  <2>2. RoomInv' BY <1>1, <1>3, <2>1 DEF CleanUp, RoomInv, Room
  <2>3. CASE Send(Eff("Cleanup", room.m, 0))
    BY <1>1, <1>3, <2>1, <2>2, <2>3, SendingKeeps DEF CleanUp
  <2>4. CASE UNCHANGED queue
    BY <1>3, <2>1, <2>2, <2>4, AloneKeeps DEF CleanUp
  <2> QED BY <1>3, <2>3, <2>4 DEF CleanUp
<1>4. CASE CleanedUp
  <2>1. room' \in Room BY <1>1, <1>4 DEF CleanedUp, Room
  <2>2. RoomInv' BY <1>1, <1>4, <2>1 DEF CleanedUp, RoomInv, Room
  <2> QED BY <1>4, <2>1, <2>2, AloneKeeps DEF CleanedUp
<1> QED BY <1>2, <1>3, <1>4

LEMMA LobbyKeeps ==
  ASSUME ReplayInv, BackToLobby \/ Configure \/ Close
  PROVE  TypeOK' /\ RoomInv'
<1> USE DEF ReplayInv
<1>1. room \in Room BY DEF TypeOK
<1>2. room' \in Room BY <1>1 DEF BackToLobby, Configure, Close, Room
<1>3. RoomInv' BY <1>1 DEF BackToLobby, Configure, Close, RoomInv, Room
<1> QED BY <1>2, <1>3, AloneKeeps DEF BackToLobby, Configure, Close

LEMMA HearKeeps ==
  ASSUME ReplayInv, NEW m \in Match, HearFailure(m)
  PROVE  TypeOK' /\ RoomInv'
<1> USE DEF ReplayInv
<1>1. room \in Room /\ room.pc \in PC BY DEF TypeOK, Room, PC
<1>2. room' \in Room /\ asked' \subseteq Match /\ spawned' \subseteq Match /\ RoomInv'
  <2>1. CASE room.m = m
    <3>1. FailReplay(m, room.pc) BY <2>1 DEF HearFailure
    <3>2. /\ room' \in Room /\ asked' \subseteq Match /\ spawned' \subseteq Match
          /\ room'.pc = room.pc /\ room'.m = room.m /\ room'.next = room.next
          /\ room'.home = room.home
      BY <1>1, <3>1, FailReplayType
    <3>3. RoomInv' BY <3>2 DEF RoomInv
    <3> QED BY <3>2, <3>3
  <2>2. CASE room.m # m
    BY <2>2, <1>1 DEF HearFailure, roomVars, TypeOK, RoomInv
  <2> QED BY <2>1, <2>2
<1> QED BY <1>2 DEF HearFailure, TypeOK

LEMMA SendDeletionKeeps ==
  ASSUME ReplayInv, NEW m \in Match, SendDeletion(m)
  PROVE  TypeOK' /\ RoomInv'
<1> USE LineNumbers DEF ReplayInv
<1>1. Eff("Delete", m, 0) \in Effect BY EffectType
<1>2. queue' \in Seq(Effect) /\ Len(queue') <= Capacity
  BY <1>1, QueueGrows DEF SendDeletion
<1>3. TypeOK' BY <1>2, ActorType DEF SendDeletion, TypeOK
<1>4. RoomInv' BY DEF SendDeletion, RoomInv
<1> QED BY <1>3, <1>4

LEMMA ActorKeeps ==
  ASSUME ReplayInv, ActorStep
  PROVE  ReplayInv'
<1>1. TypeOK' /\ RoomInv'
  BY StartKeeps, OpenedKeeps, EmitKeeps, FlushKeeps, MarkKeeps, FinishKeeps, AbortKeeps,
     LobbyKeeps, HearKeeps, SendDeletionKeeps DEF ActorStep
<1>2. Idling /\ process = "up"
  BY DEF ActorStep, Idling, Quiet, Listening, Start, Opened, Emit, Flush, Flushed, Mark, Finish,
     Finalize, Finalized, Abort, CleanUp, CleanedUp, BackToLobby, Configure, Close, HearFailure,
     SendDeletion
<1>3. Steady' BY <1>2, IdlingKeeps DEF ReplayInv, Steady
<1> QED BY <1>1, <1>3 DEF ReplayInv, Steady

-----------------------------------------------------------------------------
(* The worker: it changes nothing of the Room but the answer it waits for *)

LEMMA AnswerKeeps ==
  ASSUME TypeOK, RoomInv, NEW r \in {"ok", "err"}, room' \in {room, [room EXCEPT !.reply = r]}
  PROVE  room' \in Room /\ RoomInv'
<1>1. CASE room' = room BY <1>1 DEF TypeOK, RoomInv
<1>2. CASE room' = [room EXCEPT !.reply = r]
  <2>1. room' \in Room BY <1>2 DEF TypeOK, Room
  <2>2. /\ room'.pc = room.pc /\ room'.m = room.m /\ room'.next = room.next
        /\ room'.home = room.home
    BY <1>2 DEF TypeOK, Room
  <2> QED BY <2>1, <2>2 DEF RoomInv
<1> QED BY <1>1, <1>2

LEMMA AnsweredKeeps ==
  ASSUME TypeOK, RoomInv, NEW op, NEW m, NEW r \in {"ok", "err"}, Answer(op, m, r)
  PROVE  room' \in Room /\ RoomInv'
BY AnswerKeeps DEF Answer

LEMMA SameRoom ==
  ASSUME TypeOK, RoomInv, room' = room
  PROVE  room' \in Room /\ RoomInv'
BY DEF TypeOK, RoomInv

LEMMA DoneKeeps ==
  ASSUME TypeOK, RoomInv, NEW ok, Done(ok)
  PROVE  room' \in Room /\ RoomInv' /\ job' = Idle
<1>1. (IF ok THEN "ok" ELSE "err") \in {"ok", "err"} OBVIOUS
<1> QED BY <1>1, AnsweredKeeps DEF Done

LEMMA JobTypes ==
  /\ Idle \in Job
  /\ \A op \in {"Open", "Finalize", "Delete", "Cleanup"}, m \in Match, ok \in BOOLEAN :
       Erasing(op, m, ok) \in Job
BY DEF Idle, Job, Erasing

LEMMA WriterTypes ==
  ASSUME TypeOK, NEW m \in Match, NEW w \in Writer
  PROVE  [writer EXCEPT ![m] = w] \in [Match -> Writer]
BY DEF TypeOK

LEMMA TakeKeeps ==
  ASSUME TypeOK, NEW op, Take(op)
  PROVE  /\ Head(queue) \in Effect /\ Head(queue).m \in Match /\ Head(queue).op = op
         /\ queue' \in Seq(Effect) /\ Len(queue') <= Capacity /\ job = Idle /\ process = "up"
<1>1. queue # << >> /\ queue' = Tail(queue) BY DEF Take
<1> QED BY <1>1, QueueShrinks DEF Take, Effect

LEMMA FailWriterKeeps ==
  ASSUME TypeOK, NEW m \in Match, FailWriter(m)
  PROVE  /\ degraded' \in BOOLEAN /\ part' \subseteq Match
         /\ writer' \in [Match -> Writer]
         /\ row' \in [Match -> {"none", "writing", "failed", "completed"}]
         /\ \A n \in Match : writer'[n].st = "writing" => writer[n].st = "writing" /\ n # m
         /\ \A n \in Match : n # m => row'[n] = row[n]
         /\ \A n \in Match : row'[n] = "completed" <=> row[n] = "completed"
         /\ \A n \in Match : row'[n] = "none" <=> row[n] = "none"
<1>1. CASE writer[m].st = "writing"
  <2>1. degraded' = TRUE /\ part' = part \ {m} BY <1>1 DEF FailWriter
  <2>2. writer' = [writer EXCEPT ![m].st = "failed"] BY <1>1 DEF FailWriter
  <2>3. writer' \in [Match -> Writer] BY <2>2 DEF TypeOK, Writer
  <2>4. \A n \in Match : writer'[n].st = "writing" => writer[n].st = "writing" /\ n # m
    BY <2>2 DEF TypeOK, Writer
  <2>5. \/ row' = [row EXCEPT ![m] = IF @ = "writing" THEN "failed" ELSE @]
        \/ row' = row
    BY <1>1 DEF FailWriter
  <2>6. /\ row' \in [Match -> {"none", "writing", "failed", "completed"}]
        /\ \A n \in Match : n # m => row'[n] = row[n]
        /\ \A n \in Match : row'[n] = "completed" <=> row[n] = "completed"
        /\ \A n \in Match : row'[n] = "none" <=> row[n] = "none"
    BY <2>5 DEF TypeOK
  <2> QED BY <2>1, <2>3, <2>4, <2>6 DEF TypeOK
<1>2. CASE writer[m].st # "writing"
  <2>1. degraded' = TRUE /\ UNCHANGED <<writer, part, row>> BY <1>2 DEF FailWriter
  <2> QED BY <1>2, <2>1 DEF TypeOK
<1> QED BY <1>1, <1>2

\* A step that ends with a failed writer keeps what holds of the disk.
LEMMA FailingKeeps ==
  ASSUME ReplayInv, NEW m \in Match, FailWriter(m), job = Idle, process = "up",
         UNCHANGED <<process, job, file, records, doomed>>
  PROVE  Steady'
<1> USE DEF ReplayInv
<1>1. /\ \A n \in Match : writer'[n].st = "writing" => writer[n].st = "writing" /\ n # m
      /\ \A n \in Match : n # m => row'[n] = row[n]
      /\ \A n \in Match : row'[n] = "completed" <=> row[n] = "completed"
      /\ \A n \in Match : row'[n] = "none" <=> row[n] = "none"
  BY FailWriterKeeps
<1>2. WorkInv' BY <1>1 DEF WorkInv, Idle
<1>3. CompletedIsWhole' BY <1>1 DEF CompletedIsWhole, Validates
<1>4. NoOrphanFile' BY <1>1 DEF NoOrphanFile
<1> QED BY <1>2, <1>3, <1>4 DEF Steady

LEMMA OpenPartKeeps ==
  ASSUME ReplayInv, OpenPart
  PROVE  ReplayInv'
<1> USE DEF ReplayInv
<1> DEFINE m == Head(queue).m
<1>1. /\ m \in Match /\ queue' \in Seq(Effect) /\ Len(queue') <= Capacity
      /\ job = Idle /\ process = "up"
  BY TakeKeeps DEF OpenPart
<1>2. room' \in Room /\ RoomInv' BY AnsweredKeeps, SameRoom DEF OpenPart
<1>3. part' \subseteq Match /\ degraded' \in BOOLEAN BY <1>1 DEF OpenPart, TypeOK
<1>4. job' \in {job, [at |-> "insert", op |-> "Open", m |-> m, ok |-> TRUE]}
  BY DEF OpenPart
<1>5. job' \in Job
  <2>1. [at |-> "insert", op |-> "Open", m |-> m, ok |-> TRUE] \in Job BY <1>1 DEF Job
  <2> QED BY <1>4, <2>1 DEF TypeOK
<1>6. TypeOK' BY <1>1, <1>2, <1>3, <1>5 DEF OpenPart, TypeOK
<1>7. Steady'
  <2>1. WorkInv' BY <1>1, <1>4 DEF OpenPart, WorkInv, Idle, Unfinished
  <2>2. CompletedIsWhole' BY DEF OpenPart, CompletedIsWhole, Validates
  <2>3. NoOrphanFile' BY DEF OpenPart, NoOrphanFile
  <2> QED BY <2>1, <2>2, <2>3 DEF Steady
<1> QED BY <1>2, <1>6, <1>7 DEF Steady

LEMMA InsertRowKeeps ==
  ASSUME ReplayInv, InsertRow
  PROVE  ReplayInv'
<1> USE DEF ReplayInv
<1> DEFINE m == job.m
<1>1. m \in Match /\ process = "up" /\ job.at = "insert" BY DEF InsertRow, WorkInv
<1>2. room' \in Room /\ RoomInv' BY AnsweredKeeps DEF InsertRow
<1>3. job' = Idle /\ job' \in Job BY JobTypes DEF InsertRow
<1>4. CASE /\ row[m] = "none"
           /\ row' = [row EXCEPT ![m] = "writing"]
           /\ writer' = [writer EXCEPT ![m] = [st |-> "writing", lines |-> 1, ahead |-> FALSE]]
           /\ UNCHANGED <<part, degraded>>
  <2>1. [st |-> "writing", lines |-> 1, ahead |-> FALSE] \in Writer BY DEF Writer
  <2>2. writer' \in [Match -> Writer] BY <1>1, <1>4, <2>1, WriterTypes
  <2>3. TypeOK' BY <1>2, <1>3, <1>4, <2>2 DEF InsertRow, TypeOK
  <2>4. WorkInv' BY <1>1, <1>3, <1>4 DEF InsertRow, WorkInv, TypeOK, Idle
  <2>5. CompletedIsWhole' BY <1>4 DEF InsertRow, CompletedIsWhole, Validates, TypeOK
  <2>6. NoOrphanFile' BY <1>4 DEF InsertRow, NoOrphanFile, TypeOK
  <2> QED BY <1>2, <2>3, <2>4, <2>5, <2>6
<1>5. CASE part' = part \ {m} /\ degraded' = TRUE /\ UNCHANGED <<row, writer>>
  <2>1. TypeOK' BY <1>2, <1>3, <1>5 DEF InsertRow, TypeOK
  <2>2. WorkInv' BY <1>1, <1>3, <1>5 DEF InsertRow, WorkInv, Idle
  <2>3. CompletedIsWhole' BY <1>5 DEF InsertRow, CompletedIsWhole, Validates
  <2>4. NoOrphanFile' BY <1>5 DEF InsertRow, NoOrphanFile
  <2> QED BY <1>2, <2>1, <2>2, <2>3, <2>4
<1> QED BY <1>4, <1>5 DEF InsertRow

LEMMA AppendLineKeeps ==
  ASSUME ReplayInv, AppendLine
  PROVE  ReplayInv'
<1> USE DEF ReplayInv
<1> DEFINE m == Head(queue).m
<1>1. /\ m \in Match /\ queue' \in Seq(Effect) /\ Len(queue') <= Capacity
      /\ job = Idle /\ process = "up"
  BY TakeKeeps DEF AppendLine
<1>2. room' \in Room /\ RoomInv' BY SameRoom DEF AppendLine
<1>3. CASE /\ writer[m].st = "writing"
           /\ writer' = [writer EXCEPT ![m] = [st |-> "writing", lines |-> @.lines + 1, ahead |-> FALSE]]
           /\ UNCHANGED <<part, row, degraded, failures>>
  <2>1. /\ writer' \in [Match -> Writer]
        /\ \A n \in Match : writer'[n].st = writer[n].st
    <3> DEFINE w == [st |-> "writing", lines |-> writer[m].lines + 1, ahead |-> FALSE]
    <3>1. writer[m] \in Writer BY <1>1 DEF TypeOK
    <3>2. w \in Writer /\ w.st = writer[m].st BY <1>3, <3>1 DEF Writer
    <3>3. writer' = [writer EXCEPT ![m] = w] BY <1>1, <1>3 DEF TypeOK
    <3> HIDE DEF w
    <3> QED BY <1>1, <3>2, <3>3 DEF TypeOK
  <2>2. TypeOK' BY <1>1, <1>2, <1>3, <2>1 DEF AppendLine, TypeOK
  <2>3. WorkInv' BY <1>1, <1>3, <2>1 DEF AppendLine, WorkInv, Idle
  <2>4. CompletedIsWhole' BY <1>3 DEF AppendLine, CompletedIsWhole, Validates
  <2>5. NoOrphanFile' BY <1>3 DEF AppendLine, NoOrphanFile
  <2> QED BY <1>2, <2>2, <2>3, <2>4, <2>5
<1>4. CASE FailWriter(m) /\ failures' = failures \cup {m}
  <2>1. TypeOK' BY <1>1, <1>2, <1>4, FailWriterKeeps DEF AppendLine, TypeOK
  <2>2. Steady' BY <1>1, <1>4, FailingKeeps DEF AppendLine
  <2> QED BY <1>2, <2>1, <2>2 DEF Steady
<1> QED BY <1>3, <1>4 DEF AppendLine

LEMMA RecordAuxiliaryKeeps ==
  ASSUME ReplayInv, RecordAuxiliary
  PROVE  ReplayInv'
<1> USE DEF ReplayInv
<1> DEFINE m == Head(queue).m
<1>1. /\ m \in Match /\ queue' \in Seq(Effect) /\ Len(queue') <= Capacity
      /\ job = Idle /\ process = "up"
  BY TakeKeeps DEF RecordAuxiliary
<1>2. room' \in Room /\ RoomInv' BY SameRoom DEF RecordAuxiliary
<1>3. CASE /\ writer[m].st = "writing"
           /\ writer' = [writer EXCEPT ![m] =
                [st |-> "writing", lines |-> @.lines, ahead |-> @.ahead \/ Head(queue).op = "Before"]]
           /\ UNCHANGED <<part, row, degraded, failures>>
  <2>1. /\ writer' \in [Match -> Writer]
        /\ \A n \in Match : writer'[n].st = writer[n].st
    <3> DEFINE b == writer[m].ahead \/ Head(queue).op = "Before"
               w == [st |-> "writing", lines |-> writer[m].lines, ahead |-> b]
    <3>1. writer[m] \in Writer /\ b \in BOOLEAN BY <1>1 DEF TypeOK
    <3> HIDE DEF b
    <3>2. w \in Writer /\ w.st = writer[m].st BY <1>3, <3>1 DEF Writer
    <3>3. writer' = [writer EXCEPT ![m] = w] BY <1>1, <1>3 DEF TypeOK, b
    <3> HIDE DEF w
    <3> QED BY <1>1, <3>2, <3>3 DEF TypeOK
  <2>2. TypeOK' BY <1>1, <1>2, <1>3, <2>1 DEF RecordAuxiliary, TypeOK
  <2>3. WorkInv' BY <1>1, <1>3, <2>1 DEF RecordAuxiliary, WorkInv, Idle
  <2>4. CompletedIsWhole' BY <1>3 DEF RecordAuxiliary, CompletedIsWhole, Validates
  <2>5. NoOrphanFile' BY <1>3 DEF RecordAuxiliary, NoOrphanFile
  <2> QED BY <1>2, <2>2, <2>3, <2>4, <2>5
<1>4. CASE FailWriter(m) /\ failures' = failures \cup {m}
  <2>1. TypeOK' BY <1>1, <1>2, <1>4, FailWriterKeeps DEF RecordAuxiliary, TypeOK
  <2>2. Steady' BY <1>1, <1>4, FailingKeeps DEF RecordAuxiliary
  <2> QED BY <1>2, <2>1, <2>2 DEF Steady
<1> QED BY <1>3, <1>4 DEF RecordAuxiliary

LEMMA FlushKyokuKeeps ==
  ASSUME ReplayInv, FlushKyoku
  PROVE  ReplayInv'
<1> USE DEF ReplayInv
<1> DEFINE m == Head(queue).m
<1>1. /\ m \in Match /\ queue' \in Seq(Effect) /\ Len(queue') <= Capacity
      /\ job = Idle /\ process = "up"
  BY TakeKeeps DEF FlushKyoku
<1>2. room' \in Room /\ RoomInv' BY AnsweredKeeps DEF FlushKyoku
<1>3. CASE /\ writer[m].st = "writing" /\ row[m] = "writing"
           /\ records' = [records EXCEPT ![m] = @ + 1]
           /\ UNCHANGED <<writer, part, row, degraded>>
  <2>1. /\ records' \in [Match -> Nat]
        /\ \A n \in Match : n # m => records'[n] = records[n]
    BY <1>1, <1>3 DEF TypeOK
  <2>2. TypeOK' BY <1>1, <1>2, <1>3, <2>1 DEF FlushKyoku, TypeOK
  <2>3. WorkInv' BY <1>1, <1>3 DEF FlushKyoku, WorkInv, Idle
  <2>4. CompletedIsWhole' BY <1>3, <2>1 DEF FlushKyoku, CompletedIsWhole, Validates
  <2>5. NoOrphanFile' BY <1>3 DEF FlushKyoku, NoOrphanFile
  <2> QED BY <1>2, <2>2, <2>3, <2>4, <2>5
<1>4. CASE FailWriter(m) /\ UNCHANGED records
  <2>1. TypeOK' BY <1>1, <1>2, <1>4, FailWriterKeeps DEF FlushKyoku, TypeOK
  <2>2. Steady' BY <1>1, <1>4, FailingKeeps DEF FlushKyoku
  <2> QED BY <1>2, <2>1, <2>2 DEF Steady
<1> QED BY <1>3, <1>4 DEF FlushKyoku, PersistKyokuRecord

LEMMA FinalizeFileKeeps ==
  ASSUME ReplayInv, FinalizeFile
  PROVE  ReplayInv'
<1> USE DEF ReplayInv
<1> DEFINE m == Head(queue).m
           w == writer[m]
<1>1. /\ m \in Match /\ queue' \in Seq(Effect) /\ Len(queue') <= Capacity
      /\ job = Idle /\ process = "up"
  BY TakeKeeps DEF FinalizeFile
<1>2. room' \in Room /\ RoomInv' BY AnsweredKeeps, SameRoom DEF FinalizeFile
<1>3. writer' = [writer EXCEPT ![m] = NoWriter] BY DEF FinalizeFile
<1>4. /\ writer' \in [Match -> Writer] /\ writer'[m].st = "none"
      /\ \A n \in Match : n # m => writer'[n] = writer[n]
  <2>1. NoWriter \in Writer /\ NoWriter.st = "none" BY DEF NoWriter, Writer
  <2> QED BY <1>1, <1>3, <2>1 DEF TypeOK
<1>5. /\ file' \in [Match -> Nat]
      /\ \A n \in Match : n # m => file'[n] = file[n]
      /\ w.st # "writing" => file'[m] = file[m]
  <2>1. w.lines \in Nat BY <1>1 DEF TypeOK, Writer
  <2>2. \/ file' = file
        \/ w.st = "writing" /\ file' = [file EXCEPT ![m] = w.lines]
    BY DEF FinalizeFile
  <2> QED BY <1>1, <2>1, <2>2 DEF TypeOK
<1>6. /\ row' \in [Match -> {"none", "writing", "failed", "completed"}]
      /\ \A n \in Match : n # m => row'[n] = row[n]
      /\ \A n \in Match : row'[n] = "completed" <=> row[n] = "completed"
      /\ \A n \in Match : row'[n] = "none" <=> row[n] = "none"
  <2>1. row' = row \/ MarkFailed(m) BY DEF FinalizeFile
  <2>2. row' = row \/ row' = [row EXCEPT ![m] = IF @ = "writing" THEN "failed" ELSE @]
    BY <2>1 DEF MarkFailed
  <2> QED BY <2>2 DEF TypeOK
<1>7. /\ job' \in Job /\ job'.at \in {"idle", "commit", "erase"}
      /\ job' = Idle \/ job'.m = m
  <2>1. [at |-> "commit", op |-> "Finalize", m |-> m, ok |-> TRUE] \in Job BY <1>1 DEF Job
  <2>2. Erasing("Finalize", m, FALSE) \in Job BY <1>1, JobTypes
  <2>3. \/ job' = Idle
        \/ job' = [at |-> "commit", op |-> "Finalize", m |-> m, ok |-> TRUE]
        \/ job' = Erasing("Finalize", m, FALSE)
    BY <1>1 DEF FinalizeFile
  <2>4. CASE job' = Idle BY <2>4, JobTypes DEF Idle
  <2>5. CASE job' = [at |-> "commit", op |-> "Finalize", m |-> m, ok |-> TRUE]
    BY <2>1, <2>5
  <2>6. CASE job' = Erasing("Finalize", m, FALSE) BY <2>2, <2>6 DEF Erasing
  <2> QED BY <2>3, <2>4, <2>5, <2>6
<1>8. TypeOK'
  <2>1. part' \subseteq Match /\ degraded' \in BOOLEAN BY DEF FinalizeFile, TypeOK
  <2> QED BY <1>1, <1>2, <1>4, <1>5, <1>6, <1>7, <2>1 DEF FinalizeFile, TypeOK
<1>9. w.st = "writing" => row[m] = "writing" BY <1>1 DEF WorkInv
<1>10. WorkInv'
  <2>1. \A n \in Match : writer'[n].st = "writing" => row'[n] = "writing"
    BY <1>4, <1>6 DEF WorkInv
  <2>2. job'.at # "idle" => job'.m = m
    BY <1>7 DEF Idle
  <2>3. \A n \in Match : doomed'[n] = "file" => row'[n] = "completed" /\ file'[n] = 0
    BY <1>1, <1>5, <1>6, <1>9 DEF FinalizeFile, WorkInv
  <2>4. process' = "up" BY <1>1 DEF FinalizeFile
  <2> QED BY <1>1, <1>4, <1>7, <2>1, <2>2, <2>3, <2>4 DEF WorkInv
<1>11. CompletedIsWhole'
  BY <1>1, <1>5, <1>6, <1>9 DEF FinalizeFile, CompletedIsWhole, Validates
<1>12. NoOrphanFile'
  BY <1>1, <1>5, <1>6, <1>9 DEF NoOrphanFile
<1> QED BY <1>2, <1>8, <1>10, <1>11, <1>12

LEMMA CompleteRowKeeps ==
  ASSUME ReplayInv, CompleteRow
  PROVE  ReplayInv'
<1> USE DEF ReplayInv
<1> DEFINE m == job.m
<1>1. /\ m \in Match /\ process = "up" /\ job.at = "commit" /\ writer[m].st = "none"
  BY DEF CompleteRow, WorkInv
<1>2. room' \in Room /\ RoomInv' BY AnsweredKeeps, SameRoom DEF CompleteRow
<1>3. CASE /\ row[m] = "writing" /\ Validates(m) /\ job' = Idle
           /\ row' = [row EXCEPT ![m] = "completed"] /\ UNCHANGED degraded
  <2>1. TypeOK' BY <1>1, <1>2, <1>3, JobTypes DEF CompleteRow, TypeOK
  <2>2. WorkInv' BY <1>1, <1>3 DEF CompleteRow, WorkInv, Idle, TypeOK
  <2>3. CompletedIsWhole' BY <1>1, <1>3 DEF CompleteRow, CompletedIsWhole, Validates, TypeOK
  <2>4. NoOrphanFile' BY <1>1, <1>3 DEF CompleteRow, NoOrphanFile, TypeOK
  <2> QED BY <1>2, <2>1, <2>2, <2>3, <2>4
<1>4. CASE /\ degraded' = TRUE /\ MarkFailed(m) /\ job' = Erasing("Finalize", m, FALSE)
  <2>1. /\ row' \in [Match -> {"none", "writing", "failed", "completed"}]
        /\ \A n \in Match : n # m => row'[n] = row[n]
        /\ \A n \in Match : row'[n] = "completed" <=> row[n] = "completed"
        /\ \A n \in Match : row'[n] = "none" <=> row[n] = "none"
    BY <1>4 DEF MarkFailed, TypeOK
  <2>2. job' \in Job /\ job'.at = "erase" /\ job'.m = m
    BY <1>1, <1>4, JobTypes DEF Erasing
  <2>3. TypeOK' BY <1>2, <1>4, <2>1, <2>2 DEF CompleteRow, TypeOK
  <2>4. WorkInv' BY <1>1, <2>1, <2>2 DEF CompleteRow, WorkInv
  <2>5. CompletedIsWhole' BY <2>1 DEF CompleteRow, CompletedIsWhole, Validates
  <2>6. NoOrphanFile' BY <2>1 DEF CompleteRow, NoOrphanFile
  <2> QED BY <1>2, <2>3, <2>4, <2>5, <2>6
<1> QED BY <1>3, <1>4 DEF CompleteRow

\* Taking up the deletion of Match m: its writer is dropped.
LEMMA DroppingKeeps ==
  ASSUME ReplayInv, NEW m \in Match, NEW op \in {"Delete", "Cleanup"}, process = "up",
         writer' = [writer EXCEPT ![m] = NoWriter],
         part' = IF writer[m].st = "writing" THEN part \ {m} ELSE part,
         job' = Erasing(op, m, TRUE),
         UNCHANGED <<process, room, asked, spawned, failures, file, row, records, degraded, doomed>>,
         queue' \in Seq(Effect), Len(queue') <= Capacity
  PROVE  ReplayInv'
<1> USE DEF ReplayInv
<1>1. /\ writer' \in [Match -> Writer] /\ writer'[m].st = "none"
      /\ \A n \in Match : n # m => writer'[n] = writer[n]
  <2>1. NoWriter \in Writer /\ NoWriter.st = "none" BY DEF NoWriter, Writer
  <2> QED BY <2>1 DEF TypeOK
<1>2. job' \in Job /\ job'.at = "erase" /\ job'.m = m
  BY JobTypes DEF Erasing
<1>3. RoomInv' BY DEF RoomInv
<1>4. TypeOK' BY <1>1, <1>2 DEF TypeOK
<1>5. WorkInv' BY <1>1, <1>2 DEF WorkInv, Unfinished
<1>6. CompletedIsWhole' BY DEF CompletedIsWhole, Validates
<1>7. NoOrphanFile' BY DEF NoOrphanFile
<1> QED BY <1>3, <1>4, <1>5, <1>6, <1>7

LEMMA DeleteKeeps ==
  ASSUME ReplayInv, Delete \/ \E m \in Match : DropOpen(m)
  PROVE  ReplayInv'
<1> USE DEF ReplayInv
<1>1. CASE Delete
  <2>1. PICK op \in {"Delete", "Cleanup"} : Take(op) BY <1>1 DEF Delete
  <2>2. /\ Head(queue).m \in Match /\ Head(queue).op = op /\ process = "up"
        /\ queue' \in Seq(Effect) /\ Len(queue') <= Capacity
    BY <2>1, TakeKeeps
  <2> QED BY <1>1, <2>2, DroppingKeeps DEF Delete
<1>2. CASE \E m \in Match : DropOpen(m)
  <2>1. PICK m \in Match : DropOpen(m) BY <1>2
  <2>2. queue' \in Seq(Effect) /\ Len(queue') <= Capacity BY <2>1 DEF DropOpen, TypeOK
  <2> QED BY <2>1, <2>2, DroppingKeeps DEF DropOpen
<1> QED BY <1>1, <1>2

LEMMA EraseFilesKeeps ==
  ASSUME ReplayInv, EraseFiles
  PROVE  ReplayInv'
<1> USE DEF ReplayInv
<1> DEFINE m == job.m
<1>1. /\ m \in Match /\ process = "up" /\ job.at = "erase" /\ writer[m].st = "none"
  BY DEF EraseFiles, WorkInv
<1>2. room' \in Room /\ RoomInv' BY DoneKeeps, SameRoom DEF EraseFiles
<1>3. CASE job' = Idle /\ UNCHANGED <<part, file>>
  <2>0. degraded' \in BOOLEAN BY DEF EraseFiles, TypeOK
  <2>1. TypeOK' BY <1>2, <1>3, <2>0, JobTypes DEF EraseFiles, TypeOK
  <2>2. WorkInv' BY <1>1, <1>3 DEF EraseFiles, WorkInv, Idle
  <2>3. CompletedIsWhole' BY <1>3 DEF EraseFiles, CompletedIsWhole, Validates
  <2>4. NoOrphanFile' BY <1>3 DEF EraseFiles, NoOrphanFile
  <2> QED BY <1>2, <2>1, <2>2, <2>3, <2>4
<1>4. CASE /\ m \in Unfinished /\ part' = part \ {m} /\ file' = [file EXCEPT ![m] = 0]
           /\ job' = [job EXCEPT !.at = "unrow"] /\ UNCHANGED <<room, degraded>>
  <2>1. /\ file' \in [Match -> Nat] /\ file'[m] = 0
        /\ \A n \in Match : n # m => file'[n] = file[n]
    BY <1>1, <1>4 DEF TypeOK
  <2>2. job' \in Job /\ job'.at = "unrow" /\ job'.m = m
    BY <1>4 DEF TypeOK, Job
  <2>3. row[m] # "completed" /\ row[m] # "none" BY <1>4 DEF Unfinished
  <2>4. TypeOK' BY <1>2, <1>4, <2>1, <2>2 DEF EraseFiles, TypeOK
  <2>5. WorkInv' BY <1>1, <1>4, <2>1, <2>2 DEF EraseFiles, WorkInv, Unfinished
  <2>6. CompletedIsWhole' BY <2>1, <2>3 DEF EraseFiles, CompletedIsWhole, Validates
  <2>7. NoOrphanFile' BY <2>1 DEF EraseFiles, NoOrphanFile
  <2> QED BY <1>2, <2>4, <2>5, <2>6, <2>7
<1> QED BY <1>3, <1>4, DoneKeeps DEF EraseFiles

LEMMA EraseRowKeeps ==
  ASSUME ReplayInv, EraseRow
  PROVE  ReplayInv'
<1> USE DEF ReplayInv
<1> DEFINE m == job.m
<1>1. /\ m \in Match /\ process = "up" /\ writer[m].st = "none"
      /\ m \in Unfinished /\ file[m] = 0
  BY DEF EraseRow, WorkInv
<1>2. room' \in Room /\ RoomInv' /\ job' = Idle /\ job' \in Job
  BY DoneKeeps, JobTypes DEF EraseRow
<1>3. degraded' \in BOOLEAN BY DEF EraseRow, TypeOK
<1>4. \/ /\ row' = [row EXCEPT ![m] = "none"] /\ records' = [records EXCEPT ![m] = 0]
      \/ UNCHANGED <<row, records>>
  BY DEF EraseRow
<1>5. /\ row' \in [Match -> {"none", "writing", "failed", "completed"}]
      /\ records' \in [Match -> Nat]
      /\ row'[m] # "completed"
      /\ \A n \in Match : n # m => row'[n] = row[n] /\ records'[n] = records[n]
  <2>1. CASE row' = [row EXCEPT ![m] = "none"] /\ records' = [records EXCEPT ![m] = 0]
    BY <1>1, <2>1 DEF TypeOK
  <2>2. CASE UNCHANGED <<row, records>> BY <1>1, <2>2 DEF TypeOK, Unfinished
  <2> QED BY <1>4, <2>1, <2>2
<1>6. TypeOK' BY <1>2, <1>3, <1>5 DEF EraseRow, TypeOK
<1>7. WorkInv'
  <2>1. doomed[m] # "file" BY <1>1 DEF WorkInv, Unfinished
  <2> QED BY <1>1, <1>2, <1>5, <2>1 DEF EraseRow, WorkInv, Idle
<1>8. CompletedIsWhole' BY <1>5 DEF EraseRow, CompletedIsWhole, Validates
<1>9. NoOrphanFile' BY <1>1, <1>5 DEF EraseRow, NoOrphanFile
<1> QED BY <1>2, <1>6, <1>7, <1>8, <1>9

LEMMA WorkerKeeps ==
  ASSUME ReplayInv, WorkerStep
  PROVE  ReplayInv'
BY OpenPartKeeps, InsertRowKeeps, AppendLineKeeps, RecordAuxiliaryKeeps, FlushKyokuKeeps,
   FinalizeFileKeeps, CompleteRowKeeps, DeleteKeeps, EraseFilesKeeps, EraseRowKeeps DEF WorkerStep

-----------------------------------------------------------------------------
(* The Admin and the process *)

LEMMA AdminKeeps ==
  ASSUME ReplayInv, AdminStep
  PROVE  ReplayInv'
<1> USE DEF ReplayInv
<1>1. PICK m \in Match : RemoveFile(m) \/ DeleteRow(m) BY DEF AdminStep
<1>2. row[m] = "completed" /\ process = "up" BY <1>1 DEF RemoveFile, DeleteRow
<1>3. ~(job.at = "unrow" /\ job.m = m) /\ writer[m].st # "writing"
  BY <1>2 DEF WorkInv, Unfinished
<1>4. RoomInv' BY <1>1 DEF RemoveFile, DeleteRow, RoomInv
<1>5. CASE RemoveFile(m)
  <2>1. TypeOK' BY <1>5 DEF RemoveFile, TypeOK
  <2>2. WorkInv' BY <1>2, <1>3, <1>5 DEF RemoveFile, WorkInv, TypeOK, Unfinished
  <2>3. CompletedIsWhole' BY <1>5 DEF RemoveFile, CompletedIsWhole, Validates, TypeOK
  <2>4. NoOrphanFile' BY <1>5 DEF RemoveFile, NoOrphanFile, TypeOK
  <2> QED BY <1>4, <2>1, <2>2, <2>3, <2>4
<1>6. CASE DeleteRow(m)
  <2>0. file[m] = 0 BY <1>6 DEF DeleteRow, WorkInv
  <2>1. TypeOK' BY <1>6 DEF DeleteRow, TypeOK
  <2>2. WorkInv' BY <1>2, <1>3, <1>6 DEF DeleteRow, WorkInv, TypeOK, Unfinished
  <2>3. CompletedIsWhole' BY <1>6 DEF DeleteRow, CompletedIsWhole, Validates, TypeOK
  <2>4. NoOrphanFile' BY <1>6, <2>0 DEF DeleteRow, NoOrphanFile, TypeOK
  <2> QED BY <1>4, <2>1, <2>2, <2>3, <2>4
<1> QED BY <1>1, <1>5, <1>6

LEMMA CrashKeeps ==
  ASSUME ReplayInv, Crash
  PROVE  ReplayInv'
<1> USE DEF ReplayInv
<1>1. room' \in Room /\ RoomInv'
  <2>1. room.next \in {0} \cup Match /\ 0 \in 0 .. Total BY LineNumbers DEF TypeOK, Room
  <2>2. room' = NewRoom(room.next) BY DEF Crash
  <2> QED BY <2>1, <2>2 DEF NewRoom, Room, RoomInv
<1>2. writer' \in [Match -> Writer] /\ \A m \in Match : writer'[m].st = "none"
  BY DEF Crash, NoWriter, Writer
<1>3. queue' \in Seq(Effect) /\ Len(queue') <= Capacity
  BY BoundAssumption DEF Crash
<1>4. TypeOK' BY <1>1, <1>2, <1>3, JobTypes DEF Crash, TypeOK
<1>5. WorkInv' BY <1>2 DEF Crash, WorkInv, Idle
<1>6. CompletedIsWhole' BY DEF Crash, CompletedIsWhole, Validates
<1>7. NoOrphanFile' BY DEF Crash, NoOrphanFile
<1> QED BY <1>1, <1>4, <1>5, <1>6, <1>7

LEMMA BootKeeps ==
  ASSUME ReplayInv, Boot
  PROVE  ReplayInv'
<1> USE DEF ReplayInv
<1>1. Unfinished \subseteq Match BY DEF Unfinished
<1>2. part' \subseteq Match /\ degraded' \in BOOLEAN BY DEF Boot, TypeOK
<1>3. TypeOK' BY <1>1, <1>2 DEF Boot, TypeOK
<1>4. RoomInv' BY DEF Boot, RoomInv
<1>5. WorkInv' BY DEF Boot, WorkInv, Unfinished
<1>6. CompletedIsWhole' BY DEF Boot, CompletedIsWhole, Validates
<1>7. NoOrphanFile' BY DEF Boot, NoOrphanFile
<1> QED BY <1>3, <1>4, <1>5, <1>6, <1>7

LEMMA CleanRowKeeps ==
  ASSUME ReplayInv, NEW m \in Match, CleanRow(m)
  PROVE  ReplayInv'
<1> USE DEF ReplayInv
<1>1. /\ process = "starting" /\ job = Idle /\ \A n \in Match : writer[n].st = "none"
      /\ m \in Unfinished
  BY DEF CleanRow, WorkInv
<1>2. row[m] # "completed" /\ row[m] # "none" /\ doomed[m] # "file"
  BY <1>1 DEF WorkInv, Unfinished
<1>3. \/ /\ file' = [file EXCEPT ![m] = 0]
         /\ row' = [row EXCEPT ![m] = "none"] /\ records' = [records EXCEPT ![m] = 0]
      \/ file' = [file EXCEPT ![m] = 0] /\ UNCHANGED <<row, records>>
      \/ UNCHANGED <<file, row, records>>
  BY DEF CleanRow
<1>4. /\ file' \in [Match -> Nat] /\ records' \in [Match -> Nat]
      /\ row' \in [Match -> {"none", "writing", "failed", "completed"}]
      /\ row'[m] # "completed" /\ (file'[m] # 0 => row'[m] # "none")
      /\ \A n \in Match : n # m => file'[n] = file[n] /\ row'[n] = row[n] /\ records'[n] = records[n]
  <2>1. CASE /\ file' = [file EXCEPT ![m] = 0]
             /\ row' = [row EXCEPT ![m] = "none"] /\ records' = [records EXCEPT ![m] = 0]
    BY <2>1 DEF TypeOK
  <2>2. CASE file' = [file EXCEPT ![m] = 0] /\ UNCHANGED <<row, records>>
    BY <1>2, <2>2 DEF TypeOK
  <2>3. CASE UNCHANGED <<file, row, records>>
    BY <1>2, <2>3 DEF TypeOK
  <2> QED BY <1>3, <2>1, <2>2, <2>3
<1>5. TypeOK'
  <2>1. part' \subseteq Match /\ degraded' \in BOOLEAN /\ asked' \subseteq Match
    BY DEF CleanRow, TypeOK
  <2> QED BY <1>4, <2>1 DEF CleanRow, TypeOK
<1>6. RoomInv' BY DEF CleanRow, RoomInv
<1>7. WorkInv' BY <1>1, <1>2, <1>4 DEF CleanRow, WorkInv, Unfinished, Idle
<1>8. CompletedIsWhole' BY <1>4 DEF CleanRow, CompletedIsWhole, Validates
<1>9. NoOrphanFile' BY <1>4 DEF NoOrphanFile
<1> QED BY <1>5, <1>6, <1>7, <1>8, <1>9

LEMMA ReadyKeeps ==
  ASSUME ReplayInv, Ready
  PROVE  ReplayInv'
<1> USE DEF ReplayInv
<1>1. TypeOK' BY DEF Ready, TypeOK
<1>2. RoomInv' BY DEF Ready, RoomInv
<1>3. WorkInv' BY DEF Ready, WorkInv, Unfinished
<1>4. CompletedIsWhole' BY DEF Ready, CompletedIsWhole, Validates
<1>5. NoOrphanFile' BY DEF Ready, NoOrphanFile
<1> QED BY <1>1, <1>2, <1>3, <1>4, <1>5

-----------------------------------------------------------------------------
LEMMA InitHolds == Init => ReplayInv
<1> SUFFICES ASSUME Init PROVE ReplayInv OBVIOUS
<1>1. room \in Room /\ RoomInv BY LineNumbers DEF Init, NewRoom, Room, RoomInv
<1>2. writer \in [Match -> Writer] /\ \A m \in Match : writer[m].st = "none"
  BY DEF Init, NoWriter, Writer
<1>3. queue \in Seq(Effect) /\ Len(queue) <= Capacity BY BoundAssumption DEF Init
<1>4. TypeOK BY <1>1, <1>2, <1>3, JobTypes DEF Init, TypeOK
<1>5. WorkInv BY <1>2 DEF Init, WorkInv, Idle
<1>6. CompletedIsWhole BY DEF Init, CompletedIsWhole
<1>7. NoOrphanFile BY DEF Init, NoOrphanFile
<1> QED BY <1>1, <1>4, <1>5, <1>6, <1>7 DEF ReplayInv

LEMMA NextKeeps == ReplayInv /\ [Next]_vars => ReplayInv'
<1> SUFFICES ASSUME ReplayInv, [Next]_vars PROVE ReplayInv' OBVIOUS
<1>1. CASE ActorStep BY <1>1, ActorKeeps
<1>2. CASE WorkerStep BY <1>2, WorkerKeeps
<1>3. CASE AdminStep BY <1>3, AdminKeeps
<1>4. CASE ProcessStep
  BY <1>4, CrashKeeps, BootKeeps, ReadyKeeps, CleanRowKeeps DEF ProcessStep
<1>5. CASE UNCHANGED vars
  <2>1. TypeOK' BY <1>5 DEF ReplayInv, TypeOK, vars
  <2>2. RoomInv' BY <1>5 DEF ReplayInv, RoomInv, vars
  <2>3. Idling /\ UNCHANGED asked BY <1>5 DEF vars, Idling
  <2>4. Steady' BY <2>3, IdlingKeeps DEF ReplayInv, Steady
  <2> QED BY <2>1, <2>2, <2>4 DEF ReplayInv, Steady
<1> QED BY <1>1, <1>2, <1>3, <1>4, <1>5 DEF Next

\* The inductive invariant of the effects, for every number of Matches, lines
\* and places in the queue and every set of faults.
THEOREM EffectsInvariant == Spec => []ReplayInv
BY InitHolds, NextKeeps, PTL DEF Spec

\* A replay the database calls completed has its file, to the last line, and a
\* record of every Kyoku, whatever failed, came late or was interrupted by a
\* crash (complete_match, startup_cleanup, delete_incomplete_match).
THEOREM CompletedReplayIsWhole == Spec => []CompletedIsWhole
<1>1. ReplayInv => CompletedIsWhole BY DEF ReplayInv
<1> QED BY <1>1, EffectsInvariant, PTL

\* No finished replay file is ever without its row, so that every start of the
\* process can find it (delete_incomplete_match, delete_replay).
THEOREM NoFileWithoutRow == Spec => []NoOrphanFile
<1>1. ReplayInv => NoOrphanFile BY DEF ReplayInv
<1> QED BY <1>1, EffectsInvariant, PTL

\* Every variable of the effects keeps its type.
THEOREM TypeCorrect == Spec => []TypeOK
<1>1. ReplayInv => TypeOK BY DEF ReplayInv
<1> QED BY <1>1, EffectsInvariant, PTL

-----------------------------------------------------------------------------
(* The order of the effects *)

Lines == {"Append", "Before", "After", "Flush"}

\* An effect of one of the kinds ops, on Match m, is in the queue q.
In(q, ops, m) == \E i \in DOMAIN q : q[i].op \in ops /\ q[i].m = m

\* A Match is opened and finalized at most once, and its lines come before its
\* finalization.
InOrder(q) ==
  \A i, j \in DOMAIN q :
    q[i].m = q[j].m =>
      /\ q[i].op \in {"Open", "Finalize"} /\ q[i].op = q[j].op => i = j
      /\ q[i].op \in Lines /\ q[j].op = "Finalize" => i < j

LEMMA Grown ==
  ASSUME NEW q \in Seq(Effect), NEW e \in Effect
  PROVE  LET r == Append(q, e)
         IN  /\ \A ops, m : In(r, ops, m) <=> In(q, ops, m) \/ (e.op \in ops /\ e.m = m)
             /\ InOrder(q) /\ (e.op \in {"Open", "Finalize"} => ~In(q, {e.op}, e.m))
                           /\ (e.op \in Lines => ~In(q, {"Finalize"}, e.m))
                => InOrder(r)
<1> DEFINE r == Append(q, e)
           n == Len(q) + 1
<1>1. Len(q) \in Nat /\ DOMAIN q = 1 .. Len(q) /\ DOMAIN r = 1 .. n
  OBVIOUS
<1>2. r[n] = e /\ \A i \in DOMAIN q : r[i] = q[i]
  OBVIOUS
<1>3. DOMAIN r = DOMAIN q \cup {n} /\ \A i \in DOMAIN q : i < n
  BY <1>1
<1> HIDE DEF r, n
<1>4. \A ops, m : In(r, ops, m) <=> In(q, ops, m) \/ (e.op \in ops /\ e.m = m)
  BY <1>2, <1>3 DEF In
<1>5. ASSUME InOrder(q), e.op \in {"Open", "Finalize"} => ~In(q, {e.op}, e.m),
             e.op \in Lines => ~In(q, {"Finalize"}, e.m)
      PROVE  InOrder(r)
  <2> SUFFICES ASSUME NEW i \in DOMAIN r, NEW j \in DOMAIN r, r[i].m = r[j].m
               PROVE  /\ r[i].op \in {"Open", "Finalize"} /\ r[i].op = r[j].op => i = j
                      /\ r[i].op \in Lines /\ r[j].op = "Finalize" => i < j
    BY DEF InOrder
  <2>1. CASE i \in DOMAIN q /\ j \in DOMAIN q
    BY <1>2, <1>5, <2>1 DEF InOrder
  <2>2. CASE i = n /\ j \in DOMAIN q
    <3>1. r[i] = e /\ r[j] = q[j] /\ q[j].m = e.m
      BY <1>2, <2>2
    <3> QED
      BY <1>5, <2>2, <3>1 DEF In, Lines
  <2>3. CASE j = n /\ i \in DOMAIN q
    <3>1. r[j] = e /\ r[i] = q[i] /\ q[i].m = e.m /\ i < j
      BY <1>2, <1>3, <2>3
    <3> QED
      BY <1>5, <2>3, <3>1 DEF In
  <2>4. CASE i = n /\ j = n
    BY <1>2, <2>4 DEF Lines
  <2> QED
    BY <1>3, <2>1, <2>2, <2>3, <2>4
<1> QED
  BY <1>4, <1>5 DEF r

LEMMA Popped ==
  ASSUME NEW q \in Seq(Effect), q # << >>
  PROVE  LET e == Head(q)
             r == Tail(q)
         IN  /\ \A ops, m : In(q, ops, m) <=> In(r, ops, m) \/ (e.op \in ops /\ e.m = m)
             /\ InOrder(q) =>
                  /\ InOrder(r)
                  /\ e.op \in {"Open", "Finalize"} => ~In(r, {e.op}, e.m)
                  /\ e.op = "Finalize" => ~In(r, Lines, e.m)
<1> DEFINE e == Head(q)
           r == Tail(q)
<1>1. Len(q) \in Nat /\ Len(q) # 0 /\ DOMAIN q = 1 .. Len(q) /\ DOMAIN r = 1 .. Len(q) - 1
  OBVIOUS
<1>2. q[1] = e /\ \A i \in DOMAIN r : r[i] = q[i + 1]
  OBVIOUS
<1>3. /\ 1 \in DOMAIN q /\ \A i \in DOMAIN r : i + 1 \in DOMAIN q /\ i \in Nat /\ i # 0
      /\ \A i \in DOMAIN q : i = 1 \/ (i - 1 \in DOMAIN r /\ (i - 1) + 1 = i)
  BY <1>1
<1> HIDE DEF e, r
<1>4. ASSUME NEW ops, NEW m
      PROVE  In(q, ops, m) <=> In(r, ops, m) \/ (e.op \in ops /\ e.m = m)
  <2>1. In(q, ops, m) => In(r, ops, m) \/ (e.op \in ops /\ e.m = m)
    <3> SUFFICES ASSUME NEW i \in DOMAIN q, q[i].op \in ops, q[i].m = m, i # 1
                 PROVE  In(r, ops, m)
      BY <1>2 DEF In
    <3>1. i - 1 \in DOMAIN r /\ r[i - 1] = q[i]
      BY <1>2, <1>3
    <3> QED
      BY <3>1 DEF In
  <2>2. In(r, ops, m) \/ (e.op \in ops /\ e.m = m) => In(q, ops, m)
    BY <1>2, <1>3 DEF In
  <2> QED
    BY <2>1, <2>2
<1>5. ASSUME InOrder(q)
      PROVE  /\ InOrder(r)
             /\ e.op \in {"Open", "Finalize"} => ~In(r, {e.op}, e.m)
             /\ e.op = "Finalize" => ~In(r, Lines, e.m)
  <2>1. InOrder(r)
    <3> SUFFICES ASSUME NEW i \in DOMAIN r, NEW j \in DOMAIN r, r[i].m = r[j].m
                 PROVE  /\ r[i].op \in {"Open", "Finalize"} /\ r[i].op = r[j].op => i = j
                        /\ r[i].op \in Lines /\ r[j].op = "Finalize" => i < j
      BY DEF InOrder
    <3>1. /\ i + 1 \in DOMAIN q /\ r[i] = q[i + 1] /\ i \in Nat
          /\ j + 1 \in DOMAIN q /\ r[j] = q[j + 1] /\ j \in Nat
      BY <1>2, <1>3
    <3>2. /\ r[i].op \in {"Open", "Finalize"} /\ r[i].op = r[j].op => i + 1 = j + 1
          /\ r[i].op \in Lines /\ r[j].op = "Finalize" => i + 1 < j + 1
      BY <1>5, <3>1 DEF InOrder
    <3> QED
      BY <3>1, <3>2
  <2>2. ASSUME NEW i \in DOMAIN r, r[i].m = e.m
        PROVE  ~(e.op \in {"Open", "Finalize"} /\ r[i].op = e.op)
               /\ ~(e.op = "Finalize" /\ r[i].op \in Lines)
    <3>1. i + 1 \in DOMAIN q /\ r[i] = q[i + 1] /\ i \in Nat /\ i # 0
      BY <1>2, <1>3
    <3>2. i + 1 # 1 /\ ~(i + 1 < 1)
      BY <3>1
    <3> QED
      BY <1>2, <1>3, <1>5, <2>2, <3>1, <3>2 DEF InOrder
  <2> QED
    BY <2>1, <2>2 DEF In
<1> QED
  BY <1>4, <1>5 DEF e, r

LEMMA NothingQueued ==
  InOrder(<< >>) /\ \A ops, m : ~In(<< >>, ops, m)
BY DEF InOrder, In

\* The worker is in the middle of an effect of kind op on Match m.
Busy(j, op, m) == j.at # "idle" /\ j.op = op /\ j.m = m

\* The effect is sent and not done.
Underway(q, j, op, m) == In(q, {op}, m) \/ Busy(j, op, m)

\* What is queued belongs to a Match that was opened before and is not yet
\* finalized; while a Match is opened nothing else is known of it, and while it
\* is finalized the actor does nothing but wait.
OrderInv ==
  /\ InOrder(queue)
  /\ job.at = "insert" <=> job.at # "idle" /\ job.op = "Open"
  /\ job.at = "commit" => job.op = "Finalize"
  /\ job.at \in {"erase", "unrow"} /\ job.op = "Finalize" => ~job.ok
  /\ \A m \in Match :
       /\ Busy(job, "Open", m) => ~In(queue, {"Open"}, m)
       /\ Busy(job, "Finalize", m) => ~In(queue, {"Finalize"}, m) /\ ~In(queue, Lines, m)
       /\ Underway(queue, job, "Open", m) =>
            /\ m <= room.next /\ room.m # m /\ m \notin failures /\ ~In(queue, Lines, m)
            /\ room.pc = "opening" /\ room.next = m => room.reply = "none"
       /\ Underway(queue, job, "Finalize", m) =>
            room.pc = "finalizing" /\ room.m = m /\ room.reply = "none"

\* The actor is between the opening and the finalization of a Match.
Playing == {"playing", "batch", "flush", "flushing", "finish", "abort", "aborting"}

\* The replay of Match m is in the database, or was until the Admin deleted it.
Kept(m) == row[m] = "completed" \/ doomed[m] # "no"

\* A Match whose lines are still under way, or have failed, is not completed;
\* the actor knows of a completed one as soon as it has the answer.
KeptInv ==
  /\ room.m <= room.next
  /\ \A m \in Match :
       /\ In(queue, Lines, m) \/ m \in failures => m <= room.next /\ row[m] # "completed"
       /\ row[m] = "completed" => m <= room.next
       /\ m \in failures => writer[m].st # "writing" /\ ~(job.at = "commit" /\ job.m = m)
  /\ room.pc = "opening" => row[room.next] # "completed"
  /\ room.pc \in Playing \cup {"finalizing"} => room.m = room.next
  /\ room.pc \in Playing => row[room.m] # "completed"
  /\ room.pc \in {"finish", "finalizing"} => room.avail
  /\ room.pc = "finalizing" =>
       /\ room.reply = "ok" => Kept(room.m)
       /\ room.reply # "ok" => row[room.m] # "completed"
  /\ room.pc = "post" /\ room.next = room.m =>
       /\ room.avail => Kept(room.m)
       /\ ~room.avail => row[room.m] # "completed"

\* There is no answer but to what the actor waits for.
AnswerInv ==
  room.pc \notin {"opening", "flushing", "finalizing", "aborting"} => room.reply = "none"

QueueInv == ReplayInv /\ AnswerInv /\ OrderInv /\ KeptInv

\* Numbers of Matches.
LEMMA MatchNumbers ==
  ASSUME TypeOK
  PROVE  /\ room.m \in Nat /\ room.next \in Nat /\ room.sent \in Nat
         /\ \A m \in Match : m \in Nat /\ m # 0
BY BoundAssumption, LinesAssumption DEF TypeOK, Room, Match

\* The actor sends nothing, or a line of the Match in hand or its clean-up.
LEMMA PlayingOn ==
  ASSUME QueueInv, UNCHANGED <<job, failures, writer, row, doomed>>,
         room.pc \in Playing, room'.pc \in Playing \ {"finish"},
         room'.m = room.m, room'.next = room.next,
         \/ UNCHANGED queue
         \/ \E op \in Lines \cup {"Cleanup"}, line \in 0 .. Total : Send(Eff(op, room.m, line))
  PROVE  OrderInv' /\ KeptInv'
<1> USE DEF QueueInv, ReplayInv
<1>1. room.m \in Match /\ room.m \in Nat /\ room.next = room.m
  BY MatchNumbers DEF RoomInv, Playing, KeptInv
<1>2. /\ InOrder(queue')
      /\ \A m : \A op \in {"Open", "Finalize"} : In(queue', {op}, m) <=> In(queue, {op}, m)
      /\ \A m : In(queue', Lines, m) => In(queue, Lines, m) \/ m = room.m
  <2>1. CASE UNCHANGED queue
    BY <2>1 DEF OrderInv
  <2>2. CASE \E op \in Lines \cup {"Cleanup"}, line \in 0 .. Total : Send(Eff(op, room.m, line))
    <3>1. PICK op \in Lines \cup {"Cleanup"}, line \in 0 .. Total : Send(Eff(op, room.m, line))
      BY <2>2
    <3> DEFINE e == Eff(op, room.m, line)
    <3>2. /\ e \in Effect /\ e.op = op /\ e.m = room.m /\ queue \in Seq(Effect)
          /\ queue' = Append(queue, e) /\ op \notin {"Open", "Finalize"}
      BY <1>1, <3>1, EffectType DEF Eff, Send, Lines, TypeOK
    <3>3. ~In(queue, {"Finalize"}, room.m)
      BY <1>1 DEF OrderInv, Underway, Playing
    <3> HIDE DEF e
    <3>4. InOrder(queue')
      BY <3>2, <3>3, Grown DEF OrderInv
    <3>5. \A ops, m : In(queue', ops, m) <=> In(queue, ops, m) \/ (op \in ops /\ m = room.m)
      BY <3>2, Grown
    <3>6. \A k \in {"Open", "Finalize"} : op \notin {k}
      BY <3>2
    <3> QED
      BY <3>4, <3>5, <3>6
  <2> QED
    BY <2>1, <2>2
<1>3. \A m \in Match : ~Underway(queue, job, "Finalize", m)
  BY DEF OrderInv, Playing
<1>4. \A m \in Match : Underway(queue, job, "Open", m) => m # room.m
  BY DEF OrderInv
<1>5. OrderInv'
  BY <1>1, <1>2, <1>3, <1>4 DEF OrderInv, Underway, Busy, Playing
<1>6. KeptInv'
  BY <1>1, <1>2 DEF KeptInv, Playing, Kept
<1> QED
  BY <1>5, <1>6

\* The actor sends nothing and is not at work on a Match.
LEMMA StandingBy ==
  ASSUME QueueInv, UNCHANGED <<queue, job, failures, writer, row, doomed>>,
         room.pc # "finalizing", room'.pc \in {"lobby", "closed"},
         room'.m \in {0, room.m}, room'.next = room.next
  PROVE  OrderInv' /\ KeptInv'
<1> USE DEF QueueInv, ReplayInv
<1>1. /\ room.m \in Nat /\ room.next \in Nat /\ 0 <= room.next
      /\ \A m \in Match : m # 0
  BY MatchNumbers
<1>2. OrderInv'
  BY <1>1 DEF OrderInv, Underway, Busy
<1>3. KeptInv'
  BY <1>1 DEF KeptInv, Playing, Kept
<1> QED
  BY <1>2, <1>3

LEMMA StartOrders ==
  ASSUME QueueInv, Start
  PROVE  OrderInv' /\ KeptInv'
<1> USE DEF QueueInv, ReplayInv
<1> DEFINE n == room.next + 1
<1>1. /\ room.m \in Nat /\ room.next \in Nat /\ n \in Match /\ n \in Nat /\ n # room.m
      /\ room.m <= n
      /\ \A m \in Match : m <= room.next => m # n /\ m <= n
  <2>1. MaxMatches \in Nat /\ room.next < MaxMatches
    BY BoundAssumption DEF Start
  <2>2. room.m \in Nat /\ room.next \in Nat /\ \A m \in Match : m \in Nat
    BY MatchNumbers
  <2>3. n \in Match
    BY <2>1, <2>2 DEF Match
  <2> QED
    BY <2>2, <2>3 DEF KeptInv
<1>2. /\ ~Underway(queue, job, "Open", n) /\ ~Underway(queue, job, "Finalize", n)
      /\ ~In(queue, Lines, n) /\ n \notin failures /\ row[n] # "completed"
  BY <1>1 DEF OrderInv, KeptInv
<1>3. \A m \in Match : ~Underway(queue, job, "Finalize", m)
  BY DEF OrderInv, Start, Listening
<1>4. UNCHANGED <<job, failures, writer, row, doomed>> /\ room.pc \in {"lobby", "post"}
  BY DEF Start, Quiet, Listening
<1> HIDE DEF n
<1>5. CASE /\ Send(Eff("Open", n, 1))
           /\ room' = [room EXCEPT !.pc = "opening", !.home = room.pc, !.next = @ + 1,
                                   !.reply = "none"]
  <2> DEFINE e == Eff("Open", n, 1)
  <2>1. e \in Effect /\ e.op = "Open" /\ e.m = n /\ queue \in Seq(Effect) /\ queue' = Append(queue, e)
    BY <1>1, <1>5, LineNumbers, EffectType DEF Eff, Send, TypeOK
  <2> HIDE DEF e
  <2>2. /\ InOrder(queue')
        /\ \A m : In(queue', {"Open"}, m) <=> In(queue, {"Open"}, m) \/ m = n
        /\ \A m : In(queue', {"Finalize"}, m) <=> In(queue, {"Finalize"}, m)
        /\ \A m : In(queue', Lines, m) <=> In(queue, Lines, m)
    <3>1. ~In(queue, {"Open"}, n) /\ e.op \notin Lines
      BY <1>2, <2>1 DEF Underway, Lines
    <3>2. InOrder(queue')
      BY <2>1, <3>1, Grown DEF OrderInv
    <3>3. \A ops, m : In(queue', ops, m) <=> In(queue, ops, m) \/ ("Open" \in ops /\ m = n)
      BY <2>1, Grown
    <3> QED
      BY <2>1, <3>1, <3>2, <3>3
  <2>3. room'.pc = "opening" /\ room'.next = n /\ room'.m = room.m /\ room'.reply = "none"
    BY <1>5 DEF TypeOK, Room, n
  <2>4. OrderInv'
    BY <1>1, <1>2, <1>3, <1>4, <2>2, <2>3 DEF OrderInv, Underway, Busy
  <2>5. KeptInv'
    BY <1>1, <1>2, <1>4, <2>2, <2>3 DEF KeptInv, Playing, Kept
  <2> QED
    BY <2>4, <2>5
<1>6. CASE room' = [room EXCEPT !.next = @ + 1, !.avail = FALSE, !.lost = TRUE] /\ UNCHANGED queue
  <2>1. room'.pc = room.pc /\ room'.next = n /\ room'.m = room.m /\ room'.reply = room.reply
    BY <1>6 DEF TypeOK, Room, n
  <2>2. OrderInv'
    BY <1>1, <1>2, <1>3, <1>4, <1>6, <2>1 DEF OrderInv, Underway, Busy
  <2>3. KeptInv'
    BY <1>1, <1>2, <1>4, <1>6, <2>1 DEF KeptInv, Playing, Kept
  <2> QED
    BY <2>2, <2>3
<1> QED
  BY <1>5, <1>6 DEF Start, n

LEMMA OpenedOrders ==
  ASSUME QueueInv, Opened
  PROVE  OrderInv' /\ KeptInv'
<1> USE DEF QueueInv, ReplayInv
<1>1. /\ room.m \in Nat /\ room.next \in Nat /\ room.next \in Match /\ room.m <= room.next
      /\ room.pc = "opening" /\ row[room.next] # "completed"
  BY MatchNumbers DEF Opened, RoomInv, KeptInv
<1>2. UNCHANGED <<queue, job, failures, writer, row, doomed>>
  BY DEF Opened, Quiet
<1>3. \A m \in Match : ~Underway(queue, job, "Finalize", m)
  BY <1>1 DEF OrderInv
<1>4. CASE /\ room.reply = "ok"
           /\ room' = [room EXCEPT !.pc = "playing", !.m = room.next, !.sent = 1, !.reply = "none"]
  <2>1. room'.pc = "playing" /\ room'.m = room.next /\ room'.next = room.next
    BY <1>4 DEF TypeOK, Room
  <2>2. ~Underway(queue, job, "Open", room.next)
    BY <1>1, <1>4 DEF OrderInv
  <2>3. OrderInv'
    BY <1>1, <1>2, <1>3, <2>1, <2>2 DEF OrderInv
  <2>4. KeptInv'
    BY <1>1, <1>2, <2>1 DEF KeptInv, Playing, Kept
  <2> QED
    BY <2>3, <2>4
<1>5. CASE FailReplay(room.next, room.home)
  <2>1. room'.pc = room.home /\ room.home \in {"lobby", "post", "closed"}
        /\ room'.m = room.m /\ room'.next = room.next /\ ~room'.avail
    BY <1>5 DEF FailReplay, TypeOK, Room
  <2>2. OrderInv'
    BY <1>1, <1>2, <1>3, <2>1 DEF OrderInv
  <2>3. KeptInv'
    BY <1>1, <1>2, <2>1 DEF KeptInv, Playing, Kept
  <2> QED
    BY <2>2, <2>3
<1> QED
  BY <1>4, <1>5 DEF Opened

\* A deletion is queued: nothing else is.
LEMMA SendDeletionOrders ==
  ASSUME QueueInv, NEW n \in Match, SendDeletion(n)
  PROVE  OrderInv' /\ KeptInv'
<1> USE DEF QueueInv, ReplayInv
<1> DEFINE e == Eff("Delete", n, 0)
<1>1. e \in Effect /\ e.op = "Delete" /\ queue \in Seq(Effect) /\ queue' = Append(queue, e)
  BY LineNumbers, EffectType DEF Eff, Send, TypeOK, SendDeletion
<1> HIDE DEF e
<1>2. InOrder(queue')
  BY <1>1, Grown DEF OrderInv, Lines
<1>3. /\ \A m : In(queue', {"Open"}, m) <=> In(queue, {"Open"}, m)
      /\ \A m : In(queue', {"Finalize"}, m) <=> In(queue, {"Finalize"}, m)
      /\ \A m : In(queue', Lines, m) <=> In(queue, Lines, m)
  <2>1. \A ops, m : In(queue', ops, m) <=> In(queue, ops, m) \/ ("Delete" \in ops /\ m = e.m)
    BY <1>1, Grown
  <2>2. "Delete" \notin Lines
    BY DEF Lines
  <2> QED
    BY <2>1, <2>2
<1>4. UNCHANGED <<room, job, failures, writer, row, doomed>>
  BY DEF SendDeletion, Quiet
<1>5. OrderInv'
  BY <1>2, <1>3, <1>4 DEF OrderInv, Underway
<1>6. KeptInv'
  BY <1>3, <1>4 DEF KeptInv, Kept
<1> QED
  BY <1>5, <1>6

LEMMA PlayOrders ==
  ASSUME QueueInv, Emit \/ Flush \/ Flushed \/ Mark \/ Abort \/ CleanUp \/ CleanedUp
  PROVE  OrderInv' /\ KeptInv'
<1> USE DEF QueueInv, ReplayInv
<1>1. /\ room \in Room /\ room.pc \in Playing /\ room.m \in Match
      /\ UNCHANGED <<job, failures, writer, row, doomed>>
  BY DEF Emit, Flush, Flushed, Mark, Abort, CleanUp, CleanedUp, Listening, Playing, Quiet, TypeOK,
         RoomInv
<1>2. room.sent + 1 \in Nat /\ 0 \in 0 .. Total
  BY MatchNumbers, LineNumbers
<1>3. CASE Emit
  <2>1. room'.pc \in Playing \ {"finish"} /\ room'.m = room.m /\ room'.next = room.next
    BY <1>1, <1>3 DEF Emit, AfterLine, Playing, Room
  <2>2. room.sent + 1 \in 0 .. Total
    BY <1>1, <1>2, <1>3, LineNumbers DEF Emit, Room
  <2>3. UNCHANGED queue \/ Send(Eff("Append", room.m, room.sent + 1))
    BY <1>3 DEF Emit
  <2>4. "Append" \in Lines \cup {"Cleanup"}
    BY DEF Lines
  <2> QED
    BY <1>1, <2>1, <2>2, <2>3, <2>4, PlayingOn
<1>4. CASE Flush
  <2>1. room'.pc \in Playing \ {"finish"} /\ room'.m = room.m /\ room'.next = room.next
    BY <1>1, <1>4 DEF Flush, FailReplay, Playing, Room
  <2>2. room.sent \in 0 .. Total
    BY <1>1 DEF Room
  <2>3. UNCHANGED queue \/ Send(Eff("Flush", room.m, room.sent))
    BY <1>4 DEF Flush
  <2>4. "Flush" \in Lines \cup {"Cleanup"}
    BY DEF Lines
  <2> QED
    BY <1>1, <2>1, <2>2, <2>3, <2>4, PlayingOn
<1>5. CASE Flushed \/ Abort
  <2>1. room'.pc \in Playing \ {"finish"} /\ room'.m = room.m /\ room'.next = room.next
    BY <1>1, <1>5 DEF Flushed, Abort, FailReplay, Playing, Room
  <2>2. UNCHANGED queue
    BY <1>5 DEF Flushed, Abort
  <2> QED
    BY <1>1, <2>1, <2>2, PlayingOn
<1>6. CASE Mark
  <2>1. PICK op \in {"Before", "After"} :
          \/ Send(Eff(op, room.m, 0)) /\ UNCHANGED roomVars
          \/ ~HasRoom /\ FailReplay(room.m, "playing") /\ UNCHANGED queue
    BY <1>6 DEF Mark
  <2>2. room.pc = "playing"
    BY <1>6 DEF Mark
  <2>3. room'.pc \in Playing \ {"finish"} /\ room'.m = room.m /\ room'.next = room.next
    BY <1>1, <2>1, <2>2 DEF FailReplay, Playing, Room, roomVars
  <2>4. op \in Lines \cup {"Cleanup"}
    BY DEF Lines
  <2>5. UNCHANGED queue \/ Send(Eff(op, room.m, 0))
    BY <2>1
  <2> QED
    BY <1>1, <1>2, <2>3, <2>4, <2>5, PlayingOn
<1>7. CASE CleanUp
  <2>1. room'.next = room.next
    BY <1>1, <1>7 DEF CleanUp, Room
  <2>2. CASE Send(Eff("Cleanup", room.m, 0)) /\ room' = [room EXCEPT !.pc = "aborting"]
    <3>1. room'.pc \in Playing \ {"finish"} /\ room'.m = room.m
      BY <1>1, <2>2 DEF Playing, Room
    <3> QED
      BY <1>1, <1>2, <2>1, <2>2, <3>1, PlayingOn
  <2>3. CASE UNCHANGED queue /\ room' = [room EXCEPT !.pc = room.home, !.m = 0, !.avail = FALSE,
                                                     !.lost = TRUE]
    <3>1. room'.pc \in {"lobby", "closed"} /\ room'.m = 0 /\ room.pc # "finalizing"
      BY <1>1, <1>7, <2>3 DEF CleanUp, RoomInv, Room
    <3> QED
      BY <1>1, <2>1, <2>3, <3>1, StandingBy
  <2> QED
    BY <1>7, <2>2, <2>3 DEF CleanUp
<1>8. CASE CleanedUp
  <2>1. /\ room'.pc \in {"lobby", "closed"} /\ room'.m = 0 /\ room.pc # "finalizing"
        /\ room'.next = room.next
    BY <1>1, <1>8 DEF CleanedUp, RoomInv, Room
  <2>2. UNCHANGED queue
    BY <1>8 DEF CleanedUp
  <2> QED
    BY <1>1, <2>1, <2>2, StandingBy
<1> QED
  BY <1>3, <1>4, <1>5, <1>6, <1>7, <1>8

LEMMA LobbyOrders ==
  ASSUME QueueInv, BackToLobby \/ Configure \/ Close
  PROVE  OrderInv' /\ KeptInv'
<1>1. room \in Room /\ UNCHANGED <<queue, job, failures, writer, row, doomed>>
  BY DEF QueueInv, ReplayInv, TypeOK, BackToLobby, Configure, Close, Quiet
<1>2. /\ room.pc # "finalizing" /\ room'.pc \in {"lobby", "closed"}
      /\ room'.m \in {0, room.m} /\ room'.next = room.next
  BY <1>1 DEF BackToLobby, Configure, Close, Listening, Room
<1> QED
  BY <1>1, <1>2, StandingBy

\* The end of a Match: with the last line behind it, nothing else is sent.
LEMMA FinishOrders ==
  ASSUME QueueInv, Finish \/ Finalize \/ Finalized
  PROVE  OrderInv' /\ KeptInv'
<1> USE DEF QueueInv, ReplayInv
<1>1. /\ room \in Room /\ room.m \in Match /\ room.m \in Nat /\ room.next = room.m
      /\ UNCHANGED <<job, failures, writer, row, doomed>>
  BY MatchNumbers
  DEF Finish, Finalize, Finalized, Playing, Quiet, TypeOK, RoomInv, KeptInv
<1>2. CASE Finish
  <2>1. /\ room'.pc = IF room.avail THEN "finish" ELSE "post"
        /\ room'.m = room.m /\ room'.next = room.next /\ room'.avail = room.avail
        /\ UNCHANGED queue /\ room.pc = "playing"
    BY <1>1, <1>2 DEF Finish, Room
  <2>2. OrderInv'
    BY <1>1, <2>1 DEF OrderInv
  <2>3. KeptInv'
    BY <1>1, <2>1 DEF KeptInv, Playing, Kept
  <2> QED
    BY <2>2, <2>3
<1>3. CASE Finalize
  <2> DEFINE e == Eff("Finalize", room.m, 0)
  <2>1. e \in Effect /\ e.op = "Finalize" /\ e.m = room.m /\ queue \in Seq(Effect)
        /\ queue' = Append(queue, e)
    BY <1>1, <1>3, LineNumbers, EffectType DEF Finalize, Eff, Send, TypeOK
  <2> HIDE DEF e
  <2>2. /\ room'.pc = "finalizing" /\ room'.m = room.m /\ room'.next = room.next
        /\ room'.avail = room.avail /\ room'.reply = room.reply /\ room.pc = "finish"
    BY <1>1, <1>3 DEF Finalize, Room
  <2>3. \A m \in Match : ~Underway(queue, job, "Finalize", m)
    BY <2>2 DEF OrderInv
  <2>4. InOrder(queue')
    BY <1>1, <2>1, <2>3, Grown DEF OrderInv, Underway, Lines
  <2>5. /\ \A m : In(queue', {"Open"}, m) <=> In(queue, {"Open"}, m)
        /\ \A m : In(queue', {"Finalize"}, m) <=> In(queue, {"Finalize"}, m) \/ m = room.m
        /\ \A m : In(queue', Lines, m) <=> In(queue, Lines, m)
    <3>1. \A ops, m : In(queue', ops, m) <=> In(queue, ops, m) \/ ("Finalize" \in ops /\ m = room.m)
      BY <2>1, Grown
    <3>2. "Finalize" \notin Lines
      BY DEF Lines
    <3> QED
      BY <3>1, <3>2
  <2>6. room.reply = "none"
    BY <2>2 DEF AnswerInv
  <2>7. OrderInv'
    BY <1>1, <2>2, <2>3, <2>4, <2>5, <2>6 DEF OrderInv, Underway
  <2>8. KeptInv'
    BY <1>1, <2>2, <2>5, <2>6 DEF KeptInv, Playing, Kept
  <2> QED
    BY <2>7, <2>8
<1>4. CASE Finalized
  <2>1. /\ room'.pc = "post" /\ room'.m = room.m /\ room'.next = room.next
        /\ room'.avail = (room.reply = "ok") /\ room.reply \in {"ok", "err"}
        /\ UNCHANGED queue /\ room.pc = "finalizing"
    BY <1>1, <1>4 DEF Finalized, FailReplay, Room, KeptInv
  <2>2. \A m \in Match : ~Underway(queue, job, "Finalize", m)
    BY <2>1 DEF OrderInv
  <2>3. OrderInv'
    BY <1>1, <2>1, <2>2 DEF OrderInv
  <2>4. KeptInv'
    BY <1>1, <2>1 DEF KeptInv, Playing, Kept
  <2> QED
    BY <2>3, <2>4
<1> QED
  BY <1>2, <1>3, <1>4

LEMMA HearOrders ==
  ASSUME QueueInv, NEW n \in Match, HearFailure(n)
  PROVE  OrderInv' /\ KeptInv'
<1> USE DEF QueueInv, ReplayInv
<1>1. /\ room \in Room /\ room.pc \in {"lobby", "playing", "post"} /\ n \in failures
      /\ failures' = failures \ {n} /\ UNCHANGED <<queue, job, writer, row, doomed>>
  BY DEF TypeOK, HearFailure, Listening
<1>2. /\ room'.pc = room.pc /\ room'.m = room.m /\ room'.next = room.next
      /\ room' = room \/ (room.m = n /\ ~room'.avail)
  BY <1>1 DEF HearFailure, FailReplay, roomVars, Room
<1>3. \A m \in Match : ~Underway(queue, job, "Finalize", m)
  BY <1>1 DEF OrderInv
<1>4. OrderInv'
  BY <1>1, <1>2, <1>3 DEF OrderInv
<1>5. KeptInv'
  BY <1>1, <1>2 DEF KeptInv, Playing, Kept
<1> QED
  BY <1>4, <1>5

LEMMA ActorAnswers ==
  ASSUME QueueInv, ActorStep
  PROVE  AnswerInv'
<1>1. room \in Room
  BY DEF QueueInv, ReplayInv, TypeOK
<1>2. room.reply = "none" \/ room.pc \in {"opening", "flushing", "finalizing", "aborting"}
  BY DEF QueueInv, AnswerInv
<1>3. CASE Start \/ Opened \/ Emit \/ Flush \/ Flushed \/ Mark
  BY <1>1, <1>2, <1>3
  DEF Start, Opened, Emit, AfterLine, Flush, Flushed, Mark, FailReplay, Listening, roomVars, Room,
      AnswerInv
<1>4. CASE Finish \/ Finalize \/ Finalized \/ Abort \/ CleanUp \/ CleanedUp
  BY <1>1, <1>2, <1>4
  DEF Finish, Finalize, Finalized, Abort, CleanUp, CleanedUp, FailReplay, Listening, Room, AnswerInv
<1>5. CASE BackToLobby \/ Configure \/ Close \/ \E m \in Match : HearFailure(m) \/ SendDeletion(m)
  BY <1>1, <1>2, <1>5
  DEF BackToLobby, Configure, Close, HearFailure, SendDeletion, FailReplay, Listening, roomVars,
      Room, AnswerInv
<1> QED
  BY <1>3, <1>4, <1>5 DEF ActorStep

LEMMA ActorOrders ==
  ASSUME QueueInv, ActorStep
  PROVE  OrderInv' /\ KeptInv'
BY StartOrders, OpenedOrders, PlayOrders, LobbyOrders, FinishOrders, HearOrders,
   SendDeletionOrders DEF ActorStep

\* The Match the actor names.
LEMMA InHand ==
  ASSUME QueueInv
  PROVE  /\ room.pc = "opening" => room.next \in Match
         /\ room.pc \in Playing \cup {"finalizing", "post"} => room.m \in Match
BY DEF QueueInv, ReplayInv, RoomInv, Playing

\* The worker takes the next effect.
LEMMA TakeOrders ==
  ASSUME QueueInv, NEW op, Take(op)
  PROVE  /\ Head(queue).op = op /\ Head(queue).m \in Match /\ job = Idle
         /\ InOrder(queue')
         /\ \A ops, m : In(queue', ops, m) => In(queue, ops, m)
         /\ \A ops : op \in ops => In(queue, ops, Head(queue).m)
         /\ op \in {"Open", "Finalize"} => ~In(queue', {op}, Head(queue).m)
         /\ op = "Finalize" => ~In(queue', Lines, Head(queue).m)
<1>1. /\ Head(queue).op = op /\ Head(queue).m \in Match /\ job = Idle
      /\ queue' = Tail(queue) /\ queue # << >> /\ queue \in Seq(Effect)
  BY TakeKeeps DEF QueueInv, ReplayInv, TypeOK, Take
<1>2. InOrder(queue)
  BY DEF QueueInv, OrderInv
<1>3. /\ InOrder(queue')
      /\ op \in {"Open", "Finalize"} => ~In(queue', {op}, Head(queue).m)
      /\ op = "Finalize" => ~In(queue', Lines, Head(queue).m)
  BY <1>1, <1>2, Popped
<1>4. \A ops, m : In(queue, ops, m) <=> In(queue', ops, m) \/ (op \in ops /\ Head(queue).m = m)
  BY <1>1, Popped
<1> QED
  BY <1>1, <1>3, <1>4

\* What an answer changes of the Room.
LEMMA AnswerOnly ==
  ASSUME QueueInv, NEW op, NEW m, NEW r \in {"ok", "err"}, Answer(op, m, r) \/ room' = room
  PROVE  /\ room'.pc = room.pc /\ room'.m = room.m /\ room'.next = room.next
         /\ room'.avail = room.avail /\ room'.lost = room.lost
         /\ room'.reply = room.reply \/ (Awaited(op, m) /\ room'.reply = r)
         /\ Answer(op, m, r) /\ Awaited(op, m) => room'.reply = r
         /\ AnswerInv'
BY DEF QueueInv, ReplayInv, TypeOK, Room, Answer, Awaited, AnswerInv

\* An effect on the lines of a Match, or its deletion, is taken: nothing is
\* opened, finalized or completed.
LEMMA TakenOrders ==
  ASSUME QueueInv, NEW op \in Lines \cup {"Delete", "Cleanup"}, Take(op),
         job' = job \/ \E k \in {"Delete", "Cleanup"} : \E m : job' = Erasing(k, m, TRUE),
         room' = room \/ \E r \in {"ok", "err"} : Answer("Flush", Head(queue).m, r),
         failures' = failures
           \/ (op \in Lines /\ failures' = failures \cup {Head(queue).m}
                            /\ writer'[Head(queue).m].st # "writing"),
         \A m \in Match : writer'[m].st = "writing" => writer[m].st = "writing",
         \A m \in Match : row'[m] = "completed" <=> row[m] = "completed",
         doomed' = doomed
  PROVE  AnswerInv' /\ OrderInv' /\ KeptInv'
<1> USE DEF QueueInv, ReplayInv
<1> DEFINE n == Head(queue).m
<1>1. /\ n \in Match /\ job = Idle /\ InOrder(queue')
      /\ \A ops, m : In(queue', ops, m) => In(queue, ops, m)
      /\ op \in Lines => In(queue, Lines, n)
  BY TakeOrders
<1> HIDE DEF n
<1>2. /\ room'.pc = room.pc /\ room'.m = room.m /\ room'.next = room.next
      /\ room'.avail = room.avail
      /\ room'.reply = room.reply \/ room.pc = "flushing"
      /\ AnswerInv'
  <2>1. CASE room' = room
    BY <2>1 DEF AnswerInv
  <2>2. CASE \E r \in {"ok", "err"} : Answer("Flush", n, r)
    BY <2>2, AnswerOnly DEF Awaited
  <2> QED
    BY <2>1, <2>2 DEF n
<1>3. /\ \A m \in Match : ~Busy(job, "Open", m) /\ ~Busy(job, "Finalize", m)
      /\ \A m \in Match : ~Busy(job', "Open", m) /\ ~Busy(job', "Finalize", m)
      /\ job'.at \in {"idle", "erase"} /\ job'.op \in {"Open", "Delete", "Cleanup"}
      /\ job'.at = "erase" => job'.op # "Open"
  BY <1>1 DEF Busy, Idle, Erasing
<1>4. \A m \in Match : m \in failures' =>
        /\ m <= room.next /\ row[m] # "completed" /\ writer'[m].st # "writing"
        /\ ~In(queue, {"Open"}, m)
  <2>1. \A m \in Match : m \in failures \/ In(queue, Lines, m) =>
          m <= room.next /\ row[m] # "completed" /\ ~In(queue, {"Open"}, m)
    BY DEF KeptInv, OrderInv, Underway
  <2>2. \A m \in Match : m \in failures => writer'[m].st # "writing"
    BY DEF KeptInv
  <2> QED
    BY <1>1, <2>1, <2>2 DEF n
<1>5. OrderInv'
  <2>1. \A m \in Match : Underway(queue', job', "Open", m) => In(queue, {"Open"}, m)
    BY <1>1, <1>3 DEF Underway
  <2>2. \A m \in Match : Underway(queue', job', "Finalize", m) => In(queue, {"Finalize"}, m)
    BY <1>1, <1>3 DEF Underway
  <2>3. \A m \in Match : In(queue, {"Open"}, m) =>
          /\ m <= room.next /\ room.m # m /\ ~In(queue, Lines, m)
          /\ room.pc = "opening" /\ room.next = m => room.reply = "none"
    BY DEF OrderInv, Underway
  <2>4. \A m \in Match : In(queue, {"Finalize"}, m) =>
          room.pc = "finalizing" /\ room.m = m /\ room.reply = "none"
    BY DEF OrderInv, Underway
  <2> QED
    BY <1>1, <1>2, <1>3, <1>4, <2>1, <2>2, <2>3, <2>4 DEF OrderInv
<1>6. KeptInv'
  <2>1. \A m \in Match : In(queue', Lines, m) => In(queue, Lines, m)
    BY <1>1
  <2>2. room.pc = "opening" => room.next \in Match
    BY InHand
  <2>3. room.pc \in Playing \cup {"finalizing", "post"} => room.m \in Match
    BY InHand
  <2>4. room.pc = "finalizing" => room'.reply = room.reply
    BY <1>2
  <2> QED
    BY <1>2, <1>3, <1>4, <2>1, <2>2, <2>3, <2>4 DEF KeptInv, Playing, Kept
<1> QED
  BY <1>2, <1>5, <1>6

LEMMA OpenPartOrders ==
  ASSUME QueueInv, OpenPart
  PROVE  AnswerInv' /\ OrderInv' /\ KeptInv'
<1> USE DEF QueueInv, ReplayInv
<1> DEFINE n == Head(queue).m
<1>1. /\ n \in Match /\ job = Idle /\ InOrder(queue')
      /\ \A ops, m : In(queue', ops, m) => In(queue, ops, m)
      /\ In(queue, {"Open"}, n) /\ ~In(queue', {"Open"}, n)
  BY TakeOrders DEF OpenPart
<1>2. UNCHANGED <<writer, failures, row, doomed>>
  BY DEF OpenPart
<1>3. \/ job' = [at |-> "insert", op |-> "Open", m |-> n, ok |-> TRUE] /\ room' = room
      \/ job' = job /\ Answer("Open", n, "err")
  BY DEF OpenPart
<1> HIDE DEF n
<1>4. /\ room'.pc = room.pc /\ room'.m = room.m /\ room'.next = room.next
      /\ room'.avail = room.avail /\ AnswerInv'
      /\ room'.reply = room.reply \/ (room.pc = "opening" /\ room.next = n /\ job' = job)
  BY <1>3, AnswerOnly DEF Awaited
<1>5. /\ job'.at \in {"idle", "insert"} /\ job'.op = "Open"
      /\ \A m : Busy(job', "Open", m) => m = n /\ job' # job
      /\ \A m : ~Busy(job', "Finalize", m) /\ ~Busy(job, "Open", m) /\ ~Busy(job, "Finalize", m)
  BY <1>1, <1>3 DEF Busy, Idle
<1>6. OrderInv'
  <2>1. \A m \in Match : Underway(queue', job', "Open", m) =>
          In(queue, {"Open"}, m) /\ (job' = job => m # n)
    BY <1>1, <1>5 DEF Underway
  <2>2. \A m \in Match : Underway(queue', job', "Finalize", m) => In(queue, {"Finalize"}, m)
    BY <1>1, <1>5 DEF Underway
  <2>3. \A m \in Match : In(queue, {"Open"}, m) =>
          /\ m <= room.next /\ room.m # m /\ m \notin failures /\ ~In(queue, Lines, m)
          /\ room.pc = "opening" /\ room.next = m => room.reply = "none"
    BY DEF OrderInv, Underway
  <2>4. \A m \in Match : In(queue, {"Finalize"}, m) =>
          room.pc = "finalizing" /\ room.m = m /\ room.reply = "none"
    BY DEF OrderInv, Underway
  <2>5. job'.at = "insert" <=> job'.at # "idle" /\ job'.op = "Open"
    BY <1>5
  <2> QED
    BY <1>1, <1>2, <1>4, <1>5, <2>1, <2>2, <2>3, <2>4, <2>5 DEF OrderInv
<1>7. KeptInv'
  <2>1. \A m \in Match : In(queue', Lines, m) => In(queue, Lines, m)
    BY <1>1
  <2>2. room.pc = "finalizing" => room'.reply = room.reply
    BY <1>4
  <2> QED
    BY <1>2, <1>4, <1>5, <2>1, <2>2 DEF KeptInv, Playing, Kept
<1> QED
  BY <1>4, <1>6, <1>7

LEMMA InsertRowOrders ==
  ASSUME QueueInv, InsertRow
  PROVE  AnswerInv' /\ OrderInv' /\ KeptInv'
<1> USE DEF QueueInv, ReplayInv
<1> DEFINE n == job.m
<1>1. /\ n \in Match /\ job.at = "insert" /\ job.op = "Open" /\ job' = Idle
      /\ UNCHANGED <<queue, failures, doomed>>
  BY DEF InsertRow, WorkInv, OrderInv
<1>2. Busy(job, "Open", n)
  BY <1>1 DEF Busy
<1>3. /\ n \notin failures /\ ~In(queue, {"Open"}, n)
  BY <1>1, <1>2 DEF OrderInv, Underway
<1>4. /\ \A m \in Match : row'[m] = "completed" <=> row[m] = "completed"
      /\ \A m \in Match : writer'[m].st = "writing" => writer[m].st = "writing" \/ m = n
  BY <1>1 DEF InsertRow, TypeOK
<1>5. \E r \in {"ok", "err"} : Answer("Open", n, r)
  BY <1>1 DEF InsertRow
<1> HIDE DEF n
<1>6. /\ room'.pc = room.pc /\ room'.m = room.m /\ room'.next = room.next
      /\ room'.avail = room.avail /\ AnswerInv'
      /\ room'.reply = room.reply \/ (room.pc = "opening" /\ room.next = n)
  BY <1>5, AnswerOnly DEF Awaited
<1>7. \A op, m : ~Busy(job', op, m)
  BY <1>1 DEF Busy, Idle
<1>8. OrderInv'
  <2>1. \A m \in Match : Underway(queue', job', "Open", m) =>
          Underway(queue, job, "Open", m) /\ m # n
    BY <1>1, <1>3, <1>7 DEF Underway
  <2>2. \A m \in Match : Underway(queue', job', "Finalize", m) =>
          Underway(queue, job, "Finalize", m)
    BY <1>1, <1>7 DEF Underway
  <2>3. /\ InOrder(queue') /\ job'.at = "idle"
        /\ \A m \in Match : Underway(queue', job', "Open", m) =>
             /\ m <= room.next /\ room.m # m /\ m \notin failures /\ ~In(queue, Lines, m)
             /\ room.pc = "opening" /\ room.next = m => room'.reply = "none"
    BY <1>1, <1>6, <2>1 DEF OrderInv, Idle
  <2>4. \A m \in Match : Underway(queue', job', "Finalize", m) =>
          room.pc = "finalizing" /\ room.m = m /\ room'.reply = "none"
    BY <1>6, <2>2 DEF OrderInv
  <2> QED
    BY <1>1, <1>6, <1>7, <2>3, <2>4 DEF OrderInv
<1>9. KeptInv'
  <2>1. room.pc = "opening" => room.next \in Match
    BY InHand
  <2>2. room.pc \in Playing \cup {"finalizing", "post"} => room.m \in Match
    BY InHand
  <2>3. room.pc = "finalizing" => room'.reply = room.reply
    BY <1>6
  <2> QED
    BY <1>1, <1>3, <1>4, <1>6, <2>1, <2>2, <2>3 DEF KeptInv, Playing, Kept, Idle
<1> QED
  BY <1>6, <1>8, <1>9

LEMMA LinesOrders ==
  ASSUME QueueInv, AppendLine \/ RecordAuxiliary \/ FlushKyoku
  PROVE  AnswerInv' /\ OrderInv' /\ KeptInv'
<1> USE DEF QueueInv, ReplayInv
<1> DEFINE n == Head(queue).m
<1>2. CASE AppendLine
  <2>1. Take("Append") /\ n \in Match /\ "Append" \in Lines
    BY <1>2, TakeOrders DEF AppendLine, Lines
  <2>2. job' = job /\ room' = room /\ doomed' = doomed
    BY <1>2 DEF AppendLine
  <2>3. CASE /\ writer[n].st = "writing"
             /\ writer' = [writer EXCEPT ![n] = [st |-> "writing", lines |-> @.lines + 1, ahead |-> FALSE]]
             /\ UNCHANGED <<row, failures>>
    <3>1. \A m \in Match : writer'[m].st = "writing" => writer[m].st = "writing"
      BY <2>3 DEF TypeOK
    <3> QED
      BY <2>1, <2>2, <2>3, <3>1, TakenOrders
  <2>4. CASE FailWriter(n) /\ failures' = failures \cup {n}
    <3>1. /\ \A m \in Match : writer'[m].st = "writing" => writer[m].st = "writing" /\ m # n
          /\ \A m \in Match : row'[m] = "completed" <=> row[m] = "completed"
      BY <2>1, <2>4, FailWriterKeeps
    <3>2. writer'[n].st # "writing"
      BY <2>1, <3>1
    <3> QED
      BY <2>1, <2>2, <2>4, <3>1, <3>2, TakenOrders
  <2> QED
    BY <1>2, <2>3, <2>4 DEF AppendLine
<1>3. CASE RecordAuxiliary
  <2>1. PICK op \in {"Before", "After"} : Take(op)
    BY <1>3 DEF RecordAuxiliary
  <2>2. n \in Match /\ op \in Lines
    BY <2>1, TakeOrders DEF Lines
  <2>3. job' = job /\ room' = room /\ doomed' = doomed
    BY <1>3 DEF RecordAuxiliary
  <2>4. CASE /\ writer[n].st = "writing"
             /\ writer' = [writer EXCEPT ![n] =
                  [st |-> "writing", lines |-> @.lines, ahead |-> @.ahead \/ Head(queue).op = "Before"]]
             /\ UNCHANGED <<row, failures>>
    <3>1. \A m \in Match : writer'[m].st = "writing" => writer[m].st = "writing"
      BY <2>4 DEF TypeOK
    <3> QED
      BY <2>1, <2>2, <2>3, <2>4, <3>1, TakenOrders
  <2>5. CASE FailWriter(n) /\ failures' = failures \cup {n}
    <3>1. /\ \A m \in Match : writer'[m].st = "writing" => writer[m].st = "writing" /\ m # n
          /\ \A m \in Match : row'[m] = "completed" <=> row[m] = "completed"
      BY <2>2, <2>5, FailWriterKeeps
    <3>2. writer'[n].st # "writing"
      BY <2>2, <3>1
    <3> QED
      BY <2>1, <2>2, <2>3, <2>5, <3>1, <3>2, TakenOrders
  <2> QED
    BY <1>3, <2>4, <2>5 DEF RecordAuxiliary
<1>4. CASE FlushKyoku
  <2>1. Take("Flush") /\ n \in Match /\ "Flush" \in Lines
    BY <1>4, TakeOrders DEF FlushKyoku, Lines
  <2>2. job' = job /\ failures' = failures /\ doomed' = doomed
    BY <1>4 DEF FlushKyoku
  <2>3. \E r \in {"ok", "err"} : Answer("Flush", n, r)
    BY <1>4 DEF FlushKyoku
  <2>4. /\ \A m \in Match : writer'[m].st = "writing" => writer[m].st = "writing"
        /\ \A m \in Match : row'[m] = "completed" <=> row[m] = "completed"
    <3>1. UNCHANGED <<writer, row>> \/ FailWriter(n)
      BY <1>4 DEF FlushKyoku
    <3> QED
      BY <2>1, <3>1, FailWriterKeeps
  <2> QED
    BY <2>1, <2>2, <2>3, <2>4, TakenOrders
<1> QED
  BY <1>2, <1>3, <1>4

LEMMA DeleteOrders ==
  ASSUME QueueInv, Delete
  PROVE  AnswerInv' /\ OrderInv' /\ KeptInv'
<1> USE DEF QueueInv, ReplayInv
<1>1. PICK op \in {"Delete", "Cleanup"} : Take(op)
  BY DEF Delete
<1>2. Head(queue).m \in Match /\ Head(queue).op = op
  BY <1>1, TakeOrders
<1>3. /\ job' = Erasing(op, Head(queue).m, TRUE)
      /\ UNCHANGED <<room, failures, row, doomed>>
      /\ \A m \in Match : writer'[m].st = "writing" => writer[m].st = "writing"
  BY <1>2 DEF Delete, NoWriter, TypeOK
<1> QED
  BY <1>1, <1>3, TakenOrders

LEMMA FinalizeFileOrders ==
  ASSUME QueueInv, FinalizeFile
  PROVE  AnswerInv' /\ OrderInv' /\ KeptInv'
<1> USE DEF QueueInv, ReplayInv
<1> DEFINE n == Head(queue).m
<1>1. /\ n \in Match /\ job = Idle /\ InOrder(queue')
      /\ \A ops, m : In(queue', ops, m) => In(queue, ops, m)
      /\ In(queue, {"Finalize"}, n) /\ ~In(queue', {"Finalize"}, n) /\ ~In(queue', Lines, n)
  BY TakeOrders DEF FinalizeFile
<1>2. room.pc = "finalizing" /\ room.m = n /\ room.reply = "none"
  BY <1>1 DEF OrderInv, Underway
<1>3. /\ UNCHANGED <<failures, doomed>>
      /\ \A m \in Match : row'[m] = "completed" <=> row[m] = "completed"
      /\ \A m \in Match : writer'[m].st = "writing" => writer[m].st = "writing"
  <2>1. row' = row \/ MarkFailed(n)
    BY DEF FinalizeFile
  <2>2. writer' = [writer EXCEPT ![n] = NoWriter]
    BY DEF FinalizeFile
  <2> QED
    BY <1>1, <2>1, <2>2 DEF FinalizeFile, MarkFailed, NoWriter, TypeOK
<1>4. \/ job' = Idle /\ Answer("Finalize", n, "err")
      \/ /\ job' = [at |-> "commit", op |-> "Finalize", m |-> n, ok |-> TRUE] /\ room' = room
         /\ writer[n].st = "writing"
      \/ job' = Erasing("Finalize", n, FALSE) /\ room' = room
  BY <1>1 DEF FinalizeFile
<1> HIDE DEF n
<1>5. /\ room'.pc = room.pc /\ room'.m = room.m /\ room'.next = room.next
      /\ room'.avail = room.avail /\ AnswerInv'
      /\ room'.reply = "none" \/ (room'.reply = "err" /\ job' = Idle)
  BY <1>2, <1>4, AnswerOnly
<1>6. /\ job'.at \in {"idle", "commit", "erase"}
      /\ job'.at # "idle" => job'.op = "Finalize"
      /\ \A m : ~Busy(job', "Open", m) /\ (Busy(job', "Finalize", m) => m = n /\ job' # Idle)
      /\ job'.at = "erase" => ~job'.ok
      /\ job'.at = "commit" => writer[n].st = "writing" /\ job'.m = n
  BY <1>4 DEF Busy, Idle, Erasing
<1>7. OrderInv'
  <2>1. \A m \in Match : Underway(queue', job', "Open", m) => In(queue, {"Open"}, m)
    BY <1>1, <1>6 DEF Underway
  <2>2. \A m \in Match : Underway(queue', job', "Finalize", m) => m = n /\ job' # Idle
    <3>1. \A m \in Match : In(queue', {"Finalize"}, m) => m = n
      BY <1>1, <1>2 DEF OrderInv, Underway
    <3> QED
      BY <1>1, <1>6, <3>1 DEF Underway
  <2>3. \A m \in Match : In(queue, {"Open"}, m) =>
          m <= room.next /\ room.m # m /\ m \notin failures /\ ~In(queue, Lines, m)
    BY DEF OrderInv, Underway
  <2>4. \A m \in Match : Underway(queue', job', "Open", m) =>
          /\ m <= room'.next /\ room'.m # m /\ m \notin failures' /\ ~In(queue', Lines, m)
          /\ room'.pc # "opening"
    BY <1>1, <1>2, <1>3, <1>5, <2>1, <2>3
  <2>5. \A m \in Match : Underway(queue', job', "Finalize", m) =>
          room'.pc = "finalizing" /\ room'.m = m /\ room'.reply = "none"
    BY <1>2, <1>5, <2>2
  <2>6. \A m \in Match : Busy(job', "Finalize", m) =>
          ~In(queue', {"Finalize"}, m) /\ ~In(queue', Lines, m)
    BY <1>1, <1>6
  <2>7. /\ job'.at = "insert" <=> job'.at # "idle" /\ job'.op = "Open"
        /\ job'.at = "commit" => job'.op = "Finalize"
        /\ job'.at \in {"erase", "unrow"} /\ job'.op = "Finalize" => ~job'.ok
    BY <1>6
  <2> QED
    BY <1>1, <1>6, <2>4, <2>5, <2>6, <2>7 DEF OrderInv
<1>8. KeptInv'
  <2>1. \A m \in Match : In(queue', Lines, m) => In(queue, Lines, m)
    BY <1>1
  <2>2. row[room.m] # "completed"
    BY <1>2 DEF KeptInv
  <2>3. job'.at = "commit" => job'.m \notin failures
    BY <1>1, <1>6 DEF KeptInv
  <2> QED
    BY <1>1, <1>2, <1>3, <1>5, <2>1, <2>2, <2>3 DEF KeptInv, Playing
<1> QED
  BY <1>5, <1>7, <1>8

LEMMA CompleteRowOrders ==
  ASSUME QueueInv, CompleteRow
  PROVE  AnswerInv' /\ OrderInv' /\ KeptInv'
<1> USE DEF QueueInv, ReplayInv
<1> DEFINE n == job.m
<1>1. /\ n \in Match /\ job.at = "commit" /\ job.op = "Finalize"
      /\ UNCHANGED <<queue, failures, writer, doomed>>
  BY DEF CompleteRow, WorkInv, OrderInv
<1>2. Busy(job, "Finalize", n)
  BY <1>1 DEF Busy
<1>3. /\ room.pc = "finalizing" /\ room.m = n /\ room.reply = "none" /\ row[n] # "completed"
      /\ ~In(queue, {"Finalize"}, n) /\ ~In(queue, Lines, n) /\ n \notin failures
      /\ room.next = n
  BY <1>1, <1>2 DEF OrderInv, Underway, KeptInv
<1>4. \/ /\ job' = Idle /\ Answer("Finalize", n, "ok")
         /\ row' = [row EXCEPT ![n] = "completed"]
      \/ /\ job' = Erasing("Finalize", n, FALSE) /\ room' = room
         /\ \A m \in Match : row'[m] = "completed" <=> row[m] = "completed"
  BY <1>1 DEF CompleteRow, MarkFailed, TypeOK
<1>5. row \in [Match -> {"none", "writing", "failed", "completed"}]
  BY DEF TypeOK
<1> HIDE DEF n
<1>6. /\ room'.pc = room.pc /\ room'.m = room.m /\ room'.next = room.next
      /\ room'.avail = room.avail /\ AnswerInv'
      /\ \/ job' = Idle /\ room'.reply = "ok" /\ row' = [row EXCEPT ![n] = "completed"]
         \/ /\ job' = Erasing("Finalize", n, FALSE) /\ room'.reply = "none"
            /\ \A m \in Match : row'[m] = "completed" <=> row[m] = "completed"
  BY <1>3, <1>4, AnswerOnly DEF Awaited
<1>7. /\ job'.at \in {"idle", "erase"}
      /\ job'.at # "idle" => job'.op = "Finalize" /\ ~job'.ok
      /\ \A m : ~Busy(job', "Open", m) /\ (Busy(job', "Finalize", m) => m = n /\ job' # Idle)
  BY <1>6 DEF Busy, Idle, Erasing
<1>8. OrderInv'
  <2>1. \A m \in Match : Underway(queue', job', "Open", m) => Underway(queue, job, "Open", m)
    BY <1>1, <1>7 DEF Underway
  <2>2. \A m \in Match : Underway(queue', job', "Finalize", m) => m = n /\ job' # Idle
    <3>1. \A m \in Match : In(queue, {"Finalize"}, m) => m = n
      BY <1>3 DEF OrderInv, Underway
    <3> QED
      BY <1>1, <1>3, <1>7, <3>1 DEF Underway
  <2>3. job' # Idle => room'.reply = "none"
    BY <1>6
  <2>4. \A m \in Match : Underway(queue, job, "Open", m) =>
          m <= room.next /\ room.m # m /\ m \notin failures /\ ~In(queue, Lines, m)
    BY DEF OrderInv
  <2>5. InOrder(queue')
    BY <1>1 DEF OrderInv
  <2>6. \A m \in Match : Underway(queue', job', "Open", m) =>
          /\ m <= room'.next /\ room'.m # m /\ m \notin failures' /\ ~In(queue', Lines, m)
          /\ room'.pc # "opening"
    BY <1>1, <1>3, <1>6, <2>1, <2>4
  <2>7. \A m \in Match : Underway(queue', job', "Finalize", m) =>
          room'.pc = "finalizing" /\ room'.m = m /\ room'.reply = "none"
    BY <1>3, <1>6, <2>2, <2>3
  <2>8. \A m \in Match : Busy(job', "Finalize", m) =>
          ~In(queue', {"Finalize"}, m) /\ ~In(queue', Lines, m)
    BY <1>1, <1>3, <1>7
  <2>9. /\ job'.at = "insert" <=> job'.at # "idle" /\ job'.op = "Open"
        /\ job'.at = "commit" => job'.op = "Finalize"
        /\ job'.at \in {"erase", "unrow"} /\ job'.op = "Finalize" => ~job'.ok
    BY <1>7
  <2> QED
    BY <1>7, <2>5, <2>6, <2>7, <2>8, <2>9 DEF OrderInv
<1>9. KeptInv'
  <2>1. \A m \in Match : row'[m] = "completed" => row[m] = "completed" \/ m = n
    BY <1>1, <1>5, <1>6
  <2>2. row'[n] = "completed" <=> room'.reply = "ok"
    BY <1>1, <1>3, <1>5, <1>6
  <2>3. n <= room.next
    BY <1>3 DEF KeptInv
  <2>4. room.avail
    BY <1>3 DEF KeptInv
  <2>5. \A m \in Match :
          /\ In(queue', Lines, m) \/ m \in failures' => m <= room'.next /\ row'[m] # "completed"
          /\ row'[m] = "completed" => m <= room'.next
          /\ m \in failures' => writer'[m].st # "writing"
    BY <1>1, <1>3, <1>6, <2>1, <2>3 DEF KeptInv
  <2>6. /\ room'.reply = "ok" => row'[room'.m] = "completed"
        /\ room'.reply # "ok" => row'[room'.m] # "completed"
    BY <1>1, <1>3, <1>6, <2>2 DEF Kept
  <2>7. room'.m <= room'.next /\ room'.pc = "finalizing" /\ room'.m = room'.next /\ room'.avail
        /\ job'.at # "commit"
    BY <1>3, <1>6, <1>7, <2>3, <2>4
  <2> QED
    BY <2>5, <2>6, <2>7 DEF KeptInv, Playing, Kept
<1> QED
  BY <1>6, <1>8, <1>9

\* The erasure of what is left of a Match goes on or is done; one that began with
\* a finalization is answered with a failure.
LEMMA ErasingOrders ==
  ASSUME QueueInv, job.at \in {"erase", "unrow"},
         UNCHANGED <<queue, failures, writer, doomed>>,
         \A m \in Match : row'[m] = "completed" <=> row[m] = "completed",
         \/ job' = [job EXCEPT !.at = "unrow"] /\ room' = room
         \/ job' = Idle /\ \E r \in {"ok", "err"} :
              Answer(job.op, job.m, r) /\ (r = "ok" => job.ok)
  PROVE  AnswerInv' /\ OrderInv' /\ KeptInv'
<1> USE DEF QueueInv, ReplayInv
<1>1. /\ job \in Job /\ job.m \in Match /\ job.op # "Open"
      /\ job.op = "Finalize" => ~job.ok
  BY DEF TypeOK, WorkInv, OrderInv
<1>2. /\ room'.pc = room.pc /\ room'.m = room.m /\ room'.next = room.next
      /\ room'.avail = room.avail /\ AnswerInv'
      /\ \/ room'.reply = room.reply
         \/ job' = Idle /\ Awaited(job.op, job.m) /\ (job.op = "Finalize" => room'.reply = "err")
  <2>1. CASE room' = room
    BY <2>1 DEF AnswerInv
  <2>2. CASE job' = Idle /\ \E r \in {"ok", "err"} :
               Answer(job.op, job.m, r) /\ (r = "ok" => job.ok)
    <3>1. PICK r \in {"ok", "err"} : Answer(job.op, job.m, r) /\ (r = "ok" => job.ok)
      BY <2>2
    <3>2. job.op = "Finalize" => r = "err"
      BY <1>1, <3>1
    <3> QED
      BY <2>2, <3>1, <3>2, AnswerOnly
  <2> QED
    BY <2>1, <2>2
<1>3. /\ job'.at \in {"idle", "unrow"} /\ job'.op \in {"Open", job.op}
      /\ job'.at = "unrow" => job'.op = job.op /\ job'.ok = job.ok /\ job'.m = job.m
      /\ \A m : ~Busy(job', "Open", m) /\ (Busy(job', "Finalize", m) => Busy(job, "Finalize", m))
      /\ \A m : Busy(job', "Finalize", m) => job' # Idle
  BY <1>1 DEF Busy, Idle, Job
<1>4. room.pc = "finalizing" => room'.reply = room.reply \/ (room'.reply = "err" /\ job' = Idle)
  BY <1>1, <1>2 DEF Awaited
<1>5. room.pc = "finalizing" /\ room'.reply # room.reply => row[room.m] # "completed"
  <2>1. ASSUME room.pc = "finalizing", room'.reply # room.reply
        PROVE  room.reply = "none"
    <3>1. job.op = "Finalize" /\ job.m = room.m
      BY <2>1, <1>2 DEF Awaited
    <3>2. Busy(job, "Finalize", room.m) /\ room.m \in Match
      BY <1>1, <3>1 DEF Busy
    <3> QED
      BY <3>2 DEF OrderInv, Underway
  <2> QED
    BY <2>1 DEF KeptInv
<1>6. OrderInv'
  <2>1. \A m \in Match : Underway(queue', job', "Open", m) => Underway(queue, job, "Open", m)
    BY <1>3 DEF Underway
  <2>2. \A m \in Match : Underway(queue', job', "Finalize", m) =>
          /\ Underway(queue, job, "Finalize", m)
          /\ In(queue, {"Finalize"}, m) \/ job' # Idle
    BY <1>3 DEF Underway
  <2>3. \A m \in Match : Underway(queue, job, "Open", m) =>
          /\ m <= room.next /\ room.m # m /\ m \notin failures /\ ~In(queue, Lines, m)
          /\ room.pc = "opening" /\ room.next = m => room.reply = "none"
    BY DEF OrderInv
  <2>4. \A m \in Match : Underway(queue, job, "Finalize", m) =>
          room.pc = "finalizing" /\ room.m = m /\ room.reply = "none"
    BY DEF OrderInv
  <2>5. room.pc = "opening" => room'.reply = room.reply
    BY <1>1, <1>2 DEF Awaited
  <2>6. \A m \in Match : Underway(queue', job', "Open", m) =>
          /\ m <= room'.next /\ room'.m # m /\ m \notin failures' /\ ~In(queue', Lines, m)
          /\ room'.pc = "opening" /\ room'.next = m => room'.reply = "none"
    BY <1>2, <2>1, <2>3, <2>5
  <2>7. \A m \in Match : In(queue, {"Finalize"}, m) => room'.reply = "none"
    <3> SUFFICES ASSUME NEW m \in Match, In(queue, {"Finalize"}, m), room'.reply # "none"
                 PROVE  FALSE
      OBVIOUS
    <3>1. room.pc = "finalizing" /\ room.m = m /\ room.reply = "none"
      BY <2>4 DEF Underway
    <3>2. job.op = "Finalize" /\ job.m = m
      BY <1>2, <3>1 DEF Awaited
    <3>3. ~In(queue, {"Finalize"}, m)
      BY <1>1, <3>2 DEF OrderInv, Busy
    <3> QED
      BY <3>3
  <2>8. \A m \in Match : Underway(queue', job', "Finalize", m) =>
          room'.pc = "finalizing" /\ room'.m = m /\ room'.reply = "none"
    BY <1>2, <1>4, <2>2, <2>4, <2>7
  <2>9. \A m \in Match : Busy(job', "Finalize", m) =>
          ~In(queue', {"Finalize"}, m) /\ ~In(queue', Lines, m)
    BY <1>3 DEF OrderInv
  <2>10. /\ job'.at = "insert" <=> job'.at # "idle" /\ job'.op = "Open"
         /\ job'.at # "commit"
         /\ job'.at \in {"erase", "unrow"} /\ job'.op = "Finalize" => ~job'.ok
    BY <1>1, <1>3
  <2>11. InOrder(queue')
    BY DEF OrderInv
  <2> QED
    BY <1>3, <2>6, <2>8, <2>9, <2>10, <2>11 DEF OrderInv
<1>7. KeptInv'
  <2>1. room.pc = "opening" => room.next \in Match
    BY InHand
  <2>2. room.pc \in Playing \cup {"finalizing", "post"} => room.m \in Match
    BY InHand
  <2>3. \A m \in Match :
          /\ In(queue', Lines, m) \/ m \in failures' => m <= room'.next /\ row'[m] # "completed"
          /\ row'[m] = "completed" => m <= room'.next
          /\ m \in failures' => writer'[m].st # "writing" /\ ~(job'.at = "commit" /\ job'.m = m)
    BY <1>2, <1>3 DEF KeptInv
  <2>4. room'.pc = "finalizing" =>
          /\ room'.reply = "ok" => row'[room'.m] = "completed" \/ doomed'[room'.m] # "no"
          /\ room'.reply # "ok" => row'[room'.m] # "completed"
    BY <1>2, <1>4, <1>5, <2>2 DEF KeptInv, Kept
  <2>5. room'.pc = "post" /\ room'.next = room'.m =>
          /\ room'.avail => row'[room'.m] = "completed" \/ doomed'[room'.m] # "no"
          /\ ~room'.avail => row'[room'.m] # "completed"
    BY <1>2, <2>2 DEF KeptInv, Kept
  <2>6. /\ room'.m <= room'.next
        /\ room'.pc = "opening" => row'[room'.next] # "completed"
        /\ room'.pc \in Playing \cup {"finalizing"} => room'.m = room'.next
        /\ room'.pc \in Playing => row'[room'.m] # "completed"
        /\ room'.pc \in {"finish", "finalizing"} => room'.avail
    BY <1>2, <2>1, <2>2 DEF KeptInv
  <2> QED
    BY <2>3, <2>4, <2>5, <2>6 DEF KeptInv, Kept
<1> QED
  BY <1>2, <1>6, <1>7

LEMMA EraseFilesOrders ==
  ASSUME QueueInv, EraseFiles
  PROVE  AnswerInv' /\ OrderInv' /\ KeptInv'
BY ErasingOrders DEF EraseFiles, Done

LEMMA EraseRowOrders ==
  ASSUME QueueInv, EraseRow
  PROVE  AnswerInv' /\ OrderInv' /\ KeptInv'
<1>1. job.m \in Unfinished /\ row \in [Match -> {"none", "writing", "failed", "completed"}]
  BY DEF EraseRow, QueueInv, ReplayInv, WorkInv, TypeOK
<1>2. \A m \in Match : row'[m] = "completed" <=> row[m] = "completed"
  BY <1>1 DEF EraseRow, Unfinished
<1> QED
  BY <1>2, ErasingOrders DEF EraseRow, Done

\* What else happens to the disk, the database and the process leaves alone what
\* the actor is about, or is of a completed replay.
LEMMA AsideOrders ==
  ASSUME QueueInv, UNCHANGED <<room, queue, failures>>,
         job' = job \/ \E m : job' = Erasing("Delete", m, TRUE),
         \A m \in Match : writer'[m].st = "writing" => writer[m].st = "writing",
         \A m \in Match : row'[m] = "completed" => row[m] = "completed",
         \A m \in Match : Kept(m) => row'[m] = "completed" \/ doomed'[m] # "no",
         job' = job \/ job = Idle
  PROVE  AnswerInv' /\ OrderInv' /\ KeptInv'
<1> USE DEF QueueInv, ReplayInv
<1>1. AnswerInv'
  BY DEF AnswerInv
<1>2. OrderInv'
  <2>1. CASE job' = job
    BY <2>1 DEF OrderInv
  <2>2. CASE job = Idle /\ \E m : job' = Erasing("Delete", m, TRUE)
    <3>1. /\ job'.at = "erase" /\ job'.op = "Delete"
          /\ \A m : ~Busy(job', "Open", m) /\ ~Busy(job', "Finalize", m)
      BY <2>2 DEF Erasing, Busy
    <3>2. \A op, m : Underway(queue', job', op, m) /\ op \in {"Open", "Finalize"} =>
            Underway(queue, job, op, m)
      BY <3>1 DEF Underway
    <3> QED
      BY <3>1, <3>2 DEF OrderInv
  <2> QED
    BY <2>1, <2>2
<1>3. KeptInv'
  <2>1. room.pc = "opening" => room.next \in Match
    BY InHand
  <2>2. room.pc \in Playing \cup {"finalizing", "post"} => room.m \in Match
    BY InHand
  <2>3. job'.at = "commit" => job' = job
    BY DEF Erasing
  <2>4. \A m \in Match :
          /\ In(queue', Lines, m) \/ m \in failures' => m <= room'.next /\ row'[m] # "completed"
          /\ row'[m] = "completed" => m <= room'.next
          /\ m \in failures' => writer'[m].st # "writing" /\ ~(job'.at = "commit" /\ job'.m = m)
    BY <2>3 DEF KeptInv
  <2> QED
    BY <2>1, <2>2, <2>4 DEF KeptInv, Kept
<1> QED
  BY <1>1, <1>2, <1>3

LEMMA DropOpenOrders ==
  ASSUME QueueInv, NEW m \in Match, DropOpen(m)
  PROVE  AnswerInv' /\ OrderInv' /\ KeptInv'
<1>1. \A k \in Match : writer'[k].st = "writing" => writer[k].st = "writing"
  BY DEF DropOpen, NoWriter, QueueInv, ReplayInv, TypeOK
<1> QED
  BY <1>1, AsideOrders DEF DropOpen, Kept

LEMMA RemoveFileOrders ==
  ASSUME QueueInv, NEW m \in Match, RemoveFile(m)
  PROVE  AnswerInv' /\ OrderInv' /\ KeptInv'
<1>1. \A k \in Match : Kept(k) => row'[k] = "completed" \/ doomed'[k] # "no"
  BY DEF RemoveFile, Kept, QueueInv, ReplayInv, TypeOK
<1> QED
  BY <1>1, AsideOrders DEF RemoveFile

LEMMA DeleteRowOrders ==
  ASSUME QueueInv, NEW m \in Match, DeleteRow(m)
  PROVE  AnswerInv' /\ OrderInv' /\ KeptInv'
<1>1. \A k \in Match : Kept(k) => row'[k] = "completed" \/ doomed'[k] # "no"
  BY DEF DeleteRow, Kept, QueueInv, ReplayInv, TypeOK
<1>2. \A k \in Match : row'[k] = "completed" => row[k] = "completed"
  BY DEF DeleteRow, QueueInv, ReplayInv, TypeOK
<1> QED
  BY <1>1, <1>2, AsideOrders DEF DeleteRow

LEMMA ProcessOrders ==
  ASSUME QueueInv, ProcessStep
  PROVE  AnswerInv' /\ OrderInv' /\ KeptInv'
<1>1. CASE Crash
  <2>1. /\ room' = NewRoom(room.next) /\ queue' = << >> /\ job' = Idle /\ failures' = {}
        /\ \A m \in Match : row'[m] = "completed" => m <= room.next
    BY <1>1 DEF Crash, QueueInv, KeptInv
  <2>2. /\ InOrder(queue') /\ \A ops, m : ~In(queue', ops, m)
    BY <2>1, NothingQueued
  <2>3. 0 <= room.next
    BY DEF QueueInv, ReplayInv, TypeOK, Room, Match
  <2>4. \A op, m : ~Busy(job', op, m) /\ ~Underway(queue', job', op, m)
    BY <2>1, <2>2 DEF Busy, Underway, Idle
  <2> QED
    BY <2>1, <2>2, <2>3, <2>4 DEF AnswerInv, OrderInv, KeptInv, NewRoom, Idle, Playing
<1>2. CASE Boot
  BY <1>2, AsideOrders DEF Boot, Kept
<1>3. CASE Ready
  BY <1>3, AsideOrders DEF Ready, Kept
<1>4. CASE \E m \in Match : CleanRow(m)
  <2>1. PICK m \in Match : CleanRow(m)
    BY <1>4
  <2>2. row[m] # "completed" /\ row \in [Match -> {"none", "writing", "failed", "completed"}]
    BY <2>1 DEF CleanRow, QueueInv, ReplayInv, WorkInv, Unfinished, TypeOK
  <2>3. \A k \in Match : row'[k] = "completed" <=> row[k] = "completed"
    BY <2>1, <2>2 DEF CleanRow
  <2> QED
    BY <2>1, <2>3, AsideOrders DEF CleanRow, Kept
<1> QED
  BY <1>1, <1>2, <1>3, <1>4 DEF ProcessStep

-----------------------------------------------------------------------------
LEMMA StutterOrders ==
  ASSUME QueueInv, UNCHANGED vars
  PROVE  AnswerInv' /\ OrderInv' /\ KeptInv'
BY AsideOrders DEF vars, Kept

LEMMA NextOrders == QueueInv /\ [Next]_vars => QueueInv'
<1> SUFFICES ASSUME QueueInv, [Next]_vars PROVE QueueInv'
  OBVIOUS
<1>1. ReplayInv'
  BY NextKeeps DEF QueueInv
<1>2. CASE ActorStep
  BY <1>1, <1>2, ActorAnswers, ActorOrders DEF QueueInv
<1>3. CASE WorkerStep
  <2>1. AnswerInv' /\ OrderInv' /\ KeptInv'
    BY <1>3, OpenPartOrders, InsertRowOrders, LinesOrders, FinalizeFileOrders, CompleteRowOrders,
       DeleteOrders, EraseFilesOrders, EraseRowOrders, DropOpenOrders DEF WorkerStep
  <2> QED
    BY <1>1, <2>1 DEF QueueInv
<1>4. CASE AdminStep
  BY <1>1, <1>4, RemoveFileOrders, DeleteRowOrders DEF AdminStep, QueueInv
<1>5. CASE ProcessStep
  BY <1>1, <1>5, ProcessOrders DEF QueueInv
<1>6. CASE UNCHANGED vars
  BY <1>1, <1>6, StutterOrders DEF QueueInv
<1> QED
  BY <1>2, <1>3, <1>4, <1>5, <1>6 DEF Next

LEMMA InitOrders == Init => QueueInv
<1> SUFFICES ASSUME Init PROVE QueueInv
  OBVIOUS
<1>1. ReplayInv
  BY InitHolds
<1>2. /\ room = NewRoom(0) /\ queue = << >> /\ job = Idle /\ failures = {}
      /\ \A m \in Match : row[m] = "none"
  BY DEF Init
<1>3. InOrder(queue) /\ \A ops, m : ~In(queue, ops, m)
  BY <1>2, NothingQueued
<1>4. \A op, m : ~Busy(job, op, m) /\ ~Underway(queue, job, op, m)
  BY <1>2, <1>3 DEF Busy, Underway, Idle
<1>5. AnswerInv /\ OrderInv
  BY <1>2, <1>3, <1>4 DEF AnswerInv, OrderInv, NewRoom, Idle
<1>6. KeptInv
  BY <1>2, <1>3, <1>4 DEF KeptInv, NewRoom, Idle, Playing
<1> QED
  BY <1>1, <1>5, <1>6 DEF QueueInv

\* The inductive invariant of the order of the effects and of what the actor may
\* conclude from an answer.
THEOREM OrderInvariant == Spec => []QueueInv
BY InitOrders, NextOrders, PTL DEF Spec

\* After a Match, and until a Rematch is tried, the Room says that the replay is
\* available exactly when the database has it completed, whatever was lost, late
\* or refused on the way (complete_match, handle_persistence_failure).
THEOREM AvailableReplayIsKept == Spec => []AvailableMeansKept
<1>1. QueueInv => AvailableMeansKept
  <2> SUFFICES ASSUME QueueInv PROVE AvailableMeansKept
    OBVIOUS
  <2> QED
    BY DEF QueueInv, KeptInv, Kept, AvailableMeansKept, ReplayInv, TypeOK, Room
<1> QED
  BY <1>1, OrderInvariant, PTL

-----------------------------------------------------------------------------
(* What is left of a Match, and who has been told *)

\* Match m is still to be finished, given up or deleted by somebody: the actor
\* has heard that it is open or plays it, or its last effect is queued.
Owner(r, q, m) ==
  \/ r.pc = "opening" /\ r.next = m /\ r.reply = "ok"
  \/ r.pc \in Playing \ {"aborting"} /\ r.m = m
  \/ In(q, {"Finalize", "Cleanup"}, m)

\* A Room that has lost nothing offers replays, and waits for every opening it
\* has sent.
HonestInv ==
  ~room.lost =>
    /\ room.avail
    /\ \A m \in Match : Underway(queue, job, "Open", m) => room.pc = "opening" /\ room.next = m

\* The start of the process leaves only what it still has to look at.
CleanupInv ==
  process = "starting" /\ ~degraded => part = {} /\ Unfinished \subseteq asked

\* As long as the health says nothing, every part file and every unfinished row
\* belongs to a writer that writes or to the effect under way,
RemainsInv ==
  process = "up" /\ ~degraded => \A m \in Match :
    /\ m \in part => writer[m].st = "writing" \/ (job.at = "insert" /\ job.m = m)
    /\ row[m] # "failed" /\ writer[m].st # "failed"
    /\ row[m] = "writing" =>
         writer[m].st = "writing" \/ (job.at \in {"commit", "erase", "unrow"} /\ job.m = m)

\* and, as long as the Room says nothing either, such a writer to an owner.
OwnedInv ==
  process = "up" /\ ~degraded /\ ~room.lost =>
    \A m \in Match : writer[m].st = "writing" => Owner(room, queue, m)

ToldInv == HonestInv /\ CleanupInv /\ RemainsInv /\ OwnedInv

\* What the actor's steps leave alone and what they may do to the queue.
LEMMA ActorSends ==
  ASSUME QueueInv, ActorStep
  PROVE  /\ process = "up" /\ room \in Room
         /\ UNCHANGED <<process, job, writer, part, row, degraded>>
         /\ \A ops, m : In(queue, ops, m) => In(queue', ops, m)
         /\ room.lost => room'.lost
<1>1. /\ process = "up" /\ room \in Room /\ queue \in Seq(Effect)
      /\ UNCHANGED <<process, job, writer, part, row, degraded>>
  BY DEF ActorStep, Start, Opened, Emit, Flush, Flushed, Mark, Finish, Finalize, Finalized, Abort,
         CleanUp, CleanedUp, BackToLobby, Configure, Close, HearFailure, SendDeletion, Listening,
         Quiet, QueueInv, ReplayInv, TypeOK
<1>2. queue' = queue \/ \E e \in Effect : queue' = Append(queue, e)
  <2>1. UNCHANGED queue \/ \E op, m, line : Send(Eff(op, m, line))
    BY DEF ActorStep, Start, Opened, Emit, Flush, Flushed, Mark, Finish, Finalize, Finalized,
           Abort, CleanUp, CleanedUp, BackToLobby, Configure, Close, HearFailure, SendDeletion
  <2>2. queue' \in Seq(Effect)
    BY NextKeeps DEF Next, QueueInv, ReplayInv, TypeOK
  <2>3. ASSUME NEW e, Send(e) PROVE e \in Effect
    <3>1. queue' = Append(queue, e) /\ Len(queue') = Len(queue) + 1 /\ queue'[Len(queue')] = e
      BY <1>1, <2>3 DEF Send
    <3>2. Len(queue') \in DOMAIN queue'
      BY <1>1, <2>2, <3>1
    <3> QED
      BY <2>2, <3>1, <3>2
  <2> QED
    BY <2>1, <2>3 DEF Send
<1>3. \A ops, m : In(queue, ops, m) => In(queue', ops, m)
  BY <1>1, <1>2, Grown
<1>4. room.lost => room'.lost
  BY <1>1 DEF ActorStep, Start, Opened, Emit, Flush, Flushed, Mark, Finish, Finalize, Finalized,
       Abort, CleanUp, CleanedUp, BackToLobby, Configure, Close, HearFailure, SendDeletion,
       FailReplay, roomVars, Room
<1> QED
  BY <1>1, <1>3, <1>4

\* Only Start sends an opening.
LEMMA NothingOpened ==
  ASSUME QueueInv, ActorStep, ~Start, NEW m, In(queue', {"Open"}, m)
  PROVE  In(queue, {"Open"}, m)
<1>1. queue \in Seq(Effect) /\ queue' \in Seq(Effect)
  BY NextKeeps DEF Next, QueueInv, ReplayInv, TypeOK
<1>2. \/ queue' = queue
      \/ \E op \in {"Append", "Before", "After", "Flush", "Finalize", "Cleanup", "Delete"} : \E k, line :
           queue' = Append(queue, Eff(op, k, line))
  <2>1. CASE Opened \/ Emit \/ Flush \/ Flushed
    BY <2>1 DEF Opened, Emit, Flush, Flushed, Send
  <2>2. CASE Mark \/ Finish \/ Finalize \/ Finalized
    BY <2>2 DEF Mark, Finish, Finalize, Finalized, Send
  <2>3. CASE Abort \/ CleanUp \/ CleanedUp \/ BackToLobby \/ Configure \/ Close
    BY <2>3 DEF Abort, CleanUp, CleanedUp, BackToLobby, Configure, Close, Send
  <2>4. CASE \E k \in Match : HearFailure(k) \/ SendDeletion(k)
    BY <2>4 DEF HearFailure, SendDeletion, Send
  <2> QED
    BY <2>1, <2>2, <2>3, <2>4 DEF ActorStep
<1>3. CASE queue' = queue
  BY <1>3
<1>4. CASE \E op \in {"Append", "Before", "After", "Flush", "Finalize", "Cleanup", "Delete"} : \E k, line :
             queue' = Append(queue, Eff(op, k, line))
  <2>0. PICK op \in {"Append", "Before", "After", "Flush", "Finalize", "Cleanup", "Delete"} : \E k, line :
          queue' = Append(queue, Eff(op, k, line))
    BY <1>4
  <2>1. PICK k, line : queue' = Append(queue, Eff(op, k, line))
    BY <2>0
  <2> DEFINE e == Eff(op, k, line)
  <2>2. e.op # "Open" /\ queue' = Append(queue, e)
    BY <2>1 DEF Eff
  <2> HIDE DEF e
  <2>3. PICK i \in DOMAIN queue' : queue'[i].op = "Open" /\ queue'[i].m = m
    BY DEF In
  <2>4. i \in DOMAIN queue /\ queue'[i] = queue[i]
    BY <1>1, <2>2, <2>3
  <2> QED
    BY <2>3, <2>4 DEF In
<1> QED
  BY <1>2, <1>3, <1>4

LEMMA ActorHonest ==
  ASSUME QueueInv, ToldInv, ActorStep
  PROVE  HonestInv'
<1>1. /\ room \in Room /\ job' = job
      /\ room.lost => room'.lost
      /\ ~room.lost => room.avail
  BY ActorSends DEF ToldInv, HonestInv
<1>2. ~room'.lost => room'.avail
  BY <1>1 DEF ActorStep, Start, Opened, Emit, Flush, Flushed, Mark, Finish, Finalize, Finalized,
       Abort, CleanUp, CleanedUp, BackToLobby, Configure, Close, HearFailure, SendDeletion,
       FailReplay, roomVars, Room
<1>3. ASSUME ~room'.lost, NEW m \in Match, Underway(queue', job', "Open", m)
      PROVE  room'.pc = "opening" /\ room'.next = m
  <2>1. ~room.lost /\ room \in Room
    BY <1>1, <1>3, ActorSends
  <2>2. ASSUME NEW k \in Match, Underway(queue, job, "Open", k)
        PROVE  room.pc = "opening" /\ room.next = k /\ room.reply = "none"
    BY <2>1, <2>2 DEF ToldInv, HonestInv, QueueInv, OrderInv
  <2>3. CASE Start
    <3>1. /\ room.pc # "opening" /\ Send(Eff("Open", room.next + 1, 1))
          /\ room' = [room EXCEPT !.pc = "opening", !.home = room.pc, !.next = @ + 1,
                                  !.reply = "none"]
      BY <1>3, <2>1, <2>3 DEF Start, Listening, Room
    <3>2. room'.pc = "opening" /\ room'.next = room.next + 1
      BY <2>1, <3>1 DEF Room
    <3> DEFINE e == Eff("Open", room.next + 1, 1)
    <3>3. room.next + 1 \in Match
      <4>1. MaxMatches \in Nat /\ room.next < MaxMatches /\ room.next \in Nat
        BY <2>3, BoundAssumption, MatchNumbers DEF Start, QueueInv, ReplayInv
      <4> QED
        BY <4>1 DEF Match
    <3>4. e \in Effect /\ e.m = room.next + 1
      BY <3>3, LineNumbers, EffectType DEF Eff
    <3>5. queue \in Seq(Effect) /\ queue' = Append(queue, e)
      BY <3>1 DEF Send, QueueInv, ReplayInv, TypeOK
    <3> HIDE DEF e
    <3>6. In(queue', {"Open"}, m) => In(queue, {"Open"}, m) \/ m = room.next + 1
      BY <3>4, <3>5, Grown
    <3> QED
      BY <1>1, <1>3, <2>2, <3>1, <3>2, <3>6 DEF Underway
  <2>4. CASE ~Start
    <3>1. Underway(queue, job, "Open", m)
      BY <1>3, <2>4, ActorSends, NothingOpened DEF Underway
    <3>2. room.pc = "opening" /\ room.next = m /\ room.reply = "none"
      BY <2>2, <3>1
    <3>3. room' = room
      BY <1>3, <2>1, <2>4, <3>2
      DEF ActorStep, Opened, Emit, Flush, Flushed, Mark, Finish, Finalize, Finalized, Abort,
          CleanUp, CleanedUp, BackToLobby, Configure, Close, HearFailure, SendDeletion, FailReplay,
          Listening, Room
    <3> QED
      BY <3>2, <3>3
  <2> QED
    BY <2>3, <2>4
<1> QED
  BY <1>2, <1>3 DEF HonestInv

\* An owner passes the Match on to the next one, or the Room says it is lost.
LEMMA ActorOwns ==
  ASSUME QueueInv, ToldInv, ActorStep, ~room'.lost, NEW m \in Match, Owner(room, queue, m)
  PROVE  Owner(room', queue', m)
<1>1. room \in Room /\ ~room.lost /\ room.avail
  BY ActorSends DEF ToldInv, HonestInv
<1>2. CASE In(queue, {"Finalize", "Cleanup"}, m)
  BY <1>2, ActorSends DEF Owner
<1>3. CASE room.pc = "opening" /\ room.next = m /\ room.reply = "ok"
  <2>1. room' = room \/ (room'.pc = "playing" /\ room'.m = room.next)
    BY <1>1, <1>3
    DEF ActorStep, Start, Opened, Emit, Flush, Flushed, Mark, Finish, Finalize, Finalized, Abort,
        CleanUp, CleanedUp, BackToLobby, Configure, Close, HearFailure, SendDeletion, FailReplay,
        Listening, Room
  <2> QED
    BY <1>2, <1>3, <2>1, ActorSends DEF Owner, Playing
<1>4. CASE room.pc \in Playing \ {"aborting"} /\ room.m = m
  <2>1. CASE Finalize \/ CleanUp
    <3>1. \E op \in {"Finalize", "Cleanup"} : queue' = Append(queue, Eff(op, m, 0))
      BY <1>1, <1>4, <2>1 DEF Finalize, CleanUp, Send, Room
    <3>2. queue \in Seq(Effect)
      BY DEF QueueInv, ReplayInv, TypeOK
    <3>3. PICK op \in {"Finalize", "Cleanup"} : queue' = Append(queue, Eff(op, m, 0))
      BY <3>1
    <3>4. Eff(op, m, 0) \in Effect /\ Eff(op, m, 0).op = op /\ Eff(op, m, 0).m = m
      BY LineNumbers, EffectType DEF Eff
    <3>5. In(queue', {"Finalize", "Cleanup"}, m)
      BY <3>2, <3>3, <3>4, Grown
    <3> QED
      BY <3>5 DEF Owner
  <2>2. CASE ~(Finalize \/ CleanUp)
    <3>1. room'.pc \in Playing \ {"aborting"} /\ room'.m = room.m
      BY <1>1, <1>4, <2>2
      DEF ActorStep, Start, Opened, Emit, AfterLine, Flush, Flushed, Mark, Finish, Finalized, Abort,
          CleanedUp, BackToLobby, Configure, Close, HearFailure, SendDeletion, FailReplay,
          Listening, Room, Playing, roomVars
    <3> QED
      BY <1>4, <3>1 DEF Owner
  <2> QED
    BY <2>1, <2>2
<1> QED
  BY <1>2, <1>3, <1>4 DEF Owner

LEMMA ActorTells ==
  ASSUME QueueInv, ToldInv, ActorStep
  PROVE  ToldInv'
<1>1. /\ process = "up" /\ UNCHANGED <<process, job, writer, part, row, degraded>>
      /\ room.lost => room'.lost
  BY ActorSends
<1>2. CleanupInv' /\ RemainsInv'
  BY <1>1 DEF ToldInv, CleanupInv, RemainsInv
<1>3. OwnedInv'
  BY <1>1, ActorOwns DEF ToldInv, OwnedInv
<1> QED
  BY <1>2, <1>3, ActorHonest DEF ToldInv

\* What the worker may do to the Room and the queue.
LEMMA WorkerHears ==
  ASSUME QueueInv, WorkerStep
  PROVE  /\ process = "up" /\ process' = process
         /\ room'.pc = room.pc /\ room'.m = room.m /\ room'.next = room.next
         /\ room'.avail = room.avail /\ room'.lost = room.lost
         /\ room.pc = "opening" /\ ~OpenPart /\ ~InsertRow => room'.reply = room.reply
<1> USE DEF QueueInv, ReplayInv
<1>1. room \in Room /\ (job.at \in {"erase", "unrow"} => job.op # "Open")
  BY DEF TypeOK, OrderInv
<1>2. CASE OpenPart \/ InsertRow
  <2>1. \E op, m : \E r \in {"ok", "err"} : Answer(op, m, r) \/ room' = room
    BY <1>2 DEF OpenPart, InsertRow
  <2>2. process = "up" /\ process' = process
    BY <1>2 DEF OpenPart, InsertRow, Take
  <2> QED
    BY <1>2, <2>1, <2>2, AnswerOnly
<1>3. CASE AppendLine \/ RecordAuxiliary \/ Delete \/ \E m \in Match : DropOpen(m)
  BY <1>3 DEF AppendLine, RecordAuxiliary, Delete, DropOpen, Take
<1>4. CASE FlushKyoku \/ FinalizeFile \/ CompleteRow
  <2>1. \E op \in {"Flush", "Finalize"} : \E m : \E r \in {"ok", "err"} : Answer(op, m, r) \/ room' = room
    BY <1>4 DEF FlushKyoku, FinalizeFile, CompleteRow
  <2>2. process = "up" /\ process' = process
    BY <1>4 DEF FlushKyoku, FinalizeFile, CompleteRow, Take
  <2> QED
    BY <1>1, <2>1, <2>2, AnswerOnly DEF Awaited
<1>5. CASE EraseFiles \/ EraseRow
  <2>1. \E r \in {"ok", "err"} : Answer(job.op, job.m, r) \/ room' = room
    BY <1>5 DEF EraseFiles, EraseRow, Done
  <2>2. process = "up" /\ process' = process /\ job.op # "Open"
    BY <1>1, <1>5 DEF EraseFiles, EraseRow
  <2> QED
    BY <1>1, <2>1, <2>2, AnswerOnly DEF Awaited
<1> QED
  BY <1>2, <1>3, <1>4, <1>5 DEF WorkerStep

\* An opening under way was under way before.
LEMMA WorkerOpens ==
  ASSUME QueueInv, WorkerStep, NEW m \in Match, Underway(queue', job', "Open", m)
  PROVE  Underway(queue, job, "Open", m)
<1>1. job \in Job
  BY DEF QueueInv, ReplayInv, TypeOK
<1>2. CASE OpenPart
  <2>1. Take("Open")
    BY <1>2 DEF OpenPart
  <2>2. \A ops, k : In(queue', ops, k) => In(queue, ops, k)
    BY <2>1, TakeOrders
  <2>3. In(queue, {"Open"}, Head(queue).m)
    BY <2>1, TakeOrders
  <2>4. job' = job \/ job'.m = Head(queue).m
    BY <1>2 DEF OpenPart
  <2> QED
    BY <2>2, <2>3, <2>4 DEF Underway, Busy
<1>3. CASE InsertRow \/ CompleteRow \/ EraseFiles \/ EraseRow \/ \E k \in Match : DropOpen(k)
  <2>1. /\ queue' = queue
        /\ \/ job'.at = "idle" \/ job'.op # "Open"
           \/ job' = [job EXCEPT !.at = "unrow"] /\ job.at = "erase"
    BY <1>3 DEF InsertRow, CompleteRow, EraseFiles, EraseRow, DropOpen, Done, Idle, Erasing
  <2> QED
    BY <1>1, <2>1 DEF Underway, Busy, Job
<1>4. CASE AppendLine \/ RecordAuxiliary \/ FlushKyoku \/ FinalizeFile \/ Delete
  <2>1. /\ \A ops, k : In(queue', ops, k) => In(queue, ops, k)
        /\ job = Idle
    BY <1>4, TakeOrders DEF AppendLine, RecordAuxiliary, FlushKyoku, FinalizeFile, Delete
  <2>2. job'.at = "idle" \/ job'.op # "Open"
    <3>1. CASE job' = Idle \/ job' = job
      BY <2>1, <3>1 DEF Idle
    <3>2. CASE ~(job' = Idle \/ job' = job)
      <4>1. \/ \E k : job' = Erasing("Finalize", k, FALSE)
            \/ \E k : job' = [at |-> "commit", op |-> "Finalize", m |-> k, ok |-> TRUE]
            \/ Delete /\ job' = Erasing(Head(queue).op, Head(queue).m, TRUE)
        BY <1>4, <3>2 DEF AppendLine, RecordAuxiliary, FlushKyoku, FinalizeFile, Delete
      <4>2. Delete => Head(queue).op \in {"Delete", "Cleanup"}
        BY DEF Delete, Take
      <4> QED
        BY <4>1, <4>2 DEF Erasing
    <3> QED
      BY <3>1, <3>2
  <2> QED
    BY <2>1, <2>2 DEF Underway, Busy
<1> QED
  BY <1>2, <1>3, <1>4 DEF WorkerStep

LEMMA WorkerHonest ==
  ASSUME QueueInv, ToldInv, WorkerStep
  PROVE  HonestInv' /\ CleanupInv'
<1>1. HonestInv'
  BY WorkerHears, WorkerOpens DEF ToldInv, HonestInv
<1>2. CleanupInv'
  BY WorkerHears DEF CleanupInv
<1> QED
  BY <1>1, <1>2

\* A writer that goes on writing keeps its owner.
LEMMA WorkerOwns ==
  ASSUME QueueInv, ToldInv, WorkerStep, ~room'.lost, NEW m \in Match, Owner(room, queue, m),
         In(queue, {"Finalize", "Cleanup"}, m) => In(queue', {"Finalize", "Cleanup"}, m)
  PROVE  Owner(room', queue', m)
<1>1. CASE room.pc = "opening" /\ room.next = m /\ room.reply = "ok"
  <2>1. \A k \in Match : ~Underway(queue, job, "Open", k)
    <3> SUFFICES ASSUME NEW k \in Match, Underway(queue, job, "Open", k) PROVE FALSE
      OBVIOUS
    <3>1. room.pc = "opening" /\ room.next = k
      BY WorkerHears DEF ToldInv, HonestInv
    <3> QED
      BY <1>1, <3>1 DEF QueueInv, OrderInv
  <2>2. ~OpenPart
    BY <2>1, TakeOrders DEF OpenPart, Underway
  <2>3. ~InsertRow
    BY <2>1 DEF InsertRow, Underway, Busy, QueueInv, OrderInv, ReplayInv, WorkInv
  <2> QED
    BY <1>1, <2>2, <2>3, WorkerHears DEF Owner
<1>2. CASE room.pc \in Playing \ {"aborting"} /\ room.m = m
  BY <1>2, WorkerHears DEF Owner
<1> QED
  BY <1>1, <1>2 DEF Owner

\* The worker's part of a Match: its part file, its row and its writer.
Sound(j, p, w, r, m) ==
  /\ m \in p => w = "writing" \/ (j.at = "insert" /\ j.m = m)
  /\ r \in {"none", "writing", "completed"} /\ w # "failed"
  /\ r = "writing" => w = "writing" \/ (j.at \in {"commit", "erase", "unrow"} /\ j.m = m)

\* Every part file and unfinished row still has somebody at work on it.
LEMMA WorkerRemains ==
  ASSUME QueueInv, ToldInv, WorkerStep, ~degraded', NEW m \in Match
  PROVE  /\ Sound(job', part', writer'[m].st, row'[m], m)
         /\ writer'[m].st = "writing" => writer[m].st = "writing" \/ (InsertRow /\ m = job.m)
<1> USE DEF QueueInv, ReplayInv
<1>1. /\ job \in Job /\ row \in [Match -> {"none", "writing", "failed", "completed"}]
      /\ writer \in [Match -> Writer]
      /\ process = "up"
      /\ Head(queue).m \in Match \/ ~\E op : Take(op)
      /\ job.at # "idle" => job.m \in Match
      /\ job.at \in {"commit", "erase", "unrow"} => writer[job.m].st = "none"
  BY WorkerHears, TakeKeeps DEF TypeOK, WorkInv
<1>2. ~degraded => Sound(job, part, writer[m].st, row[m], m)
  BY <1>1 DEF ToldInv, RemainsInv, Sound
<1>3. CASE OpenPart
  BY <1>1, <1>2, <1>3 DEF OpenPart, Take, Sound, Idle
<1>4. CASE InsertRow
  BY <1>1, <1>2, <1>4 DEF InsertRow, Sound, Idle, Writer
<1>5. CASE AppendLine
  <2> DEFINE n == Head(queue).m
  <2>1. /\ job = Idle /\ job' = job /\ n \in Match
        /\ writer[n].st = "writing" /\ UNCHANGED <<part, row, degraded>>
        /\ writer' = [writer EXCEPT ![n] = [st |-> "writing", lines |-> @.lines + 1, ahead |-> FALSE]]
    BY <1>1, <1>5 DEF AppendLine, Take, FailWriter
  <2> HIDE DEF n
  <2>2. Sound(job, part, writer[m].st, row[m], m)
    BY <1>2, <2>1
  <2>3. writer'[m].st = writer[m].st
    BY <1>1, <2>1
  <2> QED
    BY <2>1, <2>2, <2>3 DEF Sound
<1>6. CASE RecordAuxiliary
  BY <1>1, <1>2, <1>6 DEF RecordAuxiliary, Take, FailWriter, Sound, Writer
<1>7. CASE FlushKyoku
  BY <1>1, <1>2, <1>7 DEF FlushKyoku, Take, FailWriter, Sound
<1>8. CASE FinalizeFile
  <2> DEFINE n == Head(queue).m
  <2>1. job = Idle /\ n \in Match
    BY <1>1, <1>8 DEF FinalizeFile, Take
  <2>2. /\ writer' = [writer EXCEPT ![n] = NoWriter]
        /\ writer[n].st = "writing" /\ part' = part \ {n} /\ UNCHANGED <<degraded, row>>
        /\ job' = [at |-> "commit", op |-> "Finalize", m |-> n, ok |-> TRUE]
    BY <1>8 DEF FinalizeFile
  <2> HIDE DEF n
  <2>3. Sound(Idle, part, writer[m].st, row[m], m)
    BY <1>2, <2>1, <2>2
  <2>4. writer'[m] = IF m = n THEN NoWriter ELSE writer[m]
    BY <1>1, <2>2
  <2>5. job'.at = "commit" /\ job'.m = n /\ NoWriter.st = "none" /\ Idle.at = "idle"
    BY <2>2 DEF Idle, NoWriter
  <2> QED
    BY <2>2, <2>3, <2>4, <2>5 DEF Sound
<1>9. CASE CompleteRow
  BY <1>1, <1>2, <1>9 DEF CompleteRow, Sound, Idle
<1>10. CASE Delete
  BY <1>1, <1>2, <1>10 DEF Delete, Take, Sound, Idle, NoWriter, Erasing
<1>11. CASE EraseFiles
  BY <1>1, <1>2, <1>11 DEF EraseFiles, Done, Unfinished, Sound, Idle, Job
<1>12. CASE EraseRow
  BY <1>1, <1>2, <1>12 DEF EraseRow, Done, Sound, Idle
<1>13. CASE \E k \in Match : DropOpen(k)
  BY <1>1, <1>2, <1>13 DEF DropOpen, Sound, Idle, NoWriter, Erasing
<1> QED
  BY <1>3, <1>4, <1>5, <1>6, <1>7, <1>8, <1>9, <1>10, <1>11, <1>12, <1>13 DEF WorkerStep

\* A deletion or a finalization that is taken leaves no writer behind.
LEMMA LastEffectTaken ==
  ASSUME QueueInv, WorkerStep, NEW m \in Match, writer'[m].st = "writing",
         In(queue, {"Finalize", "Cleanup"}, m)
  PROVE  In(queue', {"Finalize", "Cleanup"}, m)
<1> USE DEF QueueInv, ReplayInv
<1> DEFINE n == Head(queue).m
<1>1. queue \in Seq(Effect) /\ writer \in [Match -> Writer]
  BY DEF TypeOK
<1>2. \/ queue' = queue
      \/ /\ queue # << >> /\ queue' = Tail(queue)
         /\ Head(queue).op \in {"Finalize", "Cleanup"} => writer' = [writer EXCEPT ![n] = NoWriter]
  BY DEF WorkerStep, OpenPart, InsertRow, AppendLine, RecordAuxiliary, FlushKyoku, FinalizeFile,
         CompleteRow, Delete, EraseFiles, EraseRow, DropOpen, Take
<1>3. CASE queue' = queue
  BY <1>3
<1>4. CASE /\ queue # << >> /\ queue' = Tail(queue)
           /\ Head(queue).op \in {"Finalize", "Cleanup"} => writer' = [writer EXCEPT ![n] = NoWriter]
  <2>1. \A ops, k : In(queue, ops, k) <=> In(queue', ops, k) \/ (Head(queue).op \in ops /\ n = k)
    BY <1>1, <1>4, Popped
  <2>2. Head(queue).op \in {"Finalize", "Cleanup"} => n # m
    BY <1>1, <1>4 DEF NoWriter
  <2> HIDE DEF n
  <2>3. In(queue, {"Finalize", "Cleanup"}, m) <=>
          In(queue', {"Finalize", "Cleanup"}, m)
            \/ (Head(queue).op \in {"Finalize", "Cleanup"} /\ n = m)
    BY <2>1
  <2> QED
    BY <2>2, <2>3
<1> QED
  BY <1>2, <1>3, <1>4

LEMMA WorkerTells ==
  ASSUME QueueInv, ToldInv, WorkerStep
  PROVE  ToldInv'
<1>1. /\ process = "up" /\ process' = process /\ room'.lost = room.lost
      /\ degraded => degraded'
  <2>1. degraded => degraded'
    BY DEF WorkerStep, OpenPart, InsertRow, AppendLine, RecordAuxiliary, FlushKyoku, FailWriter,
           FinalizeFile, CompleteRow, Delete, EraseFiles, EraseRow, DropOpen
  <2> QED
    BY <2>1, WorkerHears
<1>2. RemainsInv'
  <2>1. ASSUME ~degraded', NEW m \in Match
        PROVE  Sound(job', part', writer'[m].st, row'[m], m)
    BY <2>1, WorkerRemains
  <2> QED
    BY <2>1 DEF RemainsInv, Sound
<1>3. OwnedInv'
  <2> SUFFICES ASSUME ~degraded', ~room'.lost, NEW m \in Match, writer'[m].st = "writing"
               PROVE  Owner(room', queue', m)
    BY DEF OwnedInv
  <2>1. CASE writer[m].st = "writing"
    <3>1. Owner(room, queue, m)
      BY <1>1, <2>1 DEF ToldInv, OwnedInv
    <3> QED
      BY <3>1, WorkerOwns, LastEffectTaken
  <2>2. CASE InsertRow /\ m = job.m
    <3>1. Busy(job, "Open", m) /\ job.op = "Open"
      BY <2>2 DEF InsertRow, QueueInv, OrderInv, Busy
    <3>2. room.pc = "opening" /\ room.next = m
      BY <1>1, <3>1 DEF ToldInv, HonestInv, Underway
    <3>3. Answer("Open", m, "ok")
      BY <2>2, <3>1 DEF InsertRow
    <3>4. room'.pc = "opening" /\ room'.next = m /\ room'.reply = "ok"
      BY <3>2, <3>3, AnswerOnly DEF Awaited
    <3> QED
      BY <3>4 DEF Owner
  <2> QED
    BY <2>1, <2>2, WorkerRemains
<1> QED
  BY <1>2, <1>3, WorkerHonest DEF ToldInv

LEMMA OutsideTells ==
  ASSUME QueueInv, ToldInv, AdminStep \/ ProcessStep \/ UNCHANGED vars
  PROVE  ToldInv'
<1> USE DEF QueueInv, ReplayInv
<1>1. row \in [Match -> {"none", "writing", "failed", "completed"}] /\ writer \in [Match -> Writer]
      /\ degraded \in BOOLEAN
  BY DEF TypeOK
<1>2. CASE UNCHANGED vars
  BY <1>2 DEF vars, ToldInv, HonestInv, CleanupInv, RemainsInv, OwnedInv, Unfinished
<1>3. CASE AdminStep
  <2>1. /\ UNCHANGED <<process, room, asked, queue, job, writer, part, degraded>>
        /\ process = "up"
        /\ \A m \in Match : row'[m] = row[m] \/ row'[m] = "none"
    BY <1>1, <1>3 DEF AdminStep, RemoveFile, DeleteRow
  <2>2. HonestInv' /\ CleanupInv' /\ OwnedInv'
    BY <2>1 DEF ToldInv, HonestInv, CleanupInv, OwnedInv
  <2>3. RemainsInv'
    BY <2>1 DEF ToldInv, RemainsInv
  <2> QED
    BY <2>2, <2>3 DEF ToldInv
<1>4. CASE Crash
  <2>1. /\ room' = NewRoom(room.next) /\ queue' = << >> /\ job' = Idle /\ process' = "down"
    BY <1>4 DEF Crash
  <2>2. \A op, m : ~In(queue', {op}, m) /\ ~Busy(job', op, m)
    BY <2>1, NothingQueued DEF Busy, Idle
  <2>3. HonestInv'
    BY <2>1, <2>2 DEF HonestInv, NewRoom, Underway
  <2> QED
    BY <2>1, <2>3 DEF ToldInv, CleanupInv, RemainsInv, OwnedInv
<1>5. CASE Boot
  <2>1. /\ UNCHANGED <<room, queue, job>> /\ process' = "starting"
        /\ asked' = Unfinished /\ row' = row /\ (~degraded' => part' = {})
    BY <1>5 DEF Boot
  <2> QED
    BY <2>1 DEF ToldInv, HonestInv, CleanupInv, RemainsInv, OwnedInv, Unfinished
<1>6. CASE \E m \in Match : CleanRow(m)
  <2>1. PICK m \in Match : CleanRow(m)
    BY <1>6
  <2>2. /\ UNCHANGED <<room, queue, job>> /\ process = "starting" /\ process' = "starting"
        /\ asked' = asked \ {m}
        /\ ~degraded' => ~degraded /\ part' = part \ {m} /\ row' = [row EXCEPT ![m] = "none"]
    BY <2>1 DEF CleanRow
  <2> QED
    BY <1>1, <2>2 DEF ToldInv, HonestInv, CleanupInv, RemainsInv, OwnedInv, Unfinished
<1>7. CASE Ready
  <2>1. /\ UNCHANGED <<room, queue, job, part, row, writer>> /\ process = "starting"
        /\ process' = "up" /\ asked = {} /\ (~degraded' => ~degraded)
        /\ \A m \in Match : writer[m].st = "none"
    BY <1>7 DEF Ready, WorkInv
  <2>2. ~degraded' => part = {} /\ Unfinished = {}
    BY <2>1 DEF ToldInv, CleanupInv
  <2>3. ~degraded' => \A m \in Match : row[m] \notin {"writing", "failed"}
    BY <2>2 DEF Unfinished
  <2> QED
    BY <2>1, <2>2, <2>3 DEF ToldInv, HonestInv, CleanupInv, RemainsInv, OwnedInv
<1> QED
  BY <1>2, <1>3, <1>4, <1>5, <1>6, <1>7 DEF ProcessStep

LEMMA NextTells == QueueInv /\ ToldInv /\ [Next]_vars => ToldInv'
BY ActorTells, WorkerTells, OutsideTells DEF Next

LEMMA InitTells == Init => ToldInv
<1> SUFFICES ASSUME Init PROVE ToldInv
  OBVIOUS
<1>1. /\ process = "up" /\ room = NewRoom(0) /\ queue = << >> /\ job = Idle /\ part = {}
      /\ \A m \in Match : row[m] = "none" /\ writer[m].st = "none"
  BY DEF Init, NoWriter
<1>2. \A op, m : ~In(queue, {op}, m) /\ ~Busy(job, op, m)
  BY <1>1, NothingQueued DEF Busy, Idle
<1> QED
  BY <1>1, <1>2 DEF ToldInv, HonestInv, CleanupInv, RemainsInv, OwnedInv, NewRoom, Underway

\* Once nothing is left to do for a Match, nothing is left of it but a completed
\* replay, or the health or the Room has said that persistence is degraded: no
\* crash, failure or late answer leaves a part file, a row or a writer behind in
\* silence (fail_replay, cleanup_room_replay, startup_cleanup).
THEOREM NothingIsLeftInSilence == Spec => []LeftoversAreTold
<1>1. QueueInv /\ ToldInv => LeftoversAreTold
  <2> SUFFICES ASSUME QueueInv, ToldInv, NEW m \in Match, Settled(m), ~degraded, ~room.lost
               PROVE  m \notin part /\ row[m] \in {"none", "completed"} /\ writer[m].st = "none"
    BY DEF LeftoversAreTold
  <2>1. /\ room.pc \in {"lobby", "playing", "post", "closed"} /\ (room.pc = "playing" => room.m # m)
        /\ queue = << >> /\ job = Idle /\ process = "up"
        /\ row \in [Match -> {"none", "writing", "failed", "completed"}]
        /\ writer \in [Match -> Writer]
    BY DEF Settled, QueueInv, ReplayInv, TypeOK
  <2>2. ~In(queue, {"Finalize", "Cleanup"}, m)
    BY <2>1, NothingQueued
  <2>3. ~Owner(room, queue, m)
    BY <2>1, <2>2 DEF Owner, Playing
  <2>4. writer[m].st # "writing"
    BY <2>1, <2>3 DEF ToldInv, OwnedInv
  <2> QED
    BY <2>1, <2>4 DEF ToldInv, RemainsInv, Idle, Writer
<1>2. Init => QueueInv /\ ToldInv
  BY InitOrders, InitTells
<1>3. QueueInv /\ ToldInv /\ [Next]_vars => QueueInv' /\ ToldInv'
  BY NextOrders, NextTells
<1> QED
  BY <1>1, <1>2, <1>3, PTL DEF Spec
=============================================================================
