---------------------------- MODULE CompatMatch ----------------------------
(***************************************************************************)
(* One compatibility Match: the actor that plays a batch of Bots against    *)
(* the Match Machine (CompatMatch::run, crates/double_riichi_server/src/    *)
(* compat.rs), the request and time bank of each Bot (MjaiAdapter,          *)
(* crates/double_riichi_mjai/src/lib.rs), and the ranked replay it writes.  *)
(*                                                                          *)
(* The Match Machine is MatchMachine seen from this caller: one Decision    *)
(* under the RiichiDev control, whose deadline is TurnTime after it opens,  *)
(* a withheld end of Kyoku, and a log of which only the length matters.     *)
(* Frames that are no answer to the open request change nothing and are     *)
(* left out, and so is the verdict of a validation.                         *)
(***************************************************************************)
EXTENDS Integers, FiniteSets

CONSTANTS
  Seats,     \* the Seats of the Match
  Bots,      \* those a Bot holds; built-in Bots hold the others
  Grace,     \* ticks of a request that cost nothing
  Bank,      \* ticks of the bank, per Kyoku
  TurnTime,  \* ticks of the Machine's own deadline (TURN_SECONDS)
  MaxKyoku,  \* bound: Kyoku in a Match
  MaxTurns,  \* bound: Decisions in a Kyoku
  MayFail    \* whether the disk and the database may fail

Assumption ==
  /\ Bots \subseteq Seats /\ Grace \in Nat /\ Bank \in Nat /\ TurnTime \in Nat
  /\ MaxKyoku \in Nat \ {0} /\ MaxTurns \in Nat \ {0} /\ MayFail \in BOOLEAN

VARIABLES
  pc,       \* "open", "loop", "collect", "completing" or "over"
  outcome,  \* "running", "complete", "protocol_error", "panicked" or "aborted"
  machine,  \* the Match Machine
  link,     \* each Bot's socket: "up", "slow" (its queue is full) or "gone"
  notice,   \* Disconnected messages in the input channel
  activeSeats, \* players whose `active` is set
  pending,  \* ticks left of each pending request, None for no request
  bank,     \* the adapters' banks
  cursor,   \* event_cursor of `run`
  mark,     \* event_cursor of the actor
  replay,   \* the CompatReplay
  row,      \* the row of the Match in the database
  file,     \* its replay file
  cleanup,  \* the deletion a dropped CompatReplay has spawned
  degraded  \* replay_health

vars == <<pc, outcome, machine, link, notice, activeSeats, pending, bank, cursor, mark,
          replay, row, file, cleanup, degraded>>

playerVars == <<link, notice, activeSeats>>
clockVars == <<pending, bank>>
diskVars == <<row, file, cleanup, degraded>>

None == -1

Machine ==
  [st : {"decide", "held", "complete"}, open : BOOLEAN, eligible : SUBSET Seats,
   answered : SUBSET Seats, left : 0..TurnTime, turn : Nat, kyoku : Nat, log : Nat]

\* writer: whether one is open; lines: what it holds, None once it is not a
\* prefix of the log; records: the Kyoku records; meta: metadata_open.
Replay == [writer : BOOLEAN, failed : BOOLEAN, lines : Nat \cup {None},
           records : Nat, meta : BOOLEAN]

TypeOK ==
  /\ pc \in {"open", "loop", "collect", "completing", "over"}
  /\ outcome \in {"running", "complete", "protocol_error", "panicked", "aborted"}
  /\ machine \in Machine
  /\ link \in [Bots -> {"up", "slow", "gone"}]
  /\ notice \subseteq Bots /\ activeSeats \subseteq Bots
  /\ pending \in [Bots -> {None} \cup 0..(Grace + Bank)]
  /\ bank \in [Bots -> 0..Bank]
  /\ cursor \in Nat /\ mark \in Nat
  /\ replay \in Replay
  /\ row \in {"none", "writing", "completed"}
  /\ file \in {"none", "part", "final"}
  /\ cleanup \in BOOLEAN /\ degraded \in BOOLEAN

Offers == {e \in SUBSET Seats : e # {}}

\* A Bot may have left between the drain of its batch and the assignment.
Init ==
  /\ pc = "open" /\ outcome = "running"
  /\ \E e \in Offers :
       machine = [st |-> "decide", open |-> FALSE, eligible |-> e, answered |-> {},
                  left |-> 0, turn |-> 1, kyoku |-> 1, log |-> 1]
  /\ link \in [Bots -> {"up", "gone"}]
  /\ notice = {}
  /\ activeSeats = Bots
  /\ pending = [s \in Bots |-> None]
  /\ bank = [s \in Bots |-> Bank]
  /\ cursor = 0 /\ mark = 0
  /\ replay = [writer |-> TRUE, failed |-> FALSE, lines |-> 0, records |-> 0, meta |-> FALSE]
  /\ row = "none" /\ file = "part"
  /\ cleanup = FALSE /\ degraded = FALSE

-----------------------------------------------------------------------------
(* The Machine *)

\* current_decision: opens the Decision, whose time starts now.
Opened(m) == IF m.open THEN m ELSE [m EXCEPT !.open = TRUE, !.left = TurnTime]

\* What the engine may answer to a complete Decision.
Resolutions(m) ==
  LET next == [m EXCEPT !.open = FALSE, !.answered = {}, !.left = 0, !.log = @ + 1]
  IN  {[next EXCEPT !.st = "held", !.eligible = {}]} \cup
      (IF m.turn = MaxTurns THEN {}
       ELSE {[next EXCEPT !.eligible = e, !.turn = @ + 1] : e \in Offers})

\* submit_action by the Seats of S, in any order.
Submitted(m, S) ==
  LET answered == m.answered \cup (S \cap m.eligible)
  IN  IF m.eligible \subseteq answered THEN Resolutions(m)
      ELSE {[m EXCEPT !.answered = answered]}

\* release_kyoku: the terminal events, the end of the Kyoku and what follows.
Releases(m) ==
  LET next == [m EXCEPT !.log = @ + 2, !.turn = 1]
  IN  IF m.kyoku = MaxKyoku THEN {[next EXCEPT !.st = "complete"]}
      ELSE {[next EXCEPT !.st = "decide", !.eligible = e, !.kyoku = @ + 1] : e \in Offers}

-----------------------------------------------------------------------------
(* The replay *)

\* record: appends the lines from..to, or gives the writer up.
Recorded(r, from, to, fails) ==
  IF r.failed \/ ~r.writer \/ from = to THEN r
  ELSE IF fails THEN [r EXCEPT !.failed = TRUE, !.writer = FALSE]
  ELSE [r EXCEPT !.lines = IF @ = from THEN to ELSE None]

Fails == IF MayFail THEN BOOLEAN ELSE {FALSE}

\* The end of the actor: a replay that still owns a writing row spawns its
\* deletion as it is dropped, and an open writer removes its part file.
Ends(o) == pc' = "over" /\ outcome' = o /\ cleanup' = replay'.meta

\* delete_metadata: the row and the file, or neither.
DeleteMetadata(fails) ==
  IF replay.meta /\ ~fails
  THEN /\ row' = "none" /\ file' = "none"
       /\ replay' = [replay EXCEPT !.writer = FALSE, !.meta = FALSE]
       /\ UNCHANGED degraded
  ELSE /\ replay' = [replay EXCEPT !.writer = FALSE]
       /\ file' = IF file = "part" THEN "none" ELSE file
       /\ degraded' = (degraded \/ replay.meta)
       /\ UNCHANGED row

\* close, abort_replay: the Match is given up.
Lose ==
  /\ \E fails \in Fails : DeleteMetadata(fails)
  /\ Ends("protocol_error")

\* broadcast: the events go to the replay, then to every active player; one
\* that cannot take them is active no more.
Broadcast(from, to, fails) ==
  /\ replay' = Recorded(replay, from, to, fails)
  /\ file' = IF replay'.writer \/ file # "part" THEN file ELSE "none"
  /\ degraded' = (degraded \/ (replay'.failed /\ ~replay.failed))
  /\ activeSeats' = IF from = to THEN activeSeats
                    ELSE {s \in activeSeats : link[s] = "up"}
  /\ mark' = mark + (to - from)

Healthy == \A s \in activeSeats : link[s] = "up"

-----------------------------------------------------------------------------
(* The loop *)

\* start_batch opens the row; then `run` broadcasts what the Machine already
\* has to say.
Open ==
  /\ pc = "open"
  /\ \E fails \in Fails, lost \in Fails, stays \in Fails :
       LET opened == [replay EXCEPT !.meta = ~fails, !.writer = ~fails, !.failed = fails]
           kept == Recorded(opened, 0, machine.log, lost)
           writing == ~fails /\ (Healthy \/ stays)  \* abort_replay deletes the row
       IN  /\ replay' = [kept EXCEPT !.writer = @ /\ Healthy, !.meta = writing]
           /\ row' = IF writing THEN "writing" ELSE "none"
           /\ file' = IF replay'.writer THEN "part" ELSE "none"
           /\ degraded' = (kept.failed \/ (~Healthy /\ writing))
           /\ IF Healthy THEN pc' = "loop" /\ UNCHANGED <<outcome, cleanup>>
                         ELSE Ends("protocol_error")
  /\ activeSeats' = {s \in activeSeats : link[s] = "up"}
  /\ cursor' = machine.log /\ mark' = machine.log
  /\ UNCHANGED <<machine, link, notice, clockVars>>


\* reset_kyoku: an unspent bank is not carried over.
Refilled(s) == Bank

\* A held Kyoku is published and released at once; its record joins the replay.
Release ==
  /\ pc = "loop" /\ machine.st = "held"
  /\ machine' \in Releases(machine)
  /\ IF Healthy
     THEN /\ \E fails \in Fails :
               LET kept == Recorded([replay EXCEPT !.records = @ + 1],
                                    machine.log, machine'.log, fails)
               IN  /\ replay' = kept
                   /\ file' = IF kept.writer \/ file # "part" THEN file ELSE "none"
                   /\ degraded' = (degraded \/ (kept.failed /\ ~replay.failed))
          /\ bank' = [s \in Bots |-> Refilled(s)]
          /\ cursor' = machine'.log
          /\ mark' = mark + (machine'.log - machine.log)
          /\ UNCHANGED <<pc, outcome, activeSeats, row, cleanup>>
     ELSE Lose /\ UNCHANGED <<activeSeats, bank, cursor, mark>>
  /\ UNCHANGED <<link, notice, pending>>

\* resolve_expired: the Machine gives the late Seats their default.
Expire ==
  /\ pc = "loop" /\ machine.st = "decide" /\ machine.open /\ machine.left = 0
  /\ machine' \in Resolutions(machine)
  /\ \E fails \in Fails : Broadcast(machine.log, machine'.log, fails)
  /\ cursor' = machine'.log
  /\ UNCHANGED <<pc, outcome, link, notice, clockVars, row, cleanup>>

\* The Decision is opened and the Seats nobody plays answer with their default.
Absent == {s \in machine.eligible : s \notin activeSeats} \ machine.answered

Playable == pc = "loop" /\ machine.st = "decide" /\ (~machine.open \/ machine.left > 0)

DefaultAll ==
  /\ Playable /\ machine.eligible \subseteq machine.answered \cup Absent
  /\ machine' \in Submitted(Opened(machine), Absent)
  /\ \E fails \in Fails : Broadcast(machine.log, machine'.log, fails)
  /\ cursor' = machine'.log
  /\ UNCHANGED <<pc, outcome, link, notice, clockVars, row, cleanup>>


\* Otherwise every active eligible player is sent a request; one that cannot
\* take it is active no more.
Ask ==
  /\ Playable /\ ~(machine.eligible \subseteq machine.answered \cup Absent)
  /\ machine' \in Submitted(Opened(machine), Absent)
  /\ LET asked == machine.eligible \cap activeSeats
         reached == {s \in asked : link[s] = "up"}
     IN  /\ pending' = [s \in Bots |-> IF s \in reached THEN Grace + bank[s] ELSE None]
         /\ activeSeats' = activeSeats \ (asked \ reached)
  /\ pc' = "collect"
  /\ UNCHANGED <<outcome, link, notice, bank, cursor, mark, replay, diskVars>>

-----------------------------------------------------------------------------
(* collect *)

Asked == {s \in Bots : pending[s] # None}

Expiring == {s \in Asked : pending[s] = 0}

\* account: only the time over the grace is taken from the bank.
Accounted(s) ==
  LET elapsed == Grace + bank[s] - pending[s]
  IN  IF elapsed <= Grace THEN bank[s] ELSE bank[s] - (elapsed - Grace)

\* Slip: an accepted reply leaves its request pending.
ReplyStaysPending(s) ==
  /\ pc = "collect" /\ s \in Asked /\ pending[s] > 0
  /\ link[s] # "gone" \/ s \in notice
  /\ machine' \in Submitted(machine, {s})
  /\ bank' = [bank EXCEPT ![s] = Accounted(s)]
  /\ UNCHANGED <<pc, outcome, playerVars, pending, cursor, mark, replay, diskVars>>

\* submit_reply, accepted: in time, for the owed request, a legal action.
Reply(s) ==
  /\ pc = "collect" /\ s \in Asked /\ pending[s] > 0
  /\ link[s] # "gone" \/ s \in notice
  /\ machine' \in Submitted(machine, {s})
  /\ bank' = [bank EXCEPT ![s] = Accounted(s)]
  /\ pending' = [pending EXCEPT ![s] = None]
  /\ UNCHANGED <<pc, outcome, playerVars, cursor, mark, replay, diskVars>>

\* submit_reply fails: the action is not legal and cannot be told back.  The player is
\* active no more, and its request stays.
BadReply(s) ==
  /\ pc = "collect" /\ s \in Asked /\ pending[s] > 0
  /\ link[s] # "gone" \/ s \in notice
  /\ s \in activeSeats /\ activeSeats' = activeSeats \ {s}
  /\ UNCHANGED <<pc, outcome, machine, link, notice, clockVars, cursor, mark, replay, diskVars>>

\* submit_reply at the deadline: the default is submitted, unless the Machine
\* has expired too; then the player is active no more and the request stays.
LateReply(s) ==
  /\ pc = "collect" /\ s \in Expiring
  /\ link[s] # "gone" \/ s \in notice
  /\ IF machine.left > 0
     THEN /\ machine' \in Submitted(machine, {s})
          /\ bank' = [bank EXCEPT ![s] = 0]
          /\ pending' = [pending EXCEPT ![s] = None]
          /\ UNCHANGED activeSeats
     ELSE activeSeats' = activeSeats \ {s} /\ UNCHANGED <<machine, clockVars>>
  /\ UNCHANGED <<pc, outcome, link, notice, cursor, mark, replay, diskVars>>

\* Slip: the request that timed out stays pending.
TimeoutStaysPending ==
  /\ pc = "collect" /\ Expiring # {}
  /\ IF machine.left > 0
     THEN /\ machine' \in Submitted(machine, Expiring)
          /\ bank' = [s \in Bots |-> IF s \in Expiring THEN 0 ELSE bank[s]]
     ELSE UNCHANGED <<machine, bank>>
  /\ UNCHANGED <<pc, outcome, playerVars, pending, cursor, mark, replay, diskVars>>

\* due_requests, timeout_request: every request at its deadline goes; the
\* default is submitted only while the Machine's own deadline has not passed.
Timeout ==
  /\ pc = "collect" /\ Expiring # {}
  /\ IF machine.left > 0
     THEN /\ machine' \in Submitted(machine, Expiring)
          /\ bank' = [s \in Bots |-> IF s \in Expiring THEN 0 ELSE bank[s]]
     ELSE UNCHANGED <<machine, bank>>
  /\ pending' = [s \in Bots |-> IF s \in Expiring THEN None ELSE pending[s]]
  /\ UNCHANGED <<pc, outcome, playerVars, cursor, mark, replay, diskVars>>

\* disconnect: the player is active no more and its default is submitted; for
\* a Seat the open Decision does not ask, default_action_id panics and the
\* supervisor closes every connection.
Disconnect(s) ==
  /\ pc = "collect" /\ s \in notice /\ Asked # {}
  /\ notice' = notice \ {s}
  /\ activeSeats' = activeSeats \ {s}
  /\ IF s \notin machine.eligible
     THEN /\ replay' = [replay EXCEPT !.writer = FALSE]
          /\ Ends("panicked")
          /\ file' = IF file = "part" THEN "none" ELSE file
          /\ UNCHANGED <<machine, pending, row, degraded>>
     ELSE /\ pending' = [pending EXCEPT ![s] = None]
          /\ IF machine.left > 0 /\ s \notin machine.answered
             THEN machine' \in Submitted(machine, {s})
             ELSE UNCHANGED machine
          /\ UNCHANGED <<pc, outcome, replay, diskVars>>
  /\ UNCHANGED <<link, bank, cursor, mark>>

\* Slip: the events of the Decision are sent from the start of the turn's log
\* twice over, since the cursor is not moved.
CollectedKeepsCursor ==
  /\ pc = "collect" /\ Asked = {}
  /\ \E fails \in Fails : Broadcast(cursor, machine.log, fails)
  /\ pc' = "loop"
  /\ UNCHANGED <<outcome, machine, link, notice, clockVars, cursor, row, cleanup>>

\* Nothing is pending: what the log gained meanwhile is broadcast.
Collected ==
  /\ pc = "collect" /\ Asked = {}
  /\ \E fails \in Fails : Broadcast(cursor, machine.log, fails)
  /\ cursor' = machine.log
  /\ pc' = "loop"
  /\ UNCHANGED <<outcome, machine, link, notice, clockVars, row, cleanup>>

\* One tick of the clock; whatever is due comes first.
Tick ==
  /\ pc = "collect" /\ Asked # {} /\ Expiring = {}
  /\ pending' = [s \in Bots |-> IF s \in Asked THEN pending[s] - 1 ELSE None]
  /\ machine' = [machine EXCEPT !.left = IF @ > 0 THEN @ - 1 ELSE 0]
  /\ UNCHANGED <<pc, outcome, playerVars, bank, cursor, mark, replay, diskVars>>

-----------------------------------------------------------------------------
(* The end *)


\* CompatReplay::finish up to the completion of the row.
Finish ==
  /\ pc = "loop" /\ machine.st = "complete"
  /\ \/ /\ replay.failed \/ ~replay.writer
        /\ \E fails \in Fails : DeleteMetadata(fails)
        /\ Ends("complete")
     \/ /\ replay.writer
        /\ file' = "final" /\ replay' = [replay EXCEPT !.writer = FALSE]
        /\ pc' = "completing"
        /\ UNCHANGED <<outcome, row, cleanup, degraded>>
     \/ \* finalize fails, which removes the part file
        /\ replay.writer /\ MayFail
        /\ file' = "none" /\ degraded' = TRUE
        /\ \E fails \in Fails :
             /\ row' = IF fails THEN row ELSE "none"
             /\ replay' = [replay EXCEPT !.writer = FALSE, !.meta = fails]
        /\ Ends("complete")
  /\ UNCHANGED <<machine, playerVars, clockVars, cursor, mark>>

\* complete_ranked_match, or cleanup_finalized_replay: a file that cannot be
\* removed keeps its writing row for the clean-up of the next start.
Complete ==
  /\ pc = "completing"
  /\ \/ /\ row' = "completed" /\ replay' = [replay EXCEPT !.meta = FALSE]
        /\ UNCHANGED <<file, degraded>>
     \/ /\ MayFail /\ degraded' = TRUE
        /\ \/ file' = "none" /\ row' = "none" /\ replay' = [replay EXCEPT !.meta = FALSE]
           \/ file' = "none" /\ UNCHANGED <<row, replay>>
           \/ replay' = [replay EXCEPT !.meta = FALSE] /\ UNCHANGED <<file, row>>
  /\ Ends("complete")
  /\ UNCHANGED <<machine, playerVars, clockVars, cursor, mark>>

\* task.abort() at an await; the transaction may or may not have committed.
Abort ==
  /\ pc \in {"collect", "completing"}
  /\ replay' = [replay EXCEPT !.writer = FALSE]
  /\ file' = IF file = "part" THEN "none" ELSE file
  /\ row' \in IF pc = "completing" THEN {row, "completed"} ELSE {row}
  /\ Ends("aborted")
  /\ UNCHANGED <<machine, playerVars, clockVars, cursor, mark, degraded>>


\* The deletion spawned by CompatReplay::drop; it leaves a completed row alone.
Cleanup ==
  /\ cleanup /\ cleanup' = FALSE
  /\ \E fails \in Fails :
       IF fails THEN degraded' = TRUE /\ UNCHANGED <<row, file>>
       ELSE IF row = "writing" THEN row' = "none" /\ file' = "none" /\ UNCHANGED degraded
       ELSE UNCHANGED <<row, file, degraded>>
  /\ UNCHANGED <<pc, outcome, machine, playerVars, clockVars, cursor, mark, replay>>

-----------------------------------------------------------------------------
(* The sockets *)

\* The outbound queue is full: it is closed as a slow consumer.
SlowDown(s) ==
  /\ pc # "over" /\ link[s] = "up"
  /\ link' = [link EXCEPT ![s] = "slow"]
  /\ UNCHANGED <<pc, outcome, machine, notice, activeSeats, clockVars, cursor, mark, replay,
                 diskVars>>

\* run_assigned_socket ends: Disconnected is queued and the output dropped.
Leave(s) ==
  /\ pc # "over" /\ link[s] # "gone"
  /\ link' = [link EXCEPT ![s] = "gone"]
  /\ notice' = notice \cup {s}
  /\ UNCHANGED <<pc, outcome, machine, activeSeats, clockVars, cursor, mark, replay, diskVars>>

Actor ==
  \/ Open \/ Release \/ Expire \/ DefaultAll \/ Ask \/ Timeout \/ Collected
  \/ Finish \/ Complete

\* What goes on by itself: the actor's task runs and time passes; nothing is
\* assumed of the Bots.
System == Actor \/ Tick \/ Cleanup

Next ==
  \/ System \/ Abort
  \/ \E s \in Bots : \/ Reply(s) \/ BadReply(s) \/ LateReply(s)
                     \/ Disconnect(s) \/ SlowDown(s) \/ Leave(s)

-----------------------------------------------------------------------------
(* Properties *)

\* A completed ranked replay holds every public event once and in order, and
\* one record per Kyoku, through defaults, deadlines and Bots that leave
\* (compat.rs CompatMatch::run's three cursors and CompatReplay::finish).
CompletedReplayIsWhole ==
  row = "completed" =>
    file = "final" /\ replay.lines = machine.log /\ replay.records = MaxKyoku

\* When the actor and the deletions it spawned are done, a row that is neither
\* completed nor deleted has been reported as degraded (compat.rs
\* delete_metadata, cleanup_finalized_replay, CompatReplay::drop).
NoRowLeftSilently ==
  pc = "over" /\ ~cleanup => (row = "writing" => degraded) /\ (row = "none" => file = "none")

\* A pending request belongs to a Seat the open Decision still waits for, so no
\* Bot is asked twice for one Decision and no reply meets another Decision
\* (compat.rs CompatMatch::collect, MjaiAdapter::submit_reply).
RequestsAreOwed ==
  pc = "collect" =>
    \A s \in Asked : machine.open /\ s \in machine.eligible \ machine.answered

\* The inductive invariant behind the three.  A Decision that is open and not yet
\* expired waits only for Bots that have a request or are played automatically, and
\* no request is left outside `collect`.
AskInv ==
  /\ machine.open => machine.st = "decide"
  /\ ~machine.open => machine.answered = {}
  /\ pc = "open" => ~machine.open
  /\ pc \in {"open", "loop", "completing"} => Asked = {}
  /\ pc \in {"loop", "collect"} /\ machine.open /\ machine.left > 0 =>
       machine.eligible \cap activeSeats \subseteq machine.answered \cup Asked

\* The open replay holds the log up to the cursor and one record per Kyoku played.
ReplayInv ==
  /\ machine.kyoku \in 1..MaxKyoku /\ mark = cursor
  /\ replay.failed => ~replay.writer
  /\ pc # "over" =>
       replay.records = IF machine.st = "complete" THEN MaxKyoku ELSE machine.kyoku - 1
  /\ pc = "loop" => cursor = machine.log
  /\ pc \in {"loop", "collect"} /\ replay.writer => replay.lines = cursor
  /\ pc = "completing" => machine.st = "complete" /\ replay.lines = machine.log

\* The actor owns the row it opened and the file it writes until it ends; then a row
\* that is left writing is reported or about to be deleted.
DiskInv ==
  /\ pc = "open" => row = "none" /\ replay.lines = 0 /\ machine.st # "complete"
  /\ pc \in {"loop", "collect"} =>
       /\ row = IF replay.meta THEN "writing" ELSE "none"
       /\ file = IF replay.writer THEN "part" ELSE "none"
       /\ replay.writer => replay.meta
  /\ pc = "completing" => row = "writing" /\ file = "final" /\ replay.meta
  /\ pc # "over" => ~cleanup
  /\ pc = "over" => (row = "writing" => degraded \/ cleanup) /\ (row = "none" => file = "none")

MatchInv ==
  /\ TypeOK /\ AskInv /\ ReplayInv /\ DiskInv
  /\ RequestsAreOwed /\ CompletedReplayIsWhole

Over == pc = "over"

\* Once the Match plays, a Bot that goes away does not end it for the others:
\* it is played automatically from then on (spec/implementation-v1.md, 14.2).
OutlivesItsBots ==
  pc \notin {"open", "over"} /\ pc' = "over" => outcome' \in {"complete", "aborted"}
=============================================================================
