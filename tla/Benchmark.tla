----------------------------- MODULE Benchmark -----------------------------
(***************************************************************************)
(* Benchmark Mode: a Run of Matches with one roster                        *)
(* (crates/double_riichi_core/src/room.rs, the RoomActor, with the effect  *)
(* worker and the tables of crates/double_riichi_server/src/storage.rs).   *)
(*                                                                         *)
(* The actor starts the next Match by itself and awaits the worker at every*)
(* step that must be durable: the creation of the Run and the finalization *)
(* of a Match for as long as it takes, everything else for a second.  The  *)
(* Admin stops the Run, a participant is lost, the disk and the database   *)
(* fail, the Room is deleted or shut down, and the process may stop.       *)
(***************************************************************************)
EXTENDS Naturals, Sequences, FiniteSets

CONSTANTS
  Target,  \* Matches the Run is to have (1 to 1000 in the code)
  Queue    \* capacity of the queue of effects

Assumption == Target \in Nat \ {0} /\ Queue \in Nat

VARIABLES
  up,      \* the process runs
  room,    \* phase, Run and last Match of the Room
  actor,   \* what the actor awaits, and what it does then
  answer,  \* the acknowledgement it awaits
  queue,   \* effects for the worker
  stray,   \* Matches whose deletion is still to be sent, by a task of its own
  mail,    \* failures the worker reported
  run,     \* the row of benchmark_runs
  matches, \* rows of matches: their status
  counted, \* benchmark_matches: the Match of each sequence number
  files,   \* the worker's replays
  heard    \* Matches that may count after the Admin stopped the Run

vars == <<up, room, actor, answer, queue, stray, mail, run, matches, counted, files, heard>>

disk == <<run, matches, counted>>
worker == <<mail, disk, files>>

M == 1 .. Target    \* each Match either counts or ends the Run

Rooms ==
  [phase : {"lobby", "playing", "post", "gone"}, m : 0 .. Target,
   run : {"none", "running", "stopped", "completed", "failed"}, done : 0 .. Target,
   stop : BOOLEAN, kept : BOOLEAN]

Effects ==
  [op : {"create", "open", "append", "flush", "final", "end", "cleanup", "delete"},
   m : 0 .. Target, n : 1 .. Target + 1,
   status : {"none", "stopped", "completed", "failed"}, owed : BOOLEAN]

TypeOK ==
  /\ up \in BOOLEAN /\ room \in Rooms
  /\ actor \in [pc : {"ready", "create", "open", "flush", "final", "end", "cleanup"},
                next : {"stay", "post", "cleanup", "lobby", "shutdown", "gone"}]
  /\ answer \in {"none", "ok", "failed"}
  /\ queue \in Seq(Effects) /\ Len(queue) <= Queue /\ stray \subseteq M /\ mail \subseteq M
  /\ run \in [status : {"none", "running", "stopped", "completed", "failed", "interrupted"},
              done : 0 .. Target]
  /\ matches \in [M -> {"none", "writing", "failed", "completed"}]
  /\ counted \in [M -> 0 .. Target]
  /\ files \in [M -> {"none", "writing", "failed"}]
  /\ heard \in 0 .. Target

Init ==
  /\ up = TRUE
  /\ room = [phase |-> "lobby", m |-> 0, run |-> "none", done |-> 0, stop |-> FALSE, kept |-> TRUE]
  /\ actor = [pc |-> "ready", next |-> "stay"] /\ answer = "none"
  /\ queue = <<>> /\ stray = {} /\ mail = {}
  /\ run = [status |-> "none", done |-> 0]
  /\ matches = [m \in M |-> "none"] /\ counted = [m \in M |-> 0] /\ files = matches
  /\ heard = Target

-----------------------------------------------------------------------------
(* The actor's effects *)

Running == room.run = "running"
Ready == up /\ room.phase # "gone" /\ actor.pc = "ready"

\* An effect carries the sequence number the Match would have; for some nobody
\* waits.
Effect(op, m, status) ==
  [op |-> op, m |-> m, n |-> room.done + 1, status |-> status, owed |-> TRUE]

Unawaited(op, m) ==
  [op |-> op, m |-> m, n |-> room.done + 1, status |-> "none", owed |-> FALSE]

\* Slip: the finalization is given up after a second like everything else.
TimedAll == {"open", "flush", "final", "end", "cleanup"}

\* What the actor gives up after a second, unlike the creation of the Run and
\* the finalization of a Match.
Timed == {"open", "flush", "end", "cleanup"}

\* send_ack_effect, send_durable_effect: into the queue; what is timed may find
\* it full for too long.
Await(op, m, status, next) ==
  /\ actor' = [pc |-> op, next |-> next]
  /\ \/ Len(queue) < Queue /\ queue' = Append(queue, Effect(op, m, status)) /\ answer' = "none"
     \/ op \in Timed /\ Len(queue) = Queue /\ answer' = "failed" /\ UNCHANGED queue

Goes(next) == actor' = [pc |-> "ready", next |-> next] /\ answer' = "none" /\ UNCHANGED queue

Answered(pc) == up /\ actor.pc = pc /\ answer # "none"

\* The acknowledgement takes too long; the effect stays where it is, and its
\* answer goes nowhere.
TimeOut ==
  /\ up /\ actor.pc \in Timed /\ answer = "none"
  /\ answer' = "failed"
  /\ queue' = [i \in DOMAIN queue |-> [queue[i] EXCEPT !.owed = FALSE]]
  /\ UNCHANGED <<up, room, actor, stray, worker, heard>>

\* finish_benchmark
Finish(status, m, next, r) ==
  /\ room' = [r EXCEPT !.run = status]
  /\ Await("end", m, status, next)

\* abort_match, as far as the end of the Run.
Abort(r) ==
  IF r.phase = "playing" THEN Finish("failed", r.m, "cleanup", r) ELSE Finish("failed", 0, "stay", r)

\* start_match, as far as the replay
Open(r) == room' = [r EXCEPT !.m = @ + 1] /\ Await("open", r.m + 1, "none", "stay")

-----------------------------------------------------------------------------
(* The actor *)

StartBenchmark ==
  /\ Ready /\ room.phase = "lobby" /\ room.run = "none"
  /\ Await("create", 0, "none", "stay")
  /\ UNCHANGED <<up, room, stray, worker, heard>>

Created ==
  /\ Answered("create")
  /\ \/ answer = "ok" /\ Open([room EXCEPT !.run = "running"])
     \/ answer = "failed" /\ Goes("stay") /\ UNCHANGED room
  /\ UNCHANGED <<up, stray, worker, heard>>

Opened ==
  /\ Answered("open")
  /\ \/ /\ answer = "ok" /\ room' = [room EXCEPT !.phase = "playing"]
        /\ Goes("stay") /\ UNCHANGED stray
     \/ /\ answer = "failed" /\ Finish("failed", room.m, "stay", [room EXCEPT !.kept = FALSE])
        /\ stray' = stray \cup {room.m}
  /\ UNCHANGED <<up, worker, heard>>

\* A slice of advance_match: the Match is given up when its replay is lost or its
\* engine fails; otherwise lines are written, a Kyoku ends, or the Match does.
Play ==
  /\ Ready /\ room.phase = "playing"
  /\ \/ Abort(room) /\ UNCHANGED stray
     \/ /\ room.kept /\ Len(queue) < Queue
        /\ queue' = Append(queue, Unawaited("append", room.m))
        /\ UNCHANGED <<room, actor, answer, stray>>
     \/ /\ room.kept /\ Len(queue) = Queue
        /\ room' = [room EXCEPT !.kept = FALSE] /\ stray' = stray \cup {room.m}
        /\ UNCHANGED <<actor, answer, queue>>
     \/ /\ room.kept /\ \E op \in {"flush", "final"} : Await(op, room.m, "none", "stay")
        /\ UNCHANGED <<room, stray>>
  /\ UNCHANGED <<up, worker, heard>>

\* flush_kyoku
Flushed ==
  /\ Answered("flush")
  /\ \/ answer = "ok" /\ UNCHANGED <<room, stray>>
     \/ answer = "failed" /\ room' = [room EXCEPT !.kept = FALSE] /\ stray' = stray \cup {room.m}
  /\ Goes("stay")
  /\ UNCHANGED <<up, worker, heard>>

\* complete_match, after the finalization
Finalized ==
  /\ Answered("final")
  /\ \/ /\ answer = "failed" /\ stray' = stray \cup {room.m}
        /\ Abort([room EXCEPT !.kept = FALSE])
     \/ /\ answer = "ok" /\ UNCHANGED stray
        /\ LET more == [room EXCEPT !.done = @ + 1] IN
           \/ room.stop /\ Finish("stopped", 0, "post", more)
           \/ ~room.stop /\ more.done = Target /\ Finish("completed", 0, "post", more)
           \/ /\ ~room.stop /\ more.done < Target
              /\ room' = [more EXCEPT !.phase = "post"] /\ Goes("stay")
  /\ UNCHANGED <<up, worker, heard>>

\* What follows finish_benchmark
Ended ==
  /\ Answered("end")
  /\ LET r == [room EXCEPT !.kept = @ /\ answer = "ok"] IN
     \/ actor.next = "stay" /\ room' = r /\ Goes("stay")
     \/ actor.next = "post" /\ room' = [r EXCEPT !.phase = "post"] /\ Goes("stay")
     \/ actor.next = "cleanup" /\ room' = r /\ Await("cleanup", r.m, "none", "lobby")
     \/ /\ actor.next = "shutdown" /\ r.phase = "playing"
        /\ room' = r /\ Await("cleanup", r.m, "none", "gone")
     \/ /\ actor.next = "shutdown" /\ r.phase # "playing"
        /\ room' = [r EXCEPT !.phase = "gone"] /\ Goes("stay")
  /\ UNCHANGED <<up, stray, worker, heard>>

\* The rest of abort_match, or of shutdown
CleanedUp ==
  /\ Answered("cleanup")
  /\ room' = [room EXCEPT !.phase = actor.next, !.kept = @ /\ answer = "ok"]
  /\ Goes("stay")
  /\ UNCHANGED <<up, stray, worker, heard>>

\* tick: the next Match
NextMatch ==
  /\ Ready /\ Running /\ room.phase = "post" /\ room.kept
  /\ Open(room)
  /\ UNCHANGED <<up, stray, worker, heard>>

\* stop_benchmark: the Match that is played may still count.
StopBenchmark ==
  /\ Ready /\ Running /\ ~room.stop
  /\ LET r == [room EXCEPT !.stop = TRUE] IN
     \/ /\ r.phase = "playing" /\ room' = r /\ heard' = r.done + 1
        /\ UNCHANGED <<actor, answer, queue>>
     \/ r.phase # "playing" /\ Finish("stopped", 0, "stay", r) /\ heard' = r.done
  /\ UNCHANGED <<up, stray, worker>>

\* benchmark_loses_player, benchmark_external_expired
LoseParticipant ==
  /\ Ready /\ Running
  /\ Abort(room)
  /\ UNCHANGED <<up, stray, worker, heard>>

\* handle_persistence_failure
Failure(m) ==
  /\ Ready /\ m \in mail /\ mail' = mail \ {m}
  /\ IF room.phase \in {"playing", "post"} /\ room.m = m
     THEN LET r == [room EXCEPT !.kept = FALSE] IN
          /\ stray' = stray \cup {m}
          /\ \/ Running /\ Abort(r)
             \/ ~Running /\ room' = r /\ UNCHANGED <<actor, answer, queue>>
     ELSE UNCHANGED <<room, actor, answer, queue, stray>>
  /\ UNCHANGED <<up, disk, files, heard>>

\* shutdown
Shutdown ==
  /\ Ready
  /\ \/ Running /\ Finish("failed", IF room.phase = "playing" THEN room.m ELSE 0, "shutdown", room)
     \/ ~Running /\ room' = [room EXCEPT !.phase = "gone"] /\ UNCHANGED <<actor, answer, queue>>
  /\ UNCHANGED <<up, stray, worker, heard>>

\* RoomCommand::Delete, also between two Matches
Delete ==
  /\ Ready /\ room.phase # "playing"
  /\ room' = [room EXCEPT !.phase = "gone"]
  /\ UNCHANGED <<up, actor, answer, queue, stray, worker, heard>>

\* The task of fail_replay
SendDelete(m) ==
  /\ up /\ m \in stray /\ Len(queue) < Queue
  /\ stray' = stray \ {m}
  /\ queue' = Append(queue, Unawaited("delete", m))
  /\ UNCHANGED <<up, room, actor, answer, worker, heard>>

-----------------------------------------------------------------------------
(* The worker: one outcome of an effect *)

Answers(e, result) == answer' = IF e.owed THEN result ELSE answer

CreateRun(e) ==
  \/ run' = [status |-> "running", done |-> 0] /\ Answers(e, "ok")
  \/ UNCHANGED run /\ Answers(e, "failed")

OpenReplay(e) ==
  \/ /\ files' = [files EXCEPT ![e.m] = "writing"] /\ matches' = [matches EXCEPT ![e.m] = "writing"]
     /\ Answers(e, "ok")
  \/ UNCHANGED <<files, matches>> /\ Answers(e, "failed")

\* mark_room_replay_failed, mark_match_failed, which may fail
Spoil(m) ==
  /\ files' = [files EXCEPT ![m] = IF @ = "writing" THEN "failed" ELSE @]
  /\ \/ UNCHANGED matches
     \/ /\ files[m] = "writing" /\ matches[m] = "writing"
        /\ matches' = [matches EXCEPT ![m] = "failed"]

AppendLines(e) ==
  /\ UNCHANGED answer
  /\ \/ files[e.m] = "writing" /\ UNCHANGED <<files, matches, mail>>
     \/ Spoil(e.m) /\ mail' = mail \cup {e.m}

FlushKyoku(e) ==
  \/ files[e.m] = "writing" /\ UNCHANGED <<files, matches>> /\ Answers(e, "ok")
  \/ Spoil(e.m) /\ Answers(e, "failed")

\* delete_incomplete_match: one transaction around the files; it may fail.
Erase(m) ==
  \/ UNCHANGED matches
  \/ matches' = [matches EXCEPT ![m] = IF @ = "completed" THEN @ ELSE "none"]

\* complete_match with the Run in one transaction; a Match is counted only as
\* the next of a Run that is running.
Finalize(e) ==
  /\ files' = [files EXCEPT ![e.m] = "none"]
  /\ \/ /\ files[e.m] = "writing" /\ run.status = "running"
        /\ run.done = e.n - 1 /\ run.done < Target
        /\ run' = [run EXCEPT !.done = @ + 1]
        /\ matches' = [matches EXCEPT ![e.m] = "completed"]
        /\ counted' = [counted EXCEPT ![e.n] = e.m]
        /\ Answers(e, "ok")
     \/ Erase(e.m) /\ UNCHANGED <<run, counted>> /\ Answers(e, "failed")

\* stop_benchmark_run, fail_benchmark_run: only a Run that is running.
EndRun(e) ==
  \/ /\ run.status = "running" /\ run' = [run EXCEPT !.status = e.status] /\ Answers(e, "ok")
  \/ UNCHANGED run /\ Answers(e, "failed")

\* cleanup_room_replay
Cleanup(e) ==
  /\ files' = [files EXCEPT ![e.m] = "none"] /\ Erase(e.m)
  /\ \E result \in {"ok", "failed"} : Answers(e, result)

\* spawn_room_effect_worker
Work ==
  /\ up /\ queue # <<>> /\ queue' = Tail(queue)
  /\ LET e == Head(queue) IN
     \/ e.op = "create" /\ CreateRun(e) /\ UNCHANGED <<mail, matches, counted, files>>
     \/ e.op = "open" /\ OpenReplay(e) /\ UNCHANGED <<mail, run, counted>>
     \/ e.op = "append" /\ AppendLines(e) /\ UNCHANGED <<run, counted>>
     \/ e.op = "flush" /\ FlushKyoku(e) /\ UNCHANGED <<mail, run, counted>>
     \/ e.op = "final" /\ Finalize(e) /\ UNCHANGED mail
     \/ e.op = "end" /\ EndRun(e) /\ UNCHANGED <<mail, matches, counted, files>>
     \/ e.op \in {"cleanup", "delete"} /\ Cleanup(e) /\ UNCHANGED <<mail, run, counted>>
  /\ UNCHANGED <<up, room, actor, stray, heard>>

-----------------------------------------------------------------------------

\* The process stops with everything in memory.
Crash ==
  /\ up /\ up' = FALSE
  /\ room' = [room EXCEPT !.phase = "gone"]
  /\ actor' = [pc |-> "ready", next |-> "stay"] /\ answer' = "none"
  /\ queue' = <<>> /\ stray' = {} /\ mail' = {} /\ files' = [m \in M |-> "none"]
  /\ UNCHANGED <<disk, heard>>

\* Storage::connect: what was running is interrupted, what was not completed
\* goes, if that succeeds.
Restart ==
  /\ ~up /\ up' = TRUE
  /\ run' = [run EXCEPT !.status = IF @ = "running" THEN "interrupted" ELSE @]
  /\ matches' \in {matches, [m \in M |-> IF matches[m] = "completed" THEN "completed" ELSE "none"]}
  /\ UNCHANGED <<room, actor, answer, queue, stray, mail, counted, files, heard>>

Next ==
  \/ TimeOut \/ StartBenchmark \/ Created \/ Opened \/ Play \/ Flushed \/ Finalized
  \/ Ended \/ CleanedUp \/ NextMatch \/ StopBenchmark \/ LoseParticipant \/ Shutdown \/ Delete
  \/ \E m \in M : Failure(m) \/ SendDelete(m)
  \/ Work \/ Crash \/ Restart

Spec == Init /\ [][Next]_vars

-----------------------------------------------------------------------------
(* Properties *)

\* Room and database agree on the Matches that count, but for the one whose
\* finalization is awaited: one given up too early would count in one of them
\* only (room.rs complete_match).
CountsAgree == actor.pc # "final" /\ room.phase # "gone" => run.done = room.done

\* Whatever was lost, deleted late or cut off by a restart: what counts is there,
\* once, in order (storage.rs complete_match).
CountedMatchesAreKept ==
  /\ \A i \in M : i <= run.done <=> counted[i] # 0
  /\ \A i \in 1 .. run.done : matches[counted[i]] = "completed"
  /\ \A i, j \in 1 .. run.done : i < j => counted[i] < counted[j]

\* No Match that begins after the Admin stopped the Run counts.
StopIsHeard == run.done <= heard

\* What the row says of the end of the Run is what happened, and a Run that
\* ended plays no Match.
EndIsTruthful ==
  /\ run.status = "completed" => run.done = Target
  /\ run.status = "stopped" => room.stop
  /\ room.phase # "gone" /\ run.status \in {"stopped", "completed", "failed"} => room.run = run.status
  /\ room.phase = "playing" /\ actor.pc = "ready" => Running

IsTruthful == CountsAgree /\ CountedMatchesAreKept /\ StopIsHeard /\ EndIsTruthful

-----------------------------------------------------------------------------
(* The inductive invariant behind them *)

Over == {"stopped", "completed", "failed"}

\* An effect whose answer is awaited is what the actor awaits; the creation of
\* the Run and the finalization of a Match it awaits while they are queued.  No
\* replay is opened anew for a Match that counts.
Fits(e) ==
  /\ e.owed => actor.pc = e.op /\ answer = "none"
  /\ e.op \in {"create", "final"} => e.owed
  /\ e.op = "append" => e.m \in M
  /\ e.op = "final" => e.m = room.m /\ e.n = room.done + 1
  /\ e.op = "open" =>
       /\ e.m > run.done
       /\ \/ actor.pc = "open" /\ (answer = "failed" \/ e.owed)
          \/ room.run \in Over
  /\ e.op = "end" => e.status = room.run /\ room.run \in Over

EffectInv ==
  \A i \in DOMAIN queue :
    Fits(queue[i]) /\ \A j \in DOMAIN queue : queue[i].owed /\ queue[j].owed => i = j

\* What the Room is at while the actor awaits something.
PhaseInv ==
  /\ actor.pc = "ready" => answer = "none"
  /\ actor.pc = "create" => room.phase = "lobby" /\ room.run = "none"
  /\ actor.pc = "open" => room.phase \in {"lobby", "post"} /\ Running /\ ~room.stop
  /\ actor.pc \in {"flush", "final"} => room.phase = "playing" /\ Running
  /\ actor.pc = "ready" /\ room.phase = "playing" => Running
  /\ actor.pc \in {"end", "cleanup"} => room.run \in Over
  /\ actor.pc = "end" => actor.next # "stay" \/ room.phase # "playing"
  /\ actor.pc = "end" => actor.next \in {"stay", "post", "cleanup", "shutdown"}
  /\ actor.pc = "cleanup" => actor.next \in {"lobby", "gone"}
  /\ room.phase = "gone" => actor.pc = "ready"
  /\ ~up => room.phase = "gone"

\* Every Match of a Run that is running counts, save the one that is played.
MatchInv ==
  /\ room.run = "none" =>
       room.phase \in {"lobby", "gone"} /\ room.m = 0 /\ room.done = 0 /\ run.done = 0 /\ ~room.stop
  /\ Running /\ room.phase # "gone" =>
       /\ room.done < Target
       /\ room.m = IF actor.pc = "open" \/ room.phase = "playing" THEN room.done + 1 ELSE room.done
       /\ room.stop => room.phase = "playing"

\* Room and database agree, and the Matches that count are the first ones.
CountInv ==
  /\ room.phase # "gone" =>
       run.done = IF actor.pc = "final" /\ answer = "ok" THEN room.done + 1 ELSE room.done
  /\ \A i \in M : counted[i] = IF i <= run.done THEN i ELSE 0
  /\ \A i \in 1 .. run.done : matches[i] = "completed"

HeardInv ==
  /\ ~room.stop => heard = Target
  /\ run.done <= heard
  /\ room.stop /\ Running /\ room.phase # "gone" => room.done < heard

EndInv ==
  /\ room.run = "completed" => run.done = Target
  /\ room.run = "stopped" => room.stop
  /\ run.status \in Over => room.run = run.status

BenchmarkInv ==
  /\ TypeOK /\ EffectInv /\ PhaseInv /\ MatchInv /\ CountInv /\ HeardInv /\ EndInv
=============================================================================
