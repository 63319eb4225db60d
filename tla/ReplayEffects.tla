---------------------------- MODULE ReplayEffects ----------------------------
(***************************************************************************)
(* How the replay of a Match reaches the disk: the Room actor sends effects *)
(* (room.rs), a worker of its own executes them (storage.rs), a writer owns *)
(* the part file (persistence.rs), and the next start of the process cleans *)
(* up after a crash.  The actor waits one second for most acknowledgements; *)
(* the worker never learns that it has given up.                            *)
(*                                                                          *)
(* A Match is the lines 1 .. Total of its replay; Ends are the EndKyoku     *)
(* lines.  A file or a writer is the number of lines in it.  Every effect   *)
(* on disk may fail if Faults allows it, and the process may stop between   *)
(* any two of them.                                                         *)
(***************************************************************************)
EXTENDS Integers, Sequences, FiniteSets

CONSTANTS
  MaxMatches, \* bound: Matches the Rooms of this process start
  Total,      \* lines of a Match
  Ends,       \* its EndKyoku lines
  Capacity,   \* effects the queue holds (256)
  Faults      \* what may go wrong: "disk", "db", "slow", "crash"

ASSUME LinesAssumption == Total \in Nat \ {0} /\ Ends \subseteq 2 .. Total - 1
ASSUME BoundAssumption == MaxMatches \in Nat /\ Capacity \in Nat \ {0}

Match == 1 .. MaxMatches

VARIABLES
  process,  \* "up", "down", or "starting" while Storage::connect cleans up
  room,     \* the Room actor
  asked,    \* cleanup_requested: the Matches it has asked to be deleted
  spawned,  \* tasks that wait to send DeleteIncomplete
  queue,    \* the Room's effects
  job,      \* the effect the worker is in the middle of
  writer,   \* the worker's `replays`
  failures, \* reports of the worker the actor has not read
  part,     \* part files
  file,     \* lines of each finished file, 0 for none
  row,      \* status of each Match in the database
  records,  \* its Kyoku records
  degraded, \* health: replay_degraded
  doomed    \* what the Admin has had deleted of each completed replay

vars == <<process, room, asked, spawned, queue, job, writer, failures, part, file, row,
          records, degraded, doomed>>

roomVars == <<room, asked, spawned>>
diskVars == <<part, file>>
baseVars == <<row, records>>

\* `pc` is where the actor is: waiting for commands ("lobby", "playing",
\* "post"), between two lines of one batch ("batch"), about to send an effect
\* ("flush", "finish", "abort"), or waiting for its answer.
Room ==
  [pc : {"lobby", "opening", "playing", "batch", "flush", "flushing", "finish", "finalizing",
         "abort", "aborting", "post", "closed"},
   home : {"lobby", "post", "closed"}, \* where it goes when what it waits for has failed
   m : {0} \cup Match,                 \* the Match of the phase
   next : {0} \cup Match,              \* the latest Match
   sent : 0 .. Total,                  \* lines the Match has produced
   avail : BOOLEAN,                    \* replay_available
   lost : BOOLEAN,                     \* persistence_degraded
   reply : {"none", "ok", "err"}]      \* the answer it waits for

NewRoom(n) ==
  [pc |-> "lobby", home |-> "lobby", m |-> 0, next |-> n, sent |-> 0, avail |-> TRUE,
   lost |-> FALSE, reply |-> "none"]

\* `ahead`: an auxiliary event was placed before a line that is yet to come.
Writer == [st : {"none", "writing", "failed"}, lines : Nat, ahead : BOOLEAN]
NoWriter == [st |-> "none", lines |-> 0, ahead |-> FALSE]

Effect ==
  [op : {"Open", "Append", "Before", "After", "Flush", "Finalize", "Delete", "Cleanup"},
   m : Match, line : 0 .. Total]

\* An effect that takes several steps: what is next, for whom, and whether the
\* answer will be that it was done.
Job ==
  [at : {"idle", "insert", "commit", "erase", "unrow"}, op : {"Open", "Finalize", "Delete", "Cleanup"},
   m : {0} \cup Match, ok : BOOLEAN]
Idle == [at |-> "idle", op |-> "Open", m |-> 0, ok |-> TRUE]

Eff(op, m, line) == [op |-> op, m |-> m, line |-> line]

Init ==
  /\ process = "up"
  /\ room = NewRoom(0)
  /\ asked = {} /\ spawned = {} /\ queue = << >> /\ job = Idle
  /\ writer = [m \in Match |-> NoWriter]
  /\ failures = {} /\ part = {}
  /\ doomed = [m \in Match |-> "no"]
  /\ file = [m \in Match |-> 0]
  /\ row = [m \in Match |-> "none"]
  /\ records = [m \in Match |-> 0]
  /\ degraded = FALSE

-----------------------------------------------------------------------------
(* The actor *)

HasRoom == Len(queue) < Capacity
Send(e) == HasRoom /\ queue' = Append(queue, e)
Listening == process = "up" /\ room.pc \in {"lobby", "playing", "post"}

\* The second for the acknowledgement is over, or there was none to send.
GivesUp == "slow" \in Faults

\* fail_replay: the replay of Match m is lost; its deletion is asked for once,
\* by a task that waits for room in the queue.
FailReplay(m, pc) ==
  /\ room' = [room EXCEPT !.pc = pc, !.avail = FALSE, !.lost = TRUE, !.reply = "none"]
  /\ asked' = asked \cup {m}
  /\ spawned' = spawned \cup ({m} \ asked)

Quiet == UNCHANGED <<process, job, writer, failures, part, file, row, records, degraded, doomed>>

\* start_match and rematch: the first line goes with the opening.
Start ==
  /\ Listening /\ room.pc # "playing" /\ room.avail /\ room.next < MaxMatches
  /\ \/ /\ Send(Eff("Open", room.next + 1, 1))
        /\ room' = [room EXCEPT !.pc = "opening", !.home = room.pc, !.next = @ + 1,
                                !.reply = "none"]
        /\ UNCHANGED <<asked, spawned>>
     \/ /\ GivesUp /\ ~HasRoom
        /\ room' = [room EXCEPT !.next = @ + 1, !.avail = FALSE, !.lost = TRUE]
        /\ asked' = asked \cup {room.next + 1}
        /\ spawned' = spawned \cup {room.next + 1}
        /\ UNCHANGED queue
  /\ Quiet

Opened ==
  /\ process = "up" /\ room.pc = "opening"
  /\ \/ /\ room.reply = "ok"
        /\ room' = [room EXCEPT !.pc = "playing", !.m = room.next, !.sent = 1, !.reply = "none"]
        /\ UNCHANGED <<asked, spawned>>
     \/ /\ room.reply = "err" \/ GivesUp
        /\ FailReplay(room.next, room.home)
  /\ Quiet /\ UNCHANGED queue

\* persist_events: the next line of the Match.  The lines after an EndKyoku
\* belong to its batch.
AfterLine == IF room.sent + 1 \in Ends THEN "flush" ELSE "playing"

Emit ==
  /\ process = "up" /\ room.pc \in {"playing", "batch"} /\ room.sent < Total
  /\ \/ /\ room.avail
        /\ Send(Eff("Append", room.m, room.sent + 1))
        /\ room' = [room EXCEPT !.pc = AfterLine, !.sent = @ + 1]
        /\ UNCHANGED <<asked, spawned>>
     \/ /\ room.avail /\ ~HasRoom
        /\ room' = [room EXCEPT !.pc = "playing", !.sent = @ + 1, !.avail = FALSE, !.lost = TRUE]
        /\ asked' = asked \cup {room.m}
        /\ spawned' = spawned \cup ({room.m} \ asked)
        /\ UNCHANGED queue
     \/ /\ ~room.avail
        /\ room' = [room EXCEPT !.pc = "playing", !.sent = @ + 1]
        /\ UNCHANGED <<asked, spawned, queue>>
  /\ Quiet

\* flush_kyoku
Flush ==
  /\ process = "up" /\ room.pc = "flush"
  /\ \/ /\ Send(Eff("Flush", room.m, room.sent))
        /\ room' = [room EXCEPT !.pc = "flushing"]
        /\ UNCHANGED <<asked, spawned>>
     \/ GivesUp /\ ~HasRoom /\ FailReplay(room.m, "batch") /\ UNCHANGED queue
  /\ Quiet

Flushed ==
  /\ process = "up" /\ room.pc = "flushing"
  /\ \/ /\ room.reply = "ok"
        /\ room' = [room EXCEPT !.pc = "batch", !.reply = "none"]
        /\ UNCHANGED <<asked, spawned>>
     \/ (room.reply = "err" \/ GivesUp) /\ FailReplay(room.m, "batch")
  /\ Quiet /\ UNCHANGED queue

\* record_auxiliary: "After" for who comes and goes, "Before" for a Seat that
\* begins to be played automatically, which sync_machine_controllers finds out
\* after the lines of the expired Decision were sent, its last ones included.
Mark ==
  /\ Listening /\ room.pc = "playing" /\ room.avail
  /\ \E op \in {"Before", "After"} :
       \/ Send(Eff(op, room.m, 0)) /\ UNCHANGED roomVars
       \/ ~HasRoom /\ FailReplay(room.m, "playing") /\ UNCHANGED queue
  /\ Quiet

\* complete_match: finalization is waited for as long as it takes.
Finish ==
  /\ Listening /\ room.pc = "playing" /\ room.sent = Total
  /\ room' = [room EXCEPT !.pc = IF room.avail THEN "finish" ELSE "post"]
  /\ Quiet /\ UNCHANGED <<asked, spawned, queue>>

Finalize ==
  /\ process = "up" /\ room.pc = "finish"
  /\ Send(Eff("Finalize", room.m, 0))
  /\ room' = [room EXCEPT !.pc = "finalizing"]
  /\ Quiet /\ UNCHANGED <<asked, spawned>>

\* Slip: finalization is waited for a second, like everything else.
FinalizedInTime ==
  /\ process = "up" /\ room.pc = "finalizing"
  /\ \/ /\ room.reply = "ok"
        /\ room' = [room EXCEPT !.pc = "post", !.reply = "none"]
        /\ UNCHANGED <<asked, spawned>>
     \/ (room.reply = "err" \/ GivesUp) /\ FailReplay(room.m, "post")
  /\ Quiet /\ UNCHANGED queue

Finalized ==
  /\ process = "up" /\ room.pc = "finalizing"
  /\ \/ /\ room.reply = "ok"
        /\ room' = [room EXCEPT !.pc = "post", !.reply = "none"]
        /\ UNCHANGED <<asked, spawned>>
     \/ room.reply = "err" /\ FailReplay(room.m, "post")
  /\ Quiet /\ UNCHANGED queue

\* abort_match, and the shutdown of a Room that plays.
Abort ==
  /\ Listening /\ room.pc = "playing"
  /\ \E home \in {"lobby", "closed"} : room' = [room EXCEPT !.pc = "abort", !.home = home]
  /\ Quiet /\ UNCHANGED <<asked, spawned, queue>>

CleanUp ==
  /\ process = "up" /\ room.pc = "abort"
  /\ \/ /\ Send(Eff("Cleanup", room.m, 0))
        /\ room' = [room EXCEPT !.pc = "aborting"]
     \/ /\ GivesUp /\ ~HasRoom
        /\ room' = [room EXCEPT !.pc = room.home, !.m = 0, !.avail = FALSE, !.lost = TRUE]
        /\ UNCHANGED queue
  /\ Quiet /\ UNCHANGED <<asked, spawned>>

CleanedUp ==
  /\ process = "up" /\ room.pc = "aborting"
  /\ \/ room.reply = "ok" /\ room' = [room EXCEPT !.pc = room.home, !.m = 0, !.reply = "none"]
     \/ /\ room.reply = "err" \/ GivesUp
        /\ room' = [room EXCEPT !.pc = room.home, !.m = 0, !.reply = "none", !.avail = FALSE,
                                !.lost = TRUE]
  /\ Quiet /\ UNCHANGED <<asked, spawned, queue>>

\* Back to the Lobby, a replay asked for again there, the end of the Room.
BackToLobby ==
  /\ Listening /\ room.pc = "post"
  /\ room' = [room EXCEPT !.pc = "lobby", !.m = 0]
  /\ Quiet /\ UNCHANGED <<asked, spawned, queue>>

Configure ==
  /\ Listening /\ room.pc = "lobby" /\ ~room.avail
  /\ room' = [room EXCEPT !.avail = TRUE]
  /\ Quiet /\ UNCHANGED <<asked, spawned, queue>>

Close ==
  /\ Listening /\ room.pc # "playing"
  /\ room' = [room EXCEPT !.pc = "closed", !.m = 0]
  /\ Quiet /\ UNCHANGED <<asked, spawned, queue>>

\* handle_persistence_failure: only a failure of the Match of the phase counts.
HearFailure(m) ==
  /\ Listening /\ m \in failures
  /\ failures' = failures \ {m}
  /\ IF room.m = m THEN FailReplay(m, room.pc) ELSE UNCHANGED roomVars
  /\ UNCHANGED <<process, queue, job, writer, part, file, row, records, degraded, doomed>>

\* The task of fail_replay finds room in the queue.
SendDeletion(m) ==
  /\ process = "up" /\ m \in spawned
  /\ Send(Eff("Delete", m, 0))
  /\ spawned' = spawned \ {m}
  /\ Quiet /\ UNCHANGED <<room, asked>>

-----------------------------------------------------------------------------
(* The worker *)

DiskFails == "disk" \in Faults
BaseFails == "db" \in Faults

\* What the actor is waiting for, if anything.
Awaited(op, m) ==
  \/ op = "Open" /\ room.pc = "opening" /\ room.next = m
  \/ op = "Flush" /\ room.pc = "flushing" /\ room.m = m
  \/ op = "Finalize" /\ room.pc = "finalizing" /\ room.m = m
  \/ op = "Cleanup" /\ room.pc = "aborting" /\ room.m = m

Answer(op, m, r) ==
  room' = IF Awaited(op, m) THEN [room EXCEPT !.reply = r] ELSE room

Take(op) ==
  /\ process = "up" /\ job = Idle /\ queue # << >> /\ Head(queue).op = op
  /\ queue' = Tail(queue)

\* mark_room_replay_failed and mark_match_failed.
FailWriter(m) ==
  /\ degraded' = TRUE
  /\ IF writer[m].st = "writing"
     THEN /\ writer' = [writer EXCEPT ![m].st = "failed"]
          /\ part' = part \ {m}
          /\ \/ row' = [row EXCEPT ![m] = IF @ = "writing" THEN "failed" ELSE @]
             \/ BaseFails /\ UNCHANGED row
     ELSE UNCHANGED <<writer, part, row>>

\* open_room_replay: the part file, the first lines, then the row.
OpenPart ==
  /\ Take("Open")
  /\ LET m == Head(queue).m
     IN  \/ /\ part' = part \cup {m}
            /\ job' = [at |-> "insert", op |-> "Open", m |-> m, ok |-> TRUE]
            /\ UNCHANGED <<room, degraded>>
         \/ DiskFails /\ degraded' = TRUE /\ Answer("Open", m, "err") /\ UNCHANGED <<part, job>>
  /\ UNCHANGED <<process, asked, spawned, writer, failures, file, row, records, doomed>>

InsertRow ==
  /\ process = "up" /\ job.at = "insert"
  /\ job' = Idle
  /\ \/ /\ row[job.m] = "none"
        /\ row' = [row EXCEPT ![job.m] = "writing"]
        /\ writer' = [writer EXCEPT ![job.m] = [st |-> "writing", lines |-> 1, ahead |-> FALSE]]
        /\ Answer(job.op, job.m, "ok")
        /\ UNCHANGED <<part, degraded>>
     \/ /\ row[job.m] # "none" \/ BaseFails
        /\ part' = part \ {job.m}
        /\ degraded' = TRUE
        /\ Answer(job.op, job.m, "err")
        /\ UNCHANGED <<row, writer>>
  /\ UNCHANGED <<process, asked, spawned, queue, failures, file, records, doomed>>

AppendLine ==
  /\ Take("Append")
  /\ LET m == Head(queue).m
     IN  \/ /\ writer[m].st = "writing"
            /\ writer' = [writer EXCEPT ![m] = [st |-> "writing", lines |-> @.lines + 1, ahead |-> FALSE]]
            /\ UNCHANGED <<part, row, degraded, failures>>
         \/ /\ writer[m].st # "writing" \/ DiskFails
            /\ FailWriter(m)
            /\ failures' = failures \cup {m}
  /\ UNCHANGED <<process, room, asked, spawned, job, file, records, doomed>>

\* record_auxiliary
RecordAuxiliary ==
  /\ \E op \in {"Before", "After"} : Take(op)
  /\ LET e == Head(queue)
     IN  \/ /\ writer[e.m].st = "writing"
            /\ writer' = [writer EXCEPT ![e.m] =
                 [st |-> "writing", lines |-> @.lines, ahead |-> @.ahead \/ e.op = "Before"]]
            /\ UNCHANGED <<part, row, degraded, failures>>
         \/ /\ writer[e.m].st # "writing"
            /\ FailWriter(e.m)
            /\ failures' = failures \cup {e.m}
  /\ UNCHANGED <<process, room, asked, spawned, job, file, records, doomed>>

\* persist_kyoku_record, one transaction.
PersistKyokuRecord(m) == row[m] = "writing" /\ records' = [records EXCEPT ![m] = @ + 1]

\* FlushKyoku: the record must name the line the writer is at; then the file
\* is flushed and the record inserted.
FlushKyoku ==
  /\ Take("Flush")
  /\ LET e == Head(queue)
     IN  \/ /\ writer[e.m].st = "writing" /\ writer[e.m].lines = e.line
            /\ PersistKyokuRecord(e.m)
            /\ Answer("Flush", e.m, "ok")
            /\ UNCHANGED <<writer, part, row, degraded>>
         \/ /\ \/ writer[e.m].st # "writing" \/ writer[e.m].lines # e.line
               \/ row[e.m] # "writing" \/ DiskFails \/ BaseFails
            /\ FailWriter(e.m)
            /\ Answer("Flush", e.m, "err")
            /\ UNCHANGED records
  /\ UNCHANGED <<process, asked, spawned, job, failures, file, doomed>>

\* After a failure the row is marked (or cannot be), then everything is deleted.
Erasing(op, m, ok) == [at |-> "erase", op |-> op, m |-> m, ok |-> ok]

MarkFailed(m) ==
  \/ row' = [row EXCEPT ![m] = IF @ = "writing" THEN "failed" ELSE @]
  \/ BaseFails /\ UNCHANGED row

\* finalize_room_replay: the writer leaves the table; its part file is synced
\* and renamed, unless an auxiliary event has no line.
FinalizeFile ==
  /\ Take("Finalize")
  /\ LET m == Head(queue).m  w == writer[m]
     IN  /\ writer' = [writer EXCEPT ![m] = NoWriter]
         /\ \/ /\ w.st = "none"
               /\ degraded' = TRUE
               /\ Answer("Finalize", m, "err")
               /\ UNCHANGED <<job, part, file, row>>
            \/ /\ w.st = "writing" /\ ~w.ahead
               /\ part' = part \ {m}
               /\ file' = [file EXCEPT ![m] = w.lines]
               /\ job' = [at |-> "commit", op |-> "Finalize", m |-> m, ok |-> TRUE]
               /\ UNCHANGED <<room, degraded, row>>
            \/ /\ w.st = "failed" \/ (w.st = "writing" /\ (w.ahead \/ DiskFails))
               /\ part' = part \ {m}
               /\ \/ UNCHANGED file
                  \/ w.st = "writing" /\ ~w.ahead /\ file' = [file EXCEPT ![m] = w.lines]
               /\ degraded' = TRUE
               /\ MarkFailed(m)
               /\ job' = Erasing("Finalize", m, FALSE)
               /\ UNCHANGED room
  /\ UNCHANGED <<process, asked, spawned, failures, records, doomed>>

\* validate_result_bundle, on the file and the records: the file ends with the
\* Match, and there is a record for each EndKyoku in it.
Validates(m) == file[m] = Total /\ records[m] = Cardinality(Ends)

\* complete_match, one transaction.
CompleteRow ==
  /\ process = "up" /\ job.at = "commit"
  /\ \/ /\ row[job.m] = "writing" /\ Validates(job.m)
        /\ row' = [row EXCEPT ![job.m] = "completed"]
        /\ Answer("Finalize", job.m, "ok")
        /\ job' = Idle
        /\ UNCHANGED degraded
     \/ /\ row[job.m] # "writing" \/ ~Validates(job.m) \/ BaseFails
        /\ degraded' = TRUE
        /\ MarkFailed(job.m)
        /\ job' = Erasing("Finalize", job.m, FALSE)
        /\ UNCHANGED room
  /\ UNCHANGED <<process, asked, spawned, queue, writer, failures, part, file, records, doomed>>

\* cleanup_room_replay
Delete ==
  /\ \E op \in {"Delete", "Cleanup"} : Take(op)
  /\ LET e == Head(queue)
     IN  /\ writer' = [writer EXCEPT ![e.m] = NoWriter]
         /\ part' = IF writer[e.m].st = "writing" THEN part \ {e.m} ELSE part
         /\ job' = Erasing(e.op, e.m, TRUE)
  /\ UNCHANGED <<process, room, asked, spawned, failures, file, row, records, degraded, doomed>>

\* delete_incomplete_match claims the row, removes the files and then deletes
\* the row, in a transaction that the removal of the files may undo.
\* Slip: every row.
AnyRow == {m \in Match : row[m] # "none"}

Unfinished == {m \in Match : row[m] \in {"writing", "failed"}}

\* Slip: only success is answered.
DoneWhenOk(ok) ==
  /\ job' = Idle
  /\ IF ok THEN Answer(job.op, job.m, "ok") ELSE UNCHANGED room

Done(ok) ==
  /\ job' = Idle
  /\ Answer(job.op, job.m, IF ok THEN "ok" ELSE "err")

\* Slip: the row goes first, the files after it.
EraseRowFirst ==
  /\ process = "up" /\ job.at = "erase"
  /\ IF job.m \in Unfinished
     THEN /\ row' = [row EXCEPT ![job.m] = "none"]
          /\ records' = [records EXCEPT ![job.m] = 0]
          /\ job' = [job EXCEPT !.at = "unrow"]
          /\ UNCHANGED room
     ELSE Done(job.ok) /\ UNCHANGED <<row, records>>
  /\ UNCHANGED <<process, asked, spawned, queue, writer, failures, part, file, degraded, doomed>>

EraseFiles ==
  /\ process = "up" /\ job.at = "erase"
  /\ \/ /\ job.m \notin Unfinished
        /\ Done(job.ok)
        /\ UNCHANGED <<part, file, degraded>>
     \/ /\ job.m \in Unfinished
        /\ part' = part \ {job.m}
        /\ file' = [file EXCEPT ![job.m] = 0]
        /\ job' = [job EXCEPT !.at = "unrow"]
        /\ UNCHANGED <<room, degraded>>
     \/ /\ job.m \in Unfinished /\ (DiskFails \/ BaseFails)
        /\ degraded' = TRUE
        /\ Done(FALSE)
        /\ UNCHANGED <<part, file>>
  /\ UNCHANGED <<process, asked, spawned, queue, writer, failures, row, records, doomed>>

EraseRow ==
  /\ process = "up" /\ job.at = "unrow"
  /\ \/ /\ row' = [row EXCEPT ![job.m] = "none"]
        /\ records' = [records EXCEPT ![job.m] = 0]
        /\ Done(job.ok)
        /\ UNCHANGED degraded
     \/ /\ BaseFails
        /\ degraded' = TRUE
        /\ Done(FALSE)
        /\ UNCHANGED <<row, records>>
  /\ UNCHANGED <<process, asked, spawned, queue, writer, failures, part, file, doomed>>

\* The Room is gone and its queue empty: the worker drops what is still open.
DropOpen(m) ==
  /\ process = "up" /\ room.pc = "closed" /\ queue = << >> /\ spawned = {} /\ job = Idle
  /\ writer[m].st # "none"
  /\ writer' = [writer EXCEPT ![m] = NoWriter]
  /\ part' = IF writer[m].st = "writing" THEN part \ {m} ELSE part
  /\ job' = Erasing("Delete", m, TRUE)
  /\ UNCHANGED <<process, room, asked, spawned, queue, failures, file, row, records, degraded,
                 doomed>>

-----------------------------------------------------------------------------
(* The Admin deletes a completed replay: first the file, then the row *)

RemoveFile(m) ==
  /\ process = "up" /\ row[m] = "completed"
  /\ file' = [file EXCEPT ![m] = 0]
  /\ doomed' = [doomed EXCEPT ![m] = "file"]
  /\ UNCHANGED <<process, room, asked, spawned, queue, job, writer, failures, part, row, records,
                 degraded>>

DeleteRow(m) ==
  /\ process = "up" /\ row[m] = "completed" /\ doomed[m] = "file"
  /\ row' = [row EXCEPT ![m] = "none"]
  /\ records' = [records EXCEPT ![m] = 0]
  /\ doomed' = [doomed EXCEPT ![m] = "row"]
  /\ UNCHANGED <<process, room, asked, spawned, queue, job, writer, failures, part, file,
                 degraded>>

-----------------------------------------------------------------------------
(* The process stops and starts again *)

Crash ==
  /\ "crash" \in Faults /\ process # "down"
  /\ process' = "down"
  /\ room' = NewRoom(room.next)
  /\ asked' = {} /\ spawned' = {} /\ queue' = << >> /\ job' = Idle
  /\ writer' = [m \in Match |-> NoWriter]
  /\ failures' = {}
  /\ degraded' = FALSE
  /\ UNCHANGED <<part, file, row, records, doomed>>

\* startup_cleanup removes every part file, or stops at one it cannot remove;
\* `asked` holds the unfinished rows it has yet to look at.
Boot ==
  /\ process = "down"
  /\ process' = "starting"
  /\ asked' = Unfinished
  /\ \/ part' = {} /\ UNCHANGED degraded
     \/ DiskFails /\ part' \in SUBSET part /\ degraded' = TRUE
  /\ UNCHANGED <<room, spawned, queue, job, writer, failures, file, row, records, doomed>>

\* Slip: a row that cannot be deleted is left for the next start, silently.
CleanRowSilently(m) ==
  /\ process = "starting" /\ m \in asked
  /\ asked' = asked \ {m}
  /\ part' = part \ {m} /\ file' = [file EXCEPT ![m] = 0]
  /\ \/ row' = [row EXCEPT ![m] = "none"] /\ records' = [records EXCEPT ![m] = 0]
     \/ BaseFails /\ UNCHANGED <<row, records>>
  /\ UNCHANGED <<process, room, spawned, queue, job, writer, failures, degraded, doomed>>

CleanRow(m) ==
  /\ process = "starting" /\ m \in asked
  /\ asked' = asked \ {m}
  /\ \/ /\ part' = part \ {m} /\ file' = [file EXCEPT ![m] = 0]
        /\ row' = [row EXCEPT ![m] = "none"] /\ records' = [records EXCEPT ![m] = 0]
        /\ UNCHANGED degraded
     \/ /\ BaseFails
        /\ part' = part \ {m} /\ file' = [file EXCEPT ![m] = 0]
        /\ degraded' = TRUE
        /\ UNCHANGED <<row, records>>
     \/ /\ DiskFails
        /\ degraded' = TRUE
        /\ UNCHANGED <<part, file, row, records>>
  /\ UNCHANGED <<process, room, spawned, queue, job, writer, failures, doomed>>

\* validate_completed_replays
Ready ==
  /\ process = "starting" /\ asked = {}
  /\ process' = "up"
  /\ degraded' = (degraded \/ \E m \in Match : row[m] = "completed" /\ file[m] = 0)
  /\ UNCHANGED <<room, asked, spawned, queue, job, writer, failures, part, file, row, records,
                 doomed>>

ActorStep ==
  \/ Start \/ Opened \/ Emit \/ Flush \/ Flushed \/ Mark \/ Finish \/ Finalize \/ Finalized
  \/ Abort \/ CleanUp \/ CleanedUp \/ BackToLobby \/ Configure \/ Close
  \/ \E m \in Match : HearFailure(m) \/ SendDeletion(m)

WorkerStep ==
  \/ OpenPart \/ InsertRow \/ AppendLine \/ RecordAuxiliary \/ FlushKyoku \/ FinalizeFile
  \/ CompleteRow \/ Delete \/ EraseFiles \/ EraseRow
  \/ \E m \in Match : DropOpen(m)

AdminStep == \E m \in Match : RemoveFile(m) \/ DeleteRow(m)

ProcessStep == Crash \/ Boot \/ Ready \/ \E m \in Match : CleanRow(m)

Next == ActorStep \/ WorkerStep \/ AdminStep \/ ProcessStep

Spec == Init /\ [][Next]_vars
\* The worker and the actor run; nobody else has to do anything.
FairSpec == Spec /\ WF_vars(WorkerStep) /\ WF_vars(Finalized)

-----------------------------------------------------------------------------
TypeOK ==
  /\ process \in {"up", "down", "starting"}
  /\ room \in Room
  /\ asked \subseteq Match /\ spawned \subseteq Match /\ failures \subseteq Match
  /\ queue \in Seq(Effect) /\ Len(queue) <= Capacity
  /\ job \in Job
  /\ writer \in [Match -> Writer]
  /\ part \subseteq Match /\ doomed \in [Match -> {"no", "file", "row"}]
  /\ file \in [Match -> Nat]
  /\ row \in [Match -> {"none", "writing", "failed", "completed"}]
  /\ records \in [Match -> Nat]
  /\ degraded \in BOOLEAN

\* A replay that the database calls completed has its whole file and all its
\* records, whatever was lost, late or interrupted on the way, unless the Admin
\* had the file deleted.  (complete_match, startup_cleanup, delete_replay)
CompletedIsWhole ==
  \A m \in Match : row[m] = "completed" /\ doomed[m] # "file" => Validates(m)

\* Every finished file on disk belongs to a row, also between two steps of any
\* deletion: the start of the process finds files only through rows, so a file
\* without one would never be removed.  (delete_incomplete_match, delete_replay)
NoOrphanFile ==
  \A m \in Match : file[m] # 0 => row[m] # "none"

\* The inductive invariant behind the two.  A writer that writes has a row to
\* finish, and nobody else is at work on its Match; a deletion that is about to
\* drop the row has dropped the files; at the start of the process nothing but
\* the rows found unfinished is cleaned up.
WorkInv ==
  /\ \A m \in Match : writer[m].st = "writing" => row[m] = "writing"
  /\ job.at \in {"commit", "erase", "unrow"} => writer[job.m].st = "none"
  /\ job.at # "idle" => job.m \in Match
  /\ job.at = "unrow" => job.m \in Unfinished /\ file[job.m] = 0
  /\ process # "up" => job = Idle /\ \A m \in Match : writer[m].st = "none"
  /\ process = "starting" => asked \subseteq Unfinished
  /\ \A m \in Match : doomed[m] = "file" => row[m] = "completed" /\ file[m] = 0

\* Wherever the actor has a Match to name, it has one.
RoomInv ==
  /\ room.pc \notin {"lobby", "opening", "closed"} => room.m \in Match
  /\ room.pc = "opening" => room.next \in Match
  /\ room.pc = "opening" /\ room.home = "post" => room.m \in Match
  /\ room.pc \in {"abort", "aborting"} => room.home # "post"

ReplayInv == TypeOK /\ RoomInv /\ WorkInv /\ CompletedIsWhole /\ NoOrphanFile

\* Once nothing is left to do for a Match that is not being played, nothing is
\* left of it but a completed replay, or somebody has been told: the server's
\* health or the Room says that persistence is degraded.
Settled(m) ==
  /\ process = "up" /\ queue = << >> /\ spawned = {} /\ job = Idle
  /\ room.pc \in {"lobby", "playing", "post", "closed"}
  /\ room.pc = "playing" => room.m # m
  /\ room.pc = "closed" => writer[m].st = "none"

LeftoversAreTold ==
  \A m \in Match : Settled(m) /\ ~degraded /\ ~room.lost =>
    m \notin part /\ row[m] \in {"none", "completed"} /\ writer[m].st = "none"

\* After a Match, and until a Rematch is tried, the Room says that the replay is
\* available exactly when the database has it.  (complete_match,
\* handle_persistence_failure)
AvailableMeansKept ==
  room.pc = "post" /\ room.next = room.m /\ doomed[room.m] = "no" =>
    (room.avail <=> row[room.m] = "completed")

\* The one wait without a time-out ends: the worker answers whatever happens.
FinalizationEnds ==
  room.pc = "finalizing" ~> room.pc # "finalizing"

\* A replay that was written to its last line is not given up, where nothing
\* fails and nothing is slow.  (ReplayWriter::finalize)
WrittenReplayIsKept ==
  [][\A m \in Match : writer[m].st = "writing" /\ writer[m].lines = Total => row'[m] # "failed"]_vars
=============================================================================
