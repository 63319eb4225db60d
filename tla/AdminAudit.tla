----------------------------- MODULE AdminAudit -----------------------------
(***************************************************************************)
(* The audit of Admin operations (crates/double_riichi_server/src/http.rs  *)
(* and src/storage.rs): an operation is announced in admin_audit_pending,  *)
(* done, and then moved to audit_logs or taken back.  Any statement of the *)
(* database may fail, a request may be dropped with its connection at any  *)
(* await, the process may stop, and rows left behind are flushed at startup*)
(* and once a day.                                                         *)
(***************************************************************************)
EXTENDS Naturals, FiniteSets

CONSTANT R   \* requests, one Admin operation each

VARIABLES
  kind,     \* what each request asks for
  pc,       \* where its handler is
  mutex,    \* admin_mutation_lock
  pending,  \* the row of admin_audit_pending
  log,      \* the entry of audit_logs
  done,     \* operations that took effect
  queued,   \* commands in a Room's queue whose request was dropped
  flushing, \* rows retry_pending_audits has still to flush
  up        \* the process runs

vars == <<kind, pc, mutex, pending, log, done, queued, flushing, up>>

Kinds == {"participant", "room", "create", "delete", "login", "logout"}

\* The session changes before the operation is announced.
Session == {"login", "logout"}

TypeOK ==
  /\ kind \in [R -> Kinds]
  /\ pc \in [R -> {"new", "announce", "act", "complete", "cancel", "again", "over", "dropped"}]
  /\ mutex \in R \cup {"none"}
  /\ pending \in [R -> {"none", "prepared", "rolled_back"}]
  /\ log \subseteq R /\ done \subseteq R /\ queued \subseteq R /\ flushing \subseteq R
  /\ up \in BOOLEAN

Init ==
  /\ kind \in [R -> Kinds]
  /\ pc = [r \in R |-> "new"]
  /\ mutex = "none"
  /\ pending = [r \in R |-> "none"]
  /\ log = {} /\ done = {} /\ queued = {} /\ flushing = {}
  /\ up = TRUE

Goes(r, next) ==
  /\ pc' = [pc EXCEPT ![r] = next]
  /\ mutex' = IF next = "over" THEN "none" ELSE mutex

Row(r, state) == pending' = [pending EXCEPT ![r] = state]

-----------------------------------------------------------------------------
(* A request *)

\* Under the lock.  A login opens its session and a logout closes its own
\* first; a logout without a session announces nothing.
Begin(r) ==
  /\ up /\ pc[r] = "new" /\ mutex = "none"
  /\ \/ /\ pc' = [pc EXCEPT ![r] = "announce"] /\ mutex' = r
        /\ done' = IF kind[r] = "logout" THEN done \cup {r} ELSE done
     \/ pc' = [pc EXCEPT ![r] = "over"] /\ UNCHANGED <<mutex, done>>
  /\ UNCHANGED <<kind, pending, log, queued, flushing, up>>

\* prepare_admin_audit; without a row nothing is done and a session is put back.
Announce(r) ==
  /\ up /\ pc[r] = "announce"
  /\ \/ /\ pending[r] = "none" /\ Row(r, "prepared")
        /\ Goes(r, IF kind[r] \in Session THEN "complete" ELSE "act")
        /\ UNCHANGED done
     \/ /\ Goes(r, "over") /\ done' = done \ {r}
        /\ UNCHANGED pending
  /\ UNCHANGED <<kind, log, queued, flushing, up>>

\* A command to the Room: changed something, changed nothing, or was refused.
\* After a Bot was added the Room may be gone before it is described.
RoomCommand(r) ==
  /\ up /\ pc[r] = "act" /\ kind[r] \in {"participant", "room"}
  /\ \/ done' = done \cup {r} /\ Goes(r, "complete")
     \/ kind[r] = "room" /\ done' = done \cup {r} /\ Goes(r, "over")
     \/ UNCHANGED done /\ Goes(r, "cancel")
  /\ UNCHANGED <<kind, pending, log, queued, flushing, up>>

\* create_with_join_code; a code that is taken is cancelled and another drawn.
CreateRoom(r) ==
  /\ up /\ pc[r] = "act" /\ kind[r] = "create"
  /\ \/ done' = done \cup {r} /\ Goes(r, "complete")
     \/ \E next \in {"again", "cancel"} : UNCHANGED done /\ Goes(r, next)
  /\ UNCHANGED <<kind, pending, log, queued, flushing, up>>

\* remove_with_outcome: removed, already gone, or an error.
DeleteRoom(r) ==
  /\ up /\ pc[r] = "act" /\ kind[r] = "delete"
  /\ \/ done' = done \cup {r} /\ Goes(r, "complete")
     \/ UNCHANGED done /\ Goes(r, "cancel")
  /\ UNCHANGED <<kind, pending, log, queued, flushing, up>>

\* flush_pending_audit, one transaction.
Flushed(r) ==
  /\ log' = IF pending[r] = "prepared" THEN log \cup {r} ELSE log
  /\ Row(r, IF pending[r] = "prepared" THEN "none" ELSE pending[r])


\* complete_admin_audit, then the answer.  If the entry cannot be written a
\* session is put back with its row, or stays as it is if that fails as well;
\* any other operation is done and its row waits for the next flush.
Complete(r) ==
  /\ up /\ pc[r] = "complete"
  /\ \/ /\ (pending[r] = "prepared" \/ r \in log)
        /\ Flushed(r)
        /\ done' = IF kind[r] = "login" THEN done \cup {r} ELSE done
     \/ /\ kind[r] \in Session /\ pending[r] = "prepared"
        /\ Row(r, "rolled_back") /\ done' = done \ {r} /\ UNCHANGED log
     \/ UNCHANGED <<pending, log, done>>
  /\ Goes(r, "over")
  /\ UNCHANGED <<kind, queued, flushing, up>>

\* cancel_admin_audit: the row is deleted, or marked if it cannot be; both may
\* fail, and the row may have been flushed meanwhile.
Cancel(r) ==
  /\ up /\ pc[r] \in {"cancel", "again"}
  /\ \/ /\ \E state \in {"none", "rolled_back"} :
             Row(r, IF pending[r] = "prepared" THEN state ELSE pending[r])
        /\ Goes(r, IF pc[r] = "again" THEN "announce" ELSE "over")
     \/ Goes(r, "over") /\ UNCHANGED pending
  /\ UNCHANGED <<kind, log, done, queued, flushing, up>>

\* The connection of the request ends and its handler is dropped; a command
\* that is in the Room's queue stays there.
Drop(r) ==
  /\ up /\ pc[r] \in {"announce", "act", "complete", "cancel", "again"}
  /\ pc' = [pc EXCEPT ![r] = "dropped"] /\ mutex' = "none"
  /\ queued' = IF pc[r] = "act" THEN queued \cup {r} ELSE queued
  /\ UNCHANGED <<kind, pending, log, done, flushing, up>>

\* The Room carries a command out that nobody waits for, or refuses it.
RoomActsLate(r) ==
  /\ up /\ r \in queued
  /\ queued' = queued \ {r}
  /\ done' \in {done, done \cup {r}}
  /\ UNCHANGED <<kind, pc, mutex, pending, log, flushing, up>>

-----------------------------------------------------------------------------
(* Rows left behind *)

Prepared == {r \in R : pending[r] = "prepared"}

\* retry_pending_audits: the rows that are prepared now; the daily task takes no
\* lock.
Retry ==
  /\ up /\ flushing = {} /\ Prepared # {}
  /\ flushing' = Prepared
  /\ UNCHANGED <<kind, pc, mutex, pending, log, done, queued, up>>

\* Slip: the row is taken as it was when it was listed.
FlushListed(r) ==
  /\ up /\ r \in flushing
  /\ log' = log \cup {r} /\ Row(r, "none")
  /\ flushing' = flushing \ {r}
  /\ UNCHANGED <<kind, pc, mutex, done, queued, up>>

\* The next row; a row that is no longer there and was not flushed either ends
\* the pass, as an error does.
Flush(r) ==
  /\ up /\ r \in flushing
  /\ Flushed(r)
  /\ flushing' = IF pending[r] = "prepared" \/ r \in log THEN flushing \ {r} ELSE {}
  /\ UNCHANGED <<kind, pc, mutex, done, queued, up>>

FlushFails ==
  /\ up /\ flushing # {}
  /\ flushing' = {}
  /\ UNCHANGED <<kind, pc, mutex, pending, log, done, queued, up>>

\* The process stops; sessions and Rooms are in memory only.
Crash ==
  /\ up /\ up' = FALSE
  /\ pc' = [r \in R |-> IF pc[r] \in {"new", "over"} THEN pc[r] ELSE "dropped"]
  /\ mutex' = "none" /\ queued' = {} /\ flushing' = {}
  /\ UNCHANGED <<kind, pending, log, done>>

\* Storage::open flushes before the first request.
Restart ==
  /\ ~up /\ up' = TRUE
  /\ flushing' = Prepared
  /\ UNCHANGED <<kind, pc, mutex, pending, log, done, queued>>

-----------------------------------------------------------------------------

Next ==
  \/ \E r \in R : \/ Begin(r) \/ Announce(r) \/ RoomCommand(r) \/ CreateRoom(r)
                  \/ DeleteRoom(r) \/ Complete(r) \/ Cancel(r) \/ Drop(r)
                  \/ RoomActsLate(r) \/ Flush(r)
  \/ Retry \/ FlushFails \/ Crash \/ Restart

Spec == Init /\ [][Next]_vars

-----------------------------------------------------------------------------
(* Properties *)

\* An operation that took effect is in the audit or will be put there by the
\* next flush, whatever statement failed and wherever the request or the
\* process stopped; only a logout whose request is dropped while it is announced
\* leaves no trace (http.rs prepare_admin_audit ... complete_admin_audit).
DoneIsAudited ==
  \A r \in done : pc[r] = "over" \/ (pc[r] = "dropped" /\ kind[r] # "logout") =>
    r \in log \/ pending[r] = "prepared"

\* An operation that was taken back does not enter the audit later, although a
\* flush may have listed its row before (storage.rs flush_pending_audit).
StaysOut ==
  \A r \in R : pc[r] = "over" /\ pending[r] # "prepared" /\ r \notin log => r \notin log'

\* The audit is sound.
AuditIsSound == []DoneIsAudited /\ [][StaysOut]_vars

\* The inductive invariant: what was done is traced from the moment it can be, and an
\* operation that is refused or cancelled was not done.
Traced(r) == r \in log \/ pending[r] = "prepared"

Stage(r) ==
  /\ pc[r] \in {"new", "act", "cancel", "again"} => r \notin done
  /\ pc[r] = "announce" /\ r \in done => kind[r] = "logout"
  /\ pc[r] \in {"act", "complete"} => Traced(r)
  /\ r \in queued => pc[r] = "dropped" /\ Traced(r)
  /\ r \in done /\ (pc[r] = "over" \/ (pc[r] = "dropped" /\ kind[r] # "logout")) => Traced(r)

AuditInv == TypeOK /\ \A r \in R : Stage(r)
=============================================================================
