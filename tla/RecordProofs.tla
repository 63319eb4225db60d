----------------------------- MODULE RecordProofs -----------------------------
(***************************************************************************)
(* Theorems about what is written down of what was done, for every value   *)
(* of the constants: the audit of the Admin (AdminAudit), the grants of    *)
(* the gateway (OAuthGrants), the Runs of Benchmark Mode (Benchmark), and  *)
(* the results of a Kyoku (Settlement).  ServicesProofs carries them over  *)
(* to the parts of Services.                                               *)
(***************************************************************************)
EXTENDS Settlement, FiniteSetTheorems, SequenceTheorems, WellFoundedInduction, TLAPS

-----------------------------------------------------------------------------
(* The audit of the Admin *)

CONSTANT R

VARIABLES kind, pc, mutex, pending, log, done, queued, flushing, up

Audit == INSTANCE AdminAudit

\* A request whose state does not change keeps its stage.
LEMMA StageIsKept ==
  ASSUME NEW r \in R, Audit!Stage(r), pc'[r] = pc[r], kind' = kind, pending'[r] = pending[r],
         r \in log' <=> r \in log, r \in done' <=> r \in done, r \in queued' => r \in queued
  PROVE  Audit!Stage(r)'
BY DEF Audit!Stage, Audit!Traced

\* The row is prepared, or deleted, and the entry written if it was prepared.
LEMMA FlushedKeeps ==
  ASSUME Audit!TypeOK, NEW r \in R, Audit!Flushed(r)
  PROVE  /\ pending' \in [R -> {"none", "prepared", "rolled_back"}] /\ log' \subseteq R
         /\ \A q \in R : Audit!Traced(q)' <=> Audit!Traced(q)
         /\ \A q \in R \ {r} : pending'[q] = pending[q] /\ (q \in log' <=> q \in log)
BY DEF Audit!TypeOK, Audit!Flushed, Audit!Row, Audit!Traced

LEMMA BeginKeeps ==
  ASSUME Audit!AuditInv, NEW r \in R, Audit!Begin(r)
  PROVE  Audit!AuditInv'
<1>1. Audit!TypeOK'
  BY DEF Audit!AuditInv, Audit!TypeOK, Audit!Begin
<1>2. ASSUME NEW q \in R \ {r} PROVE Audit!Stage(q)'
  BY StageIsKept DEF Audit!AuditInv, Audit!TypeOK, Audit!Begin
<1>3. Audit!Stage(r)'
  BY DEF Audit!AuditInv, Audit!TypeOK, Audit!Begin, Audit!Stage, Audit!Traced
<1> QED
  BY <1>1, <1>2, <1>3 DEF Audit!AuditInv

LEMMA AnnounceKeeps ==
  ASSUME Audit!AuditInv, NEW r \in R, Audit!Announce(r)
  PROVE  Audit!AuditInv'
<1>1. Audit!TypeOK'
  BY DEF Audit!AuditInv, Audit!TypeOK, Audit!Announce, Audit!Goes, Audit!Row
<1>2. ASSUME NEW q \in R \ {r} PROVE Audit!Stage(q)'
  BY StageIsKept DEF Audit!AuditInv, Audit!TypeOK, Audit!Announce, Audit!Goes, Audit!Row
<1>3. Audit!Stage(r)'
  BY DEF Audit!AuditInv, Audit!TypeOK, Audit!Announce, Audit!Goes, Audit!Row, Audit!Stage,
         Audit!Traced, Audit!Session
<1> QED
  BY <1>1, <1>2, <1>3 DEF Audit!AuditInv

\* The operation itself, done or refused.
LEMMA OperationKeeps ==
  ASSUME Audit!AuditInv, NEW r \in R,
         Audit!RoomCommand(r) \/ Audit!CreateRoom(r) \/ Audit!DeleteRoom(r)
  PROVE  Audit!AuditInv'
<1>1. /\ pc[r] = "act" /\ \E next \in {"complete", "cancel", "again", "over"} : Audit!Goes(r, next)
      /\ done' \in {done, done \cup {r}} /\ UNCHANGED <<kind, pending, log, queued, flushing, up>>
      /\ pc'[r] \in {"cancel", "again"} => done' = done
  BY DEF Audit!AuditInv, Audit!TypeOK, Audit!RoomCommand, Audit!CreateRoom, Audit!DeleteRoom, Audit!Goes
<1>2. Audit!TypeOK'
  BY <1>1 DEF Audit!AuditInv, Audit!TypeOK, Audit!Goes
<1>3. ASSUME NEW q \in R \ {r} PROVE Audit!Stage(q)'
  BY <1>1, StageIsKept DEF Audit!AuditInv, Audit!TypeOK, Audit!Goes
<1>4. Audit!Stage(r)'
  BY <1>1 DEF Audit!AuditInv, Audit!TypeOK, Audit!Goes, Audit!Stage, Audit!Traced
<1> QED
  BY <1>2, <1>3, <1>4 DEF Audit!AuditInv

LEMMA CompleteKeeps ==
  ASSUME Audit!AuditInv, NEW r \in R, Audit!Complete(r)
  PROVE  Audit!AuditInv'
<1> USE DEF Audit!AuditInv
<1>1. /\ pc[r] = "complete" /\ pc' = [pc EXCEPT ![r] = "over"] /\ mutex' = "none"
      /\ done' \in {done, done \cup {r}, done \ {r}} /\ UNCHANGED <<kind, queued, flushing, up>>
  BY DEF Audit!Complete, Audit!Goes
<1>2. \/ Audit!Flushed(r)
      \/ /\ pending' = [pending EXCEPT ![r] = "rolled_back"] /\ log' = log /\ done' = done \ {r}
      \/ UNCHANGED <<pending, log, done>>
  BY DEF Audit!Complete, Audit!Row
<1>3. pending' \in [R -> {"none", "prepared", "rolled_back"}] /\ log' \subseteq R
  BY <1>2, FlushedKeeps DEF Audit!TypeOK
<1>4. Audit!TypeOK'
  BY <1>1, <1>3 DEF Audit!TypeOK
<1>5. ASSUME NEW q \in R \ {r} PROVE Audit!Stage(q)'
  <2>1. pending'[q] = pending[q] /\ (q \in log' <=> q \in log)
    BY <1>2, FlushedKeeps DEF Audit!TypeOK
  <2> QED
    BY <1>1, <2>1, StageIsKept DEF Audit!TypeOK
<1>6. Audit!Stage(r)'
  <2>1. Audit!Traced(r) /\ r \notin queued
    BY <1>1 DEF Audit!Stage
  <2>2. pc'[r] = "over" /\ r \notin queued'
    BY <1>1, <2>1 DEF Audit!TypeOK
  <2>3. r \notin done' \/ Audit!Traced(r)'
    BY <1>2, <2>1, FlushedKeeps DEF Audit!Traced
  <2> QED
    BY <2>2, <2>3 DEF Audit!Stage
<1> QED
  BY <1>4, <1>5, <1>6

LEMMA CancelKeeps ==
  ASSUME Audit!AuditInv, NEW r \in R, Audit!Cancel(r)
  PROVE  Audit!AuditInv'
<1>1. Audit!TypeOK'
  BY DEF Audit!AuditInv, Audit!TypeOK, Audit!Cancel, Audit!Goes, Audit!Row
<1>2. ASSUME NEW q \in R \ {r} PROVE Audit!Stage(q)'
  BY StageIsKept DEF Audit!AuditInv, Audit!TypeOK, Audit!Cancel, Audit!Goes, Audit!Row
<1>3. Audit!Stage(r)'
  BY DEF Audit!AuditInv, Audit!TypeOK, Audit!Cancel, Audit!Goes, Audit!Row, Audit!Stage, Audit!Traced
<1> QED
  BY <1>1, <1>2, <1>3 DEF Audit!AuditInv

LEMMA DropKeeps ==
  ASSUME Audit!AuditInv, NEW r \in R, Audit!Drop(r)
  PROVE  Audit!AuditInv'
<1>1. Audit!TypeOK'
  BY DEF Audit!AuditInv, Audit!TypeOK, Audit!Drop
<1>2. ASSUME NEW q \in R \ {r} PROVE Audit!Stage(q)'
  BY StageIsKept DEF Audit!AuditInv, Audit!TypeOK, Audit!Drop
<1>3. Audit!Stage(r)'
  BY DEF Audit!AuditInv, Audit!TypeOK, Audit!Drop, Audit!Stage, Audit!Traced
<1> QED
  BY <1>1, <1>2, <1>3 DEF Audit!AuditInv

LEMMA RoomActsLateKeeps ==
  ASSUME Audit!AuditInv, NEW r \in R, Audit!RoomActsLate(r)
  PROVE  Audit!AuditInv'
<1>1. Audit!TypeOK'
  BY DEF Audit!AuditInv, Audit!TypeOK, Audit!RoomActsLate
<1>2. ASSUME NEW q \in R \ {r} PROVE Audit!Stage(q)'
  BY StageIsKept DEF Audit!AuditInv, Audit!TypeOK, Audit!RoomActsLate
<1>3. Audit!Stage(r)'
  BY DEF Audit!AuditInv, Audit!TypeOK, Audit!RoomActsLate, Audit!Stage, Audit!Traced
<1> QED
  BY <1>1, <1>2, <1>3 DEF Audit!AuditInv

LEMMA FlushKeeps ==
  ASSUME Audit!AuditInv, NEW r \in R, Audit!Flush(r)
  PROVE  Audit!AuditInv'
<1> USE DEF Audit!AuditInv
<1>1. Audit!Flushed(r) /\ UNCHANGED <<kind, pc, mutex, done, queued, up>> /\ flushing' \subseteq flushing
  BY DEF Audit!Flush
<1>2. /\ pending' \in [R -> {"none", "prepared", "rolled_back"}] /\ log' \subseteq R
      /\ \A q \in R : Audit!Traced(q)' <=> Audit!Traced(q)
  BY <1>1, FlushedKeeps
<1>3. Audit!TypeOK'
  BY <1>1, <1>2 DEF Audit!TypeOK
<1>4. ASSUME NEW q \in R PROVE Audit!Stage(q)'
  BY <1>1, <1>2 DEF Audit!Stage
<1> QED
  BY <1>3, <1>4

\* Whatever stops: the process, or a pass over the rows.
LEMMA StopsKeep ==
  ASSUME Audit!AuditInv, Audit!Retry \/ Audit!FlushFails \/ Audit!Crash \/ Audit!Restart
  PROVE  Audit!AuditInv'
<1>1. Audit!TypeOK'
  BY DEF Audit!AuditInv, Audit!TypeOK, Audit!Retry, Audit!FlushFails, Audit!Crash, Audit!Restart,
         Audit!Prepared
<1>2. ASSUME NEW q \in R PROVE Audit!Stage(q)'
  BY DEF Audit!AuditInv, Audit!TypeOK, Audit!Retry, Audit!FlushFails, Audit!Crash, Audit!Restart,
         Audit!Stage, Audit!Traced
<1> QED
  BY <1>1, <1>2 DEF Audit!AuditInv

\* What was done is in the audit or will be put there by the next flush, and what was
\* taken back never enters it, for any number of requests, wherever a statement fails,
\* a request is dropped or the process stops (http.rs complete_admin_audit, storage.rs
\* flush_pending_audit).
THEOREM AuditIsKept == Audit!Spec => Audit!AuditIsSound
<1>1. Audit!Init => Audit!AuditInv
  BY DEF Audit!Init, Audit!AuditInv, Audit!TypeOK, Audit!Stage
<1>2. Audit!AuditInv /\ [Audit!Next]_(Audit!vars) => Audit!AuditInv'
  <2> SUFFICES ASSUME Audit!AuditInv, [Audit!Next]_(Audit!vars) PROVE Audit!AuditInv'
    OBVIOUS
  <2>1. CASE UNCHANGED Audit!vars
    BY <2>1 DEF Audit!vars, Audit!AuditInv, Audit!TypeOK, Audit!Stage, Audit!Traced
  <2> QED
    BY <2>1, BeginKeeps, AnnounceKeeps, OperationKeeps, CompleteKeeps, CancelKeeps, DropKeeps,
       RoomActsLateKeeps, FlushKeeps, StopsKeep DEF Audit!Next
<1>3. Audit!AuditInv => Audit!DoneIsAudited
  BY DEF Audit!AuditInv, Audit!TypeOK, Audit!Stage, Audit!Traced, Audit!DoneIsAudited
<1>4. Audit!AuditInv /\ [Audit!Next]_(Audit!vars) => [Audit!StaysOut]_(Audit!vars)
  <2> SUFFICES ASSUME Audit!AuditInv, Audit!Next, NEW r \in R, pc[r] = "over",
                      pending[r] # "prepared", r \notin log
               PROVE  r \notin log'
    BY DEF Audit!StaysOut
  <2>1. ASSUME NEW q \in R, Audit!Flushed(q) PROVE r \notin log'
    BY <2>1 DEF Audit!Flushed
  <2>2. \/ log' = log
        \/ \E q \in R : Audit!Flushed(q)
    BY DEF Audit!Next, Audit!Begin, Audit!Announce, Audit!RoomCommand, Audit!CreateRoom,
           Audit!DeleteRoom, Audit!Complete, Audit!Cancel, Audit!Drop, Audit!RoomActsLate,
           Audit!Flush, Audit!Retry, Audit!FlushFails, Audit!Crash, Audit!Restart
  <2> QED
    BY <2>1, <2>2
<1> QED
  BY <1>1, <1>2, <1>3, <1>4, PTL DEF Audit!Spec, Audit!AuditIsSound

-----------------------------------------------------------------------------
(* The grants of the gateway *)

CONSTANTS F, Q, MaxPending, FlowLife, CodeLife, AccessLife, FamilyLife, MaxPairs, MaxTime

VARIABLES now, shown, flow, code, family, pair, request, held, replayed

OAuth == INSTANCE OAuthGrants

\* The instance counts as the library does.
LEMMA CountingQ ==
  /\ OAuth!Cardinality(Q) = Cardinality(Q)
  /\ OAuth!IsFiniteSet(Q) <=> IsFiniteSet(Q)
BY DEF Cardinality, OAuth!Cardinality, IsFiniteSet, OAuth!IsFiniteSet

\* What a request holds.
LEMMA RequestIs ==
  ASSUME NEW r \in OAuth!Request
  PROVE  /\ r.op \in {"idle", "issue", "exchange", "rotate"}
         /\ r.op = "issue" => r.code \in OAuth!Codes
         /\ r.op = "exchange" => r.code \in OAuth!Codes /\ r.at \in Nat
         /\ r.op = "rotate" => r.pair \in OAuth!Pairs /\ r.at \in Nat
BY DEF OAuth!Request, OAuth!Idle, OAuth!Time

LEMMA IdleIs == OAuth!Idle \in OAuth!Request /\ OAuth!Idle.op = "idle"
BY DEF OAuth!Request, OAuth!Idle

\* Requests come and go, none of them for a consent, and codes keep what they say.
LEMMA ConsentIsKept ==
  ASSUME OAuth!TypeOK, OAuth!ConsentInv, NEW q \in Q, NEW x \in OAuth!Request, x.op # "issue",
         request' = [request EXCEPT ![q] = x], UNCHANGED <<shown, flow>>,
         \A d \in code' : \E c \in code : c.f = d.f /\ c.at = d.at /\ c.until = d.until,
         \A c \in code', d \in code' : c.f = d.f => c = d
  PROVE  OAuth!ConsentInv'
<1>1. \A p \in Q, f \in F : OAuth!Issues(p, f)' => OAuth!Issues(p, f)
  BY DEF OAuth!TypeOK, OAuth!Issues
<1>2. \A c \in code' : c.f \in shown' \ DOMAIN flow' /\ c.until = c.at + CodeLife
  BY DEF OAuth!ConsentInv
<1>3. ASSUME NEW p \in Q, NEW f \in F, OAuth!Issues(p, f)'
      PROVE  /\ f \in shown' \ DOMAIN flow'
             /\ \A r \in Q : OAuth!Issues(r, f)' => r = p
             /\ \A c \in code' : c.f # f
  BY <1>1, <1>3 DEF OAuth!ConsentInv
<1> QED
  BY <1>2, <1>3 DEF OAuth!ConsentInv

\* The same when no request changes hands and nothing is granted.
LEMMA GrantsAreKept ==
  ASSUME OAuth!TypeOK, OAuth!FamilyInv, OAuth!PairInv, NEW q \in Q, NEW x \in OAuth!Request,
         x.op = "rotate" => x.pair \in DOMAIN pair,
         request' = [request EXCEPT ![q] = x], UNCHANGED <<family, pair, replayed>>,
         \A n \in OAuth!Pairs : OAuth!Name(n) \in held' => OAuth!Name(n) \in held,
         \A c \in code : c \in code'
  PROVE  OAuth!FamilyInv' /\ OAuth!PairInv'
<1>1. OAuth!FamilyInv'
  BY DEF OAuth!FamilyInv
<1>2. \A p \in Q : request'[p].op = "rotate" => request'[p].pair \in DOMAIN pair'
  BY DEF OAuth!TypeOK, OAuth!PairInv
<1>3. OAuth!PairInv'
  BY <1>2 DEF OAuth!PairInv
<1> QED
  BY <1>1, <1>3

LEMMA OAuthTickKeeps ==
  ASSUME OAuth!Assumption, OAuth!GrantInv, OAuth!Tick
  PROVE  OAuth!GrantInv'
<1>1. now' \in 0 .. MaxTime /\ UNCHANGED <<shown, flow, code, family, pair, request, held, replayed>>
  BY DEF OAuth!Tick, OAuth!Assumption, OAuth!GrantInv, OAuth!TypeOK
<1>2. OAuth!TypeOK'
  BY <1>1 DEF OAuth!GrantInv, OAuth!TypeOK
<1>3. OAuth!ConsentInv' /\ OAuth!FamilyInv' /\ OAuth!PairInv'
  BY <1>1 DEF OAuth!GrantInv, OAuth!ConsentInv, OAuth!Issues, OAuth!FamilyInv, OAuth!PairInv
<1> QED
  BY <1>2, <1>3 DEF OAuth!GrantInv

LEMMA OAuthRegisterKeeps ==
  ASSUME OAuth!Assumption, OAuth!GrantInv, NEW f \in F, OAuth!Register(f)
  PROVE  OAuth!GrantInv'
<1>1. /\ f \notin shown /\ shown' = shown \cup {f}
      /\ UNCHANGED <<now, code, family, pair, request, held, replayed>>
  BY DEF OAuth!Register
<1>2. PICK out \in OAuth!Evicted :
        flow' = [g \in (OAuth!Open \ out) \cup {f} |-> IF g = f THEN now + FlowLife ELSE flow[g]]
  BY DEF OAuth!Register
<1>3. DOMAIN flow' \subseteq DOMAIN flow \cup {f} /\ \A g \in DOMAIN flow' : flow'[g] \in Nat
  <2>1. now + FlowLife \in Nat /\ OAuth!Open \subseteq DOMAIN flow
    BY DEF OAuth!Open, OAuth!GrantInv, OAuth!TypeOK, OAuth!Assumption
  <2>2. \A g \in DOMAIN flow : flow[g] \in Nat
    BY DEF OAuth!GrantInv, OAuth!TypeOK, OAuth!Time
  <2> QED
    BY <1>2, <2>1, <2>2
<1>4. OAuth!TypeOK'
  BY <1>1, <1>3 DEF OAuth!GrantInv, OAuth!TypeOK, OAuth!Time
<1>5. OAuth!ConsentInv'
  <2>1. \A x \in shown \ DOMAIN flow : x \in shown' \ DOMAIN flow'
    BY <1>1, <1>3
  <2> QED
    BY <1>1, <2>1 DEF OAuth!GrantInv, OAuth!ConsentInv, OAuth!Issues
<1>6. OAuth!FamilyInv' /\ OAuth!PairInv'
  BY <1>1 DEF OAuth!GrantInv, OAuth!FamilyInv, OAuth!PairInv
<1> QED
  BY <1>4, <1>5, <1>6 DEF OAuth!GrantInv

LEMMA ConsentKeeps ==
  ASSUME OAuth!Assumption, OAuth!GrantInv, NEW q \in Q, NEW f \in F, OAuth!Consent(q, f)
  PROVE  OAuth!GrantInv'
<1> DEFINE x == [op |-> "issue", code |-> <<f, 1>>]
<1>1. /\ request[q] = OAuth!Idle /\ f \in DOMAIN flow
      /\ flow' = [g \in DOMAIN flow \ {f} |-> flow[g]]
      /\ request' \in {request, [request EXCEPT ![q] = x]}
      /\ UNCHANGED <<now, shown, code, family, pair, held, replayed>>
  BY DEF OAuth!Consent, OAuth!Open
<1>2. x \in OAuth!Request /\ x.op = "issue" /\ x.code[1] = f
  <2>1. Cardinality(Q) \in Nat /\ Cardinality(Q) # 0
    BY FS_CardinalityType, FS_EmptySet, CountingQ DEF OAuth!Assumption
  <2>2. 1 \in 1 .. OAuth!Cardinality(Q)
    BY <2>1, CountingQ
  <2> QED
    BY <2>2 DEF OAuth!Request, OAuth!Codes
<1>3. /\ DOMAIN flow' = DOMAIN flow \ {f} /\ \A g \in DOMAIN flow' : flow'[g] = flow[g]
  BY <1>1
<1>4. request' \in [Q -> OAuth!Request]
  BY <1>1, <1>2 DEF OAuth!GrantInv, OAuth!TypeOK
<1>5. OAuth!TypeOK'
  BY <1>1, <1>3, <1>4 DEF OAuth!GrantInv, OAuth!TypeOK
<1>6. f \in shown /\ (\A c \in code : c.f # f) /\ \A p \in Q : ~OAuth!Issues(p, f)
  BY <1>1 DEF OAuth!GrantInv, OAuth!TypeOK, OAuth!ConsentInv
<1> HIDE DEF x
<1>7. request[q].op # "issue" /\ request[q].op # "rotate"
  BY <1>1, IdleIs
<1>8. OAuth!ConsentInv'
  <2>1. \A p \in Q, g \in F : OAuth!Issues(p, g)' => OAuth!Issues(p, g) \/ (g = f /\ p = q)
    BY <1>1, <1>2 DEF OAuth!Issues, OAuth!GrantInv, OAuth!TypeOK
  <2>2. \A c \in code' : c.f \in shown' \ DOMAIN flow' /\ c.until = c.at + CodeLife
    BY <1>1, <1>3 DEF OAuth!GrantInv, OAuth!ConsentInv
  <2>3. ASSUME NEW p \in Q, NEW g \in F, OAuth!Issues(p, g)'
        PROVE  /\ g \in shown' \ DOMAIN flow'
               /\ \A r \in Q : OAuth!Issues(r, g)' => r = p
               /\ \A c \in code' : c.f # g
    BY <1>1, <1>3, <1>6, <2>1, <2>3 DEF OAuth!GrantInv, OAuth!ConsentInv
  <2> QED
    BY <1>1, <2>2, <2>3 DEF OAuth!ConsentInv, OAuth!GrantInv
<1>9. OAuth!FamilyInv'
  BY <1>1 DEF OAuth!GrantInv, OAuth!FamilyInv
<1>10. OAuth!PairInv'
  <2>1. \A p \in Q : request'[p].op = "rotate" => request'[p].pair \in DOMAIN pair'
    BY <1>1, <1>2 DEF OAuth!GrantInv, OAuth!TypeOK, OAuth!PairInv
  <2> QED
    BY <1>1, <2>1 DEF OAuth!GrantInv, OAuth!PairInv
<1> QED
  BY <1>5, <1>8, <1>9, <1>10 DEF OAuth!GrantInv

\* A code and a pair have different names.
LEMMA NamesDiffer ==
  ASSUME OAuth!Assumption
  PROVE  /\ \A k \in OAuth!Codes : \A n : k # OAuth!Name(n)
         /\ \A m, n : OAuth!Name(m) = OAuth!Name(n) => m = n
BY DEF OAuth!Assumption, OAuth!Codes, OAuth!Name

LEMMA IssueKeeps ==
  ASSUME OAuth!Assumption, OAuth!GrantInv, NEW q \in Q, OAuth!Issue(q)
  PROVE  OAuth!GrantInv'
<1> DEFINE k == request[q].code
           row == [f |-> k[1], n |-> k[2], at |-> now, until |-> now + CodeLife, used |-> FALSE]
<1>1. /\ request[q].op = "issue" /\ request' = [request EXCEPT ![q] = OAuth!Idle]
      /\ \/ code' = code \cup {row} /\ held' \in {held, held \cup {k}}
         \/ UNCHANGED <<code, held>>
      /\ UNCHANGED <<now, shown, flow, family, pair, replayed>>
  BY DEF OAuth!Issue
<1>2. k \in OAuth!Codes /\ k[1] \in F /\ k[2] \in 1 .. OAuth!Cardinality(Q)
  <2>1. k \in OAuth!Codes
    BY <1>1, RequestIs DEF OAuth!GrantInv, OAuth!TypeOK
  <2> QED
    BY <2>1 DEF OAuth!Codes
<1>3. row \in OAuth!Code
  BY <1>2 DEF OAuth!Code, OAuth!Time, OAuth!Assumption, OAuth!GrantInv, OAuth!TypeOK
<1>4. row.f = k[1] /\ row.at = now /\ row.until = now + CodeLife
  OBVIOUS
<1>5. OAuth!Issues(q, k[1])
  BY <1>1 DEF OAuth!Issues
<1> HIDE DEF row, k
<1>6. /\ k[1] \in shown \ DOMAIN flow /\ \A c \in code : c.f # k[1]
      /\ \A p \in Q : OAuth!Issues(p, k[1]) => p = q
  BY <1>2, <1>5 DEF OAuth!GrantInv, OAuth!ConsentInv
<1>7. code' \subseteq code \cup {row} /\ code \subseteq code'
  BY <1>1
<1>8. OAuth!TypeOK'
  <2>1. code' \subseteq OAuth!Code /\ held' \subseteq held \cup {k}
    BY <1>1, <1>3 DEF OAuth!GrantInv, OAuth!TypeOK
  <2>2. request' \in [Q -> OAuth!Request]
    BY <1>1, IdleIs DEF OAuth!GrantInv, OAuth!TypeOK
  <2> QED
    BY <1>1, <1>2, <2>1, <2>2 DEF OAuth!GrantInv, OAuth!TypeOK
<1>9. OAuth!ConsentInv'
  <2>1. \A p \in Q, f \in F : OAuth!Issues(p, f)' => OAuth!Issues(p, f) /\ p # q
    BY <1>1, IdleIs DEF OAuth!Issues, OAuth!GrantInv, OAuth!TypeOK
  <2>2. \A c \in code' : c.f \in shown' \ DOMAIN flow' /\ c.until = c.at + CodeLife
    BY <1>1, <1>4, <1>6, <1>7 DEF OAuth!GrantInv, OAuth!ConsentInv
  <2>3. \A c \in code', d \in code' : c.f = d.f => c = d
    BY <1>4, <1>6, <1>7 DEF OAuth!GrantInv, OAuth!ConsentInv
  <2>4. ASSUME NEW p \in Q, NEW f \in F, OAuth!Issues(p, f)'
        PROVE  /\ f \in shown' \ DOMAIN flow'
               /\ \A r \in Q : OAuth!Issues(r, f)' => r = p
               /\ \A c \in code' : c.f # f
    <3>1. f # k[1]
      BY <1>6, <2>1, <2>4
    <3> QED
      BY <1>1, <1>4, <1>7, <2>1, <2>4, <3>1 DEF OAuth!GrantInv, OAuth!ConsentInv
  <2> QED
    BY <2>2, <2>3, <2>4 DEF OAuth!ConsentInv
<1>10. OAuth!FamilyInv' /\ OAuth!PairInv'
  <2>1. \A n \in OAuth!Pairs : OAuth!Name(n) \in held' => OAuth!Name(n) \in held
    BY <1>1, <1>2, NamesDiffer
  <2> QED
    BY <1>1, <1>7, <2>1, IdleIs, GrantsAreKept DEF OAuth!GrantInv
<1> QED
  BY <1>8, <1>9, <1>10 DEF OAuth!GrantInv

LEMMA AskExchangeKeeps ==
  ASSUME OAuth!Assumption, OAuth!GrantInv, NEW q \in Q, NEW c \in OAuth!Codes,
         OAuth!AskExchange(q, c)
  PROVE  OAuth!GrantInv'
<1> DEFINE x == [op |-> "exchange", code |-> c, at |-> now]
<1>1. /\ request' = [request EXCEPT ![q] = x]
      /\ UNCHANGED <<now, shown, flow, code, family, pair, held, replayed>>
  BY DEF OAuth!AskExchange
<1>2. x \in OAuth!Request /\ x.op = "exchange"
  BY DEF OAuth!Request, OAuth!Time, OAuth!GrantInv, OAuth!TypeOK, OAuth!Assumption
<1> HIDE DEF x
<1>3. OAuth!TypeOK'
  BY <1>1, <1>2 DEF OAuth!GrantInv, OAuth!TypeOK
<1>4. OAuth!ConsentInv'
  BY <1>1, <1>2, ConsentIsKept DEF OAuth!GrantInv, OAuth!ConsentInv
<1>5. OAuth!FamilyInv' /\ OAuth!PairInv'
  BY <1>1, <1>2, GrantsAreKept DEF OAuth!GrantInv
<1> QED
  BY <1>3, <1>4, <1>5 DEF OAuth!GrantInv

LEMMA AskRotateKeeps ==
  ASSUME OAuth!Assumption, OAuth!GrantInv, NEW q \in Q, NEW n \in OAuth!Pairs,
         OAuth!AskRotate(q, n)
  PROVE  OAuth!GrantInv'
<1> DEFINE x == [op |-> "rotate", pair |-> n, at |-> now]
<1>1. /\ OAuth!Name(n) \in held /\ request' = [request EXCEPT ![q] = x]
      /\ UNCHANGED <<now, shown, flow, code, family, pair, held, replayed>>
  BY DEF OAuth!AskRotate
<1>2. x \in OAuth!Request /\ x.op = "rotate" /\ x.pair \in DOMAIN pair
  BY <1>1 DEF OAuth!Request, OAuth!Time, OAuth!GrantInv, OAuth!TypeOK, OAuth!Assumption,
              OAuth!PairInv
<1> HIDE DEF x
<1>3. OAuth!TypeOK'
  BY <1>1, <1>2 DEF OAuth!GrantInv, OAuth!TypeOK
<1>4. OAuth!ConsentInv'
  BY <1>1, <1>2, ConsentIsKept DEF OAuth!GrantInv, OAuth!ConsentInv
<1>5. OAuth!FamilyInv' /\ OAuth!PairInv'
  BY <1>1, <1>2, GrantsAreKept DEF OAuth!GrantInv
<1> QED
  BY <1>3, <1>4, <1>5 DEF OAuth!GrantInv

\* The tokens of a new pair.
LEMMA NewPairIs ==
  ASSUME OAuth!Assumption, NEW f \in OAuth!Codes, NEW from \in 0 .. MaxPairs, NEW at \in Nat,
         NEW until \in Nat
  PROVE  \E e \in OAuth!Pair :
           /\ OAuth!NewPair(f, from, at, until) = Append(pair, e)
           /\ e.family = f /\ e.from = from
<1> DEFINE e == [family |-> f, from |-> from, refreshUntil |-> until,
                 accessUntil |-> OAuth!Smaller(at + AccessLife, until), used |-> FALSE]
<1>1. OAuth!Smaller(at + AccessLife, until) \in Nat
  BY DEF OAuth!Smaller, OAuth!Assumption
<1>2. e \in OAuth!Pair
  BY <1>1 DEF OAuth!Pair, OAuth!Time
<1>3. e.family = f /\ e.from = from
  OBVIOUS
<1>4. OAuth!NewPair(f, from, at, until) = Append(pair, e)
  BY DEF OAuth!NewPair
<1> QED
  BY <1>2, <1>3, <1>4, Zenon

\* One more pair is the last one.
LEMMA AppendIs ==
  ASSUME OAuth!Assumption, OAuth!TypeOK, OAuth!Room, NEW e \in OAuth!Pair
  PROVE  /\ Append(pair, e) \in Seq(OAuth!Pair) /\ Len(Append(pair, e)) = Len(pair) + 1
         /\ Len(pair) + 1 \in OAuth!Pairs /\ Len(pair) + 1 \notin DOMAIN pair
         /\ DOMAIN Append(pair, e) = DOMAIN pair \cup {Len(pair) + 1}
         /\ \A n \in DOMAIN pair : Append(pair, e)[n] = pair[n]
         /\ Append(pair, e)[Len(pair) + 1] = e
<1>1. pair \in Seq(OAuth!Pair) /\ Len(pair) < MaxPairs /\ MaxPairs \in Nat
  BY DEF OAuth!TypeOK, OAuth!Room, OAuth!Assumption
<1>2. Len(pair) \in Nat /\ DOMAIN pair = 1 .. Len(pair)
  BY <1>1
<1>3. /\ Append(pair, e) \in Seq(OAuth!Pair) /\ Len(Append(pair, e)) = Len(pair) + 1
      /\ \A n \in 1 .. Len(pair) : Append(pair, e)[n] = pair[n]
      /\ Append(pair, e)[Len(pair) + 1] = e
  BY <1>1
<1>4. DOMAIN Append(pair, e) = 1 .. (Len(pair) + 1)
  BY <1>3
<1> QED
  BY <1>1, <1>2, <1>3, <1>4 DEF OAuth!Pairs

\* What is refused changes nothing, and only the request ends.
LEMMA RefusalKeeps ==
  ASSUME OAuth!Assumption, OAuth!GrantInv, NEW q \in Q,
         request' = [request EXCEPT ![q] = OAuth!Idle],
         UNCHANGED <<now, shown, flow, code, family, pair, held, replayed>>
  PROVE  OAuth!GrantInv'
<1>1. OAuth!TypeOK'
  BY IdleIs DEF OAuth!GrantInv, OAuth!TypeOK
<1>2. OAuth!ConsentInv'
  BY IdleIs, ConsentIsKept DEF OAuth!GrantInv, OAuth!ConsentInv
<1>3. OAuth!FamilyInv' /\ OAuth!PairInv'
  BY IdleIs, GrantsAreKept DEF OAuth!GrantInv
<1> QED
  BY <1>1, <1>2, <1>3 DEF OAuth!GrantInv

\* An answer names a pair that is there.
LEMMA AnswerIs ==
  ASSUME OAuth!Assumption, OAuth!GrantInv, NEW m \in OAuth!Pairs, OAuth!Answered(m),
         DOMAIN pair' = DOMAIN pair \cup {m}
  PROVE  /\ held' \subseteq OAuth!Codes \cup {OAuth!Name(n) : n \in OAuth!Pairs}
         /\ \A n \in OAuth!Pairs : OAuth!Name(n) \in held' => n \in DOMAIN pair'
BY NamesDiffer DEF OAuth!Answered, OAuth!GrantInv, OAuth!TypeOK, OAuth!PairInv

LEMMA ExchangeKeeps ==
  ASSUME OAuth!Assumption, OAuth!GrantInv, NEW q \in Q, OAuth!Exchange(q)
  PROVE  OAuth!GrantInv'
<1> DEFINE k == request[q].code
           at == request[q].at
           m == Len(pair) + 1
<1>1. /\ request[q].op = "exchange" /\ OAuth!Room
      /\ request' = [request EXCEPT ![q] = OAuth!Idle]
      /\ UNCHANGED <<now, shown, flow, replayed>>
  BY DEF OAuth!Exchange
<1>2. CASE UNCHANGED <<code, family, pair, held>>
  BY <1>1, <1>2, RefusalKeeps
<1>3. CASE ~UNCHANGED <<code, family, pair, held>>
  <2>1. PICK c \in code :
          /\ <<c.f, c.n>> = k /\ ~c.used /\ c.until > at
          /\ code' = (code \ {c}) \cup {[c EXCEPT !.used = TRUE]}
          /\ family' = family \cup {[code |-> k, until |-> at + FamilyLife, revoked |-> FALSE]}
          /\ pair' = OAuth!NewPair(k, 0, at, at + FamilyLife)
          /\ OAuth!Answered(Len(pair'))
    BY <1>3 DEF OAuth!Exchange
  <2> DEFINE u == [c EXCEPT !.used = TRUE]
             g == [code |-> k, until |-> at + FamilyLife, revoked |-> FALSE]
  <2>2. k \in OAuth!Codes /\ at \in Nat /\ k[1] = c.f /\ at + FamilyLife \in Nat
    BY <1>1, <2>1, RequestIs DEF OAuth!GrantInv, OAuth!TypeOK, OAuth!Assumption
  <2>3. /\ u \in OAuth!Code /\ u.f = c.f /\ u.n = c.n /\ u.at = c.at /\ u.until = c.until
        /\ u.used = TRUE
    BY DEF OAuth!Code, OAuth!GrantInv, OAuth!TypeOK
  <2>4. /\ g \in OAuth!Family /\ g.code = k /\ g.until = at + FamilyLife
    BY <2>2 DEF OAuth!Family, OAuth!Time
  <2>5. code' = (code \ {c}) \cup {u} /\ family' = family \cup {g}
    BY <2>1
  <2> HIDE DEF u, g
  <2>6. \A h \in family : h.code[1] # k[1]
    <3> SUFFICES ASSUME NEW h \in family, h.code[1] = k[1] PROVE FALSE
      OBVIOUS
    <3>1. PICK d \in code : <<d.f, d.n>> = h.code /\ d.used
      BY DEF OAuth!GrantInv, OAuth!FamilyInv
    <3>2. d.f = c.f
      BY <2>2, <3>1
    <3> QED
      BY <2>1, <3>1, <3>2 DEF OAuth!GrantInv, OAuth!ConsentInv
  <2>7. k \notin replayed /\ \A n \in DOMAIN pair : pair[n].family # k
    BY <2>6 DEF OAuth!GrantInv, OAuth!FamilyInv, OAuth!PairInv
  <2>8. /\ pair' \in Seq(OAuth!Pair) /\ Len(pair') = m /\ m \in OAuth!Pairs
        /\ DOMAIN pair' = DOMAIN pair \cup {m} /\ m \notin DOMAIN pair
        /\ \A n \in DOMAIN pair : pair'[n] = pair[n]
        /\ pair'[m].family = k /\ pair'[m].from = 0
    <3>1. 0 \in 0 .. MaxPairs
      BY DEF OAuth!Assumption
    <3>2. pair' = OAuth!NewPair(k, 0, at, at + FamilyLife)
      BY <2>1
    <3> HIDE DEF k, at
    <3>3. PICK e \in OAuth!Pair : /\ OAuth!NewPair(k, 0, at, at + FamilyLife) = Append(pair, e)
                                 /\ e.family = k /\ e.from = 0
      BY <2>2, <3>1, NewPairIs
    <3>4. OAuth!TypeOK /\ OAuth!Room /\ pair' = Append(pair, e)
      BY <1>1, <3>2, <3>3 DEF OAuth!GrantInv
    <3> QED
      BY <3>3, <3>4, AppendIs
  <2>9. /\ held' \subseteq OAuth!Codes \cup {OAuth!Name(n) : n \in OAuth!Pairs}
        /\ \A n \in OAuth!Pairs : OAuth!Name(n) \in held' => n \in DOMAIN pair'
    BY <2>1, <2>8, AnswerIs
  <2>10. OAuth!TypeOK'
    <3>1. code' \subseteq OAuth!Code /\ family' \subseteq OAuth!Family
      BY <2>3, <2>4, <2>5 DEF OAuth!GrantInv, OAuth!TypeOK
    <3>2. request' \in [Q -> OAuth!Request]
      BY <1>1, IdleIs DEF OAuth!GrantInv, OAuth!TypeOK
    <3>3. Len(pair') <= MaxPairs
      BY <2>8 DEF OAuth!Pairs, OAuth!Assumption
    <3> QED
      BY <1>1, <2>8, <2>9, <3>1, <3>2, <3>3 DEF OAuth!GrantInv, OAuth!TypeOK
  <2>11. OAuth!ConsentInv'
    <3>1. \A d \in code' : \E e \in code : e.f = d.f /\ e.at = d.at /\ e.until = d.until
      BY <2>3, <2>5
    <3>2. \A d \in code', e \in code' : e.f = d.f => e = d
      BY <2>3, <2>5 DEF OAuth!GrantInv, OAuth!ConsentInv
    <3> QED
      BY <1>1, <3>1, <3>2, IdleIs, ConsentIsKept DEF OAuth!GrantInv
  <2>12. OAuth!FamilyInv'
    <3>1. \A h \in family', i \in family' : h.code[1] = i.code[1] => h = i
      BY <2>4, <2>5, <2>6 DEF OAuth!GrantInv, OAuth!FamilyInv
    <3>2. ASSUME NEW h \in family'
          PROVE  \E d \in code' : /\ <<d.f, d.n>> = h.code /\ d.used
                                  /\ h.until < d.at + CodeLife + FamilyLife
      <4>1. CASE h \in family
        <5>1. PICK d \in code : /\ <<d.f, d.n>> = h.code /\ d.used
                                /\ h.until < d.at + CodeLife + FamilyLife
          BY <4>1 DEF OAuth!GrantInv, OAuth!FamilyInv
        <5> QED
          BY <2>1, <2>5, <5>1
      <4>2. CASE h = g
        <5>1. c.until = c.at + CodeLife /\ c.at \in Nat /\ c.until > at
          BY <2>1 DEF OAuth!GrantInv, OAuth!ConsentInv, OAuth!TypeOK, OAuth!Code, OAuth!Time
        <5>2. h.until < u.at + CodeLife + FamilyLife
          BY <2>2, <2>3, <2>4, <4>2, <5>1 DEF OAuth!Assumption
        <5> QED
          BY <2>1, <2>3, <2>4, <2>5, <4>2, <5>2
      <4> QED
        BY <2>5, <4>1, <4>2
    <3>3. \A h \in family' : h.code \in replayed' => h.revoked
      BY <1>1, <2>4, <2>5, <2>7 DEF OAuth!GrantInv, OAuth!FamilyInv
    <3>4. \A l \in replayed' : \E h \in family' : h.code = l
      BY <1>1, <2>5 DEF OAuth!GrantInv, OAuth!FamilyInv
    <3> QED
      BY <3>1, <3>2, <3>3, <3>4 DEF OAuth!FamilyInv
  <2>13. OAuth!PairInv'
    <3>1. ASSUME NEW n \in DOMAIN pair'
          PROVE  /\ \E h \in family' : h.code = pair'[n].family
                 /\ pair'[n].from # 0 =>
                      pair'[n].from \in DOMAIN pair' /\ pair'[pair'[n].from].used
      BY <2>4, <2>5, <2>8 DEF OAuth!GrantInv, OAuth!PairInv
    <3>2. ASSUME NEW i \in DOMAIN pair', NEW n \in DOMAIN pair', i # n
          PROVE  <<pair'[i].family, pair'[i].from>> # <<pair'[n].family, pair'[n].from>>
      BY <2>7, <2>8, <3>2 DEF OAuth!GrantInv, OAuth!PairInv
    <3>3. \A p \in Q : request'[p].op = "rotate" => request'[p].pair \in DOMAIN pair'
      BY <1>1, <2>8, IdleIs DEF OAuth!GrantInv, OAuth!TypeOK, OAuth!PairInv
    <3> QED
      BY <2>9, <3>1, <3>2, <3>3 DEF OAuth!PairInv, OAuth!Pairs
  <2> QED
    BY <2>10, <2>11, <2>12, <2>13 DEF OAuth!GrantInv
<1> QED
  BY <1>2, <1>3

LEMMA RotateKeeps ==
  ASSUME OAuth!Assumption, OAuth!GrantInv, NEW q \in Q, OAuth!Rotate(q)
  PROVE  OAuth!GrantInv'
<1> DEFINE j == request[q].pair
           at == request[q].at
           m == Len(pair) + 1
<1>1. /\ request[q].op = "rotate" /\ OAuth!Room
      /\ request' = [request EXCEPT ![q] = OAuth!Idle]
      /\ UNCHANGED <<now, shown, flow, code, family, replayed>>
  BY DEF OAuth!Rotate
<1>2. CASE UNCHANGED <<pair, held>>
  BY <1>1, <1>2, RefusalKeeps
<1>3. CASE ~UNCHANGED <<pair, held>>
  <2>1. PICK g \in family :
          /\ g.code = pair[j].family /\ ~pair[j].used
          /\ pair' = [OAuth!NewPair(g.code, j, at, g.until) EXCEPT ![j].used = TRUE]
          /\ OAuth!Answered(Len(pair'))
    BY <1>3 DEF OAuth!Rotate, OAuth!Rotates
  <2>2. /\ j \in DOMAIN pair /\ j \in 0 .. MaxPairs /\ j # 0 /\ at \in Nat
        /\ g.code \in OAuth!Codes /\ g.until \in Nat
    <3>1. j \in OAuth!Pairs /\ at \in Nat /\ j \in DOMAIN pair
      BY <1>1, RequestIs DEF OAuth!GrantInv, OAuth!TypeOK, OAuth!PairInv
    <3>2. g \in OAuth!Family
      BY DEF OAuth!GrantInv, OAuth!TypeOK
    <3> QED
      BY <3>1, <3>2 DEF OAuth!Pairs, OAuth!Assumption, OAuth!Family, OAuth!Time
  <2> DEFINE s == OAuth!NewPair(g.code, j, at, g.until)
  <2>3. /\ s \in Seq(OAuth!Pair) /\ Len(s) = m /\ m \in OAuth!Pairs
        /\ DOMAIN s = DOMAIN pair \cup {m} /\ m \notin DOMAIN pair
        /\ \A n \in DOMAIN pair : s[n] = pair[n]
        /\ s[m].family = g.code /\ s[m].from = j
    <3> HIDE DEF j, at
    <3>1. PICK e \in OAuth!Pair : /\ OAuth!NewPair(g.code, j, at, g.until) = Append(pair, e)
                                  /\ e.family = g.code /\ e.from = j
      BY <2>2, NewPairIs
    <3>2. OAuth!TypeOK /\ OAuth!Room
      BY <1>1 DEF OAuth!GrantInv
    <3> QED
      BY <3>1, <3>2, AppendIs
  <2>4. pair' = [s EXCEPT ![j].used = TRUE]
    BY <2>1
  <2> HIDE DEF s, m, j, at
  <2>5. /\ pair' \in Seq(OAuth!Pair) /\ Len(pair') = m /\ m \in OAuth!Pairs
        /\ DOMAIN pair' = DOMAIN pair \cup {m} /\ m \notin DOMAIN pair /\ m # j
        /\ \A n \in DOMAIN pair \ {j} : pair'[n] = pair[n]
        /\ pair'[j] = [pair[j] EXCEPT !.used = TRUE]
        /\ pair'[m].family = g.code /\ pair'[m].from = j
    <3>1. s[j] \in OAuth!Pair
      <4>1. s \in Seq(OAuth!Pair)
        BY <2>3
      <4>2. DOMAIN s = 1 .. Len(s)
        BY <4>1, LenProperties
      <4>3. j \in 1 .. Len(s)
        BY <2>2, <2>3, <4>2
      <4> QED
        BY <4>1, <4>3, ElementOfSeq
    <3> DEFINE e == [s[j] EXCEPT !.used = TRUE]
    <3>2. pair' = [s EXCEPT ![j] = e] /\ e \in OAuth!Pair
      BY <2>4, <3>1 DEF OAuth!Pair
    <3>3. e = [pair[j] EXCEPT !.used = TRUE]
      BY <2>2, <2>3
    <3> HIDE DEF e
    <3>4. pair' \in Seq(OAuth!Pair) /\ Len(pair') = Len(s) /\ DOMAIN pair' = DOMAIN s
      BY <2>2, <2>3, <3>2, ExceptSeq
    <3> QED
      BY <2>2, <2>3, <3>2, <3>3, <3>4
  <2>6. \A n \in DOMAIN pair : /\ pair'[n].family = pair[n].family /\ pair'[n].from = pair[n].from
                               /\ pair[n].used => pair'[n].used
    <3>1. pair[j] \in OAuth!Pair
      BY <2>2 DEF OAuth!GrantInv, OAuth!TypeOK
    <3> QED
      BY <2>5, <3>1 DEF OAuth!Pair
  <2>7. pair'[j].used
    <3>1. pair[j] \in OAuth!Pair
      BY <2>2 DEF OAuth!GrantInv, OAuth!TypeOK
    <3> QED
      BY <2>5, <3>1 DEF OAuth!Pair
  <2>8. \A n \in DOMAIN pair : pair[n].from # j
    BY <2>1, <2>2 DEF OAuth!GrantInv, OAuth!PairInv
  <2>9. /\ held' \subseteq OAuth!Codes \cup {OAuth!Name(n) : n \in OAuth!Pairs}
        /\ \A n \in OAuth!Pairs : OAuth!Name(n) \in held' => n \in DOMAIN pair'
    BY <2>1, <2>5, AnswerIs
  <2>10. OAuth!TypeOK'
    <3>1. request' \in [Q -> OAuth!Request]
      BY <1>1, IdleIs DEF OAuth!GrantInv, OAuth!TypeOK
    <3>2. Len(pair') <= MaxPairs
      BY <2>5 DEF OAuth!Pairs, OAuth!Assumption
    <3> QED
      BY <1>1, <2>5, <2>9, <3>1, <3>2 DEF OAuth!GrantInv, OAuth!TypeOK
  <2>11. OAuth!ConsentInv'
    BY <1>1, IdleIs, ConsentIsKept DEF OAuth!GrantInv, OAuth!ConsentInv
  <2>12. OAuth!FamilyInv'
    BY <1>1 DEF OAuth!GrantInv, OAuth!FamilyInv
  <2>13. OAuth!PairInv'
    <3>1. ASSUME NEW n \in DOMAIN pair'
          PROVE  /\ \E h \in family' : h.code = pair'[n].family
                 /\ pair'[n].from # 0 =>
                      pair'[n].from \in DOMAIN pair' /\ pair'[pair'[n].from].used
      <4>1. CASE n = m
        BY <1>1, <2>2, <2>5, <2>7, <4>1
      <4>2. CASE n \in DOMAIN pair
        BY <1>1, <2>5, <2>6, <4>2 DEF OAuth!GrantInv, OAuth!PairInv
      <4> QED
        BY <2>5, <4>1, <4>2
    <3>2. ASSUME NEW i \in DOMAIN pair', NEW n \in DOMAIN pair', i # n
          PROVE  <<pair'[i].family, pair'[i].from>> # <<pair'[n].family, pair'[n].from>>
      BY <2>5, <2>6, <2>8, <3>2 DEF OAuth!GrantInv, OAuth!PairInv
    <3>3. \A p \in Q : request'[p].op = "rotate" => request'[p].pair \in DOMAIN pair'
      BY <1>1, <2>5, IdleIs DEF OAuth!GrantInv, OAuth!TypeOK, OAuth!PairInv
    <3> QED
      BY <2>9, <3>1, <3>2, <3>3 DEF OAuth!PairInv, OAuth!Pairs
  <2> QED
    BY <2>10, <2>11, <2>12, <2>13 DEF OAuth!GrantInv
<1> QED
  BY <1>2, <1>3

LEMMA ReplayKeeps ==
  ASSUME OAuth!Assumption, OAuth!GrantInv, NEW q \in Q, OAuth!Replay(q)
  PROVE  OAuth!GrantInv'
<1> DEFINE k == pair[request[q].pair].family
           Revoked(g) == IF g.code = k THEN [g EXCEPT !.revoked = TRUE] ELSE g
<1>1. /\ request[q].op = "rotate"
      /\ request' = [request EXCEPT ![q] = OAuth!Idle]
      /\ family' = {Revoked(g) : g \in family}
      /\ replayed' = replayed \cup {k}
      /\ UNCHANGED <<now, shown, flow, code, pair, held>>
  BY DEF OAuth!Replay
<1>2. request[q].pair \in DOMAIN pair /\ \E g \in family : g.code = k
  BY <1>1 DEF OAuth!GrantInv, OAuth!PairInv
<1>3. \A g \in family : /\ Revoked(g) \in OAuth!Family
                        /\ Revoked(g).code = g.code /\ Revoked(g).until = g.until
                        /\ g.revoked => Revoked(g).revoked
                        /\ g.code = k => Revoked(g).revoked
  BY DEF OAuth!Family, OAuth!GrantInv, OAuth!TypeOK
<1> HIDE DEF Revoked
<1>4. k \in OAuth!Codes
  BY <1>2 DEF OAuth!GrantInv, OAuth!TypeOK, OAuth!Family
<1> HIDE DEF k
<1>5. OAuth!TypeOK'
  <2>1. request' \in [Q -> OAuth!Request]
    BY <1>1, IdleIs DEF OAuth!GrantInv, OAuth!TypeOK
  <2>2. family' \subseteq OAuth!Family /\ replayed' \subseteq OAuth!Codes
    BY <1>1, <1>3, <1>4 DEF OAuth!GrantInv, OAuth!TypeOK
  <2> QED
    BY <1>1, <2>1, <2>2 DEF OAuth!GrantInv, OAuth!TypeOK
<1>6. OAuth!ConsentInv'
  BY <1>1, IdleIs, ConsentIsKept DEF OAuth!GrantInv, OAuth!ConsentInv
<1>7. OAuth!FamilyInv'
  <2>1. \A g \in family', h \in family' : g.code[1] = h.code[1] => g = h
    BY <1>1, <1>3 DEF OAuth!GrantInv, OAuth!FamilyInv
  <2>2. \A g \in family' : \E c \in code' :
          <<c.f, c.n>> = g.code /\ c.used /\ g.until < c.at + CodeLife + FamilyLife
    BY <1>1, <1>3 DEF OAuth!GrantInv, OAuth!FamilyInv
  <2>3. \A g \in family' : g.code \in replayed' => g.revoked
    BY <1>1, <1>3 DEF OAuth!GrantInv, OAuth!FamilyInv
  <2>4. \A l \in replayed' : \E g \in family' : g.code = l
    BY <1>1, <1>2, <1>3 DEF OAuth!GrantInv, OAuth!FamilyInv
  <2> QED
    BY <2>1, <2>2, <2>3, <2>4 DEF OAuth!FamilyInv
<1>8. OAuth!PairInv'
  <2>1. \A n \in DOMAIN pair' : \E g \in family' : g.code = pair'[n].family
    BY <1>1, <1>3 DEF OAuth!GrantInv, OAuth!PairInv
  <2>2. \A p \in Q : request'[p].op = "rotate" => request'[p].pair \in DOMAIN pair'
    BY <1>1, IdleIs DEF OAuth!GrantInv, OAuth!TypeOK, OAuth!PairInv
  <2> QED
    BY <1>1, <2>1, <2>2 DEF OAuth!GrantInv, OAuth!PairInv
<1> QED
  BY <1>5, <1>6, <1>7, <1>8 DEF OAuth!GrantInv

\* Nothing is pending, issued or granted at first.
LEMMA OAuthStarts == ASSUME OAuth!Assumption, OAuth!Init PROVE OAuth!GrantInv
<1>1. pair = <<>> /\ DOMAIN pair = {} /\ pair \in Seq(OAuth!Pair) /\ Len(pair) = 0
  BY DEF OAuth!Init
<1>2. OAuth!TypeOK
  BY <1>1, IdleIs DEF OAuth!Init, OAuth!TypeOK, OAuth!Assumption
<1>3. OAuth!ConsentInv
  BY IdleIs DEF OAuth!Init, OAuth!ConsentInv, OAuth!Issues
<1>4. OAuth!FamilyInv
  BY DEF OAuth!Init, OAuth!FamilyInv
<1>5. OAuth!PairInv
  BY <1>1, IdleIs DEF OAuth!Init, OAuth!PairInv
<1> QED
  BY <1>2, <1>3, <1>4, <1>5 DEF OAuth!GrantInv

LEMMA GrantsStay ==
  ASSUME OAuth!Assumption, OAuth!GrantInv, [OAuth!Next]_OAuth!vars
  PROVE  OAuth!GrantInv'
<1>1. CASE OAuth!Tick
  BY <1>1, OAuthTickKeeps
<1>2. ASSUME NEW f \in F, OAuth!Register(f) PROVE OAuth!GrantInv'
  BY <1>2, OAuthRegisterKeeps
<1>3. ASSUME NEW f \in F, NEW q \in Q, OAuth!Consent(q, f) PROVE OAuth!GrantInv'
  BY <1>3, ConsentKeeps
<1>4. ASSUME NEW q \in Q, OAuth!Issue(q) PROVE OAuth!GrantInv'
  BY <1>4, IssueKeeps
<1>5. ASSUME NEW q \in Q, OAuth!Exchange(q) PROVE OAuth!GrantInv'
  BY <1>5, ExchangeKeeps
<1>6. ASSUME NEW q \in Q, OAuth!Rotate(q) PROVE OAuth!GrantInv'
  BY <1>6, RotateKeeps
<1>7. ASSUME NEW q \in Q, OAuth!Replay(q) PROVE OAuth!GrantInv'
  BY <1>7, ReplayKeeps
<1>8. ASSUME NEW q \in Q, NEW c \in OAuth!Codes, OAuth!AskExchange(q, c)
      PROVE  OAuth!GrantInv'
  BY <1>8, AskExchangeKeeps
<1>9. ASSUME NEW q \in Q, NEW n \in OAuth!Pairs, OAuth!AskRotate(q, n)
      PROVE  OAuth!GrantInv'
  BY <1>9, AskRotateKeeps
<1>10. CASE UNCHANGED OAuth!vars
  BY <1>10 DEF OAuth!vars, OAuth!GrantInv, OAuth!TypeOK, OAuth!ConsentInv, OAuth!Issues,
               OAuth!FamilyInv, OAuth!PairInv
<1> QED
  BY <1>1, <1>2, <1>3, <1>4, <1>5, <1>6, <1>7, <1>8, <1>9, <1>10 DEF OAuth!Next

\* The invariant says what the three properties promise.
LEMMA GrantsFollow == ASSUME OAuth!Assumption, OAuth!GrantInv PROVE OAuth!GrantsAreSound
<1>1. OAuth!RedeemedOnce
  BY DEF OAuth!RedeemedOnce, OAuth!GrantInv, OAuth!FamilyInv, OAuth!PairInv
<1>2. OAuth!ReplayEndsTheFamily
  <2> SUFFICES ASSUME NEW n \in DOMAIN pair, pair[n].family \in replayed,
                      NEW g \in family, g.code = pair[n].family
               PROVE  g.revoked
    BY DEF OAuth!ReplayEndsTheFamily, OAuth!Accepted, OAuth!Rotates
  <2> QED
    BY DEF OAuth!GrantInv, OAuth!FamilyInv
<1>3. OAuth!GrantsEnd
  <2> SUFFICES ASSUME NEW n \in DOMAIN pair, NEW g \in family, g.code = pair[n].family,
                      g.until > now
               PROVE  \E c \in code : /\ <<c.f, c.n>> = pair[n].family
                                      /\ now < c.at + CodeLife + FamilyLife
    BY DEF OAuth!GrantsEnd, OAuth!Accepted
  <2>1. PICK c \in code : <<c.f, c.n>> = g.code /\ g.until < c.at + CodeLife + FamilyLife
    BY DEF OAuth!GrantInv, OAuth!FamilyInv
  <2>2. now \in Nat /\ g.until \in Nat /\ c.at + CodeLife + FamilyLife \in Nat
    BY DEF OAuth!GrantInv, OAuth!TypeOK, OAuth!Family, OAuth!Code, OAuth!Time, OAuth!Assumption
  <2> QED
    BY <2>1, <2>2
<1> QED
  BY <1>1, <1>2, <1>3 DEF OAuth!GrantsAreSound

\* One consent gives at most one family, one token at most one pair; a replay ends the
\* family; and every grant ends, whatever fails and however often it is asked
\* (oauth.rs, oauth_store.rs).
THEOREM GrantsHold ==
  ASSUME OAuth!Assumption
  PROVE  OAuth!Spec => []OAuth!GrantsAreSound
<1>1. OAuth!Init => OAuth!GrantInv
  BY OAuthStarts
<1>2. OAuth!GrantInv /\ [OAuth!Next]_OAuth!vars => OAuth!GrantInv'
  BY GrantsStay
<1>3. OAuth!GrantInv => OAuth!GrantsAreSound
  BY GrantsFollow
<1> QED
  BY <1>1, <1>2, <1>3, PTL DEF OAuth!Spec

-----------------------------------------------------------------------------
(* Benchmark Mode *)

CONSTANTS Target, Queue

VARIABLES process, room, actor, answer, queue, stray, mail, run, matches, counted, files, heard

Bench == INSTANCE Benchmark WITH up <- process

\* Without an answer that is awaited, none of the effects in the queue waits.
LEMMA NoneOwed ==
  ASSUME Bench!TypeOK, Bench!EffectInv, actor.pc = "ready" \/ answer # "none"
  PROVE  \A i \in DOMAIN queue : ~queue[i].owed
<1>1. \A i \in DOMAIN queue : queue[i] \in Bench!Effects
  BY DEF Bench!TypeOK
<1>2. \A e \in Bench!Effects : Bench!Fits(e) => ~e.owed
  BY DEF Bench!TypeOK, Bench!Fits, Bench!Effects
<1> QED
  BY <1>1, <1>2 DEF Bench!EffectInv

\* The queue stays, and so does what its effects are about.
LEMMA QueueStays ==
  ASSUME Bench!TypeOK, Bench!EffectInv, queue' = queue,
         \A i \in DOMAIN queue : ~queue[i].owed,
         \A e \in Bench!Effects : Bench!Fits(e) /\ ~e.owed => Bench!Fits(e)'
  PROVE  queue' \in Seq(Bench!Effects) /\ Len(queue') <= Queue /\ Bench!EffectInv'
<1>1. \A i \in DOMAIN queue : queue[i] \in Bench!Effects
  BY DEF Bench!TypeOK
<1>2. \A i \in DOMAIN queue : Bench!Fits(queue[i])
  BY DEF Bench!EffectInv
<1>3. ASSUME NEW i \in DOMAIN queue PROVE Bench!Fits(queue[i])'
  <2>1. PICK e \in Bench!Effects : e = queue[i]
    BY <1>1
  <2>2. Bench!Fits(e) /\ ~e.owed
    BY <1>2, <2>1
  <2>3. Bench!Fits(e)'
    BY <2>2
  <2> QED
    BY <2>1, <2>3
<1> QED
  BY <1>3 DEF Bench!EffectInv, Bench!TypeOK

\* One more effect.
LEMMA QueuePut ==
  ASSUME Bench!TypeOK, Bench!EffectInv, Queue \in Nat, Len(queue) < Queue,
         NEW e \in Bench!Effects, queue' = Append(queue, e), Bench!Fits(e)',
         \A i \in DOMAIN queue : e.owed => ~queue[i].owed,
         \A x \in Bench!Effects : Bench!Fits(x) /\ (e.owed => ~x.owed) => Bench!Fits(x)'
  PROVE  queue' \in Seq(Bench!Effects) /\ Len(queue') <= Queue /\ Bench!EffectInv'
<1>1. /\ queue \in Seq(Bench!Effects) /\ Len(queue) \in Nat /\ DOMAIN queue = 1 .. Len(queue)
      /\ \A i \in DOMAIN queue : queue[i] \in Bench!Effects
  BY DEF Bench!TypeOK
<1>2. /\ queue' \in Seq(Bench!Effects) /\ Len(queue') = Len(queue) + 1
      /\ DOMAIN queue' = 1 .. Len(queue) + 1
      /\ \A i \in DOMAIN queue : queue'[i] = queue[i]
      /\ queue'[Len(queue) + 1] = e
  BY <1>1
<1>3. ASSUME NEW i \in DOMAIN queue PROVE Bench!Fits(queue[i])'
  <2>1. PICK x \in Bench!Effects : x = queue[i]
    BY <1>1
  <2>2. Bench!Fits(x) /\ (e.owed => ~x.owed)
    BY <2>1 DEF Bench!EffectInv
  <2>3. Bench!Fits(x)'
    BY <2>2
  <2>4. queue'[i] = x
    BY <2>1, <1>2
  <2> QED
    BY <2>3, <2>4
<1>4. \A i \in DOMAIN queue' : Bench!Fits(queue[i])'
  BY <1>1, <1>2, <1>3
<1>5. \A i, j \in DOMAIN queue : queue[i].owed /\ queue[j].owed => i = j
  BY DEF Bench!EffectInv
<1>6. \A i, j \in DOMAIN queue' : queue'[i].owed /\ queue'[j].owed => i = j
  BY <1>1, <1>2, <1>5
<1> QED
  BY <1>1, <1>2, <1>4, <1>6 DEF Bench!EffectInv

\* What the actor sends and awaits.
LEMMA AwaitKeeps ==
  ASSUME Bench!TypeOK, Bench!EffectInv, Queue \in Nat,
         \A i \in DOMAIN queue : ~queue[i].owed,
         NEW op, NEW m, NEW ending, NEW next, Bench!Await(op, m, ending, next),
         Bench!Effect(op, m, ending) \in Bench!Effects,
         \A x \in Bench!Effects : Bench!Fits(x) /\ ~x.owed => Bench!Fits(x)',
         answer' = "none" => \A x \in Bench!Effects : x = Bench!Effect(op, m, ending) => Bench!Fits(x)'
  PROVE  /\ queue' \in Seq(Bench!Effects) /\ Len(queue') <= Queue /\ Bench!EffectInv'
         /\ actor' = [pc |-> op, next |-> next] /\ answer' \in {"none", "failed"}
         /\ answer' = "failed" => op \in Bench!Timed
<1>1. PICK e \in Bench!Effects : e = Bench!Effect(op, m, ending)
  OBVIOUS
<1>2. e.owed
  BY <1>1 DEF Bench!Effect
<1>3. /\ actor' = [pc |-> op, next |-> next] /\ answer' \in {"none", "failed"}
      /\ answer' = "failed" => op \in Bench!Timed
  BY DEF Bench!Await
<1>4. CASE Len(queue) < Queue /\ queue' = Append(queue, Bench!Effect(op, m, ending)) /\ answer' = "none"
  <2>1. Bench!Fits(e)'
    BY <1>1, <1>4
  <2> QED
    BY <1>1, <1>2, <1>3, <1>4, <2>1, QueuePut
<1>5. CASE queue' = queue
  BY <1>3, <1>5, QueueStays
<1> QED
  BY <1>4, <1>5 DEF Bench!Await

\* An effect nobody waits for is about a Run that ended, or about no Match that counts.
LEMMA FitsStays ==
  ASSUME room.run \in Bench!Over => room'.run = room.run, run'.done = run.done,
         actor.pc = "open" /\ answer = "failed" =>
           (actor'.pc = "open" /\ answer' = "failed") \/ room'.run \in Bench!Over
  PROVE  \A x \in Bench!Effects : Bench!Fits(x) /\ ~x.owed => Bench!Fits(x)'
BY DEF Bench!Effects, Bench!Fits

LEMMA StartKeeps ==
  ASSUME Bench!Assumption, Bench!BenchmarkInv, Bench!StartBenchmark
  PROVE  Bench!BenchmarkInv'
<1>1. \A i \in DOMAIN queue : ~queue[i].owed
  BY NoneOwed DEF Bench!BenchmarkInv, Bench!StartBenchmark, Bench!Ready
<1>2. /\ Bench!Await("create", 0, "none", "stay") /\ room' = room /\ run' = run
      /\ room.run = "none" /\ room.phase = "lobby" /\ actor.pc = "ready"
  BY DEF Bench!StartBenchmark, Bench!Ready, Bench!worker, Bench!disk
<1>3. Bench!Effect("create", 0, "none") \in Bench!Effects
  BY DEF Bench!BenchmarkInv, Bench!TypeOK, Bench!Rooms, Bench!Effect, Bench!Effects, Bench!Assumption
<1>4. \A x \in Bench!Effects : Bench!Fits(x) /\ ~x.owed => Bench!Fits(x)'
  BY <1>2, FitsStays
<1>5. actor' = [pc |-> "create", next |-> "stay"]
  BY <1>2 DEF Bench!Await
<1>6. answer' = "none" =>
        \A x \in Bench!Effects : x = Bench!Effect("create", 0, "none") => Bench!Fits(x)'
  BY <1>5 DEF Bench!Effect, Bench!Fits
<1>7. /\ queue' \in Seq(Bench!Effects) /\ Len(queue') <= Queue /\ Bench!EffectInv'
      /\ answer' \in {"none", "failed"}
  BY <1>1, <1>2, <1>3, <1>4, <1>6, AwaitKeeps DEF Bench!BenchmarkInv, Bench!Assumption
<1>8. Bench!TypeOK'
  BY <1>5, <1>7 DEF Bench!BenchmarkInv, Bench!TypeOK, Bench!StartBenchmark, Bench!worker, Bench!disk,
     Bench!M
<1>9. Bench!PhaseInv' /\ Bench!MatchInv' /\ Bench!CountInv' /\ Bench!HeardInv' /\ Bench!EndInv'
  BY <1>2, <1>5 DEF Bench!BenchmarkInv, Bench!PhaseInv, Bench!MatchInv, Bench!CountInv,
     Bench!HeardInv, Bench!EndInv, Bench!StartBenchmark, Bench!Ready, Bench!worker, Bench!disk,
     Bench!Running, Bench!Over, Bench!M
<1> QED
  BY <1>7, <1>8, <1>9 DEF Bench!BenchmarkInv

\* The Run ends.
LEMMA FinishKeeps ==
  ASSUME Bench!Assumption, Bench!TypeOK, Bench!EffectInv, room.run = "running", room.done < Target,
         \A i \in DOMAIN queue : ~queue[i].owed,
         NEW ending \in {"stopped", "completed", "failed"}, NEW m \in 0 .. Target,
         NEW next, NEW r \in Bench!Rooms, Bench!Finish(ending, m, next, r), run'.done = run.done
  PROVE  /\ queue' \in Seq(Bench!Effects) /\ Len(queue') <= Queue /\ Bench!EffectInv'
         /\ actor' = [pc |-> "end", next |-> next] /\ answer' \in {"none", "failed"}
         /\ room' \in Bench!Rooms /\ room'.run = ending /\ room'.phase = r.phase
         /\ room'.m = r.m /\ room'.done = r.done /\ room'.stop = r.stop /\ room'.kept = r.kept
<1>1. Bench!Await("end", m, ending, next) /\ room' = [r EXCEPT !.run = ending]
  BY DEF Bench!Finish
<1>2. /\ room' \in Bench!Rooms /\ room'.run = ending /\ room'.phase = r.phase
      /\ room'.m = r.m /\ room'.done = r.done /\ room'.stop = r.stop /\ room'.kept = r.kept
  BY <1>1 DEF Bench!Rooms
<1>3. Bench!Effect("end", m, ending) \in Bench!Effects
  BY DEF Bench!TypeOK, Bench!Rooms, Bench!Effect, Bench!Effects, Bench!Assumption
<1>4. \A x \in Bench!Effects : Bench!Fits(x) /\ ~x.owed => Bench!Fits(x)'
  BY <1>2, FitsStays DEF Bench!Over
<1>5. actor' = [pc |-> "end", next |-> next]
  BY <1>1 DEF Bench!Await
<1>6. answer' = "none" =>
        \A x \in Bench!Effects : x = Bench!Effect("end", m, ending) => Bench!Fits(x)'
  BY <1>2, <1>5 DEF Bench!Effect, Bench!Fits, Bench!Over
<1>7. /\ queue' \in Seq(Bench!Effects) /\ Len(queue') <= Queue /\ Bench!EffectInv'
      /\ answer' \in {"none", "failed"}
  BY <1>1, <1>3, <1>4, <1>6, AwaitKeeps, NoneOwed DEF Bench!Assumption
<1> QED
  BY <1>2, <1>5, <1>7

\* The Match that is played is given up, and the Run with it.
LEMMA AbortKeeps ==
  ASSUME Bench!Assumption, Bench!TypeOK, Bench!EffectInv, room.run = "running", room.done < Target,
         \A i \in DOMAIN queue : ~queue[i].owed,
         NEW r \in Bench!Rooms, Bench!Abort(r), run'.done = run.done
  PROVE  /\ queue' \in Seq(Bench!Effects) /\ Len(queue') <= Queue /\ Bench!EffectInv'
         /\ actor'.pc = "end" /\ answer' \in {"none", "failed"}
         /\ actor' = [pc |-> "end", next |-> IF r.phase = "playing" THEN "cleanup" ELSE "stay"]
         /\ room' \in Bench!Rooms /\ room'.run = "failed" /\ room'.phase = r.phase
         /\ room'.m = r.m /\ room'.done = r.done /\ room'.stop = r.stop /\ room'.kept = r.kept
<1>1. r.m \in 0 .. Target /\ 0 \in 0 .. Target
  BY DEF Bench!Rooms, Bench!Assumption
<1>2. CASE r.phase = "playing"
  <2>1. Bench!Finish("failed", r.m, "cleanup", r)
    BY <1>2 DEF Bench!Abort
  <2> QED
    BY <1>1, <1>2, <2>1, FinishKeeps
<1>3. CASE r.phase # "playing"
  <2>1. Bench!Finish("failed", 0, "stay", r)
    BY <1>3 DEF Bench!Abort
  <2> QED
    BY <1>1, <1>3, <2>1, FinishKeeps
<1> QED
  BY <1>2, <1>3

\* Once the Run ended, nothing else of the invariant says much.
LEMMA EndedKeeps ==
  ASSUME Bench!BenchmarkInv, UNCHANGED <<process, run, matches, counted>>, process = TRUE,
         room.phase # "gone", actor.pc # "final" \/ answer # "ok",
         room.run = "running", room'.run \in Bench!Over \ {"completed"}, room'.phase = room.phase,
         room'.done = room.done, room'.stop = room.stop \/ room'.stop = TRUE,
         room'.run = "stopped" => room'.stop,
         heard' = heard \/ (heard' \in run.done .. Target /\ room'.stop),
         actor'.pc = "end", actor'.next \in {"stay", "cleanup", "shutdown"},
         actor'.next # "stay" \/ room.phase # "playing"
  PROVE  Bench!PhaseInv' /\ Bench!MatchInv' /\ Bench!CountInv' /\ Bench!HeardInv' /\ Bench!EndInv'
<1>1. Bench!PhaseInv'
  BY DEF Bench!BenchmarkInv, Bench!PhaseInv, Bench!Running, Bench!Over
<1>2. Bench!MatchInv'
  BY DEF Bench!MatchInv, Bench!Running, Bench!Over
<1>3. Bench!CountInv'
  BY DEF Bench!BenchmarkInv, Bench!CountInv, Bench!M
<1>4. Bench!HeardInv'
  BY DEF Bench!BenchmarkInv, Bench!TypeOK, Bench!HeardInv, Bench!Running, Bench!Over
<1>5. Bench!EndInv'
  BY DEF Bench!BenchmarkInv, Bench!EndInv, Bench!Over
<1> QED
  BY <1>1, <1>2, <1>3, <1>4, <1>5

\* The replay of the next Match is opened.
LEMMA OpenKeeps ==
  ASSUME Bench!Assumption, Bench!TypeOK, Bench!EffectInv, \A i \in DOMAIN queue : ~queue[i].owed,
         NEW r \in Bench!Rooms, Bench!Open(r), r.run = "running", room.run \in {"none", "running"},
         r.m = room.done, room.done < Target, run'.done = run.done, run.done = room.done,
         actor.pc # "open"
  PROVE  /\ queue' \in Seq(Bench!Effects) /\ Len(queue') <= Queue /\ Bench!EffectInv'
         /\ actor' = [pc |-> "open", next |-> "stay"] /\ answer' \in {"none", "failed"}
         /\ room' \in Bench!Rooms /\ room'.run = "running" /\ room'.phase = r.phase
         /\ room'.m = r.m + 1 /\ room'.done = r.done /\ room'.stop = r.stop /\ room'.kept = r.kept
<1>1. Bench!Await("open", r.m + 1, "none", "stay") /\ room' = [r EXCEPT !.m = @ + 1]
  BY DEF Bench!Open
<1>2. r.m \in Nat /\ r.m + 1 \in 0 .. Target /\ room.done \in 0 .. Target
  BY DEF Bench!TypeOK, Bench!Rooms, Bench!Assumption
<1>3. /\ room' \in Bench!Rooms /\ room'.run = "running" /\ room'.phase = r.phase
      /\ room'.m = r.m + 1 /\ room'.done = r.done /\ room'.stop = r.stop /\ room'.kept = r.kept
  BY <1>1, <1>2 DEF Bench!Rooms
<1>4. Bench!Effect("open", r.m + 1, "none") \in Bench!Effects
  BY <1>2 DEF Bench!Effect, Bench!Effects, Bench!Assumption
<1>5. \A x \in Bench!Effects : Bench!Fits(x) /\ ~x.owed => Bench!Fits(x)'
  BY FitsStays DEF Bench!Over
<1>6. actor' = [pc |-> "open", next |-> "stay"]
  BY <1>1 DEF Bench!Await
<1>7. answer' = "none" =>
        \A x \in Bench!Effects : x = Bench!Effect("open", r.m + 1, "none") => Bench!Fits(x)'
  BY <1>2, <1>6 DEF Bench!Effect, Bench!Fits
<1>8. /\ queue' \in Seq(Bench!Effects) /\ Len(queue') <= Queue /\ Bench!EffectInv'
      /\ answer' \in {"none", "failed"}
  BY <1>1, <1>4, <1>5, <1>7, AwaitKeeps DEF Bench!Assumption
<1> QED
  BY <1>3, <1>6, <1>8

LEMMA CreatedKeeps ==
  ASSUME Bench!Assumption, Bench!BenchmarkInv, Bench!Created
  PROVE  Bench!BenchmarkInv'
<1>1. /\ \A i \in DOMAIN queue : ~queue[i].owed
      /\ actor.pc = "create" /\ answer # "none" /\ process
      /\ UNCHANGED <<process, stray, mail, run, matches, counted, files, heard>>
      /\ room.run = "none" /\ room.phase = "lobby" /\ room.m = 0 /\ room.done = 0 /\ run.done = 0
      /\ ~room.stop
  BY NoneOwed DEF Bench!BenchmarkInv, Bench!Created, Bench!Answered, Bench!worker, Bench!disk,
     Bench!PhaseInv, Bench!MatchInv
<1>2. CASE Bench!Open([room EXCEPT !.run = "running"])
  <2> DEFINE r == [room EXCEPT !.run = "running"]
  <2>1. /\ r \in Bench!Rooms /\ r.run = "running" /\ r.phase = "lobby" /\ r.m = 0 /\ r.done = 0
        /\ ~r.stop
    BY <1>1 DEF Bench!BenchmarkInv, Bench!TypeOK, Bench!Rooms
  <2> HIDE DEF r
  <2>2. Bench!Open(r)
    BY <1>2 DEF r
  <2>3. /\ queue' \in Seq(Bench!Effects) /\ Len(queue') <= Queue /\ Bench!EffectInv'
        /\ actor' = [pc |-> "open", next |-> "stay"] /\ answer' \in {"none", "failed"}
        /\ room' \in Bench!Rooms /\ room'.run = "running" /\ room'.phase = "lobby"
        /\ room'.m = 1 /\ room'.done = 0 /\ ~room'.stop
    BY <1>1, <2>1, <2>2, OpenKeeps DEF Bench!BenchmarkInv, Bench!Assumption
  <2>4. Bench!TypeOK'
    BY <1>1, <2>3 DEF Bench!BenchmarkInv, Bench!TypeOK, Bench!M
  <2>5. Bench!PhaseInv' /\ Bench!MatchInv' /\ Bench!CountInv' /\ Bench!HeardInv' /\ Bench!EndInv'
    BY <1>1, <2>3 DEF Bench!BenchmarkInv, Bench!PhaseInv, Bench!MatchInv, Bench!CountInv,
       Bench!HeardInv, Bench!EndInv, Bench!Running, Bench!Over, Bench!M, Bench!Assumption
  <2> QED
    BY <2>3, <2>4, <2>5 DEF Bench!BenchmarkInv
<1>3. CASE Bench!Goes("stay") /\ room' = room
  <2>1. queue' = queue /\ actor' = [pc |-> "ready", next |-> "stay"] /\ answer' = "none"
    BY <1>3 DEF Bench!Goes
  <2>2. queue' \in Seq(Bench!Effects) /\ Len(queue') <= Queue /\ Bench!EffectInv'
    BY <1>1, <1>3, <2>1, FitsStays, QueueStays DEF Bench!BenchmarkInv
  <2>3. Bench!TypeOK'
    BY <1>1, <1>3, <2>1, <2>2 DEF Bench!BenchmarkInv, Bench!TypeOK, Bench!M
  <2>4. Bench!PhaseInv' /\ Bench!MatchInv' /\ Bench!CountInv' /\ Bench!HeardInv' /\ Bench!EndInv'
    BY <1>1, <1>3, <2>1 DEF Bench!BenchmarkInv, Bench!PhaseInv, Bench!MatchInv, Bench!CountInv,
       Bench!HeardInv, Bench!EndInv, Bench!Running, Bench!Over, Bench!M
  <2> QED
    BY <2>2, <2>3, <2>4 DEF Bench!BenchmarkInv
<1> QED
  BY <1>2, <1>3 DEF Bench!Created

LEMMA NextMatchKeeps ==
  ASSUME Bench!Assumption, Bench!BenchmarkInv, Bench!NextMatch
  PROVE  Bench!BenchmarkInv'
<1>1. /\ \A i \in DOMAIN queue : ~queue[i].owed
      /\ actor.pc = "ready" /\ answer = "none" /\ process /\ Bench!Open(room)
      /\ UNCHANGED <<process, stray, mail, run, matches, counted, files, heard>>
      /\ room \in Bench!Rooms /\ room.run = "running" /\ room.phase = "post"
      /\ room.m = room.done /\ room.done = run.done /\ room.done < Target /\ ~room.stop
  BY NoneOwed DEF Bench!BenchmarkInv, Bench!TypeOK, Bench!NextMatch, Bench!Ready, Bench!Running,
     Bench!worker, Bench!disk, Bench!PhaseInv, Bench!MatchInv, Bench!CountInv
<1>2. /\ queue' \in Seq(Bench!Effects) /\ Len(queue') <= Queue /\ Bench!EffectInv'
      /\ actor' = [pc |-> "open", next |-> "stay"] /\ answer' \in {"none", "failed"}
      /\ room' \in Bench!Rooms /\ room'.run = "running" /\ room'.phase = "post"
      /\ room'.m = room.m + 1 /\ room'.done = room.done /\ ~room'.stop
  BY <1>1, OpenKeeps DEF Bench!BenchmarkInv
<1>3. Bench!TypeOK'
  BY <1>1, <1>2 DEF Bench!BenchmarkInv, Bench!TypeOK, Bench!M
<1>4. Bench!PhaseInv' /\ Bench!MatchInv' /\ Bench!CountInv' /\ Bench!HeardInv' /\ Bench!EndInv'
  BY <1>1, <1>2 DEF Bench!BenchmarkInv, Bench!PhaseInv, Bench!MatchInv, Bench!CountInv,
     Bench!HeardInv, Bench!EndInv, Bench!Running, Bench!Over, Bench!M
<1> QED
  BY <1>2, <1>3, <1>4 DEF Bench!BenchmarkInv

LEMMA OpenedKeeps ==
  ASSUME Bench!Assumption, Bench!BenchmarkInv, Bench!Opened
  PROVE  Bench!BenchmarkInv'
<1>1. /\ \A i \in DOMAIN queue : ~queue[i].owed
      /\ actor.pc = "open" /\ answer # "none" /\ process
      /\ UNCHANGED <<process, mail, run, matches, counted, files, heard>>
      /\ room \in Bench!Rooms /\ room.run = "running" /\ room.phase \in {"lobby", "post"}
      /\ room.m = room.done + 1 /\ room.m \in Bench!M
      /\ room.done = run.done /\ room.done < Target /\ ~room.stop
  BY NoneOwed DEF Bench!BenchmarkInv, Bench!TypeOK, Bench!Rooms, Bench!Opened, Bench!Answered,
     Bench!Running, Bench!worker, Bench!disk, Bench!PhaseInv, Bench!MatchInv, Bench!CountInv, Bench!M,
     Bench!Assumption
<1>2. CASE answer = "ok" /\ room' = [room EXCEPT !.phase = "playing"] /\ Bench!Goes("stay") /\ stray' = stray
  <2>1. queue' = queue /\ actor' = [pc |-> "ready", next |-> "stay"] /\ answer' = "none"
    BY <1>2 DEF Bench!Goes
  <2>2. /\ room' \in Bench!Rooms /\ room'.run = "running" /\ room'.phase = "playing"
        /\ room'.m = room.m /\ room'.done = room.done /\ ~room'.stop
    BY <1>1, <1>2 DEF Bench!Rooms
  <2>3. queue' \in Seq(Bench!Effects) /\ Len(queue') <= Queue /\ Bench!EffectInv'
    BY <1>1, <1>2, <2>1, <2>2, FitsStays, QueueStays DEF Bench!BenchmarkInv
  <2>4. Bench!TypeOK'
    BY <1>1, <1>2, <2>1, <2>2, <2>3 DEF Bench!BenchmarkInv, Bench!TypeOK, Bench!M
  <2>5. Bench!PhaseInv' /\ Bench!MatchInv' /\ Bench!CountInv' /\ Bench!HeardInv' /\ Bench!EndInv'
    BY <1>1, <2>1, <2>2 DEF Bench!BenchmarkInv, Bench!PhaseInv, Bench!MatchInv, Bench!CountInv,
       Bench!HeardInv, Bench!EndInv, Bench!Running, Bench!Over, Bench!M
  <2> QED
    BY <2>3, <2>4, <2>5 DEF Bench!BenchmarkInv
<1>3. CASE /\ answer = "failed" /\ Bench!Finish("failed", room.m, "stay", [room EXCEPT !.kept = FALSE])
           /\ stray' = stray \cup {room.m}
  <2> DEFINE r == [room EXCEPT !.kept = FALSE]
  <2>1. r \in Bench!Rooms /\ r.phase = room.phase /\ r.m = room.m /\ r.done = room.done /\ r.stop = room.stop
    BY <1>1 DEF Bench!Rooms
  <2>2. Bench!Finish("failed", room.m, "stay", r) /\ room.m \in 0 .. Target
    BY <1>1, <1>3 DEF Bench!Rooms
  <2> HIDE DEF r
  <2>3. /\ queue' \in Seq(Bench!Effects) /\ Len(queue') <= Queue /\ Bench!EffectInv'
        /\ actor' = [pc |-> "end", next |-> "stay"] /\ answer' \in {"none", "failed"}
        /\ room' \in Bench!Rooms /\ room'.run = "failed" /\ room'.phase = room.phase
        /\ room'.m = room.m /\ room'.done = room.done /\ room'.stop = room.stop
    BY <1>1, <2>1, <2>2, FinishKeeps DEF Bench!BenchmarkInv
  <2>4. Bench!TypeOK'
    BY <1>1, <1>3, <2>3 DEF Bench!BenchmarkInv, Bench!TypeOK, Bench!M
  <2>5. Bench!PhaseInv' /\ Bench!MatchInv' /\ Bench!CountInv' /\ Bench!HeardInv' /\ Bench!EndInv'
    <3>1. /\ UNCHANGED <<process, run, matches, counted>> /\ process = TRUE /\ room.phase # "gone"
          /\ room'.run \in Bench!Over \ {"completed"} /\ room'.run # "stopped"
          /\ actor.pc # "final" /\ actor'.pc = "end" /\ actor'.next = "stay" /\ room.phase # "playing"
      BY <1>1, <2>3 DEF Bench!Over, Bench!BenchmarkInv, Bench!TypeOK
    <3> QED
      BY <1>1, <2>3, <3>1, EndedKeeps
  <2> QED
    BY <2>3, <2>4, <2>5 DEF Bench!BenchmarkInv
<1> QED
  BY <1>2, <1>3 DEF Bench!Opened

\* What is true of a Match that is played.
LEMMA PlayingFacts ==
  ASSUME Bench!Assumption, Bench!BenchmarkInv, actor.pc = "ready" \/ answer # "none",
         room.phase = "playing", room.run = "running"
  PROVE  /\ \A i \in DOMAIN queue : ~queue[i].owed
         /\ room \in Bench!Rooms /\ room.m \in Bench!M /\ room.m \in 0 .. Target
         /\ room.m = room.done + 1 /\ room.done < Target
BY NoneOwed DEF Bench!BenchmarkInv, Bench!TypeOK, Bench!Rooms, Bench!MatchInv, Bench!Running, Bench!M,
   Bench!Assumption

LEMMA PlayKeeps ==
  ASSUME Bench!Assumption, Bench!BenchmarkInv, Bench!Play
  PROVE  Bench!BenchmarkInv'
<1>1. /\ actor.pc = "ready" /\ answer = "none" /\ process = TRUE
      /\ UNCHANGED <<process, mail, run, matches, counted, files, heard>>
      /\ room.run = "running" /\ room.phase = "playing" /\ room.done = run.done
  BY DEF Bench!BenchmarkInv, Bench!TypeOK, Bench!Play, Bench!Ready,
     Bench!Running, Bench!worker, Bench!disk, Bench!PhaseInv, Bench!CountInv
<1>2. /\ \A i \in DOMAIN queue : ~queue[i].owed
      /\ room \in Bench!Rooms /\ room.m \in Bench!M /\ room.m \in 0 .. Target
      /\ room.m = room.done + 1 /\ room.done < Target
  BY <1>1, PlayingFacts
<1>3. CASE Bench!Abort(room) /\ stray' = stray
  <2>1. /\ queue' \in Seq(Bench!Effects) /\ Len(queue') <= Queue /\ Bench!EffectInv'
        /\ actor' = [pc |-> "end", next |-> "cleanup"] /\ answer' \in {"none", "failed"}
        /\ room' \in Bench!Rooms /\ room'.run = "failed" /\ room'.phase = room.phase
        /\ room'.m = room.m /\ room'.done = room.done /\ room'.stop = room.stop
    BY <1>1, <1>2, <1>3, AbortKeeps DEF Bench!BenchmarkInv
  <2>2. Bench!TypeOK'
    BY <1>1, <1>3, <2>1 DEF Bench!BenchmarkInv, Bench!TypeOK, Bench!M
  <2>3. Bench!PhaseInv' /\ Bench!MatchInv' /\ Bench!CountInv' /\ Bench!HeardInv' /\ Bench!EndInv'
    <3>1. /\ UNCHANGED <<process, run, matches, counted>> /\ room.phase # "gone"
          /\ room'.run \in Bench!Over \ {"completed"} /\ room'.run # "stopped"
          /\ actor.pc # "final" /\ actor'.pc = "end" /\ actor'.next = "cleanup"
      BY <1>1, <2>1 DEF Bench!Over
    <3> QED
      BY <1>1, <2>1, <3>1, EndedKeeps
  <2> QED
    BY <2>1, <2>2, <2>3 DEF Bench!BenchmarkInv
<1>4. CASE /\ Len(queue) < Queue
           /\ queue' = Append(queue, Bench!Unawaited("append", room.m))
           /\ UNCHANGED <<room, actor, answer, stray>>
  <2>1. PICK e \in Bench!Effects : /\ e = Bench!Unawaited("append", room.m)
                                   /\ ~e.owed /\ e.op = "append" /\ e.m \in Bench!M
    <3>1. Bench!Unawaited("append", room.m) \in Bench!Effects
      BY <1>2 DEF Bench!Unawaited, Bench!Effects, Bench!Rooms, Bench!Assumption
    <3> QED
      BY <1>2, <3>1 DEF Bench!Unawaited
  <2>2. \A x \in Bench!Effects : Bench!Fits(x) => Bench!Fits(x)'
    BY <1>1, <1>4 DEF Bench!Fits
  <2>3. Bench!Fits(e)'
    BY <2>1 DEF Bench!Fits, Bench!M
  <2>4. queue' \in Seq(Bench!Effects) /\ Len(queue') <= Queue /\ Bench!EffectInv'
    BY <1>2, <1>4, <2>1, <2>2, <2>3, QueuePut DEF Bench!BenchmarkInv, Bench!Assumption
  <2>5. Bench!TypeOK'
    BY <1>1, <1>4, <2>4 DEF Bench!BenchmarkInv, Bench!TypeOK, Bench!M
  <2>6. Bench!PhaseInv' /\ Bench!MatchInv' /\ Bench!CountInv' /\ Bench!HeardInv' /\ Bench!EndInv'
    BY <1>1, <1>4 DEF Bench!BenchmarkInv, Bench!PhaseInv, Bench!MatchInv, Bench!CountInv,
       Bench!HeardInv, Bench!EndInv, Bench!Running, Bench!Over, Bench!M
  <2> QED
    BY <2>4, <2>5, <2>6 DEF Bench!BenchmarkInv
<1>5. CASE /\ room' = [room EXCEPT !.kept = FALSE] /\ stray' = stray \cup {room.m}
           /\ UNCHANGED <<actor, answer, queue>>
  <2>1. /\ room' \in Bench!Rooms /\ room'.run = room.run /\ room'.phase = room.phase
        /\ room'.m = room.m /\ room'.done = room.done /\ room'.stop = room.stop
    BY <1>2, <1>5 DEF Bench!Rooms
  <2>2. queue' \in Seq(Bench!Effects) /\ Len(queue') <= Queue /\ Bench!EffectInv'
    BY <1>1, <1>2, <1>5, <2>1, FitsStays, QueueStays DEF Bench!BenchmarkInv
  <2>3. Bench!TypeOK'
    BY <1>1, <1>2, <1>5, <2>1, <2>2 DEF Bench!BenchmarkInv, Bench!TypeOK, Bench!M
  <2>4. Bench!PhaseInv' /\ Bench!MatchInv' /\ Bench!CountInv' /\ Bench!HeardInv' /\ Bench!EndInv'
    BY <1>1, <1>5, <2>1 DEF Bench!BenchmarkInv, Bench!PhaseInv, Bench!MatchInv, Bench!CountInv,
       Bench!HeardInv, Bench!EndInv, Bench!Running, Bench!Over, Bench!M
  <2> QED
    BY <2>2, <2>3, <2>4 DEF Bench!BenchmarkInv
<1>6. ASSUME NEW op \in {"flush", "final"}, Bench!Await(op, room.m, "none", "stay"),
             UNCHANGED <<room, stray>>
      PROVE  Bench!BenchmarkInv'
  <2>1. Bench!Effect(op, room.m, "none") \in Bench!Effects
    BY <1>2 DEF Bench!Effect, Bench!Effects, Bench!Rooms, Bench!Assumption
  <2>2. \A x \in Bench!Effects : Bench!Fits(x) /\ ~x.owed => Bench!Fits(x)'
    BY <1>1, <1>6, FitsStays
  <2>3. actor' = [pc |-> op, next |-> "stay"]
    BY <1>6 DEF Bench!Await
  <2>4. answer' = "none" =>
          \A x \in Bench!Effects : x = Bench!Effect(op, room.m, "none") => Bench!Fits(x)'
    BY <1>6, <2>3 DEF Bench!Effect, Bench!Fits
  <2>5. /\ queue' \in Seq(Bench!Effects) /\ Len(queue') <= Queue /\ Bench!EffectInv'
        /\ answer' \in {"none", "failed"}
        /\ answer' = "failed" => op \in Bench!Timed
    BY <1>2, <1>6, <2>1, <2>2, <2>4, AwaitKeeps DEF Bench!BenchmarkInv, Bench!Assumption
  <2>6. Bench!TypeOK'
    <3>1. actor' \in [pc : {"ready", "create", "open", "flush", "final", "end", "cleanup"},
                       next : {"stay", "post", "cleanup", "lobby", "shutdown", "gone"}]
      BY <2>3
    <3> QED
      BY <1>1, <1>6, <3>1, <2>5 DEF Bench!BenchmarkInv, Bench!TypeOK, Bench!M
  <2>7. Bench!PhaseInv' /\ Bench!MatchInv' /\ Bench!CountInv' /\ Bench!HeardInv' /\ Bench!EndInv'
    <3>1. actor'.pc \in {"flush", "final"} /\ answer' # "ok"
      BY <2>3, <2>5
    <3> QED
      BY <1>1, <1>2, <1>6, <3>1 DEF Bench!BenchmarkInv, Bench!PhaseInv, Bench!MatchInv,
       Bench!CountInv, Bench!HeardInv, Bench!EndInv, Bench!Running, Bench!Over, Bench!M
  <2> QED
    BY <2>5, <2>6, <2>7 DEF Bench!BenchmarkInv
<1> QED
  BY <1>3, <1>4, <1>5, <1>6 DEF Bench!Play

\* The Room and the Run stay what they are, and the actor is ready again.
LEMMA ReadyKeeps ==
  ASSUME Bench!BenchmarkInv, UNCHANGED <<process, run, matches, counted, heard>>,
         \A i \in DOMAIN queue : ~queue[i].owed, Bench!Goes("stay"),
         actor.pc \in {"flush", "end", "cleanup"}, process = TRUE,
         room' \in Bench!Rooms, room'.run = room.run, room'.m = room.m, room'.done = room.done,
         room'.stop = room.stop,
         room'.phase = "playing" => room.phase = "playing" /\ room.run = "running",
         room.run = "running" => room'.phase = room.phase,
         room'.phase = "gone" \/ room.phase # "gone",
         stray' \subseteq Bench!M, mail' \subseteq Bench!M, files' = files
  PROVE  Bench!BenchmarkInv'
<1>1. queue' = queue /\ actor' = [pc |-> "ready", next |-> "stay"] /\ answer' = "none"
  BY DEF Bench!Goes
<1>2. queue' \in Seq(Bench!Effects) /\ Len(queue') <= Queue /\ Bench!EffectInv'
  BY <1>1, FitsStays, QueueStays DEF Bench!BenchmarkInv
<1>3. Bench!TypeOK'
  BY <1>1, <1>2 DEF Bench!BenchmarkInv, Bench!TypeOK, Bench!M
<1>4. /\ room.phase # "gone" /\ room.run # "none"
      /\ room'.run = "running" => room'.phase = "playing"
  BY DEF Bench!BenchmarkInv, Bench!PhaseInv, Bench!Running, Bench!Over
<1>5. Bench!PhaseInv' /\ Bench!MatchInv' /\ Bench!CountInv' /\ Bench!HeardInv' /\ Bench!EndInv'
  BY <1>1, <1>4 DEF Bench!BenchmarkInv, Bench!PhaseInv, Bench!MatchInv, Bench!CountInv,
     Bench!HeardInv, Bench!EndInv, Bench!Running, Bench!Over, Bench!M
<1> QED
  BY <1>2, <1>3, <1>5 DEF Bench!BenchmarkInv

LEMMA FlushedRunKeeps ==
  ASSUME Bench!Assumption, Bench!BenchmarkInv, Bench!Flushed
  PROVE  Bench!BenchmarkInv'
<1>1. /\ actor.pc = "flush" /\ answer # "none" /\ process = TRUE /\ Bench!Goes("stay")
      /\ UNCHANGED <<process, mail, run, matches, counted, files, heard>>
      /\ room.run = "running" /\ room.phase = "playing" /\ stray \subseteq Bench!M
      /\ mail \subseteq Bench!M
  BY DEF Bench!BenchmarkInv, Bench!TypeOK, Bench!Flushed, Bench!Answered,
     Bench!Running, Bench!worker, Bench!disk, Bench!PhaseInv
<1>2. /\ \A i \in DOMAIN queue : ~queue[i].owed
      /\ room \in Bench!Rooms /\ room.m \in Bench!M
  BY <1>1, PlayingFacts
<1>3. /\ room' \in Bench!Rooms /\ room'.run = room.run /\ room'.m = room.m /\ room'.done = room.done
      /\ room'.stop = room.stop /\ room'.phase = room.phase /\ stray' \subseteq Bench!M
  BY <1>1, <1>2 DEF Bench!Flushed, Bench!Rooms
<1> QED
  BY <1>1, <1>2, <1>3, ReadyKeeps

LEMMA FinalizedKeeps ==
  ASSUME Bench!Assumption, Bench!BenchmarkInv, Bench!Finalized
  PROVE  Bench!BenchmarkInv'
<1>1. /\ actor.pc = "final" /\ answer # "none" /\ process = TRUE
      /\ UNCHANGED <<process, mail, run, matches, counted, files, heard>>
      /\ room.run = "running" /\ room.phase = "playing"
  BY DEF Bench!BenchmarkInv, Bench!TypeOK, Bench!Finalized, Bench!Answered,
     Bench!Running, Bench!worker, Bench!disk, Bench!PhaseInv
<1>2. /\ \A i \in DOMAIN queue : ~queue[i].owed
      /\ room \in Bench!Rooms /\ room.m \in Bench!M /\ room.m \in 0 .. Target
      /\ room.m = room.done + 1 /\ room.done < Target
  BY <1>1, PlayingFacts
<1>3. CASE answer = "failed" /\ stray' = stray \cup {room.m} /\ Bench!Abort([room EXCEPT !.kept = FALSE])
  <2> DEFINE r == [room EXCEPT !.kept = FALSE]
  <2>1. r \in Bench!Rooms /\ r.phase = room.phase /\ r.m = room.m /\ r.done = room.done /\ r.stop = room.stop
    BY <1>2 DEF Bench!Rooms
  <2>2. Bench!Abort(r)
    BY <1>3
  <2> HIDE DEF r
  <2>3. /\ queue' \in Seq(Bench!Effects) /\ Len(queue') <= Queue /\ Bench!EffectInv'
        /\ actor' = [pc |-> "end", next |-> "cleanup"] /\ answer' \in {"none", "failed"}
        /\ room' \in Bench!Rooms /\ room'.run = "failed" /\ room'.phase = room.phase
        /\ room'.m = room.m /\ room'.done = room.done /\ room'.stop = room.stop
    BY <1>1, <1>2, <2>1, <2>2, AbortKeeps DEF Bench!BenchmarkInv
  <2>4. Bench!TypeOK'
    BY <1>1, <1>2, <1>3, <2>3 DEF Bench!BenchmarkInv, Bench!TypeOK, Bench!M
  <2>5. /\ UNCHANGED <<process, run, matches, counted>> /\ room.phase # "gone"
        /\ room'.run \in Bench!Over \ {"completed"} /\ room'.run # "stopped"
        /\ answer # "ok" /\ actor'.pc = "end" /\ actor'.next = "cleanup"
    BY <1>1, <1>3, <2>3 DEF Bench!Over
  <2>6. Bench!PhaseInv' /\ Bench!MatchInv' /\ Bench!CountInv' /\ Bench!HeardInv' /\ Bench!EndInv'
    BY <1>1, <2>3, <2>5, EndedKeeps
  <2> QED
    BY <2>3, <2>4, <2>6 DEF Bench!BenchmarkInv
<1>4. ASSUME answer = "ok" PROVE run.done = room.done + 1 /\ room.done + 1 \in 0 .. Target
  BY <1>1, <1>2, <1>4 DEF Bench!BenchmarkInv, Bench!CountInv, Bench!Rooms, Bench!Assumption
<1> DEFINE more == [room EXCEPT !.done = @ + 1]
<1>5. ASSUME answer = "ok"
      PROVE  /\ more \in Bench!Rooms /\ more.phase = room.phase /\ more.m = room.m
             /\ more.done = room.done + 1 /\ more.stop = room.stop /\ more.run = room.run
  BY <1>2, <1>4, <1>5 DEF Bench!Rooms
<1>6. /\ answer = "ok" => stray' = stray
      /\ answer = "ok" =>
           \/ room.stop /\ Bench!Finish("stopped", 0, "post", more)
           \/ ~room.stop /\ more.done = Target /\ Bench!Finish("completed", 0, "post", more)
           \/ ~room.stop /\ more.done < Target /\ room' = [more EXCEPT !.phase = "post"] /\ Bench!Goes("stay")
  BY DEF Bench!Finalized
<1> HIDE DEF more
<1>7. ASSUME answer = "ok", NEW ending \in {"stopped", "completed"}, Bench!Finish(ending, 0, "post", more),
             ending = "completed" => more.done = Target, ending = "stopped" => room.stop
      PROVE  Bench!BenchmarkInv'
  <2>1. 0 \in 0 .. Target
    BY DEF Bench!Assumption
  <2>2. /\ queue' \in Seq(Bench!Effects) /\ Len(queue') <= Queue /\ Bench!EffectInv'
        /\ actor' = [pc |-> "end", next |-> "post"] /\ answer' \in {"none", "failed"}
        /\ room' \in Bench!Rooms /\ room'.run = ending /\ room'.phase = "playing"
        /\ room'.m = room.m /\ room'.done = room.done + 1 /\ room'.stop = room.stop
    BY <1>1, <1>2, <1>5, <1>7, <2>1, FinishKeeps DEF Bench!BenchmarkInv
  <2>3. Bench!TypeOK'
    BY <1>1, <1>6, <1>7, <2>2 DEF Bench!BenchmarkInv, Bench!TypeOK, Bench!M
  <2>4. Bench!PhaseInv' /\ Bench!MatchInv' /\ Bench!CountInv'
    BY <1>1, <1>4, <1>7, <2>2 DEF Bench!BenchmarkInv, Bench!PhaseInv, Bench!MatchInv, Bench!CountInv,
       Bench!Running, Bench!Over, Bench!M
  <2>5. Bench!HeardInv' /\ Bench!EndInv'
    BY <1>1, <1>4, <1>5, <1>7, <2>2 DEF Bench!BenchmarkInv, Bench!HeardInv, Bench!EndInv, Bench!Running,
       Bench!Over
  <2> QED
    BY <2>2, <2>3, <2>4, <2>5 DEF Bench!BenchmarkInv
<1>8. ASSUME answer = "ok", ~room.stop, more.done < Target, room' = [more EXCEPT !.phase = "post"],
             Bench!Goes("stay")
      PROVE  Bench!BenchmarkInv'
  <2>1. queue' = queue /\ actor' = [pc |-> "ready", next |-> "stay"] /\ answer' = "none"
    BY <1>8 DEF Bench!Goes
  <2>2. /\ room' \in Bench!Rooms /\ room'.run = room.run /\ room'.phase = "post"
        /\ room'.m = room.m /\ room'.done = room.done + 1 /\ ~room'.stop
    BY <1>5, <1>8 DEF Bench!Rooms
  <2>3. queue' \in Seq(Bench!Effects) /\ Len(queue') <= Queue /\ Bench!EffectInv'
    BY <1>1, <1>2, <2>1, <2>2, FitsStays, QueueStays DEF Bench!BenchmarkInv
  <2>4. Bench!TypeOK'
    BY <1>1, <1>6, <1>8, <2>1, <2>2, <2>3 DEF Bench!BenchmarkInv, Bench!TypeOK, Bench!M
  <2>5. Bench!PhaseInv' /\ Bench!MatchInv' /\ Bench!CountInv' /\ Bench!HeardInv' /\ Bench!EndInv'
    BY <1>1, <1>2, <1>4, <1>5, <1>8, <2>1, <2>2 DEF Bench!BenchmarkInv, Bench!PhaseInv, Bench!MatchInv,
       Bench!CountInv, Bench!HeardInv, Bench!EndInv, Bench!Running, Bench!Over, Bench!M
  <2> QED
    BY <2>3, <2>4, <2>5 DEF Bench!BenchmarkInv
<1>9. answer \in {"ok", "failed"}
  BY <1>1 DEF Bench!BenchmarkInv, Bench!TypeOK
<1> QED
  BY <1>3, <1>6, <1>7, <1>8, <1>9 DEF Bench!Finalized

LEMMA RunEndedKeeps ==
  ASSUME Bench!Assumption, Bench!BenchmarkInv, Bench!Ended
  PROVE  Bench!BenchmarkInv'
<1> DEFINE r == [room EXCEPT !.kept = @ /\ answer = "ok"]
<1>1. /\ actor.pc = "end" /\ answer # "none" /\ process = TRUE
      /\ UNCHANGED <<process, stray, mail, run, matches, counted, files, heard>>
      /\ room.run \in Bench!Over /\ room.phase # "gone" /\ room \in Bench!Rooms
      /\ stray \subseteq Bench!M /\ mail \subseteq Bench!M
      /\ actor.next = "stay" => room.phase # "playing"
  BY DEF Bench!BenchmarkInv, Bench!TypeOK, Bench!Ended, Bench!Answered,
     Bench!worker, Bench!disk, Bench!PhaseInv
<1>2. \A i \in DOMAIN queue : ~queue[i].owed
  BY <1>1, NoneOwed DEF Bench!BenchmarkInv
<1>3. /\ r \in Bench!Rooms /\ r.phase = room.phase /\ r.m = room.m /\ r.done = room.done
      /\ r.stop = room.stop /\ r.run = room.run
  BY <1>1 DEF Bench!Rooms
<1>4. \/ actor.next = "stay" /\ room' = r /\ Bench!Goes("stay")
      \/ actor.next = "post" /\ room' = [r EXCEPT !.phase = "post"] /\ Bench!Goes("stay")
      \/ actor.next = "cleanup" /\ room' = r /\ Bench!Await("cleanup", r.m, "none", "lobby")
      \/ actor.next = "shutdown" /\ room' = r /\ Bench!Await("cleanup", r.m, "none", "gone")
      \/ actor.next = "shutdown" /\ room' = [r EXCEPT !.phase = "gone"] /\ Bench!Goes("stay")
  BY DEF Bench!Ended
<1> HIDE DEF r
<1>5. ASSUME NEW phase \in {"post", "gone"}, room' = [r EXCEPT !.phase = phase], Bench!Goes("stay")
      PROVE  Bench!BenchmarkInv'
  <2>1. /\ room' \in Bench!Rooms /\ room'.phase = phase /\ room'.m = room.m /\ room'.done = room.done
        /\ room'.stop = room.stop /\ room'.run = room.run
    BY <1>3, <1>5 DEF Bench!Rooms
  <2> QED
    BY <1>1, <1>2, <1>5, <2>1, ReadyKeeps DEF Bench!Over
<1>6. ASSUME actor.next = "stay", room' = r, Bench!Goes("stay")
      PROVE  Bench!BenchmarkInv'
  BY <1>1, <1>2, <1>3, <1>6, ReadyKeeps DEF Bench!Over
<1>7. ASSUME NEW next \in {"lobby", "gone"}, room' = r, Bench!Await("cleanup", r.m, "none", next)
      PROVE  Bench!BenchmarkInv'
  <2>1. Bench!Effect("cleanup", r.m, "none") \in Bench!Effects
    BY <1>1, <1>3 DEF Bench!Effect, Bench!Effects, Bench!Rooms, Bench!Assumption
  <2>2. \A x \in Bench!Effects : Bench!Fits(x) /\ ~x.owed => Bench!Fits(x)'
    BY <1>1, <1>3, <1>7, FitsStays
  <2>3. actor' = [pc |-> "cleanup", next |-> next]
    BY <1>7 DEF Bench!Await
  <2>4. answer' = "none" =>
          \A x \in Bench!Effects : x = Bench!Effect("cleanup", r.m, "none") => Bench!Fits(x)'
    BY <1>7, <2>3 DEF Bench!Effect, Bench!Fits
  <2>5. /\ queue' \in Seq(Bench!Effects) /\ Len(queue') <= Queue /\ Bench!EffectInv'
        /\ answer' \in {"none", "failed"}
    BY <1>2, <1>7, <2>1, <2>2, <2>4, AwaitKeeps DEF Bench!BenchmarkInv, Bench!Assumption
  <2>6. Bench!TypeOK'
    <3>1. actor' \in [pc : {"ready", "create", "open", "flush", "final", "end", "cleanup"},
                       next : {"stay", "post", "cleanup", "lobby", "shutdown", "gone"}]
      BY <2>3
    <3> QED
      BY <1>1, <1>3, <1>7, <3>1, <2>5 DEF Bench!BenchmarkInv, Bench!TypeOK, Bench!M
  <2>7. Bench!PhaseInv' /\ Bench!MatchInv' /\ Bench!CountInv' /\ Bench!HeardInv' /\ Bench!EndInv'
    BY <1>1, <1>3, <1>7, <2>3, <2>5 DEF Bench!BenchmarkInv, Bench!PhaseInv, Bench!MatchInv,
       Bench!CountInv, Bench!HeardInv, Bench!EndInv, Bench!Running, Bench!Over, Bench!M
  <2> QED
    BY <2>5, <2>6, <2>7 DEF Bench!BenchmarkInv
<1> QED
  BY <1>4, <1>5, <1>6, <1>7

LEMMA CleanedUpKeeps ==
  ASSUME Bench!Assumption, Bench!BenchmarkInv, Bench!CleanedUp
  PROVE  Bench!BenchmarkInv'
<1>1. /\ actor.pc = "cleanup" /\ answer # "none" /\ process = TRUE /\ Bench!Goes("stay")
      /\ UNCHANGED <<process, stray, mail, run, matches, counted, files, heard>>
      /\ room.run \in Bench!Over /\ room.phase # "gone" /\ room \in Bench!Rooms
      /\ stray \subseteq Bench!M /\ mail \subseteq Bench!M
      /\ actor.next \in {"lobby", "gone"}
  BY DEF Bench!BenchmarkInv, Bench!TypeOK, Bench!CleanedUp, Bench!Answered,
     Bench!worker, Bench!disk, Bench!PhaseInv
<1>2. \A i \in DOMAIN queue : ~queue[i].owed
  BY <1>1, NoneOwed DEF Bench!BenchmarkInv
<1>3. /\ room' \in Bench!Rooms /\ room'.phase = actor.next /\ room'.m = room.m /\ room'.done = room.done
      /\ room'.stop = room.stop /\ room'.run = room.run
  BY <1>1 DEF Bench!Rooms, Bench!CleanedUp
<1> QED
  BY <1>1, <1>2, <1>3, ReadyKeeps DEF Bench!Over

\* What is true of a Run when the actor is ready.
LEMMA RunningFacts ==
  ASSUME Bench!Assumption, Bench!BenchmarkInv, Bench!Ready, room.run = "running"
  PROVE  /\ \A i \in DOMAIN queue : ~queue[i].owed
         /\ actor.pc = "ready" /\ answer = "none" /\ process = TRUE /\ room.phase # "gone"
         /\ room \in Bench!Rooms /\ room.done < Target /\ run.done = room.done
         /\ room.m \in 0 .. Target /\ 0 \in 0 .. Target
<1>1. actor.pc = "ready" /\ answer = "none" /\ process = TRUE /\ room.phase # "gone"
  BY DEF Bench!BenchmarkInv, Bench!TypeOK, Bench!Ready, Bench!PhaseInv
<1>2. \A i \in DOMAIN queue : ~queue[i].owed
  BY <1>1, NoneOwed DEF Bench!BenchmarkInv
<1> QED
  BY <1>1, <1>2 DEF Bench!BenchmarkInv, Bench!TypeOK, Bench!Rooms, Bench!MatchInv, Bench!CountInv,
     Bench!Running, Bench!Assumption

LEMMA StopKeeps ==
  ASSUME Bench!Assumption, Bench!BenchmarkInv, Bench!StopBenchmark
  PROVE  Bench!BenchmarkInv'
<1> DEFINE r == [room EXCEPT !.stop = TRUE]
<1>1. /\ UNCHANGED <<process, stray, mail, run, matches, counted, files>>
      /\ room.run = "running" /\ ~room.stop /\ Bench!Ready
  BY DEF Bench!StopBenchmark, Bench!Running, Bench!worker, Bench!disk
<1>2. /\ \A i \in DOMAIN queue : ~queue[i].owed
      /\ actor.pc = "ready" /\ answer = "none" /\ process = TRUE /\ room.phase # "gone"
      /\ room \in Bench!Rooms /\ room.done < Target /\ run.done = room.done
      /\ room.m \in 0 .. Target /\ 0 \in 0 .. Target
  BY <1>1, RunningFacts
<1>3. /\ r \in Bench!Rooms /\ r.phase = room.phase /\ r.m = room.m /\ r.done = room.done
      /\ r.stop = TRUE /\ r.run = "running"
  BY <1>1, <1>2 DEF Bench!Rooms
<1>4. \/ room.phase = "playing" /\ room' = r /\ heard' = room.done + 1 /\ UNCHANGED <<actor, answer, queue>>
      \/ room.phase # "playing" /\ Bench!Finish("stopped", 0, "stay", r) /\ heard' = room.done
  BY <1>3 DEF Bench!StopBenchmark
<1>5. room.done \in Nat /\ room.done + 1 \in 0 .. Target /\ room.done \in run.done .. Target
  BY <1>2 DEF Bench!Rooms, Bench!Assumption
<1> HIDE DEF r
<1>6. CASE /\ room.phase = "playing" /\ room' = r /\ heard' = room.done + 1
           /\ UNCHANGED <<actor, answer, queue>>
  <2>1. queue' \in Seq(Bench!Effects) /\ Len(queue') <= Queue /\ Bench!EffectInv'
    BY <1>1, <1>2, <1>3, <1>6, FitsStays, QueueStays DEF Bench!BenchmarkInv
  <2>2. Bench!TypeOK'
    BY <1>1, <1>3, <1>5, <1>6, <2>1 DEF Bench!BenchmarkInv, Bench!TypeOK, Bench!M
  <2>3. Bench!PhaseInv' /\ Bench!MatchInv' /\ Bench!CountInv' /\ Bench!HeardInv' /\ Bench!EndInv'
    BY <1>1, <1>2, <1>3, <1>5, <1>6 DEF Bench!BenchmarkInv, Bench!PhaseInv, Bench!MatchInv,
       Bench!CountInv, Bench!HeardInv, Bench!EndInv, Bench!Running, Bench!Over, Bench!M
  <2> QED
    BY <2>1, <2>2, <2>3 DEF Bench!BenchmarkInv
<1>7. CASE room.phase # "playing" /\ Bench!Finish("stopped", 0, "stay", r) /\ heard' = room.done
  <2>1. /\ queue' \in Seq(Bench!Effects) /\ Len(queue') <= Queue /\ Bench!EffectInv'
        /\ actor' = [pc |-> "end", next |-> "stay"] /\ answer' \in {"none", "failed"}
        /\ room' \in Bench!Rooms /\ room'.run = "stopped" /\ room'.phase = room.phase
        /\ room'.m = room.m /\ room'.done = room.done /\ room'.stop = TRUE
    BY <1>1, <1>2, <1>3, <1>7, FinishKeeps DEF Bench!BenchmarkInv
  <2>2. Bench!TypeOK'
    BY <1>1, <1>5, <1>7, <2>1 DEF Bench!BenchmarkInv, Bench!TypeOK, Bench!M
  <2>3. /\ UNCHANGED <<process, run, matches, counted>>
        /\ room'.run \in Bench!Over \ {"completed"} /\ heard' \in run.done .. Target
        /\ actor.pc # "final" /\ actor'.pc = "end" /\ actor'.next = "stay"
    BY <1>1, <1>2, <1>5, <1>7, <2>1 DEF Bench!Over
  <2>4. Bench!PhaseInv' /\ Bench!MatchInv' /\ Bench!CountInv' /\ Bench!HeardInv' /\ Bench!EndInv'
    BY <1>1, <1>2, <1>7, <2>1, <2>3, EndedKeeps
  <2> QED
    BY <2>1, <2>2, <2>4 DEF Bench!BenchmarkInv
<1> QED
  BY <1>4, <1>6, <1>7

LEMMA LoseKeeps ==
  ASSUME Bench!Assumption, Bench!BenchmarkInv, Bench!Ready, room.run = "running",
         NEW r \in Bench!Rooms, r.phase = room.phase, r.m = room.m, r.done = room.done, r.stop = room.stop,
         Bench!Abort(r),
         UNCHANGED <<process, run, matches, counted, files, heard>>, stray' \subseteq Bench!M,
         mail' \subseteq Bench!M
  PROVE  Bench!BenchmarkInv'
<1>1. /\ \A i \in DOMAIN queue : ~queue[i].owed
      /\ actor.pc = "ready" /\ answer = "none" /\ process = TRUE /\ room.phase # "gone"
      /\ room.done < Target
  BY RunningFacts
<1> DEFINE next == IF r.phase = "playing" THEN "cleanup" ELSE "stay"
<1>2. /\ queue' \in Seq(Bench!Effects) /\ Len(queue') <= Queue /\ Bench!EffectInv'
      /\ actor' = [pc |-> "end", next |-> next] /\ answer' \in {"none", "failed"}
      /\ room' \in Bench!Rooms /\ room'.run = "failed" /\ room'.phase = room.phase
      /\ room'.m = room.m /\ room'.done = room.done /\ room'.stop = room.stop
  BY <1>1, AbortKeeps DEF Bench!BenchmarkInv
<1>3. next \in {"cleanup", "stay"} /\ (next # "stay" \/ room.phase # "playing")
  OBVIOUS
<1> HIDE DEF next
<1>4. actor' \in [pc : {"ready", "create", "open", "flush", "final", "end", "cleanup"},
                   next : {"stay", "post", "cleanup", "lobby", "shutdown", "gone"}]
  BY <1>2, <1>3
<1>5. Bench!TypeOK'
  BY <1>2, <1>4 DEF Bench!BenchmarkInv, Bench!TypeOK, Bench!M
<1>6. /\ UNCHANGED <<process, run, matches, counted>>
      /\ room'.run \in Bench!Over \ {"completed"} /\ room'.run # "stopped"
      /\ actor.pc # "final" /\ actor'.pc = "end" /\ actor'.next \in {"stay", "cleanup", "shutdown"}
      /\ actor'.next # "stay" \/ room.phase # "playing"
  BY <1>1, <1>2, <1>3 DEF Bench!Over
<1>7. Bench!PhaseInv' /\ Bench!MatchInv' /\ Bench!CountInv' /\ Bench!HeardInv' /\ Bench!EndInv'
  BY <1>1, <1>2, <1>6, EndedKeeps
<1> QED
  BY <1>2, <1>5, <1>7 DEF Bench!BenchmarkInv

\* The actor is ready and awaits nothing; the Run stays what it is.
LEMMA RestsKeeps ==
  ASSUME Bench!BenchmarkInv, Bench!Ready,
         UNCHANGED <<process, actor, answer, queue, run, matches, counted, files, heard>>,
         room' \in Bench!Rooms, room'.run = room.run, room'.m = room.m, room'.done = room.done,
         room'.stop = room.stop, room'.phase \in {room.phase, "gone"},
         stray' \subseteq Bench!M, mail' \subseteq Bench!M
  PROVE  Bench!BenchmarkInv'
<1>1. actor.pc = "ready" /\ answer = "none" /\ process = TRUE /\ room.phase # "gone"
  BY DEF Bench!BenchmarkInv, Bench!TypeOK, Bench!Ready, Bench!PhaseInv
<1>2. \A i \in DOMAIN queue : ~queue[i].owed
  BY <1>1, NoneOwed DEF Bench!BenchmarkInv
<1>3. queue' \in Seq(Bench!Effects) /\ Len(queue') <= Queue /\ Bench!EffectInv'
  BY <1>1, <1>2, FitsStays, QueueStays DEF Bench!BenchmarkInv
<1>4. Bench!TypeOK'
  BY <1>3 DEF Bench!BenchmarkInv, Bench!TypeOK, Bench!M
<1>5. Bench!PhaseInv' /\ Bench!MatchInv' /\ Bench!CountInv' /\ Bench!HeardInv' /\ Bench!EndInv'
  BY <1>1 DEF Bench!BenchmarkInv, Bench!PhaseInv, Bench!MatchInv, Bench!CountInv,
     Bench!HeardInv, Bench!EndInv, Bench!Running, Bench!Over, Bench!M
<1> QED
  BY <1>3, <1>4, <1>5 DEF Bench!BenchmarkInv

LEMMA FailureKeeps ==
  ASSUME Bench!Assumption, Bench!BenchmarkInv, NEW m \in Bench!M, Bench!Failure(m)
  PROVE  Bench!BenchmarkInv'
<1> DEFINE r == [room EXCEPT !.kept = FALSE]
<1>1. /\ Bench!Ready /\ UNCHANGED <<process, run, matches, counted, files, heard>>
      /\ room \in Bench!Rooms /\ stray \subseteq Bench!M /\ mail' \subseteq Bench!M
  BY DEF Bench!BenchmarkInv, Bench!TypeOK, Bench!Failure, Bench!disk
<1>2. /\ r \in Bench!Rooms /\ r.phase = room.phase /\ r.m = room.m /\ r.done = room.done
      /\ r.stop = room.stop /\ r.run = room.run
  BY <1>1 DEF Bench!Rooms
<1>3. \/ stray' = stray \cup {m} /\ room.run = "running" /\ Bench!Abort(r)
      \/ stray' = stray \cup {m} /\ room' = r /\ UNCHANGED <<actor, answer, queue>>
      \/ UNCHANGED <<room, actor, answer, queue, stray>>
  BY DEF Bench!Failure, Bench!Running
<1> HIDE DEF r
<1>4. CASE stray' = stray \cup {m} /\ room.run = "running" /\ Bench!Abort(r)
  BY <1>1, <1>2, <1>4, LoseKeeps
<1>5. CASE stray' = stray \cup {m} /\ room' = r /\ UNCHANGED <<actor, answer, queue>>
  BY <1>1, <1>2, <1>5, RestsKeeps
<1>6. CASE UNCHANGED <<room, actor, answer, queue, stray>>
  BY <1>1, <1>6, RestsKeeps
<1> QED
  BY <1>3, <1>4, <1>5, <1>6

LEMMA ShutdownKeeps ==
  ASSUME Bench!Assumption, Bench!BenchmarkInv, Bench!Shutdown
  PROVE  Bench!BenchmarkInv'
<1>1. /\ Bench!Ready /\ UNCHANGED <<process, stray, mail, run, matches, counted, files, heard>>
      /\ room \in Bench!Rooms /\ stray \subseteq Bench!M /\ mail \subseteq Bench!M
  BY DEF Bench!BenchmarkInv, Bench!TypeOK, Bench!Shutdown, Bench!worker, Bench!disk
<1>2. CASE /\ room.run = "running"
           /\ Bench!Finish("failed", IF room.phase = "playing" THEN room.m ELSE 0, "shutdown", room)
  <2>1. /\ \A i \in DOMAIN queue : ~queue[i].owed
        /\ actor.pc = "ready" /\ answer = "none" /\ process = TRUE /\ room.phase # "gone"
        /\ room \in Bench!Rooms /\ room.done < Target /\ run.done = room.done
        /\ room.m \in 0 .. Target /\ 0 \in 0 .. Target
    BY <1>1, <1>2, RunningFacts
  <2>2. PICK m \in 0 .. Target : Bench!Finish("failed", m, "shutdown", room)
    BY <1>2, <2>1
  <2>3. /\ queue' \in Seq(Bench!Effects) /\ Len(queue') <= Queue /\ Bench!EffectInv'
        /\ actor' = [pc |-> "end", next |-> "shutdown"] /\ answer' \in {"none", "failed"}
        /\ room' \in Bench!Rooms /\ room'.run = "failed" /\ room'.phase = room.phase
        /\ room'.m = room.m /\ room'.done = room.done /\ room'.stop = room.stop
    BY <1>1, <1>2, <2>1, <2>2, FinishKeeps DEF Bench!BenchmarkInv
  <2>4. Bench!TypeOK'
    BY <1>1, <2>3 DEF Bench!BenchmarkInv, Bench!TypeOK, Bench!M
  <2>5. /\ UNCHANGED <<process, run, matches, counted>>
        /\ room'.run \in Bench!Over \ {"completed"} /\ room'.run # "stopped"
        /\ actor.pc # "final" /\ actor'.pc = "end" /\ actor'.next = "shutdown"
    BY <1>1, <2>1, <2>3 DEF Bench!Over
  <2>6. Bench!PhaseInv' /\ Bench!MatchInv' /\ Bench!CountInv' /\ Bench!HeardInv' /\ Bench!EndInv'
    BY <1>1, <1>2, <2>1, <2>3, <2>5, EndedKeeps
  <2> QED
    BY <2>3, <2>4, <2>6 DEF Bench!BenchmarkInv
<1>3. CASE room' = [room EXCEPT !.phase = "gone"] /\ UNCHANGED <<actor, answer, queue>>
  <2>1. /\ room' \in Bench!Rooms /\ room'.phase = "gone" /\ room'.m = room.m
        /\ room'.done = room.done /\ room'.stop = room.stop /\ room'.run = room.run
    BY <1>1, <1>3 DEF Bench!Rooms
  <2> QED
    BY <1>1, <1>3, <2>1, RestsKeeps
<1> QED
  BY <1>2, <1>3 DEF Bench!Shutdown, Bench!Running

LEMMA DeleteKeeps ==
  ASSUME Bench!BenchmarkInv, Bench!Delete
  PROVE  Bench!BenchmarkInv'
<1>1. /\ Bench!Ready /\ UNCHANGED <<process, actor, answer, queue, stray, mail, run, matches, counted, files, heard>>
      /\ room \in Bench!Rooms /\ stray \subseteq Bench!M /\ mail \subseteq Bench!M
  BY DEF Bench!BenchmarkInv, Bench!TypeOK, Bench!Delete, Bench!worker, Bench!disk
<1>2. /\ room' \in Bench!Rooms /\ room'.phase = "gone" /\ room'.m = room.m
      /\ room'.done = room.done /\ room'.stop = room.stop /\ room'.run = room.run
  BY <1>1 DEF Bench!Rooms, Bench!Delete
<1> QED
  BY <1>1, <1>2, RestsKeeps

LEMMA SendDeleteKeeps ==
  ASSUME Bench!Assumption, Bench!BenchmarkInv, NEW m \in Bench!M, Bench!SendDelete(m)
  PROVE  Bench!BenchmarkInv'
<1>1. /\ UNCHANGED <<process, room, actor, answer, mail, run, matches, counted, files, heard>>
      /\ stray' = stray \ {m} /\ Len(queue) < Queue
      /\ queue' = Append(queue, Bench!Unawaited("delete", m)) /\ room \in Bench!Rooms
  BY DEF Bench!BenchmarkInv, Bench!TypeOK, Bench!SendDelete, Bench!worker, Bench!disk
<1>2. Bench!Unawaited("delete", m) \in Bench!Effects
  BY <1>1 DEF Bench!Unawaited, Bench!Effects, Bench!Rooms, Bench!Assumption, Bench!M
<1>3. PICK e \in Bench!Effects : e = Bench!Unawaited("delete", m) /\ ~e.owed /\ e.op = "delete"
  BY <1>2 DEF Bench!Unawaited
<1>4. \A x \in Bench!Effects : Bench!Fits(x) => Bench!Fits(x)'
  BY <1>1 DEF Bench!Fits
<1>5. Bench!Fits(e)'
  BY <1>3 DEF Bench!Fits
<1>6. queue' \in Seq(Bench!Effects) /\ Len(queue') <= Queue /\ Bench!EffectInv'
  BY <1>1, <1>3, <1>4, <1>5, QueuePut DEF Bench!BenchmarkInv, Bench!Assumption
<1>7. Bench!TypeOK'
  BY <1>1, <1>6 DEF Bench!BenchmarkInv, Bench!TypeOK, Bench!M
<1>8. Bench!PhaseInv' /\ Bench!MatchInv' /\ Bench!CountInv' /\ Bench!HeardInv' /\ Bench!EndInv'
  BY <1>1 DEF Bench!BenchmarkInv, Bench!PhaseInv, Bench!MatchInv, Bench!CountInv,
     Bench!HeardInv, Bench!EndInv, Bench!Running, Bench!Over, Bench!M
<1> QED
  BY <1>6, <1>7, <1>8 DEF Bench!BenchmarkInv

LEMMA TimeOutKeeps ==
  ASSUME Bench!BenchmarkInv, Bench!TimeOut
  PROVE  Bench!BenchmarkInv'
<1>1. /\ UNCHANGED <<process, room, actor, stray, mail, run, matches, counted, files, heard>>
      /\ answer' = "failed" /\ actor.pc \in Bench!Timed /\ answer = "none"
      /\ queue' = [i \in DOMAIN queue |-> [queue[i] EXCEPT !.owed = FALSE]]
      /\ queue \in Seq(Bench!Effects) /\ Len(queue) <= Queue
  BY DEF Bench!BenchmarkInv, Bench!TypeOK, Bench!TimeOut, Bench!worker, Bench!disk
<1>2. \A i \in DOMAIN queue : queue[i] \in Bench!Effects /\ Bench!Fits(queue[i])
  BY <1>1 DEF Bench!BenchmarkInv, Bench!EffectInv
<1>3. \A e \in Bench!Effects : [e EXCEPT !.owed = FALSE] \in Bench!Effects
  BY DEF Bench!Effects
<1>4. /\ queue' \in Seq(Bench!Effects) /\ Len(queue') = Len(queue) /\ DOMAIN queue' = DOMAIN queue
      /\ \A i \in DOMAIN queue : queue'[i] = [queue[i] EXCEPT !.owed = FALSE]
  BY <1>1, <1>2, <1>3
<1>5. ASSUME NEW x \in Bench!Effects, NEW y \in Bench!Effects, Bench!Fits(x), y = [x EXCEPT !.owed = FALSE]
      PROVE  ~y.owed /\ Bench!Fits(y)'
  <2>1. /\ ~y.owed /\ y.op = x.op /\ y.m = x.m /\ y.n = x.n /\ y.status = x.status
    BY <1>5 DEF Bench!Effects
  <2>2. x.op \notin {"create", "final"}
    BY <1>1, <1>5 DEF Bench!Fits, Bench!Timed
  <2> QED
    BY <1>1, <1>5, <2>1, <2>2 DEF Bench!Fits
<1>6. ASSUME NEW i \in DOMAIN queue' PROVE Bench!Fits(queue[i])' /\ ~queue'[i].owed
  <2>1. PICK x \in Bench!Effects, y \in Bench!Effects : x = queue[i] /\ y = queue'[i]
    BY <1>2, <1>3, <1>4
  <2>2. Bench!Fits(x) /\ y = [x EXCEPT !.owed = FALSE]
    BY <1>2, <1>4, <2>1
  <2>3. Bench!Fits(y)' /\ ~y.owed
    BY <1>5, <2>2
  <2> QED
    BY <2>1, <2>3
<1>7. Bench!EffectInv'
  BY <1>6 DEF Bench!EffectInv
<1>8. Bench!TypeOK'
  BY <1>1, <1>4 DEF Bench!BenchmarkInv, Bench!TypeOK, Bench!M
<1>9. Bench!PhaseInv' /\ Bench!MatchInv' /\ Bench!CountInv' /\ Bench!HeardInv' /\ Bench!EndInv'
  BY <1>1 DEF Bench!BenchmarkInv, Bench!PhaseInv, Bench!MatchInv, Bench!CountInv,
     Bench!HeardInv, Bench!EndInv, Bench!Running, Bench!Over, Bench!M, Bench!Timed
<1> QED
  BY <1>7, <1>8, <1>9 DEF Bench!BenchmarkInv

\* The worker takes the first effect.
LEMMA QueueTaken ==
  ASSUME Bench!TypeOK, Bench!EffectInv, Queue \in Nat, queue # <<>>, queue' = Tail(queue),
         NEW e, e = Head(queue),
         \A x \in Bench!Effects : Bench!Fits(x) /\ (e.owed => ~x.owed) => Bench!Fits(x)'
  PROVE  queue' \in Seq(Bench!Effects) /\ Len(queue') <= Queue /\ Bench!EffectInv'
<1>1. /\ queue \in Seq(Bench!Effects) /\ Len(queue) \in Nat \ {0} /\ DOMAIN queue = 1 .. Len(queue)
      /\ \A i \in DOMAIN queue : queue[i] \in Bench!Effects
      /\ e = queue[1] /\ Len(queue) <= Queue
  BY DEF Bench!TypeOK
<1>2. /\ queue' \in Seq(Bench!Effects) /\ Len(queue') = Len(queue) - 1
      /\ DOMAIN queue' = 1 .. Len(queue) - 1
      /\ \A i \in DOMAIN queue' : queue'[i] = queue[i + 1]
  BY <1>1
<1>3. ASSUME NEW i \in DOMAIN queue' PROVE Bench!Fits(queue[i])'
  <2>1. i + 1 \in DOMAIN queue /\ i + 1 # 1 /\ 1 \in DOMAIN queue
    BY <1>1, <1>2
  <2>2. PICK x \in Bench!Effects : x = queue[i + 1]
    BY <1>1, <2>1
  <2>3. Bench!Fits(x) /\ (e.owed => ~x.owed)
    BY <1>1, <2>1, <2>2 DEF Bench!EffectInv
  <2>4. Bench!Fits(x)'
    BY <2>3
  <2>5. queue'[i] = x
    BY <1>2, <2>2
  <2> QED
    BY <2>4, <2>5
<1>4. \A i, j \in DOMAIN queue : queue[i].owed /\ queue[j].owed => i = j
  BY DEF Bench!EffectInv
<1>5. \A i, j \in DOMAIN queue' : queue'[i].owed /\ queue'[j].owed => i = j
  <2>1. \A i \in DOMAIN queue' : i + 1 \in DOMAIN queue /\ i \in Int
    BY <1>1, <1>2
  <2> QED
    BY <1>2, <1>4, <2>1
<1>6. \A i \in DOMAIN queue' : Bench!Fits(queue[i])'
  BY <1>3
<1> QED
  BY <1>1, <1>2, <1>6, <1>5 DEF Bench!EffectInv

\* What the first effect is about.
LEMMA HeadFacts ==
  ASSUME Bench!BenchmarkInv, queue # <<>>
  PROVE  Head(queue) \in Bench!Effects /\ Bench!Fits(Head(queue))
<1>1. queue \in Seq(Bench!Effects) /\ 1 \in DOMAIN queue /\ Head(queue) = queue[1]
  BY DEF Bench!BenchmarkInv, Bench!TypeOK
<1>2. Bench!Fits(queue[1]) /\ queue[1] \in Bench!Effects
  BY <1>1 DEF Bench!BenchmarkInv, Bench!EffectInv
<1>3. PICK e : e = queue[1]
  OBVIOUS
<1>4. Bench!Fits(e)
  BY <1>2, <1>3
<1> QED
  BY <1>1, <1>2, <1>3, <1>4

\* The worker carries out an effect, or fails to, that leaves the Run as it is.
LEMMA WorkOnMatchKeeps ==
  ASSUME Bench!Assumption, Bench!BenchmarkInv, queue # <<>>, queue' = Tail(queue),
         NEW e \in Bench!Effects, e = Head(queue), Bench!Fits(e), NEW result \in {"ok", "failed"},
         e.op = "final" => result = "failed",
         Bench!Answers(e, result) \/ (answer' = answer /\ ~e.owed),
         UNCHANGED <<process, room, actor, stray, heard, run, counted>>, mail' \subseteq Bench!M,
         matches' \in [Bench!M -> {"none", "writing", "failed", "completed"}],
         \A i \in 1 .. run.done : matches'[i] = "completed",
         files' \in [Bench!M -> {"none", "writing", "failed"}]
  PROVE  Bench!BenchmarkInv'
<1>1. /\ e.owed => actor.pc = e.op /\ answer = "none" /\ answer' = result
      /\ ~e.owed => answer' = answer
      /\ e.op # "ready" /\ e.owed \in BOOLEAN
  BY DEF Bench!Fits, Bench!Answers, Bench!Effects
<1>2. actor.pc = "open" => room.run \notin Bench!Over
  BY DEF Bench!BenchmarkInv, Bench!PhaseInv, Bench!Running, Bench!Over
<1>3. ASSUME NEW x \in Bench!Effects, Bench!Fits(x), e.owed => ~x.owed
      PROVE  Bench!Fits(x)'
  <2>1. CASE e.owed
    BY <1>1, <1>2, <1>3, <2>1 DEF Bench!Fits
  <2>2. CASE ~e.owed
    BY <1>1, <1>3, <2>2 DEF Bench!Fits
  <2> QED
    BY <2>1, <2>2
<1>4. queue' \in Seq(Bench!Effects) /\ Len(queue') <= Queue /\ Bench!EffectInv'
  BY <1>3, QueueTaken DEF Bench!BenchmarkInv, Bench!Assumption
<1>5. answer' \in {"none", "ok", "failed"}
  BY <1>1 DEF Bench!BenchmarkInv, Bench!TypeOK
<1>6. Bench!TypeOK'
  BY <1>4, <1>5 DEF Bench!BenchmarkInv, Bench!TypeOK, Bench!M
<1>7. Bench!PhaseInv' /\ Bench!MatchInv' /\ Bench!HeardInv' /\ Bench!EndInv'
  BY <1>1 DEF Bench!BenchmarkInv, Bench!PhaseInv, Bench!MatchInv,
     Bench!HeardInv, Bench!EndInv, Bench!Running
<1>8. Bench!CountInv'
  BY <1>1 DEF Bench!BenchmarkInv, Bench!CountInv, Bench!M
<1> QED
  BY <1>4, <1>6, <1>7, <1>8 DEF Bench!BenchmarkInv

\* Neither the deletion of a Match nor its failure touches one that was completed.
LEMMA EraseFacts ==
  ASSUME Bench!TypeOK, NEW m, Bench!Erase(m)
  PROVE  /\ matches' \in [Bench!M -> {"none", "writing", "failed", "completed"}]
         /\ \A i \in Bench!M : matches[i] = "completed" => matches'[i] = "completed"
<1>1. CASE matches' = matches
  BY <1>1 DEF Bench!TypeOK
<1>2. CASE matches' = [matches EXCEPT ![m] = IF @ = "completed" THEN @ ELSE "none"]
  <2>1. PICK x : x = IF matches[m] = "completed" THEN matches[m] ELSE "none"
    OBVIOUS
  <2>2. x \in {"none", "completed"} /\ (matches[m] = "completed" => x = "completed")
    BY <2>1
  <2>3. matches' = [matches EXCEPT ![m] = x]
    BY <1>2, <2>1
  <2> QED
    BY <2>2, <2>3 DEF Bench!TypeOK
<1> QED
  BY <1>1, <1>2 DEF Bench!Erase

LEMMA SpoilFacts ==
  ASSUME Bench!TypeOK, NEW m, Bench!Spoil(m)
  PROVE  /\ matches' \in [Bench!M -> {"none", "writing", "failed", "completed"}]
         /\ \A i \in Bench!M : matches[i] = "completed" => matches'[i] = "completed"
         /\ files' \in [Bench!M -> {"none", "writing", "failed"}]
<1>1. files' \in [Bench!M -> {"none", "writing", "failed"}]
  <2>1. PICK x : x = IF files[m] = "writing" THEN "failed" ELSE files[m]
    OBVIOUS
  <2>2. m \in Bench!M => x \in {"none", "writing", "failed"}
    BY <2>1 DEF Bench!TypeOK
  <2>3. files' = [files EXCEPT ![m] = x]
    BY <2>1 DEF Bench!Spoil
  <2> QED
    BY <2>2, <2>3 DEF Bench!TypeOK
<1>2. CASE matches' = matches
  BY <1>1, <1>2 DEF Bench!TypeOK
<1>3. CASE matches[m] = "writing" /\ matches' = [matches EXCEPT ![m] = "failed"]
  BY <1>1, <1>3 DEF Bench!TypeOK
<1> QED
  BY <1>2, <1>3 DEF Bench!Spoil

LEMMA CreateRunKeeps ==
  ASSUME Bench!Assumption, Bench!BenchmarkInv, queue # <<>>, queue' = Tail(queue),
         NEW e \in Bench!Effects, e = Head(queue), Bench!Fits(e), e.op = "create",
         Bench!CreateRun(e),
         UNCHANGED <<process, room, actor, stray, heard, mail, matches, counted, files>>
  PROVE  Bench!BenchmarkInv'
<1>1. CASE UNCHANGED run /\ Bench!Answers(e, "failed")
  BY <1>1, WorkOnMatchKeeps DEF Bench!BenchmarkInv, Bench!TypeOK, Bench!CountInv
<1>2. CASE run' = [status |-> "running", done |-> 0] /\ Bench!Answers(e, "ok")
  <2>1. /\ e.owed /\ actor.pc = "create" /\ answer = "none" /\ answer' = "ok"
        /\ room.phase = "lobby" /\ room.run = "none" /\ run.done = 0 /\ room.done = 0
    BY <1>2 DEF Bench!Fits, Bench!Answers, Bench!BenchmarkInv, Bench!PhaseInv, Bench!MatchInv
  <2>2. ASSUME NEW x \in Bench!Effects, Bench!Fits(x), e.owed => ~x.owed
        PROVE  Bench!Fits(x)'
    BY <1>2, <2>1, <2>2 DEF Bench!Fits
  <2>3. queue' \in Seq(Bench!Effects) /\ Len(queue') <= Queue /\ Bench!EffectInv'
    BY <2>2, QueueTaken DEF Bench!BenchmarkInv, Bench!Assumption
  <2>4. Bench!TypeOK'
    BY <1>2, <2>1, <2>3 DEF Bench!BenchmarkInv, Bench!TypeOK, Bench!M, Bench!Assumption
  <2>5. Bench!PhaseInv' /\ Bench!MatchInv' /\ Bench!CountInv' /\ Bench!HeardInv' /\ Bench!EndInv'
    BY <1>2, <2>1 DEF Bench!BenchmarkInv, Bench!PhaseInv, Bench!MatchInv, Bench!CountInv,
       Bench!HeardInv, Bench!EndInv, Bench!Running, Bench!Over, Bench!M
  <2> QED
    BY <2>3, <2>4, <2>5 DEF Bench!BenchmarkInv
<1> QED
  BY <1>1, <1>2 DEF Bench!CreateRun

LEMMA EndRunKeeps ==
  ASSUME Bench!Assumption, Bench!BenchmarkInv, queue # <<>>, queue' = Tail(queue),
         NEW e \in Bench!Effects, e = Head(queue), Bench!Fits(e), e.op = "end",
         Bench!EndRun(e),
         UNCHANGED <<process, room, actor, stray, heard, mail, matches, counted, files>>
  PROVE  Bench!BenchmarkInv'
<1>1. CASE UNCHANGED run /\ Bench!Answers(e, "failed")
  BY <1>1, WorkOnMatchKeeps DEF Bench!BenchmarkInv, Bench!TypeOK, Bench!CountInv
<1>2. CASE /\ run.status = "running" /\ run' = [run EXCEPT !.status = e.status]
           /\ Bench!Answers(e, "ok")
  <2>1. /\ e.status = room.run /\ room.run \in Bench!Over
        /\ e.owed => actor.pc = "end" /\ answer = "none" /\ answer' = "ok"
        /\ ~e.owed => answer' = answer
        /\ e.owed \in BOOLEAN
    BY <1>2 DEF Bench!Fits, Bench!Answers, Bench!Effects
  <2>2. run'.done = run.done /\ run'.status = e.status
        /\ run' \in [status : {"none", "running", "stopped", "completed", "failed", "interrupted"},
                     done : 0 .. Target]
    BY <1>2 DEF Bench!BenchmarkInv, Bench!TypeOK, Bench!Effects
  <2>3. ASSUME NEW x \in Bench!Effects, Bench!Fits(x), e.owed => ~x.owed
        PROVE  Bench!Fits(x)'
    <3>1. CASE e.owed
      BY <2>1, <2>2, <2>3, <3>1 DEF Bench!Fits
    <3>2. CASE ~e.owed
      BY <2>1, <2>2, <2>3, <3>2 DEF Bench!Fits
    <3> QED
      BY <3>1, <3>2
  <2>4. queue' \in Seq(Bench!Effects) /\ Len(queue') <= Queue /\ Bench!EffectInv'
    BY <2>3, QueueTaken DEF Bench!BenchmarkInv, Bench!Assumption
  <2>5. answer' \in {"none", "ok", "failed"}
    BY <2>1 DEF Bench!BenchmarkInv, Bench!TypeOK
  <2>6. Bench!TypeOK'
    BY <2>2, <2>4, <2>5 DEF Bench!BenchmarkInv, Bench!TypeOK, Bench!M
  <2>7. Bench!PhaseInv' /\ Bench!MatchInv' /\ Bench!HeardInv' /\ Bench!EndInv'
    BY <2>1, <2>2 DEF Bench!BenchmarkInv, Bench!PhaseInv, Bench!MatchInv,
       Bench!HeardInv, Bench!EndInv, Bench!Running, Bench!Over
  <2>8. Bench!CountInv'
    BY <2>1, <2>2 DEF Bench!BenchmarkInv, Bench!CountInv, Bench!M
  <2> QED
    BY <2>4, <2>6, <2>7, <2>8 DEF Bench!BenchmarkInv
<1> QED
  BY <1>1, <1>2 DEF Bench!EndRun

LEMMA FinalizeKeeps ==
  ASSUME Bench!Assumption, Bench!BenchmarkInv, queue # <<>>, queue' = Tail(queue),
         NEW e \in Bench!Effects, e = Head(queue), Bench!Fits(e), e.op = "final",
         Bench!Finalize(e),
         UNCHANGED <<process, room, actor, stray, heard, mail>>
  PROVE  Bench!BenchmarkInv'
<1>1. files' \in [Bench!M -> {"none", "writing", "failed"}]
  BY DEF Bench!Finalize, Bench!BenchmarkInv, Bench!TypeOK
<1>2. CASE Bench!Erase(e.m) /\ UNCHANGED <<run, counted>> /\ Bench!Answers(e, "failed")
  <2>1. /\ matches' \in [Bench!M -> {"none", "writing", "failed", "completed"}]
        /\ \A i \in Bench!M : matches[i] = "completed" => matches'[i] = "completed"
    BY <1>2, EraseFacts DEF Bench!BenchmarkInv
  <2>2. \A i \in 1 .. run.done : i \in Bench!M /\ matches[i] = "completed"
    BY DEF Bench!BenchmarkInv, Bench!TypeOK, Bench!CountInv, Bench!M, Bench!Assumption
  <2> QED
    BY <1>1, <1>2, <2>1, <2>2, WorkOnMatchKeeps DEF Bench!BenchmarkInv, Bench!TypeOK
<1>3. CASE /\ run.status = "running" /\ run.done = e.n - 1 /\ run.done < Target
           /\ run' = [run EXCEPT !.done = @ + 1]
           /\ matches' = [matches EXCEPT ![e.m] = "completed"]
           /\ counted' = [counted EXCEPT ![e.n] = e.m]
           /\ Bench!Answers(e, "ok")
  <2>1. /\ e.owed /\ actor.pc = "final" /\ answer = "none" /\ answer' = "ok"
        /\ room.phase = "playing" /\ room.run = "running" /\ e.m = room.m /\ e.n = room.done + 1
    BY <1>3 DEF Bench!Fits, Bench!Answers, Bench!BenchmarkInv, Bench!PhaseInv, Bench!Running
  <2>2. /\ room \in Bench!Rooms /\ room.m \in Bench!M /\ room.m = room.done + 1 /\ room.done < Target
        /\ run.done = room.done /\ run.done \in Nat
    BY <2>1 DEF Bench!BenchmarkInv, Bench!TypeOK, Bench!Rooms, Bench!MatchInv, Bench!CountInv,
       Bench!Running, Bench!M, Bench!Assumption
  <2>3. run'.done = run.done + 1 /\ run'.status = run.status
        /\ run' \in [status : {"none", "running", "stopped", "completed", "failed", "interrupted"},
                     done : 0 .. Target]
    BY SMTT(30), <1>3, <2>2 DEF Bench!BenchmarkInv, Bench!TypeOK, Bench!Assumption
  <2>4. ASSUME NEW x \in Bench!Effects, Bench!Fits(x), e.owed => ~x.owed
        PROVE  Bench!Fits(x)'
    BY <2>1, <2>4 DEF Bench!Fits, Bench!Over
  <2>5. queue' \in Seq(Bench!Effects) /\ Len(queue') <= Queue /\ Bench!EffectInv'
    BY <2>4, QueueTaken DEF Bench!BenchmarkInv, Bench!Assumption
  <2>6. /\ matches' \in [Bench!M -> {"none", "writing", "failed", "completed"}]
        /\ counted' \in [Bench!M -> 0 .. Target]
        /\ counted' = [counted EXCEPT ![run.done + 1] = run.done + 1]
        /\ matches' = [matches EXCEPT ![run.done + 1] = "completed"]
    BY <1>3, <2>1, <2>2 DEF Bench!BenchmarkInv, Bench!TypeOK, Bench!M, Bench!Rooms
  <2>7. Bench!TypeOK'
    BY <1>1, <2>1, <2>3, <2>5, <2>6 DEF Bench!BenchmarkInv, Bench!TypeOK, Bench!M
  <2>8. Bench!PhaseInv' /\ Bench!MatchInv'
    BY <2>1, <2>2 DEF Bench!BenchmarkInv, Bench!PhaseInv, Bench!MatchInv, Bench!Running, Bench!Over
  <2>9. Bench!CountInv'
    <3>1. run'.done = room.done + 1
      BY <2>2, <2>3
    <3>2. ASSUME NEW i \in Bench!M PROVE counted'[i] = IF i <= run'.done THEN i ELSE 0
      BY <2>2, <2>3, <2>6, <3>2 DEF Bench!BenchmarkInv, Bench!CountInv, Bench!TypeOK, Bench!M
    <3>3. ASSUME NEW i \in 1 .. run'.done PROVE matches'[i] = "completed"
      BY <2>2, <2>3, <2>6, <3>3 DEF Bench!BenchmarkInv, Bench!CountInv, Bench!TypeOK, Bench!M
    <3> QED
      BY <2>1, <3>1, <3>2, <3>3 DEF Bench!CountInv
  <2>10. Bench!HeardInv'
    <3>1. heard \in Nat /\ room.done \in Nat /\ room.done < heard
      BY <2>1, <2>2 DEF Bench!BenchmarkInv, Bench!TypeOK, Bench!HeardInv, Bench!Running, Bench!Rooms,
         Bench!Assumption
    <3>2. (~room.stop => heard = Target) /\ (room.stop /\ Bench!Running /\ room.phase # "gone" => room.done < heard)
      BY DEF Bench!BenchmarkInv, Bench!HeardInv
    <3>3. run'.done <= heard
      BY <2>2, <2>3, <3>1
    <3> QED
      BY <3>2, <3>3 DEF Bench!HeardInv, Bench!Running
  <2>11. Bench!EndInv'
    BY <1>3, <2>1, <2>3 DEF Bench!EndInv, Bench!Over
  <2> QED
    BY <2>5, <2>7, <2>8, <2>9, <2>10, <2>11 DEF Bench!BenchmarkInv
<1> QED
  BY <1>2, <1>3 DEF Bench!Finalize

LEMMA WorkKeeps ==
  ASSUME Bench!Assumption, Bench!BenchmarkInv, Bench!Work
  PROVE  Bench!BenchmarkInv'
<1>1. PICK e \in Bench!Effects : e = Head(queue) /\ Bench!Fits(e)
  BY HeadFacts DEF Bench!Work
<1>2. /\ queue # <<>> /\ queue' = Tail(queue) /\ UNCHANGED <<process, room, actor, stray, heard>>
      /\ mail \subseteq Bench!M /\ \A i \in 1 .. run.done : i \in Bench!M /\ matches[i] = "completed"
      /\ matches \in [Bench!M -> {"none", "writing", "failed", "completed"}]
      /\ files \in [Bench!M -> {"none", "writing", "failed"}] /\ e.m \in 0 .. Target
  BY DEF Bench!Work, Bench!BenchmarkInv, Bench!TypeOK, Bench!CountInv, Bench!M, Bench!Assumption,
     Bench!Effects
<1>3. CASE e.op = "create" /\ Bench!CreateRun(e) /\ UNCHANGED <<mail, matches, counted, files>>
  BY <1>1, <1>2, <1>3, CreateRunKeeps
<1>4. CASE e.op = "open" /\ Bench!OpenReplay(e) /\ UNCHANGED <<mail, run, counted>>
  <2>1. e.m > run.done /\ e.m \in Nat /\ run.done \in Nat
    BY <1>1, <1>2, <1>4 DEF Bench!Fits, Bench!BenchmarkInv, Bench!TypeOK, Bench!Assumption
  <2>2. CASE UNCHANGED <<files, matches>> /\ Bench!Answers(e, "failed")
    BY <1>1, <1>2, <1>4, <2>2, WorkOnMatchKeeps
  <2>3. CASE /\ files' = [files EXCEPT ![e.m] = "writing"]
             /\ matches' = [matches EXCEPT ![e.m] = "writing"] /\ Bench!Answers(e, "ok")
    <3>1. /\ matches' \in [Bench!M -> {"none", "writing", "failed", "completed"}]
          /\ files' \in [Bench!M -> {"none", "writing", "failed"}]
      BY <1>2, <2>3
    <3>2. \A i \in 1 .. run.done : matches'[i] = "completed"
      BY <1>2, <2>1, <2>3
    <3> QED
      BY <1>1, <1>2, <1>4, <2>3, <3>1, <3>2, WorkOnMatchKeeps
  <2> QED
    BY <1>4, <2>2, <2>3 DEF Bench!OpenReplay
<1>5. CASE e.op = "append" /\ Bench!AppendLines(e) /\ UNCHANGED <<run, counted>>
  <2>1. e.m \in Bench!M /\ answer' = answer /\ ~e.owed
    BY <1>1, <1>5 DEF Bench!Fits, Bench!AppendLines, Bench!BenchmarkInv, Bench!TypeOK, Bench!Effects
  <2>2. CASE UNCHANGED <<files, matches, mail>>
    BY <1>1, <1>2, <1>5, <2>1, <2>2, WorkOnMatchKeeps
  <2>3. CASE Bench!Spoil(e.m) /\ mail' = mail \cup {e.m}
    <3>1. /\ matches' \in [Bench!M -> {"none", "writing", "failed", "completed"}]
          /\ \A i \in Bench!M : matches[i] = "completed" => matches'[i] = "completed"
          /\ files' \in [Bench!M -> {"none", "writing", "failed"}]
      BY <2>3, SpoilFacts DEF Bench!BenchmarkInv
    <3>2. mail' \subseteq Bench!M
      BY <1>2, <2>1, <2>3
    <3> QED
      BY <1>1, <1>2, <1>5, <2>1, <2>3, <3>1, <3>2, WorkOnMatchKeeps
  <2> QED
    BY <1>5, <2>2, <2>3 DEF Bench!AppendLines
<1>6. CASE e.op = "flush" /\ Bench!FlushKyoku(e) /\ UNCHANGED <<mail, run, counted>>
  <2>1. CASE UNCHANGED <<files, matches>> /\ Bench!Answers(e, "ok")
    BY <1>1, <1>2, <1>6, <2>1, WorkOnMatchKeeps
  <2>2. CASE Bench!Spoil(e.m) /\ Bench!Answers(e, "failed")
    <3>1. /\ matches' \in [Bench!M -> {"none", "writing", "failed", "completed"}]
          /\ \A i \in Bench!M : matches[i] = "completed" => matches'[i] = "completed"
          /\ files' \in [Bench!M -> {"none", "writing", "failed"}]
      BY <2>2, SpoilFacts DEF Bench!BenchmarkInv
    <3> QED
      BY <1>1, <1>2, <1>6, <2>2, <3>1, WorkOnMatchKeeps
  <2> QED
    BY <1>6, <2>1, <2>2 DEF Bench!FlushKyoku
<1>7. CASE e.op = "final" /\ Bench!Finalize(e) /\ UNCHANGED mail
  BY <1>1, <1>2, <1>7, FinalizeKeeps
<1>8. CASE e.op = "end" /\ Bench!EndRun(e) /\ UNCHANGED <<mail, matches, counted, files>>
  BY <1>1, <1>2, <1>8, EndRunKeeps
<1>9. CASE e.op \in {"cleanup", "delete"} /\ Bench!Cleanup(e) /\ UNCHANGED <<mail, run, counted>>
  <2>1. PICK result \in {"ok", "failed"} : Bench!Answers(e, result)
    BY <1>9 DEF Bench!Cleanup
  <2>2. files' \in [Bench!M -> {"none", "writing", "failed"}]
    BY <1>2, <1>9 DEF Bench!Cleanup
  <2>3. /\ matches' \in [Bench!M -> {"none", "writing", "failed", "completed"}]
        /\ \A i \in Bench!M : matches[i] = "completed" => matches'[i] = "completed"
    BY <1>9, EraseFacts DEF Bench!Cleanup, Bench!BenchmarkInv
  <2> QED
    BY <1>1, <1>2, <1>9, <2>1, <2>2, <2>3, WorkOnMatchKeeps
<1> QED
  BY <1>1, <1>3, <1>4, <1>5, <1>6, <1>7, <1>8, <1>9 DEF Bench!Work

LEMMA CrashKeeps ==
  ASSUME Bench!Assumption, Bench!BenchmarkInv, Bench!Crash
  PROVE  Bench!BenchmarkInv'
<1>1. /\ process' = FALSE /\ UNCHANGED <<run, matches, counted, heard>>
      /\ actor' = [pc |-> "ready", next |-> "stay"] /\ answer' = "none"
      /\ queue' = <<>> /\ stray' = {} /\ mail' = {} /\ files' = [m \in Bench!M |-> "none"]
  BY DEF Bench!Crash, Bench!disk
<1>2. /\ room' \in Bench!Rooms /\ room'.phase = "gone" /\ room'.m = room.m
      /\ room'.done = room.done /\ room'.stop = room.stop /\ room'.run = room.run
  BY DEF Bench!Crash, Bench!BenchmarkInv, Bench!TypeOK, Bench!Rooms
<1>3. queue' \in Seq(Bench!Effects) /\ Len(queue') = 0 /\ DOMAIN queue' = {}
  BY <1>1
<1>4. Bench!TypeOK' /\ Bench!EffectInv'
  <2>1. Bench!EffectInv'
    BY <1>3 DEF Bench!EffectInv
  <2>2. 0 <= Queue /\ files' \in [Bench!M -> {"none", "writing", "failed"}]
    BY <1>1 DEF Bench!Assumption
  <2> QED
    BY <1>1, <1>2, <1>3, <2>1, <2>2 DEF Bench!BenchmarkInv, Bench!TypeOK, Bench!M
<1>5. Bench!PhaseInv' /\ Bench!MatchInv' /\ Bench!CountInv' /\ Bench!HeardInv' /\ Bench!EndInv'
  BY <1>1, <1>2 DEF Bench!BenchmarkInv, Bench!PhaseInv, Bench!MatchInv, Bench!CountInv,
     Bench!HeardInv, Bench!EndInv, Bench!Running, Bench!Over, Bench!M
<1> QED
  BY <1>4, <1>5 DEF Bench!BenchmarkInv

LEMMA RestartKeeps ==
  ASSUME Bench!Assumption, Bench!BenchmarkInv, Bench!Restart
  PROVE  Bench!BenchmarkInv'
<1>1. /\ process' = TRUE /\ room.phase = "gone" /\ actor.pc = "ready" /\ answer = "none"
      /\ UNCHANGED <<room, actor, answer, queue, stray, mail, counted, files, heard>>
      /\ \A i \in 1 .. run.done : i \in Bench!M
  BY DEF Bench!Restart, Bench!BenchmarkInv, Bench!TypeOK, Bench!PhaseInv, Bench!M, Bench!Assumption
<1>2. /\ run'.done = run.done
      /\ run' \in [status : {"none", "running", "stopped", "completed", "failed", "interrupted"},
                   done : 0 .. Target]
      /\ run'.status = IF run.status = "running" THEN "interrupted" ELSE run.status
  BY DEF Bench!Restart, Bench!BenchmarkInv, Bench!TypeOK
<1>3. /\ matches' \in [Bench!M -> {"none", "writing", "failed", "completed"}]
      /\ \A i \in Bench!M : matches[i] = "completed" => matches'[i] = "completed"
  BY DEF Bench!Restart, Bench!BenchmarkInv, Bench!TypeOK
<1>4. queue' \in Seq(Bench!Effects) /\ Len(queue') <= Queue /\ Bench!EffectInv'
  BY <1>1, <1>2, NoneOwed, FitsStays, QueueStays DEF Bench!BenchmarkInv
<1>5. Bench!TypeOK'
  BY <1>1, <1>2, <1>3, <1>4 DEF Bench!BenchmarkInv, Bench!TypeOK, Bench!M
<1>6. Bench!PhaseInv' /\ Bench!MatchInv' /\ Bench!HeardInv' /\ Bench!EndInv'
  BY <1>1, <1>2 DEF Bench!BenchmarkInv, Bench!PhaseInv, Bench!MatchInv,
     Bench!HeardInv, Bench!EndInv, Bench!Running, Bench!Over
<1>7. Bench!CountInv'
  BY <1>1, <1>2, <1>3 DEF Bench!BenchmarkInv, Bench!CountInv, Bench!M
<1> QED
  BY <1>4, <1>5, <1>6, <1>7 DEF Bench!BenchmarkInv

LEMMA RunBegins ==
  ASSUME Bench!Assumption, Bench!Init
  PROVE  Bench!BenchmarkInv
<1>1. queue \in Seq(Bench!Effects) /\ Len(queue) = 0 /\ DOMAIN queue = {}
  BY DEF Bench!Init
<1>2. Bench!TypeOK /\ Bench!EffectInv
  BY <1>1 DEF Bench!Init, Bench!TypeOK, Bench!EffectInv, Bench!Rooms, Bench!M, Bench!Assumption
<1>3. Bench!PhaseInv /\ Bench!MatchInv /\ Bench!CountInv /\ Bench!HeardInv /\ Bench!EndInv
  BY DEF Bench!Init, Bench!PhaseInv, Bench!MatchInv, Bench!CountInv, Bench!HeardInv, Bench!EndInv,
     Bench!Running, Bench!Over, Bench!M, Bench!Assumption
<1> QED
  BY <1>2, <1>3 DEF Bench!BenchmarkInv

\* Room and database agree on the Matches that count; those are there, once and in
\* order; what counts was begun before the Admin stopped the Run; and the row says
\* how the Run ended (room.rs complete_match, finish_benchmark, storage.rs
\* complete_match).
THEOREM RunsAreTruthful ==
  ASSUME Bench!Assumption
  PROVE  Bench!Spec => []Bench!IsTruthful
<1>1. Bench!Init => Bench!BenchmarkInv
  BY RunBegins
<1>2. Bench!BenchmarkInv /\ [Bench!Next]_(Bench!vars) => Bench!BenchmarkInv'
  <2> SUFFICES ASSUME Bench!BenchmarkInv, [Bench!Next]_(Bench!vars) PROVE Bench!BenchmarkInv'
    OBVIOUS
  <2>1. CASE Bench!TimeOut \/ Bench!StartBenchmark \/ Bench!Created \/ Bench!Opened \/ Bench!Play
    BY <2>1, TimeOutKeeps, StartKeeps, CreatedKeeps, OpenedKeeps, PlayKeeps
  <2>2. CASE Bench!Flushed \/ Bench!Finalized \/ Bench!Ended \/ Bench!CleanedUp \/ Bench!NextMatch
    BY <2>2, FlushedRunKeeps, FinalizedKeeps, RunEndedKeeps, CleanedUpKeeps, NextMatchKeeps
  <2>3. CASE Bench!StopBenchmark \/ Bench!Shutdown \/ Bench!Delete
    BY <2>3, StopKeeps, ShutdownKeeps, DeleteKeeps
  <2>4. CASE Bench!LoseParticipant
    <3>1. /\ Bench!Ready /\ room.run = "running" /\ Bench!Abort(room) /\ room \in Bench!Rooms
          /\ UNCHANGED <<process, run, matches, counted, files, heard>>
          /\ stray' \subseteq Bench!M /\ mail' \subseteq Bench!M
      BY <2>4 DEF Bench!LoseParticipant, Bench!Running, Bench!BenchmarkInv, Bench!TypeOK,
         Bench!worker, Bench!disk
    <3> QED
      BY <3>1, LoseKeeps
  <2>5. CASE \E m \in Bench!M : Bench!Failure(m) \/ Bench!SendDelete(m)
    BY <2>5, FailureKeeps, SendDeleteKeeps
  <2>6. CASE Bench!Work \/ Bench!Crash \/ Bench!Restart
    BY <2>6, WorkKeeps, CrashKeeps, RestartKeeps
  <2>7. CASE UNCHANGED Bench!vars
    BY <2>7 DEF Bench!vars, Bench!BenchmarkInv, Bench!TypeOK, Bench!EffectInv, Bench!Fits,
       Bench!PhaseInv, Bench!MatchInv, Bench!CountInv, Bench!HeardInv, Bench!EndInv, Bench!Running
  <2> QED
    BY <2>1, <2>2, <2>3, <2>4, <2>5, <2>6, <2>7 DEF Bench!Next
<1>3. Bench!BenchmarkInv => Bench!IsTruthful
  <2> SUFFICES ASSUME Bench!BenchmarkInv PROVE Bench!IsTruthful
    OBVIOUS
  <2>1. Bench!CountsAgree /\ Bench!StopIsHeard
    BY DEF Bench!BenchmarkInv, Bench!CountInv, Bench!HeardInv, Bench!CountsAgree, Bench!StopIsHeard
  <2>2. Bench!CountedMatchesAreKept
    BY DEF Bench!BenchmarkInv, Bench!TypeOK, Bench!CountInv, Bench!CountedMatchesAreKept, Bench!M,
       Bench!Assumption
  <2>3. Bench!EndIsTruthful
    BY DEF Bench!BenchmarkInv, Bench!PhaseInv, Bench!EndInv, Bench!EndIsTruthful, Bench!Over,
       Bench!Running
  <2> QED
    BY <2>1, <2>2, <2>3 DEF Bench!IsTruthful
<1> QED
  BY <1>1, <1>2, <1>3, PTL DEF Bench!Spec

-----------------------------------------------------------------------------
(* The results of a Kyoku *)

\* The events of a log.
Event ==
  [kind : {"start_game", "tsumo", "reach", "dahai", "end_kyoku", "end_game"}]
  \cup [kind : {"start_kyoku"}, scores : [Seats -> Int], kyotaku : Nat, oya : Seats]
  \cup [kind : {"reach_accepted"}, actor : Seats]
  \cup [kind : {"hora"}, actor : Seats, target : Seats, delta : [Seats -> Int]]
  \cup [kind : {"ryukyoku"}, delta : [Seats -> Int],
        reason : {"exhaustive_draw", "nagashimangan", "abortive", "kyushu_kyuhai"}]

\* A Kyoku begins after the end of the last one, the first with the second event.
Begin(k) == IF k = 1 THEN 2 ELSE records[k - 1].end + 1

\* What the reader counts in some events.
DepositsIn(evs, start, to) == {i \in start + 1..to : evs[i].kind = "reach_accepted"}
DepositsOfIn(evs, s, start, to) == {i \in DepositsIn(evs, start, to) : evs[i].actor = s}
ReachedIn(evs, start, to) ==
  [pot |-> evs[start].kyotaku + Cardinality(DepositsIn(evs, start, to)),
   scores |-> [s \in Seats |->
                 evs[start].scores[s] - Stick * Cardinality(DepositsOfIn(evs, s, start, to))]]
PaidIn(evs, scores, first, last) ==
  LET one == Plus(scores, evs[first].delta) IN
  IF first = last THEN one ELSE Plus(one, evs[last].delta)

\* A Kyoku that is played: a deposit that the Match goes on with is followed by a draw.
Begun(evs, start) == start \in DOMAIN evs /\ evs[start].kind = "start_kyoku"
Played(evs, start, to) ==
  \A i \in start + 1..to :
    /\ evs[i].kind \in {"reach", "dahai", "tsumo", "reach_accepted"}
    /\ evs[i].kind = "reach_accepted" => i < to

\* The Kyoku that is played: what the engine has is what its events say.
KyokuInv ==
  LET start == Begin(engine.kyoku) IN
  ~engine.done =>
    /\ Begun(events, start) /\ events[start].oya = engine.dealer
    /\ Played(events, start, Len(events))
    /\ ReachedIn(events, start, Len(events)) = [pot |-> engine.pot, scores |-> engine.scores]

\* The events of an ended Kyoku: the last batch follows event `from`, and the first
\* terminal event is `first`.
Batch(evs, start, r, last, from, first) ==
  LET wins == Len(r.wins) IN
  /\ from \in start..first - 1 /\ first \in Nat /\ wins \in 0..2
  /\ r.end = first + (IF wins = 0 THEN 1 ELSE wins) /\ r.end < Len(evs)
  /\ Played(evs, start, from)
  /\ \A i \in from + 1..first - 1 :
       /\ evs[i].kind \in {"reach", "dahai", "reach_accepted"}
       /\ evs[i].kind = "reach_accepted" => i = first - 1
  /\ \A i \in first..r.end - 1 : evs[i].kind = IF wins = 0 THEN "ryukyoku" ELSE "hora"
  /\ evs[r.end].kind = "end_kyoku"
  /\ IF last THEN Len(evs) = r.end + 1 /\ evs[r.end + 1].kind = "end_game"
     ELSE evs[r.end + 1].kind = "start_kyoku"

\* The points a record says the Kyoku began and ended with.
Before(r) == [s \in Seats |-> r.changes[s].before]
After(r) == [s \in Seats |-> r.changes[s].after]

\* The winners of a Kyoku and what they were paid.
WinsFit(evs, start, r, first) ==
  LET reached == ReachedIn(evs, start, first - 1) IN
  r.wins # <<>> =>
    /\ \A i \in DOMAIN r.wins :
         LET ev == evs[first + i - 1] w == r.wins[i] IN
         /\ w.index = first + i - 1 /\ w.seat = ev.actor /\ w.target = ev.target
         /\ w.points = WinPoints(w.seat = evs[start].oya, w.tsumo)
    /\ PaidIn(evs, reached.scores, first, r.end - 1) = After(r) /\ r.potAfter = 0

\* A draw: the pot stays, or goes to the best when the Match ends.
DrawFits(evs, start, r, last, first) ==
  LET pot == ReachedIn(evs, start, first - 1).pot
      award == last /\ pot > 0
      top == Top(After(r))
      unawarded == IF award THEN [After(r) EXCEPT ![top] = @ - pot * Stick] ELSE After(r)
  IN
  r.wins = <<>> =>
    /\ r.reason = evs[first].reason /\ Len(r.adjustment) = 1
    /\ award => Top(unawarded) = top
    /\ r.potAfter = IF award THEN 0 ELSE pot
    /\ Plus(Less(unawarded, Before(r)), r.adjustment[1]) = evs[first].delta

\* The records of results.
Result ==
  [seq : Nat, end : Nat, potBefore : Nat, potAfter : Nat, adjustment : Seq([Seats -> Int]),
   reason : {"", "exhaustive_draw", "nagashimangan", "abortive", "kyushu_kyuhai"},
   changes : [Seats -> [before : Int, after : Int, delta : Int]],
   wins : Seq([index : Int, seat : Seats, target : Seats, tsumo : BOOLEAN, points : Nat,
               agreed : BOOLEAN])]

\* The Kyoku begin in order, and nothing else begins one.
StartsInv ==
  /\ Starts = {Begin(k) : k \in 1..engine.kyoku}
  /\ \A i, j \in 1..engine.kyoku : i < j => Begin(i) < Begin(j)

\* The record of the k-th Kyoku, that began with event `start`; with the last Kyoku
\* the engine has `money`.
FiledIn(evs, start, r, k, last, money) ==
  /\ Begun(evs, start) /\ RecordValid(r) /\ r.seq = k
  /\ \E from \in DOMAIN evs, first \in DOMAIN evs :
       /\ Batch(evs, start, r, last, from, first)
       /\ ReachedIn(evs, start, from) = [pot |-> r.potBefore, scores |-> Before(r)]
       /\ WinsFit(evs, start, r, first) /\ DrawFits(evs, start, r, last, first)
  /\ Total(After(r)) + r.potAfter * Stick = N * Points0
  /\ [pot |-> r.potAfter, scores |-> After(r)] =
       IF last THEN money
       ELSE [pot |-> evs[r.end + 1].kyotaku, scores |-> evs[r.end + 1].scores]

\* What a record is compared with when no Kyoku follows it, and the filed record k.
Money(e) == [pot |-> e.pot, scores |-> e.scores]
Filed(k) == FiledIn(events, Begin(k), records[k], k, k = engine.kyoku, Money(engine))

\* The engines, also those in the middle of a batch.
Engine ==
  [scores : [Seats -> Int], pot : Nat, dealer : Seats, honba : Nat, kyoku : 1..Kyokus,
   turn : Seats, left : Nat, pending : 0..N, reached : SUBSET Seats, owed : [Seats -> Int],
   phase : {"act", "respond", "over"}, done : BOOLEAN, log : Seq(Event),
   won : Seq([seat : Seats, honba : Nat, base : Nat])]

\* An engine whose Kyoku is played, between two batches.
Running(e) ==
  /\ e \in Engine /\ e.log = <<>> /\ e.won = <<>> /\ ~e.done /\ e.phase # "over"

\* Between two batches the log is empty and no point is lost.
EngineInv ==
  /\ engine \in Engine /\ engine.log = <<>>
  /\ ~engine.done => Running(engine)
  /\ Total(engine.scores) + engine.pot * Stick = N * Points0

\* The invariant: the Kyoku that is played and every filed record agree with the events.
ResultsInv ==
  /\ EngineInv /\ status = "ok" /\ events \in Seq(Event) /\ records \in Seq(Result)
  /\ Len(records) = IF engine.done THEN engine.kyoku ELSE engine.kyoku - 1
  /\ StartsInv /\ KyokuInv /\ \A k \in DOMAIN records : Filed(k)

\* A Match has three or four seats.
LEMMA SeatsAre ==
  ASSUME Assumption
  PROVE  /\ Seats = {1, 2, 3} \/ Seats = {1, 2, 3, 4}
         /\ N = 3 => Seats = {1, 2, 3}
         /\ N = 4 => Seats = {1, 2, 3, 4}
         /\ N \in Nat
BY DEF Assumption, Seats

\* The best of some scores comes before every other Seat.
Leads(scores, s) ==
  \A o \in Seats : scores[s] > scores[o] \/ (scores[s] = scores[o] /\ s <= o)

\* The seat that takes what is left in the pot leads.
LEMMA TopLeads ==
  ASSUME Assumption, NEW scores \in [Seats -> Int]
  PROVE  Top(scores) \in Seats /\ Leads(scores, Top(scores))
<1>1. \E s \in Seats : Leads(scores, s)
  BY SeatsAre, SMTT(30) DEF Leads
<1> QED
  BY <1>1 DEF Top, Leads

\* Only one seat leads: equal points go by the seat.
LEMMA LeaderIsTop ==
  ASSUME Assumption, NEW scores \in [Seats -> Int], NEW s \in Seats, Leads(scores, s)
  PROVE  s = Top(scores)
<1>1. Top(scores) \in Seats /\ Leads(scores, Top(scores))
  BY TopLeads
<1>2. s \in Int /\ Top(scores) \in Int
  BY <1>1, SeatsAre
<1> QED
  BY <1>1, <1>2 DEF Leads

-----------------------------------------------------------------------------
(* Places *)

\* A set of places that is listed in its order.
LEMMA ListedPlaces ==
  ASSUME NEW n \in Nat, NEW f \in [1..n -> Int],
         \A i, j \in 1..n : i < j => f[i] < f[j],
         NEW S, S = {f[i] : i \in 1..n}
  PROVE  Cardinality(S) = n /\ \A k \in 1..n : Nth(S, k) = f[k]
<1> DEFINE Upto(k) == {j \in S : j <= f[k]}
<1>1. ASSUME NEW k \in 0..n, NEW T, T = {f[i] : i \in 1..k}
      PROVE  IsFiniteSet(T) /\ Cardinality(T) = k
  <2> DEFINE g == [i \in 1..k |-> f[i]]
  <2>1. g \in Bijection(1..k, T)
    <3>1. g \in [1..k -> T] /\ \A t \in T : \E i \in 1..k : g[i] = t
      BY <1>1
    <3>2. \A i, j \in 1..k : g[i] = g[j] => i = j
      <4> SUFFICES ASSUME NEW i \in 1..k, NEW j \in 1..k, f[i] = f[j], i # j PROVE FALSE
        OBVIOUS
      <4> QED
        BY i < j \/ j < i
    <3>3. DOMAIN g = 1..k
      OBVIOUS
    <3> HIDE DEF g
    <3> QED
      BY <3>1, <3>2, <3>3 DEF Bijection, Injection, Surjection, IsInjective
  <2>2. IsFiniteSet(1..k) /\ Cardinality(1..k) = k
    BY FS_Interval
  <2> QED
    BY <2>1, <2>2, FS_Bijection DEF ExistsBijection
<1>2. Cardinality(S) = n
  <2>1. n \in 0..n
    OBVIOUS
  <2> QED
    BY <1>1, <2>1
<1>3. ASSUME NEW k \in 1..n PROVE Cardinality(Upto(k)) = k
  <2>1. Upto(k) = {f[i] : i \in 1..k}
    <3>1. ASSUME NEW i \in 1..n PROVE f[i] <= f[k] <=> i <= k
      <4>1. f[i] \in Int /\ f[k] \in Int /\ (i < k \/ k < i \/ i = k)
        OBVIOUS
      <4>2. (i < k => f[i] < f[k]) /\ (k < i => f[k] < f[i])
        OBVIOUS
      <4> QED
        BY <4>1, <4>2
    <3> QED
      BY <3>1
  <2> QED
    BY <1>1, <2>1
<1>4. ASSUME NEW k \in 1..n PROVE Nth(S, k) = f[k]
  <2>1. f[k] \in S /\ Cardinality({j \in S : j <= f[k]}) = k
    BY <1>3
  <2>2. ASSUME NEW i \in S, Cardinality({j \in S : j <= i}) = k PROVE i = f[k]
    BY <1>3, <2>2
  <2> QED
    BY <2>1, <2>2 DEF Nth
<1> QED
  BY <1>2, <1>4

\* The only place of a set of one.
LEMMA OnePlace ==
  ASSUME NEW t \in Int
  PROVE  Cardinality({t}) = 1 /\ Nth({t}, 1) = t
<1> DEFINE f == [i \in 1..1 |-> t]
<1>1. {t} = {f[i] : i \in 1..1} /\ f \in [1..1 -> Int] /\ f[1] = t
  OBVIOUS
<1>2. \A i, j \in 1..1 : i < j => f[i] < f[j]
  OBVIOUS
<1> HIDE DEF f
<1>3. Cardinality({t}) = 1 /\ \A k \in 1..1 : Nth({t}, k) = f[k]
  BY <1>1, <1>2, 1 \in Nat, ListedPlaces, ZenonT(60)
<1> QED
  BY <1>1, <1>3

\* The places of two events in a row.
LEMMA TwoPlaces ==
  ASSUME NEW t \in Int
  PROVE  LET S == {t, t + 1} IN
         Cardinality(S) = 2 /\ Nth(S, 1) = t /\ Nth(S, 2) = t + 1
<1> DEFINE S == {t, t + 1}
           f == [i \in 1..2 |-> t + i - 1]
<1>1. S = {f[i] : i \in 1..2}
  OBVIOUS
<1>2. f \in [1..2 -> Int] /\ f[1] = t /\ f[2] = t + 1
  OBVIOUS
<1>3. \A i, j \in 1..2 : i < j => f[i] < f[j]
  OBVIOUS
<1> HIDE DEF f, S
<1>4. Cardinality(S) = 2 /\ \A k \in 1..2 : Nth(S, k) = f[k]
  <2>1. PICK n \in Nat : n = 2
    OBVIOUS
  <2>2. S = {f[i] : i \in 1..n} /\ f \in [1..n -> Int] /\ \A i, j \in 1..n : i < j => f[i] < f[j]
    BY <1>1, <1>2, <1>3, <2>1
  <2>3. Cardinality(S) = n /\ \A k \in 1..n : Nth(S, k) = f[k]
    BY <2>2, ListedPlaces
  <2> QED
    BY <2>1, <2>3
<1>5. Cardinality(S) = 2 /\ Nth(S, 1) = t /\ Nth(S, 2) = t + 1
  BY <1>2, <1>4
<1> QED
  BY <1>5 DEF S

-----------------------------------------------------------------------------
(* The engine *)

\* The points of two sides add up.
LEMMA TotalOf ==
  ASSUME Assumption, NEW f \in [Seats -> Int], NEW g \in [Seats -> Int]
  PROVE  /\ Total(f) \in Int
         /\ Plus(f, g) \in [Seats -> Int] /\ Less(f, g) \in [Seats -> Int]
         /\ Total(Plus(f, g)) = Total(f) + Total(g)
         /\ Total(Less(f, g)) = Total(f) - Total(g)
BY SeatsAre, SMTT(30) DEF Total, Plus, Less, Assumption

\* One Seat pays or is paid.
LEMMA TotalOfOne ==
  ASSUME Assumption, NEW f \in [Seats -> Int], NEW s \in Seats, NEW x \in Int
  PROVE  /\ [f EXCEPT ![s] = @ + x] \in [Seats -> Int]
         /\ Total([f EXCEPT ![s] = @ + x]) = Total(f) + x
BY SeatsAre, SMTT(30) DEF Total, Assumption

\* The fields of an engine.
LEMMA EngineFields ==
  ASSUME NEW x \in Engine
  PROVE  /\ x.scores \in [Seats -> Int] /\ x.pot \in Nat /\ x.dealer \in Seats
         /\ x.honba \in Nat /\ x.kyoku \in 1..Kyokus /\ x.turn \in Seats /\ x.left \in Nat
         /\ x.pending \in 0..N /\ x.reached \in SUBSET Seats /\ x.owed \in [Seats -> Int]
         /\ x.phase \in {"act", "respond", "over"} /\ x.done \in BOOLEAN
         /\ x.log \in Seq(Event) /\ x.won \in Seq([seat : Seats, honba : Nat, base : Nat])
BY DEF Engine

\* What is the same in two states of the engine: the log, the money, the Kyoku.
SameLog(x, y) == y.log = x.log
\* What a part of a step leaves alone.
SameMoney(x, y) == y.pot = x.pot /\ y.scores = x.scores
SameKyoku(x, y) == y.kyoku = x.kyoku /\ y.done = x.done /\ y.won = x.won
SameDealer(x, y) == y.dealer = x.dealer /\ y.honba = x.honba
SameTurn(x, y) == y.turn = x.turn /\ y.phase = x.phase /\ y.left = x.left

\* Logging an event changes nothing else.
LEMMA LoggedIs ==
  ASSUME NEW x \in Engine, NEW ev \in Event
  PROVE  LET y == Logged(x, ev) IN
         /\ y \in Engine
         /\ Len(y.log) = Len(x.log) + 1
         /\ y.log[Len(x.log) + 1] = ev
         /\ \A i \in 1..Len(x.log) : y.log[i] = x.log[i]
         /\ SameMoney(x, y) /\ SameKyoku(x, y) /\ SameDealer(x, y) /\ SameTurn(x, y)
         /\ y.pending = x.pending /\ y.owed = x.owed
<1>1. x.log \in Seq(Event)
  BY EngineFields
<1>2. /\ Append(x.log, ev) \in Seq(Event)
      /\ Len(Append(x.log, ev)) = Len(x.log) + 1
      /\ Append(x.log, ev)[Len(x.log) + 1] = ev
      /\ \A i \in 1..Len(x.log) : Append(x.log, ev)[i] = x.log[i]
  BY <1>1
<1>3. Logged(x, ev) = [x EXCEPT !.log = Append(x.log, ev)]
  BY DEF Logged
<1>4. ASSUME NEW new \in Seq(Event), NEW y, y = [x EXCEPT !.log = new]
      PROVE  /\ y \in Engine /\ y.log = new
             /\ SameMoney(x, y) /\ SameKyoku(x, y) /\ SameDealer(x, y) /\ SameTurn(x, y)
             /\ y.pending = x.pending /\ y.owed = x.owed
  BY <1>4 DEF Engine, SameMoney, SameKyoku, SameDealer, SameTurn
<1> HIDE DEF Engine
<1> QED
  BY <1>2, <1>3, <1>4, ZenonT(60)

\* The next turn.
LEMMA TurnMoves ==
  ASSUME NEW x \in Engine, NEW turn \in Seats, NEW left \in Nat,
         NEW y, y = [x EXCEPT !.turn = turn, !.left = left, !.phase = "act"]
  PROVE  /\ y \in Engine /\ y.phase = "act" /\ y.turn = turn
         /\ SameLog(x, y) /\ SameMoney(x, y) /\ SameKyoku(x, y) /\ SameDealer(x, y)
BY DEF Engine, SameLog, SameMoney, SameKyoku, SameDealer

\* The others are asked, or have answered.
LEMMA PhaseMoves ==
  ASSUME NEW x \in Engine, NEW phase \in {"act", "respond"}
  PROVE  LET y == [x EXCEPT !.phase = phase] IN
         /\ y \in Engine /\ y.phase = phase /\ y.turn = x.turn
         /\ SameLog(x, y) /\ SameMoney(x, y) /\ SameKyoku(x, y) /\ SameDealer(x, y)
BY DEF Engine, SameLog, SameMoney, SameKyoku, SameDealer

\* A riichi waits for its deposit, or no longer.
LEMMA PendingMoves ==
  ASSUME NEW x \in Engine, NEW owes \in 0..N
  PROVE  LET y == [x EXCEPT !.pending = owes] IN
         /\ y \in Engine /\ y.pending = owes
         /\ SameLog(x, y) /\ SameMoney(x, y) /\ SameKyoku(x, y) /\ SameDealer(x, y)
         /\ SameTurn(x, y)
BY DEF Engine, SameLog, SameMoney, SameKyoku, SameDealer, SameTurn

\* The points are paid.
LEMMA ScoresMove ==
  ASSUME NEW x \in Engine, NEW scores \in [Seats -> Int]
  PROVE  LET y == [x EXCEPT !.scores = scores] IN
         /\ y \in Engine /\ y.scores = scores /\ y.pot = x.pot
         /\ SameLog(x, y) /\ SameKyoku(x, y) /\ SameDealer(x, y) /\ SameTurn(x, y)
BY DEF Engine, SameLog, SameKyoku, SameDealer, SameTurn

\* A deposit is put in the pot.
LEMMA DepositMoves ==
  ASSUME NEW x \in Engine, NEW owes \in 0..N, NEW reached \in SUBSET Seats,
         NEW pot \in Nat, NEW scores \in [Seats -> Int], NEW owed \in [Seats -> Int]
  PROVE  LET y == [x EXCEPT !.pending = owes, !.reached = reached, !.pot = pot,
                            !.scores = scores, !.owed = owed] IN
         /\ y \in Engine /\ y.pot = pot /\ y.scores = scores
         /\ SameLog(x, y) /\ SameKyoku(x, y) /\ SameDealer(x, y) /\ SameTurn(x, y)
BY DEF Engine, SameLog, SameKyoku, SameDealer, SameTurn

\* A winner takes the pot.
LEMMA WinMoves ==
  ASSUME NEW x \in Engine, NEW pot \in Nat, NEW scores \in [Seats -> Int],
         NEW won \in Seq([seat : Seats, honba : Nat, base : Nat])
  PROVE  LET y == [x EXCEPT !.scores = scores, !.pot = pot, !.won = won] IN
         /\ y \in Engine /\ y.pot = pot /\ y.scores = scores /\ y.won = won
         /\ y.kyoku = x.kyoku /\ y.done = x.done
         /\ SameLog(x, y) /\ SameDealer(x, y) /\ SameTurn(x, y)
BY DEF Engine, SameLog, SameDealer, SameTurn

\* The Kyoku is over.
LEMMA OverMoves ==
  ASSUME NEW x \in Engine, NEW dealer \in Seats, NEW honba \in Nat
  PROVE  LET y == Over(x, dealer, honba) IN
         /\ y \in Engine /\ y.phase = "over"
         /\ SameLog(x, y) /\ SameMoney(x, y) /\ SameKyoku(x, y)
BY DEF Engine, Over, SameLog, SameMoney, SameKyoku

\* What a batch leaves alone until the Kyoku ends.
Same(e, x) ==
  /\ e.scores \in [Seats -> Int] /\ e.pot \in Nat
  /\ x \in Engine /\ x.kyoku = e.kyoku /\ x.turn = e.turn /\ ~x.done
  /\ x.dealer = e.dealer /\ x.honba = e.honba

\* A batch starts with n events of play, and s, unless it is 0, puts down a deposit.
Few(s) == IF s = 0 THEN 0 ELSE 1
\* The points after the deposit of seat s, if there is one.
Put(e, s) == IF s = 0 THEN e.scores ELSE [e.scores EXCEPT ![s] = @ - Stick]
Deposit(e, x, n, s) ==
  /\ n \in Nat /\ s \in 0..N /\ Len(x.log) >= n + Few(s)
  /\ \A i \in 1..n : x.log[i].kind \in {"reach", "dahai"}
  /\ s # 0 => x.log[n + 1].kind = "reach_accepted" /\ x.log[n + 1].actor = s
  /\ x.pot = e.pot + Few(s)

\* The batch before anything ends.
Opened(e, x, n, s) ==
  /\ Same(e, x) /\ Deposit(e, x, n, s) /\ x.won = <<>>
  /\ x.scores = Put(e, s) /\ Len(x.log) = n + Few(s)

\* A batch that has not begun has no event and no deposit.
LEMMA OpenedAtFirst ==
  ASSUME Assumption, NEW e, Running(e)
  PROVE  Opened(e, e, 0, 0)
BY SeatsAre DEF Running, Opened, Same, Deposit, Few, Put, Engine

\* Play goes on.
LEMMA OpenedByPlay ==
  ASSUME NEW e, NEW x, NEW n, Opened(e, x, n, 0), NEW sort \in {"reach", "dahai"}
  PROVE  Opened(e, Logged(x, Is(sort)), n + 1, 0) /\ Logged(x, Is(sort)).pending = x.pending
<1> DEFINE y == Logged(x, Is(sort))
<1>1. Is(sort) \in Event /\ Is(sort).kind = sort
  BY DEF Is, Event
<1>2. x \in Engine /\ Len(x.log) = n /\ n \in Nat
  BY DEF Opened, Same, Deposit, Few
<1>3. /\ y \in Engine /\ Len(y.log) = Len(x.log) + 1 /\ y.log[Len(x.log) + 1] = Is(sort)
      /\ \A i \in 1..Len(x.log) : y.log[i] = x.log[i]
      /\ SameMoney(x, y) /\ SameKyoku(x, y) /\ SameDealer(x, y) /\ SameTurn(x, y)
      /\ y.pending = x.pending
  BY <1>1, <1>2, LoggedIs
<1> HIDE DEF y
<1>4. \A i \in 1..n + 1 : y.log[i].kind \in {"reach", "dahai"}
  <2>1. \A i \in 1..n : x.log[i].kind \in {"reach", "dahai"}
    BY DEF Opened, Deposit
  <2> QED
    BY <1>1, <1>2, <1>3, <2>1
<1>5. Opened(e, y, n + 1, 0)
  BY <1>2, <1>3, <1>4
  DEF Opened, Same, Deposit, Few, Put, SameMoney, SameKyoku, SameDealer, SameTurn
<1> QED
  BY <1>3, <1>5 DEF y

\* The riichi of a discard that nobody takes is accepted.
LEMMA OpenedByDeposit ==
  ASSUME Assumption, NEW e, NEW x, NEW n, Opened(e, x, n, 0)
  PROVE  /\ Opened(e, Accepted(x), n, x.pending)
         /\ Accepted(x).left = x.left /\ Accepted(x).owed \in [Seats -> Int]
<1> DEFINE p == x.pending
           scores == [x.scores EXCEPT ![p] = @ - Stick]
           owed == [x.owed EXCEPT ![p] = @ - Stick]
           reached == x.reached \cup {p}
           pot == x.pot + 1
           a == [x EXCEPT !.pending = 0, !.reached = reached, !.pot = pot,
                          !.scores = scores, !.owed = owed]
           ev == [kind |-> "reach_accepted", actor |-> p]
           y == Logged(a, ev)
<1>1. x \in Engine /\ Len(x.log) = n /\ n \in Nat /\ N \in Nat /\ Stick = 10
  BY SeatsAre DEF Opened, Same, Deposit, Few, Stick
<1>2. p \in 0..N /\ x.owed \in [Seats -> Int]
  BY <1>1, EngineFields
<1>3. CASE p = 0
  BY <1>2, <1>3 DEF Accepted
<1>4. CASE p # 0
  <2>1. p \in Seats /\ ev \in Event /\ ev.kind = "reach_accepted" /\ ev.actor = p
    BY <1>1, <1>2, <1>4 DEF Seats, Event
  <2>2. /\ scores \in [Seats -> Int] /\ owed \in [Seats -> Int] /\ pot \in Nat
        /\ reached \in SUBSET Seats /\ 0 \in 0..N
    BY <1>1, <2>1, EngineFields
  <2>3. Accepted(x) = y
    BY <1>4 DEF Accepted
  <2> HIDE DEF reached, owed
  <2>4. /\ a \in Engine /\ a.pot = pot /\ a.scores = scores
        /\ SameLog(x, a) /\ SameKyoku(x, a) /\ SameDealer(x, a) /\ SameTurn(x, a)
    <3> HIDE DEF scores, pot
    <3> QED
      BY <1>1, <2>2, DepositMoves
  <2> HIDE DEF a, ev
  <2>5. /\ y \in Engine /\ Len(y.log) = Len(a.log) + 1 /\ y.log[Len(a.log) + 1] = ev
        /\ \A i \in 1..Len(a.log) : y.log[i] = a.log[i]
        /\ SameMoney(a, y) /\ SameKyoku(a, y) /\ SameDealer(a, y) /\ SameTurn(a, y)
    BY <2>1, <2>4, LoggedIs
  <2> HIDE DEF y, p
  <2>6. /\ Len(y.log) = n + 1 /\ y.log[n + 1] = ev /\ \A i \in 1..n : y.log[i] = x.log[i]
    BY <1>1, <2>4, <2>5 DEF SameLog
  <2>7. Same(e, y) /\ y.won = <<>> /\ x.pot = e.pot /\ x.scores = e.scores /\ e.pot \in Nat
    BY <2>4, <2>5
    DEF Opened, Same, Deposit, Few, Put, SameKyoku, SameDealer, SameTurn
  <2>8. y.pot = e.pot + 1 /\ y.scores = [e.scores EXCEPT ![p] = @ - Stick]
    BY <2>4, <2>5, <2>7 DEF SameMoney
  <2>9. \A i \in 1..n : x.log[i].kind \in {"reach", "dahai"}
    BY DEF Opened, Deposit
  <2>10. Few(p) = 1 /\ y.scores = Put(e, p)
    BY <1>4, <2>8 DEF Few, Put
  <2>11. Deposit(e, y, n, p)
    BY <1>1, <1>2, <2>1, <2>6, <2>8, <2>9, <2>10 DEF Deposit
  <2>12. Opened(e, y, n, p)
    BY <2>6, <2>7, <2>10, <2>11 DEF Opened
  <2>13. y.left = x.left /\ y.owed \in [Seats -> Int]
    BY <2>4, <2>5, EngineFields DEF SameTurn
  <2> QED
    BY <2>3, <2>12, <2>13 DEF p
<1> QED
  BY <1>3, <1>4

\* Play that goes on: a deposit is followed by a draw.
GoesOn(e, x, n, s) ==
  /\ x \in Engine /\ x.kyoku = e.kyoku /\ ~x.done /\ x.won = <<>> /\ x.phase # "over"
  /\ x.dealer = e.dealer /\ x.honba = e.honba
  /\ Deposit(e, x, n, s) /\ x.scores = Put(e, s)
  /\ \/ s = 0 /\ Len(x.log) = n
     \/ Len(x.log) = n + Few(s) + 1 /\ x.log[n + Few(s) + 1].kind = "tsumo"

\* The Kyoku is over: drawn, or won.
Finished(e, x) ==
  /\ x \in Engine /\ x.kyoku = e.kyoku /\ ~x.done /\ x.phase = "over"

\* A batch that ends the Kyoku in a draw.
Drawn(e, x, n, s) ==
  /\ Finished(e, x) /\ Deposit(e, x, n, s) /\ x.won = <<>>
  /\ Len(x.log) = n + Few(s) + 1 /\ x.log[n + Few(s) + 1].kind = "ryukyoku"
  /\ Total(x.scores) = Total(e.scores) - Few(s) * Stick

\* A deposit takes a stick from the points.
LEMMA PutMoves ==
  ASSUME Assumption, NEW e, e.scores \in [Seats -> Int], NEW s \in 0..N
  PROVE  /\ Put(e, s) \in [Seats -> Int] /\ Few(s) \in {0, 1} /\ Stick = 10
         /\ Total(Put(e, s)) = Total(e.scores) - Few(s) * Stick
<1>1. Stick = 10 /\ N \in Nat /\ Total(e.scores) \in Int
  BY SeatsAre, TotalOf DEF Stick
<1>2. CASE s = 0
  BY <1>1, <1>2 DEF Put, Few
<1>3. CASE s # 0
  <2>1. s \in Seats /\ -10 \in Int
    BY <1>1, <1>3 DEF Seats
  <2>2. /\ [e.scores EXCEPT ![s] = @ + (-10)] \in [Seats -> Int]
        /\ Total([e.scores EXCEPT ![s] = @ + (-10)]) = Total(e.scores) + (-10)
    BY <2>1, TotalOfOne
  <2>3. Put(e, s) = [e.scores EXCEPT ![s] = @ + (-10)] /\ Few(s) = 1
    BY <1>1, <1>3, <2>1 DEF Put, Few
  <2> QED
    BY <1>1, <2>2, <2>3
<1> QED
  BY <1>2, <1>3

\* The seat after a seat is one.
LEMMA NextSeat ==
  ASSUME Assumption, NEW s \in Seats
  PROVE  (s % N) + 1 \in Seats
<1>1. CASE N = 3
  BY <1>1, SeatsAre
<1>2. CASE N = 4
  BY <1>2, SeatsAre
<1> QED
  BY <1>1, <1>2 DEF Assumption

\* A batch that leaves tiles in the wall goes on with a draw of a tile.
LEMMA OpenedGoesOn ==
  ASSUME Assumption, NEW e, NEW a, NEW n, NEW s, Opened(e, a, n, s), a.left # 0
  PROVE  GoesOn(e, Logged([a EXCEPT !.turn = (@ % N) + 1, !.left = @ - 1, !.phase = "act"],
                          Is("tsumo")), n, s)
<1> DEFINE turn == (a.turn % N) + 1
           left == a.left - 1
           b == [a EXCEPT !.turn = turn, !.left = left, !.phase = "act"]
           ev == Is("tsumo")
           y == Logged(b, ev)
<1>1. a \in Engine /\ Len(a.log) = n + Few(s) /\ n \in Nat /\ Few(s) \in Nat
  BY DEF Opened, Same, Deposit, Few
<1>2. ev \in Event /\ ev.kind = "tsumo"
  BY DEF Is, Event
<1>3. turn \in Seats /\ left \in Nat
  BY <1>1, EngineFields, NextSeat
<1> HIDE DEF turn, left, ev
<1>10. b = [a EXCEPT !.turn = turn, !.left = left, !.phase = "act"]
  OBVIOUS
<1> HIDE DEF b
<1>4. /\ b \in Engine /\ b.phase = "act"
      /\ SameLog(a, b) /\ SameMoney(a, b) /\ SameKyoku(a, b) /\ SameDealer(a, b)
  <2>1. a \in Engine /\ turn \in Seats /\ left \in Nat
    BY <1>1, <1>3
  <2>2. \A z : z = [a EXCEPT !.turn = turn, !.left = left, !.phase = "act"] =>
          /\ z \in Engine /\ z.phase = "act" /\ z.turn = turn
          /\ SameLog(a, z) /\ SameMoney(a, z) /\ SameKyoku(a, z) /\ SameDealer(a, z)
    BY <2>1, TurnMoves
  <2> QED
    BY <1>10, <2>2
<1>5. /\ y \in Engine /\ Len(y.log) = Len(b.log) + 1 /\ y.log[Len(b.log) + 1] = ev
      /\ \A i \in 1..Len(b.log) : y.log[i] = b.log[i]
      /\ SameMoney(b, y) /\ SameKyoku(b, y) /\ SameDealer(b, y) /\ SameTurn(b, y)
  BY <1>2, <1>4, LoggedIs
<1> HIDE DEF y
<1>6. /\ Len(y.log) = n + Few(s) + 1 /\ y.log[n + Few(s) + 1] = ev
      /\ \A i \in 1..n + Few(s) : y.log[i] = a.log[i]
  BY <1>1, <1>4, <1>5 DEF SameLog
<1>7. Deposit(e, y, n, s)
  <2>1. Deposit(e, a, n, s) /\ y.pot = a.pot
    BY <1>4, <1>5 DEF Opened, SameMoney
  <2> QED
    BY <1>1, <1>6, <2>1 DEF Deposit, Few
<1>8. /\ y.kyoku = e.kyoku /\ ~y.done /\ y.won = <<>> /\ y.phase = "act"
      /\ y.dealer = e.dealer /\ y.honba = e.honba /\ y.scores = Put(e, s)
  BY <1>4, <1>5 DEF Opened, Same, SameMoney, SameKyoku, SameDealer, SameTurn
<1>9. GoesOn(e, y, n, s)
  BY <1>2, <1>5, <1>6, <1>7, <1>8 DEF GoesOn
<1> QED
  BY <1>9 DEF y, b, ev, turn, left

\* A batch that pays a draw ends the Kyoku.
LEMMA OpenedDraws ==
  ASSUME Assumption, NEW e, NEW a, NEW n, NEW s, Opened(e, a, n, s),
         NEW reason \in {"exhaustive_draw", "nagashimangan", "abortive", "kyushu_kyuhai"},
         NEW payments \in [Seats -> Int], Total(payments) = 0, NEW delta \in [Seats -> Int]
  PROVE  Drawn(e, Draw(a, reason, payments, delta), n, s)
<1> DEFINE scores == Plus(a.scores, payments)
           b == [a EXCEPT !.scores = scores]
           ev == [kind |-> "ryukyoku", reason |-> reason, delta |-> delta]
           y == Logged(b, ev)
           honba == a.honba + 1
           z == Over(y, a.dealer, honba)
<1>1. a \in Engine /\ Len(a.log) = n + Few(s) /\ n \in Nat /\ Few(s) \in Nat
  BY DEF Opened, Same, Deposit, Few
<1>2. ev \in Event /\ ev.kind = "ryukyoku"
  BY DEF Event
<1>3. a.scores \in [Seats -> Int] /\ a.dealer \in Seats /\ honba \in Nat
  BY <1>1, EngineFields
<1>4. scores \in [Seats -> Int] /\ Total(scores) = Total(a.scores)
  BY <1>3, TotalOf
<1> HIDE DEF scores, ev, honba
<1>5. /\ b \in Engine /\ b.scores = scores /\ b.pot = a.pot
      /\ SameLog(a, b) /\ SameKyoku(a, b) /\ SameDealer(a, b) /\ SameTurn(a, b)
  BY <1>1, <1>4, ScoresMove
<1> HIDE DEF b
<1>6. /\ y \in Engine /\ Len(y.log) = Len(b.log) + 1 /\ y.log[Len(b.log) + 1] = ev
      /\ \A i \in 1..Len(b.log) : y.log[i] = b.log[i]
      /\ SameMoney(b, y) /\ SameKyoku(b, y) /\ SameDealer(b, y) /\ SameTurn(b, y)
  BY <1>2, <1>5, LoggedIs
<1> HIDE DEF y
<1>7. /\ z \in Engine /\ z.phase = "over"
      /\ SameLog(y, z) /\ SameMoney(y, z) /\ SameKyoku(y, z)
  BY <1>3, <1>6, OverMoves
<1> HIDE DEF z
<1>8. /\ Len(z.log) = n + Few(s) + 1 /\ z.log[n + Few(s) + 1] = ev
      /\ \A i \in 1..n + Few(s) : z.log[i] = a.log[i]
  BY <1>1, <1>5, <1>6, <1>7 DEF SameLog
<1>9. Deposit(e, z, n, s)
  <2>1. Deposit(e, a, n, s) /\ z.pot = a.pot
    BY <1>5, <1>6, <1>7 DEF Opened, SameMoney
  <2> QED
    BY <1>1, <1>8, <2>1 DEF Deposit, Few
<1>10. z.kyoku = e.kyoku /\ ~z.done /\ z.won = <<>>
  BY <1>5, <1>6, <1>7 DEF Opened, Same, SameKyoku
<1>11. Total(z.scores) = Total(e.scores) - Few(s) * Stick
  <2>1. z.scores = scores /\ a.scores = Put(e, s) /\ e.scores \in [Seats -> Int] /\ s \in 0..N
    BY <1>5, <1>6, <1>7 DEF Opened, Same, Deposit, SameMoney
  <2> QED
    BY <1>4, <2>1, PutMoves
<1>12. Drawn(e, z, n, s)
  BY <1>2, <1>7, <1>8, <1>9, <1>10, <1>11 DEF Finished, Drawn
<1>13. z = Draw(a, reason, payments, delta)
  BY DEF z, y, b, ev, scores, honba, Draw
<1> QED
  BY <1>12, <1>13

\* What the others pay is what the winner takes, without x, the pot.
Tsumo(w, dealer, honba, x, d) ==
  /\ d[w] = WinPoints(w = dealer, TRUE) + x + honba * (N - 1)
  /\ \A s \in Seats : s # w => d[s] = -(Share(dealer \in {s, w}) + honba)

\* What a self-drawn win pays and takes differs by what the winner finds on the table.
LEMMA WinTotal ==
  ASSUME Assumption, NEW w \in Seats, NEW dealer \in Seats, NEW honba \in Nat, NEW x \in Int,
         NEW d \in [Seats -> Int], Tsumo(w, dealer, honba, x, d)
  PROVE  Total(d) = x
<1> USE DEF Tsumo
<1>1. CASE N = 3
  BY <1>1, SeatsAre, SMTT(30) DEF Total, WinPoints, Share
<1>2. CASE N = 4
  <2>1. Seats = {1, 2, 3, 4}
    BY <1>2, SeatsAre
  <2>2. d[1] \in Int /\ d[2] \in Int /\ d[3] \in Int /\ d[4] \in Int
    BY <2>1
  <2>3. CASE w = dealer
    BY <1>2, <2>1, <2>2, <2>3, SMTT(30) DEF Total, WinPoints, Share
  <2>4. CASE w # dealer
    <3>1. d[w] = 40 + x + honba * 3 /\ d[dealer] = -(20 + honba)
      BY <1>2, <2>1, <2>4 DEF WinPoints, Share
    <3>2. \A s \in Seats : s # w /\ s # dealer => d[s] = -(10 + honba)
      BY <2>4 DEF Share
    <3>3. Total(d) = d[1] + d[2] + d[3] + d[4]
      BY <1>2 DEF Total
    <3>4. CASE w = 1
      BY <2>1, <2>2, <2>4, <3>1, <3>2, <3>3, <3>4
    <3>5. CASE w = 2
      BY <2>1, <2>2, <2>4, <3>1, <3>2, <3>3, <3>5
    <3>6. CASE w = 3
      BY <2>1, <2>2, <2>4, <3>1, <3>2, <3>3, <3>6
    <3>7. CASE w = 4
      BY <2>1, <2>2, <2>4, <3>1, <3>2, <3>3, <3>7
    <3> QED
      BY <2>1, <3>4, <3>5, <3>6, <3>7
  <2> QED
    BY <2>3, <2>4
<1> QED
  BY <1>1, <1>2 DEF Assumption

\* The same for a win on a discard, that one seat pays.
LEMMA RonTotal ==
  ASSUME Assumption, NEW w \in Seats, NEW turn \in Seats, w # turn, NEW paid \in Int,
         NEW x \in Int, NEW d \in [Seats -> Int], d[w] = paid + x, d[turn] = -paid,
         \A s \in Seats : s # w /\ s # turn => d[s] = 0
  PROVE  Total(d) = x
<1>1. CASE N = 3
  BY <1>1, SeatsAre, SMTT(30) DEF Total
<1>2. CASE N = 4
  <2>1. Seats = {1, 2, 3, 4} /\ Total(d) = d[1] + d[2] + d[3] + d[4]
    BY <1>2, SeatsAre DEF Total
  <2>2. CASE w = 1
    BY <2>1, <2>2
  <2>3. CASE w = 2
    BY <2>1, <2>3
  <2>4. CASE w = 3
    BY <2>1, <2>4
  <2>5. CASE w = 4
    BY <2>1, <2>5
  <2> QED
    BY <2>1, <2>2, <2>3, <2>4, <2>5
<1> QED
  BY <1>1, <1>2 DEF Assumption

\* A win is worth some points.
LEMMA WinPointsAre ==
  ASSUME Assumption, NEW dealer \in BOOLEAN, NEW tsumo \in BOOLEAN
  PROVE  WinPoints(dealer, tsumo) \in Nat
<1>1. CASE N = 3
  BY <1>1 DEF WinPoints, Share
<1>2. CASE N = 4
  BY <1>2 DEF WinPoints, Share
<1> QED
  BY <1>1, <1>2 DEF Assumption

\* The entry of a winner in the engine's list.
Winner(x, w) ==
  [seat |-> w, honba |-> IF w = x.turn \/ x.won = <<>> THEN x.honba ELSE 0,
   base |-> WinPoints(w = x.dealer, w = x.turn)]

\* The event of a win, and what the winner and the others got.
Claim(x, w, ev) ==
  /\ ev \in Event /\ ev.kind = "hora" /\ ev.actor = w /\ ev.target = x.turn
  /\ ev.delta \in [Seats -> Int] /\ Total(ev.delta) = x.pot * Stick

\* A win logs one event, pays what it says and empties the pot.
LEMMA WonFits ==
  ASSUME Assumption, NEW x \in Engine, NEW w \in Seats
  PROVE  LET y == Won(x, w)
             n == Len(x.log) + 1
         IN
         /\ y \in Engine /\ Len(y.log) = n /\ Claim(x, w, y.log[n])
         /\ \A i \in 1..Len(x.log) : y.log[i] = x.log[i]
         /\ y.scores = Plus(x.scores, y.log[n].delta) /\ y.pot = 0
         /\ y.won = Append(x.won, Winner(x, w))
         /\ y.kyoku = x.kyoku /\ y.done = x.done /\ SameDealer(x, y) /\ SameTurn(x, y)
<1> DEFINE tsumo == w = x.turn
           base == WinPoints(w = x.dealer, tsumo)
           honba == IF tsumo \/ x.won = <<>> THEN x.honba ELSE 0
           pays(s) == IF tsumo THEN Share(x.dealer \in {s, w}) + honba
                      ELSE IF s = x.turn THEN base + 3 * honba ELSE 0
           takes == base + x.pot * Stick + honba * IF tsumo THEN N - 1 ELSE 3
           delta == [s \in Seats |-> IF s = w THEN takes ELSE -pays(s)]
           scores == Plus(x.scores, delta)
           won == Append(x.won, [seat |-> w, honba |-> honba, base |-> base])
           b == [x EXCEPT !.scores = scores, !.pot = 0, !.won = won]
           ev == [kind |-> "hora", actor |-> w, target |-> x.turn, delta |-> delta]
           y == Logged(b, ev)
<1>1. /\ x.scores \in [Seats -> Int] /\ x.pot \in Nat /\ x.dealer \in Seats
      /\ x.honba \in Nat /\ x.turn \in Seats
      /\ x.won \in Seq([seat : Seats, honba : Nat, base : Nat])
  BY EngineFields
<1>2. honba \in Nat /\ Stick = 10 /\ N \in Nat /\ N - 1 \in Nat
  BY <1>1, SeatsAre DEF Stick, Assumption
<1>3. base \in Nat
  BY WinPointsAre
<1>4. won = Append(x.won, Winner(x, w))
  BY DEF Winner
<1>5. won \in Seq([seat : Seats, honba : Nat, base : Nat])
  <2>1. [seat |-> w, honba |-> honba, base |-> base] \in [seat : Seats, honba : Nat, base : Nat]
    BY <1>2, <1>3
  <2> QED
    BY <1>1, <2>1
<1>6. y = Won(x, w)
  BY DEF Won
<1>7. delta \in [Seats -> Int] /\ Total(delta) = x.pot * Stick
  <2> HIDE DEF honba, base
  <2>1. x.pot * Stick \in Int
    BY <1>1, <1>2
  <2>2. CASE tsumo
    <3>1. \A s \in Seats : Share(x.dealer \in {s, w}) \in Int
      BY DEF Share
    <3>2. honba * (N - 1) \in Int
      BY <1>2
    <3>3. takes \in Int /\ \A s \in Seats : -pays(s) \in Int
      BY <1>2, <1>3, <2>1, <2>2, <3>1, <3>2
    <3>4. delta \in [Seats -> Int]
      <4> HIDE DEF takes, pays
      <4> QED
        BY <3>3
    <3>5. delta[w] = WinPoints(w = x.dealer, TRUE) + x.pot * Stick + honba * (N - 1)
      BY <2>2 DEF base
    <3>6. \A s \in Seats : s # w => delta[s] = -(Share(x.dealer \in {s, w}) + honba)
      BY <2>2
    <3> DEFINE m == x.pot * Stick
    <3>7. /\ m \in Int /\ x.dealer \in Seats /\ honba \in Nat
          /\ delta[w] = WinPoints(w = x.dealer, TRUE) + m + honba * (N - 1)
      BY <1>1, <1>2, <2>1, <3>5
    <3> HIDE DEF delta, m
    <3>8. Total(delta) = m
      <4>1. Tsumo(w, x.dealer, honba, m, delta)
        BY <3>6, <3>7 DEF Tsumo
      <4> QED
        BY <3>4, <3>7, <4>1, WinTotal
    <3> QED
      BY <3>4, <3>8 DEF m
  <2>3. CASE ~tsumo
    <3> DEFINE paid == base + 3 * honba
    <3>1. paid \in Int /\ honba * 3 = 3 * honba
      BY <1>2, <1>3
    <3>2. takes = paid + x.pot * Stick /\ takes \in Int
      BY <1>2, <1>3, <2>1, <2>3, <3>1
    <3>3. \A s \in Seats : pays(s) = IF s = x.turn THEN paid ELSE 0
      BY <2>3
    <3> HIDE DEF takes, pays, paid
    <3>4. delta \in [Seats -> Int]
      BY <3>1, <3>2, <3>3
    <3>5. /\ delta[w] = paid + x.pot * Stick /\ delta[x.turn] = -paid
          /\ \A s \in Seats : s # w /\ s # x.turn => delta[s] = 0
      BY <1>1, <2>3, <3>1, <3>2, <3>3
    <3> DEFINE m == x.pot * Stick
    <3>6. m \in Int /\ x.turn \in Seats /\ w # x.turn /\ paid \in Int /\ delta[w] = paid + m
      BY <1>1, <2>1, <2>3, <3>1, <3>5
    <3> HIDE DEF delta, m
    <3>7. Total(delta) = m
      <4> DEFINE Pays(turn, q, x1, d) ==
            /\ w # turn /\ d[w] = q + x1 /\ d[turn] = -q
            /\ \A s \in Seats : s # w /\ s # turn => d[s] = 0
      <4>1. ASSUME NEW turn \in Seats, NEW q \in Int, NEW x1 \in Int,
                   NEW d \in [Seats -> Int], Pays(turn, q, x1, d)
            PROVE  Total(d) = x1
        BY <4>1, RonTotal
      <4>2. Pays(x.turn, paid, m, delta)
        BY <3>5, <3>6
      <4> HIDE DEF Pays
      <4> QED
        BY <3>4, <3>6, <4>1, <4>2
    <3> QED
      BY <3>4, <3>7 DEF m
  <2> QED
    BY <2>2, <2>3
<1> HIDE DEF delta, won
<1>8. scores \in [Seats -> Int]
  BY <1>1, <1>7, TotalOf
<1>9. /\ ev \in Event /\ ev.kind = "hora" /\ ev.actor = w /\ ev.target = x.turn
      /\ ev.delta = delta
  BY <1>1, <1>7 DEF Event
<1> HIDE DEF scores, ev
<1>10. /\ b \in Engine /\ b.pot = 0 /\ b.scores = scores /\ b.won = won
       /\ b.kyoku = x.kyoku /\ b.done = x.done
       /\ SameLog(x, b) /\ SameDealer(x, b) /\ SameTurn(x, b)
  BY <1>5, <1>8, 0 \in Nat, WinMoves
<1> HIDE DEF b
<1>11. /\ y \in Engine /\ Len(y.log) = Len(b.log) + 1 /\ y.log[Len(b.log) + 1] = ev
       /\ \A i \in 1..Len(b.log) : y.log[i] = b.log[i]
       /\ SameMoney(b, y) /\ SameKyoku(b, y) /\ SameDealer(b, y) /\ SameTurn(b, y)
  BY <1>9, <1>10, LoggedIs
<1> HIDE DEF y
<1>12. /\ Len(y.log) = Len(x.log) + 1 /\ y.log[Len(x.log) + 1] = ev
       /\ \A i \in 1..Len(x.log) : y.log[i] = x.log[i]
  BY <1>10, <1>11 DEF SameLog
<1>13. /\ y.scores = scores /\ y.pot = 0 /\ y.won = won /\ y.kyoku = x.kyoku
       /\ y.done = x.done /\ SameDealer(x, y) /\ SameTurn(x, y)
  BY <1>10, <1>11 DEF SameMoney, SameKyoku, SameDealer, SameTurn
<1>14. Claim(x, w, ev)
  BY <1>7, <1>9 DEF Claim
<1>15. y.scores = Plus(x.scores, ev.delta)
  BY <1>9, <1>13 DEF scores
<1> QED
  BY <1>4, <1>6, <1>11, <1>12, <1>13, <1>14, <1>15

\* The Kyoku is won: one event for each winner, and the pot and the honba to the first.
Claims(e, x, i) ==
  LET ev == x.log[i]
      tsumo == x.won[i].seat = e.turn
  IN
  /\ ev.kind = "hora" /\ ev.actor = x.won[i].seat /\ ev.actor \in Seats
  /\ ev.target = e.turn /\ ev.delta \in [Seats -> Int]
  /\ x.won[i].base = WinPoints(x.won[i].seat = e.dealer, tsumo)
  /\ x.won[i].honba = IF tsumo \/ i = 1 THEN e.honba ELSE 0

\* A batch of one or two wins, and one that ends the Kyoku with them.
WonBy(e, x) ==
  /\ x \in Engine /\ x.kyoku = e.kyoku /\ ~x.done /\ x.pot = 0
  /\ Len(x.won) \in {1, 2} /\ Len(x.log) = Len(x.won)
  /\ \A i \in 1..Len(x.won) : Claims(e, x, i)
  /\ Len(x.won) = 2 =>
       /\ x.won[1].seat # x.won[2].seat
       /\ x.won[1].seat # e.turn /\ x.won[2].seat # e.turn
  /\ x.scores = IF Len(x.won) = 1 THEN Plus(e.scores, x.log[1].delta)
                ELSE Plus(Plus(e.scores, x.log[1].delta), x.log[2].delta)
  /\ Total(x.scores) = Total(e.scores) + e.pot * Stick

Claimed(e, x) == Finished(e, x) /\ WonBy(e, x)

\* One seat wins.
LEMMA OneWins ==
  ASSUME Assumption, NEW e \in Engine, e.log = <<>>, e.won = <<>>, ~e.done, NEW w \in Seats
  PROVE  LET y == Won(e, w) IN
         /\ WonBy(e, y) /\ y.dealer = e.dealer /\ y.honba = e.honba /\ y.turn = e.turn
         /\ y.won = <<Winner(e, w)>>
<1> DEFINE y == Won(e, w)
<1>1. /\ y \in Engine /\ Len(y.log) = 1 /\ Claim(e, w, y.log[1])
      /\ y.scores = Plus(e.scores, y.log[1].delta) /\ y.pot = 0
      /\ y.won = Append(e.won, Winner(e, w))
      /\ y.kyoku = e.kyoku /\ y.done = e.done /\ SameDealer(e, y) /\ SameTurn(e, y)
  <2>1. Len(e.log) + 1 = 1
    OBVIOUS
  <2> QED
    BY <2>1, WonFits
<1> HIDE DEF y
<1>2. y.won = <<Winner(e, w)>> /\ Len(y.won) = 1 /\ y.won[1] = Winner(e, w)
  BY <1>1
<1>3. e.scores \in [Seats -> Int] /\ e.pot \in Nat
  BY EngineFields
<1>4. /\ Winner(e, w).seat = w /\ Winner(e, w).base = WinPoints(w = e.dealer, w = e.turn)
      /\ Winner(e, w).honba = e.honba
  BY DEF Winner
<1>5. Claims(e, y, 1)
  BY <1>1, <1>2, <1>4 DEF Claims, Claim
<1>6. Total(y.scores) = Total(e.scores) + e.pot * Stick
  BY <1>1, <1>3, TotalOf DEF Claim
<1>7. WonBy(e, y)
  BY <1>1, <1>2, <1>5, <1>6 DEF WonBy
<1>8. y.dealer = e.dealer /\ y.honba = e.honba /\ y.turn = e.turn
  BY <1>1 DEF SameDealer, SameTurn
<1> QED
  BY <1>2, <1>7, <1>8 DEF y

\* The second of two.
LEMMA SecondOf ==
  ASSUME NEW S, NEW q \in Seq(S), NEW v \in S, Len(q) = 1
  PROVE  /\ Len(Append(q, v)) = 2 /\ Append(q, v)[1] = q[1]
         /\ Append(q, v)[2] = v
<1>1. 1 \in 1..Len(q) /\ Len(q) + 1 = 2
  OBVIOUS
<1>2. \A i \in 1..Len(q) : Append(q, v)[i] = q[i]
  OBVIOUS
<1>3. Append(q, v)[Len(q) + 1] = v /\ Len(Append(q, v)) = Len(q) + 1
  OBVIOUS
<1> QED
  BY <1>1, <1>2, <1>3, Zenon

\* Two seats win on the same discard.
LEMMA TwoWin ==
  ASSUME Assumption, NEW e \in Engine, e.log = <<>>, e.won = <<>>, ~e.done,
         NEW w \in Seats, NEW o \in Seats, w # o, w # e.turn, o # e.turn
  PROVE  LET y == Won(Won(e, w), o) IN
         WonBy(e, y) /\ y.dealer = e.dealer /\ y.honba = e.honba
<1> DEFINE x == Won(e, w)
           y == Won(x, o)
<1>1. /\ WonBy(e, x) /\ x.dealer = e.dealer /\ x.honba = e.honba /\ x.turn = e.turn
      /\ x.won = <<Winner(e, w)>>
  BY OneWins
<1> HIDE DEF x
<1>2. /\ x \in Engine /\ Len(x.log) = 1 /\ Claims(e, x, 1) /\ x.won[1].seat = w
      /\ x.kyoku = e.kyoku /\ ~x.done /\ x.pot = 0
      /\ x.scores = Plus(e.scores, x.log[1].delta) /\ x.scores \in [Seats -> Int]
      /\ Total(x.scores) = Total(e.scores) + e.pot * Stick
  <2>1. Len(x.won) = 1 /\ x.won[1].seat = w
    BY <1>1 DEF Winner
  <2>2. x \in Engine /\ x.scores \in [Seats -> Int]
    BY <1>1, EngineFields DEF WonBy
  <2> QED
    BY <1>1, <2>1, <2>2 DEF WonBy
<1>3. /\ y \in Engine /\ Len(y.log) = 2 /\ Claim(x, o, y.log[2]) /\ y.log[1] = x.log[1]
      /\ y.scores = Plus(x.scores, y.log[2].delta) /\ y.pot = 0
      /\ y.won = Append(x.won, Winner(x, o))
      /\ y.kyoku = x.kyoku /\ y.done = x.done /\ SameDealer(x, y) /\ SameTurn(x, y)
  <2> DEFINE n == Len(x.log) + 1
  <2>1. n = 2 /\ 1 \in 1..Len(x.log)
    BY <1>2
  <2>2. /\ y \in Engine /\ Len(y.log) = n /\ Claim(x, o, y.log[n])
        /\ \A i \in 1..Len(x.log) : y.log[i] = x.log[i]
        /\ y.scores = Plus(x.scores, y.log[n].delta) /\ y.pot = 0
        /\ y.won = Append(x.won, Winner(x, o))
        /\ y.kyoku = x.kyoku /\ y.done = x.done /\ SameDealer(x, y) /\ SameTurn(x, y)
    BY <1>2, WonFits
  <2> HIDE DEF y, n
  <2>3. y.log[1] = x.log[1]
    BY <2>1, <2>2
  <2> QED
    BY <2>1, <2>2, <2>3
<1> HIDE DEF y
<1>4. x.won \in Seq([seat : Seats, honba : Nat, base : Nat]) /\ Len(x.won) = 1
  BY <1>1, <1>2, EngineFields
<1>5. Len(y.won) = 2 /\ y.won[1] = x.won[1] /\ y.won[2] = Winner(x, o)
  <2>1. Winner(x, o) \in [seat : Seats, honba : Nat, base : Nat]
    <3>1. WinPoints(o = x.dealer, o = x.turn) \in Nat /\ x.honba \in Nat
      BY <1>2, WinPointsAre, EngineFields
    <3> QED
      BY <3>1 DEF Winner
  <2> QED
    BY <1>3, <1>4, <2>1, SecondOf
<1>6. /\ Winner(x, o).seat = o /\ Winner(x, o).base = WinPoints(o = e.dealer, o = e.turn)
      /\ Winner(x, o).honba = 0
  BY <1>1 DEF Winner
<1>7. Claims(e, y, 1)
  BY <1>2, <1>3, <1>5 DEF Claims
<1>8. Claims(e, y, 2)
  BY <1>1, <1>3, <1>5, <1>6 DEF Claims, Claim
<1>9. Total(y.scores) = Total(e.scores) + e.pot * Stick
  <2>1. Total(y.log[2].delta) = 0 /\ y.log[2].delta \in [Seats -> Int]
    BY <1>2, <1>3 DEF Claim, Stick
  <2>2. Total(y.scores) = Total(x.scores) + 0 /\ Total(x.scores) \in Int
    BY <1>2, <1>3, <2>1, TotalOf
  <2> QED
    BY <1>2, <2>2
<1>10. \A i \in 1..Len(y.won) : Claims(e, y, i)
  BY <1>5, <1>7, <1>8
<1>11. WonBy(e, y)
  BY <1>2, <1>3, <1>5, <1>6, <1>9, <1>10 DEF WonBy
<1>12. y.dealer = e.dealer /\ y.honba = e.honba
  BY <1>1, <1>3 DEF SameDealer
<1> QED
  BY <1>11, <1>12 DEF y, x

\* Some winner sits nearest to the discarder.
LEMMA LeastSeat ==
  ASSUME Assumption, NEW ws \in SUBSET Seats, ws # {}, NEW f \in [Seats -> Int]
  PROVE  \E s \in ws : \A o \in ws : f[s] <= f[o]
<1>1. CASE N = 3
  BY <1>1, SeatsAre, SMTT(30)
<1>2. CASE N = 4
  BY <1>2, SeatsAre, SMTT(60)
<1> QED
  BY <1>1, <1>2 DEF Assumption

\* The Kyoku is over once the wins are paid.
LEMMA OverIsWon ==
  ASSUME NEW e, NEW x, WonBy(e, x), NEW dealer \in Seats, NEW honba \in Nat
  PROVE  Claimed(e, Over(x, dealer, honba))
<1> DEFINE y == Over(x, dealer, honba)
<1>1. x \in Engine
  BY DEF WonBy
<1>2. /\ y \in Engine /\ y.phase = "over"
      /\ SameLog(x, y) /\ SameMoney(x, y) /\ SameKyoku(x, y)
  BY <1>1, OverMoves
<1> HIDE DEF y
<1>3. WonBy(e, y)
  BY <1>2 DEF WonBy, Claims, SameLog, SameMoney, SameKyoku
<1>4. Finished(e, y)
  BY <1>2, <1>3 DEF Finished, WonBy
<1> QED
  BY <1>3, <1>4 DEF Claimed, y

\* Who wins is paid in the order of the seats, two at most.
LEMMA WinnersFit ==
  ASSUME Assumption, NEW e, Running(e), NEW ws,
         \/ ws = {e.turn}
         \/ ws \in SUBSET (Seats \ {e.turn}) /\ ws # {}
  PROVE  Claimed(e, Winners([e EXCEPT !.pending = 0], ws))
<1> DEFINE x == [e EXCEPT !.pending = 0]
<1>1. e \in Engine /\ e.turn \in Seats /\ e.log = <<>> /\ e.won = <<>> /\ ~e.done /\ N \in Nat
  BY EngineFields, SeatsAre DEF Running
<1>2. /\ x \in Engine /\ SameLog(e, x) /\ SameMoney(e, x) /\ SameKyoku(e, x)
      /\ SameDealer(e, x) /\ SameTurn(e, x)
  BY <1>1, 0 \in 0..N, PendingMoves
<1> HIDE DEF x
<1>3. /\ x.log = <<>> /\ x.won = <<>> /\ ~x.done /\ x.turn = e.turn /\ x.dealer = e.dealer
      /\ x.honba = e.honba /\ x.scores = e.scores /\ x.pot = e.pot /\ x.kyoku = e.kyoku
  BY <1>1, <1>2 DEF SameLog, SameMoney, SameKyoku, SameDealer, SameTurn
<1>4. ASSUME NEW y, WonBy(x, y) PROVE WonBy(e, y)
  BY <1>3, <1>4 DEF WonBy, Claims
<1> DEFINE after(s) == (s - x.turn + N) % N
           first == CHOOSE s \in ws : \A o \in ws : after(s) <= after(o)
           other == CHOOSE s \in ws : s # first
           one == Won(x, first)
           won == IF ws = {first} THEN one ELSE Won(one, other)
<1>5. ws \in SUBSET Seats /\ ws # {}
  BY <1>1
<1>6. first \in ws
  <2> DEFINE f == [s \in Seats |-> after(s)]
  <2>1. f \in [Seats -> Int]
    <3>1. \A s \in Seats : after(s) \in Int
      <4>1. CASE N = 3
        BY <1>1, <1>3, <4>1, SeatsAre
      <4>2. CASE N = 4
        BY <1>1, <1>3, <4>2, SeatsAre
      <4> QED
        BY <4>1, <4>2 DEF Assumption
    <3> QED
      BY <3>1
  <2>2. \E s \in ws : \A o \in ws : f[s] <= f[o]
    <3> HIDE DEF f
    <3> QED
      BY <1>5, <2>1, LeastSeat
  <2>3. \E s \in ws : \A o \in ws : after(s) <= after(o)
    <3> HIDE DEF after
    <3> QED
      BY <1>5, <2>2
  <2> QED
    BY <2>3
<1> HIDE DEF after
<1>7. WonBy(x, won) /\ won.dealer = x.dealer /\ won.honba = x.honba
  <2>1. CASE ws = {first}
    <3>1. WonBy(x, one) /\ one.dealer = x.dealer /\ one.honba = x.honba
      <4> HIDE DEF first
      <4> QED
        BY <1>2, <1>3, <1>5, <1>6, OneWins
    <3> QED
      BY <2>1, <3>1
  <2>2. CASE ws # {first}
    <3>1. other \in ws /\ other # first
      <4> HIDE DEF first
      <4>1. \E s \in ws : s # first
        BY <1>6, <2>2
      <4> QED
        BY <4>1
    <3> HIDE DEF first, other
    <3>2. first \in Seats /\ other \in Seats /\ first # x.turn /\ other # x.turn
      BY <1>3, <1>5, <1>6, <2>2, <3>1
    <3>3. WonBy(x, Won(one, other)) /\ Won(one, other).dealer = x.dealer
          /\ Won(one, other).honba = x.honba
      BY <1>2, <1>3, <3>1, <3>2, TwoWin
    <3> QED
      BY <2>2, <3>3
  <2> QED
    BY <2>1, <2>2
<1>8. Winners(x, ws) = IF x.dealer \in ws THEN Over(won, x.dealer, x.honba + 1)
                       ELSE Over(won, NextDealer(x), 0)
  BY DEF Winners, won, one, other, first, after
<1> HIDE DEF won
<1>9. x.dealer \in Seats /\ x.honba + 1 \in Nat /\ NextDealer(x) \in Seats
  BY <1>2, EngineFields, NextSeat DEF NextDealer
<1>10. WonBy(e, won)
  BY <1>4, <1>7
<1>11. Claimed(e, Over(won, x.dealer, x.honba + 1)) /\ Claimed(e, Over(won, NextDealer(x), 0))
  BY <1>9, <1>10, OverIsWon
<1> QED
  BY <1>8, <1>11 DEF x

\* The Seats of a set, counted.
One(T, s) == IF s \in T THEN 1 ELSE 0

\* How many seats are in a set, seat by seat.
LEMMA SeatsCounted ==
  ASSUME Assumption, NEW T \in SUBSET Seats
  PROVE  Cardinality(T) = One(T, 1) + One(T, 2) + One(T, 3) + IF N = 4 THEN One(T, 4) ELSE 0
<1> DEFINE Upto(k) == T \cap 1..k
<1>1. ASSUME NEW k \in 1..4, IsFiniteSet(Upto(k - 1)), Cardinality(Upto(k - 1)) \in Nat
      PROVE  /\ IsFiniteSet(Upto(k)) /\ Cardinality(Upto(k)) \in Nat
             /\ Cardinality(Upto(k)) = Cardinality(Upto(k - 1)) + One(T, k)
  <2>1. CASE k \in T
    <3>1. Upto(k) = Upto(k - 1) \cup {k} /\ k \notin Upto(k - 1)
      BY <2>1
    <3> HIDE DEF Upto
    <3>2. /\ IsFiniteSet(Upto(k - 1) \cup {k})
          /\ Cardinality(Upto(k - 1) \cup {k}) = Cardinality(Upto(k - 1)) + 1
      BY <1>1, <3>1, FS_AddElement
    <3> QED
      BY <1>1, <2>1, <3>1, <3>2 DEF One
  <2>2. CASE k \notin T
    <3>1. Upto(k) = Upto(k - 1)
      BY <2>2
    <3> HIDE DEF Upto
    <3> QED
      BY <1>1, <2>2, <3>1 DEF One
  <2> QED
    BY <2>1, <2>2
<1>2. IsFiniteSet(Upto(0)) /\ Cardinality(Upto(0)) = 0
  <2>1. Upto(0) = {}
    OBVIOUS
  <2> QED
    BY <2>1, FS_EmptySet
<1>3. T = Upto(4) /\ (N = 3 => T = Upto(3))
  BY SeatsAre
<1> HIDE DEF Upto
<1>4. /\ IsFiniteSet(Upto(1)) /\ Cardinality(Upto(1)) \in Nat
      /\ Cardinality(Upto(1)) = One(T, 1)
  <2>1. 1 \in 1..4 /\ 1 - 1 = 0 /\ One(T, 1) \in Nat
    BY DEF One
  <2> QED
    BY <1>1, <1>2, <2>1
<1>5. /\ IsFiniteSet(Upto(2)) /\ Cardinality(Upto(2)) \in Nat
      /\ Cardinality(Upto(2)) = One(T, 1) + One(T, 2)
  <2>1. 2 \in 1..4 /\ 2 - 1 = 1
    OBVIOUS
  <2> QED
    BY <1>1, <1>4, <2>1
<1>6. /\ IsFiniteSet(Upto(3)) /\ Cardinality(Upto(3)) \in Nat
      /\ Cardinality(Upto(3)) = One(T, 1) + One(T, 2) + One(T, 3)
  <2>1. 3 \in 1..4 /\ 3 - 1 = 2
    OBVIOUS
  <2> QED
    BY <1>1, <1>5, <2>1
<1>7. Cardinality(Upto(4)) = One(T, 1) + One(T, 2) + One(T, 3) + One(T, 4)
  <2>1. 4 \in 1..4 /\ 4 - 1 = 3
    OBVIOUS
  <2> QED
    BY <1>1, <1>6, <2>1
<1>8. One(T, 1) + One(T, 2) + One(T, 3) \in Int
  BY DEF One
<1> QED
  BY <1>3, <1>6, <1>7, <1>8 DEF Assumption

\* The payments for tenpai add up to nothing, those for nagashi mangan too.
LEMMA TenpaiTotal ==
  ASSUME Assumption, NEW T \in SUBSET Seats, Cardinality(T) \in 1..N - 1
  PROVE  LET k == Cardinality(T)
             f == [s \in Seats |-> IF s \in T THEN (10 * (N - 1)) \div k
                                   ELSE -((10 * (N - 1)) \div (N - k))]
         IN f \in [Seats -> Int] /\ Total(f) = 0
<1> DEFINE k == Cardinality(T)
           x == (10 * (N - 1)) \div k
           y == (10 * (N - 1)) \div (N - k)
           f == [s \in Seats |-> IF s \in T THEN x ELSE -y]
<1>1. k = One(T, 1) + One(T, 2) + One(T, 3) + IF N = 4 THEN One(T, 4) ELSE 0
  BY SeatsCounted
<1>2. /\ N = 3 /\ k = 1 => x = 20 /\ y = 10
      /\ N = 3 /\ k = 2 => x = 10 /\ y = 20
      /\ N = 4 /\ k = 1 => x = 30 /\ y = 10
      /\ N = 4 /\ k = 2 => x = 15 /\ y = 15
      /\ N = 4 /\ k = 3 => x = 10 /\ y = 30
  OBVIOUS
<1>3. (N = 3 /\ k \in 1..2) \/ (N = 4 /\ k \in 1..3)
  BY DEF Assumption
<1> HIDE DEF k, x, y
<1>4. x \in Int /\ y \in Int
  BY <1>2, <1>3
<1>5. f \in [Seats -> Int]
  BY <1>4
<1>6. \A s \in Seats : f[s] = IF One(T, s) = 1 THEN x ELSE -y
  BY DEF One
<1>7. \A s : One(T, s) \in {0, 1}
  BY DEF One
<1> HIDE DEF f
<1>8. ASSUME N = 3 PROVE Total(f) = 0
  BY <1>1, <1>2, <1>3, <1>6, <1>7, <1>8, SeatsAre DEF Total
<1>9. ASSUME N = 4 PROVE Total(f) = 0
  <2>1. /\ 1 \in Seats /\ 2 \in Seats /\ 3 \in Seats /\ 4 \in Seats
        /\ Total(f) = f[1] + f[2] + f[3] + f[4]
    BY <1>9, SeatsAre DEF Total
  <2>2. CASE k = 1
    BY <1>1, <1>2, <1>6, <1>7, <1>9, <2>1, <2>2
  <2>3. CASE k = 2
    BY <1>1, <1>2, <1>6, <1>7, <1>9, <2>1, <2>3
  <2>4. CASE k = 3
    BY <1>1, <1>2, <1>6, <1>7, <1>9, <2>1, <2>4
  <2> QED
    BY <1>3, <1>9, <2>2, <2>3, <2>4
<1>10. Total(f) = 0
  BY <1>3, <1>8, <1>9
<1> QED
  BY <1>5, <1>10 DEF f, x, y, k

\* What a nagashi mangan pays is paid by the others.
LEMMA NagashiTotal ==
  ASSUME Assumption
  PROVE  LET f == [s \in Seats |-> IF s = N THEN 40 * (N - 1) ELSE -40] IN
         f \in [Seats -> Int] /\ Total(f) = 0
<1>1. CASE N = 3
  BY <1>1, SeatsAre DEF Total
<1>2. CASE N = 4
  BY <1>2, SeatsAre DEF Total
<1> QED
  BY <1>1, <1>2 DEF Assumption

\* Nothing paid is nothing in total.
LEMMA ZeroTotal ==
  ASSUME Assumption
  PROVE  Zero \in [Seats -> Int] /\ Total(Zero) = 0
BY SeatsAre DEF Zero, Total, Assumption

\* What the hands and the wall may decide, for the engine that is asked.
Lucky(luck) == luck.tenpai \in SUBSET Seats /\ luck.nagashi \in {0, N}

\* An exhausted wall ends the Kyoku in a draw whose payments cancel.
LEMMA ExhaustedFits ==
  ASSUME Assumption, NEW e, NEW a, NEW n, NEW s, Opened(e, a, n, s),
         a.owed \in [Seats -> Int], NEW luck, Lucky(luck)
  PROVE  Drawn(e, Exhausted(a, luck), n, s)
<1> DEFINE k == Cardinality(luck.tenpai)
           tenpai == [seat \in Seats |-> IF seat \in luck.tenpai THEN (10 * (N - 1)) \div k
                                         ELSE -((10 * (N - 1)) \div (N - k))]
           nagashi == [seat \in Seats |-> IF seat = luck.nagashi THEN 40 * (N - 1) ELSE -40]
           nagashiDelta == Plus(a.owed, nagashi)
<1>0. Exhausted(a, luck) =
        CASE luck.nagashi # 0 -> Draw(a, "nagashimangan", nagashi, nagashiDelta)
          [] luck.nagashi = 0 /\ k \in 1..N - 1 -> Draw(a, "exhaustive_draw", tenpai, tenpai)
          [] OTHER -> Draw(a, "exhaustive_draw", Zero, a.owed)
  BY DEF Exhausted
<1>1. CASE luck.nagashi # 0
  <2>1. nagashi = [seat \in Seats |-> IF seat = N THEN 40 * (N - 1) ELSE -40]
    BY <1>1 DEF Lucky
  <2>2. nagashi \in [Seats -> Int] /\ Total(nagashi) = 0
    BY <2>1, NagashiTotal
  <2> HIDE DEF nagashi
  <2>3. nagashiDelta \in [Seats -> Int]
    BY <2>2, TotalOf
  <2> HIDE DEF nagashiDelta
  <2>4. Drawn(e, Draw(a, "nagashimangan", nagashi, nagashiDelta), n, s)
    BY <2>2, <2>3, OpenedDraws
  <2> QED
    BY <1>0, <1>1, <2>4
<1>2. CASE luck.nagashi = 0 /\ k \in 1..N - 1
  <2>1. tenpai \in [Seats -> Int] /\ Total(tenpai) = 0
    BY <1>2, TenpaiTotal DEF Lucky
  <2> HIDE DEF tenpai
  <2>2. Drawn(e, Draw(a, "exhaustive_draw", tenpai, tenpai), n, s)
    BY <2>1, OpenedDraws
  <2> QED
    BY <1>0, <1>2, <2>2
<1>3. CASE luck.nagashi = 0 /\ k \notin 1..N - 1
  <2>1. Drawn(e, Draw(a, "exhaustive_draw", Zero, a.owed), n, s)
    BY ZeroTotal, OpenedDraws
  <2> QED
    BY <1>0, <1>3, <2>1
<1> QED
  BY <1>1, <1>2, <1>3

\* Nobody takes the discard of a batch of n events.
LEMMA PassedFits ==
  ASSUME Assumption, NEW e, NEW x, NEW n, Opened(e, x, n, 0), NEW luck, Lucky(luck),
         luck.abort \in BOOLEAN
  PROVE  \E s \in 0..N : GoesOn(e, Passed(x, luck), n, s) \/ Drawn(e, Passed(x, luck), n, s)
<1> DEFINE a == Accepted(x)
           s == x.pending
           b == Logged([a EXCEPT !.turn = (@ % N) + 1, !.left = @ - 1, !.phase = "act"],
                       Is("tsumo"))
<1>1. Opened(e, a, n, s) /\ a.owed \in [Seats -> Int] /\ s \in 0..N
  BY OpenedByDeposit, ZenonT(60) DEF Opened, Deposit
<1>2. Passed(x, luck) =
        CASE luck.abort -> Draw(a, "abortive", Zero, Zero)
          [] ~luck.abort /\ a.left = 0 -> Exhausted(a, luck)
          [] OTHER -> b
  BY DEF Passed
<1> HIDE DEF a, s
<1>3. CASE luck.abort
  <2>1. Drawn(e, Draw(a, "abortive", Zero, Zero), n, s)
    BY <1>1, ZeroTotal, OpenedDraws
  <2> QED
    BY <1>1, <1>2, <1>3, <2>1
<1>4. CASE ~luck.abort /\ a.left = 0
  <2>1. Drawn(e, Exhausted(a, luck), n, s)
    BY <1>1, ExhaustedFits
  <2> QED
    BY <1>1, <1>2, <1>4, <2>1
<1>5. CASE ~luck.abort /\ a.left # 0
  <2>1. GoesOn(e, b, n, s)
    BY <1>1, <1>5, OpenedGoesOn
  <2> HIDE DEF b
  <2> QED
    BY <1>1, <1>2, <1>5, <2>1
<1> QED
  BY <1>3, <1>4, <1>5

\* The draws of luck the model makes are those the steps expect.
LEMMA LucksAreLucky ==
  ASSUME Assumption, NEW e, NEW luck \in Lucks(e)
  PROVE  Lucky(luck) /\ luck.abort \in BOOLEAN /\ luck.heard \in BOOLEAN
BY DEF Lucks, Lucky, Assumption

\* What a batch makes of the Kyoku.
Fits(e, x) ==
  \/ \E n \in Nat, s \in 0..N : GoesOn(e, x, n, s) \/ Drawn(e, x, n, s)
  \/ Claimed(e, x)

\* A discard goes on, or ends the Kyoku in a draw.
LEMMA DiscardFits ==
  ASSUME Assumption, NEW e, NEW x, NEW n, Opened(e, x, n, 0), NEW luck \in Lucks(e)
  PROVE  Fits(e, Step(x, [do |-> "discard"], luck))
<1> DEFINE d == Logged(x, Is("dahai"))
           waits == [d EXCEPT !.phase = "respond"]
<1>1. Opened(e, d, n + 1, 0)
  BY OpenedByPlay
<1>2. Lucky(luck) /\ luck.abort \in BOOLEAN
  BY LucksAreLucky
<1>3. Step(x, [do |-> "discard"], luck) = IF luck.heard THEN waits ELSE Passed(d, luck)
  BY DEF Step
<1> HIDE DEF d
<1>4. n + 1 \in Nat /\ 0 \in 0..N /\ d \in Engine /\ Few(0) = 0
  BY <1>1 DEF Opened, Same, Deposit, Few
<1>5. GoesOn(e, waits, n + 1, 0)
  <2>1. /\ waits \in Engine /\ waits.phase = "respond" /\ waits.turn = d.turn
        /\ SameLog(d, waits) /\ SameMoney(d, waits) /\ SameKyoku(d, waits)
        /\ SameDealer(d, waits)
    BY <1>4, PhaseMoves
  <2> HIDE DEF waits
  <2>2. Deposit(e, waits, n + 1, 0)
    <3>1. Deposit(e, d, n + 1, 0)
      BY <1>1 DEF Opened
    <3> QED
      BY <2>1, <3>1 DEF Deposit, SameLog, SameMoney
  <2>3. Same(e, d) /\ d.won = <<>> /\ d.scores = Put(e, 0) /\ Len(d.log) = n + 1
    BY <1>1, <1>4 DEF Opened
  <2> QED
    BY <2>1, <2>2, <2>3 DEF GoesOn, Same, SameLog, SameMoney, SameKyoku, SameDealer
<1> HIDE DEF waits
<1>6. \E s \in 0..N : GoesOn(e, Passed(d, luck), n + 1, s) \/ Drawn(e, Passed(d, luck), n + 1, s)
  BY <1>1, <1>2, PassedFits
<1> QED
  BY <1>3, <1>4, <1>5, <1>6 DEF Fits

\* A riichi logs its declaration and waits for the discard.
LEMMA RiichiFits ==
  ASSUME Assumption, NEW e, Running(e), NEW luck
  PROVE  Opened(e, Step(e, [do |-> "riichi"], luck), 1, 0)
<1> DEFINE x == [e EXCEPT !.pending = e.turn]
<1>1. Opened(e, e, 0, 0)
  BY OpenedAtFirst
<1>2. e \in Engine /\ e.turn \in 0..N
  <2>1. e \in Engine /\ e.turn \in Seats
    BY EngineFields DEF Running
  <2> QED
    BY <2>1, SeatsAre DEF Seats
<1>3. /\ x \in Engine /\ SameLog(e, x) /\ SameMoney(e, x) /\ SameKyoku(e, x)
      /\ SameDealer(e, x) /\ SameTurn(e, x)
  BY <1>2, PendingMoves
<1> HIDE DEF x
<1>4. Opened(e, x, 0, 0)
  <2>1. Same(e, x)
    BY <1>1, <1>3 DEF Opened, Same, SameKyoku, SameDealer, SameTurn
  <2>2. Deposit(e, x, 0, 0)
    BY <1>1, <1>3 DEF Opened, Deposit, SameLog, SameMoney
  <2> QED
    BY <1>1, <1>3, <2>1, <2>2 DEF Opened, SameLog, SameMoney, SameKyoku
<1>5. Opened(e, Logged(x, Is("reach")), 0 + 1, 0)
  BY <1>4, OpenedByPlay
<1>6. Step(e, [do |-> "riichi"], luck) = Logged(x, Is("reach"))
  BY DEF Step, x
<1> QED
  BY <1>5, <1>6

\* A claimed win ends the Kyoku.
LEMMA WinFits ==
  ASSUME Assumption, NEW e, Running(e), NEW ws, NEW luck,
         \/ ws = {e.turn}
         \/ ws \in SUBSET (Seats \ {e.turn}) /\ ws # {}
  PROVE  Fits(e, Step(e, [do |-> "win", who |-> ws], luck))
<1>1. Step(e, [do |-> "win", who |-> ws], luck) = Winners([e EXCEPT !.pending = 0], ws)
  BY DEF Step
<1>2. Claimed(e, Winners([e EXCEPT !.pending = 0], ws))
  BY WinnersFit
<1> QED
  BY <1>1, <1>2 DEF Fits

\* The engine after a batch, before the end of the Kyoku is looked at.
All(e, batch, luck) ==
  IF Len(batch) = 1 THEN Step(e, batch[1], luck)
  ELSE Step(Step(e, batch[1], luck), batch[2], luck)

\* Every batch of a turn or of its answers goes on, or ends the Kyoku.
LEMMA BatchFits ==
  ASSUME Assumption, NEW e, Running(e), NEW batch \in Turns(e) \cup Answers(e),
         NEW luck \in Lucks(e)
  PROVE  Fits(e, All(e, batch, luck))
<1>1. Opened(e, e, 0, 0)
  BY OpenedAtFirst
<1>2. Lucky(luck) /\ luck.abort \in BOOLEAN
  BY LucksAreLucky
<1>3. CASE batch = <<[do |-> "discard"]>>
  <2>1. All(e, batch, luck) = Step(e, [do |-> "discard"], luck)
    BY <1>3 DEF All
  <2> QED
    BY <1>1, <2>1, DiscardFits
<1>4. CASE batch = <<[do |-> "riichi"], [do |-> "discard"]>>
  <2>1. All(e, batch, luck) =
          Step(Step(e, [do |-> "riichi"], luck), [do |-> "discard"], luck)
    BY <1>4 DEF All
  <2>2. Opened(e, Step(e, [do |-> "riichi"], luck), 1, 0)
    BY RiichiFits
  <2> QED
    BY <2>1, <2>2, DiscardFits
<1>5. CASE batch = <<[do |-> "nine"]>>
  <2>1. All(e, batch, luck) = Draw(e, "kyushu_kyuhai", Zero, Zero)
    BY <1>5 DEF All, Step
  <2>2. Drawn(e, Draw(e, "kyushu_kyuhai", Zero, Zero), 0, 0)
    BY <1>1, ZeroTotal, OpenedDraws
  <2>3. 0 \in Nat /\ 0 \in 0..N
    BY SeatsAre
  <2> QED
    BY <2>1, <2>2, <2>3 DEF Fits
<1>6. CASE batch = <<[do |-> "pass"]>>
  <2>1. All(e, batch, luck) = Passed(e, luck)
    BY <1>6 DEF All, Step
  <2>2. \E s \in 0..N : GoesOn(e, Passed(e, luck), 0, s) \/ Drawn(e, Passed(e, luck), 0, s)
    BY <1>1, <1>2, PassedFits
  <2> QED
    BY <2>1, <2>2 DEF Fits
<1>7. ASSUME NEW ws, batch = <<[do |-> "win", who |-> ws]>>,
             \/ ws = {e.turn}
             \/ ws \in SUBSET (Seats \ {e.turn}) /\ ws # {}
      PROVE  Fits(e, All(e, batch, luck))
  <2>1. All(e, batch, luck) = Step(e, [do |-> "win", who |-> ws], luck)
    BY <1>7 DEF All
  <2> QED
    BY <1>7, <2>1, WinFits
<1>8. ASSUME NEW ws \in SUBSET (Seats \ {e.turn}), Cardinality(ws) \in 1..2 PROVE ws # {}
  BY <1>8, FS_EmptySet
<1>9. CASE batch \in Turns(e)
  BY <1>3, <1>4, <1>5, <1>7, <1>9 DEF Turns
<1>10. CASE batch \in Answers(e)
  BY <1>6, <1>7, <1>8, <1>10 DEF Answers
<1> QED
  BY <1>9, <1>10

-----------------------------------------------------------------------------
(* The end of a Kyoku *)

\* The Match ends.
LEMMA StopMoves ==
  ASSUME NEW x \in Engine, NEW y, y = [x EXCEPT !.done = TRUE]
  PROVE  y \in Engine /\ y.done /\ y.won = x.won /\ SameLog(x, y) /\ SameMoney(x, y)
BY DEF Engine, SameLog, SameMoney

\* The next Kyoku is dealt.
LEMMA DealtMoves ==
  ASSUME NEW x \in Engine, NEW left \in Nat, NEW zero \in [Seats -> Int], NEW turn \in Seats,
         NEW kyoku \in 1..Kyokus, N \in Nat
  PROVE  LET y == [x EXCEPT !.kyoku = kyoku, !.turn = turn, !.left = left,
                            !.pending = 0, !.reached = {}, !.owed = zero, !.phase = "act",
                            !.won = <<>>]
         IN
         /\ y \in Engine /\ y.kyoku = kyoku /\ y.phase = "act" /\ y.won = <<>>
         /\ y.done = x.done /\ SameLog(x, y) /\ SameMoney(x, y) /\ SameDealer(x, y)
<1>1. <<>> \in Seq([seat : Seats, honba : Nat, base : Nat]) /\ 0 \in 0..N
  OBVIOUS
<1> QED
  BY <1>1 DEF Engine, SameLog, SameMoney, SameDealer

\* After a log, these two events.
Ends(x, y, a, b) ==
  LET n == Len(x.log) IN
  /\ Len(y.log) = n + 2 /\ y.log \in Seq(Event)
  /\ \A i \in 1..n : y.log[i] = x.log[i]
  /\ y.log[n + 1] = a /\ y.log[n + 2] = b

\* Two events logged, one after the other part of a step.
LEMMA LoggedTwice ==
  ASSUME NEW x \in Engine, NEW y \in Engine, NEW a \in Event, NEW b \in Event,
         SameLog(Logged(x, a), y)
  PROVE  LET z == Logged(y, b) IN
         /\ z \in Engine /\ Ends(x, z, a, b)
         /\ SameMoney(y, z) /\ SameKyoku(y, z) /\ SameDealer(y, z) /\ SameTurn(y, z)
<1> DEFINE z == Logged(y, b)
           l == Logged(x, a)
           n == Len(x.log)
<1>1. /\ l \in Engine /\ Len(l.log) = n + 1 /\ l.log[n + 1] = a
      /\ \A i \in 1..n : l.log[i] = x.log[i]
  BY LoggedIs
<1> HIDE DEF l
<1>2. /\ z \in Engine /\ Len(z.log) = Len(y.log) + 1 /\ z.log[Len(y.log) + 1] = b
      /\ \A i \in 1..Len(y.log) : z.log[i] = y.log[i]
      /\ SameMoney(y, z) /\ SameKyoku(y, z) /\ SameDealer(y, z) /\ SameTurn(y, z)
  BY LoggedIs
<1> HIDE DEF z
<1>3. n \in Nat /\ z.log \in Seq(Event) /\ y.log = l.log
  <2>1. x.log \in Seq(Event) /\ z.log \in Seq(Event)
    BY <1>2, EngineFields
  <2> QED
    BY <2>1 DEF SameLog, l
<1>4. Len(y.log) = n + 1
  BY <1>1, <1>3
<1>5. Len(z.log) = n + 2 /\ z.log[n + 2] = b
  <2>1. (n + 1) + 1 = n + 2
    BY <1>3
  <2> QED
    BY <1>2, <1>4, <2>1
<1>6. z.log[n + 1] = a /\ \A i \in 1..n : z.log[i] = x.log[i]
  <2>1. \A i \in 1..n + 1 : z.log[i] = y.log[i]
    BY <1>2, <1>4
  <2> HIDE DEF n
  <2>2. 1..n \in SUBSET (1..n + 1) /\ n + 1 \in 1..n + 1
    BY <1>3
  <2>3. ASSUME NEW i \in 1..n PROVE z.log[i] = x.log[i]
    BY <1>1, <1>3, <2>1, <2>2
  <2> QED
    BY <1>1, <1>3, <2>1, <2>2, <2>3
<1> HIDE DEF n
<1>7. Ends(x, z, a, b)
  BY <1>3, <1>5, <1>6 DEF Ends, n
<1> QED
  BY <1>2, <1>7 DEF z

\* The two events an end has.
LEMMA EventsOfEnd ==
  /\ Is("end_kyoku") \in Event /\ Is("end_kyoku").kind = "end_kyoku"
  /\ Is("end_game") \in Event /\ Is("end_game").kind = "end_game"
BY DEF Is, Event

\* The copy stops.
LEMMA CopyEnds ==
  ASSUME NEW x \in Engine
  PROVE  LET y == Ended(x, TRUE) IN
         /\ Ends(x, y, Is("end_kyoku"), Is("end_game"))
         /\ y.done /\ y.won = x.won /\ SameMoney(x, y)
<1> DEFINE end == Logged(x, Is("end_kyoku"))
           d == [end EXCEPT !.done = TRUE]
           y == Logged(d, Is("end_game"))
<1>1. y = Ended(x, TRUE)
  BY DEF Ended
<1>2. end \in Engine /\ SameMoney(x, end) /\ SameKyoku(x, end)
  BY EventsOfEnd, LoggedIs
<1>3. d \in Engine /\ d.done /\ d.won = end.won /\ SameLog(end, d) /\ SameMoney(end, d)
  <2> HIDE DEF end
  <2>1. end.pot \in Nat /\ end.scores \in [Seats -> Int]
    BY <1>2, EngineFields
  <2> QED
    BY <1>2, <2>1, StopMoves
<1> HIDE DEF d
<1>4. /\ Ends(x, y, Is("end_kyoku"), Is("end_game"))
      /\ SameMoney(d, y) /\ SameKyoku(d, y)
  BY <1>3, EventsOfEnd, LoggedTwice
<1> HIDE DEF y, end
<1>5. y.done /\ y.won = x.won /\ SameMoney(x, y)
  BY <1>2, <1>3, <1>4 DEF SameMoney, SameKyoku
<1> QED
  BY <1>1, <1>4, <1>5

\* The Match ends with this Kyoku: the last one, or a seat below zero.
Last(x) == x.kyoku = Kyokus \/ \E s \in Seats : x.scores[s] < 0

\* The Match ends.
LEMMA MatchEnds ==
  ASSUME Assumption, NEW x \in Engine, Last(x)
  PROVE  LET y == Ended(x, FALSE) IN
         /\ Ends(x, y, Is("end_kyoku"), Is("end_game"))
         /\ y \in Engine /\ y.done /\ y.kyoku = x.kyoku /\ y.pot = 0
         /\ y.scores = [x.scores EXCEPT ![Top(x.scores)] = @ + x.pot * Stick]
<1> DEFINE end == Logged(x, Is("end_kyoku"))
           top == Top(x.scores)
           scores == [x.scores EXCEPT ![top] = @ + x.pot * Stick]
           d == [end EXCEPT !.done = TRUE, !.pot = 0, !.scores = scores]
           y == Logged(d, Is("end_game"))
<1>1. end \in Engine /\ SameMoney(x, end) /\ SameKyoku(x, end)
  BY EventsOfEnd, LoggedIs
<1>2. y = Ended(x, FALSE)
  <2>1. end.scores = x.scores
    BY <1>1 DEF SameMoney
  <2>2. Ended(x, FALSE) =
          Logged([end EXCEPT !.done = TRUE, !.pot = 0, !.scores[top] = @ + x.pot * Stick],
                 Is("end_game"))
    BY DEF Ended, Last
  <2>3. [end EXCEPT !.done = TRUE, !.pot = 0, !.scores[top] = @ + x.pot * Stick] = d
    BY <2>1
  <2> QED
    BY <2>2, <2>3
<1>3. scores \in [Seats -> Int]
  <2>1. x.scores \in [Seats -> Int] /\ x.pot * Stick \in Int
    BY EngineFields DEF Stick
  <2>2. top \in Seats
    BY <2>1, TopLeads
  <2> HIDE DEF top
  <2> QED
    BY <2>1, <2>2, TotalOfOne
<1> HIDE DEF scores
<1>4. /\ d \in Engine /\ d.pot = 0 /\ d.scores = scores /\ d.done
      /\ d.kyoku = end.kyoku /\ SameLog(end, d)
  <2>1. ASSUME NEW y1, y1 = [end EXCEPT !.done = TRUE, !.pot = 0, !.scores = scores]
        PROVE  /\ y1 \in Engine /\ y1.pot = 0 /\ y1.scores = scores /\ y1.done
               /\ y1.kyoku = end.kyoku /\ SameLog(end, y1)
    <3> HIDE DEF end
    <3> QED
      BY <1>1, <1>3, <2>1 DEF Engine, SameLog
  <2> QED
    BY <2>1
<1> HIDE DEF d
<1>5. /\ y \in Engine /\ Ends(x, y, Is("end_kyoku"), Is("end_game"))
      /\ SameMoney(d, y) /\ SameKyoku(d, y)
  BY <1>4, EventsOfEnd, LoggedTwice
<1> HIDE DEF y, end
<1>6. y.done /\ y.kyoku = x.kyoku /\ y.pot = 0 /\ y.scores = scores
  BY <1>1, <1>4, <1>5 DEF SameMoney, SameKyoku
<1> QED
  BY <1>2, <1>5, <1>6 DEF scores

\* The next Kyoku is dealt.
LEMMA NextDeals ==
  ASSUME Assumption, NEW x \in Engine, ~Last(x), ~x.done
  PROVE  LET y == Ended(x, FALSE) IN
         /\ Ends(x, y, Is("end_kyoku"),
                 [kind |-> "start_kyoku", scores |-> x.scores, kyotaku |-> x.pot,
                  oya |-> x.dealer])
         /\ y \in Engine /\ ~y.done /\ y.kyoku = x.kyoku + 1 /\ y.phase = "act"
         /\ y.won = <<>> /\ y.dealer = x.dealer /\ SameMoney(x, y)
<1> DEFINE end == Logged(x, Is("end_kyoku"))
           left == Wall - 1
           turn == end.dealer
           kyoku == end.kyoku + 1
           ev == StartKyoku(end)
           d == [end EXCEPT !.kyoku = kyoku, !.turn = turn, !.left = left,
                            !.pending = 0, !.reached = {}, !.owed = Zero, !.phase = "act",
                            !.won = <<>>]
           y == Logged(d, ev)
<1>1. /\ end \in Engine /\ SameMoney(x, end) /\ SameKyoku(x, end) /\ SameDealer(x, end)
  BY EventsOfEnd, LoggedIs
<1>2. y = Ended(x, FALSE)
  <2>1. Ended(x, FALSE) = Dealt(end)
    BY DEF Ended, Last
  <2>2. Dealt(end) = y
    BY DEF Dealt
  <2> QED
    BY <2>1, <2>2
<1>3. ev = [kind |-> "start_kyoku", scores |-> x.scores, kyotaku |-> x.pot, oya |-> x.dealer]
  BY <1>1 DEF StartKyoku, SameMoney, SameDealer
<1>4. ev \in Event
  <2>1. x.scores \in [Seats -> Int] /\ x.pot \in Nat /\ x.dealer \in Seats
    BY EngineFields
  <2> HIDE DEF ev
  <2> QED
    BY <1>3, <2>1 DEF Event
<1> HIDE DEF end, ev
<1>5. kyoku \in 1..Kyokus /\ turn \in Seats /\ left \in Nat /\ Zero \in [Seats -> Int]
      /\ N \in Nat
  <2>1. x.kyoku \in 1..Kyokus /\ x.kyoku # Kyokus /\ end.kyoku = x.kyoku
    BY <1>1, EngineFields DEF Last, SameKyoku
  <2>2. kyoku \in 1..Kyokus
    BY <2>1 DEF Assumption
  <2>3. left \in Nat
    BY DEF Assumption
  <2>4. turn \in Seats
    BY <1>1, EngineFields
  <2> QED
    BY <2>2, <2>3, <2>4, ZeroTotal, SeatsAre
<1> HIDE DEF kyoku, turn, left
<1>6. /\ d \in Engine /\ d.kyoku = kyoku /\ d.phase = "act" /\ d.won = <<>>
      /\ d.done = end.done /\ SameLog(end, d) /\ SameMoney(end, d) /\ SameDealer(end, d)
  BY <1>1, <1>5, DealtMoves
<1> HIDE DEF d
<1>7. /\ y \in Engine /\ Ends(x, y, Is("end_kyoku"), ev)
      /\ SameMoney(d, y) /\ SameKyoku(d, y) /\ SameDealer(d, y) /\ SameTurn(d, y)
  BY <1>1, <1>4, <1>6, EventsOfEnd, LoggedTwice DEF end
<1> HIDE DEF y
<1>8. /\ ~y.done /\ y.kyoku = x.kyoku + 1 /\ y.phase = "act" /\ y.won = <<>>
      /\ y.dealer = x.dealer /\ SameMoney(x, y)
  BY <1>1, <1>6, <1>7 DEF SameMoney, SameKyoku, SameDealer, SameTurn, kyoku
<1> QED
  BY <1>2, <1>3, <1>7, <1>8

-----------------------------------------------------------------------------
(* The record *)

\* What follows the end of a Kyoku.
Closes(b) == b.kind \in {"end_game", "start_kyoku"}

\* Where the reader finds what it looks for in the log of a draw.
LEMMA DrawnPlaces ==
  ASSUME NEW e, NEW x, NEW n, NEW s, Drawn(e, x, n, s), NEW y, NEW b, Closes(b),
         Ends(x, y, Is("end_kyoku"), b)
  PROVE  LET m == Len(x.log) IN
         /\ m \in Nat \ {0} /\ y.log[m].kind = "ryukyoku" /\ y.log[m] = x.log[m]
         /\ At(y.log, {"hora"}) = {} /\ At(y.log, {"ryukyoku"}) = {m}
         /\ At(y.log, {"hora", "ryukyoku"}) = {m} /\ At(y.log, {"end_kyoku"}) = {m + 1}
         /\ (b.kind # "start_kyoku" => ~Has(y.log, "start_kyoku"))
<1> DEFINE m == Len(x.log)
<1>1. x.log \in Seq(Event) /\ m \in Nat /\ n \in Nat /\ Few(s) \in {0, 1} /\ m = n + Few(s) + 1
  BY EngineFields DEF Drawn, Finished, Deposit, Few
<1>2. /\ \A i \in 1..m - 1 : x.log[i].kind \in {"reach", "dahai", "reach_accepted"}
      /\ x.log[m].kind = "ryukyoku"
  BY <1>1 DEF Drawn, Deposit, Few
<1>3. /\ y.log \in Seq(Event) /\ Len(y.log) = m + 2 /\ DOMAIN y.log = 1..m + 2
      /\ \A i \in 1..m : y.log[i] = x.log[i]
      /\ y.log[m + 1].kind = "end_kyoku" /\ y.log[m + 2] = b
  BY DEF Ends, Is
<1> HIDE DEF m
<1>4. /\ \A i \in 1..m - 1 : y.log[i].kind \in {"reach", "dahai", "reach_accepted"}
      /\ y.log[m].kind = "ryukyoku" /\ y.log[m] = x.log[m]
      /\ y.log[m + 2].kind \in {"end_game", "start_kyoku"}
  <2>1. m \in 1..m /\ \A i \in 1..m - 1 : i \in 1..m
    BY <1>1
  <2>2. y.log[m] = x.log[m] /\ \A i \in 1..m - 1 : y.log[i] = x.log[i]
    BY <1>3, <2>1
  <2>3. y.log[m + 2].kind \in {"end_game", "start_kyoku"}
    BY <1>3 DEF Closes
  <2> QED
    BY <1>2, <2>2, <2>3
<1>5. \A i \in 1..m + 2 : i \in 1..m - 1 \/ i = m \/ i = m + 1 \/ i = m + 2
  BY <1>1
<1>6. m \in 1..m + 2 /\ m + 1 \in 1..m + 2 /\ m \in Nat \ {0}
  BY <1>1
<1>7. /\ At(y.log, {"hora"}) = {} /\ At(y.log, {"ryukyoku"}) = {m}
      /\ At(y.log, {"hora", "ryukyoku"}) = {m} /\ At(y.log, {"end_kyoku"}) = {m + 1}
  BY <1>3, <1>4, <1>5, <1>6 DEF At
<1>8. b.kind # "start_kyoku" => ~Has(y.log, "start_kyoku")
  BY <1>3, <1>4, <1>5 DEF Has
<1> QED
  BY <1>4, <1>6, <1>7, <1>8 DEF m

\* Where it finds it in the log of wins.
LEMMA WonPlaces ==
  ASSUME NEW e, NEW x, WonBy(e, x), NEW y, NEW b, Closes(b), Ends(x, y, Is("end_kyoku"), b)
  PROVE  LET m == Len(x.log) IN
         /\ m \in {1, 2} /\ m = Len(x.won) /\ \A i \in 1..m : y.log[i] = x.log[i]
         /\ At(y.log, {"hora"}) = 1..m /\ At(y.log, {"ryukyoku"}) = {}
         /\ At(y.log, {"hora", "ryukyoku"}) = 1..m /\ At(y.log, {"end_kyoku"}) = {m + 1}
         /\ (b.kind # "start_kyoku" => ~Has(y.log, "start_kyoku"))
<1> DEFINE m == Len(x.log)
<1>1. m \in {1, 2} /\ m = Len(x.won) /\ \A i \in 1..m : x.log[i].kind = "hora"
  BY DEF WonBy, Claims
<1>2. /\ y.log \in Seq(Event) /\ Len(y.log) = m + 2 /\ DOMAIN y.log = 1..m + 2
      /\ \A i \in 1..m : y.log[i] = x.log[i]
      /\ y.log[m + 1].kind = "end_kyoku" /\ y.log[m + 2] = b
  BY DEF Ends, Is
<1> HIDE DEF m
<1>3. y.log[m + 2].kind \in {"end_game", "start_kyoku"}
  BY <1>2 DEF Closes
<1>4. \A i \in 1..m + 2 : i \in 1..m \/ i = m + 1 \/ i = m + 2
  BY <1>1
<1>5. 1..m \subseteq 1..m + 2 /\ m + 1 \in 1..m + 2 /\ m + 1 \notin 1..m /\ m + 2 \notin 1..m
  BY <1>1
<1>6. \A i \in 1..m : y.log[i].kind = "hora"
  BY <1>1, <1>2
<1>7. /\ At(y.log, {"hora"}) = 1..m /\ At(y.log, {"ryukyoku"}) = {}
      /\ At(y.log, {"hora", "ryukyoku"}) = 1..m /\ At(y.log, {"end_kyoku"}) = {m + 1}
  BY <1>2, <1>3, <1>4, <1>5, <1>6 DEF At
<1>8. b.kind # "start_kyoku" => ~Has(y.log, "start_kyoku")
  BY <1>2, <1>3, <1>4, <1>6 DEF Has
<1> QED
  BY <1>1, <1>2, <1>7, <1>8 DEF m

\* The first places, one or two.
LEMMA FirstPlaces ==
  ASSUME NEW m \in {1, 2}
  PROVE  Cardinality(1..m) = m /\ \A k \in 1..m : Nth(1..m, k) = k
<1>1. CASE m = 1
  <2>1. 1..m = {1} /\ Cardinality({1}) = 1 /\ Nth({1}, 1) = 1
    BY <1>1, OnePlace
  <2> QED
    BY <1>1, <2>1
<1>2. CASE m = 2
  <2> DEFINE t == 1
  <2>1. 1..m = {t, t + 1} /\ t \in Int
    BY <1>2
  <2>2. Cardinality({t, t + 1}) = 2 /\ Nth({t, t + 1}, 1) = t /\ Nth({t, t + 1}, 2) = t + 1
    BY TwoPlaces
  <2> HIDE DEF t
  <2>3. Cardinality(1..m) = 2 /\ Nth(1..m, 1) = t /\ Nth(1..m, 2) = t + 1
    BY <2>1, <2>2
  <2>4. \A k \in 1..m : k = 1 \/ k = 2
    BY <1>2
  <2> QED
    BY <1>2, <2>3, <2>4 DEF t
<1> QED
  BY <1>1, <1>2

\* The copy and the Match have the same terminal events.
LEMMA SameTerminals ==
  ASSUME NEW e, NEW x, Claimed(e, x) \/ \E n, s : Drawn(e, x, n, s),
         NEW y, NEW b, Closes(b), Ends(x, y, Is("end_kyoku"), b),
         NEW z, NEW c, Closes(c), Ends(x, z, Is("end_kyoku"), c)
  PROVE  Terminals(y.log) = Terminals(z.log)
<1> DEFINE m == Len(x.log)
<1>1. CASE Claimed(e, x)
  <2>1. /\ m \in {1, 2} /\ At(y.log, {"hora", "ryukyoku"}) = 1..m
        /\ At(z.log, {"hora", "ryukyoku"}) = 1..m
        /\ \A i \in 1..m : y.log[i] = x.log[i] /\ z.log[i] = x.log[i]
    BY <1>1, WonPlaces DEF Claimed
  <2> HIDE DEF m
  <2>2. Cardinality(1..m) = m /\ \A k \in 1..m : Nth(1..m, k) = k
    BY <2>1, FirstPlaces
  <2>3. Terminals(y.log) = [k \in 1..m |-> y.log[Nth(1..m, k)]]
    BY <2>1, <2>2 DEF Terminals, Only
  <2>4. Terminals(z.log) = [k \in 1..m |-> z.log[Nth(1..m, k)]]
    BY <2>1, <2>2 DEF Terminals, Only
  <2>5. \A k \in 1..m : y.log[Nth(1..m, k)] = z.log[Nth(1..m, k)]
    BY <2>1, <2>2
  <2> QED
    BY <2>3, <2>4, <2>5
<1>2. ASSUME NEW n, NEW s, Drawn(e, x, n, s) PROVE Terminals(y.log) = Terminals(z.log)
  <2>1. /\ m \in Nat /\ At(y.log, {"hora", "ryukyoku"}) = {m}
        /\ At(z.log, {"hora", "ryukyoku"}) = {m} /\ y.log[m] = x.log[m] /\ z.log[m] = x.log[m]
    BY <1>2, DrawnPlaces
  <2> HIDE DEF m
  <2>2. Cardinality({m}) = 1 /\ Nth({m}, 1) = m
    BY <2>1, OnePlace
  <2>3. Terminals(y.log) = [k \in 1..1 |-> y.log[Nth({m}, k)]]
    BY <2>1, <2>2 DEF Terminals, Only
  <2>4. Terminals(z.log) = [k \in 1..1 |-> z.log[Nth({m}, k)]]
    BY <2>1, <2>2 DEF Terminals, Only
  <2>5. \A k \in 1..1 : y.log[Nth({m}, k)] = z.log[Nth({m}, k)]
    BY <2>1, <2>2
  <2> QED
    BY <2>3, <2>4, <2>5
<1> QED
  BY <1>1, <1>2

\* What the record of the i-th winner has to say.
WinOf(e, x, first, i) ==
  LET seat == x.won[i].seat
      tsumo == seat = e.turn
  IN [index |-> first + i - 1, seat |-> seat, target |-> e.turn, tsumo |-> tsumo,
      points |-> WinPoints(seat = e.dealer, tsumo), agreed |-> TRUE]

\* What the engine paid is what the adapter calculates.
LEMMA WinRecordIs ==
  ASSUME Assumption, NEW e, NEW x, WonBy(e, x), NEW copy, copy.won = x.won, NEW new,
         \A i \in 1..Len(x.won) : new[i] = x.log[i], NEW first \in Nat, NEW i \in 1..Len(x.won)
  PROVE  WinRecord(e, copy, new, first, i) = WinOf(e, x, first, i)
<1> DEFINE ev == new[i]
           later == \E j \in 1..i - 1 : new[j].kind = "hora"
           adjudicated == copy.won[CHOOSE k \in DOMAIN copy.won : copy.won[k].seat = ev.actor]
           tsumo == x.won[i].seat = e.turn
           points == WinPoints(x.won[i].seat = e.dealer, tsumo)
<1>1. /\ Len(x.won) \in {1, 2} /\ \A k \in 1..Len(x.won) : Claims(e, x, k)
      /\ Len(x.won) = 2 =>
           /\ x.won[1].seat # x.won[2].seat
           /\ x.won[1].seat # e.turn /\ x.won[2].seat # e.turn
      /\ DOMAIN x.won = 1..Len(x.won)
  <2>1. x.won \in Seq([seat : Seats, honba : Nat, base : Nat])
    BY EngineFields DEF WonBy
  <2> QED
    BY <2>1 DEF WonBy
<1>0. i = 1 \/ i = 2
  <2> DEFINE w == Len(x.won)
  <2>1. i \in 1..w /\ (w = 1 \/ w = 2)
    BY <1>1
  <2> HIDE DEF w
  <2> QED
    BY <2>1
<1>2. ev.actor = x.won[i].seat /\ ev.target = e.turn
  BY <1>1 DEF Claims
<1>3. \A k \in 1..Len(x.won) : x.won[k].seat = x.won[i].seat => k = i
  BY <1>1
<1>4. adjudicated = x.won[i]
  BY <1>1, <1>2, <1>3
<1>5. later <=> i = 2
  <2>1. i = 1 \/ i = 2
    BY <1>0
  <2>2. CASE i = 1
    BY <2>2
  <2>3. CASE i = 2
    <3>1. 1 \in 1..i - 1 /\ 1 \in 1..Len(x.won) /\ new[1] = x.log[1]
      BY <2>3
    <3>2. new[1].kind = "hora"
      BY <1>1, <3>1 DEF Claims
    <3> QED
      BY <2>3, <3>1, <3>2
  <2> QED
    BY <2>1, <2>2, <2>3
<1>6. Agreed(e, x.won[i], later, tsumo, points) = TRUE
  <2>1. Claims(e, x, i)
    BY <1>1
  <2>2. i = 1 \/ i = 2
    BY <1>0
  <2> HIDE DEF later
  <2>3. x.won[i].base = points
    BY <2>1 DEF Claims
  <2>4. x.won[i].honba = IF tsumo \/ ~later THEN e.honba ELSE 0
    BY <1>5, <2>1, <2>2 DEF Claims
  <2>5. Agreed(e, x.won[i], later, tsumo, points)
    BY <2>3, <2>4 DEF Agreed
  <2>6. Agreed(e, x.won[i], later, tsumo, points) \in BOOLEAN
    BY DEF Agreed
  <2> QED
    BY <2>5, <2>6
<1>7. WinRecord(e, copy, new, first, i) =
        [index |-> first + i - 1, seat |-> ev.actor, target |-> ev.target,
         tsumo |-> ev.actor = ev.target,
         points |-> WinPoints(ev.actor = e.dealer, ev.actor = ev.target),
         agreed |-> Agreed(e, adjudicated, later, ev.actor = ev.target,
                           WinPoints(ev.actor = e.dealer, ev.actor = ev.target))]
  BY DEF WinRecord
<1> HIDE DEF ev, later, adjudicated
<1> QED
  BY <1>2, <1>4, <1>6, <1>7 DEF WinOf

\* A Kyoku that is over, one way or the other.
Settles(e, x) == Claimed(e, x) \/ \E n \in Nat, s \in 0..N : Drawn(e, x, n, s)

\* How the real engine and its copy end a Kyoku: the copy has the same events and
\* never begins another Kyoku.
LEMMA RealEnds ==
  ASSUME Assumption, NEW x \in Engine, ~x.done
  PROVE  LET real == Ended(x, FALSE)
             copy == Ended(x, TRUE)
         IN
         /\ real \in Engine /\ real.done = Last(x)
         /\ real.pot = (IF Last(x) THEN 0 ELSE x.pot)
         /\ real.scores = IF Last(x) THEN [x.scores EXCEPT ![Top(x.scores)] = @ + x.pot * Stick]
                          ELSE x.scores
         /\ \E b : Closes(b) /\ Ends(x, real, Is("end_kyoku"), b)
         /\ \E b : Closes(b) /\ b.kind = "end_game" /\ Ends(x, copy, Is("end_kyoku"), b)
         /\ copy.done /\ copy.won = x.won /\ copy.scores = x.scores /\ copy.pot = x.pot
<1> DEFINE real == Ended(x, FALSE)
           copy == Ended(x, TRUE)
<1>1. /\ Ends(x, copy, Is("end_kyoku"), Is("end_game"))
      /\ copy.done /\ copy.won = x.won /\ SameMoney(x, copy)
  BY CopyEnds
<1> HIDE DEF copy
<1>2. Closes(Is("end_game")) /\ Is("end_game").kind = "end_game"
  BY EventsOfEnd DEF Closes
<1>3. /\ copy.done /\ copy.won = x.won /\ copy.scores = x.scores /\ copy.pot = x.pot
      /\ \E b : Closes(b) /\ b.kind = "end_game" /\ Ends(x, copy, Is("end_kyoku"), b)
  BY <1>1, <1>2 DEF SameMoney
<1>4. ASSUME Last(x)
      PROVE  /\ real \in Engine /\ real.done /\ real.pot = 0
             /\ real.scores = [x.scores EXCEPT ![Top(x.scores)] = @ + x.pot * Stick]
             /\ \E b : Closes(b) /\ Ends(x, real, Is("end_kyoku"), b)
  BY <1>2, <1>4, MatchEnds
<1>5. ASSUME ~Last(x)
      PROVE  /\ real \in Engine /\ ~real.done /\ real.pot = x.pot /\ real.scores = x.scores
             /\ \E b : Closes(b) /\ Ends(x, real, Is("end_kyoku"), b)
  <2> DEFINE b == [kind |-> "start_kyoku", scores |-> x.scores, kyotaku |-> x.pot,
                   oya |-> x.dealer]
  <2>1. /\ Ends(x, real, Is("end_kyoku"), b) /\ real \in Engine /\ ~real.done
        /\ SameMoney(x, real)
    BY <1>5, NextDeals
  <2>2. Closes(b)
    BY DEF Closes
  <2> HIDE DEF b, real
  <2> QED
    BY <2>1, <2>2 DEF SameMoney
<1> HIDE DEF real
<1>6. real \in Engine
  BY <1>4, <1>5
<1>7. real.done \in BOOLEAN /\ Last(x) \in BOOLEAN
  BY <1>6, EngineFields DEF Last
<1>8. real.done = Last(x)
  BY <1>4, <1>5, <1>7
<1>9. /\ real.pot = (IF Last(x) THEN 0 ELSE x.pot)
      /\ real.scores = IF Last(x) THEN [x.scores EXCEPT ![Top(x.scores)] = @ + x.pot * Stick]
                       ELSE x.scores
      /\ \E b : Closes(b) /\ Ends(x, real, Is("end_kyoku"), b)
  BY <1>4, <1>5
<1> QED
  BY <1>3, <1>6, <1>8, <1>9 DEF real, copy

\* The wins of a log are the engine's winners, and one event ends the Kyoku.
LEMMA HoraPlaces ==
  ASSUME NEW e, NEW x, Settles(e, x), NEW y, NEW b, Closes(b),
         Ends(x, y, Is("end_kyoku"), b)
  PROVE  /\ Cardinality(At(y.log, {"hora"})) = Len(x.won)
         /\ At(y.log, {"end_kyoku"}) = {Len(x.log) + 1} /\ Len(x.log) \in Nat
         /\ Nth(At(y.log, {"end_kyoku"}), 1) = Len(x.log) + 1
<1>0. ASSUME NEW m \in Nat PROVE Nth({m + 1}, 1) = m + 1
  <2> DEFINE t == m + 1
  <2>1. t \in Int
    OBVIOUS
  <2> HIDE DEF t
  <2>2. Nth({t}, 1) = t
    BY <2>1, OnePlace
  <2> QED
    BY <2>2 DEF t
<1>1. CASE Claimed(e, x)
  <2>1. /\ Len(x.log) \in {1, 2} /\ Len(x.log) = Len(x.won)
        /\ At(y.log, {"hora"}) = 1..Len(x.log)
        /\ At(y.log, {"end_kyoku"}) = {Len(x.log) + 1}
    BY <1>1, WonPlaces DEF Claimed
  <2>2. Cardinality(1..Len(x.log)) = Len(x.log)
    BY <2>1, FirstPlaces
  <2>3. Nth({Len(x.log) + 1}, 1) = Len(x.log) + 1
    BY <1>0, <2>1
  <2>4. Len(x.log) \in Nat
    BY <2>1
  <2> QED
    BY <2>1, <2>2, <2>3, <2>4
<1>2. ASSUME NEW n, NEW s, Drawn(e, x, n, s)
      PROVE  /\ Cardinality(At(y.log, {"hora"})) = Len(x.won)
             /\ At(y.log, {"end_kyoku"}) = {Len(x.log) + 1} /\ Len(x.log) \in Nat
             /\ Nth(At(y.log, {"end_kyoku"}), 1) = Len(x.log) + 1
  <2>1. /\ Len(x.log) \in Nat /\ At(y.log, {"hora"}) = {}
        /\ At(y.log, {"end_kyoku"}) = {Len(x.log) + 1}
    BY <1>2, DrawnPlaces
  <2>2. Len(x.won) = 0
    BY <1>2 DEF Drawn
  <2>3. Nth({Len(x.log) + 1}, 1) = Len(x.log) + 1
    BY <1>0, <2>1
  <2> QED
    BY <2>1, <2>2, <2>3, FS_EmptySet
<1> QED
  BY <1>1, <1>2 DEF Settles

\* The copy and the real engine settle alike, so the capture is accepted.
LEMMA CaptureFits ==
  ASSUME Assumption, NEW e, NEW x \in Engine, ~x.done, Settles(e, x)
  PROVE  CaptureAgrees(Ended(x, TRUE), Ended(x, FALSE), Ended(x, FALSE).log)
<1> DEFINE real == Ended(x, FALSE)
           copy == Ended(x, TRUE)
           awarded == [x.scores EXCEPT ![Top(x.scores)] = @ + x.pot * Stick]
<1>1. /\ real.done = Last(x) /\ real.pot = (IF Last(x) THEN 0 ELSE x.pot)
      /\ real.scores = IF Last(x) THEN awarded ELSE x.scores
      /\ \E b : Closes(b) /\ Ends(x, real, Is("end_kyoku"), b)
      /\ \E b : Closes(b) /\ b.kind = "end_game" /\ Ends(x, copy, Is("end_kyoku"), b)
      /\ copy.done /\ copy.won = x.won /\ copy.scores = x.scores /\ copy.pot = x.pot
  BY RealEnds
<1> HIDE DEF real, copy
<1>2. ~Has(copy.log, "start_kyoku")
  <2>1. PICK b : Closes(b) /\ b.kind = "end_game" /\ Ends(x, copy, Is("end_kyoku"), b)
    BY <1>1
  <2>2. CASE Claimed(e, x)
    BY <2>1, <2>2, WonPlaces DEF Claimed
  <2>3. CASE \E n \in Nat, s \in 0..N : Drawn(e, x, n, s)
    BY <2>1, <2>3, DrawnPlaces
  <2> QED
    BY <2>2, <2>3 DEF Settles
<1>3. Terminals(copy.log) = Terminals(real.log)
  BY <1>1, SameTerminals DEF Settles
<1>4. Len(copy.won) = Cardinality(At(real.log, {"hora"}))
  BY <1>1, HoraPlaces
<1>5. real.pot = copy.pot \/ (real.done /\ real.pot = 0)
  BY <1>1
<1>6. real.scores = AwardedByEnd(copy, real)
  <2>1. x.pot \in Nat /\ x.scores \in [Seats -> Int]
    BY EngineFields
  <2>2. AwardedByEnd(copy, real) =
          IF real.done /\ x.pot > 0 /\ real.pot = 0 THEN awarded ELSE x.scores
    BY <1>1 DEF AwardedByEnd
  <2>3. x.pot = 0 => awarded = x.scores
    <3>1. Top(x.scores) \in Seats
      BY <2>1, TopLeads
    <3>2. x.pot = 0 => awarded = [x.scores EXCEPT ![Top(x.scores)] = @ + 0]
      BY DEF Stick
    <3> QED
      BY <2>1, <3>1, <3>2
  <2> HIDE DEF awarded
  <2> QED
    BY <1>1, <2>1, <2>2, <2>3
<1> QED
  BY <1>1, <1>2, <1>3, <1>4, <1>5, <1>6 DEF CaptureAgrees, real, copy

\* What a record says of the end x of a Kyoku that e began and `real` goes on from.
RecordIs(r, e, x, real, seq, first) ==
  /\ r \in Result /\ RecordValid(r) /\ r.seq = seq /\ r.end = first + Len(x.log)
  /\ r.potBefore = e.pot /\ r.potAfter = real.pot
  /\ Before(r) = e.scores /\ After(r) = real.scores
  /\ Len(r.wins) = Len(x.won)
  /\ \A i \in 1..Len(x.won) :
       /\ r.wins[i].index = first + i - 1 /\ r.wins[i].seat = x.won[i].seat
       /\ r.wins[i].target = e.turn /\ r.wins[i].agreed
       /\ r.wins[i].points = WinPoints(r.wins[i].seat = e.dealer, r.wins[i].tsumo)
  /\ r.wins = <<>> =>
       LET ev == x.log[Len(x.log)] IN
       /\ r.reason = ev.reason /\ Len(r.adjustment) = 1
       /\ r.adjustment[1] = Less(ev.delta, Less(x.scores, e.scores))

\* The changes of a record are those between two engines.
LEMMA SettledIs ==
  ASSUME NEW e, NEW real, e.scores \in [Seats -> Int], real.scores \in [Seats -> Int],
         NEW r, r.changes = Settled(e, real)
  PROVE  /\ r.changes \in [Seats -> [before : Int, after : Int, delta : Int]]
         /\ Before(r) = e.scores /\ After(r) = real.scores
         /\ \A s \in Seats : r.changes[s].before + r.changes[s].delta = r.changes[s].after
<1>2. ASSUME NEW s \in Seats
      PROVE  /\ r.changes[s] \in [before : Int, after : Int, delta : Int]
             /\ r.changes[s].before = e.scores[s] /\ r.changes[s].after = real.scores[s]
             /\ r.changes[s].before + r.changes[s].delta = r.changes[s].after
  <2>1. PICK b \in Int, a \in Int : b = e.scores[s] /\ a = real.scores[s]
    OBVIOUS
  <2>2. r.changes[s] = [before |-> b, after |-> a, delta |-> a - b]
    BY <2>1 DEF Settled
  <2>3. PICK d \in Int : d = a - b
    OBVIOUS
  <2>4. b + d = a
    BY <2>3
  <2> QED
    BY <2>1, <2>2, <2>3, <2>4
<1>3. r.changes \in [Seats -> [before : Int, after : Int, delta : Int]]
  <2>1. DOMAIN r.changes = Seats /\ r.changes = [s \in Seats |-> r.changes[s]]
    BY DEF Settled
  <2> QED
    BY <1>2, <2>1
<1>4. Before(r) = e.scores /\ After(r) = real.scores
  BY <1>2 DEF Before, After
<1> QED
  BY <1>2, <1>3, <1>4

\* The records of winners.
Wins == [index : Int, seat : Seats, target : Seats, tsumo : BOOLEAN, points : Nat,
         agreed : BOOLEAN]

\* The record with its parts named.
LEMMA ResultRecordIs ==
  ASSUME NEW e, NEW copy, NEW real, NEW new, NEW seq, NEW first
  PROVE  LET r == ResultRecord(e, copy, real, new, seq, first)
             wins == At(new, {"hora"})
             draws == At(new, {"ryukyoku"})
             draw == new[Nth(draws, 1)]
         IN
         r = [seq |-> seq, end |-> first + Nth(At(new, {"end_kyoku"}), 1) - 1,
              wins |-> [k \in 1..Cardinality(wins) |->
                          WinRecord(e, copy, new, first, Nth(wins, k))],
              changes |-> Settled(e, real),
              potBefore |-> e.pot, potAfter |-> real.pot,
              reason |-> IF draws = {} THEN "" ELSE draw.reason,
              adjustment |-> IF draws = {} THEN <<>> ELSE <<Adjustment(e, copy, draw)>>]
BY DEF ResultRecord

\* What the record of a Kyoku with winners holds.
LEMMA WonRecord ==
  ASSUME Assumption, NEW e \in Engine, NEW x \in Engine, WonBy(e, x), NEW copy,
         copy.won = x.won, NEW real, real.scores \in [Seats -> Int], real.pot \in Nat,
         NEW b, Closes(b), Ends(x, real, Is("end_kyoku"), b),
         NEW seq \in Nat \ {0}, NEW first \in Nat
  PROVE  RecordIs(ResultRecord(e, copy, real, real.log, seq, first), e, x, real, seq, first)
<1> DEFINE r == ResultRecord(e, copy, real, real.log, seq, first)
           m == Len(x.won)
           win(i) == WinOf(e, x, first, i)
           wins == [i \in 1..m |-> win(i)]
<1>1. /\ m \in {1, 2} /\ Len(x.log) = m /\ \A i \in 1..m : real.log[i] = x.log[i]
      /\ At(real.log, {"hora"}) = 1..m /\ At(real.log, {"ryukyoku"}) = {}
      /\ At(real.log, {"end_kyoku"}) = {m + 1}
  <2> DEFINE l == Len(x.log)
  <2>1. /\ l \in {1, 2} /\ l = Len(x.won) /\ \A i \in 1..l : real.log[i] = x.log[i]
        /\ At(real.log, {"hora"}) = 1..l /\ At(real.log, {"ryukyoku"}) = {}
        /\ At(real.log, {"end_kyoku"}) = {l + 1}
    BY WonPlaces
  <2>2. m = l
    BY <2>1
  <2> HIDE DEF m
  <2> QED
    BY <2>1, <2>2
<1>2. Nth({m + 1}, 1) = m + 1
  <2>1. PICK t \in Int : t = m + 1
    BY <1>1
  <2> QED
    BY <2>1, OnePlace
<1>3. Cardinality(1..m) = m /\ \A k \in 1..m : Nth(1..m, k) = k
  BY <1>1, FirstPlaces
<1>4. \A i \in 1..m : WinRecord(e, copy, real.log, first, i) = win(i)
  <2> HIDE DEF win
  <2>1. \A i \in 1..Len(x.won) : real.log[i] = x.log[i]
    BY <1>1
  <2>2. \A i \in 1..Len(x.won) : WinRecord(e, copy, real.log, first, i) = WinOf(e, x, first, i)
    BY <2>1, WinRecordIs
  <2> QED
    BY <2>2 DEF win
<1>5. r = [seq |-> seq, end |-> first + (m + 1) - 1, wins |-> wins,
           changes |-> Settled(e, real), potBefore |-> e.pot, potAfter |-> real.pot,
           reason |-> "", adjustment |-> <<>>]
  <2>1. [k \in 1..Cardinality(1..m) |-> WinRecord(e, copy, real.log, first, Nth(1..m, k))]
          = wins
    <3> HIDE DEF win, m
    <3> QED
      BY <1>3, <1>4
  <2> HIDE DEF wins, m
  <2> QED
    BY <1>1, <1>2, <2>1, ResultRecordIs
<1>6. /\ r.seq = seq /\ r.end = first + m /\ r.wins = wins /\ r.changes = Settled(e, real)
      /\ r.potBefore = e.pot /\ r.potAfter = real.pot /\ r.reason = ""
      /\ r.adjustment = <<>>
  <2>1. first + (m + 1) - 1 = first + m
    BY <1>1
  <2> HIDE DEF r, m, wins
  <2> QED
    BY <1>5, <2>1
<1>7. /\ r.changes \in [Seats -> [before : Int, after : Int, delta : Int]]
      /\ Before(r) = e.scores /\ After(r) = real.scores
      /\ \A s \in Seats : r.changes[s].before + r.changes[s].delta = r.changes[s].after
  <2>1. e.scores \in [Seats -> Int] /\ r.changes = Settled(e, real)
    BY <1>6, EngineFields
  <2> HIDE DEF r
  <2> QED
    BY <2>1, SettledIs
<1>8. \A i \in 1..m : win(i) \in Wins
  <2>1. ASSUME NEW i \in 1..m PROVE win(i) \in Wins
    <3> DEFINE seat == x.won[i].seat
               tsumo == seat = e.turn
    <3>1. e.turn \in Seats
      BY EngineFields
    <3>2. seat \in Seats
      BY DEF WonBy, Claims
    <3>3. WinPoints(seat = e.dealer, tsumo) \in Nat /\ tsumo \in BOOLEAN
      BY WinPointsAre
    <3>4. first + i - 1 \in Int
      <4>1. i \in Int
        BY <1>1
      <4> QED
        BY <4>1
    <3> HIDE DEF seat, tsumo
    <3>5. [index |-> first + i - 1, seat |-> seat, target |-> e.turn, tsumo |-> tsumo,
           points |-> WinPoints(seat = e.dealer, tsumo), agreed |-> TRUE] \in Wins
      BY <3>1, <3>2, <3>3, <3>4 DEF Wins
    <3> QED
      BY <3>5 DEF seat, tsumo, win, WinOf
  <2> QED
    BY <2>1
<1>9. /\ wins \in Seq(Wins) /\ Len(wins) = m /\ wins # <<>> /\ DOMAIN wins = 1..m
      /\ \A i \in 1..m : wins[i] = win(i)
  <2> HIDE DEF win, m
  <2>1. wins \in [1..m -> Wins] /\ m \in Nat /\ m # 0
    BY <1>1, <1>8
  <2>2. wins \in Seq(Wins) /\ Len(wins) = m /\ DOMAIN wins = 1..m
    BY <2>1
  <2>3. wins # <<>>
    BY <2>1, <2>2
  <2> QED
    BY <2>2, <2>3
<1> HIDE DEF wins
<1>10. r \in Result
  <2>1. e.pot \in Nat
    BY EngineFields
  <2>2. first + (m + 1) - 1 \in Nat
    BY <1>1
  <2>3. <<>> \in Seq([Seats -> Int])
    OBVIOUS
  <2>4. Settled(e, real) \in [Seats -> [before : Int, after : Int, delta : Int]]
    BY <1>6, <1>7
  <2>5. wins \in Seq([index : Int, seat : Seats, target : Seats, tsumo : BOOLEAN,
                      points : Nat, agreed : BOOLEAN])
    BY <1>9 DEF Wins
  <2> HIDE DEF r, m
  <2> QED
    BY <1>5, <2>1, <2>2, <2>3, <2>4, <2>5 DEF Result
<1>11. \A i \in 1..m :
         /\ wins[i].index = first + i - 1 /\ wins[i].seat = x.won[i].seat
         /\ wins[i].target = e.turn /\ wins[i].agreed
         /\ wins[i].tsumo = (x.won[i].seat = e.turn)
         /\ wins[i].points = WinPoints(x.won[i].seat = e.dealer, wins[i].tsumo)
  <2>1. ASSUME NEW i \in 1..m
        PROVE  /\ wins[i].index = first + i - 1 /\ wins[i].seat = x.won[i].seat
               /\ wins[i].target = e.turn /\ wins[i].agreed
               /\ wins[i].tsumo = (x.won[i].seat = e.turn)
               /\ wins[i].points = WinPoints(x.won[i].seat = e.dealer, wins[i].tsumo)
    <3> DEFINE seat == x.won[i].seat
               tsumo == seat = e.turn
               points == WinPoints(seat = e.dealer, tsumo)
    <3>1. wins[i] = [index |-> first + i - 1, seat |-> seat, target |-> e.turn,
                     tsumo |-> tsumo, points |-> points, agreed |-> TRUE]
      BY <1>9 DEF win, WinOf
    <3> HIDE DEF points, tsumo, seat
    <3>2. /\ wins[i].index = first + i - 1 /\ wins[i].seat = seat /\ wins[i].target = e.turn
          /\ wins[i].agreed = TRUE /\ wins[i].tsumo = tsumo /\ wins[i].points = points
      BY <3>1
    <3> QED
      BY <3>2 DEF points, tsumo, seat
  <2> QED
    BY <2>1
<1> HIDE DEF win, r
<1>12. \A i \in 1..m : WinValid(r, i)
  <2>1. ASSUME NEW i \in 1..m PROVE WinValid(r, i)
    <3>1. i = 1 \/ i = 2
      <4> HIDE DEF m
      <4> QED
        BY <1>1
    <3>2. m = 2 => x.won[1].seat # x.won[2].seat
      BY DEF WonBy
    <3> HIDE DEF m
    <3>3. r.end = first + m /\ m \in Nat /\ i <= m
      <4>1. m = 1 \/ m = 2
        BY <1>1
      <4>2. i <= m
        BY <4>1
      <4>3. r.end = first + m
        BY <1>6, Zenon
      <4>4. m \in Nat
        BY <4>1
      <4> QED
        BY <4>2, <4>3, <4>4
    <3>4. \A j \in 1..i - 1 : wins[j].seat # wins[i].seat /\ wins[j].index < wins[i].index
      <4>1. CASE i = 1
        BY <4>1
      <4>2. CASE i = 2
        <5>1. m = 2 /\ \A j \in 1..i - 1 : j = 1
          BY <1>1, <3>3, <4>2
        <5>2. /\ wins[1].seat = x.won[1].seat /\ wins[2].seat = x.won[2].seat
              /\ wins[1].index = first + 1 - 1 /\ wins[2].index = first + 2 - 1
          BY <1>11, <5>1
        <5>3. wins[1].seat # wins[2].seat /\ wins[1].index < wins[2].index
          BY <3>2, <5>1, <5>2
        <5> QED
          BY <4>2, <5>1, <5>3
      <4> QED
        BY <3>1, <4>1, <4>2
    <3>5. wins[i].tsumo = (wins[i].seat = wins[i].target) /\ wins[i].index < r.end
      BY <1>11, <3>1, <3>3
    <3>6. wins[i].points \in {WinPoints(d, wins[i].tsumo) : d \in BOOLEAN}
      BY <1>11
    <3> QED
      BY <1>6, <3>4, <3>5, <3>6 DEF WinValid
  <2> QED
    BY <2>1
<1>13. RecordValid(r)
  <2>1. DOMAIN r.wins = 1..m
    BY <1>6, <1>9
  <2>2. r.seq # 0 /\ r.wins # <<>> /\ r.reason = "" /\ r.adjustment = <<>>
    BY <1>6, <1>9
  <2> HIDE DEF m
  <2> QED
    BY <1>7, <1>12, <2>1, <2>2 DEF RecordValid
<1>14. RecordIs(r, e, x, real, seq, first)
  BY <1>1, <1>6, <1>7, <1>9, <1>10, <1>11, <1>13, ZenonT(60) DEF RecordIs
<1> QED
  BY <1>14 DEF r

\* What the record of a draw holds.
LEMMA DrawnRecord ==
  ASSUME Assumption, NEW e \in Engine, NEW x \in Engine, NEW n, NEW s, Drawn(e, x, n, s),
         NEW copy, copy.scores = x.scores,
         NEW real, real.scores \in [Seats -> Int], real.pot \in Nat,
         NEW b, Closes(b), Ends(x, real, Is("end_kyoku"), b),
         NEW seq \in Nat \ {0}, NEW first \in Nat
  PROVE  RecordIs(ResultRecord(e, copy, real, real.log, seq, first), e, x, real, seq, first)
<1> DEFINE r == ResultRecord(e, copy, real, real.log, seq, first)
           m == Len(x.log)
           ev == x.log[m]
           adjustment == Less(ev.delta, Less(x.scores, e.scores))
<1>1. /\ m \in Nat \ {0} /\ real.log[m] = ev /\ ev.kind = "ryukyoku"
      /\ At(real.log, {"hora"}) = {} /\ At(real.log, {"ryukyoku"}) = {m}
      /\ At(real.log, {"end_kyoku"}) = {m + 1}
  BY DrawnPlaces
<1>2. x.won = <<>> /\ Len(x.won) = 0
  BY DEF Drawn
<1>3. /\ ev.delta \in [Seats -> Int]
      /\ ev.reason \in {"exhaustive_draw", "nagashimangan", "abortive", "kyushu_kyuhai"}
  <2>1. x.log \in Seq(Event) /\ m \in 1..Len(x.log)
    BY <1>1, EngineFields
  <2>2. ev \in Event
    BY <2>1
  <2> HIDE DEF ev
  <2> QED
    BY <1>1, <2>2 DEF Event
<1> HIDE DEF ev
<1>4. e.scores \in [Seats -> Int] /\ x.scores \in [Seats -> Int] /\ e.pot \in Nat
  BY EngineFields
<1>5. adjustment \in [Seats -> Int]
  BY <1>3, <1>4, TotalOf
<1>6. Adjustment(e, copy, ev) = adjustment
  BY DEF Adjustment
<1> HIDE DEF adjustment
<1>7. r = [seq |-> seq, end |-> first + (m + 1) - 1, wins |-> <<>>,
           changes |-> Settled(e, real), potBefore |-> e.pot, potAfter |-> real.pot,
           reason |-> ev.reason, adjustment |-> <<adjustment>>]
  <2>1. Nth({m}, 1) = m /\ Nth({m + 1}, 1) = m + 1
    <3>1. \A t \in Int : Nth({t}, 1) = t
      BY OnePlace
    <3>2. m \in Int /\ m + 1 \in Int
      BY <1>1
    <3> HIDE DEF m
    <3> QED
      BY <3>1, <3>2
  <2>2. \A k : [i \in 1..Cardinality({}) |-> WinRecord(e, copy, real.log, first, Nth(k, i))] = <<>>
    <3>1. Cardinality({}) = 0
      BY FS_EmptySet
    <3> QED
      BY <3>1
  <2> HIDE DEF m
  <2> QED
    BY <1>1, <1>6, <2>1, <2>2, ResultRecordIs
<1>8. /\ r.seq = seq /\ r.end = first + m /\ r.wins = <<>> /\ r.changes = Settled(e, real)
      /\ r.potBefore = e.pot /\ r.potAfter = real.pot /\ r.reason = ev.reason
      /\ r.adjustment = <<adjustment>>
  <2>1. first + (m + 1) - 1 = first + m
    BY <1>1
  <2> HIDE DEF r, m
  <2> QED
    BY <1>7, <2>1
<1>9. /\ r.changes \in [Seats -> [before : Int, after : Int, delta : Int]]
      /\ Before(r) = e.scores /\ After(r) = real.scores
      /\ \A t \in Seats : r.changes[t].before + r.changes[t].delta = r.changes[t].after
  <2>1. r.changes = Settled(e, real)
    BY <1>8
  <2> HIDE DEF r
  <2> QED
    BY <1>4, <2>1, SettledIs
<1>10. /\ <<adjustment>> \in Seq([Seats -> Int]) /\ Len(<<adjustment>>) = 1
       /\ <<adjustment>>[1] = adjustment /\ <<adjustment>> # <<>>
  BY <1>5
<1>11. r \in Result
  <2>1. first + (m + 1) - 1 \in Nat
    BY <1>1
  <2>2. <<>> \in Seq([index : Int, seat : Seats, target : Seats, tsumo : BOOLEAN,
                      points : Nat, agreed : BOOLEAN])
    OBVIOUS
  <2>3. Settled(e, real) \in [Seats -> [before : Int, after : Int, delta : Int]]
    BY <1>8, <1>9
  <2> HIDE DEF r, m
  <2> QED
    BY <1>3, <1>4, <1>7, <1>10, <2>1, <2>2, <2>3 DEF Result
<1> HIDE DEF r
<1>12. RecordValid(r)
  <2>1. DOMAIN r.wins = {} /\ r.seq # 0
    BY <1>8
  <2>2. r.reason # ""
    BY <1>3, <1>8
  <2>3. r.adjustment # <<>>
    BY <1>8, <1>10
  <2> QED
    BY <1>8, <1>9, <2>1, <2>2, <2>3 DEF RecordValid
<1>13. RecordIs(r, e, x, real, seq, first)
  <2>1. Len(r.wins) = 0 /\ Len(r.adjustment) = 1 /\ r.adjustment[1] = adjustment
    BY <1>8, <1>10
  <2> QED
    BY <1>2, <1>8, <1>9, <1>11, <1>12, <2>1 DEF RecordIs, adjustment, ev
<1> QED
  BY <1>13 DEF r

-----------------------------------------------------------------------------
(* What the events say *)

\* The deposits of some events are finitely many.
LEMMA DepositsAre ==
  ASSUME NEW evs, NEW start \in Int, NEW to \in Int
  PROVE  /\ IsFiniteSet(DepositsIn(evs, start, to)) /\ Cardinality(DepositsIn(evs, start, to)) \in Nat
         /\ \A s : /\ IsFiniteSet(DepositsOfIn(evs, s, start, to))
                   /\ Cardinality(DepositsOfIn(evs, s, start, to)) \in Nat
<1>1. start + 1 \in Int /\ IsFiniteSet(start + 1..to)
  BY FS_Interval
<1>2. ASSUME NEW T, T \subseteq start + 1..to PROVE IsFiniteSet(T) /\ Cardinality(T) \in Nat
  BY <1>1, <1>2, FS_Subset, FS_CardinalityType
<1>3. DepositsIn(evs, start, to) \subseteq start + 1..to
  BY DEF DepositsIn
<1>4. \A s : DepositsOfIn(evs, s, start, to) \subseteq start + 1..to
  BY <1>3 DEF DepositsOfIn
<1> QED
  BY <1>2, <1>3, <1>4

\* What a Kyoku has reached, field by field.
LEMMA ReachedIs ==
  ASSUME NEW evs \in Seq(Event), NEW start \in 1..Len(evs), evs[start].kind = "start_kyoku",
         NEW to \in Int
  PROVE  /\ ReachedIn(evs, start, to).pot =
              evs[start].kyotaku + Cardinality(DepositsIn(evs, start, to))
         /\ ReachedIn(evs, start, to).pot \in Nat
         /\ ReachedIn(evs, start, to).scores \in [Seats -> Int]
         /\ \A s \in Seats :
              ReachedIn(evs, start, to).scores[s] =
                evs[start].scores[s] - Stick * Cardinality(DepositsOfIn(evs, s, start, to))
<1>1. evs[start].kyotaku \in Nat /\ evs[start].scores \in [Seats -> Int]
  <2>1. evs[start] \in Event
    OBVIOUS
  <2> QED
    BY <2>1 DEF Event
<1>2. /\ Cardinality(DepositsIn(evs, start, to)) \in Nat
      /\ \A s : Cardinality(DepositsOfIn(evs, s, start, to)) \in Nat
  BY DepositsAre
<1>3. Stick = 10
  BY DEF Stick
<1>4. \A s \in Seats :
        evs[start].scores[s] - Stick * Cardinality(DepositsOfIn(evs, s, start, to)) \in Int
  BY <1>1, <1>2, <1>3
<1> QED
  BY <1>1, <1>2, <1>4 DEF ReachedIn

\* One sequence of events goes on from another.
Grows(evs, more) ==
  /\ evs \in Seq(Event) /\ more \in Seq(Event) /\ Len(evs) <= Len(more)
  /\ \A i \in 1..Len(evs) : more[i] = evs[i]

\* Later events do not change what a Kyoku had reached.
LEMMA ReachedStays ==
  ASSUME NEW evs, NEW more, Grows(evs, more), NEW start \in 1..Len(evs), NEW to \in Int,
         to <= Len(evs)
  PROVE  /\ ReachedIn(more, start, to) = ReachedIn(evs, start, to)
         /\ Played(evs, start, to) => Played(more, start, to)
<1>1. Len(evs) \in Nat /\ \A i \in start + 1..to : i \in 1..Len(evs) /\ more[i] = evs[i]
  BY DEF Grows
<1>2. DepositsIn(more, start, to) = DepositsIn(evs, start, to)
  BY <1>1 DEF DepositsIn
<1>3. \A s : DepositsOfIn(more, s, start, to) = DepositsOfIn(evs, s, start, to)
  <2>1. \A i \in DepositsIn(evs, start, to) : more[i] = evs[i]
    BY <1>1 DEF DepositsIn
  <2> QED
    BY <1>2, <2>1 DEF DepositsOfIn
<1>4. more[start] = evs[start]
  BY DEF Grows
<1>5. ReachedIn(more, start, to) = ReachedIn(evs, start, to)
  BY <1>2, <1>3, <1>4 DEF ReachedIn
<1>6. Played(evs, start, to) => Played(more, start, to)
  BY <1>1 DEF Played
<1> QED
  BY <1>5, <1>6

\* Between two events at most one deposit is put down, that of Seat p at event d.
OneDeposit(evs, from, to, p, d) ==
  /\ p # 0 => d \in from + 1..to /\ evs[d].kind = "reach_accepted" /\ evs[d].actor = p
  /\ \A i \in from + 1..to : evs[i].kind = "reach_accepted" => p # 0 /\ i = d

\* One more deposit moves one stick from a seat to the pot.
LEMMA ReachedGrows ==
  ASSUME Assumption, NEW evs \in Seq(Event), NEW start \in 1..Len(evs),
         evs[start].kind = "start_kyoku", NEW from \in Int, NEW to \in Int,
         start <= from, from <= to, NEW p \in 0..N, NEW d \in Int,
         OneDeposit(evs, from, to, p, d)
  PROVE  LET reached == ReachedIn(evs, start, from) IN
         ReachedIn(evs, start, to) =
           [pot |-> reached.pot + Few(p), scores |-> Put(reached, p)]
<1> DEFINE reached == ReachedIn(evs, start, from)
           D(i) == DepositsIn(evs, start, i)
           DO(s, i) == DepositsOfIn(evs, s, start, i)
<1> USE DEF OneDeposit
<1>1. /\ IsFiniteSet(D(from)) /\ Cardinality(D(from)) \in Nat
      /\ \A s : IsFiniteSet(DO(s, from)) /\ Cardinality(DO(s, from)) \in Nat
  BY DepositsAre
<1>2. evs[start].kyotaku \in Nat /\ evs[start].scores \in [Seats -> Int] /\ Stick = 10
  <2>1. evs[start] \in Event
    OBVIOUS
  <2> QED
    BY <2>1 DEF Event, Stick
<1>3. /\ reached.pot = evs[start].kyotaku + Cardinality(D(from))
      /\ reached.scores =
           [s \in Seats |-> evs[start].scores[s] - Stick * Cardinality(DO(s, from))]
  BY DEF ReachedIn
<1>4. ReachedIn(evs, start, to) =
        [pot |-> evs[start].kyotaku + Cardinality(D(to)),
         scores |-> [s \in Seats |-> evs[start].scores[s] - Stick * Cardinality(DO(s, to))]]
  BY DEF ReachedIn
<1>5. D(to) = D(from) \cup {i \in from + 1..to : evs[i].kind = "reach_accepted"}
  BY DEF DepositsIn
<1>6. ASSUME p = 0
      PROVE  ReachedIn(evs, start, to) = [pot |-> reached.pot + Few(p), scores |-> Put(reached, p)]
  <2>1. D(to) = D(from)
    BY <1>5, <1>6
  <2>2. \A s : DO(s, to) = DO(s, from)
    BY <2>1 DEF DepositsOfIn
  <2>3. Few(p) = 0 /\ Put(reached, p) = reached.scores
    BY <1>6 DEF Few, Put
  <2> HIDE DEF D, DO, reached
  <2>4. reached.pot + Few(p) = evs[start].kyotaku + Cardinality(D(to))
    BY <1>1, <1>2, <1>3, <2>1, <2>3
  <2> QED
    BY <1>3, <1>4, <2>2, <2>3, <2>4
<1>7. ASSUME p # 0
      PROVE  ReachedIn(evs, start, to) = [pot |-> reached.pot + Few(p), scores |-> Put(reached, p)]
  <2>1. D(to) = D(from) \cup {d} /\ d \notin D(from)
    <3>1. {i \in from + 1..to : evs[i].kind = "reach_accepted"} = {d}
      BY <1>7
    <3>2. d \notin D(from)
      BY <1>7 DEF DepositsIn
    <3> QED
      BY <1>5, <3>1, <3>2
  <2>2. DO(p, to) = DO(p, from) \cup {d} /\ d \notin DO(p, from)
    BY <1>7, <2>1 DEF DepositsOfIn
  <2>3. \A s : s # p => DO(s, to) = DO(s, from)
    BY <1>7, <2>1 DEF DepositsOfIn
  <2> HIDE DEF D, DO, reached
  <2>4. Cardinality(D(to)) = Cardinality(D(from)) + 1
    BY <1>1, <2>1, FS_AddElement
  <2>5. Cardinality(DO(p, to)) = Cardinality(DO(p, from)) + 1
    BY <1>1, <2>2, FS_AddElement
  <2>6. p \in Seats /\ Few(p) = 1
    BY <1>7, SeatsAre DEF Seats, Few
  <2>7. Put(reached, p) = [reached.scores EXCEPT ![p] = @ - 10]
    BY <1>2, <1>7 DEF Put
  <2>8. \A s \in Seats :
          Put(reached, p)[s] = evs[start].scores[s] - Stick * Cardinality(DO(s, to))
    <3>1. reached.scores \in [Seats -> Int]
      BY <1>1, <1>2, <1>3
    <3>2. ASSUME NEW s \in Seats, s # p
          PROVE  Put(reached, p)[s] = evs[start].scores[s] - Stick * Cardinality(DO(s, to))
      BY <1>3, <2>3, <2>6, <2>7, <3>1, <3>2
    <3>3. Put(reached, p)[p] = evs[start].scores[p] - Stick * Cardinality(DO(p, to))
      <4>1. PICK c \in Nat : c = Cardinality(DO(p, from))
        BY <1>1
      <4>2. reached.scores[p] = evs[start].scores[p] - 10 * c /\ evs[start].scores[p] \in Int
        BY <1>2, <1>3, <2>6, <4>1
      <4>3. Put(reached, p)[p] = reached.scores[p] - 10
        BY <2>6, <2>7, <3>1
      <4> QED
        BY <1>2, <2>5, <4>1, <4>2, <4>3
    <3> QED
      BY <3>2, <3>3
  <2>9. Put(reached, p) =
          [s \in Seats |-> evs[start].scores[s] - Stick * Cardinality(DO(s, to))]
    <3>1. Put(reached, p) = [s \in Seats |-> Put(reached, p)[s]]
      BY <1>3, <2>7
    <3> QED
      BY <2>8, <3>1
  <2>10. reached.pot + Few(p) = evs[start].kyotaku + Cardinality(D(to))
    <3>1. PICK c \in Nat : c = Cardinality(D(from))
      BY <1>1
    <3>2. reached.pot = evs[start].kyotaku + c /\ evs[start].kyotaku \in Nat
      BY <1>2, <1>3, <3>1
    <3>3. Cardinality(D(to)) = c + 1 /\ Few(p) = 1
      BY <2>4, <2>6, <3>1
    <3>4. \A i, j \in Nat : (i + j) + 1 = i + (j + 1)
      OBVIOUS
    <3>5. (evs[start].kyotaku + c) + 1 = evs[start].kyotaku + (c + 1)
      BY <3>1, <3>2, <3>4, Zenon
    <3> QED
      BY <3>2, <3>3, <3>5, Zenon
  <2> QED
    BY <1>4, <2>9, <2>10
<1> QED
  BY <1>6, <1>7

\* What is filed stays so.
LEMMA FiledStays ==
  ASSUME NEW evs, NEW more, Grows(evs, more), NEW start, NEW r \in Result, NEW k, NEW m,
         FiledIn(evs, start, r, k, FALSE, m), NEW m2
  PROVE  FiledIn(more, start, r, k, FALSE, m2)
<1>1. Len(evs) \in Nat /\ Len(more) \in Nat /\ DOMAIN evs = 1..Len(evs)
      /\ DOMAIN more = 1..Len(more) /\ \A i \in DOMAIN evs : i \in DOMAIN more /\ more[i] = evs[i]
  BY DEF Grows
<1>2. PICK from \in DOMAIN evs, first \in DOMAIN evs :
        /\ Batch(evs, start, r, FALSE, from, first)
        /\ ReachedIn(evs, start, from) = [pot |-> r.potBefore, scores |-> Before(r)]
        /\ WinsFit(evs, start, r, first) /\ DrawFits(evs, start, r, FALSE, first)
  BY DEF FiledIn
<1>3. start \in 1..Len(evs) /\ evs[start].kind = "start_kyoku"
  BY <1>1 DEF FiledIn, Begun
<1>4. /\ from \in start..first - 1 /\ first \in Nat /\ r.end \in Nat /\ r.end < Len(evs)
      /\ Len(r.wins) \in 0..2
      /\ r.end = first + (IF Len(r.wins) = 0 THEN 1 ELSE Len(r.wins))
  BY <1>2 DEF Batch, Result
<1>5. /\ first <= r.end - 1 /\ first \in 1..Len(evs) /\ r.end + 1 \in 1..Len(evs)
      /\ r.end \in 1..Len(evs) /\ r.end - 1 \in 1..Len(evs) /\ from \in 1..Len(evs)
  <2> DEFINE n == Len(evs)
             w == IF Len(r.wins) = 0 THEN 1 ELSE Len(r.wins)
  <2>1. w \in 1..2 /\ n \in Nat /\ from \in 1..n /\ first \in 1..n
    BY <1>1, <1>4
  <2>2. r.end = first + w /\ r.end \in Nat /\ r.end < n
    BY <1>4
  <2> HIDE DEF n, w
  <2>3. /\ first <= r.end - 1 /\ r.end + 1 \in 1..n /\ r.end \in 1..n /\ r.end - 1 \in 1..n
    BY <2>1, <2>2
  <2> QED
    BY <2>1, <2>3 DEF n
<1>6. /\ ReachedIn(more, start, from) = ReachedIn(evs, start, from)
      /\ ReachedIn(more, start, first - 1) = ReachedIn(evs, start, first - 1)
      /\ Played(evs, start, from) => Played(more, start, from)
  BY <1>1, <1>3, <1>5, ReachedStays
<1>7. /\ \A i \in from + 1..first - 1 : more[i] = evs[i]
      /\ \A i \in first..r.end - 1 : more[i] = evs[i]
      /\ more[r.end] = evs[r.end] /\ more[r.end + 1] = evs[r.end + 1]
      /\ more[start] = evs[start] /\ more[first] = evs[first]
      /\ more[r.end - 1] = evs[r.end - 1]
  <2>1. \A i \in from + 1..first - 1 : i \in DOMAIN evs
    BY <1>1, <1>3, <1>4
  <2>2. \A i \in first..r.end - 1 : i \in DOMAIN evs
    BY <1>1, <1>4, <1>5
  <2> QED
    BY <1>1, <1>3, <1>5, <2>1, <2>2
<1>8. Batch(more, start, r, FALSE, from, first)
  <2>1. r.end < Len(more)
    BY <1>1, <1>4 DEF Grows
  <2> QED
    BY <1>2, <1>6, <1>7, <2>1 DEF Batch
<1>9. WinsFit(more, start, r, first)
  <2>1. PaidIn(more, ReachedIn(more, start, first - 1).scores, first, r.end - 1) =
          PaidIn(evs, ReachedIn(evs, start, first - 1).scores, first, r.end - 1)
    BY <1>6, <1>7 DEF PaidIn
  <2>2. ASSUME r.wins # <<>>, NEW i \in DOMAIN r.wins PROVE more[first + i - 1] = evs[first + i - 1]
    <3>1. r.wins \in Seq([index : Int, seat : Seats, target : Seats, tsumo : BOOLEAN,
                          points : Nat, agreed : BOOLEAN])
      BY DEF Result
    <3>2. i \in 1..Len(r.wins)
      BY <2>2, <3>1
    <3>3. first + i - 1 \in first..r.end - 1
      BY <1>4, <3>2, SMTT(30)
    <3> QED
      BY <1>7, <3>3
  <2> QED
    BY <1>2, <1>7, <2>1, <2>2 DEF WinsFit
<1>10. DrawFits(more, start, r, FALSE, first)
  BY <1>2, <1>6, <1>7 DEF DrawFits
<1>11. Begun(more, start)
  BY <1>1, <1>3 DEF Begun
<1>12. /\ RecordValid(r) /\ r.seq = k
       /\ Total(After(r)) + r.potAfter * Stick = N * Points0
       /\ [pot |-> r.potAfter, scores |-> After(r)] =
            [pot |-> evs[r.end + 1].kyotaku, scores |-> evs[r.end + 1].scores]
  BY DEF FiledIn
<1>13. from \in DOMAIN more /\ first \in DOMAIN more
  BY <1>1
<1> QED
  BY <1>2, <1>6, <1>7, <1>8, <1>9, <1>10, <1>11, <1>12, <1>13 DEF FiledIn

-----------------------------------------------------------------------------
(* A step files a record, or goes on *)

\* The events with those of the batch that ends a Kyoku.
Follows(evs, x, a, b, more) ==
  LET n == Len(evs) m == Len(x.log) IN
  /\ Grows(evs, more) /\ Len(more) = n + m + 2 /\ n \in Nat /\ m \in Nat
  /\ \A i \in 1..m : more[n + i] = x.log[i]
  /\ more[n + m + 1] = a /\ more[n + m + 2] = b

\* The events of a batch follow those that were there.
LEMMA MoreIs ==
  ASSUME NEW evs \in Seq(Event), NEW x \in Engine, NEW y \in Engine, NEW a, NEW b,
         Ends(x, y, a, b), NEW more, more = evs \o y.log
  PROVE  Follows(evs, x, a, b, more)
<1> DEFINE n == Len(evs)
           m == Len(x.log)
<1>1. /\ y.log \in Seq(Event) /\ Len(y.log) = m + 2 /\ \A i \in 1..m : y.log[i] = x.log[i]
      /\ y.log[m + 1] = a /\ y.log[m + 2] = b
  BY DEF Ends
<1>2. n \in Nat /\ m \in Nat
  BY EngineFields
<1>3. /\ more \in Seq(Event) /\ Len(more) = n + Len(y.log)
      /\ \A i \in 1..n : more[i] = evs[i]
      /\ \A i \in 1..Len(y.log) : more[n + i] = y.log[i]
  <2>1. more \in Seq(Event) /\ Len(more) = n + Len(y.log)
    BY <1>1, ConcatProperties
  <2>2. \A i \in 1..Len(evs) + Len(y.log) :
          more[i] = IF i <= Len(evs) THEN evs[i] ELSE y.log[i - Len(evs)]
    BY <1>1, ConcatProperties
  <2>3. \A i \in 1..n : more[i] = evs[i]
    BY <1>1, <1>2, <2>2
  <2>4. ASSUME NEW i \in 1..Len(y.log) PROVE more[n + i] = y.log[i]
    <3>1. Len(y.log) \in Nat
      BY <1>1
    <3>2. n + i \in 1..Len(evs) + Len(y.log) /\ ~(n + i <= Len(evs)) /\ (n + i) - Len(evs) = i
      BY <1>2, <3>1
    <3> QED
      BY <2>2, <3>2
  <2> QED
    BY <2>1, <2>3, <2>4
<1> HIDE DEF n, m
<1>4. 1..m \subseteq 1..Len(y.log) /\ m + 1 \in 1..Len(y.log) /\ m + 2 \in 1..Len(y.log)
  BY <1>1, <1>2
<1>5. more[n + (m + 1)] = a /\ more[n + (m + 2)] = b
  BY <1>1, <1>3, <1>4
<1>6. n + (m + 1) = n + m + 1 /\ n + (m + 2) = n + m + 2
  BY <1>2
<1>7. \A i \in 1..m : more[n + i] = x.log[i]
  BY <1>1, <1>3, <1>4
<1>8. Grows(evs, more)
  BY <1>1, <1>2, <1>3 DEF Grows, n
<1> QED
  BY <1>1, <1>2, <1>3, <1>5, <1>6, <1>7, <1>8 DEF Follows, n, m

\* The engine and the events of the Kyoku that is played.
KyokuIs(e, evs, start) ==
  /\ evs \in Seq(Event) /\ Begun(evs, start) /\ evs[start].oya = e.dealer
  /\ Played(evs, start, Len(evs)) /\ ReachedIn(evs, start, Len(evs)) = Money(e)

\* The last event of the batch that ends a Kyoku, and what the engine has then.
LastIs(b, x, real, last) ==
  IF last THEN /\ b.kind = "end_game" /\ real.pot = 0
               /\ real.scores = [x.scores EXCEPT ![Top(x.scores)] = @ + x.pot * Stick]
  ELSE /\ b.kind = "start_kyoku" /\ b.scores = x.scores /\ b.kyotaku = x.pot
       /\ real.scores = x.scores /\ real.pot = x.pot

\* The record of a Kyoku with winners agrees with the events.
LEMMA WonFiled ==
  ASSUME Assumption, NEW e \in Engine, NEW x, Claimed(e, x), NEW evs, NEW start,
         KyokuIs(e, evs, start), Total(e.scores) + e.pot * Stick = N * Points0,
         NEW real \in Engine, NEW b, Closes(b), Ends(x, real, Is("end_kyoku"), b),
         real.scores = x.scores, real.pot = 0, NEW last \in BOOLEAN, LastIs(b, x, real, last),
         NEW k, NEW r, RecordIs(r, e, x, real, k, Len(evs) + 1),
         NEW more, more = evs \o real.log
  PROVE  FiledIn(more, start, r, k, last, Money(real))
<1> DEFINE n == Len(evs)
           m == Len(x.log)
           first == n + 1
<1>1. /\ Grows(evs, more) /\ Len(more) = n + m + 2 /\ n \in Nat /\ m \in Nat
      /\ \A i \in 1..m : more[n + i] = x.log[i]
      /\ more[n + m + 1] = Is("end_kyoku") /\ more[n + m + 2] = b
  <2>1. Follows(evs, x, Is("end_kyoku"), b, more)
    <3>1. evs \in Seq(Event) /\ x \in Engine
      BY DEF KyokuIs, Claimed, Finished
    <3> QED
      BY <3>1, MoreIs
  <2> QED
    BY <2>1 DEF Follows
<1>2. /\ m \in {1, 2} /\ Len(x.won) = m /\ \A i \in 1..m : Claims(e, x, i)
      /\ x.scores = IF m = 1 THEN Plus(e.scores, x.log[1].delta)
                    ELSE Plus(Plus(e.scores, x.log[1].delta), x.log[2].delta)
      /\ x.pot = 0 /\ Total(x.scores) = Total(e.scores) + e.pot * Stick
  BY DEF Claimed, WonBy
<1>3. /\ start \in 1..n /\ evs[start].kind = "start_kyoku" /\ evs \in Seq(Event)
      /\ evs[start].oya = e.dealer /\ ReachedIn(evs, start, n) = Money(e)
      /\ Played(evs, start, n)
  BY DEF KyokuIs, Begun
<1>4. /\ r \in Result /\ RecordValid(r) /\ r.seq = k /\ r.end = n + 1 + m
      /\ r.potBefore = e.pot /\ r.potAfter = 0 /\ Before(r) = e.scores
      /\ After(r) = x.scores /\ Len(r.wins) = m
  BY <1>2 DEF RecordIs
<1>5. \A i \in 1..m :
        /\ r.wins[i].index = first + i - 1 /\ r.wins[i].seat = x.won[i].seat
        /\ r.wins[i].target = e.turn
        /\ r.wins[i].points = WinPoints(r.wins[i].seat = e.dealer, r.wins[i].tsumo)
  BY <1>2 DEF RecordIs
<1>6. /\ ReachedIn(more, start, n) = Money(e) /\ Played(more, start, n)
      /\ more[start] = evs[start]
  <2>1. n \in Int /\ n <= n
    BY <1>1
  <2>2. ReachedIn(more, start, n) = ReachedIn(evs, start, n)
        /\ (Played(evs, start, n) => Played(more, start, n))
    BY <1>1, <1>3, <2>1, ReachedStays
  <2>3. more[start] = evs[start]
    BY <1>1, <1>3 DEF Grows
  <2> QED
    BY <1>3, <2>2, <2>3
<1>7. more \in Seq(Event) /\ DOMAIN more = 1..n + m + 2
  BY <1>1 DEF Grows
<1>8. r.wins \in Seq([index : Int, seat : Seats, target : Seats, tsumo : BOOLEAN,
                      points : Nat, agreed : BOOLEAN])
      /\ DOMAIN r.wins = 1..m /\ r.wins # <<>>
  <2>1. r.wins \in Seq([index : Int, seat : Seats, target : Seats, tsumo : BOOLEAN,
                        points : Nat, agreed : BOOLEAN])
    BY <1>4 DEF Result
  <2>2. DOMAIN r.wins = 1..Len(r.wins)
    BY <2>1
  <2>3. Len(r.wins) # 0
    BY <1>2, <1>4
  <2> QED
    BY <1>4, <2>1, <2>2, <2>3
<1> HIDE DEF n, m
<1>9. Batch(more, start, r, last, n, first)
  <2>1. n \in start..first - 1 /\ first \in Nat
    BY <1>1, <1>3
  <2>2. m \in 0..2 /\ m # 0
    BY <1>2
  <2>3. r.end = first + m /\ r.end + 1 = n + m + 2 /\ r.end = n + m + 1
    <3>1. r.end = n + 1 + m
      BY <1>4
    <3>2. n \in Nat /\ m \in Nat
      BY <1>1
    <3> QED
      BY <3>1, <3>2
  <2>4. ASSUME NEW i \in first..r.end - 1 PROVE more[i].kind = "hora"
    <3>1. i - n \in 1..m /\ n + (i - n) = i
      BY <1>1, <2>3
    <3>2. more[i] = x.log[i - n]
      BY <1>1, <3>1
    <3> QED
      BY <1>2, <3>1, <3>2 DEF Claims
  <2>5. more[r.end].kind = "end_kyoku"
    BY <1>1, <2>3 DEF Is
  <2>6. IF last THEN Len(more) = r.end + 1 /\ more[r.end + 1].kind = "end_game"
        ELSE more[r.end + 1].kind = "start_kyoku"
    BY <1>1, <2>3 DEF LastIs
  <2>7. \A i \in n + 1..first - 1 : FALSE
    BY <1>1
  <2>8. r.end < Len(more)
    BY <1>1, <2>3
  <2> QED
    BY <1>4, <1>6, <2>1, <2>2, <2>3, <2>4, <2>5, <2>6, <2>7, <2>8 DEF Batch
<1>10. WinsFit(more, start, r, first)
  <2>1. first - 1 = n /\ r.end - 1 = n + m /\ (first = r.end - 1 <=> m = 1)
    BY <1>1, <1>2, <1>4
  <2>2. PaidIn(more, e.scores, first, r.end - 1) = x.scores
    <3>1. more[n + 1] = x.log[1]
      <4>1. 1 \in 1..m
        BY <1>2
      <4> QED
        BY <1>1, <4>1
    <3>2. m = 2 => more[n + m] = x.log[2]
      <4>1. m = 2 => 2 \in 1..m
        OBVIOUS
      <4> QED
        BY <1>1, <4>1
    <3> QED
      BY <1>2, <2>1, <3>1, <3>2 DEF PaidIn
  <2>3. ASSUME NEW i \in 1..m
        PROVE  /\ r.wins[i].index = first + i - 1
               /\ r.wins[i].seat = more[first + i - 1].actor
               /\ r.wins[i].target = more[first + i - 1].target
               /\ r.wins[i].points = WinPoints(r.wins[i].seat = more[start].oya, r.wins[i].tsumo)
    <3>1. first + i - 1 = n + i
      BY <1>1
    <3>2. more[n + i] = x.log[i] /\ Claims(e, x, i)
      BY <1>1, <1>2
    <3> HIDE DEF first
    <3>3. more[start].oya = e.dealer
      BY <1>3, <1>6
    <3>4. more[first + i - 1].actor = x.won[i].seat /\ more[first + i - 1].target = e.turn
      BY <3>1, <3>2 DEF Claims
    <3> QED
      BY <1>5, <3>3, <3>4, Zenon
  <2>4. ReachedIn(more, start, first - 1).scores = e.scores
    BY <1>6, <2>1 DEF Money
  <2> HIDE DEF first
  <2> QED
    BY <1>4, <1>8, <2>2, <2>3, <2>4 DEF WinsFit
<1>11. DrawFits(more, start, r, last, first)
  BY <1>8 DEF DrawFits
<1>12. n \in DOMAIN more /\ first \in DOMAIN more /\ start \in DOMAIN more
  BY <1>1, <1>3, <1>7
<1>13. Total(After(r)) + r.potAfter * Stick = N * Points0
  <2>1. Total(x.scores) = N * Points0 /\ N * Points0 \in Int
    BY <1>2, SeatsAre DEF Assumption
  <2>2. r.potAfter * Stick = 0
    BY <1>4 DEF Stick
  <2> QED
    BY <1>4, <2>1, <2>2
<1>14. [pot |-> r.potAfter, scores |-> After(r)] =
         IF last THEN Money(real)
         ELSE [pot |-> more[r.end + 1].kyotaku, scores |-> more[r.end + 1].scores]
  <2>1. Money(real) = [pot |-> 0, scores |-> x.scores]
    BY DEF Money
  <2>2. r.end + 1 = n + m + 2
    BY <1>1, <1>4
  <2>3. ~last => more[r.end + 1].kyotaku = 0 /\ more[r.end + 1].scores = x.scores
    BY <1>1, <1>2, <2>2 DEF LastIs
  <2> QED
    BY <1>4, <2>1, <2>3
<1>15. ReachedIn(more, start, n) = [pot |-> r.potBefore, scores |-> Before(r)]
  BY <1>4, <1>6 DEF Money
<1>16. Begun(more, start)
  BY <1>3, <1>6, <1>12 DEF Begun
<1> HIDE DEF first
<1> QED
  BY <1>4, <1>9, <1>10, <1>11, <1>12, <1>13, <1>14, <1>15, <1>16 DEF FiledIn

\* Who has the most still has it with the pot.
LEMMA AwardUndone ==
  ASSUME Assumption, NEW scores \in [Seats -> Int], NEW x \in Nat
  PROVE  LET after == [scores EXCEPT ![Top(scores)] = @ + x] IN
         /\ after \in [Seats -> Int] /\ Top(after) = Top(scores)
         /\ [after EXCEPT ![Top(after)] = @ - x] = scores
         /\ Total(after) = Total(scores) + x
<1> DEFINE top == Top(scores)
           after == [scores EXCEPT ![top] = @ + x]
<1>1. top \in Seats /\ Leads(scores, top)
  BY TopLeads
<1> HIDE DEF top
<1>0. x \in Int
  OBVIOUS
<1>2. after \in [Seats -> Int] /\ Total(after) = Total(scores) + x
  BY <1>0, <1>1, TotalOfOne
<1>3. after[top] = scores[top] + x /\ \A s \in Seats : s # top => after[s] = scores[s]
  BY <1>1
<1>4. Leads(after, top)
  <2>1. ASSUME NEW o \in Seats
        PROVE  after[top] > after[o] \/ (after[top] = after[o] /\ top <= o)
    <3>1. scores[top] > scores[o] \/ (scores[top] = scores[o] /\ top <= o)
      BY <1>1 DEF Leads
    <3>2. scores[top] \in Int /\ scores[o] \in Int /\ top \in Int /\ o \in Int
      BY <1>1, SeatsAre
    <3>3. CASE o = top
      BY <3>2, <3>3
    <3>4. CASE o # top
      BY <1>3, <3>1, <3>2, <3>4
    <3> QED
      BY <3>3, <3>4
  <2> QED
    BY <2>1 DEF Leads
<1>5. top = Top(after)
  <2> HIDE DEF after
  <2> QED
    BY <1>1, <1>2, <1>4, LeaderIsTop
<1>6. [after EXCEPT ![top] = @ - x] = scores
  <2> HIDE DEF after
  <2>1. /\ [after EXCEPT ![top] = @ - x] = [s \in Seats |-> IF s = top THEN after[s] - x ELSE after[s]]
        /\ scores = [s \in Seats |-> scores[s]]
    BY <1>2
  <2>2. \A s \in Seats : scores[s] = IF s = top THEN after[s] - x ELSE after[s]
    BY <1>1, <1>3
  <2> QED
    BY <2>1, <2>2
<1> QED
  BY <1>2, <1>5, <1>6 DEF top

\* The record of a draw agrees with the events.
LEMMA DrawnFiled ==
  ASSUME Assumption, NEW e \in Engine, NEW x, NEW u, NEW s, Drawn(e, x, u, s), NEW evs,
         NEW start, KyokuIs(e, evs, start), Total(e.scores) + e.pot * Stick = N * Points0,
         NEW real \in Engine, NEW b, Closes(b), Ends(x, real, Is("end_kyoku"), b),
         NEW last \in BOOLEAN, LastIs(b, x, real, last),
         NEW k, NEW r, RecordIs(r, e, x, real, k, Len(evs) + 1),
         NEW more, more = evs \o real.log
  PROVE  FiledIn(more, start, r, k, last, Money(real))
<1> DEFINE n == Len(evs)
           m == Len(x.log)
           first == n + m
<1>1. /\ Grows(evs, more) /\ Len(more) = n + m + 2 /\ n \in Nat /\ m \in Nat
      /\ \A i \in 1..m : more[n + i] = x.log[i]
      /\ more[n + m + 1] = Is("end_kyoku") /\ more[n + m + 2] = b
  <2>1. Follows(evs, x, Is("end_kyoku"), b, more)
    <3>1. evs \in Seq(Event) /\ x \in Engine
      BY DEF KyokuIs, Drawn, Finished
    <3> QED
      BY <3>1, MoreIs
  <2> QED
    BY <2>1 DEF Follows
<1>2. /\ x \in Engine /\ x.won = <<>> /\ u \in Nat /\ s \in 0..N /\ m = u + Few(s) + 1
      /\ \A i \in 1..u : x.log[i].kind \in {"reach", "dahai"}
      /\ s # 0 => x.log[u + 1].kind = "reach_accepted" /\ x.log[u + 1].actor = s
      /\ x.log[m].kind = "ryukyoku" /\ x.pot = e.pot + Few(s)
      /\ Total(x.scores) = Total(e.scores) - Few(s) * Stick
  BY DEF Drawn, Finished, Deposit
<1>3. /\ start \in 1..n /\ evs[start].kind = "start_kyoku" /\ evs \in Seq(Event)
      /\ evs[start].oya = e.dealer /\ ReachedIn(evs, start, n) = Money(e)
      /\ Played(evs, start, n)
  BY DEF KyokuIs, Begun
<1>4. /\ r \in Result /\ RecordValid(r) /\ r.seq = k /\ r.end = n + 1 + m
      /\ r.potBefore = e.pot /\ r.potAfter = real.pot /\ Before(r) = e.scores
      /\ After(r) = real.scores /\ Len(r.wins) = 0
  BY <1>2 DEF RecordIs
<1>5. r.wins = <<>>
  <2>1. r.wins \in Seq([index : Int, seat : Seats, target : Seats, tsumo : BOOLEAN,
                        points : Nat, agreed : BOOLEAN])
    BY <1>4 DEF Result
  <2> QED
    BY <1>4, <2>1
<1>6. /\ r.reason = x.log[m].reason /\ Len(r.adjustment) = 1
      /\ r.adjustment[1] = Less(x.log[m].delta, Less(x.scores, e.scores))
  BY <1>5 DEF RecordIs
<1>7. /\ ReachedIn(more, start, n) = Money(e) /\ Played(more, start, n)
      /\ more[start] = evs[start] /\ more \in Seq(Event) /\ DOMAIN more = 1..n + m + 2
  <2>1. n \in Int /\ n <= n
    BY <1>1
  <2>2. ReachedIn(more, start, n) = ReachedIn(evs, start, n)
        /\ (Played(evs, start, n) => Played(more, start, n))
    BY <1>1, <1>3, <2>1, ReachedStays
  <2>3. more[start] = evs[start] /\ more \in Seq(Event)
    BY <1>1, <1>3 DEF Grows
  <2>4. DOMAIN more = 1..n + m + 2
    BY <1>1, <2>3
  <2> QED
    BY <1>3, <2>2, <2>3, <2>4
<1>8. /\ e.scores \in [Seats -> Int] /\ x.scores \in [Seats -> Int] /\ e.pot \in Nat
      /\ x.pot \in Nat /\ x.log[m] \in Event
  <2>1. x.log \in Seq(Event) /\ m \in 1..Len(x.log)
    BY <1>2, EngineFields DEF Few
  <2>2. x.log[m] \in Event
    BY <2>1
  <2> QED
    BY <1>2, <2>2, EngineFields
<1> HIDE DEF n, m
<1>9. Few(s) \in {0, 1} /\ (s = 0 <=> Few(s) = 0)
  BY DEF Few
<1>10. /\ \A i \in 1..m - 1 :
            /\ x.log[i].kind \in {"reach", "dahai", "reach_accepted"}
            /\ x.log[i].kind = "reach_accepted" => s # 0 /\ i = u + 1 /\ i = m - 1
       /\ m - 1 \in Nat
  BY <1>2, <1>9
<1>11. /\ first - 1 \in Nat /\ n <= first - 1 /\ first <= n + m + 2 /\ first \in Nat
       /\ \A i \in n + 1..first - 1 :
            i - n \in 1..m - 1 /\ more[i] = x.log[i - n] /\ n + (i - n) = i
  <2>1. /\ first - 1 \in Nat /\ n <= first - 1 /\ first <= n + m + 2 /\ first \in Nat
    BY <1>1, <1>10
  <2>2. ASSUME NEW i \in n + 1..first - 1
        PROVE  i - n \in 1..m - 1 /\ more[i] = x.log[i - n] /\ n + (i - n) = i
    <3>1. i - n \in 1..m - 1 /\ i - n \in 1..m /\ n + (i - n) = i
      BY <1>1, <1>10
    <3> QED
      BY <1>1, <3>1
  <2> QED
    BY <2>1, <2>2
<1>12. more[first] = x.log[m]
  <2>1. m \in 1..m
    BY <1>1, <1>10
  <2> QED
    BY <1>1, <2>1
<1>13. ReachedIn(more, start, first - 1) = [pot |-> x.pot, scores |-> Put(e, s)]
  <2> DEFINE reached == ReachedIn(more, start, n)
             d == n + u + 1
             from == n
             to == first - 1
  <2>1. start \in 1..Len(more) /\ more[start].kind = "start_kyoku"
    BY <1>1, <1>3, <1>7
  <2>2. from \in Int /\ to \in Int /\ d \in Int /\ start <= from /\ from <= to
    BY <1>1, <1>2, <1>3, <1>11
  <2>3. s # 0 => d \in from + 1..to /\ more[d].kind = "reach_accepted" /\ more[d].actor = s
    <3>1. s # 0 => d \in from + 1..to /\ d - n = u + 1
      BY <1>1, <1>2, <1>9
    <3> HIDE DEF d, first
    <3> QED
      BY <1>2, <1>11, <3>1
  <2>4. \A i \in from + 1..to : more[i].kind = "reach_accepted" => s # 0 /\ i = d
    <3>1. ASSUME NEW i \in from + 1..to, more[i].kind = "reach_accepted" PROVE s # 0 /\ i = d
      <4>1. i - n \in 1..m - 1 /\ more[i] = x.log[i - n] /\ n + (i - n) = i
        BY <1>11
      <4>2. s # 0 /\ i - n = u + 1
        BY <1>10, <3>1, <4>1
      <4> QED
        BY <1>1, <1>2, <4>1, <4>2
    <3> QED
      BY <3>1
  <2> HIDE DEF d, from, to
  <2>5. OneDeposit(more, from, to, s, d)
    BY <2>3, <2>4 DEF OneDeposit
  <2>6. ReachedIn(more, start, to) =
          [pot |-> ReachedIn(more, start, from).pot + Few(s),
           scores |-> Put(ReachedIn(more, start, from), s)]
    <3>1. s \in 0..N /\ more \in Seq(Event)
      BY <1>2, <1>7
    <3> QED
      BY <3>1, <2>1, <2>2, <2>5, ReachedGrows, ZenonT(60)
  <2>7. reached.pot = e.pot /\ Put(reached, s) = Put(e, s)
    BY <1>7 DEF Money, Put
  <2> QED
    BY <1>2, <2>6, <2>7 DEF from, to
<1>14. Batch(more, start, r, last, n, first)
  <2>1. n \in start..first - 1 /\ first \in Nat
    BY <1>1, <1>3, <1>11
  <2>2. r.end = first + 1 /\ r.end + 1 = n + m + 2 /\ r.end = n + m + 1 /\ r.end < Len(more)
    <3>1. r.end = n + 1 + m
      BY <1>4
    <3>2. n \in Nat /\ m \in Nat /\ Len(more) = n + m + 2
      BY <1>1
    <3> QED
      BY <3>1, <3>2
  <2>3. \A i \in n + 1..first - 1 :
          /\ more[i].kind \in {"reach", "dahai", "reach_accepted"}
          /\ more[i].kind = "reach_accepted" => i = first - 1
    <3>1. ASSUME NEW i \in n + 1..first - 1
          PROVE  /\ more[i].kind \in {"reach", "dahai", "reach_accepted"}
                 /\ more[i].kind = "reach_accepted" => i = first - 1
      <4>1. i - n \in 1..m - 1 /\ more[i] = x.log[i - n] /\ n + (i - n) = i
        BY <1>11
      <4>2. i - n = m - 1 => i = first - 1
        BY <1>1, <4>1
      <4> HIDE DEF first
      <4> QED
        BY <1>10, <4>1, <4>2
    <3> QED
      BY <3>1
  <2>4. \A i \in first..r.end - 1 : more[i].kind = "ryukyoku"
    <3>1. \A i \in first..r.end - 1 : i = first
      BY <1>11, <2>2
    <3> HIDE DEF first
    <3> QED
      BY <1>2, <1>12, <3>1
  <2>5. more[r.end].kind = "end_kyoku"
    BY <1>1, <2>2 DEF Is
  <2>6. IF last THEN Len(more) = r.end + 1 /\ more[r.end + 1].kind = "end_game"
        ELSE more[r.end + 1].kind = "start_kyoku"
    BY <1>1, <2>2 DEF LastIs
  <2> HIDE DEF first
  <2>7. Len(r.wins) = 0 /\ 0 \in 0..2
    BY <1>4
  <2> QED
    BY <1>7, <2>1, <2>2, <2>3, <2>4, <2>5, <2>6, <2>7 DEF Batch
<1>15. WinsFit(more, start, r, first)
  BY <1>5 DEF WinsFit
<1> DEFINE award == last /\ x.pot > 0
           top == Top(real.scores)
           unawarded == IF award THEN [real.scores EXCEPT ![top] = @ - x.pot * Stick]
                        ELSE real.scores
           given == [x.scores EXCEPT ![Top(x.scores)] = @ + x.pot * Stick]
<1>16. /\ Top(given) = Top(x.scores)
       /\ [given EXCEPT ![Top(given)] = @ - x.pot * Stick] = x.scores
       /\ Total(given) = Total(x.scores) + x.pot * Stick
       /\ x.pot = 0 => given = x.scores
  <2> DEFINE y == x.pot * Stick
  <2>1. y \in Nat /\ (x.pot = 0 => y = 0)
    BY <1>8 DEF Stick
  <2> HIDE DEF y
  <2>2. /\ Top([x.scores EXCEPT ![Top(x.scores)] = @ + y]) = Top(x.scores)
        /\ [[x.scores EXCEPT ![Top(x.scores)] = @ + y]
              EXCEPT ![Top([x.scores EXCEPT ![Top(x.scores)] = @ + y])] = @ - y] = x.scores
        /\ Total([x.scores EXCEPT ![Top(x.scores)] = @ + y]) = Total(x.scores) + y
    BY <1>8, <2>1, AwardUndone
  <2>3. y = 0 => [x.scores EXCEPT ![Top(x.scores)] = @ + y] = x.scores
    BY <1>8, TopLeads
  <2> QED
    BY <2>1, <2>2, <2>3 DEF y
<1> HIDE DEF given
<1>17. last => real.scores = given /\ real.pot = 0
  BY DEF given, LastIs
<1>18. ~last => real.scores = x.scores /\ real.pot = x.pot
  BY DEF LastIs
<1>19. unawarded = x.scores /\ (award => Top(unawarded) = top)
       /\ real.pot = IF award THEN 0 ELSE x.pot
  <2>1. CASE award
    <3>1. unawarded = [given EXCEPT ![Top(given)] = @ - x.pot * Stick] /\ top = Top(given)
      BY <1>17, <2>1
    <3> HIDE DEF unawarded
    <3> QED
      BY <1>16, <1>17, <2>1, <3>1
  <2>2. CASE ~award
    <3>1. last => x.pot = 0
      BY <1>8, <2>2
    <3> QED
      BY <1>16, <1>17, <1>18, <2>2, <3>1
  <2> QED
    BY <2>1, <2>2
<1>20. DrawFits(more, start, r, last, first)
  <2> DEFINE delta == x.log[m].delta
  <2>1. delta \in [Seats -> Int]
    BY <1>2, <1>8 DEF Event
  <2>2. Plus(Less(x.scores, e.scores), Less(delta, Less(x.scores, e.scores))) = delta
    <3> HIDE DEF delta
    <3>1. \A s1 \in Seats : /\ x.scores[s1] \in Int /\ e.scores[s1] \in Int
                            /\ delta[s1] \in Int
      BY <1>8, <2>1
    <3>2. \A y1, z1, d1 \in Int : (y1 - z1) + (d1 - (y1 - z1)) = d1
      OBVIOUS
    <3>3. \A s1 \in Seats :
            (x.scores[s1] - e.scores[s1]) + (delta[s1] - (x.scores[s1] - e.scores[s1]))
              = delta[s1]
      BY <3>1, <3>2
    <3>4. Plus(Less(x.scores, e.scores), Less(delta, Less(x.scores, e.scores))) =
            [s1 \in Seats |-> (x.scores[s1] - e.scores[s1])
                              + (delta[s1] - (x.scores[s1] - e.scores[s1]))]
      BY DEF Plus, Less
    <3>5. delta = [s1 \in Seats |-> delta[s1]]
      BY <2>1
    <3> QED
      BY <3>3, <3>4, <3>5
  <2>3. ReachedIn(more, start, first - 1).pot = x.pot
    BY <1>13
  <2> HIDE DEF first, unawarded, top, delta, award
  <2>4. r.adjustment[1] = Less(delta, Less(x.scores, e.scores)) /\ more[first].delta = delta
    BY <1>6, <1>12 DEF delta
  <2>5. Plus(Less(unawarded, Before(r)), r.adjustment[1]) = more[first].delta
    BY <1>4, <1>19, <2>2, <2>4
  <2>6. r.reason = more[first].reason /\ Len(r.adjustment) = 1
    BY <1>6, <1>12
  <2>7. r.potAfter = IF award THEN 0 ELSE x.pot
    BY <1>4, <1>19
  <2> QED
    BY <1>4, <1>19, <2>3, <2>5, <2>6, <2>7 DEF DrawFits, unawarded, top, award
<1>21. n \in DOMAIN more /\ first \in DOMAIN more /\ start \in DOMAIN more
  <2>1. n \in 1..n + m + 2 /\ first \in 1..n + m + 2 /\ start \in 1..n + m + 2
    BY <1>1, <1>3, <1>11
  <2> QED
    BY <1>7, <2>1
<1>22. Total(After(r)) + r.potAfter * Stick = N * Points0
  <2>1. Total(x.scores) + x.pot * Stick = N * Points0
    <3>1. Total(e.scores) \in Int /\ Few(s) \in Int /\ e.pot \in Int /\ Stick = 10
      <4>1. Total(e.scores) \in Int
        BY <1>8, TotalOf
      <4> QED
        BY <1>8, <1>9, <4>1 DEF Stick
    <3>2. Total(x.scores) = Total(e.scores) - Few(s) * 10 /\ x.pot = e.pot + Few(s)
      BY <1>2, <3>1
    <3>3. Total(x.scores) + x.pot * 10 = Total(e.scores) + e.pot * 10
      BY <3>1, <3>2
    <3> QED
      BY <3>1, <3>3
  <2>2. Total(real.scores) + real.pot * Stick = N * Points0
    <3>1. Total(x.scores) \in Int
      BY <1>8, TotalOf
    <3>2. CASE last
      BY <1>8, <1>16, <1>17, <2>1, <3>1, <3>2 DEF Stick
    <3>3. CASE ~last
      BY <1>18, <2>1, <3>3
    <3> QED
      BY <3>2, <3>3
  <2> QED
    BY <1>4, <2>2
<1>23. [pot |-> r.potAfter, scores |-> After(r)] =
         IF last THEN Money(real)
         ELSE [pot |-> more[r.end + 1].kyotaku, scores |-> more[r.end + 1].scores]
  <2>1. r.end + 1 = n + m + 2
    <3>1. r.end = n + 1 + m
      BY <1>4
    <3>2. n \in Nat /\ m \in Nat
      BY <1>1
    <3> QED
      BY <3>1, <3>2
  <2>2. ~last => more[r.end + 1].kyotaku = x.pot /\ more[r.end + 1].scores = x.scores
    BY <1>1, <2>1 DEF LastIs
  <2> QED
    BY <1>4, <1>18, <2>2 DEF Money
<1>24. ReachedIn(more, start, n) = [pot |-> r.potBefore, scores |-> Before(r)]
  BY <1>4, <1>7 DEF Money
<1>25. Begun(more, start)
  BY <1>3, <1>7, <1>21 DEF Begun
<1> HIDE DEF first
<1> QED
  BY <1>4, <1>14, <1>15, <1>20, <1>21, <1>22, <1>23, <1>24, <1>25 DEF FiledIn

\* The events of some kinds in one log after another.
LEMMA AtGrows ==
  ASSUME NEW a, NEW b, NEW S, a \in Seq(S), b \in Seq(S), NEW kinds
  PROVE  /\ At(a \o b, kinds) = At(a, kinds) \cup {Len(a) + i : i \in At(b, kinds)}
         /\ At(a, kinds) \subseteq 1..Len(a)
<1>1. /\ Len(a \o b) = Len(a) + Len(b) /\ Len(a) \in Nat /\ Len(b) \in Nat
      /\ DOMAIN (a \o b) = 1..Len(a) + Len(b) /\ DOMAIN a = 1..Len(a) /\ DOMAIN b = 1..Len(b)
      /\ \A i \in 1..Len(a) + Len(b) : (a \o b)[i] = IF i <= Len(a) THEN a[i] ELSE b[i - Len(a)]
  OBVIOUS
<1>2. ASSUME NEW i
      PROVE  i \in At(a \o b, kinds) <=>
               i \in At(a, kinds) \cup {Len(a) + j : j \in At(b, kinds)}
  <2>1. i \in At(a \o b, kinds) <=>
          i \in 1..Len(a) + Len(b) /\ (IF i <= Len(a) THEN a[i] ELSE b[i - Len(a)]).kind \in kinds
    BY <1>1 DEF At
  <2>2. i \in At(a, kinds) <=> i \in 1..Len(a) /\ a[i].kind \in kinds
    BY <1>1 DEF At
  <2>3. i \in {Len(a) + j : j \in At(b, kinds)} <=>
          \E j \in 1..Len(b) : b[j].kind \in kinds /\ i = Len(a) + j
    BY <1>1 DEF At
  <2>4. ASSUME i \in 1..Len(a) + Len(b), ~(i <= Len(a))
        PROVE  i - Len(a) \in 1..Len(b) /\ i = Len(a) + (i - Len(a))
    BY <1>1, <2>4
  <2>5. ASSUME NEW j \in 1..Len(b), i = Len(a) + j
        PROVE  i \in 1..Len(a) + Len(b) /\ ~(i <= Len(a)) /\ i - Len(a) = j
    BY <1>1, <2>5
  <2>6. i \in 1..Len(a) => i \in 1..Len(a) + Len(b) /\ i <= Len(a)
    BY <1>1
  <2>7. i \in 1..Len(a) + Len(b) /\ i <= Len(a) => i \in 1..Len(a)
    BY <1>1
  <2> QED
    BY <2>1, <2>2, <2>3, <2>4, <2>5, <2>6, <2>7
<1>3. At(a, kinds) \subseteq 1..Len(a)
  BY <1>1 DEF At
<1> QED
  BY <1>2, <1>3

\* The Kyoku goes on with a batch.
Goes(e, x, evs, more, start) ==
  /\ x \in Engine /\ x.kyoku = e.kyoku /\ ~x.done /\ x.won = <<>> /\ x.phase # "over"
  /\ KyokuIs(x, more, start) /\ Grows(evs, more)
  /\ At(more, {"start_kyoku"}) = At(evs, {"start_kyoku"})
  /\ Total(x.scores) + x.pot * Stick = Total(e.scores) + e.pot * Stick

\* A batch that goes on keeps the Kyoku that is played in step with its events.
LEMMA KyokuGoesOn ==
  ASSUME Assumption, NEW e \in Engine, NEW x, NEW u, NEW s, GoesOn(e, x, u, s), NEW evs,
         NEW start, KyokuIs(e, evs, start)
  PROVE  Goes(e, x, evs, evs \o x.log, start) /\ ~Has(x.log, "end_kyoku")
<1> DEFINE more == evs \o x.log
           n == Len(evs)
           m == Len(x.log)
<1>1. /\ x \in Engine /\ x.dealer = e.dealer /\ u \in Nat /\ s \in 0..N
      /\ \A i \in 1..u : x.log[i].kind \in {"reach", "dahai"}
      /\ s # 0 => x.log[u + 1].kind = "reach_accepted" /\ x.log[u + 1].actor = s
      /\ x.pot = e.pot + Few(s) /\ x.scores = Put(e, s)
      /\ \/ s = 0 /\ m = u
         \/ m = u + Few(s) + 1 /\ x.log[u + Few(s) + 1].kind = "tsumo"
  BY DEF GoesOn, Deposit
<1>2. /\ start \in 1..n /\ evs[start].kind = "start_kyoku" /\ evs \in Seq(Event)
      /\ evs[start].oya = e.dealer /\ ReachedIn(evs, start, n) = Money(e)
      /\ Played(evs, start, n)
  BY DEF KyokuIs, Begun
<1>3. e.scores \in [Seats -> Int] /\ e.pot \in Nat /\ x.log \in Seq(Event)
  BY <1>1, EngineFields
<1>4. /\ n \in Nat /\ m \in Nat /\ more \in Seq(Event) /\ Len(more) = n + m
      /\ \A i \in 1..n : more[i] = evs[i]
      /\ \A i \in 1..m : more[n + i] = x.log[i]
      /\ DOMAIN x.log = 1..m /\ DOMAIN more = 1..n + m
  BY <1>2, <1>3
<1>15. /\ x.kyoku = e.kyoku /\ ~x.done /\ x.won = <<>> /\ x.phase # "over"
  BY DEF GoesOn
<1>16. more = evs \o x.log
  OBVIOUS
<1>5. Grows(evs, more) /\ start \in 1..Len(more) /\ more[start] = evs[start]
  <2>1. n <= n + m /\ start \in 1..n + m
    BY <1>2, <1>4
  <2> QED
    BY <1>2, <1>4, <2>1 DEF Grows
<1> HIDE DEF n, m, more
<1>6. Few(s) \in {0, 1} /\ (s = 0 <=> Few(s) = 0)
  BY DEF Few
<1>7. \A i \in 1..m :
        /\ x.log[i].kind \in {"reach", "dahai", "reach_accepted", "tsumo"}
        /\ x.log[i].kind = "reach_accepted" => s # 0 /\ i = u + 1 /\ i < m
  <2>1. CASE s = 0 /\ m = u
    BY <1>1, <2>1
  <2>2. CASE m = u + Few(s) + 1 /\ x.log[u + Few(s) + 1].kind = "tsumo"
    <3>1. ASSUME NEW i \in 1..m
          PROVE  i \in 1..u \/ (s # 0 /\ i = u + 1 /\ i < m) \/ i = u + Few(s) + 1
      <4>1. u \in Nat /\ m = u + Few(s) + 1 /\ i \in Int /\ 1 <= i /\ i <= m
        BY <1>1, <1>4, <2>2
      <4>2. CASE s = 0
        BY <1>6, <4>1, <4>2
      <4>3. CASE s # 0
        <5>1. Few(s) = 1
          BY <1>6, <4>3
        <5> QED
          BY <4>1, <4>3, <5>1
      <4> QED
        BY <4>2, <4>3
    <3> QED
      BY <1>1, <2>2, <3>1
  <2> QED
    BY <1>1, <2>1, <2>2
<1>8. ~Has(x.log, "end_kyoku") /\ At(x.log, {"start_kyoku"}) = {}
  BY <1>4, <1>7 DEF Has, At
<1>9. At(more, {"start_kyoku"}) = At(evs, {"start_kyoku"})
  <2>1. At(more, {"start_kyoku"}) =
          At(evs, {"start_kyoku"}) \cup {Len(evs) + i : i \in At(x.log, {"start_kyoku"})}
    BY <1>2, <1>3, AtGrows DEF more
  <2> QED
    BY <1>8, <2>1
<1>10. ReachedIn(more, start, n) = Money(e) /\ Played(more, start, n)
  <2>1. n \in Int /\ n <= Len(evs)
    BY <1>4 DEF n
  <2> QED
    BY <1>2, <1>5, <2>1, ReachedStays DEF n
<1>11. Played(more, start, n + m)
  <2>1. ASSUME NEW i \in start + 1..n + m
        PROVE  /\ more[i].kind \in {"reach", "dahai", "tsumo", "reach_accepted"}
               /\ more[i].kind = "reach_accepted" => i < n + m
    <3>1. CASE i <= n
      <4>1. i < n => i < n + m
        BY <1>4
      <4>2. i \in start + 1..n
        BY <1>2, <1>4, <3>1
      <4>3. /\ more[i].kind \in {"reach", "dahai", "tsumo", "reach_accepted"}
            /\ more[i].kind = "reach_accepted" => i < n
        BY <1>10, <4>2 DEF Played
      <4> QED
        BY <4>1, <4>3
    <3>2. CASE ~(i <= n)
      <4>1. i - n \in 1..m /\ n + (i - n) = i
        BY <1>2, <1>4, <3>2
      <4>2. more[i] = x.log[i - n]
        BY <1>4, <4>1
      <4>3. i - n < m => i < n + m
        BY <1>4, <4>1
      <4> QED
        BY <1>7, <4>1, <4>2, <4>3
    <3> QED
      BY <3>1, <3>2
  <2> QED
    BY <2>1 DEF Played
<1>12. ReachedIn(more, start, n + m) = [pot |-> x.pot, scores |-> Put(e, s)]
  <2> DEFINE reached == ReachedIn(more, start, n)
             d == n + u + 1
             from == n
             to == n + m
  <2>1. start \in 1..Len(more) /\ more[start].kind = "start_kyoku"
    BY <1>2, <1>5
  <2>2. from \in Int /\ to \in Int /\ d \in Int /\ start <= from /\ from <= to
    BY <1>1, <1>2, <1>4
  <2>3. s # 0 => d \in from + 1..to /\ more[d].kind = "reach_accepted" /\ more[d].actor = s
    <3>1. s # 0 => d \in from + 1..to /\ u + 1 \in 1..m /\ d = n + (u + 1)
      BY <1>1, <1>4, <1>6
    <3> HIDE DEF d
    <3> QED
      BY <1>1, <1>4, <3>1
  <2>4. \A i \in from + 1..to : more[i].kind = "reach_accepted" => s # 0 /\ i = d
    <3>1. ASSUME NEW i \in from + 1..to, more[i].kind = "reach_accepted" PROVE s # 0 /\ i = d
      <4>1. i - n \in 1..m /\ n + (i - n) = i
        BY <1>4
      <4>2. more[i] = x.log[i - n]
        BY <1>4, <4>1
      <4>3. s # 0 /\ i - n = u + 1
        BY <1>7, <3>1, <4>1, <4>2
      <4> QED
        BY <1>1, <1>4, <4>1, <4>3
    <3> QED
      BY <3>1
  <2> HIDE DEF d, from, to
  <2>5. OneDeposit(more, from, to, s, d)
    BY <2>3, <2>4 DEF OneDeposit
  <2>6. ReachedIn(more, start, to) =
          [pot |-> ReachedIn(more, start, from).pot + Few(s),
           scores |-> Put(ReachedIn(more, start, from), s)]
    BY <1>1, <1>4, <2>1, <2>2, <2>5, ReachedGrows
  <2>7. reached.pot = e.pot /\ Put(reached, s) = Put(e, s)
    BY <1>10 DEF Money, Put
  <2> QED
    BY <1>1, <2>6, <2>7 DEF from, to
<1>13. KyokuIs(x, more, start)
  <2>1. start \in DOMAIN more
    BY <1>4, <1>5
  <2> QED
    BY <1>1, <1>2, <1>4, <1>5, <1>11, <1>12, <2>1 DEF KyokuIs, Begun, Money
<1>14. Total(x.scores) + x.pot * Stick = Total(e.scores) + e.pot * Stick
  <2>1. Total(x.scores) = Total(e.scores) - Few(s) * Stick /\ Stick = 10
    BY <1>1, <1>3, PutMoves
  <2>2. Total(e.scores) \in Int /\ Few(s) \in Int
    <3>1. Total(e.scores) \in Int
      BY <1>3, TotalOf
    <3> QED
      BY <1>6, <3>1
  <2>3. \A t, f, q \in Int : (t - f * 10) + (q + f) * 10 = t + q * 10
    OBVIOUS
  <2>4. x.pot = e.pot + Few(s) /\ e.pot \in Int
    BY <1>1, <1>3
  <2> QED
    BY <2>1, <2>2, <2>3, <2>4
<1> QED
  BY <1>1, <1>5, <1>8, <1>9, <1>13, <1>14, <1>15 DEF Goes, more

\* What the adapter files when a Kyoku has ended.
Files(e, real, last, evs, more, r, start, k) ==
  /\ Grows(evs, more) /\ Len(evs) < Len(more)
  /\ r \in Result /\ RecordValid(r) /\ r.end + 1 = Len(more) /\ last \in BOOLEAN
  /\ FiledIn(more, start, r, k, last, Money(real))
  /\ real \in Engine /\ Total(real.scores) + real.pot * Stick = N * Points0
  /\ last => /\ real.done /\ real.kyoku = e.kyoku
             /\ At(more, {"start_kyoku"}) = At(evs, {"start_kyoku"})
  /\ ~last => /\ ~real.done /\ real.kyoku = e.kyoku + 1 /\ real.phase = "act"
              /\ real.won = <<>> /\ KyokuIs(real, more, Len(more))
              /\ At(more, {"start_kyoku"}) = At(evs, {"start_kyoku"}) \cup {Len(more)}

\* Nothing in the log of a batch that ends a Kyoku starts one.
LEMMA NoStart ==
  ASSUME NEW e, NEW x, Settles(e, x)
  PROVE  /\ x \in Engine /\ x.kyoku = e.kyoku /\ ~x.done
         /\ \A i \in 1..Len(x.log) : x.log[i].kind # "start_kyoku"
<1>1. CASE Claimed(e, x)
  BY <1>1 DEF Claimed, WonBy, Claims
<1>2. ASSUME NEW n \in Nat, NEW s \in 0..N, Drawn(e, x, n, s)
      PROVE  /\ x \in Engine /\ x.kyoku = e.kyoku /\ ~x.done
             /\ \A i \in 1..Len(x.log) : x.log[i].kind # "start_kyoku"
  <2>1. /\ x \in Engine /\ x.kyoku = e.kyoku /\ ~x.done
        /\ Len(x.log) = n + Few(s) + 1 /\ x.log[n + Few(s) + 1].kind = "ryukyoku"
        /\ \A i \in 1..n : x.log[i].kind \in {"reach", "dahai"}
        /\ s # 0 => x.log[n + 1].kind = "reach_accepted"
    BY <1>2 DEF Drawn, Finished, Deposit
  <2>2. \A i \in 1..Len(x.log) : i \in 1..n \/ (s # 0 /\ i = n + 1) \/ i = n + Few(s) + 1
    <3>1. CASE s = 0
      BY <2>1, <3>1 DEF Few
    <3>2. CASE s # 0
      BY <2>1, <3>2 DEF Few
    <3> QED
      BY <3>1, <3>2
  <2> QED
    BY <2>1, <2>2
<1> QED
  BY <1>1, <1>2 DEF Settles

\* Where the events that a batch adds start a Kyoku: the last one, or none.
LEMMA StartsGrow ==
  ASSUME NEW evs \in Seq(Event), NEW x \in Engine, NEW y, NEW b,
         Ends(x, y, Is("end_kyoku"), b),
         \A i \in 1..Len(x.log) : x.log[i].kind # "start_kyoku"
  PROVE  At(evs \o y.log, {"start_kyoku"}) =
           At(evs, {"start_kyoku"})
             \cup (IF b.kind = "start_kyoku" THEN {Len(evs \o y.log)} ELSE {})
<1>1. /\ y.log \in Seq(Event) /\ Len(y.log) = Len(x.log) + 2 /\ x.log \in Seq(Event)
      /\ \A i \in 1..Len(x.log) : y.log[i] = x.log[i]
      /\ y.log[Len(x.log) + 1] = Is("end_kyoku") /\ y.log[Len(x.log) + 2] = b
  BY EngineFields DEF Ends
<1> DEFINE m == Len(x.log)
<1>2. m \in Nat /\ DOMAIN y.log = 1..m + 2 /\ Len(evs \o y.log) = Len(evs) + (m + 2)
  <2>1. m \in Nat
    BY <1>1
  <2>2. Len(evs \o y.log) = Len(evs) + Len(y.log) /\ Len(y.log) = m + 2
    <3>1. \A p, q \in Seq(Event) : Len(p \o q) = Len(p) + Len(q)
      OBVIOUS
    <3> QED
      BY <1>1, <3>1
  <2>3. DOMAIN y.log = 1..Len(y.log)
    BY <1>1
  <2> HIDE DEF m
  <2> QED
    BY <2>1, <2>2, <2>3
<1>3. \A i \in 1..m + 2 : i \in 1..m \/ i = m + 1 \/ i = m + 2
  BY <1>2
<1>4. Is("end_kyoku").kind # "start_kyoku" /\ m + 2 \in 1..m + 2
  BY <1>2 DEF Is
<1>5. At(y.log, {"start_kyoku"}) = IF b.kind = "start_kyoku" THEN {m + 2} ELSE {}
  <2> HIDE DEF m
  <2>1. \A i \in 1..m : y.log[i].kind # "start_kyoku"
    BY <1>1 DEF m
  <2>2. y.log[m + 1].kind # "start_kyoku" /\ y.log[m + 2] = b
    BY <1>1, <1>4 DEF m
  <2> QED
    BY <1>2, <1>3, <1>4, <2>1, <2>2 DEF At
<1>6. At(evs \o y.log, {"start_kyoku"}) =
        At(evs, {"start_kyoku"}) \cup {Len(evs) + i : i \in At(y.log, {"start_kyoku"})}
  BY <1>1, AtGrows
<1> HIDE DEF m
<1> QED
  BY <1>2, <1>5, <1>6

\* What ends a Kyoku is filed as it was.
LEMMA EndsFiled ==
  ASSUME Assumption, NEW e, Running(e), NEW x, Settles(e, x), NEW evs, NEW start,
         KyokuIs(e, evs, start), Total(e.scores) + e.pot * Stick = N * Points0,
         NEW k \in Nat \ {0}, NEW real, real = Ended(x, FALSE), NEW b, Closes(b),
         Ends(x, real, Is("end_kyoku"), b), LastIs(b, x, real, Last(x)),
         real \in Engine
  PROVE  LET copy == Ended(x, TRUE)
             more == evs \o real.log
             r == ResultRecord(e, copy, real, real.log, k, Len(evs) + 1)
         IN RecordIs(r, e, x, real, k, Len(evs) + 1)
            /\ FiledIn(more, start, r, k, Last(x), Money(real))
<1> DEFINE copy == Ended(x, TRUE)
           more == evs \o real.log
           r == ResultRecord(e, copy, real, real.log, k, Len(evs) + 1)
           last == Last(x)
<1>1. e \in Engine /\ x \in Engine /\ ~x.done /\ evs \in Seq(Event) /\ Len(evs) + 1 \in Nat
  BY NoStart DEF Running, KyokuIs
<1>2. copy.won = x.won /\ copy.scores = x.scores
  BY <1>1, RealEnds
<1>3. real.scores \in [Seats -> Int] /\ real.pot \in Nat
  BY EngineFields
<1>4. last \in BOOLEAN /\ LastIs(b, x, real, last) /\ more = evs \o real.log
  BY DEF Last
<1> HIDE DEF copy, last, more, r
<1>5. CASE Claimed(e, x)
  <2>1. WonBy(e, x) /\ x.pot = 0
    BY <1>5 DEF Claimed, WonBy
  <2>2. RecordIs(r, e, x, real, k, Len(evs) + 1)
    BY <1>1, <1>2, <1>3, <2>1, WonRecord DEF r
  <2>3. real.scores = x.scores /\ real.pot = 0
    <3>1. CASE last
      <4>1. x.scores \in [Seats -> Int]
        BY <1>1, EngineFields
      <4>2. Top(x.scores) \in Seats /\ x.scores[Top(x.scores)] \in Int
        BY <4>1, TopLeads
      <4>3. x.pot * Stick = 0
        BY <2>1 DEF Stick
      <4>4. real.scores = [x.scores EXCEPT ![Top(x.scores)] = @ + 0] /\ real.pot = 0
        BY <1>4, <3>1, <4>3 DEF LastIs
      <4>5. x.scores[Top(x.scores)] + 0 = x.scores[Top(x.scores)]
        BY <4>2
      <4> HIDE DEF last
      <4>6. [x.scores EXCEPT ![Top(x.scores)] = x.scores[Top(x.scores)]] = x.scores
        BY <4>1
      <4> QED
        BY <4>4, <4>5, <4>6
    <3>2. CASE ~last
      BY <1>4, <2>1, <3>2 DEF LastIs
    <3> QED
      BY <3>1, <3>2
  <2>4. FiledIn(more, start, r, k, last, Money(real))
    BY <1>1, <1>4, <1>5, <2>2, <2>3, WonFiled, Zenon
  <2> QED
    BY <2>2, <2>4 DEF more, last, r, copy
<1>6. ASSUME NEW n \in Nat, NEW s \in 0..N, Drawn(e, x, n, s)
      PROVE  RecordIs(r, e, x, real, k, Len(evs) + 1)
             /\ FiledIn(more, start, r, k, last, Money(real))
  <2>1. RecordIs(r, e, x, real, k, Len(evs) + 1)
    BY <1>1, <1>2, <1>3, <1>6, DrawnRecord DEF r
  <2>2. FiledIn(more, start, r, k, last, Money(real))
    BY <1>1, <1>4, <1>6, <2>1, DrawnFiled, Zenon
  <2> QED
    BY <2>1, <2>2
<1> QED
  BY <1>5, <1>6 DEF Settles, more, last, r, copy

\* The Kyoku that is dealt next begins with what the engine has.
LEMMA NextKyokuIs ==
  ASSUME NEW evs \in Seq(Event), NEW real \in Engine, NEW x \in Engine, NEW b,
         Ends(x, real, Is("end_kyoku"), b),
         b = [kind |-> "start_kyoku", scores |-> x.scores, kyotaku |-> x.pot,
              oya |-> x.dealer],
         real.dealer = x.dealer, SameMoney(x, real)
  PROVE  LET more == evs \o real.log IN KyokuIs(real, more, Len(more))
<1> DEFINE more == evs \o real.log
           n == Len(more)
<1>1. /\ real.log \in Seq(Event) /\ Len(real.log) = Len(x.log) + 2 /\ Len(x.log) \in Nat
      /\ real.log[Len(x.log) + 2] = b
  BY EngineFields DEF Ends
<1>2. more \in Seq(Event) /\ n = Len(evs) + Len(real.log) /\ n \in 1..n /\ n \in Nat
  <2>1. Len(real.log) \in Nat \ {0}
    BY <1>1
  <2> QED
    BY <1>1, <2>1, SMTT(30)
<1>3. more[n] = b
  <2>1. more[Len(evs) + Len(real.log)] = real.log[Len(real.log)]
    <3>1. Len(real.log) \in 1..Len(real.log)
      BY <1>1
    <3> QED
      BY <1>1, <3>1
  <2> HIDE DEF more
  <2> QED
    BY <1>1, <1>2, <2>1
<1> HIDE DEF more, n
<1>4. n = Len(more)
  BY DEF n
<1>5. Begun(more, n) /\ more[n].oya = real.dealer
  BY <1>2, <1>3, <1>4 DEF Begun
<1>6. n + 1..n = {}
  BY <1>2
<1>7. Played(more, n, n)
  BY <1>6 DEF Played
<1>8. ReachedIn(more, n, n) = Money(real)
  <2>1. DepositsIn(more, n, n) = {} /\ \A s : DepositsOfIn(more, s, n, n) = {}
    BY <1>6 DEF DepositsIn, DepositsOfIn
  <2>2. Cardinality({}) = 0 /\ Stick = 10
    BY FS_EmptySet DEF Stick
  <2>3. x.pot \in Nat /\ x.scores \in [Seats -> Int]
    BY EngineFields
  <2>4. ReachedIn(more, n, n) =
          [pot |-> b.kyotaku + 0, scores |-> [s \in Seats |-> b.scores[s] - 10 * 0]]
    BY <1>3, <2>1, <2>2 DEF ReachedIn
  <2>5. b.kyotaku + 0 = real.pot
    BY <2>3 DEF SameMoney
  <2>6. [s \in Seats |-> b.scores[s] - 10 * 0] = real.scores
    <3>1. b.scores = x.scores /\ \A s \in Seats : x.scores[s] - 10 * 0 = x.scores[s]
      BY <2>3
    <3>2. x.scores = [s \in Seats |-> x.scores[s]]
      BY <2>3
    <3> QED
      BY <3>1, <3>2 DEF SameMoney
  <2> QED
    BY <2>4, <2>5, <2>6 DEF Money
<1> QED
  BY <1>2, <1>4, <1>5, <1>7, <1>8 DEF KyokuIs, more

\* A batch that ends the Kyoku files a record that agrees with the events.
LEMMA SettlesFiles ==
  ASSUME Assumption, NEW e, Running(e), NEW x, Settles(e, x), NEW evs, NEW start,
         KyokuIs(e, evs, start), Total(e.scores) + e.pot * Stick = N * Points0,
         NEW k \in Nat \ {0}
  PROVE  LET real == Ended(x, FALSE)
             copy == Ended(x, TRUE)
             more == evs \o real.log
             r == ResultRecord(e, copy, real, real.log, k, Len(evs) + 1)
         IN
         /\ Has(real.log, "end_kyoku") /\ CaptureAgrees(copy, real, real.log)
         /\ \A i \in DOMAIN r.wins : r.wins[i].agreed
         /\ Files(e, real, Last(x), evs, more, r, start, k)
<1> DEFINE real == Ended(x, FALSE)
           copy == Ended(x, TRUE)
           more == evs \o real.log
           r == ResultRecord(e, copy, real, real.log, k, Len(evs) + 1)
           last == Last(x)
           next == [kind |-> "start_kyoku", scores |-> x.scores, kyotaku |-> x.pot,
                    oya |-> x.dealer]
           b == IF last THEN Is("end_game") ELSE next
<1>1. /\ e \in Engine /\ x \in Engine /\ ~x.done /\ x.kyoku = e.kyoku /\ evs \in Seq(Event)
      /\ \A i \in 1..Len(x.log) : x.log[i].kind # "start_kyoku"
  BY NoStart DEF Running, KyokuIs
<1>2. CaptureAgrees(copy, real, real.log)
  BY <1>1, CaptureFits
<1>3. last => /\ Ends(x, real, Is("end_kyoku"), Is("end_game"))
              /\ real \in Engine /\ real.done /\ real.kyoku = x.kyoku /\ real.pot = 0
              /\ real.scores = [x.scores EXCEPT ![Top(x.scores)] = @ + x.pot * Stick]
  BY <1>1, MatchEnds
<1>4. ~last => /\ Ends(x, real, Is("end_kyoku"), next)
               /\ real \in Engine /\ ~real.done /\ real.kyoku = x.kyoku + 1 /\ real.phase = "act"
               /\ real.won = <<>> /\ real.dealer = x.dealer /\ SameMoney(x, real)
  BY <1>1, NextDeals
<1>5. /\ real \in Engine /\ Ends(x, real, Is("end_kyoku"), b) /\ Closes(b)
      /\ LastIs(b, x, real, last) /\ (b.kind = "start_kyoku" <=> ~last)
  <2> HIDE DEF real
  <2>1. CASE last
    BY <1>3, <2>1, EventsOfEnd DEF LastIs, Closes, last
  <2>2. CASE ~last
    BY <1>4, <2>2 DEF LastIs, Closes, SameMoney, last
  <2> QED
    BY <2>1, <2>2
<1> HIDE DEF b, last
<1>6. RecordIs(r, e, x, real, k, Len(evs) + 1) /\ FiledIn(more, start, r, k, last, Money(real))
  <2>1. real = Ended(x, FALSE) /\ LastIs(b, x, real, Last(x))
    BY <1>5 DEF last
  <2> HIDE DEF real
  <2>2. RecordIs(r, e, x, real, k, Len(evs) + 1)
        /\ FiledIn(more, start, r, k, Last(x), Money(real))
    BY <1>5, <2>1, EndsFiled
  <2> QED
    BY <2>2 DEF last
<1> HIDE DEF real, copy, next
<1>7. Follows(evs, x, Is("end_kyoku"), b, more)
  BY <1>1, <1>5, MoreIs
<1>8. /\ Grows(evs, more) /\ Len(more) = Len(evs) + Len(x.log) + 2 /\ Len(evs) \in Nat
      /\ Len(x.log) \in Nat
  BY <1>7 DEF Follows
<1> HIDE DEF more, r
<1>9. /\ r \in Result /\ RecordValid(r) /\ r.end = Len(evs) + 1 + Len(x.log)
      /\ r.potAfter = real.pot /\ After(r) = real.scores /\ Len(r.wins) = Len(x.won)
      /\ \A i \in 1..Len(x.won) : r.wins[i].agreed
  BY <1>6 DEF RecordIs
<1>10. r.end + 1 = Len(more)
  <2>1. Len(more) = Len(evs) + Len(x.log) + 2 /\ Len(evs) \in Nat /\ Len(x.log) \in Nat
    BY <1>8
  <2>2. r.end = Len(evs) + 1 + Len(x.log)
    BY <1>9
  <2>3. \A p, q \in Nat : p + 1 + q + 1 = p + q + 2
    OBVIOUS
  <2> QED
    BY <2>1, <2>2, <2>3
<1>17. Len(evs) < Len(more)
  <2>1. \A p, q \in Nat : p < p + q + 2
    OBVIOUS
  <2> QED
    BY <1>8, <2>1
<1>11. \A i \in DOMAIN r.wins : r.wins[i].agreed
  <2>1. r.wins \in Seq([index : Int, seat : Seats, target : Seats, tsumo : BOOLEAN,
                        points : Nat, agreed : BOOLEAN])
    BY <1>9 DEF Result
  <2>2. DOMAIN r.wins = 1..Len(r.wins)
    BY <2>1
  <2> QED
    BY <1>9, <2>2
<1>12. Has(real.log, "end_kyoku")
  <2>1. /\ Len(real.log) = Len(x.log) + 2 /\ real.log \in Seq(Event)
        /\ real.log[Len(x.log) + 1] = Is("end_kyoku")
    BY <1>5 DEF Ends
  <2>2. Len(x.log) + 1 \in DOMAIN real.log
    BY <1>8, <2>1
  <2> QED
    BY <2>1, <2>2 DEF Has, Is
<1>13. Total(real.scores) + real.pot * Stick = N * Points0
  <2>1. Total(After(r)) + r.potAfter * Stick = N * Points0
    BY <1>6 DEF FiledIn
  <2> QED
    BY <1>9, <2>1
<1>14. At(more, {"start_kyoku"}) =
         At(evs, {"start_kyoku"}) \cup (IF last THEN {} ELSE {Len(more)})
  <2>1. At(more, {"start_kyoku"}) =
          At(evs, {"start_kyoku"}) \cup (IF b.kind = "start_kyoku" THEN {Len(more)} ELSE {})
    BY <1>1, <1>5, StartsGrow DEF more
  <2> QED
    BY <1>5, <2>1
<1>15. ~last => KyokuIs(real, more, Len(more))
  <2>1. ASSUME ~last PROVE KyokuIs(real, more, Len(more))
    <3>1. b = [kind |-> "start_kyoku", scores |-> x.scores, kyotaku |-> x.pot,
               oya |-> x.dealer]
      BY <2>1 DEF b, next
    <3> QED
      BY <1>1, <1>4, <1>5, <2>1, <3>1, NextKyokuIs DEF more
  <2> QED
    BY <2>1
<1>16. /\ last => /\ real.done /\ real.kyoku = e.kyoku
                  /\ At(more, {"start_kyoku"}) = At(evs, {"start_kyoku"})
       /\ ~last => /\ ~real.done /\ real.kyoku = e.kyoku + 1 /\ real.phase = "act"
                   /\ real.won = <<>> /\ KyokuIs(real, more, Len(more))
                   /\ At(more, {"start_kyoku"}) = At(evs, {"start_kyoku"}) \cup {Len(more)}
  BY <1>1, <1>3, <1>4, <1>14, <1>15
<1>18. last \in BOOLEAN
  BY DEF last, Last
<1>19. Files(e, real, last, evs, more, r, start, k)
  BY <1>5, <1>6, <1>8, <1>9, <1>10, <1>13, <1>16, <1>17, <1>18 DEF Files
<1> QED
  BY <1>2, <1>11, <1>12, <1>19 DEF real, copy, more, r, last

-----------------------------------------------------------------------------
(* The invariant *)

\* Where the Kyoku start.
LEMMA StartsAre ==
  ASSUME StartsInv, engine.kyoku \in Nat, events \in Seq(Event)
  PROVE  /\ Cardinality(Starts) = engine.kyoku
         /\ \A k \in 1..engine.kyoku : Start(k) = Begin(k) /\ Begin(k) \in 1..Len(events)
<1> DEFINE n == engine.kyoku
           f == [k \in 1..n |-> Begin(k)]
<1>1. Starts \subseteq 1..Len(events)
  BY DEF Starts, At
<1>2. \A k \in 1..n : Begin(k) \in Starts /\ Begin(k) \in 1..Len(events)
  BY <1>1 DEF StartsInv
<1>3. f \in [1..n -> Int] /\ \A k \in 1..n : f[k] = Begin(k)
  BY <1>2
<1>4. Starts = {f[k] : k \in 1..n} /\ \A i, j \in 1..n : i < j => f[i] < f[j]
  BY <1>3 DEF StartsInv
<1> HIDE DEF f, n
<1>5. n \in Nat
  BY DEF n
<1>6. Cardinality(Starts) = n /\ \A k \in 1..n : Nth(Starts, k) = f[k]
  BY <1>3, <1>4, <1>5, ListedPlaces
<1> QED
  BY <1>2, <1>3, <1>6 DEF n, Start

\* What an engine that is drained has kept.
LEMMA Drained ==
  ASSUME NEW x \in Engine, NEW y, y = [x EXCEPT !.log = <<>>]
  PROVE  /\ y \in Engine /\ y.log = <<>> /\ Money(y) = Money(x) /\ y.kyoku = x.kyoku
         /\ y.done = x.done /\ y.won = x.won /\ y.phase = x.phase /\ y.dealer = x.dealer
         /\ y.scores = x.scores /\ y.pot = x.pot
<1>1. <<>> \in Seq(Event)
  OBVIOUS
<1> QED
  BY <1>1 DEF Engine, Money

\* What the invariant says of the Kyoku that is played.
LEMMA KyokuNow ==
  ASSUME ResultsInv, ~engine.done
  PROVE  /\ Running(engine) /\ engine \in Engine /\ KyokuIs(engine, events, Begin(engine.kyoku))
         /\ Total(engine.scores) + engine.pot * Stick = N * Points0
         /\ engine.kyoku \in Nat \ {0} /\ engine.kyoku \in 1..Kyokus
         /\ Len(records) = engine.kyoku - 1 /\ records \in Seq(Result) /\ events \in Seq(Event)
         /\ Cardinality(At(events, {"start_kyoku"})) = engine.kyoku
<1>1. Running(engine) /\ engine \in Engine /\ Total(engine.scores) + engine.pot * Stick = N * Points0
  BY DEF ResultsInv, EngineInv
<1>2. KyokuIs(engine, events, Begin(engine.kyoku))
  BY DEF ResultsInv, KyokuInv, KyokuIs, Money
<1>3. engine.kyoku \in 1..Kyokus
  BY <1>1, EngineFields
<1>4. engine.kyoku \in Nat \ {0}
  BY <1>3
<1>5. Cardinality(Starts) = engine.kyoku
  BY <1>4, StartsAre DEF ResultsInv
<1> QED
  BY <1>1, <1>2, <1>3, <1>4, <1>5 DEF ResultsInv, Starts

\* The Kyoku that have ended keep their records.
LEMMA OldFiled ==
  ASSUME ResultsInv, ~engine.done, Grows(events, events'), Len(records) <= Len(records'),
         records' \in Seq(Result), \A k \in 1..Len(records) : records'[k] = records[k]
  PROVE  /\ \A k \in 1..engine.kyoku : Begin(k)' = Begin(k)
         /\ \A k \in 1..Len(records) :
              \A m : FiledIn(events', Begin(k)', records'[k], k, FALSE, m)
<1>1. /\ Len(records) = engine.kyoku - 1 /\ records \in Seq(Result)
      /\ engine.kyoku \in Nat /\ Len(records) \in Nat
  BY KyokuNow
<1>2. ASSUME NEW k \in 1..engine.kyoku PROVE Begin(k)' = Begin(k)
  <2>1. CASE k = 1
    BY <2>1 DEF Begin
  <2>2. CASE k # 1
    <3>1. k - 1 \in 1..Len(records)
      BY <1>1, <2>2
    <3> QED
      BY <2>2, <3>1 DEF Begin
  <2> QED
    BY <2>1, <2>2
<1>3. ASSUME NEW k \in 1..Len(records), NEW m
      PROVE  FiledIn(events', Begin(k)', records'[k], k, FALSE, m)
  <2>1. k \in 1..engine.kyoku /\ k # engine.kyoku /\ k \in DOMAIN records
    BY <1>1
  <2>2. FiledIn(events, Begin(k), records[k], k, k = engine.kyoku, Money(engine))
    BY <2>1 DEF ResultsInv, Filed
  <2>3. FiledIn(events, Begin(k), records[k], k, FALSE, Money(engine))
    <3>1. (k = engine.kyoku) = FALSE
      BY <2>1
    <3> QED
      BY <2>2, <3>1
  <2>4. records[k] \in Result
    BY <1>1, <2>1
  <2>5. FiledIn(events', Begin(k), records[k], k, FALSE, m)
    BY <2>3, <2>4, FiledStays
  <2>6. Begin(k)' = Begin(k) /\ records'[k] = records[k]
    BY <1>2, <2>1
  <2> QED
    BY <2>5, <2>6
<1> QED
  BY <1>2, <1>3

\* A batch with which the Kyoku goes on keeps the invariant.
LEMMA GoesOnKeeps ==
  ASSUME Assumption, ResultsInv, ~engine.done, NEW x,
         Goes(engine, x, events, events', Begin(engine.kyoku)),
         engine' = [x EXCEPT !.log = <<>>], UNCHANGED <<records, status>>
  PROVE  ResultsInv'
<1> DEFINE start == Begin(engine.kyoku)
<1>1. /\ engine \in Engine /\ KyokuIs(engine, events, start)
      /\ Total(engine.scores) + engine.pot * Stick = N * Points0
      /\ Len(records) = engine.kyoku - 1 /\ records \in Seq(Result) /\ engine.kyoku \in Nat
      /\ engine.kyoku \in 1..engine.kyoku
  BY KyokuNow
<1>2. /\ x \in Engine /\ x.kyoku = engine.kyoku /\ ~x.done /\ x.won = <<>> /\ x.phase # "over"
  BY DEF Goes
<1>3. /\ KyokuIs(x, events', start) /\ Grows(events, events')
      /\ At(events', {"start_kyoku"}) = At(events, {"start_kyoku"})
      /\ Total(x.scores) + x.pot * Stick = Total(engine.scores) + engine.pot * Stick
  BY DEF Goes
<1> HIDE DEF start
<1>4. /\ engine' \in Engine /\ engine'.log = <<>> /\ Money(engine') = Money(x)
      /\ engine'.kyoku = engine.kyoku /\ ~engine'.done /\ engine'.won = <<>>
      /\ engine'.phase # "over" /\ engine'.dealer = x.dealer
      /\ engine'.scores = x.scores /\ engine'.pot = x.pot
  BY <1>2, Drained
<1>5. /\ \A k \in 1..engine.kyoku : Begin(k)' = Begin(k)
      /\ \A k \in 1..Len(records) :
           \A m : FiledIn(events', Begin(k)', records'[k], k, FALSE, m)
  <2>1. Len(records) <= Len(records') /\ records' \in Seq(Result)
        /\ \A k \in 1..Len(records) : records'[k] = records[k]
    BY <1>1
  <2> QED
    BY <1>3, <2>1, OldFiled
<1>6. EngineInv'
  BY <1>1, <1>3, <1>4 DEF EngineInv, Running
<1>7. StartsInv'
  <2>1. Starts' = Starts
    BY <1>3 DEF Starts
  <2>2. StartsInv
    BY DEF ResultsInv
  <2>3. {Begin(k)' : k \in 1..engine.kyoku} = {Begin(k) : k \in 1..engine.kyoku}
    BY <1>5
  <2>4. \A i, j \in 1..engine.kyoku : i < j => Begin(i)' < Begin(j)'
    BY <1>5, <2>2 DEF StartsInv
  <2> QED
    BY <1>4, <2>1, <2>2, <2>3, <2>4 DEF StartsInv
<1>8. KyokuInv'
  <2>1. Begin(engine.kyoku)' = start
    BY <1>1, <1>4, <1>5 DEF start, Begin
  <2>2. /\ Begun(events', start) /\ events'[start].oya = engine'.dealer
        /\ Played(events', start, Len(events'))
        /\ ReachedIn(events', start, Len(events')) = Money(engine')
    BY <1>3, <1>4 DEF KyokuIs
  <2> QED
    BY <2>1, <2>2 DEF KyokuInv, Money
<1>9. \A k \in DOMAIN records' : Filed(k)'
  <2>1. ASSUME NEW k \in DOMAIN records' PROVE Filed(k)'
    <3>1. k \in 1..Len(records) /\ k # engine'.kyoku
      BY <1>1, <1>4
    <3>2. FiledIn(events', Begin(k)', records'[k], k, FALSE, Money(engine'))
      BY <1>5, <3>1
    <3>3. (k = engine'.kyoku) = FALSE
      BY <3>1
    <3> QED
      BY <3>2, <3>3 DEF Filed
  <2> QED
    BY <2>1
<1>10. events' \in Seq(Event) /\ status' = "ok"
  BY <1>3 DEF Grows, ResultsInv
<1> QED
  BY <1>1, <1>4, <1>6, <1>7, <1>8, <1>9, <1>10 DEF ResultsInv

\* One record more.
LEMMA AppendGives ==
  ASSUME NEW S, NEW q \in Seq(S), NEW v \in S
  PROVE  /\ Append(q, v) \in Seq(S) /\ Len(Append(q, v)) = Len(q) + 1
         /\ Len(q) \in Nat /\ DOMAIN Append(q, v) = 1..Len(q) + 1
         /\ Append(q, v)[Len(q) + 1] = v
         /\ \A k \in 1..Len(q) : Append(q, v)[k] = q[k]
OBVIOUS

\* A batch that ends the Kyoku, too.
LEMMA SettlesKeeps ==
  ASSUME Assumption, ResultsInv, ~engine.done, NEW real, NEW last, NEW r,
         Files(engine, real, last, events, events', r, Begin(engine.kyoku), engine.kyoku),
         engine' = [real EXCEPT !.log = <<>>], UNCHANGED status,
         records' = Append(records, r)
  PROVE  ResultsInv'
<1> DEFINE start == Begin(engine.kyoku)
<1>0. PICK n \in Nat : n = engine.kyoku
  <2>1. engine.kyoku \in Nat
    BY KyokuNow
  <2> QED
    BY <2>1
<1>1. /\ engine \in Engine /\ n \in 1..n /\ n \in Nat
      /\ Len(records) = n - 1 /\ records \in Seq(Result)
  <2>1. /\ engine \in Engine /\ engine.kyoku \in Nat \ {0}
        /\ Len(records) = engine.kyoku - 1 /\ records \in Seq(Result)
    BY KyokuNow
  <2> QED
    BY <1>0, <2>1
<1>2. /\ Grows(events, events') /\ Len(events) < Len(events') /\ r \in Result /\ RecordValid(r) /\ r.end + 1 = Len(events')
      /\ last \in BOOLEAN
      /\ FiledIn(events', start, r, n, last, Money(real))
      /\ real \in Engine /\ Total(real.scores) + real.pot * Stick = N * Points0
      /\ last => /\ real.done /\ real.kyoku = n
                 /\ At(events', {"start_kyoku"}) = At(events, {"start_kyoku"})
      /\ ~last => /\ ~real.done /\ real.kyoku = n + 1 /\ real.phase = "act" /\ real.won = <<>>
                  /\ At(events', {"start_kyoku"}) = At(events, {"start_kyoku"}) \cup {Len(events')}
                  /\ KyokuIs(real, events', Len(events'))
  BY <1>0 DEF Files
<1>3. records' = Append(records, r) /\ engine' = [real EXCEPT !.log = <<>>]
  OBVIOUS
<1>15. start = Begin(n)
  BY <1>0
<1> HIDE DEF start
<1>4. /\ engine' \in Engine /\ engine'.log = <<>> /\ Money(engine') = Money(real)
      /\ engine'.kyoku = real.kyoku /\ engine'.done = real.done /\ engine'.won = real.won
      /\ engine'.phase = real.phase /\ engine'.dealer = real.dealer
      /\ engine'.scores = real.scores /\ engine'.pot = real.pot
  BY <1>2, <1>3, Drained
<1>5. /\ records' \in Seq(Result) /\ Len(records') = n /\ records'[n] = r
      /\ Len(records) <= Len(records') /\ DOMAIN records' = 1..n
      /\ \A k \in 1..Len(records) : records'[k] = records[k]
  <2>1. Len(records) + 1 = n
    BY <1>1
  <2>2. \A recs \in Seq(Result), v \in Result :
          /\ Append(recs, v) \in Seq(Result) /\ Len(Append(recs, v)) = Len(recs) + 1
          /\ Len(recs) \in Nat /\ DOMAIN Append(recs, v) = 1..Len(recs) + 1
          /\ Append(recs, v)[Len(recs) + 1] = v
          /\ \A k \in 1..Len(recs) : Append(recs, v)[k] = recs[k]
    BY AppendGives
  <2> QED
    BY <1>1, <1>2, <1>3, <2>1, <2>2
<1>6. /\ \A k \in 1..n : Begin(k)' = Begin(k)
      /\ \A k \in 1..Len(records) :
           \A m : FiledIn(events', Begin(k)', records'[k], k, FALSE, m)
  BY <1>0, <1>2, <1>5, OldFiled
<1>7. ~last => Begin(n + 1)' = Len(events')
  <2>1. n + 1 # 1 /\ (n + 1) - 1 = n
    BY <1>1
  <2> QED
    BY <1>2, <1>5, <2>1 DEF Begin
<1>8. EngineInv'
  BY <1>2, <1>4 DEF EngineInv, Running
<1>9. StartsInv /\ \A k \in 1..n : Begin(k) \in 1..Len(events)
  <2>1. StartsInv /\ events \in Seq(Event)
    BY DEF ResultsInv
  <2> QED
    BY <1>0, <1>1, <2>1, StartsAre
<1>10. StartsInv'
  <2>1. {Begin(k)' : k \in 1..n} = {Begin(k) : k \in 1..n}
    BY <1>6
  <2>2. Starts = {Begin(k) : k \in 1..n} /\ \A i, j \in 1..n : i < j => Begin(i) < Begin(j)
    BY <1>0, <1>9 DEF StartsInv
  <2>3. \A i, j \in 1..n : i < j => Begin(i)' < Begin(j)'
    BY <1>6, <2>2
  <2>4. CASE last
    <3>1. Starts' = Starts /\ engine'.kyoku = n
      BY <1>2, <1>4, <2>4 DEF Starts
    <3> QED
      BY <2>1, <2>2, <2>3, <3>1 DEF StartsInv
  <2>5. CASE ~last
    <3>1. Starts' = Starts \cup {Len(events')} /\ engine'.kyoku = n + 1
      BY <1>2, <1>4, <2>5 DEF Starts
    <3>2. \A k \in 1..n + 1 : k \in 1..n \/ k = n + 1
      BY <1>1
    <3>3. \A k \in 1..n : k \in 1..n + 1
      BY <1>1
    <3>4. {Begin(k)' : k \in 1..n + 1} = {Begin(k) : k \in 1..n} \cup {Len(events')}
      <4>1. n + 1 \in 1..n + 1
        BY <1>1
      <4> QED
        BY <1>6, <1>7, <2>5, <3>2, <3>3, <4>1
    <3>5. \A k \in 1..n : Begin(k)' < Len(events')
      <4>1. Len(events) \in Nat /\ Len(events') \in Nat
        <5>1. events \in Seq(Event) /\ events' \in Seq(Event)
          BY <1>2 DEF Grows
        <5> QED
          BY <5>1
      <4>2. ASSUME NEW k \in 1..n PROVE Begin(k)' < Len(events')
        <5>1. Begin(k)' = Begin(k) /\ Begin(k) \in 1..Len(events)
          BY <1>6, <1>9
        <5> QED
          BY <1>2, <4>1, <5>1
      <4> QED
        BY <4>2
    <3>6. \A i, j \in 1..n + 1 : i < j => Begin(i)' < Begin(j)'
      <4>1. ASSUME NEW i \in 1..n + 1, NEW j \in 1..n + 1, i < j PROVE Begin(i)' < Begin(j)'
        <5>1. i \in 1..n /\ (j \in 1..n \/ j = n + 1)
          BY <1>1, <4>1
        <5> QED
          BY <1>7, <2>3, <2>5, <3>5, <4>1, <5>1
      <4> QED
        BY <4>1
    <3> QED
      BY <2>2, <3>1, <3>4, <3>6 DEF StartsInv
  <2> QED
    BY <2>4, <2>5
<1>11. KyokuInv'
  <2>1. CASE last
    BY <1>2, <1>4, <2>1 DEF KyokuInv
  <2>2. CASE ~last
    <3>1. engine'.kyoku = n + 1 /\ Begin(n + 1)' = Len(events')
      BY <1>2, <1>4, <1>7, <2>2
    <3>2. Begin(engine.kyoku)' = Len(events')
      BY <3>1 DEF Begin
    <3>3. /\ Begun(events', Len(events')) /\ events'[Len(events')].oya = engine'.dealer
          /\ Played(events', Len(events'), Len(events'))
          /\ ReachedIn(events', Len(events'), Len(events')) = Money(engine')
      BY <1>2, <1>4, <2>2 DEF KyokuIs
    <3> QED
      BY <3>2, <3>3 DEF KyokuInv, Money
  <2> QED
    BY <2>1, <2>2
<1>12. \A k \in DOMAIN records' : Filed(k)'
  <2>1. ASSUME NEW k \in DOMAIN records' PROVE Filed(k)'
    <3>1. k \in 1..n
      BY <1>5
    <3>2. CASE k = n
      <4>1. Begin(k)' = start /\ records'[k] = r
        BY <1>5, <1>6, <1>15, <3>1, <3>2
      <4>2. FiledIn(events', Begin(k)', records'[k], k, last, Money(engine'))
        BY <1>2, <1>4, <3>2, <4>1
      <4>3. (k = engine'.kyoku) = last
        <5>1. n + 1 # n /\ last \in BOOLEAN
          BY <1>1, <1>2
        <5> QED
          BY <1>2, <1>4, <3>2, <5>1
      <4> QED
        BY <4>2, <4>3 DEF Filed
    <3>3. CASE k # n
      <4>1. k \in 1..Len(records) /\ k # engine'.kyoku
        <5>1. k \in 1..n - 1 /\ k # n + 1
          BY <1>1, <3>1, <3>3
        <5> QED
          BY <1>1, <1>2, <1>4, <3>3, <5>1
      <4>2. FiledIn(events', Begin(k)', records'[k], k, FALSE, Money(engine'))
        BY <1>6, <4>1
      <4>3. (k = engine'.kyoku) = FALSE
        BY <4>1
      <4> QED
        BY <4>2, <4>3 DEF Filed
    <3> QED
      BY <3>2, <3>3
  <2> QED
    BY <2>1
<1>13. events' \in Seq(Event) /\ status' = "ok"
  BY <1>2 DEF Grows, ResultsInv
<1>14. Len(records') = IF engine'.done THEN engine'.kyoku ELSE engine'.kyoku - 1
  <2>1. (n + 1) - 1 = n
    BY <1>1
  <2> QED
    BY <1>2, <1>4, <1>5, <2>1
<1> QED
  BY <1>5, <1>8, <1>10, <1>11, <1>12, <1>13, <1>14 DEF ResultsInv

\* A batch that ends a Kyoku goes on to end it.
LEMMA RunIs ==
  ASSUME NEW e, NEW batch, NEW luck, NEW single
  PROVE  Run(e, single, batch, luck) =
           IF All(e, batch, luck).phase = "over" THEN Ended(All(e, batch, luck), single)
           ELSE All(e, batch, luck)
BY DEF Run, All

\* Every batch keeps the invariant, and no capture is refused.
LEMMA StepKeeps ==
  ASSUME Assumption, ResultsInv, NEW batch \in Turns(engine) \cup Answers(engine),
         NEW luck \in Lucks(engine), Apply(batch, luck)
  PROVE  ResultsInv'
<1>1. ~engine.done /\ status = "ok"
  BY DEF Apply
<1> DEFINE start == Begin(engine.kyoku)
           real == Run(engine, FALSE, batch, luck)
           copy == Run(engine, TRUE, batch, luck)
           seq == Cardinality(At(events, {"start_kyoku"}))
           record == ResultRecord(engine, copy, real, real.log, seq, Len(events) + 1)
           x == All(engine, batch, luck)
<1>2. /\ engine' = [real EXCEPT !.log = <<>>]
      /\ CASE ~Has(real.log, "end_kyoku") ->
                events' = events \o real.log /\ UNCHANGED <<records, status>>
           [] Has(real.log, "end_kyoku") /\ CaptureAgrees(copy, real, real.log)
                 /\ RecordValid(record)
                 /\ \A i \in DOMAIN record.wins : record.wins[i].agreed ->
                events' = events \o real.log /\ records' = Append(records, record)
                /\ UNCHANGED status
           [] OTHER -> status' = "diverged" /\ UNCHANGED <<events, records>>
  BY DEF Apply, Resolve
<1>3. /\ real = (IF x.phase = "over" THEN Ended(x, FALSE) ELSE x)
      /\ copy = (IF x.phase = "over" THEN Ended(x, TRUE) ELSE x)
  BY RunIs
<1>4. /\ Running(engine) /\ engine \in Engine /\ KyokuIs(engine, events, start)
      /\ Total(engine.scores) + engine.pot * Stick = N * Points0
      /\ engine.kyoku \in Nat \ {0} /\ seq = engine.kyoku
  BY <1>1, KyokuNow
<1>5. Fits(engine, x)
  BY <1>4, BatchFits
<1> HIDE DEF start, real, copy, seq, record, x
<1>6. CASE \E n \in Nat, s \in 0..N : GoesOn(engine, x, n, s)
  <2>1. PICK n \in Nat, s \in 0..N : GoesOn(engine, x, n, s)
    BY <1>6
  <2>2. Goes(engine, x, events, events \o x.log, start) /\ ~Has(x.log, "end_kyoku")
    BY <1>4, <2>1, KyokuGoesOn
  <2>3. real = x
    BY <1>3, <2>1 DEF GoesOn
  <2>4. /\ engine' = [x EXCEPT !.log = <<>>] /\ events' = events \o x.log
        /\ UNCHANGED <<records, status>>
    BY <1>2, <2>2, <2>3
  <2>5. Goes(engine, x, events, events', start)
    BY <2>2, <2>4
  <2> QED
    BY <1>1, <2>4, <2>5, GoesOnKeeps DEF start
<1>7. CASE Settles(engine, x)
  <2>1. x.phase = "over"
    BY <1>7 DEF Settles, Claimed, Drawn, Finished
  <2>2. real = Ended(x, FALSE) /\ copy = Ended(x, TRUE)
    BY <1>3, <2>1
  <2>3. /\ Has(real.log, "end_kyoku") /\ CaptureAgrees(copy, real, real.log)
        /\ \A i \in DOMAIN record.wins : record.wins[i].agreed
        /\ Files(engine, real, Last(x), events, events \o real.log, record, start, seq)
    BY <1>4, <1>7, <2>2, SettlesFiles DEF record
  <2>4. RecordValid(record)
    BY <2>3 DEF Files
  <2>5. /\ engine' = [real EXCEPT !.log = <<>>] /\ events' = events \o real.log
        /\ records' = Append(records, record) /\ UNCHANGED status
    BY <1>2, <2>3, <2>4
  <2>6. Files(engine, real, Last(x), events, events', record, start, engine.kyoku)
    BY <1>4, <2>3, <2>5
  <2> QED
    BY <1>1, <2>5, <2>6, SettlesKeeps DEF start
<1> QED
  BY <1>5, <1>6, <1>7 DEF Fits, Settles

\* An engine that has dealt no Kyoku.
Undealt ==
  [scores : [Seats -> Int], pot : Nat, dealer : Seats, honba : Nat, kyoku : {0},
   turn : Seats, left : Nat, pending : 0..N, reached : SUBSET Seats, owed : [Seats -> Int],
   phase : {"act", "respond", "over"}, done : BOOLEAN, log : Seq(Event),
   won : Seq([seat : Seats, honba : Nat, base : Nat])]

\* The engine at the first deal.
LEMMA FirstKyoku ==
  ASSUME Assumption, Init
  PROVE  /\ engine \in Engine /\ engine.log = <<>> /\ engine.won = <<>> /\ ~engine.done
         /\ engine.phase = "act" /\ engine.kyoku = 1 /\ engine.pot = 0 /\ engine.dealer = 1
         /\ engine.scores = [s \in Seats |-> Points0]
<1> DEFINE scores == [s \in Seats |-> Points0]
           old == [scores |-> scores, pot |-> 0, dealer |-> 1,
                   honba |-> 0, kyoku |-> 0, turn |-> 1, left |-> 0, pending |-> 0,
                   reached |-> {}, owed |-> Zero, phase |-> "act", won |-> <<>>,
                   done |-> FALSE, log |-> <<>>]
           left == Wall - 1
           mid == [old EXCEPT !.kyoku = 1, !.turn = 1, !.left = left, !.pending = 0,
                              !.reached = {}, !.owed = Zero, !.phase = "act", !.won = <<>>]
<1>1. engine = [Dealt(old) EXCEPT !.log = <<>>]
  BY DEF Init
<1>2. /\ scores \in [Seats -> Int] /\ Zero \in [Seats -> Int] /\ 1 \in Seats /\ 1 \in 1..Kyokus
      /\ left \in Nat /\ 0 \in 0..N /\ N \in Nat
  BY SeatsAre DEF Assumption, Zero
<1>3. <<>> \in Seq(Event) /\ <<>> \in Seq([seat : Seats, honba : Nat, base : Nat])
  OBVIOUS
<1> HIDE DEF scores, left
<1>4. old \in Undealt
  BY <1>2, <1>3 DEF Undealt
<1>5. /\ old.kyoku + 1 = 1 /\ old.dealer = 1 /\ old.pot = 0 /\ old.scores = scores
      /\ ~old.done
  OBVIOUS
<1> HIDE DEF old
<1>6. /\ mid \in Engine /\ mid.kyoku = 1 /\ mid.phase = "act" /\ mid.won = <<>>
      /\ ~mid.done /\ mid.pot = 0 /\ mid.scores = scores /\ mid.dealer = 1
  <2>1. mid = [old EXCEPT !.kyoku = 1, !.turn = 1, !.left = left, !.pending = 0,
                          !.reached = {}, !.owed = Zero, !.phase = "act", !.won = <<>>]
    OBVIOUS
  <2> HIDE DEF mid
  <2>2. mid \in Engine
    BY <1>2, <1>3, <1>4, <2>1 DEF Undealt, Engine
  <2>3. /\ mid.kyoku = 1 /\ mid.phase = "act" /\ mid.won = <<>> /\ mid.done = old.done
        /\ mid.pot = old.pot /\ mid.scores = old.scores /\ mid.dealer = old.dealer
    BY <1>4, <2>1 DEF Undealt
  <2> QED
    BY <1>5, <2>2, <2>3
<1>7. Dealt(old) = Logged(mid, StartKyoku(old))
  BY <1>5 DEF Dealt, left
<1>8. StartKyoku(old) \in Event
  BY <1>2, <1>5 DEF StartKyoku, Event
<1> HIDE DEF mid
<1>9. /\ Dealt(old) \in Engine /\ SameMoney(mid, Dealt(old)) /\ SameKyoku(mid, Dealt(old))
      /\ SameDealer(mid, Dealt(old)) /\ SameTurn(mid, Dealt(old))
  BY <1>6, <1>7, <1>8, LoggedIs
<1>10. /\ Dealt(old).kyoku = 1 /\ Dealt(old).phase = "act" /\ Dealt(old).won = <<>>
       /\ ~Dealt(old).done /\ Dealt(old).pot = 0 /\ Dealt(old).scores = scores
       /\ Dealt(old).dealer = 1
  BY <1>6, <1>9 DEF SameMoney, SameKyoku, SameDealer, SameTurn
<1> QED
  BY <1>1, <1>9, <1>10, Drained DEF scores

\* The invariant holds at the first deal.
LEMMA InvAtFirst ==
  ASSUME Assumption, Init
  PROVE  ResultsInv
<1> DEFINE scores == [s \in Seats |-> Points0]
           game == Is("start_game")
           deal == [kind |-> "start_kyoku", scores |-> scores, kyotaku |-> 0, oya |-> 1]
<1>1. /\ engine \in Engine /\ engine.log = <<>> /\ engine.won = <<>> /\ ~engine.done
      /\ engine.phase = "act" /\ engine.kyoku = 1 /\ engine.pot = 0 /\ engine.dealer = 1
      /\ engine.scores = scores
  BY FirstKyoku
<1>2. scores \in [Seats -> Int] /\ 1 \in Seats
  BY SeatsAre DEF Assumption
<1>3. game \in Event /\ deal \in Event /\ game.kind = "start_game"
  BY <1>2 DEF Event, Is
<1> HIDE DEF game
<1>4. events = <<game, deal>> /\ records = <<>> /\ status = "ok"
  BY DEF Init, game
<1> HIDE DEF deal
<1>5. /\ events \in Seq(Event) /\ Len(events) = 2 /\ events[1] = game /\ events[2] = deal
      /\ DOMAIN events = 1..2
  BY <1>3, <1>4
<1>6. deal.kind = "start_kyoku" /\ deal.oya = 1 /\ deal.kyotaku = 0 /\ deal.scores = scores
  BY DEF deal
<1>7. EngineInv
  <2>1. Total(scores) = N * Points0
    <3>1. /\ N \in {3, 4} /\ Points0 \in Int /\ \A s \in Seats : scores[s] = Points0
          /\ {1, 2, 3} \subseteq Seats /\ (N = 4 => 4 \in Seats)
      BY SeatsAre DEF Assumption
    <3> HIDE DEF scores
    <3>2. CASE N = 3
      BY <3>1, <3>2 DEF Total
    <3>3. CASE N = 4
      BY <3>1, <3>3 DEF Total
    <3> QED
      BY <3>1, <3>2, <3>3
  <2>2. engine.pot * Stick = 0
    BY <1>1 DEF Stick
  <2>3. N * Points0 \in Int
    BY SeatsAre DEF Assumption
  <2> HIDE DEF scores
  <2> QED
    BY <1>1, <2>1, <2>2, <2>3 DEF EngineInv, Running
<1> HIDE DEF scores
<1>8. Begin(1) = 2
  BY DEF Begin
<1>9. StartsInv
  <2>1. 1..engine.kyoku = {1}
    BY <1>1
  <2>2. Starts = {2}
    <3>1. \A i \in 1..2 : i = 1 \/ i = 2
      OBVIOUS
    <3> QED
      BY <1>3, <1>5, <1>6, <3>1 DEF Starts, At
  <2>3. \A i, j \in {1} : ~(i < j)
    OBVIOUS
  <2> QED
    BY <1>8, <2>1, <2>2, <2>3 DEF StartsInv
<1>10. KyokuInv
  <2>1. 2 + 1..2 = {}
    OBVIOUS
  <2>2. DepositsIn(events, 2, 2) = {} /\ \A s : DepositsOfIn(events, s, 2, 2) = {}
    BY <2>1 DEF DepositsIn, DepositsOfIn
  <2>3. Cardinality({}) = 0 /\ Stick = 10
    BY FS_EmptySet DEF Stick
  <2>4. ReachedIn(events, 2, 2) = [pot |-> 0 + 0, scores |-> [s \in Seats |-> scores[s] - 10 * 0]]
    BY <1>5, <1>6, <2>2, <2>3 DEF ReachedIn
  <2>5. [s \in Seats |-> scores[s] - 10 * 0] = scores
    <3>1. scores = [s \in Seats |-> scores[s]] /\ \A s \in Seats : scores[s] - 10 * 0 = scores[s]
      BY <1>2
    <3> QED
      BY <3>1
  <2>6. ReachedIn(events, 2, 2) = [pot |-> engine.pot, scores |-> engine.scores]
    BY <1>1, <2>4, <2>5
  <2>7. Played(events, 2, 2) /\ Begun(events, 2)
    BY <1>5, <1>6, <2>1 DEF Played, Begun
  <2> QED
    BY <1>1, <1>5, <1>6, <1>8, <2>6, <2>7 DEF KyokuInv
<1>11. records \in Seq(Result) /\ Len(records) = 0 /\ DOMAIN records = {}
  BY <1>4
<1> QED
  BY <1>1, <1>4, <1>5, <1>7, <1>9, <1>10, <1>11 DEF ResultsInv

\* After every batch the engine's points are those its events add up to, every finished
\* Kyoku has its record, and each record agrees with the events it settles: the capture
\* that compares the copy with the real engine never fails.
THEOREM ResultsHold ==
  ASSUME Assumption
  PROVE  Spec => []ResultsInv
<1>1. Init => ResultsInv
  BY InvAtFirst
<1>2. ResultsInv /\ [Next]_vars => ResultsInv'
  <2> SUFFICES ASSUME ResultsInv, [Next]_vars
               PROVE  ResultsInv'
    OBVIOUS
  <2>1. ASSUME NEW batch \in Turns(engine) \cup Answers(engine), NEW luck \in Lucks(engine),
               Apply(batch, luck)
        PROVE  ResultsInv'
    BY <2>1, StepKeeps
  <2>2. CASE Act
    BY <2>1, <2>2 DEF Act
  <2>3. CASE Respond
    BY <2>1, <2>3 DEF Respond
  <2>4. CASE UNCHANGED vars
    BY <2>4, ZenonT(60)
    DEF vars, ResultsInv, EngineInv, StartsInv, KyokuInv, Filed, Begin, Starts, Money, Running
  <2> QED
    BY <2>2, <2>3, <2>4 DEF Next
<1> QED
  BY <1>1, <1>2, PTL DEF Spec

-----------------------------------------------------------------------------
(* The reader *)

\* What the books say of the k-th Kyoku when the Match has ended: its record and where
\* its last batch and its terminal events are.
Book(k, start, from, first) ==
  LET r == records[k]
      last == k = engine.kyoku
  IN
  /\ k \in 1..engine.kyoku /\ engine.kyoku \in Nat /\ r \in Result /\ events \in Seq(Event)
  /\ Start(k) = start /\ Cardinality(Starts) = engine.kyoku
  /\ NextStart(k) = IF last THEN Len(events) + 1 ELSE r.end + 1
  /\ ~last => Start(k + 1) = r.end + 1
  /\ Begun(events, start) /\ RecordValid(r) /\ r.seq = k
  /\ Batch(events, start, r, last, from, first)
  /\ ReachedIn(events, start, from) = [pot |-> r.potBefore, scores |-> Before(r)]
  /\ WinsFit(events, start, r, first) /\ DrawFits(events, start, r, last, first)
  /\ Total(After(r)) + r.potAfter * Stick = N * Points0
  /\ [pot |-> r.potAfter, scores |-> After(r)] =
       IF last THEN Money(engine)
       ELSE [pot |-> events[r.end + 1].kyotaku, scores |-> events[r.end + 1].scores]

\* The filed records of a finished Match.
LEMMA Books ==
  ASSUME ResultsInv, engine.done
  PROVE  /\ Len(records) = engine.kyoku /\ engine.kyoku \in Nat \ {0} /\ records \in Seq(Result)
         /\ DOMAIN records = 1..engine.kyoku /\ Cardinality(Starts) = engine.kyoku
         /\ \A k \in 1..engine.kyoku : \E start, from, first : Book(k, start, from, first)
<1> DEFINE n == engine.kyoku
<1>1. /\ engine \in Engine /\ records \in Seq(Result) /\ Len(records) = n /\ StartsInv
      /\ events \in Seq(Event) /\ \A k \in DOMAIN records : Filed(k)
  BY DEF ResultsInv, EngineInv
<1>2. n \in Nat \ {0}
  <2>1. n \in 1..Kyokus
    BY <1>1, EngineFields
  <2> QED
    BY <2>1
<1>3. DOMAIN records = 1..n
  BY <1>1
<1>4. Cardinality(Starts) = n /\ \A k \in 1..n : Start(k) = Begin(k)
  BY <1>1, <1>2, StartsAre
<1> HIDE DEF n
<1>5. ASSUME NEW k \in 1..n PROVE \E start, from, first : Book(k, start, from, first)
  <2> DEFINE r == records[k]
             last == k = n
  <2>1. r \in Result
    BY <1>1, <1>3
  <2>2. k # n => k < n /\ k + 1 \in 1..n /\ k + 1 # 1 /\ (k + 1) - 1 = k
    BY <1>2
  <2>3. ~last => Start(k + 1) = r.end + 1
    BY <1>4, <2>2 DEF Begin
  <2>4. NextStart(k) = IF last THEN Len(events) + 1 ELSE r.end + 1
    <3>1. k = n => ~(k < n)
      BY <1>2
    <3> QED
      BY <1>4, <2>2, <2>3, <3>1 DEF NextStart
  <2>5. FiledIn(events, Begin(k), r, k, last, Money(engine))
    BY <1>1, <1>3 DEF Filed, n
  <2> HIDE DEF last, r
  <2>6. PICK from \in DOMAIN events, first \in DOMAIN events :
          /\ Batch(events, Begin(k), r, last, from, first)
          /\ ReachedIn(events, Begin(k), from) = [pot |-> r.potBefore, scores |-> Before(r)]
          /\ WinsFit(events, Begin(k), r, first) /\ DrawFits(events, Begin(k), r, last, first)
    BY <2>5 DEF FiledIn
  <2>7. /\ Begun(events, Begin(k)) /\ RecordValid(r) /\ r.seq = k
        /\ Total(After(r)) + r.potAfter * Stick = N * Points0
        /\ [pot |-> r.potAfter, scores |-> After(r)] =
             IF last THEN Money(engine)
             ELSE [pot |-> events[r.end + 1].kyotaku, scores |-> events[r.end + 1].scores]
    BY <2>5 DEF FiledIn
  <2>8. Book(k, Begin(k), from, first)
    BY <1>1, <1>2, <1>4, <2>1, <2>3, <2>4, <2>6, <2>7 DEF Book, r, last, n
  <2> QED
    BY <2>8
<1> QED
  BY <1>1, <1>2, <1>3, <1>4, <1>5 DEF n

\* The terminal events that the reader finds.
LEMMA TerminalsAre ==
  ASSUME NEW k, NEW start, NEW from, NEW first, Book(k, start, from, first)
  PROVE  LET r == records[k]
             terminal == TerminalsIn(start, r.end)
             wins == Len(r.wins)
         IN
         /\ terminal = first..r.end - 1 /\ wins \in 0..2
         /\ Cardinality(terminal) = IF wins = 0 THEN 1 ELSE wins
         /\ Nth(terminal, 1) = first
         /\ Nth(terminal, Cardinality(terminal)) = r.end - 1
         /\ r.end = first + IF wins = 0 THEN 1 ELSE wins
         /\ start \in Nat /\ first \in Nat /\ from \in Nat /\ start <= from /\ from < first
         /\ (wins = 0 <=> r.wins = <<>>) /\ r.end \in Nat /\ r.end < Len(events)
         /\ start \in 1..Len(events) /\ events[start].kind = "start_kyoku"
<1> DEFINE r == records[k]
           terminal == TerminalsIn(start, r.end)
           wins == Len(r.wins)
           m == IF wins = 0 THEN 1 ELSE wins
<1>1. /\ r \in Result /\ Begun(events, start) /\ events \in Seq(Event)
      /\ Batch(events, start, r, k = engine.kyoku, from, first)
  BY DEF Book
<1>2. /\ from \in start..first - 1 /\ first \in Nat /\ wins \in 0..2
      /\ r.end = first + m /\ r.end < Len(events)
      /\ Played(events, start, from)
      /\ \A i \in from + 1..first - 1 : events[i].kind \in {"reach", "dahai", "reach_accepted"}
      /\ \A i \in first..r.end - 1 : events[i].kind = IF wins = 0 THEN "ryukyoku" ELSE "hora"
  BY <1>1 DEF Batch
<1>3. start \in 1..Len(events) /\ events[start].kind = "start_kyoku"
  BY <1>1 DEF Begun
<1>4. m = 1 \/ m = 2
  <2> HIDE DEF wins
  <2> QED
    BY <1>2
<1>5. wins = 0 <=> r.wins = <<>>
  <2>1. r.wins \in Seq([index : Int, seat : Seats, target : Seats, tsumo : BOOLEAN,
                        points : Nat, agreed : BOOLEAN])
    BY <1>1 DEF Result
  <2> QED
    BY <2>1
<1> HIDE DEF r, wins, m
<1>6. start \in Nat /\ from \in Nat /\ start <= from /\ from < first /\ r.end \in Nat
  BY <1>2, <1>3, <1>4
<1>7. terminal = first..r.end - 1
  <2>1. ASSUME NEW i \in start + 1..r.end - 1
        PROVE  events[i].kind \in {"hora", "ryukyoku"} <=> i \in first..r.end - 1
    <3>1. i \in start + 1..from \/ i \in from + 1..first - 1 \/ i \in first..r.end - 1
      BY <1>2, <1>6
    <3>2. i \in start + 1..from => ~(i \in first..r.end - 1)
      BY <1>2, <1>6
    <3>3. i \in from + 1..first - 1 => ~(i \in first..r.end - 1)
      BY <1>2, <1>6
    <3>4. i \in start + 1..from => events[i].kind \in {"reach", "dahai", "tsumo", "reach_accepted"}
      BY <1>2 DEF Played
    <3> QED
      BY <1>2, <3>1, <3>2, <3>3, <3>4
  <2>2. \A i \in first..r.end - 1 : i \in start + 1..r.end - 1
    BY <1>2, <1>6
  <2> QED
    BY <2>1, <2>2 DEF TerminalsIn
<1> HIDE DEF terminal
<1>8. /\ Cardinality(terminal) = m /\ Nth(terminal, 1) = first /\ Nth(terminal, m) = r.end - 1
  <2>1. CASE m = 1
    <3>1. terminal = {first} /\ r.end - 1 = first /\ first \in Int
      BY <1>2, <1>7, <2>1
    <3> QED
      BY <2>1, <3>1, OnePlace
  <2>2. CASE m = 2
    <3>1. terminal = {first, first + 1} /\ r.end - 1 = first + 1 /\ first \in Int
      BY <1>2, <1>7, <2>2
    <3> QED
      BY <2>2, <3>1, TwoPlaces
  <2> QED
    BY <1>4, <2>1, <2>2
<1> QED
  BY <1>2, <1>3, <1>5, <1>6, <1>7, <1>8 DEF terminal, r, wins, m

\* A set of numbers up to a bound has a greatest one.
LEMMA Greatest ==
  ASSUME NEW T, NEW n \in Int, \A i \in T : i \in Int /\ i <= n, T # {}
  PROVE  \E i \in T : \A j \in T : j <= i
<1> DEFINE U == {n - i : i \in T}
           W == OpToRel(<, Nat)
<1>1. U \subseteq Nat /\ U # {}
  OBVIOUS
<1>2. IsWellFoundedOn(W, Nat)
  BY NatLessThanWellFounded
<1> HIDE DEF U, W
<1>3. PICK d \in U : \A e \in U : ~(<<e, d>> \in W)
  BY <1>1, <1>2, WFMin
<1>4. \A e \in U : ~(e < d)
  BY <1>1, <1>3 DEF W, OpToRel
<1>5. PICK i \in T : d = n - i
  BY DEF U
<1>6. ASSUME NEW j \in T PROVE j <= i
  <2>1. n - j \in U
    BY DEF U
  <2>2. ~(n - j < n - i)
    BY <1>4, <1>5, <2>1
  <2> QED
    BY <2>2
<1> QED
  BY <1>6

\* The reader counts what the books count.
LEMMA SameCounts ==
  /\ \A start, to : Deposits(start, to) = DepositsIn(events, start, to)
  /\ \A start, to : Reached(start, to) = ReachedIn(events, start, to)
  /\ \A scores, first, last : Paid(scores, first, last) = PaidIn(events, scores, first, last)
<1>1. \A start, to : Deposits(start, to) = DepositsIn(events, start, to)
  BY DEF Deposits, DepositsIn
<1>2. \A s, start, to : DepositsOf(s, start, to) = DepositsOfIn(events, s, start, to)
  BY <1>1 DEF DepositsOf, DepositsOfIn
<1>3. \A start, to : Reached(start, to) = ReachedIn(events, start, to)
  BY <1>1, <1>2 DEF Reached, ReachedIn
<1>4. \A scores, first, last : Paid(scores, first, last) = PaidIn(events, scores, first, last)
  BY DEF Paid, PaidIn
<1> QED
  BY <1>1, <1>3, <1>4

\* The deposits of a Kyoku: before the last batch, or directly before its end.
LEMMA DepositsOfKyoku ==
  ASSUME NEW k, NEW start, NEW from, NEW first, Book(k, start, from, first)
  PROVE  /\ \A i \in DepositsIn(events, start, from) : i \in Int /\ start < i /\ i < from
         /\ \A i \in DepositsIn(events, start, first - 1) :
              i \in Int /\ start < i /\ i < first
              /\ (i \in DepositsIn(events, start, from) \/ (from < i /\ i = first - 1))
         /\ DepositsIn(events, start, from) \subseteq DepositsIn(events, start, first - 1)
<1>1. /\ Played(events, start, from)
      /\ \A i \in from + 1..first - 1 : events[i].kind = "reach_accepted" => i = first - 1
  BY DEF Book, Batch
<1>2. start \in Nat /\ first \in Nat /\ from \in Nat /\ start <= from /\ from < first
  BY TerminalsAre
<1>3. \A i \in DepositsIn(events, start, from) : i \in Int /\ start < i /\ i < from
  BY <1>1, <1>2 DEF DepositsIn, Played
<1>4. ASSUME NEW i \in DepositsIn(events, start, first - 1)
      PROVE  i \in Int /\ start < i /\ i < first
             /\ (i \in DepositsIn(events, start, from) \/ (from < i /\ i = first - 1))
  <2>1. i \in start + 1..first - 1 /\ events[i].kind = "reach_accepted"
    BY DEF DepositsIn
  <2>2. i \in Int /\ start < i /\ i < first
    BY <1>2, <2>1
  <2>3. CASE i <= from
    <3>1. i \in start + 1..from
      BY <1>2, <2>1, <2>3
    <3> QED
      BY <2>1, <2>2, <3>1 DEF DepositsIn
  <2>4. CASE ~(i <= from)
    <3>1. i \in from + 1..first - 1 /\ from < i
      BY <1>2, <2>1, <2>4
    <3> QED
      BY <1>1, <2>1, <2>2, <3>1
  <2> QED
    BY <2>3, <2>4
<1>5. DepositsIn(events, start, from) \subseteq DepositsIn(events, start, first - 1)
  <2>1. \A i \in start + 1..from : i \in start + 1..first - 1
    BY <1>2
  <2> QED
    BY <2>1 DEF DepositsIn
<1> QED
  BY <1>3, <1>4, <1>5

\* The same deposits, the same scores and pot.
LEMMA SameReached ==
  ASSUME NEW start, NEW i, NEW j, DepositsIn(events, start, i) = DepositsIn(events, start, j)
  PROVE  ReachedIn(events, start, i) = ReachedIn(events, start, j)
<1>1. \A s : DepositsOfIn(events, s, start, i) = DepositsOfIn(events, s, start, j)
  BY DEF DepositsOfIn
<1> QED
  BY <1>1 DEF ReachedIn

\* The record starts where the reader finds that it does.
LEMMA BeforeIsFound ==
  ASSUME NEW k, NEW start, NEW from, NEW first, Book(k, start, from, first)
  PROVE  BeforeFits(start, first, records[k].end, records[k])
<1> DEFINE r == records[k]
           before == [pot |-> r.potBefore, scores |-> [s \in Seats |-> r.changes[s].before]]
           deposits == Deposits(start, first - 1)
           fits == {i \in {start} \cup deposits : Reached(start, i) = before}
           later == {i \in deposits : \A b \in fits : b < i}
           D == DepositsIn(events, start, from)
<1>1. /\ start \in Nat /\ first \in Nat /\ from \in Nat /\ start <= from /\ from < first
      /\ r.end \in Nat
  BY TerminalsAre
<1>2. /\ \A i \in D : i \in Int /\ start < i /\ i < from
      /\ \A i \in deposits : i \in Int /\ start < i /\ i < first
                             /\ (i \in D \/ (from < i /\ i = first - 1))
      /\ D \subseteq deposits
  BY DepositsOfKyoku, SameCounts
<1>3. ReachedIn(events, start, from) = before
  BY DEF Book, Before
<1> HIDE DEF before
<1>4. \E b \in fits : b \in Int /\ \A i \in D : ~(b < i)
  <2>1. CASE D = {}
    <3>1. DepositsIn(events, start, start) = {}
      BY <1>1 DEF DepositsIn
    <3>2. ReachedIn(events, start, start) = before
      BY <1>3, <2>1, <3>1, SameReached
    <3>3. start \in fits
      BY <3>2, SameCounts
    <3> QED
      BY <1>1, <2>1, <3>3
  <2>2. CASE D # {}
    <3>1. PICK l \in D : \A i \in D : i <= l
      <4>1. from \in Int /\ \A i \in D : i \in Int /\ i <= from
        BY <1>1, <1>2
      <4> HIDE DEF D
      <4> QED
        BY <2>2, <4>1, Greatest
    <3>2. DepositsIn(events, start, l) = D
      <4>1. \A i \in start + 1..l : i \in start + 1..from
        BY <1>1, <1>2
      <4>2. \A i \in D : i \in start + 1..l
        BY <1>1, <1>2, <3>1
      <4> QED
        BY <4>1, <4>2 DEF DepositsIn
    <3>3. ReachedIn(events, start, l) = before
      BY <1>3, <3>2, SameReached
    <3>4. l \in fits
      BY <1>2, <3>3, SameCounts
    <3>5. \A i \in D : ~(l < i)
      BY <1>2, <3>1
    <3> QED
      BY <1>2, <3>4, <3>5
  <2> QED
    BY <2>1, <2>2
<1>5. later \subseteq {first - 1}
  BY <1>2, <1>4
<1>6. Deposits(first - 1, r.end - 1) = {}
  <2>1. \A i \in first..r.end - 1 : events[i].kind # "reach_accepted"
    BY DEF Book, Batch
  <2>2. (first - 1) + 1 = first
    BY <1>1
  <2> QED
    BY <2>1, <2>2 DEF Deposits
<1>7. fits # {} /\ (later = {} \/ later = {first - 1})
  BY <1>4, <1>5
<1> QED
  BY <1>6, <1>7 DEF BeforeFits, before

\* The last Kyoku alone is followed by the end of the Match.
LEMMA EndOfMatch ==
  ASSUME NEW k, NEW start, NEW from, NEW first, Book(k, start, from, first)
  PROVE  LET r == records[k] IN
         /\ k = engine.kyoku =>
              /\ Len(events) = r.end + 1
              /\ \E i \in r.end + 1..Len(events) : events[i].kind = "end_game"
         /\ r.end \in start + 1..NextStart(k) - 1 /\ r.end <= Len(events)
         /\ events[r.end].kind = "end_kyoku"
         /\ \A i \in start + 1..NextStart(k) - 1 : events[i].kind = "end_kyoku" => i = r.end
<1> DEFINE r == records[k]
           last == k = engine.kyoku
<1>1. /\ start \in Nat /\ first \in Nat /\ from \in Nat /\ start <= from /\ from < first
      /\ r.end \in Nat /\ r.end < Len(events) /\ first < r.end
  BY TerminalsAre
<1>2. /\ Batch(events, start, r, last, from, first)
      /\ NextStart(k) = IF last THEN Len(events) + 1 ELSE r.end + 1
      /\ Len(events) \in Nat
  BY DEF Book
<1> HIDE DEF last, r
<1>3. /\ last => Len(events) = r.end + 1 /\ events[r.end + 1].kind = "end_game"
      /\ events[r.end].kind = "end_kyoku"
      /\ Played(events, start, from)
      /\ \A i \in from + 1..first - 1 : events[i].kind \in {"reach", "dahai", "reach_accepted"}
      /\ \A i \in first..r.end - 1 : events[i].kind \in {"ryukyoku", "hora"}
  BY <1>2 DEF Batch
<1>4. last => \E i \in r.end + 1..Len(events) : events[i].kind = "end_game"
  <2>1. last => r.end + 1 \in r.end + 1..Len(events)
    BY <1>1, <1>3
  <2> QED
    BY <1>3, <2>1
<1>5. r.end \in start + 1..NextStart(k) - 1
  <2>1. CASE last
    BY <1>1, <1>2, <2>1
  <2>2. CASE ~last
    BY <1>1, <1>2, <2>2
  <2> QED
    BY <2>1, <2>2
<1>6. ASSUME NEW i \in start + 1..NextStart(k) - 1, events[i].kind = "end_kyoku"
      PROVE  i = r.end
  <2>1. i \in Int /\ (i <= r.end \/ (last /\ i = r.end + 1))
    <3>1. CASE last
      BY <1>1, <1>2, <1>3, <3>1
    <3>2. CASE ~last
      BY <1>1, <1>2, <3>2
    <3> QED
      BY <3>1, <3>2
  <2>2. \/ i \in start + 1..from \/ i \in from + 1..first - 1 \/ i \in first..r.end - 1
        \/ i = r.end \/ (last /\ i = r.end + 1)
    BY <1>1, <2>1
  <2>3. i \in start + 1..from => events[i].kind # "end_kyoku"
    BY <1>3 DEF Played
  <2> QED
    BY <1>3, <1>6, <2>2, <2>3
<1> QED
  BY <1>1, <1>3, <1>4, <1>5, <1>6 DEF last, r

\* Everything the reader asks of one record.
Accepts(k, c) ==
  BoundaryFits(k, c) /\ RecordValid(c) /\ TerminalsFit(k, c) /\ SettlementFits(k, c)

\* What the reader takes for the scores before the pot is awarded.
Unawarded(k, c, pot) ==
  IF k = engine.kyoku /\ c.wins = <<>> /\ pot > 0
  THEN [After(c) EXCEPT ![Top(After(c))] = @ - pot * Stick]
  ELSE After(c)

\* What the reader asks of a settlement, read off the events.
LEMMA SettlementIs ==
  ASSUME NEW k, NEW start, NEW from, NEW first, Book(k, start, from, first),
         NEW c, c.end = records[k].end
  PROVE  LET terminal == TerminalsIn(start, c.end)
             reached == ReachedIn(events, start, first - 1)
             award == k = engine.kyoku /\ c.wins = <<>> /\ reached.pot > 0
             unawarded == Unawarded(k, c, reached.pot)
         IN
         SettlementFits(k, c) <=>
           /\ BeforeFits(start, first, c.end, c)
           /\ c.potAfter = IF c.wins # <<>> \/ award THEN 0 ELSE reached.pot
           /\ IF c.wins = <<>>
              THEN /\ Cardinality(terminal) = 1 /\ (award => Top(unawarded) = Top(After(c)))
                   /\ Plus(Less(unawarded, Before(c)), c.adjustment[1]) = events[first].delta
              ELSE PaidIn(events, reached.scores, first, c.end - 1) = After(c)
           /\ NextFits(k, c)
<1> DEFINE terminal == TerminalsIn(start, c.end)
           reached == ReachedIn(events, start, first - 1)
           award == k = engine.kyoku /\ c.wins = <<>> /\ reached.pot > 0
<1>1. Start(k) = start /\ Cardinality(Starts) = engine.kyoku
  BY DEF Book
<1>2. Nth(terminal, 1) = first /\ Nth(terminal, Cardinality(terminal)) = c.end - 1
  BY TerminalsAre
<1>3. k = engine.kyoku => \E i \in c.end + 1..Len(events) : events[i].kind = "end_game"
  BY EndOfMatch
<1>4. /\ reached = Reached(start, first - 1)
      /\ \A scores, p, q : Paid(scores, p, q) = PaidIn(events, scores, p, q)
  BY SameCounts
<1> DEFINE raw == /\ k = Cardinality(Starts) /\ c.wins = <<>> /\ reached.pot > 0
                  /\ \E i \in c.end + 1..Len(events) : events[i].kind = "end_game"
           after == After(c)
           before == Before(c)
           given == IF raw THEN [after EXCEPT ![Top(after)] = @ - reached.pot * Stick] ELSE after
<1>5. SettlementFits(k, c) <=>
        /\ BeforeFits(start, first, c.end, c)
        /\ c.potAfter = IF c.wins # <<>> \/ raw THEN 0 ELSE reached.pot
        /\ IF c.wins = <<>>
           THEN /\ Cardinality(terminal) = 1 /\ (raw => Top(given) = Top(after))
                /\ Plus(Less(given, before), c.adjustment[1]) = events[first].delta
           ELSE Paid(reached.scores, first, c.end - 1) = after
        /\ NextFits(k, c)
  <2> HIDE DEF raw
  <2>1. Start(k) = start /\ Nth(terminal, 1) = first
        /\ Nth(terminal, Cardinality(terminal)) = c.end - 1
        /\ Reached(start, first - 1) = reached
    BY <1>1, <1>2, <1>4
  <2> HIDE DEF terminal, reached
  <2> QED
    BY <2>1 DEF SettlementFits, Before, After, terminal, raw
<1> HIDE DEF terminal, reached
<1>6. raw <=> award
  BY <1>1, <1>3
<1>7. given = Unawarded(k, c, reached.pot)
  <2> HIDE DEF raw, award
  <2>1. CASE award
    BY <1>6, <2>1 DEF Unawarded, award
  <2>2. CASE ~award
    BY <1>6, <2>2 DEF Unawarded, award
  <2> QED
    BY <2>1, <2>2
<1> HIDE DEF raw, award, given, after, before
<1> QED
  BY <1>4, <1>5, <1>6, <1>7 DEF terminal, reached, award, after, before

\* The reader accepts what the adapter filed.
LEMMA RecordAccepted ==
  ASSUME Assumption, NEW k, NEW start, NEW from, NEW first, Book(k, start, from, first)
  PROVE  Accepts(k, records[k])
<1> DEFINE r == records[k]
           last == k = engine.kyoku
           wins == Len(r.wins)
           m == IF wins = 0 THEN 1 ELSE wins
           terminal == TerminalsIn(start, r.end)
           reached == ReachedIn(events, start, first - 1)
<1>1. /\ terminal = first..r.end - 1 /\ wins \in 0..2 /\ Cardinality(terminal) = m
      /\ r.end = first + m /\ start \in Nat /\ first \in Nat /\ from \in Nat
      /\ start <= from /\ from < first /\ (wins = 0 <=> r.wins = <<>>)
      /\ r.end \in Nat /\ r.end < Len(events)
  BY TerminalsAre
<1>2. /\ r \in Result /\ RecordValid(r) /\ r.seq = k /\ Start(k) = start
      /\ Cardinality(Starts) = engine.kyoku
      /\ Batch(events, start, r, last, from, first) /\ WinsFit(events, start, r, first)
      /\ DrawFits(events, start, r, last, first)
  BY DEF Book
<1>3. \A i \in first..r.end - 1 : events[i].kind = IF wins = 0 THEN "ryukyoku" ELSE "hora"
  BY <1>2 DEF Batch
<1>4. DOMAIN r.wins = 1..wins
  <2>1. r.wins \in Seq([index : Int, seat : Seats, target : Seats, tsumo : BOOLEAN,
                        points : Nat, agreed : BOOLEAN])
    BY <1>2 DEF Result
  <2> QED
    BY <2>1
<1>5. ASSUME NEW i \in 1..wins
      PROVE  LET ev == events[first + i - 1] w == r.wins[i] IN
             /\ w.index = first + i - 1 /\ w.seat = ev.actor /\ w.target = ev.target
             /\ w.points = WinPoints(w.seat = events[start].oya, w.tsumo)
             /\ first + i - 1 \in first..r.end - 1
  <2>1. r.wins # <<>> /\ i \in DOMAIN r.wins
    BY <1>1, <1>4
  <2>2. LET ev == events[first + i - 1] w == r.wins[i] IN
        /\ w.index = first + i - 1 /\ w.seat = ev.actor /\ w.target = ev.target
        /\ w.points = WinPoints(w.seat = events[start].oya, w.tsumo)
    BY <1>2, <2>1 DEF WinsFit
  <2>3. first + i - 1 \in first..r.end - 1
    <3>1. wins # 0 /\ wins \in Nat
      BY <1>1
    <3> HIDE DEF wins
    <3> QED
      BY <1>1, <3>1
  <2> QED
    BY <2>2, <2>3
<1> HIDE DEF wins, terminal
<1>6. BoundaryFits(k, r)
  <2>1. \A i \in DOMAIN r.wins :
          r.wins[i].index \in start + 1..r.end - 1 /\ events[r.wins[i].index].kind = "hora"
    <3>1. ASSUME NEW i \in 1..wins
          PROVE  r.wins[i].index \in start + 1..r.end - 1 /\ events[r.wins[i].index].kind = "hora"
      <4>1. r.wins[i].index = first + i - 1 /\ first + i - 1 \in first..r.end - 1 /\ wins # 0
        BY <1>1, <1>5
      <4>2. r.wins[i].index \in first..r.end - 1
        BY <4>1
      <4> HIDE DEF r, m
      <4>3. r.wins[i].index \in start + 1..r.end - 1
        BY <1>1, <4>2
      <4> QED
        BY <1>3, <4>1, <4>2, <4>3
    <3> QED
      BY <1>4, <3>1
  <2>2. /\ r.end \in start + 1..NextStart(k) - 1 /\ r.end <= Len(events)
        /\ events[r.end].kind = "end_kyoku"
    BY EndOfMatch
  <2> QED
    BY <1>2, <2>1, <2>2 DEF BoundaryFits
<1>7. TerminalsFit(k, r)
  <2>1. terminal # {} /\ Cardinality(terminal) = wins + IF r.wins = <<>> THEN 1 ELSE 0
    <3>1. first \in first..r.end - 1
      <4>1. m \in Nat \ {0}
        BY <1>1
      <4> HIDE DEF m
      <4> QED
        BY <1>1, <4>1
    <3>2. m = wins + IF r.wins = <<>> THEN 1 ELSE 0
      BY <1>1
    <3> QED
      BY <1>1, <3>1, <3>2
  <2>2. \A i \in DOMAIN r.wins :
          r.wins[i].points = WinPoints(r.wins[i].seat = events[start].oya, r.wins[i].tsumo)
    BY <1>4, <1>5
  <2>3. ASSUME NEW t \in terminal
        PROVE  LET ev == events[t] IN
               IF ev.kind = "hora"
               THEN \E i \in DOMAIN r.wins :
                      r.wins[i].index = t /\ r.wins[i].seat = ev.actor
                      /\ r.wins[i].target = ev.target
               ELSE r.wins = <<>> /\ ev.reason = r.reason
    <3>1. t \in first..r.end - 1
      BY <1>1
    <3>2. CASE wins = 0
      <4>1. t = first
        BY <1>1, <3>1, <3>2
      <4>2. events[t].kind = "ryukyoku" /\ r.wins = <<>>
        BY <1>1, <1>3, <3>1, <3>2
      <4>3. r.reason = events[first].reason
        BY <1>2, <4>2 DEF DrawFits
      <4> QED
        BY <4>1, <4>2, <4>3
    <3>3. CASE wins # 0
      <4>1. events[t].kind = "hora"
        BY <1>3, <3>1, <3>3
      <4> DEFINE i == t - first + 1
      <4>2. i \in 1..wins /\ first + i - 1 = t
        BY <1>1, <3>1, <3>3
      <4> HIDE DEF i
      <4>3. /\ r.wins[i].index = first + i - 1 /\ r.wins[i].seat = events[first + i - 1].actor
            /\ r.wins[i].target = events[first + i - 1].target
        BY <1>5, <4>2
      <4> QED
        BY <1>4, <4>1, <4>2, <4>3
    <3> QED
      BY <3>2, <3>3
  <2> QED
    BY <1>2, <2>1, <2>2, <2>3 DEF TerminalsFit, terminal, wins
<1>8. NextFits(k, r)
  <2>1. ASSUME k < engine.kyoku
        PROVE  LET next == events[Start(k + 1)] IN
               next.kyotaku = r.potAfter /\ next.scores = [s \in Seats |-> r.changes[s].after]
    <3>1. ~last
      BY <2>1 DEF Book
    <3>2. Start(k + 1) = r.end + 1
      BY <3>1 DEF Book
    <3>3. [pot |-> r.potAfter, scores |-> After(r)] =
            [pot |-> events[r.end + 1].kyotaku, scores |-> events[r.end + 1].scores]
      BY <3>1 DEF Book
    <3>4. r.potAfter = events[r.end + 1].kyotaku /\ After(r) = events[r.end + 1].scores
      BY <3>3
    <3> QED
      BY <3>2, <3>4 DEF After
  <2> QED
    BY <1>2, <2>1 DEF NextFits
<1>9. SettlementFits(k, r)
  <2>1. BeforeFits(start, first, r.end, r)
    BY BeforeIsFound
  <2> DEFINE award == last /\ r.wins = <<>> /\ reached.pot > 0
             unawarded == Unawarded(k, r, reached.pot)
  <2>2. r.potAfter = IF r.wins # <<>> \/ award THEN 0 ELSE reached.pot
    <3>1. r.wins # <<>> => r.potAfter = 0
      BY <1>2 DEF WinsFit
    <3>2. r.wins = <<>> => r.potAfter = IF last /\ reached.pot > 0 THEN 0 ELSE reached.pot
      BY <1>2 DEF DrawFits
    <3> QED
      BY <3>1, <3>2
  <2>3. r.wins = <<>> =>
          /\ Cardinality(terminal) = 1 /\ (award => Top(unawarded) = Top(After(r)))
          /\ Plus(Less(unawarded, Before(r)), r.adjustment[1]) = events[first].delta
    <3>1. ASSUME r.wins = <<>>
          PROVE  /\ Cardinality(terminal) = 1 /\ (award => Top(unawarded) = Top(After(r)))
                 /\ Plus(Less(unawarded, Before(r)), r.adjustment[1]) = events[first].delta
      <4>1. Cardinality(terminal) = 1
        BY <1>1, <3>1
      <4>2. unawarded = IF last /\ reached.pot > 0
                        THEN [After(r) EXCEPT ![Top(After(r))] = @ - reached.pot * Stick]
                        ELSE After(r)
        BY <3>1 DEF Unawarded
      <4> HIDE DEF unawarded
      <4> QED
        BY <1>2, <3>1, <4>1, <4>2 DEF DrawFits
    <3> QED
      BY <3>1
  <2>4. r.wins # <<>> => PaidIn(events, reached.scores, first, r.end - 1) = After(r)
    BY <1>2 DEF WinsFit
  <2> QED
    BY <1>8, <2>1, <2>2, <2>3, <2>4, SettlementIs DEF terminal
<1> QED
  BY <1>2, <1>6, <1>7, <1>9 DEF Accepts

\* What the joined frames show from the end of a Kyoku on.
LEMMA JoinedIs ==
  ASSUME ResultsInv, engine.done, NEW k \in 1..engine.kyoku,
         NEW i, i \in records[k].end..NextStart(k) - 1
  PROVE  /\ i \in DOMAIN events
         /\ Joined[i] = [scores |-> After(records[k]), pot |-> records[k].potAfter]
<1> DEFINE n == engine.kyoku
<1>1. /\ Len(records) = n /\ n \in Nat \ {0} /\ DOMAIN records = 1..n
      /\ \A j \in 1..n : \E start, from, first : Book(j, start, from, first)
  BY Books
<1>2. StartsInv /\ events \in Seq(Event)
  BY DEF ResultsInv
<1>3. \A j \in 1..n : Start(j) = Begin(j) /\ Begin(j) \in 1..Len(events)
  BY <1>1, <1>2, StartsAre
<1>4. ASSUME NEW j \in 1..n
      PROVE  /\ records[j].end \in Int /\ Begin(j) < records[j].end
             /\ records[j].end < Len(events) /\ NextStart(j) <= Len(events) + 1
             /\ NextStart(j) \in Int /\ (j # n => j + 1 \in 1..n /\ NextStart(j) = Begin(j + 1))
  <2>1. PICK start, from, first : Book(j, start, from, first)
    BY <1>1
  <2>2. /\ Start(j) = start /\ NextStart(j) = (IF j = n THEN Len(events) + 1 ELSE records[j].end + 1)
        /\ j # n => Start(j + 1) = records[j].end + 1
    BY <2>1 DEF Book
  <2>3. /\ start \in Nat /\ start < records[j].end /\ records[j].end \in Nat
        /\ records[j].end < Len(events)
    <3>1. /\ start \in Nat /\ first \in Nat /\ from \in Nat /\ start <= from /\ from < first
          /\ records[j].end \in Nat /\ records[j].end < Len(events)
          /\ records[j].end = first + (IF Len(records[j].wins) = 0 THEN 1 ELSE Len(records[j].wins))
          /\ Len(records[j].wins) \in 0..2
      BY <2>1, TerminalsAre
    <3> DEFINE m == IF Len(records[j].wins) = 0 THEN 1 ELSE Len(records[j].wins)
    <3>2. m \in Nat
      BY <3>1
    <3> HIDE DEF m
    <3>3. records[j].end = first + m
      BY <3>1 DEF m
    <3> QED
      BY <3>1, <3>2, <3>3
  <2>4. j # n => j + 1 \in 1..n
    BY <1>1
  <2>5. Len(events) \in Nat
    BY <1>2
  <2> QED
    BY <1>3, <2>2, <2>3, <2>4, <2>5
<1> HIDE DEF n
<1>5. \A a, b \in 1..n : a < b => Begin(a) < Begin(b)
  BY <1>2 DEF StartsInv, n
<1>6. k \in 1..n /\ i \in Int /\ records[k].end <= i /\ i < NextStart(k)
  <2>1. k \in 1..n
    BY DEF n
  <2>2. records[k].end \in Int /\ NextStart(k) \in Int
    BY <1>4, <2>1
  <2> QED
    BY <2>1, <2>2
<1>7. i \in DOMAIN events
  <2>1. 1 <= i /\ i <= Len(events)
    BY <1>2, <1>3, <1>4, <1>6
  <2> QED
    BY <1>2, <1>6, <2>1
<1> DEFINE ks == {j \in DOMAIN records : i \in records[j].end..NextStart(j) - 1}
<1>8. ASSUME NEW j \in 1..n, NEW l \in 1..n, j < l, i < NextStart(j), records[l].end <= i
      PROVE  FALSE
  <2>1. j # n
    BY <1>1, <1>8
  <2>2. NextStart(j) = Begin(j + 1) /\ j + 1 \in 1..n
    BY <1>4, <2>1
  <2>3. Begin(j + 1) <= Begin(l)
    <3>1. j + 1 = l \/ j + 1 < l
      BY <1>8
    <3> QED
      BY <1>3, <1>5, <2>2, <3>1
  <2>4. Begin(l) < records[l].end /\ Begin(l) \in Int /\ records[l].end \in Int
        /\ Begin(j + 1) \in Int
    BY <1>3, <1>4, <2>2
  <2> QED
    BY <1>6, <1>8, <2>2, <2>3, <2>4
<1>9. ks = {k}
  <2>1. k \in ks
    BY <1>1, <1>6
  <2>2. ASSUME NEW j \in ks PROVE j = k
    <3>1. j \in 1..n /\ i \in records[j].end..NextStart(j) - 1
      BY <1>1
    <3>2. records[j].end <= i /\ i < NextStart(j)
      BY <1>4, <1>6, <3>1
    <3>3. ~(j < k) /\ ~(k < j)
      BY <1>6, <1>8, <3>1, <3>2
    <3> QED
      BY <1>6, <3>1, <3>3
  <2> QED
    BY <2>1, <2>2
<1>10. (CHOOSE j \in ks : TRUE) = k /\ ks # {}
  <2> HIDE DEF ks
  <2> QED
    BY <1>9
<1> HIDE DEF ks
<1>11. Joined[i] =
         LET r == records[CHOOSE j \in ks : TRUE] IN
         [scores |-> [s \in Seats |-> r.changes[s].after], pot |-> r.potAfter]
  BY <1>7, <1>10 DEF Joined, ks
<1> QED
  BY <1>7, <1>10, <1>11 DEF After

\* No Kyoku loses a point: what the seats and the pot hold after each record is what the
\* Match began with, and so is what a reader reaches at the end of each Kyoku.
THEOREM PointsHold ==
  ASSUME ResultsInv
  PROVE  PointsAreKept
<1>1. ASSUME NEW k \in DOMAIN records
      PROVE  Total(After(records[k])) + records[k].potAfter * Stick = N * Points0
  <2>1. Filed(k)
    BY DEF ResultsInv
  <2> QED
    BY <2>1 DEF Filed, FiledIn
<1>2. ASSUME NEW k \in DOMAIN records, engine.done
      PROVE  LET f == Joined[records[k].end] IN Total(f.scores) + f.pot * Stick = N * Points0
  <2>1. k \in 1..engine.kyoku
    BY <1>2, Books
  <2>2. PICK start, from, first : Book(k, start, from, first)
    BY <1>2, <2>1, Books
  <2>3. records[k].end \in start + 1..NextStart(k) - 1
    BY <2>2, EndOfMatch
  <2>4. records[k].end \in records[k].end..NextStart(k) - 1
    <3>1. start \in Nat /\ NextStart(k) \in Int
      <4>1. start \in Nat /\ records[k].end \in Nat
        BY <2>2, TerminalsAre
      <4>2. NextStart(k) = (IF k = engine.kyoku THEN Len(events) + 1 ELSE records[k].end + 1)
            /\ events \in Seq(Event)
        BY <2>2 DEF Book
      <4> QED
        BY <4>1, <4>2
    <3> QED
      BY <2>3, <3>1
  <2>5. Joined[records[k].end] = [scores |-> After(records[k]), pot |-> records[k].potAfter]
    BY <1>2, <2>1, <2>4, JoinedIs
  <2> QED
    BY <1>1, <2>5
<1> QED
  BY <1>1, <1>2 DEF PointsAreKept, After

\* Every replay of a finished Match is readable: the validation a reader runs over the
\* events and the records accepts what the engine filed.
THEOREM BooksAreReadable ==
  ASSUME Assumption, ResultsInv
  PROVE  ResultsAreReadable
<1>1. status = "ok"
  BY DEF ResultsInv
<1>2. ASSUME engine.done
      PROVE  LET joined == Joined[Len(events)] IN
             /\ Joins(records)
             /\ joined = [scores |-> engine.scores, pot |-> engine.pot]
             /\ \A s \in Seats : Ranks(engine.scores)[s] = 1 => s = Top(joined.scores)
  <2> DEFINE n == engine.kyoku
  <2>1. /\ Len(records) = n /\ n \in Nat \ {0} /\ DOMAIN records = 1..n
        /\ records \in Seq(Result) /\ Cardinality(Starts) = n
        /\ \A k \in 1..n : \E start, from, first : Book(k, start, from, first)
    BY <1>2, Books
  <2> HIDE DEF n
  <2>2. \A k \in 1..n : Accepts(k, records[k])
    BY <2>1, RecordAccepted
  <2>3. Joins(records)
    <3>1. records # <<>>
      BY <2>1
    <3> QED
      BY <2>1, <2>2, <3>1 DEF Joins, Accepts
  <2>4. Joined[Len(events)] = [scores |-> engine.scores, pot |-> engine.pot]
    <3>1. n \in 1..n
      BY <2>1
    <3>2. PICK start, from, first : Book(n, start, from, first)
      BY <2>1, <3>1
    <3>3. /\ NextStart(n) = Len(events) + 1 /\ events \in Seq(Event)
          /\ [pot |-> records[n].potAfter, scores |-> After(records[n])] = Money(engine)
      BY <3>2 DEF Book, n
    <3>4. records[n].end \in Nat /\ records[n].end < Len(events)
      BY <3>2, TerminalsAre
    <3>5. Len(events) \in records[n].end..NextStart(n) - 1
      BY <3>3, <3>4
    <3>6. Joined[Len(events)] = [scores |-> After(records[n]), pot |-> records[n].potAfter]
      BY <1>2, <3>1, <3>5, JoinedIs DEF n
    <3> QED
      BY <3>3, <3>6 DEF Money
  <2>5. engine.scores \in [Seats -> Int]
    <3>1. engine \in Engine
      BY DEF ResultsInv, EngineInv
    <3> QED
      BY <3>1, EngineFields
  <2>6. ASSUME NEW s \in Seats, Ranks(engine.scores)[s] = 1 PROVE s = Top(engine.scores)
    <3> DEFINE scores == engine.scores
               ahead == {o \in Seats : scores[o] > scores[s]
                                         \/ (scores[o] = scores[s] /\ o < s)}
    <3>1. 1 + Cardinality(ahead) = 1
      BY <2>6 DEF Ranks
    <3>2. IsFiniteSet(ahead)
      <4>1. IsFiniteSet(Seats)
        BY SeatsAre, FS_Interval DEF Seats
      <4> QED
        BY <4>1, FS_Subset
    <3>3. ahead = {}
      <4> HIDE DEF ahead
      <4>1. Cardinality(ahead) \in Nat
        BY <3>2, FS_CardinalityType
      <4> QED
        BY <3>1, <3>2, <4>1, FS_EmptySet
    <3>4. Leads(scores, s)
      <4>1. \A o \in Seats : o \in Int
        BY SeatsAre
      <4> QED
        BY <2>5, <3>3, <4>1 DEF Leads
    <3> QED
      BY <2>5, <3>4, LeaderIsTop
  <2> QED
    BY <2>3, <2>4, <2>6
<1> QED
  BY <1>1, <1>2 DEF ResultsAreReadable

-----------------------------------------------------------------------------
(* What the reader refuses *)

\* In a Kyoku the scores tell the pot, and the pot the scores.
LEMMA ScoresTellThePot ==
  ASSUME NEW k, NEW start, NEW from, NEW first, Book(k, start, from, first),
         NEW i \in Int, NEW j \in Int, start <= i, start <= j, i < Len(events), j < Len(events),
         \/ ReachedIn(events, start, i).pot = ReachedIn(events, start, j).pot
         \/ ReachedIn(events, start, i).scores = ReachedIn(events, start, j).scores
  PROVE  ReachedIn(events, start, i) = ReachedIn(events, start, j)
<1>1. /\ events \in Seq(Event) /\ start \in Nat /\ start \in 1..Len(events) /\ Len(events) \in Nat
      /\ events[start].kind = "start_kyoku"
  <2>1. events \in Seq(Event)
    BY DEF Book
  <2> QED
    BY <2>1, TerminalsAre
<1>2. ASSUME NEW a \in Int, NEW b \in Int, start <= a, a <= b, b < Len(events),
             \/ ReachedIn(events, start, a).pot = ReachedIn(events, start, b).pot
             \/ ReachedIn(events, start, a).scores = ReachedIn(events, start, b).scores
      PROVE  ReachedIn(events, start, a) = ReachedIn(events, start, b)
  <2> DEFINE A == DepositsIn(events, start, a)
             B == DepositsIn(events, start, b)
             As(s) == DepositsOfIn(events, s, start, a)
             Bs(s) == DepositsOfIn(events, s, start, b)
  <2>1. A \subseteq B /\ IsFiniteSet(B) /\ \A s : As(s) \subseteq Bs(s) /\ IsFiniteSet(Bs(s))
    <3>1. \A l \in start + 1..a : l \in start + 1..b
      BY <1>1, <1>2
    <3>2. A \subseteq B /\ \A s : As(s) \subseteq Bs(s) /\ Bs(s) \subseteq B
      BY <3>1 DEF DepositsIn, DepositsOfIn
    <3>3. IsFiniteSet(start + 1..b)
      BY <1>1, <1>2, FS_Interval
    <3>4. IsFiniteSet(B)
      <4>1. B \in SUBSET (start + 1..b)
        BY DEF DepositsIn
      <4> QED
        BY <3>3, <4>1, FS_Subset
    <3>5. \A s : IsFiniteSet(Bs(s))
      <4>1. \A s : Bs(s) \in SUBSET B
        BY <3>2
      <4> HIDE DEF B, Bs
      <4> QED
        BY <3>4, <4>1, FS_Subset
    <3> QED
      BY <3>2, <3>4, <3>5
  <2>2. Cardinality(A) \in Nat /\ Cardinality(B) \in Nat
        /\ \A s : Cardinality(As(s)) \in Nat /\ Cardinality(Bs(s)) \in Nat
    <3> HIDE DEF A, B, As, Bs
    <3>1. IsFiniteSet(A) /\ \A s : IsFiniteSet(As(s))
      BY <2>1, FS_Subset
    <3> QED
      BY <2>1, <3>1, FS_CardinalityType
  <2>3. events[start].kyotaku \in Nat /\ events[start].scores \in [Seats -> Int]
    <3>1. events[start] \in Event
      BY <1>1
    <3> QED
      BY <1>1, <3>1 DEF Event
  <2>4. A = B
    <3>1. CASE ReachedIn(events, start, a).pot = ReachedIn(events, start, b).pot
      <4>1. events[start].kyotaku + Cardinality(A) = events[start].kyotaku + Cardinality(B)
        BY <3>1 DEF ReachedIn
      <4>2. Cardinality(A) = Cardinality(B)
        BY <2>2, <2>3, <4>1
      <4> HIDE DEF A, B
      <4> QED
        BY <2>1, <4>2, FS_Subset
    <3>2. CASE ReachedIn(events, start, a).scores = ReachedIn(events, start, b).scores
      <4>1. ASSUME NEW s \in Seats PROVE As(s) = Bs(s)
        <5>1. events[start].scores[s] - Stick * Cardinality(As(s))
                = events[start].scores[s] - Stick * Cardinality(Bs(s))
          BY <3>2 DEF ReachedIn
        <5>2. events[start].scores[s] \in Int
          BY <2>3
        <5>3. Cardinality(As(s)) = Cardinality(Bs(s))
          <6> HIDE DEF As, Bs
          <6> QED
            BY <2>2, <5>1, <5>2 DEF Stick
        <5> HIDE DEF As, Bs
        <5> QED
          BY <2>1, <5>3, FS_Subset
      <4>2. ASSUME NEW l \in B PROVE l \in A
        <5>1. l \in start + 1..b /\ events[l].kind = "reach_accepted"
          BY DEF DepositsIn
        <5>2. l \in 1..Len(events)
          BY <1>1, <1>2, <5>1
        <5>3. events[l] \in Event
          BY <1>1, <5>2
        <5>4. events[l].actor \in Seats
          BY <5>1, <5>3 DEF Event
        <5>5. l \in Bs(events[l].actor)
          BY <4>2 DEF DepositsOfIn
        <5>6. l \in As(events[l].actor)
          BY <4>1, <5>4, <5>5
        <5> QED
          BY <5>6 DEF DepositsOfIn
      <4> QED
        BY <2>1, <4>2
    <3> QED
      BY <1>2, <3>1, <3>2
  <2> QED
    BY <2>4, SameReached
<1>3. i <= j \/ j <= i
  OBVIOUS
<1> QED
  BY <1>2, <1>3

\* A record the reader accepts has the sequence and the end of the Kyoku.
LEMMA SameBoundary ==
  ASSUME NEW k, NEW start, NEW from, NEW first, Book(k, start, from, first),
         NEW c, Accepts(k, c)
  PROVE  c.seq = records[k].seq /\ c.end = records[k].end /\ RecordValid(c)
<1>1. /\ c.seq = k /\ c.end \in start + 1..NextStart(k) - 1
      /\ events[c.end].kind = "end_kyoku" /\ RecordValid(c)
  BY DEF Accepts, BoundaryFits, Book
<1>2. records[k].seq = k
  BY DEF Book
<1> QED
  BY <1>1, <1>2, EndOfMatch

\* It has the terminal events of the Kyoku.
WinCount(r) == IF r.wins = <<>> THEN 1 ELSE Len(r.wins)
\* The winners of a record: what they are paid, and where they stand.
WinsPaid(r, start, wins) ==
  \A i \in wins :
    r.wins[i].points = WinPoints(r.wins[i].seat = events[start].oya, r.wins[i].tsumo)
WinsListed(r, first) == \A i \in 1..Len(r.wins) : r.wins[i].index = first + i - 1
WinsFound(c, r, first) ==
  \A i \in 1..Len(r.wins) : \E j \in DOMAIN c.wins :
    c.wins[j].index = first + i - 1 /\ c.wins[j].seat = r.wins[i].seat

\* An accepted record has the winners of the filed one.
LEMMA SameEnding ==
  ASSUME NEW k, NEW start, NEW from, NEW first, Book(k, start, from, first),
         NEW c, Accepts(k, c)
  PROVE  LET r == records[k] IN
         /\ Len(c.wins) + (IF c.wins = <<>> THEN 1 ELSE 0) = WinCount(r)
         /\ WinsPaid(c, start, DOMAIN c.wins) /\ WinsPaid(r, start, 1..Len(r.wins))
         /\ WinsListed(r, first) /\ WinsFound(c, r, first)
         /\ r.wins = <<>> => c.reason = r.reason
<1> DEFINE r == records[k]
           wins == Len(r.wins)
<1>1. /\ TerminalsIn(start, r.end) = first..r.end - 1 /\ wins \in 0..2
      /\ Cardinality(TerminalsIn(start, r.end)) = IF wins = 0 THEN 1 ELSE wins
      /\ r.end = first + (IF wins = 0 THEN 1 ELSE wins) /\ first \in Nat
      /\ (wins = 0 <=> r.wins = <<>>)
  BY TerminalsAre
<1>2. /\ r \in Result /\ Start(k) = start
      /\ WinsFit(events, start, r, first) /\ DrawFits(events, start, r, k = engine.kyoku, first)
      /\ \A i \in first..r.end - 1 : events[i].kind = IF wins = 0 THEN "ryukyoku" ELSE "hora"
  BY DEF Book, Batch
<1>3. TerminalsFit(k, c) /\ c.end = r.end
  BY SameBoundary DEF Accepts
<1>4. /\ Cardinality(TerminalsIn(start, r.end)) = Len(c.wins) + IF c.wins = <<>> THEN 1 ELSE 0
      /\ \A i \in DOMAIN c.wins :
           c.wins[i].points = WinPoints(c.wins[i].seat = events[start].oya, c.wins[i].tsumo)
      /\ \A t \in TerminalsIn(start, r.end) :
           IF events[t].kind = "hora"
           THEN \E i \in DOMAIN c.wins : c.wins[i].index = t /\ c.wins[i].seat = events[t].actor
           ELSE events[t].reason = c.reason
  <2> HIDE DEF r
  <2> QED
    BY <1>2, <1>3 DEF TerminalsFit
<1>5. DOMAIN r.wins = 1..wins
  <2>1. r.wins \in Seq([index : Int, seat : Seats, target : Seats, tsumo : BOOLEAN,
                        points : Nat, agreed : BOOLEAN])
    BY <1>2 DEF Result
  <2> QED
    BY <2>1
<1>6. ASSUME NEW i \in 1..wins
      PROVE  /\ r.wins[i].index = first + i - 1
             /\ r.wins[i].points = WinPoints(r.wins[i].seat = events[start].oya, r.wins[i].tsumo)
             /\ \E j \in DOMAIN c.wins :
                  c.wins[j].index = first + i - 1 /\ c.wins[j].seat = r.wins[i].seat
  <2>1. wins # 0 /\ r.wins # <<>>
    BY <1>1
  <2>2. /\ r.wins[i].index = first + i - 1 /\ r.wins[i].seat = events[first + i - 1].actor
        /\ r.wins[i].points = WinPoints(r.wins[i].seat = events[start].oya, r.wins[i].tsumo)
    BY <1>2, <1>5, <2>1 DEF WinsFit
  <2>3. first + i - 1 \in first..r.end - 1
    <3> HIDE DEF wins
    <3>1. r.end = first + wins /\ wins \in Nat
      BY <1>1, <2>1
    <3> HIDE DEF r
    <3> QED
      BY <1>1, <3>1
  <2>4. events[first + i - 1].kind = "hora" /\ first + i - 1 \in TerminalsIn(start, r.end)
    BY <1>1, <1>2, <2>1, <2>3
  <2>5. \E j \in DOMAIN c.wins :
          c.wins[j].index = first + i - 1 /\ c.wins[j].seat = events[first + i - 1].actor
    BY <1>4, <2>4
  <2> QED
    BY <2>2, <2>5
<1>7. ASSUME r.wins = <<>> PROVE c.reason = r.reason
  <2>1. wins = 0
    BY <1>1, <1>7
  <2>2. first \in first..r.end - 1
    <3> HIDE DEF wins
    <3>1. r.end = first + 1
      BY <1>1, <2>1
    <3> HIDE DEF r
    <3> QED
      BY <1>1, <3>1
  <2>3. events[first].kind = "ryukyoku" /\ first \in TerminalsIn(start, r.end)
    BY <1>1, <1>2, <2>1, <2>2
  <2>4. events[first].reason = c.reason
    BY <1>4, <2>3
  <2> QED
    BY <1>2, <1>7, <2>4 DEF DrawFits
<1>8. Len(c.wins) + (IF c.wins = <<>> THEN 1 ELSE 0) = IF r.wins = <<>> THEN 1 ELSE Len(r.wins)
  <2>1. Len(c.wins) + (IF c.wins = <<>> THEN 1 ELSE 0) = IF wins = 0 THEN 1 ELSE wins
    <3> HIDE DEF r, wins
    <3> QED
      BY <1>1, <1>4
  <2> QED
    BY <1>1, <2>1
<1>9. \A i \in DOMAIN c.wins :
        c.wins[i].points = WinPoints(c.wins[i].seat = events[start].oya, c.wins[i].tsumo)
  BY <1>4
<1>10. \A i \in 1..wins :
         /\ r.wins[i].index = first + i - 1
         /\ r.wins[i].points = WinPoints(r.wins[i].seat = events[start].oya, r.wins[i].tsumo)
         /\ \E j \in DOMAIN c.wins :
              c.wins[j].index = first + i - 1 /\ c.wins[j].seat = r.wins[i].seat
  BY <1>6
<1>11. WinsListed(r, first) /\ WinsFound(c, r, first) /\ WinsPaid(r, start, 1..wins)
  BY <1>10 DEF WinsListed, WinsFound, WinsPaid
<1>12. WinsPaid(c, start, DOMAIN c.wins)
  BY <1>9 DEF WinsPaid
<1>13. Len(c.wins) + (IF c.wins = <<>> THEN 1 ELSE 0) = WinCount(r)
  BY <1>8 DEF WinCount
<1> QED
  BY <1>7, <1>11, <1>12, <1>13

\* It has the money of the Kyoku.
LEMMA SameSettlement ==
  ASSUME NEW k, NEW start, NEW from, NEW first, Book(k, start, from, first),
         NEW c, Accepts(k, c)
  PROVE  LET r == records[k]
             pot == ReachedIn(events, start, first - 1).pot
         IN
         /\ \E i \in Int : /\ start <= i /\ i < first
                           /\ ReachedIn(events, start, i) = [pot |-> c.potBefore, scores |-> Before(c)]
         /\ c.wins = r.wins => c.potAfter = r.potAfter
         /\ c.wins # <<>> /\ r.wins # <<>> => After(c) = After(r)
         /\ k # engine.kyoku => After(c) = After(r)
         /\ c.wins = <<>> /\ r.wins = <<>> =>
              /\ Plus(Less(Unawarded(k, c, pot), Before(c)), c.adjustment[1])
                   = Plus(Less(Unawarded(k, r, pot), Before(r)), r.adjustment[1])
              /\ k = engine.kyoku /\ pot > 0 =>
                   /\ Top(Unawarded(k, c, pot)) = Top(After(c))
                   /\ Top(Unawarded(k, r, pot)) = Top(After(r))
<1> DEFINE r == records[k]
           reached == ReachedIn(events, start, first - 1)
<1>1. c.end = r.end /\ SettlementFits(k, c)
  BY SameBoundary DEF Accepts
<1>2. /\ BeforeFits(start, first, c.end, c)
      /\ c.potAfter = IF c.wins # <<>> \/ (k = engine.kyoku /\ c.wins = <<>> /\ reached.pot > 0)
                      THEN 0 ELSE reached.pot
      /\ c.wins = <<>> =>
           /\ k = engine.kyoku /\ c.wins = <<>> /\ reached.pot > 0 =>
                Top(Unawarded(k, c, reached.pot)) = Top(After(c))
           /\ Plus(Less(Unawarded(k, c, reached.pot), Before(c)), c.adjustment[1])
                = events[first].delta
      /\ c.wins # <<>> => PaidIn(events, reached.scores, first, c.end - 1) = After(c)
      /\ NextFits(k, c)
  BY <1>1, SettlementIs
<1>3. /\ Start(k) = start /\ Cardinality(Starts) = engine.kyoku /\ k \in 1..engine.kyoku
      /\ engine.kyoku \in Nat
      /\ WinsFit(events, start, r, first) /\ DrawFits(events, start, r, k = engine.kyoku, first)
      /\ k # engine.kyoku => Start(k + 1) = r.end + 1
      /\ k # engine.kyoku => After(r) = events[r.end + 1].scores
  BY DEF Book
<1>4. start \in Nat /\ first \in Nat /\ from \in Nat /\ start <= from /\ from < first
  BY TerminalsAre
<1>5. \E i \in Int : /\ start <= i /\ i < first
                     /\ ReachedIn(events, start, i) = [pot |-> c.potBefore, scores |-> Before(c)]
  <2>1. PICK i \in {start} \cup DepositsIn(events, start, first - 1) :
          ReachedIn(events, start, i) = [pot |-> c.potBefore, scores |-> Before(c)]
    BY <1>2, SameCounts DEF BeforeFits, Before
  <2>2. i \in Int /\ start <= i /\ i < first
    BY <1>4, DepositsOfKyoku
  <2> QED
    BY <2>1, <2>2
<1>6. ASSUME k # engine.kyoku PROVE After(c) = After(r)
  <2>1. k < Cardinality(Starts) /\ Start(k + 1) = r.end + 1
    BY <1>3, <1>6
  <2>2. events[r.end + 1].scores = [s \in Seats |-> c.changes[s].after]
    BY <1>2, <2>1 DEF NextFits
  <2> QED
    BY <1>3, <1>6, <2>2 DEF After
<1>7. ASSUME r.wins # <<>>
      PROVE  r.potAfter = 0 /\ PaidIn(events, reached.scores, first, r.end - 1) = After(r)
  BY <1>3, <1>7 DEF WinsFit
<1>8. ASSUME r.wins = <<>>
      PROVE  LET award == k = engine.kyoku /\ reached.pot > 0 IN
             /\ r.potAfter = IF award THEN 0 ELSE reached.pot
             /\ award => Top(Unawarded(k, r, reached.pot)) = Top(After(r))
             /\ Plus(Less(Unawarded(k, r, reached.pot), Before(r)), r.adjustment[1])
                  = events[first].delta
  <2>1. Unawarded(k, r, reached.pot) =
          IF k = engine.kyoku /\ reached.pot > 0
          THEN [After(r) EXCEPT ![Top(After(r))] = @ - reached.pot * Stick]
          ELSE After(r)
    BY <1>8 DEF Unawarded
  <2> QED
    BY <1>3, <1>8, <2>1 DEF DrawFits
<1>9. c.wins = r.wins => c.potAfter = r.potAfter
  BY <1>2, <1>7, <1>8
<1>10. c.wins # <<>> /\ r.wins # <<>> => After(c) = After(r)
  BY <1>1, <1>2, <1>7
<1>11. ASSUME c.wins = <<>>, r.wins = <<>>
       PROVE  /\ Plus(Less(Unawarded(k, c, reached.pot), Before(c)), c.adjustment[1])
                   = Plus(Less(Unawarded(k, r, reached.pot), Before(r)), r.adjustment[1])
              /\ k = engine.kyoku /\ reached.pot > 0 =>
                   /\ Top(Unawarded(k, c, reached.pot)) = Top(After(c))
                   /\ Top(Unawarded(k, r, reached.pot)) = Top(After(r))
  BY <1>2, <1>8, <1>11
<1> QED
  BY <1>5, <1>6, <1>9, <1>10, <1>11

\* Its scores and its pot before the settlement change together or not at all.
LEMMA SameBefore ==
  ASSUME NEW k, NEW start, NEW from, NEW first, Book(k, start, from, first),
         NEW c, Accepts(k, c),
         c.potBefore = records[k].potBefore \/ Before(c) = Before(records[k])
  PROVE  c.potBefore = records[k].potBefore /\ Before(c) = Before(records[k])
<1>1. PICK i \in Int : /\ start <= i /\ i < first
                       /\ ReachedIn(events, start, i) = [pot |-> c.potBefore, scores |-> Before(c)]
  BY SameSettlement
<1>2. ReachedIn(events, start, from)
        = [pot |-> records[k].potBefore, scores |-> Before(records[k])]
  BY DEF Book
<1>3. /\ from \in Int /\ start <= from /\ from < Len(events) /\ i < Len(events)
  <2>1. /\ start \in Nat /\ first \in Nat /\ from \in Nat /\ start <= from /\ from < first
        /\ records[k].end = first + (IF Len(records[k].wins) = 0 THEN 1 ELSE Len(records[k].wins))
        /\ Len(records[k].wins) \in 0..2 /\ records[k].end < Len(events)
    BY TerminalsAre
  <2> DEFINE m == IF Len(records[k].wins) = 0 THEN 1 ELSE Len(records[k].wins)
  <2>2. records[k].end = first + m /\ m \in Nat /\ Len(events) \in Nat
    <3>1. events \in Seq(Event)
      BY DEF Book
    <3> QED
      BY <2>1, <3>1
  <2> HIDE DEF m
  <2> QED
    BY <1>1, <2>1, <2>2
<1>4. \/ ReachedIn(events, start, i).pot = ReachedIn(events, start, from).pot
      \/ ReachedIn(events, start, i).scores = ReachedIn(events, start, from).scores
  BY <1>1, <1>2
<1>5. ReachedIn(events, start, i) = ReachedIn(events, start, from)
  BY <1>1, <1>3, <1>4, ScoresTellThePot
<1> QED
  BY <1>1, <1>2, <1>5

\* The fields of a filed record.
LEMMA ResultFields ==
  ASSUME NEW k, NEW start, NEW from, NEW first, Book(k, start, from, first)
  PROVE  LET r == records[k] IN
         /\ r \in Result /\ r.seq \in Nat /\ r.end \in Nat /\ r.potBefore \in Nat /\ r.potAfter \in Nat
         /\ r.changes \in [Seats -> [before : Int, after : Int, delta : Int]]
         /\ r.adjustment \in Seq([Seats -> Int])
         /\ r.wins \in Seq([index : Int, seat : Seats, target : Seats, tsumo : BOOLEAN,
                            points : Nat, agreed : BOOLEAN])
         /\ After(r) \in [Seats -> Int] /\ Before(r) \in [Seats -> Int]
<1>1. records[k] \in Result
  BY DEF Book
<1> QED
  BY <1>1 DEF Result, After, Before

\* Another number, and nothing else.
LEMMA OtherNumberRefused ==
  ASSUME NEW k, NEW start, NEW from, NEW first, Book(k, start, from, first),
         NEW c, Accepts(k, c), NEW r, r = records[k],
         c \in {[r EXCEPT !.potBefore = @ + 1], [r EXCEPT !.potAfter = @ + 1],
                [r EXCEPT !.seq = @ + 1], [r EXCEPT !.end = @ - 1], [r EXCEPT !.end = @ + 1]}
  PROVE  FALSE
<1>1. /\ r \in Result /\ r.seq \in Nat /\ r.end \in Nat /\ r.potBefore \in Nat /\ r.potAfter \in Nat
  BY ResultFields
<1>2. c.seq = r.seq /\ c.end = r.end
  BY SameBoundary
<1>3. c.wins = r.wins => c.potAfter = r.potAfter
  BY SameSettlement
<1>4. Before(c) = Before(r) => c.potBefore = r.potBefore
  BY SameBefore
<1>5. CASE c = [r EXCEPT !.potBefore = @ + 1]
  <2>1. c.potBefore = r.potBefore + 1 /\ c.changes = r.changes
    BY <1>1, <1>5 DEF Result
  <2> QED
    BY <1>1, <1>4, <2>1 DEF Before
<1>6. CASE c = [r EXCEPT !.potAfter = @ + 1]
  <2>1. c.potAfter = r.potAfter + 1 /\ c.wins = r.wins
    BY <1>1, <1>6 DEF Result
  <2> QED
    BY <1>1, <1>3, <2>1
<1>7. CASE c = [r EXCEPT !.seq = @ + 1]
  <2>1. c.seq = r.seq + 1
    BY <1>1, <1>7 DEF Result
  <2> QED
    BY <1>1, <1>2, <2>1
<1>8. CASE c = [r EXCEPT !.end = @ - 1] \/ c = [r EXCEPT !.end = @ + 1]
  <2>1. c.end = r.end - 1 \/ c.end = r.end + 1
    BY <1>1, <1>8 DEF Result
  <2> QED
    BY <1>1, <1>2, <2>1
<1> QED
  BY <1>5, <1>6, <1>7, <1>8

\* Other scores before the settlement.
LEMMA OtherBeforeRefused ==
  ASSUME Assumption, NEW k, NEW start, NEW from, NEW first, Book(k, start, from, first),
         NEW c, Accepts(k, c), NEW r, r = records[k], NEW s \in Seats, NEW x \in {-Stick, Stick},
         c = BeforeBy(r, s, x)
  PROVE  FALSE
<1>1. /\ r \in Result /\ r.changes \in [Seats -> [before : Int, after : Int, delta : Int]]
  BY ResultFields
<1>2. c.potBefore = r.potBefore /\ c.changes[s].before = r.changes[s].before - x
  BY <1>1, ZenonT(60) DEF Result, BeforeBy
<1>3. Before(c) = Before(r)
  BY <1>2, SameBefore
<1>4. c.changes[s].before = r.changes[s].before
  BY <1>3 DEF Before
<1>5. r.changes[s].before \in Int /\ x \in Int /\ x # 0
  BY <1>1 DEF Stick
<1> QED
  BY <1>2, <1>4, <1>5

\* The pot of a Kyoku is a number.
LEMMA PotOfKyoku ==
  ASSUME NEW k, NEW start, NEW from, NEW first, Book(k, start, from, first)
  PROVE  ReachedIn(events, start, first - 1).pot \in Int
<1>1. events \in Seq(Event) /\ start \in 1..Len(events) /\ events[start].kind = "start_kyoku"
      /\ start \in Nat /\ first \in Nat
  <2>1. events \in Seq(Event)
    BY DEF Book
  <2> QED
    BY <2>1, TerminalsAre
<1>2. events[start].kyotaku \in Nat
  <2>1. events[start] \in Event
    BY <1>1
  <2> QED
    BY <1>1, <2>1 DEF Event
<1>3. IsFiniteSet(DepositsIn(events, start, first - 1))
  <2>1. IsFiniteSet(start + 1..first - 1)
    BY <1>1, FS_Interval
  <2>2. DepositsIn(events, start, first - 1) \in SUBSET (start + 1..first - 1)
    BY DEF DepositsIn
  <2> QED
    BY <2>1, <2>2, FS_Subset
<1>4. Cardinality(DepositsIn(events, start, first - 1)) \in Nat
  BY <1>3, FS_CardinalityType
<1> QED
  BY <1>2, <1>4 DEF ReachedIn

\* Both payments are the same, and both scores without the pot are.
SameSum(f, g, b, a) == Plus(Less(f, b), a) = Plus(Less(g, b), a)
\* The points without the award of a seat.
Taken(f, t, y) == [f EXCEPT ![t] = @ - y]

\* The same payments from the same points leave the same points.
LEMMA SumsCancel ==
  ASSUME NEW f \in [Seats -> Int], NEW g \in [Seats -> Int], NEW b \in [Seats -> Int],
         NEW a \in [Seats -> Int], SameSum(f, g, b, a)
  PROVE  f = g
<1>1. ASSUME NEW o \in Seats PROVE f[o] = g[o]
  <2>1. (f[o] - b[o]) + a[o] = (g[o] - b[o]) + a[o]
    <3>1. Plus(Less(f, b), a)[o] = Plus(Less(g, b), a)[o]
      BY DEF SameSum
    <3> QED
      BY <3>1 DEF Plus, Less
  <2> QED
    BY <2>1
<1> QED
  BY <1>1

\* The same award taken from two sides.
LEMMA AwardsCancel ==
  ASSUME NEW f \in [Seats -> Int], NEW g \in [Seats -> Int], NEW t \in Seats, NEW y \in Int,
         Taken(f, t, y) = Taken(g, t, y)
  PROVE  f = g
<1>1. ASSUME NEW o \in Seats PROVE f[o] = g[o]
  <2>1. [f EXCEPT ![t] = @ - y][o] = [g EXCEPT ![t] = @ - y][o]
    BY DEF Taken
  <2>2. f[o] \in Int /\ g[o] \in Int
    OBVIOUS
  <2> QED
    BY <2>1, <2>2
<1> QED
  BY <1>1

\* With the same wins or the same evidence it pays the same.
LEMMA SameAfter ==
  ASSUME Assumption, NEW k, NEW start, NEW from, NEW first, Book(k, start, from, first),
         NEW c, Accepts(k, c), After(c) \in [Seats -> Int], Before(c) = Before(records[k]),
         c.wins = records[k].wins, c.adjustment = records[k].adjustment
  PROVE  After(c) = After(records[k])
<1> DEFINE pot == ReachedIn(events, start, first - 1).pot
           r == records[k]
<1>1. After(r) \in [Seats -> Int] /\ Before(r) \in [Seats -> Int]
      /\ r.adjustment \in Seq([Seats -> Int])
  BY ResultFields
<1> SUFFICES ASSUME After(c) # After(r) PROVE FALSE
  OBVIOUS
<1>2. c.wins = <<>> /\ r.wins = <<>>
  BY SameSettlement
<1>3. /\ Plus(Less(Unawarded(k, c, pot), Before(c)), c.adjustment[1])
           = Plus(Less(Unawarded(k, r, pot), Before(r)), r.adjustment[1])
      /\ k = engine.kyoku /\ pot > 0 =>
           /\ Top(Unawarded(k, c, pot)) = Top(After(c))
           /\ Top(Unawarded(k, r, pot)) = Top(After(r))
  BY <1>2, SameSettlement
<1>4. r.adjustment[1] \in [Seats -> Int]
  <2>1. Len(r.adjustment) = 1
    BY <1>2 DEF Book, DrawFits
  <2>2. 1 \in 1..Len(r.adjustment)
    BY <2>1
  <2> QED
    BY <1>1, <2>2, ElementOfSeq, Zenon
<1>5. pot \in Int
  BY PotOfKyoku
<1> HIDE DEF pot, r
<1>6. /\ Unawarded(k, c, pot) \in [Seats -> Int] /\ Unawarded(k, r, pot) \in [Seats -> Int]
  <2>1. ASSUME NEW f \in [Seats -> Int] PROVE [f EXCEPT ![Top(f)] = @ - pot * Stick] \in [Seats -> Int]
    <3>1. pot * Stick \in Int
      BY <1>5 DEF Stick
    <3>2. Top(f) \in Seats
      BY TopLeads
    <3> QED
      BY <3>1, <3>2
  <2> QED
    BY <1>1, <2>1 DEF Unawarded
<1>7. Unawarded(k, c, pot) = Unawarded(k, r, pot)
  <2>1. SameSum(Unawarded(k, c, pot), Unawarded(k, r, pot), Before(r), r.adjustment[1])
    BY <1>3 DEF r, SameSum
  <2> QED
    BY <1>1, <1>4, <1>6, <2>1, SumsCancel, Zenon
<1>8. k = engine.kyoku /\ pot > 0
  BY <1>2, <1>7 DEF Unawarded
<1>9. Top(After(c)) = Top(After(r))
  BY <1>3, <1>7, <1>8
<1>10. Taken(After(c), Top(After(c)), pot * Stick) = Taken(After(r), Top(After(c)), pot * Stick)
  BY <1>2, <1>7, <1>8, <1>9 DEF Unawarded, Taken
<1>11. Top(After(c)) \in Seats /\ pot * Stick \in Int
  BY <1>5, TopLeads DEF Stick
<1>12. After(c) = After(r)
  BY <1>1, <1>10, <1>11, AwardsCancel, Zenon
<1> QED
  BY <1>12 DEF r

\* A change of one seat, altered.
LEMMA ChangeOf ==
  ASSUME NEW old \in [before : Int, after : Int, delta : Int], NEW x \in Int, NEW y \in Int
  PROVE  LET new == [old EXCEPT !.after = @ + x, !.delta = @ + y] IN
         /\ new \in [before : Int, after : Int, delta : Int]
         /\ new.before = old.before /\ new.after = old.after + x
<1>1. \A u, v \in Int :
        LET new == [old EXCEPT !.after = u, !.delta = v] IN
        /\ new \in [before : Int, after : Int, delta : Int]
        /\ new.before = old.before /\ new.after = u
  OBVIOUS
<1>2. old.after + x \in Int /\ old.delta + y \in Int
  OBVIOUS
<1> QED
  BY <1>1, <1>2

\* A function, altered in one place.
LEMMA UpdateOf ==
  ASSUME NEW S, NEW T, NEW f \in [S -> T], NEW s \in S, NEW v \in T
  PROVE  LET g == [f EXCEPT ![s] = v] IN
         g \in [S -> T] /\ g[s] = v /\ \A o \in S \ {s} : g[o] = f[o]
OBVIOUS

\* Another payment of the same draw, or of the same wins.
OneChanged(r, c, s, new) == c = [r EXCEPT !.changes = [r.changes EXCEPT ![s] = new]]

\* Other points for one seat are refused.
LEMMA OtherChangeRefused ==
  ASSUME Assumption, NEW k, NEW start, NEW from, NEW first, Book(k, start, from, first),
         NEW c, Accepts(k, c), NEW s \in Seats,
         NEW new \in [before : Int, after : Int, delta : Int],
         new.before = records[k].changes[s].before, new.after # records[k].changes[s].after,
         OneChanged(records[k], c, s, new)
  PROVE  FALSE
<1> DEFINE r == records[k]
<1>1. /\ r \in Result /\ r.changes \in [Seats -> [before : Int, after : Int, delta : Int]]
  BY ResultFields
<1> HIDE DEF r
<1>2. c = [r EXCEPT !.changes = [r.changes EXCEPT ![s] = new]]
  BY DEF r, OneChanged
<1>3. /\ c.wins = r.wins /\ c.adjustment = r.adjustment
      /\ c.changes = [r.changes EXCEPT ![s] = new]
  BY <1>1, <1>2 DEF Result
<1>4. /\ c.changes \in [Seats -> [before : Int, after : Int, delta : Int]]
      /\ c.changes[s] = new /\ \A o \in Seats \ {s} : c.changes[o] = r.changes[o]
  <2>1. LET g == [r.changes EXCEPT ![s] = new] IN
        /\ g \in [Seats -> [before : Int, after : Int, delta : Int]]
        /\ g[s] = new /\ \A o \in Seats \ {s} : g[o] = r.changes[o]
    BY <1>1, UpdateOf, Zenon
  <2> QED
    BY <1>3, <2>1, Zenon
<1>5. new.before = r.changes[s].before /\ new.after # r.changes[s].after
  BY DEF r
<1>6. After(c) \in [Seats -> Int] /\ Before(c) = Before(r)
  <2>1. \A o \in Seats : c.changes[o].before = r.changes[o].before
    BY <1>4, <1>5
  <2> QED
    BY <1>4, <2>1 DEF After, Before
<1>7. After(c) = After(r)
  BY <1>3, <1>6, SameAfter DEF r
<1> QED
  BY <1>4, <1>5, <1>7 DEF After

\* A stick more or less after the Kyoku is refused.
LEMMA OtherAfterRefused ==
  ASSUME Assumption, NEW k, NEW start, NEW from, NEW first, Book(k, start, from, first),
         NEW c, Accepts(k, c), NEW r, r = records[k], NEW s \in Seats, NEW x \in {-Stick, Stick},
         c = AfterBy(r, s, x)
  PROVE  FALSE
<1> DEFINE old == r.changes[s]
           new == [old EXCEPT !.after = @ - x, !.delta = @ - x]
<1>1. /\ r \in Result /\ r.changes \in [Seats -> [before : Int, after : Int, delta : Int]]
  BY ResultFields
<1>2. x \in Int /\ x # 0 /\ -x \in Int
  BY DEF Stick
<1>3. c = [r EXCEPT !.changes = [r.changes EXCEPT ![s] = new]]
  BY <1>1 DEF Result, AfterBy
<1>4. old \in [before : Int, after : Int, delta : Int]
  BY <1>1
<1>5. new \in [before : Int, after : Int, delta : Int] /\ new.before = old.before
      /\ new.after # old.after
  <2> HIDE DEF old
  <2>1. new = [old EXCEPT !.after = @ + (-x), !.delta = @ + (-x)]
    BY <1>2, <1>4
  <2>2. /\ new \in [before : Int, after : Int, delta : Int]
        /\ new.before = old.before /\ new.after = old.after + (-x)
    BY <1>2, <1>4, <2>1, ChangeOf
  <2> HIDE DEF new
  <2>3. old.after \in Int
    BY <1>4
  <2> QED
    BY <1>2, <2>2, <2>3
<1>6. OneChanged(records[k], c, s, new)
  <2> HIDE DEF new
  <2> QED
    BY <1>3 DEF OneChanged
<1>7. new.before = records[k].changes[s].before /\ new.after # records[k].changes[s].after
  BY <1>5
<1> HIDE DEF new
<1> QED
  BY <1>5, <1>6, <1>7, OtherChangeRefused, Zenon

\* A win less.
LEMMA FewerWinsRefused ==
  ASSUME NEW k, NEW start, NEW from, NEW first, Book(k, start, from, first),
         NEW c, Accepts(k, c), NEW r, r = records[k], r.wins # <<>>,
         c = [r EXCEPT !.wins = SubSeq(@, 1, Len(@) - 1)]
  PROVE  FALSE
<1> DEFINE fewer == SubSeq(r.wins, 1, Len(r.wins) - 1)
<1>1. r \in Result /\ RecordValid(r)
  BY ResultFields DEF Book
<1>2. c.wins = fewer /\ c.reason = r.reason
  <2>1. c = [r EXCEPT !.wins = fewer]
    OBVIOUS
  <2> HIDE DEF fewer
  <2> QED
    BY <1>1, <2>1 DEF Result
<1>3. r.wins # <<>> /\ Len(r.wins) \in Nat \ {0} /\ Len(fewer) = Len(r.wins) - 1
  <2>1. \A S : \A q \in Seq(S) : q # <<>> =>
          Len(q) \in Nat \ {0} /\ Len(SubSeq(q, 1, Len(q) - 1)) = Len(q) - 1
    <3>1. ASSUME NEW S, NEW q \in Seq(S), q # <<>>
          PROVE  Len(q) \in Nat \ {0} /\ Len(SubSeq(q, 1, Len(q) - 1)) = Len(q) - 1
      <4>1. Len(q) \in Nat \ {0}
        BY <3>1
      <4>2. 1 \in Int /\ Len(q) - 1 \in Int /\ \A j \in 1..Len(q) - 1 : q[j] \in S
        BY <4>1
      <4>3. Len(SubSeq(q, 1, Len(q) - 1)) = IF 1 <= Len(q) - 1 THEN (Len(q) - 1) - 1 + 1 ELSE 0
        BY <4>2, SubSeqProperties
      <4>4. \A n \in Nat \ {0} : (IF 1 <= n - 1 THEN (n - 1) - 1 + 1 ELSE 0) = n - 1
        OBVIOUS
      <4> QED
        BY <4>1, <4>3, <4>4, Zenon
    <3> QED
      BY <3>1
  <2>2. r.wins \in Seq([index : Int, seat : Seats, target : Seats, tsumo : BOOLEAN,
                        points : Nat, agreed : BOOLEAN])
    BY ResultFields
  <2>3. Len(r.wins) \in Nat \ {0} /\ Len(fewer) = Len(r.wins) - 1
    BY <2>1, <2>2, Zenon
  <2>4. Len(<<>>) = 0
    OBVIOUS
  <2> HIDE DEF fewer
  <2> QED
    BY <2>3, <2>4
<1> HIDE DEF fewer
<1>4. r.reason = "" /\ c.wins # <<>>
  <2>1. RecordValid(c)
    BY SameBoundary
  <2> QED
    BY <1>1, <1>2, <1>3, <2>1 DEF RecordValid
<1>5. Len(c.wins) + 0 = Len(r.wins)
  <2>1. Len(c.wins) + (IF c.wins = <<>> THEN 1 ELSE 0) = WinCount(r)
    BY SameEnding
  <2> QED
    BY <1>3, <1>4, <2>1 DEF WinCount
<1> QED
  BY <1>2, <1>3, <1>5

\* The records of winners, and a record with one of them altered.
Win ==
  [index : Int, seat : Seats, target : Seats, tsumo : BOOLEAN, points : Nat, agreed : BOOLEAN]

OneWin(r, c, i, w) == c = [r EXCEPT !.wins = [r.wins EXCEPT ![i] = w]]

\* A list of winners with one of them altered.
LEMMA WinsOf ==
  ASSUME NEW q \in Seq(Win), NEW i \in DOMAIN q, NEW w
  PROVE  LET g == [q EXCEPT ![i] = w] IN
         /\ DOMAIN g = 1..Len(q) /\ i \in 1..Len(q) /\ q[i] \in Win /\ DOMAIN q = 1..Len(q)
         /\ g[i] = w /\ \A j \in 1..Len(q) : j # i => g[j] = q[j]
         /\ w = q[i] => g = q
<1>1. DOMAIN q = 1..Len(q) /\ q[i] \in Win
  BY ElementOfSeq
<1>2. q = [j \in 1..Len(q) |-> q[j]]
  OBVIOUS
<1> DEFINE g == [q EXCEPT ![i] = w]
<1>3. g = [j \in 1..Len(q) |-> IF j = i THEN w ELSE q[j]]
  BY <1>1
<1> HIDE DEF g
<1>4. DOMAIN g = 1..Len(q) /\ g[i] = w /\ \A j \in 1..Len(q) : j # i => g[j] = q[j]
  BY <1>1, <1>3
<1>5. ASSUME w = q[i] PROVE g = q
  <2>1. g = [j \in 1..Len(q) |-> q[j]]
    BY <1>3, <1>5
  <2> QED
    BY <1>2, <2>1
<1> QED
  BY <1>1, <1>4, <1>5 DEF g

\* What stays with a changed win.
Replaced(c, r, i, w) ==
  /\ DOMAIN c.wins = 1..Len(r.wins) /\ i \in 1..Len(r.wins) /\ r.wins[i] \in Win
  /\ c.wins[i] = w /\ \A j \in 1..Len(r.wins) : j # i => c.wins[j] = r.wins[j]
  /\ w = r.wins[i] => c = r

\* A record with one winner altered has the others as they were.
LEMMA OneWinIs ==
  ASSUME NEW k, NEW start, NEW from, NEW first, Book(k, start, from, first),
         NEW c, NEW i \in DOMAIN records[k].wins, NEW w, OneWin(records[k], c, i, w)
  PROVE  Replaced(c, records[k], i, w)
<1> DEFINE r == records[k]
           g == [r.wins EXCEPT ![i] = w]
<1>1. r \in Result /\ r.wins \in Seq(Win)
  BY ResultFields DEF Win
<1>2. /\ DOMAIN g = 1..Len(r.wins) /\ i \in 1..Len(r.wins) /\ r.wins[i] \in Win
      /\ g[i] = w /\ \A j \in 1..Len(r.wins) : j # i => g[j] = r.wins[j]
      /\ w = r.wins[i] => g = r.wins
  BY <1>1, WinsOf, Zenon
<1>3. c = [r EXCEPT !.wins = g]
  BY DEF OneWin
<1> HIDE DEF r, g
<1>4. c.wins = g /\ (g = r.wins => c = r)
  BY <1>1, <1>3 DEF Result
<1>5. /\ DOMAIN c.wins = 1..Len(r.wins) /\ i \in 1..Len(r.wins) /\ r.wins[i] \in Win
      /\ c.wins[i] = w /\ \A j \in 1..Len(r.wins) : j # i => c.wins[j] = r.wins[j]
      /\ w = r.wins[i] => c = r
  BY <1>2, <1>4
<1> QED
  BY <1>5 DEF r, Replaced

\* Another winner.
LEMMA OtherWinnerRefused ==
  ASSUME NEW k, NEW start, NEW from, NEW first, Book(k, start, from, first),
         NEW c, Accepts(k, c), NEW i \in DOMAIN records[k].wins, NEW w,
         w.index = records[k].wins[i].index, w.seat # records[k].wins[i].seat,
         OneWin(records[k], c, i, w)
  PROVE  FALSE
<1> DEFINE r == records[k]
<1>1. /\ DOMAIN c.wins = 1..Len(r.wins) /\ i \in 1..Len(r.wins)
      /\ c.wins[i] = w /\ \A j \in 1..Len(r.wins) : j # i => c.wins[j] = r.wins[j]
  <2>1. Replaced(c, r, i, w)
    BY OneWinIs
  <2> QED
    BY <2>1 DEF Replaced
<1>2. \A j \in 1..Len(r.wins) :
        /\ r.wins[j].index = first + j - 1
        /\ \E l \in DOMAIN c.wins :
             c.wins[l].index = first + j - 1 /\ c.wins[l].seat = r.wins[j].seat
  <2>1. WinsListed(r, first) /\ WinsFound(c, r, first)
    BY SameEnding
  <2> QED
    BY <2>1 DEF WinsListed, WinsFound
<1>3. PICK l \in 1..Len(r.wins) :
        c.wins[l].index = first + i - 1 /\ c.wins[l].seat = r.wins[i].seat
  BY <1>1, <1>2
<1>4. l # i
  BY <1>1, <1>3
<1>5. first + l - 1 = first + i - 1
  BY <1>1, <1>2, <1>3, <1>4
<1>6. first \in Nat
  BY TerminalsAre
<1> HIDE DEF r
<1> QED
  BY <1>1, <1>4, <1>5, <1>6

\* Another payment for the same win.
LEMMA OtherPointsRefused ==
  ASSUME NEW k, NEW start, NEW from, NEW first, Book(k, start, from, first),
         NEW c, Accepts(k, c), c # records[k], NEW i \in DOMAIN records[k].wins, NEW p,
         OneWin(records[k], c, i, [records[k].wins[i] EXCEPT !.points = p])
  PROVE  FALSE
<1> DEFINE r == records[k]
           old == r.wins[i]
           w == [old EXCEPT !.points = p]
<1>1. /\ DOMAIN c.wins = 1..Len(r.wins) /\ i \in 1..Len(r.wins) /\ old \in Win
      /\ c.wins[i] = w /\ (w = old => c = r)
  <2>1. Replaced(c, r, i, w)
    BY OneWinIs
  <2> HIDE DEF w
  <2> QED
    BY <2>1 DEF Replaced
<1>2. /\ \A j \in DOMAIN c.wins :
           c.wins[j].points = WinPoints(c.wins[j].seat = events[start].oya, c.wins[j].tsumo)
      /\ \A j \in 1..Len(r.wins) :
           r.wins[j].points = WinPoints(r.wins[j].seat = events[start].oya, r.wins[j].tsumo)
  <2>1. WinsPaid(c, start, DOMAIN c.wins) /\ WinsPaid(r, start, 1..Len(r.wins))
    BY SameEnding
  <2> QED
    BY <2>1 DEF WinsPaid
<1>3. w.points = p /\ w.seat = old.seat /\ w.tsumo = old.tsumo /\ (p = old.points => w = old)
  <2> HIDE DEF old
  <2> QED
    BY <1>1 DEF Win
<1>4. p = old.points
  <2> HIDE DEF w
  <2> QED
    BY <1>1, <1>2, <1>3
<1> QED
  BY <1>1, <1>3, <1>4

\* Another reason for the draw.
LEMMA OtherReasonRefused ==
  ASSUME NEW k, NEW start, NEW from, NEW first, Book(k, start, from, first),
         NEW c, Accepts(k, c), NEW r, r = records[k], c # r, r.wins = <<>>,
         NEW reason, c = [r EXCEPT !.reason = reason]
  PROVE  FALSE
<1>1. r \in Result /\ RecordValid(r)
  BY ResultFields DEF Book
<1>3. c.reason = r.reason
  BY SameEnding
<1>4. c.reason = reason /\ (reason = r.reason => c = r)
  BY <1>1 DEF Result
<1> QED
  BY <1>3, <1>4

\* What makes a record.
LEMMA SameRecord ==
  ASSUME NEW k, NEW start, NEW from, NEW first, Book(k, start, from, first),
         NEW scores \in [Seats -> Int], Before(records[k]) = scores,
         NEW c, c = FromStart(records[k], [kyotaku |-> records[k].potBefore, scores |-> scores])
  PROVE  c = records[k]
<1> DEFINE r == records[k]
           ev == [kyotaku |-> r.potBefore, scores |-> scores]
           changes == [s \in Seats |-> [r.changes[s] EXCEPT !.before = scores[s],
                                          !.delta = r.changes[s].after - scores[s]]]
           adjustment == IF r.adjustment = <<>> THEN r.adjustment
                         ELSE <<Plus(r.adjustment[1], Less(scores, Before(r)))>>
<1>1. /\ r \in Result /\ r.changes \in [Seats -> [before : Int, after : Int, delta : Int]]
      /\ r.adjustment \in Seq([Seats -> Int])
  BY ResultFields
<1>2. RecordValid(r) /\ DrawFits(events, start, r, k = engine.kyoku, first)
  BY DEF Book
<1>3. c = [r EXCEPT !.potBefore = r.potBefore, !.changes = changes, !.adjustment = adjustment]
  BY DEF FromStart, Before
<1>4. changes = r.changes
  <2>1. ASSUME NEW s \in Seats
        PROVE  [r.changes[s] EXCEPT !.before = scores[s],
                                    !.delta = r.changes[s].after - scores[s]] = r.changes[s]
    <3> DEFINE old == r.changes[s]
    <3>1. old \in [before : Int, after : Int, delta : Int]
      BY <1>1
    <3>2. scores[s] = old.before
      BY DEF Before
    <3>3. old.before + old.delta = old.after
      BY <1>2 DEF RecordValid
    <3> HIDE DEF old
    <3>4. old.after - scores[s] = old.delta
      BY <3>1, <3>2, <3>3
    <3>5. \A b, d \in Int : b = old.before /\ d = old.delta
            => [old EXCEPT !.before = b, !.delta = d] = old
      BY <3>1
    <3>6. [old EXCEPT !.before = scores[s], !.delta = old.after - scores[s]] = old
      BY <3>1, <3>2, <3>4, <3>5
    <3> QED
      BY <3>6 DEF old
  <2> QED
    BY <1>1, <2>1
<1>5. adjustment = r.adjustment
  <2>1. CASE r.adjustment # <<>>
    <3>1. r.wins = <<>>
      BY <1>2, <2>1 DEF RecordValid
    <3>2. Len(r.adjustment) = 1
      BY <1>2, <3>1 DEF DrawFits
    <3>3. \A q \in Seq([Seats -> Int]) : Len(q) = 1 => q = <<q[1]>>
      OBVIOUS
    <3>4. r.adjustment = <<r.adjustment[1]>>
      BY <1>1, <3>2, <3>3
    <3>5. r.adjustment[1] \in [Seats -> Int]
      <4>1. 1 \in 1..Len(r.adjustment)
        BY <3>2
      <4> QED
        BY <1>1, <4>1, ElementOfSeq, Zenon
    <3>6. \A a \in [Seats -> Int] : Plus(a, Less(scores, scores)) = a
      <4>1. ASSUME NEW a \in [Seats -> Int] PROVE Plus(a, Less(scores, scores)) = a
        <5>1. \A s \in Seats : a[s] + (scores[s] - scores[s]) = a[s]
          OBVIOUS
        <5> QED
          BY <5>1 DEF Plus, Less
      <4> QED
        BY <4>1
    <3>7. Plus(r.adjustment[1], Less(scores, Before(r))) = r.adjustment[1]
      BY <3>5, <3>6
    <3> QED
      BY <2>1, <3>4, <3>7
  <2> QED
    BY <2>1
<1> HIDE DEF changes, adjustment, r
<1>6. c = [r EXCEPT !.potBefore = r.potBefore, !.changes = r.changes, !.adjustment = r.adjustment]
  BY <1>3, <1>4, <1>5
<1>7. c = r
  BY <1>1, <1>6 DEF Result
<1> QED
  BY <1>7 DEF r

\* Without deposits the Kyoku has the scores and the pot it began with.
LEMMA NoDeposits ==
  ASSUME NEW k, NEW start, NEW from, NEW first, Book(k, start, from, first)
  PROVE  LET ev == events[start] IN
         /\ ev.scores \in [Seats -> Int]
         /\ \A i : DepositsIn(events, start, i) = {}
                     => ReachedIn(events, start, i) = [pot |-> ev.kyotaku, scores |-> ev.scores]
         /\ \A i \in Int : start <= i /\ i < first /\ ReachedIn(events, start, i).pot = ev.kyotaku
                             => DepositsIn(events, start, i) = {}
<1> DEFINE ev == events[start]
<1>1. events \in Seq(Event) /\ start \in 1..Len(events) /\ ev.kind = "start_kyoku"
      /\ start \in Nat /\ first \in Nat
  <2>1. events \in Seq(Event)
    BY DEF Book
  <2> QED
    BY <2>1, TerminalsAre
<1>2. ev.kyotaku \in Nat /\ ev.scores \in [Seats -> Int]
  <2>1. ev \in Event
    BY <1>1
  <2> HIDE DEF ev
  <2> QED
    BY <1>1, <2>1 DEF Event
<1>3. Cardinality({}) = 0
  BY FS_EmptySet
<1>4. ASSUME NEW i, DepositsIn(events, start, i) = {}
      PROVE  ReachedIn(events, start, i) = [pot |-> ev.kyotaku, scores |-> ev.scores]
  <2>1. \A s : DepositsOfIn(events, s, start, i) = {}
    BY <1>4 DEF DepositsOfIn
  <2>2. ReachedIn(events, start, i).pot = ev.kyotaku + 0
        /\ \A s \in Seats : ReachedIn(events, start, i).scores[s] = ev.scores[s] - Stick * 0
    BY <1>3, <1>4, <2>1 DEF ReachedIn
  <2>3. ev.kyotaku + 0 = ev.kyotaku
    BY <1>2
  <2>4. \A s \in Seats : ev.scores[s] - Stick * 0 = ev.scores[s]
    BY <1>2 DEF Stick
  <2>5. ReachedIn(events, start, i)
          = [pot |-> ReachedIn(events, start, i).pot,
             scores |-> [s \in Seats |-> ReachedIn(events, start, i).scores[s]]]
    BY DEF ReachedIn
  <2>6. ev.scores = [s \in Seats |-> ev.scores[s]]
    BY <1>2
  <2> HIDE DEF ev
  <2>7. [s \in Seats |-> ReachedIn(events, start, i).scores[s]] = [s \in Seats |-> ev.scores[s]]
    BY <2>2, <2>4
  <2> QED
    BY <2>2, <2>3, <2>5, <2>6, <2>7
<1>5. ASSUME NEW i \in Int, start <= i, i < first, ReachedIn(events, start, i).pot = ev.kyotaku
      PROVE  DepositsIn(events, start, i) = {}
  <2> DEFINE D == DepositsIn(events, start, i)
  <2>1. IsFiniteSet(D)
    <3>1. IsFiniteSet(start + 1..i)
      <4>1. start + 1 \in Int /\ i \in Int
        BY <1>1, <1>5
      <4> QED
        BY <4>1, FS_Interval, Zenon
    <3>2. D \in SUBSET (start + 1..i)
      BY DEF DepositsIn
    <3> HIDE DEF D
    <3> QED
      BY <3>1, <3>2, FS_Subset
  <2>2. ev.kyotaku + Cardinality(D) = ev.kyotaku
    BY <1>5 DEF ReachedIn
  <2> HIDE DEF D, ev
  <2>3. Cardinality(D) = 0
    <3>1. Cardinality(D) \in Nat
      BY <2>1, FS_CardinalityType
    <3> QED
      BY <1>2, <2>2, <3>1
  <2>4. D = {}
    BY <2>1, <2>3, FS_EmptySet
  <2> QED
    BY <2>4 DEF D
<1> QED
  BY <1>2, <1>4, <1>5

\* The same settlement, told from the start of the Kyoku.
LEMMA EarlierStartRefused ==
  ASSUME NEW k, NEW start, NEW from, NEW first, Book(k, start, from, first),
         NEW c, Accepts(k, c), c # records[k], c = FromStart(records[k], events[start])
  PROVE  FALSE
<1> DEFINE r == records[k]
           ev == events[start]
           D == DepositsIn(events, start, from)
           deposits == DepositsIn(events, start, first - 1)
           begun == [pot |-> ev.kyotaku, scores |-> ev.scores]
           fits == {i \in {start} \cup deposits : ReachedIn(events, start, i) = begun}
           later == {i \in deposits : \A b \in fits : b < i}
<1>1. /\ ev.scores \in [Seats -> Int]
      /\ \A i : DepositsIn(events, start, i) = {} => ReachedIn(events, start, i) = begun
      /\ \A i \in Int : start <= i /\ i < first /\ ReachedIn(events, start, i).pot = ev.kyotaku
                          => DepositsIn(events, start, i) = {}
  BY NoDeposits
<1>2. /\ r \in Result /\ r.changes \in [Seats -> [before : Int, after : Int, delta : Int]]
      /\ r.adjustment \in Seq([Seats -> Int])
  BY ResultFields
<1>3. c.potBefore = ev.kyotaku /\ Before(c) = ev.scores
  <2> DEFINE changes == [s \in Seats |-> [r.changes[s] EXCEPT !.before = ev.scores[s],
                                             !.delta = r.changes[s].after - ev.scores[s]]]
             adjustment == IF r.adjustment = <<>> THEN r.adjustment
                           ELSE <<Plus(r.adjustment[1], Less(ev.scores, Before(r)))>>
  <2>1. c = [r EXCEPT !.potBefore = ev.kyotaku, !.changes = changes, !.adjustment = adjustment]
    BY DEF FromStart, Before
  <2>2. c.potBefore = ev.kyotaku /\ c.changes = changes
    <3> HIDE DEF r, ev, changes, adjustment
    <3> QED
      BY <1>2, <2>1 DEF Result
  <2>3. ASSUME NEW s \in Seats PROVE changes[s].before = ev.scores[s]
    <3> DEFINE old == r.changes[s]
    <3>1. old \in [before : Int, after : Int, delta : Int]
      BY <1>2
    <3>2. changes[s] = [old EXCEPT !.before = ev.scores[s], !.delta = old.after - ev.scores[s]]
      OBVIOUS
    <3> HIDE DEF old, ev, changes
    <3> QED
      BY <3>1, <3>2
  <2>4. Before(c) = [s \in Seats |-> ev.scores[s]]
    <3> HIDE DEF changes, ev
    <3> QED
      BY <2>2, <2>3 DEF Before
  <2> HIDE DEF ev
  <2> QED
    BY <1>1, <2>2, <2>4
<1>4. /\ \A i \in D : i \in Int /\ start < i /\ i < from
      /\ \A i \in deposits : i \in Int /\ start < i /\ i < first
      /\ D \subseteq deposits
      /\ start \in Nat /\ first \in Nat /\ from \in Nat /\ start <= from /\ from < first
  BY DepositsOfKyoku, TerminalsAre
<1>5. later = {} \/ later = {first - 1}
  <2>1. BeforeFits(start, first, c.end, c)
    <3>1. c.end = r.end /\ SettlementFits(k, c)
      BY SameBoundary DEF Accepts
    <3> QED
      BY <3>1, SettlementIs
  <2>2. [pot |-> c.potBefore, scores |-> [s \in Seats |-> c.changes[s].before]] = begun
    BY <1>3 DEF Before
  <2> QED
    BY <2>1, <2>2, SameCounts DEF BeforeFits
<1>6. fits \subseteq {start}
  <2>1. ASSUME NEW i \in deposits, ReachedIn(events, start, i) = begun PROVE FALSE
    <3>1. i \in Int /\ start < i /\ i < first /\ start <= i
      BY <1>4
    <3>2. DepositsIn(events, start, i) = {}
      BY <1>1, <2>1, <3>1
    <3>3. i \in start + 1..i /\ events[i].kind = "reach_accepted"
      BY <1>4, <3>1 DEF DepositsIn
    <3> QED
      BY <3>2, <3>3 DEF DepositsIn
  <2> QED
    BY <2>1
<1>7. D = {}
  <2> SUFFICES ASSUME NEW l \in D PROVE FALSE
    OBVIOUS
  <2>1. l \in Int /\ start < l /\ l < from /\ l \in deposits
    BY <1>4
  <2>2. l \in later
    BY <1>6, <2>1
  <2>3. l = first - 1
    BY <1>5, <2>2
  <2> QED
    BY <1>4, <2>1, <2>3
<1>8. begun = [pot |-> r.potBefore, scores |-> Before(r)]
  <2>1. ReachedIn(events, start, from) = [pot |-> r.potBefore, scores |-> Before(r)]
    BY DEF Book
  <2> QED
    BY <1>1, <1>7, <2>1
<1>9. ev.kyotaku = r.potBefore /\ ev.scores = Before(r)
  BY <1>8
<1>10. c = FromStart(r, [kyotaku |-> r.potBefore, scores |-> ev.scores])
  BY <1>9 DEF FromStart
<1>11. c = r
  BY <1>1, <1>9, <1>10, SameRecord
<1> QED
  BY <1>11

\* Another payment of a draw, the evidence with it, before the last Kyoku.
LEMMA OtherEvidenceRefused ==
  ASSUME NEW k, NEW start, NEW from, NEW first, Book(k, start, from, first),
         NEW c, Accepts(k, c), k # engine.kyoku, c \in WithEvidence(records[k])
  PROVE  FALSE
<1> DEFINE r == records[k]
<1>1. /\ r \in Result /\ r.changes \in [Seats -> [before : Int, after : Int, delta : Int]]
  BY ResultFields
<1>2. After(c) = After(r)
  BY SameSettlement
<1>3. PICK s \in Seats : c = [r EXCEPT !.changes[s].after = @ + Stick, !.changes[s].delta = @ + Stick,
                                       !.adjustment[1][s] = @ - Stick]
  BY DEF WithEvidence
<1> DEFINE old == r.changes[s]
           new == [old EXCEPT !.after = @ + Stick, !.delta = @ + Stick]
<1>4. old \in [before : Int, after : Int, delta : Int] /\ Stick \in Int
  BY <1>1 DEF Stick
<1>5. c.changes = [r.changes EXCEPT ![s] = new]
  <2> DEFINE y == [r EXCEPT !.changes[s].after = @ + Stick, !.changes[s].delta = @ + Stick]
  <2>1. y = [r EXCEPT !.changes = [r.changes EXCEPT ![s] = new]]
    BY <1>1 DEF Result
  <2>2. \E a : c = [y EXCEPT !.adjustment = a]
    BY <1>3
  <2> HIDE DEF y, new, r
  <2>3. c.changes = y.changes
    BY <1>1, <2>1, <2>2 DEF Result
  <2> QED
    BY <1>1, <2>1, <2>3 DEF Result
<1>6. new \in [before : Int, after : Int, delta : Int] /\ new.after = old.after + Stick
  <2> HIDE DEF old
  <2> QED
    BY <1>4, ChangeOf, Zenon
<1> HIDE DEF new, old, r
<1>8. c.changes[s] = new
  BY <1>1, <1>5
<1>9. c.changes[s].after = r.changes[s].after
  BY <1>2 DEF After
<1>10. old.after \in Int
  BY <1>4
<1> QED
  BY <1>6, <1>8, <1>9, <1>10 DEF Stick, old

\* No altered record is accepted in the place of the filed one.
LEMMA ChangedRefused ==
  ASSUME Assumption, NEW k, NEW start, NEW from, NEW first, Book(k, start, from, first),
         NEW r, r = records[k], NEW c, c # r, Accepts(k, c), c \in Changed(r)
  PROVE  FALSE
<1>1. \/ c \in {[r EXCEPT !.potBefore = @ + 1], [r EXCEPT !.potAfter = @ + 1],
                [r EXCEPT !.seq = @ + 1], [r EXCEPT !.end = @ - 1], [r EXCEPT !.end = @ + 1]}
      \/ \E s \in Seats : c \in OtherMoney(r, s)
      \/ \E i \in DOMAIN r.wins : c \in OtherWin(r, i)
      \/ c \in OtherEnd(r)
  BY DEF Changed
<1>2. ASSUME NEW s \in Seats, c \in OtherMoney(r, s)
      PROVE  FALSE
  BY <1>2, OtherBeforeRefused, OtherAfterRefused DEF OtherMoney
<1>3. c \in OtherEnd(r) => FALSE
  <2>1. CASE r.wins = <<>>
    <3>1. c \in OtherEnd(r) => \E reason : c = [r EXCEPT !.reason = reason]
      BY <2>1, Zenon DEF OtherEnd
    <3> QED
      BY <2>1, <3>1, OtherReasonRefused
  <2>2. CASE r.wins # <<>>
    <3>1. c \in OtherEnd(r) => c = [r EXCEPT !.wins = SubSeq(@, 1, Len(@) - 1)]
      BY <2>2, Zenon DEF OtherEnd
    <3> QED
      BY <2>2, <3>1, FewerWinsRefused
  <2> QED
    BY <2>1, <2>2
<1>5. ASSUME NEW i \in DOMAIN r.wins, NEW s \in Seats, s # r.wins[i].seat, c = WonByOther(r, i, s)
      PROVE  FALSE
  <2> DEFINE old == r.wins[i]
             w == [old EXCEPT !.seat = s, !.tsumo = (s = old.target)]
  <2>1. r \in Result /\ r.wins \in Seq(Win) /\ old \in Win
    <3>1. r \in Result /\ r.wins \in Seq(Win)
      BY ResultFields DEF Win
    <3> QED
      BY <3>1, WinsOf, Zenon
  <2>2. OneWin(r, c, i, w)
    <3>1. c = [r EXCEPT !.wins = [r.wins EXCEPT ![i] = w]]
      BY <1>5, <2>1 DEF WonByOther
    <3> QED
      BY <3>1 DEF OneWin
  <2>3. w.index = old.index /\ w.seat = s
    <3> HIDE DEF old
    <3> QED
      BY <2>1 DEF Win
  <2> HIDE DEF w
  <2> QED
    BY <1>5, <2>2, <2>3, OtherWinnerRefused
<1>6. ASSUME NEW i \in DOMAIN r.wins, NEW p, c = WonFor(r, i, p)
      PROVE  FALSE
  <2>1. OneWin(r, c, i, [r.wins[i] EXCEPT !.points = p])
    BY <1>6 DEF OneWin, WonFor
  <2> QED
    BY <2>1, OtherPointsRefused
<1>7. ASSUME NEW i \in DOMAIN r.wins, c \in OtherWin(r, i)
      PROVE  FALSE
  <2>1. \/ \E s \in Seats : s # r.wins[i].seat /\ c = WonByOther(r, i, s)
        \/ \E p : c = WonFor(r, i, p)
    BY <1>7 DEF OtherWin
  <2> QED
    BY <1>5, <1>6, <1>7, <2>1
<1> QED
  BY <1>1, <1>2, <1>3, <1>7, OtherNumberRefused

\* The reader tells the filed result of a Kyoku from others: a record with other points,
\* another winner, another draw or another place, one that begins with what its start says,
\* or whose evidence is altered with its points, is refused.
THEOREM OthersAreRefused ==
  ASSUME Assumption, ResultsInv
  PROVE  ChangedResultsAreRefused
<1> SUFFICES ASSUME engine.done, NEW k \in DOMAIN records, NEW c,
                    c \in Changed(records[k]) \cup {FromStart(records[k], events[Start(k)])}
                            \cup (IF k < Len(records) THEN WithEvidence(records[k]) ELSE {}),
                    c # records[k], Joins([records EXCEPT ![k] = c])
             PROVE  FALSE
  BY DEF ChangedResultsAreRefused
<1>1. k \in 1..engine.kyoku /\ Len(records) = engine.kyoku /\ engine.kyoku \in Nat
      /\ \A j \in 1..engine.kyoku : \E start, from, first : Book(j, start, from, first)
  BY Books
<1>2. PICK start, from, first : Book(k, start, from, first)
  BY <1>1
<1>3. Accepts(k, c)
  <2> DEFINE rs == [records EXCEPT ![k] = c]
  <2>1. k \in DOMAIN rs /\ rs[k] = c
    OBVIOUS
  <2> HIDE DEF rs
  <2>2. Joins(rs)
    BY DEF rs
  <2> QED
    BY <2>1, <2>2 DEF Joins, Accepts
<1>4. Start(k) = start
  BY <1>2 DEF Book
<1>5. CASE c \in Changed(records[k])
  BY <1>2, <1>3, <1>5, ChangedRefused
<1>6. CASE c = FromStart(records[k], events[Start(k)])
  BY <1>2, <1>3, <1>4, <1>6, EarlierStartRefused
<1>7. CASE k < Len(records) /\ c \in WithEvidence(records[k])
  BY <1>1, <1>2, <1>3, <1>7, OtherEvidenceRefused
<1> QED
  BY <1>5, <1>6, <1>7

\* Settlement: in every Match the results are readable, no point is lost and a changed
\* result is refused, for three or four seats and any number of Kyoku.
THEOREM RecordsAreSettled ==
  ASSUME Assumption
  PROVE  Spec => [](ResultsAreReadable /\ PointsAreKept /\ ChangedResultsAreRefused)
<1>1. ResultsInv => ResultsAreReadable /\ PointsAreKept /\ ChangedResultsAreRefused
  BY BooksAreReadable, PointsHold, OthersAreRefused
<1> QED
  BY <1>1, ResultsHold, PTL
=============================================================================
